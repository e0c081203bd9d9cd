SPECIFICATION TopupsSpec
CONSTANTS
  Users = {u1, u2}
  OrderIds = {}
  TopupIds = {t1, t2}
  References = {t1, t2}
  TxIds = {x1, x2}
  Credits = {1, 2}
  Reviews = {v1, v2, v3}
  TTL = 1
  MaxTime = 3
  NoOrder = NoOrder
  NoReview = NoReview
  NoTopup = NoTopup
  Opening <- NoCredits
SYMMETRY Symmetry
CHECK_DEADLOCK FALSE
INVARIANTS
  TopupsTypeOK
  CreditedIffApproved
  ApprovedInTime
PROPERTIES
  ReviewIsFinal
  KeepsLedgerPromise
