SPECIFICATION TopupsSpec
CONSTANTS
  Users = {u1}
  OrderIds = {}
  TopupIds = {t1}
  References = {t1}
  TxIds = {x1}
  Credits = {1}
  Reviews = {v1}
  TTL = 1
  MaxTime = 3
  NoOrder = NoOrder
  NoReview = NoReview
  NoTopup = NoTopup
  Opening <- NoCredits

CHECK_DEADLOCK FALSE
INVARIANTS
  ExpiredMayResubmit
