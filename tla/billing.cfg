SPECIFICATION MCSpec
CONSTANTS
  Users = {u1, u2}
  OrderIds = {o1, o2}
  References = {o1, o2}
  Codes = {c1, c2}
  Requests = {r1, r2, r3, r4}
  OpeningCredit = 2
  Settings <- MCSettings
  Amounts = {1}
  NoOrder = NoOrder
  NoCode = NoCode
  NoRow = NoRow
  Price <- MCPrice
  Opening <- MCOpening
SYMMETRY Symmetry
CHECK_DEADLOCK FALSE
INVARIANTS
  TypeOK
  PaidExactlyWhenCharged
  ImportPaysPrefix
  DebitedOnce
  ResultLostInTornSaveOnly
  LedgerBacksBalance
PROPERTIES
  KeepsLedgerPromise
  DeletedForGood
