SPECIFICATION MCSpec
CONSTANTS
  Users = {u1}
  OrderIds = {o1}
  References = {o1}
  Codes = {c1}
  Requests = {r1, r2}
  OpeningCredit = 2
  Settings <- Fails
  Amounts = {1}
  NoOrder = NoOrder
  NoCode = NoCode
  NoRow = NoRow
  Price <- MCPrice
  Opening <- MCOpening
SYMMETRY Symmetry
CHECK_DEADLOCK FALSE
INVARIANTS
  RefundHonoured
