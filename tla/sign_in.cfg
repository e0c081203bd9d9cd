SPECIFICATION Spec
CONSTANTS
  Parts = {"codes", "codes alone", "sessions", "sessions alone", "registrations", "registrations alone", "adjustments", "accounts alone", "accounts at once", "pages"}
  Overlap <- MCOverlap
  None = None
  Users = {"e1", "e2"}
  OrderIds = {}
  References = {}
  NoOrder = None
  Opening <- MCOpening
  Calls = {r1, r2, r3, r4}
  Changes = {1, 2}
  CodeTime = 1
  Ttl = 1
  MaxAttempts = 2
  Limit = 2
  Window = 1
  VerifyLimit = 3
  Devices = {"d1"}
  MaxTokens = 4
  MaxCrashes = 1
  Cooldown = 2
  PageTime = 5
  HastyTime = 2
  HastyCalls = 2
SYMMETRY Symmetry
CHECK_DEADLOCK FALSE
INVARIANTS
  SignInTypeOK
  OncePerSignIn
  LimitsKept
  RowsAgree
  PageFollowsServer
PROPERTIES
  TakenAwayStays
