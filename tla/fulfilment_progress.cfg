SPECIFICATION FairSpec
CONSTANTS
  Parts = {"scan", "pages", "report parts", "locks", "topup reviews"}
  Two = {o1, o2}
  Calls = {r1, r2}
  MaxRows = 1
  MaxFaults = 1
  MaxPdfs = 4
  None = None
  Overlap = 2
  MaxSize = 4
  MaxBatch = 2
  MaxEvents = 1
  Customers = {"u1"}
  ClientIds = {"q1"}
  NoClientId = ""
  SheetRows <- TwoSheets
  SheetOwner <- TwoOwners
  Confirmations = {"c1", "c2"}
  Parcels = {1, 2}
  SharedCode <- OneForBoth
  OwnCode <- OneForEach
  Syncs = {"s1", "s2"}
  Customer = "u1"
  Reviewers = {"a1"}
  Transfers = {"p1"}
CHECK_DEADLOCK FALSE
PROPERTIES
  BegunIsEnded
