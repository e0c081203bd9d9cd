SPECIFICATION Spec
CONSTANTS
  Parts = {"import", "design", "viewer", "staff filters", "own filters", "desk", "desk shared", "panel", "panel alone"}
  Two = {o1, o2}
  Null = Null
  Sheets = {"good", "bad", "long"}
  TooLong = {"long"}
  Broken = {"bad"}
  MaxUploads = 3
  MaxConfirms = 2
  Offered = {"design_2d", "poster"}
  Files = {"a", "b"}
  Submits = {"s1", "s2"}
  MaxBalance = 12
  MaxEdits = 4
  MaxResults = 1
  MaxFetches = 3
  MinZoom = 3
  MaxZoom = 5
  Days = {"mon"}
  Words = {"w"}
  MaxPage = 2
  Numbers = {1, 2}
  PageSize = 1
  Filter = "pending"
  Credits = 1
  SharedCredits = 0
  MaxStarts = 1
  Edited = {"o1"}
  Texts = {"x"}
  Edits = {"result"}
  Selects = {"status"}
  MaxCalls = 2
  MaxAlone = 3
SYMMETRY Symmetry
CHECK_DEADLOCK FALSE
INVARIANTS
  OrderPagesTypeOK
  ShownIsChosen
  PressedOnce
  QuietIsServer
PROPERTIES
  StepsForward
