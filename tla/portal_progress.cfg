SPECIFICATION FairSpec
CONSTANTS
  Parts = {"tabs", "waiting", "search", "export", "clock"}
  Pair = {i1, i2}
  Three = {o1, o2, o3}
  MaxTokens = 4
  MaxPeople = 1
  MaxOrders = 3
  TabCalls = {"c1", "c2"}
  ReviewCalls = {"c1", "c2"}
  RequestCalls = {"c1", "c2"}
  SharedCalls = {"c1", "c2", "c3"}
  Loads = {1, 2}
  FailingLoads = {1, 2}
  Presses = {1, 2}
  Accounts = {"u1"}
  MaxTyped = 2
  MaxPresses = 2
  RowLimit = 2
  MaxRows = 3
  DeviceCalls = {"c1", "c2", "c3"}
  AlonePeople = 5
  AloneTake = 3
  Unanswered = Unanswered
  Unread = Unread
  None = None
CHECK_DEADLOCK FALSE
PROPERTIES
  AskedIsAnswered
