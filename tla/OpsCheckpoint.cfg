SPECIFICATION OperationSpec
CONSTANTS
  Absent = Absent
  Workers = {w1}
  Ops = {o1}
  OpKinds = {"warm"}
  WarmItems = 2
  MaxQueued = 1
  MaxStored = 1
  MaxRunning = 1
  OpFaults = {"stop"}
  MaxOpBoots = 2
  MaxLeases = 2
  MaxCancels = 0
INVARIANTS RecordedNotRepeated
CHECK_DEADLOCK FALSE
