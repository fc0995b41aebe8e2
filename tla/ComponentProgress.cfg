SPECIFICATION ComponentSpec
CONSTANTS
  m1 = m1
  m2 = m2
  m3 = m3
  None = None
  Instances = {m1, m2, m3}
  Bootstrap = {m1, m2}
  Established = FALSE
  MaxRequests = 4
  MaxOrdinary = 1
  MaxVersion = 4
  MaxMembershipEpochs = 3
  MembershipFaults = {"indeterminate"}
  w1 = w1
  w2 = w2
  o1 = o1
  Absent = Absent
  Workers = {w1, w2}
  Ops = {o1}
  OpKinds = {"warm", "restartable", "nonresumable"}
  WarmItems = 2
  MaxQueued = 1
  MaxStored = 1
  MaxRunning = 1
  OpFaults = {"stop", "pause", "fail", "replay", "anchor"}
  MaxOpBoots = 3
  MaxLeases = 2
  MaxCancels = 1
INVARIANTS OperationTypeOK SuccessProved
PROPERTIES VerdictFinal DispatchFenced OperationsSettle ActivationResolves
CHECK_DEADLOCK FALSE
