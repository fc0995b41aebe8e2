SPECIFICATION AdmissionSpec
CONSTANTS
  high = high
  low = low
  Void = Void
  Callers = {c1, c2, c3}
  Slots = {"request", "upstream", "route"}
  GlobalSlot = "request"
  Guarded = {"route"}
  SlotSets = {}
  Classes = {high, low}
  ReservedRequests <- OneReserved
  MaxShare <- HalfForLow
  MaxPending <- TwoEach
  QueueLimit <- TwoQueued
  MaxProbes = 1
  HalfOpenSuccesses = 2
  Configs <- AnyConfig
INVARIANTS PrioritiesServed
