SPECIFICATION FairSpec
CONSTANTS
  m1 = m1
  m2 = m2
  m3 = m3
  r1 = r1
  r2 = r2
  Base = Base
  None = None
  Members = {m1, m2}
  Requests = {r1}
  CanaryOf <- Canaries
  Rejects <- NobodyRejects
  Faults = {"stop", "timeout"}
  Repairs = {"scan", "pending", "settled"}
  MaxBoots = 2
  MaxEpoch = 3
  MaxEtag = 3
PROPERTIES RolloutTerminates
CHECK_DEADLOCK FALSE
