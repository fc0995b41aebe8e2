SPECIFICATION ProgressSpec
CONSTANTS
  m1 = m1
  m2 = m2
  r1 = r1
  Base = Base
  None = None
  Members = {m1, m2}
  Requests = {r1}
  CanaryOf <- FirstMember
  Rejects <- NobodyRejects
  Faults = {"reject", "timeout"}
  Repairs = {"scan", "pending", "settled"}
  MaxBoots = 1
  MaxEpoch = 1
  MaxEtag = 3
PROPERTIES RolloutTerminates CommitsUnlessRefused
CHECK_DEADLOCK FALSE
