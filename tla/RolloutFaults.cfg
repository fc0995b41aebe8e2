SPECIFICATION ScenarioSpec
CONSTANTS
  m1 = m1
  m2 = m2
  r1 = r1
  r2 = r2
  Base = Base
  None = None
  Members = {m1, m2}
  Requests = {r1, r2}
  CanaryOf <- Canaries
  Rejects <- NobodyRejects
  Faults = {"reject", "timeout", "lease", "lapse", "stop", "store"}
  Repairs = {"scan", "pending", "settled"}
  MaxBoots = 2
  MaxEpoch = 3
  MaxEtag = 4
INVARIANTS TypeOK ReservationExact EffectCheckpointed PhaseAgreement EffectRecorded SettledUnlessTwice
PROPERTIES LedgerSpec AdmissionConverged CommitConverged RestoredUnlessTwice
CHECK_DEADLOCK FALSE
