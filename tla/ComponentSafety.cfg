SPECIFICATION ComponentSpec
CONSTANTS
  m1 = m1
  m2 = m2
  m3 = m3
  u1 = u1
  t1 = t1
  t2 = t2
  Members = {m1, m2, m3}
  Canary = m1
  Nil = Nil
  None = None
  Uploads = {u1}
  Tasks = {t1, t2}
  UploadKinds <- PlainAndDictionary
  MaxUploadBytes = 2
  MaxStorageBytes = 3
  MaxSessions = 1
  MaxParts = 2
  MaxConcurrentParts = 1
  UploadFaults = {"persist", "sync", "cancel"}
  MaxDraws = 2
  MaxEpoch = 5
  MaxStops = 1
  Instances = {m1, m2, m3}
  Bootstrap = {m1, m2}
  Established = TRUE
  MaxRequests = 5
  MaxOrdinary = 1
  MaxVersion = 2
  MaxMembershipEpochs = 3
  MembershipFaults = {"aging", "blocking", "indeterminate"}
  p1 = p1
  p2 = p2
  a = a
  b = b
  Replicas = {t1, t2}
  Pods = {p1, p2}
  Revisions = {a, b}
  NoneYet = NoneYet
  MaxTerms = 2
  MaxEdits = 1
SYMMETRY Interchangeable
INVARIANTS
  VerdictSound RollbackReaches DeadlineDecides
  UploadTypeOK ReferencesExist StorageBounded PartsTile CommittedKept LookupFences SentOnce
  MembershipTypeOK AuthorityChain NoneAcrossCutover VerdictsKept MembersProved
  CommittedServed
PROPERTIES TermsFenced
CHECK_DEADLOCK FALSE
