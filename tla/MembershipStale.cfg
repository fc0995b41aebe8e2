SPECIFICATION MembershipSpec
CONSTANTS
  None = None
  Instances = {m1, m2, m3}
  Bootstrap = {m1, m2}
  Established = TRUE
  MaxRequests = 5
  MaxOrdinary = 1
  MaxVersion = 4
  MaxMembershipEpochs = 3
  MembershipFaults = {"aging"}
PROPERTIES ActivationResolves
CHECK_DEADLOCK FALSE
