SPECIFICATION GatewaySpec
CONSTANTS
  Replicas = {i1, i2}
  Pods = {p1, p2}
  Revisions = {a, b}
  NoneYet = NoneYet
  MaxTerms = 2
  MaxEdits = 1
PROPERTIES ProgrammedMatchesSource
CHECK_DEADLOCK FALSE
