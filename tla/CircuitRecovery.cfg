CONSTANTS
  Threshold = 2
  SuccessThreshold = 2
  Servers = {s1, s2}
  Callers = {c1, c2}
  NoServer = NoServer
  MaxFailures = 4
SPECIFICATION FairSpec
INVARIANT CountersAgree
PROPERTIES OpenUntilCooled RecoversWhenFailuresStop
