SPECIFICATION FairSpec
CONSTANTS
  Servers = {s1, s2}
  EmbeddingServers = {s1}
  Requests = {r1, r2}
  Asks <- MixedAsks
  Keys = {"k1", "k2", "k3"}
  RetryLimits <- Limits
  MayPanic = TRUE
  Threshold = 1
  SuccessThreshold = 1
  NoServer = NoServer
  NoRequest = NoRequest
  Failed = Failed
INVARIANTS LoadAccounted OneCallPerKey AnswersAreEarned
PROPERTIES ImplementsSingleFlight AnsweredUnlessAbandoned
CHECK_DEADLOCK FALSE
