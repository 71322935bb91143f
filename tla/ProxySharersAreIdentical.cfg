SPECIFICATION Spec
CONSTANTS
  Servers = {s1}
  EmbeddingServers = {s1}
  Requests = {r1, r2}
  Asks <- AllAsks
  Keys = {"k1", "k2", "k3"}
  RetryLimits <- Limits
  MayPanic = FALSE
  Threshold = 2
  SuccessThreshold = 1
  NoServer = NoServer
  NoRequest = NoRequest
  Failed = Failed
INVARIANT SharersAreIdentical
CHECK_DEADLOCK FALSE
