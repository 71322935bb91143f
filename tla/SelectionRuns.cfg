CONSTANTS
  MaxServers = 3
  MaxWeight = 3
  MaxPicks = 10
SPECIFICATION RunSpec
INVARIANTS AlwaysOnePick RoundRobinShares LoadsStayLevel
CHECK_DEADLOCK FALSE
