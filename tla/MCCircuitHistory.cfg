CONSTANTS
  Threshold = 2
  SuccessThreshold = 2
  Servers = {s1}
  Callers = {c1, c2, c3}
  NoServer = NoServer
  MaxFailures = 8
  MaxEvents = 8
SYMMETRY Symmetry
SPECIFICATION HSpec
INVARIANTS ClosedMeansNoFailureRun HalfOpenMeansProbing
PROPERTIES TripsOnlyOnFailureRun ClosesOnlyOnSuccessRun
CHECK_DEADLOCK FALSE
