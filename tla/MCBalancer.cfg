CONSTANTS
  Threshold = 1
  SuccessThreshold = 2
  s1 = s1
  s2 = s2
  Servers <- MCServers
  Hostgroups = {0, 1}
  Default = 0
  Requests = {r1, r2}
  Loaders = {l1, l2}
  Tables <- ThreeTables
  NoServer = NoServer
  NoTable = NoTable
SYMMETRY Symmetry
SPECIFICATION Spec
INVARIANTS TypeOK NoPhantomLoad SelectionSeesOneTable PopulatedHaveCounters SomebodyIsChosen
PROPERTY ImplementsAtomicBalancer
