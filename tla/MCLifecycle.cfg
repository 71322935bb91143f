SPECIFICATION Spec
CONSTANTS
  s1 = s1
  Watched = {s1}
  ProviderOf <- MCProviderOf
  Ids = {i1}
  NoId = NoId
  Browsers = {b1}
  Clients = {c1}
  People <- MCPeople
  MySQLSetup <- MCMySQLSetup
  Calls = {r1}
  Order <- MCOrder
INVARIANTS
  CommandsFinish
  SessionsAdmit
  NoticesAreCurrent
PROPERTIES
  OldRequestsDrain
  ShutdownEnds
CHECK_DEADLOCK FALSE
