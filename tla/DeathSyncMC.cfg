CONSTANTS
  c1 = c1
  c2 = c2
  Clients = {c1, c2}
  Server = Server
  Nuids = {1, 2}
  Own = {1}
  MaxId = 2
  MaxConnects = 2
  MaxCollections = 1
  MaxQueue = 1
SPECIFICATION FairSpec
CONSTRAINT Explored
INVARIANTS TypeOK DeathIsLast
PROPERTIES DeathReachesFirst DeathReachesServer
CHECK_DEADLOCK FALSE
