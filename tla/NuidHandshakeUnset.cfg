CONSTANTS
  c1 = c1
  Clients = {c1, c2}
  Server = Server
  Ids = {1, 2}
  Unknown = Unknown
  Entities <- MCEntities
  Mina <- MCMina
  CopyId <- MCCopyId
  Returning = {}
  MaxGuids = 0
  MaxNuid = 2
  MaxConnects = 1
  MaxCollections = 0
  MaxQueue = 1
SPECIFICATION FairSpec
CONSTRAINT Explored
PROPERTY WillBeSet
CHECK_DEADLOCK FALSE
