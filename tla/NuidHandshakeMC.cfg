CONSTANTS
  c1 = c1
  Clients = {c1, c2}
  Server = Server
  Ids = {1, 2}
  Unknown = Unknown
  Entities <- MCEntities
  Mina <- MCMina
  CopyId <- MCCopyId
  Returning = {c1}
  MaxGuids = 1
  MaxNuid = 3
  MaxConnects = 2
  MaxCollections = 1
  MaxQueue = 1
SPECIFICATION FairSpec
CONSTRAINT Explored
INVARIANTS TypeOK OneNuid AnsweredOnce
PROPERTIES IsRegistry AnswerArrives
CHECK_DEADLOCK FALSE
