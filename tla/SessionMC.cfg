CONSTANTS
  Clients = {c1, c2}
  ServerGuid = s
  InitialGuids = {s, g}
  Drawn = {1, 2, 3, 4}
  Guids = {s, g, 1, 2, 3, 4}
  NoGuid = NoGuid
  Nobody = Nobody
  Server = Server
  MaxConnections = 3
  MaxCollections = 1
SPECIFICATION Spec
SYMMETRY Symmetry
CONSTRAINT Explored
ACTION_CONSTRAINT InOrder
INVARIANTS TypeOK ServerGuidsUnique OthersExcludeSelf
PROPERTY NoSharedByAdoption
CHECK_DEADLOCK FALSE
