CONSTANTS
  Clients = {c1, c2}
  Events = {connect2, entityData}
  CacheableEvents = {connect2}
  Identifiers = {1, 2}
  Addresses = {a1, a2, a3}
  Free = Free
  ULONG_MAX = ULONG_MAX
  MaxMessageId = 3
  MaxCollections = 0
SPECIFICATION Spec
PROPERTY SkippedOnlyIfSent
CHECK_DEADLOCK FALSE
