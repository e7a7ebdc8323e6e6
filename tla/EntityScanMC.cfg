SPECIFICATION FairSpec
CONSTANTS
  Count = 3
  Entities <- MCEntities
  Parent <- MCParent
  NoParent = 0
  MaxChanges = 2
INVARIANTS TypeOK AnnouncedFirst OnePerTick ParentsHaveNuids
PROPERTY EventuallyNumbered
