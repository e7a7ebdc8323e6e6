SPECIFICATION FairSpec
CONSTANTS
  mina = mina
  enemy = enemy
  wand = wand
  Entities = {mina, enemy, wand}
  Mina = mina
  ScriptsFirst = FALSE
  MaxNuid = 2
  MaxSaves = 2
INVARIANT TypeOK
INVARIANT ReportedReallyDied
PROPERTY NuidFresh
PROPERTY DeathAnnounced
CHECK_DEADLOCK FALSE
