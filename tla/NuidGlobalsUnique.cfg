SPECIFICATION Spec
CONSTANTS
  mina = mina
  enemy = enemy
  wand = wand
  Entities = {mina, enemy}
  Mina = mina
  ScriptsFirst = TRUE
  MaxNuid = 2
  MaxSaves = 1
INVARIANT NuidUnique
CHECK_DEADLOCK FALSE
