SPECIFICATION FairSpec
CONSTANTS
  Main = main
  Threads = {main, co}
  Tables = {t}
  Functions = {f}
  Upvals = {u}
  Strings = {s}
  Udatas = {d, e}
  NoThread = NoThread
  MaxStack = 2
  MaxRefs = 3
CONSTRAINT Explored
INVARIANTS TypeOK NoDangling TriColour BetweenCycles
PROPERTIES FinalizedFirst WeakKept GarbageFreed
