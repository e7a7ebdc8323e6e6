CONSTANTS
  EntityIds = {e1, e2, e3}
  Nuids = {n1}
  NoNuid = NoNuid
  Numbers = {p1, p2}
  Texts = {t1, t2}
  Addresses = {a1, a2}
  Freed = Freed
  None = None
  MaxSize = 4
SPECIFICATION Spec

PROPERTIES IsLossyStore OnlyNewestForgotten
INVARIANT TypeOK
SYMMETRY Symmetry
