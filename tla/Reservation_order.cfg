SPECIFICATION Spec
CONSTANTS
  p1 = p1  p2 = p2  t1 = t1  t2 = t2  t3 = t3  i1 = i1  i2 = i2  i3 = i3
  None = None
  Thread = {t1, t3}
  Proc = {p1, p2}
  Home <- HomeAlone
  Resource = {1, 2}
  Inode = {i1, i2, i3}
SYMMETRY Inodes
INVARIANTS NoDeadlyEmbrace RaisedHoldsNothing
