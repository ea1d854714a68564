\* Syncs of two games overlap; what the source says changes between them.
CONSTANTS
  a = a
  b = b
  s1 = s1
  s2 = s2
  i1 = i1
  i2 = i2
  pc = pc
  ps = ps
  w1 = w1
  w2 = w2
  None = None
  Row = {1, 2, 3}
  Platform = {pc, ps}
  Title = {a, b}
  Slug = {s1, s2}
  Id = {i1, i2}
  Detail <- MCDetail
  Worker = {w1, w2}
  MaxSync = 3
  MaxDay = 2

SPECIFICATION Spec
CHECK_DEADLOCK FALSE

INVARIANTS
  TypeOK
  RollupsAgree
  OneGamePerTitle
