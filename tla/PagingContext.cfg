SPECIFICATION Spec
CONSTANTS
  c1 = c1  c2 = c2  t1 = t1  t2 = t2  t3 = t3
  CPUs = {c1, c2}
  Threads = {t1, t2, t3}
  On <- MCOn
  Contexts = {x1, x2}
  Global = Global
  Pages = {p1}
  GPages = {g1}
  Frames = {f1}
  Absent = Absent
  None = None
SYMMETRY PagingSymmetry
INVARIANTS CountExact UnawareWriterAlone NoStaleTranslation
