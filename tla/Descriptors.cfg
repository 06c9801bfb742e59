\* Three handles or initialisers at a time, tables of two slots with two sub-tables
\* each, two levels deep; three descriptors are created.
CONSTANTS
  h1 = h1  h2 = h2  h3 = h3
  Handles = {h1, h2, h3}
  NoHandle = NoHandle
  N = 2
  M = 2
  MAX_DEPTH = 1
  MAX_ID = 3
  RC = 65536
SYMMETRY HandleSymmetry
SPECIFICATION Spec
INVARIANTS HandlesSeeTheirDescriptor WritersAlone NothingLeaks
PROPERTY HeldIsFound
CHECK_DEADLOCK FALSE
