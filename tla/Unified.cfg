\* One allocation with two slots and two sections, and a stack of two pages and its
\* guard, in five pages of virtual memory.
CONSTANTS
  MAX_ORDER = 4
  MIN_SIZE = 2
  MemoryMaps <- SmallMaps
  kend = 4
  MAX_PAGES = 3
  Clients = {a1}
  StackAllocs = {s1, s2}
  NV = 5
  MapSizes = {1, 2}
  ExpandSizes = {1}
  StackSizes = {2}
  MAX_SLOTS = 2
  MAX_SECTIONS = 2
  None = None
SYMMETRY StackSymmetry
SPECIFICATION USpec
INVARIANTS
  MemoryConserved Coalesces
  NoDanglingMapping VirtualConserved BackingConserved StackGuarded
CHECK_DEADLOCK FALSE
