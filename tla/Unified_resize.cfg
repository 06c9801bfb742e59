\* An allocation that grows, as in Unified.cfg, without stacks.
CONSTANTS
  MAX_ORDER = 4
  MIN_SIZE = 2
  MemoryMaps <- SmallMaps
  kend = 4
  MAX_PAGES = 3
  Clients = {a1}
  StackAllocs = {}
  NV = 5
  MapSizes = {1, 2}
  ExpandSizes = {1}
  StackSizes = {2}
  MAX_SLOTS = 2
  MAX_SECTIONS = 2
  None = None
SPECIFICATION USpec
INVARIANT ResizedHolds
CHECK_DEADLOCK FALSE
