SPECIFICATION Spec
CONSTANTS
  b = b
  a = a
  CPUs = {b, a}
  BSP = b
  HEAP = 1
  PHYS = 6
  BOOT_STACK = 1
  RESCUE = 2
  EXPAND = 1
  OtherCode <- Other
  MAX_GROWTHS <- Growths
INVARIANTS
  MemoryHasOneOwner
  ReserveNeverOverwritten
  HooksDoNotStack
  RescueHangsOnCallersLocks
PROPERTY ReserveComesBack
CHECK_DEADLOCK FALSE
