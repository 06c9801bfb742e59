\* Four threads, two of which also use the try_* methods; a 10-bit word.
CONSTANTS
  Threads = {t1, t2, t3, t4}
  TryCallers = {t1, t2}
  EXCLUSIVE_THRESHOLD = 8
  UPGRADER = 16
  WRITER = 128
  USIZE = 1024
SPECIFICATION FairSpec
INVARIANTS MutualExclusion WordCounts
PROPERTIES ImplementsRwLock SomeoneGetsTheLock UpgradeCompletes
