\* An HMutex and a KMutex, a stack of up to three entries, one open noalloc
\* section; HMutex::lock() is called with or without guards held.
CONSTANTS
  m1 = m1  m2 = m2
  Locks = {m1, m2}
  HLocks = {m1}
  NoLock = NoLock
  MAX_CONTEXTS = 1
  MAX_GUARDS = 3
  MAX_SECTIONS = 1
SPECIFICATION HSpec
INVARIANTS Shielded Restored NoSelfDeadlock WaitsAsCalled
