------------------------------- MODULE RwLock -------------------------------
(***************************************************************************)
(* What a reader-writer lock with an upgradable mode promises its callers, *)
(* as lock_api's RawRwLock, RawRwLockDowngrade, RawRwLockUpgrade and       *)
(* RawRwLockUpgradeDowngrade traits use it: only the mode each thread      *)
(* holds, every change of mode being one atomic step.  BaseRwLock (the     *)
(* lock word, sync/baselocks.rs) is checked and proved to implement it.    *)
(***************************************************************************)
CONSTANT Threads

VARIABLE mode        \* mode[t]: how thread t holds the lock

Modes == {"none", "read", "write", "upgradable"}

Free(m) == \A t \in Threads : mode[t] # m

OthersHoldNothing(t) == \A u \in Threads \ {t} : mode[u] = "none"

Move(t, from, to) ==
  /\ mode[t] = from
  /\ mode' = [mode EXCEPT ![t] = to]

RInit == mode = [t \in Threads |-> "none"]

\* A new reader is kept out by a writer and by an upgradable holder alike.
AcquireRead(t) == Move(t, "none", "read") /\ Free("write") /\ Free("upgradable")

AcquireWrite(t) == Move(t, "none", "write") /\ OthersHoldNothing(t)

\* Readers that are already in may stay while the upgradable mode is taken.
AcquireUpgradable(t) ==
  Move(t, "none", "upgradable") /\ Free("write") /\ Free("upgradable")

Upgrade(t) == Move(t, "upgradable", "write") /\ OthersHoldNothing(t)

Release(t) == \E m \in Modes \ {"none"} : Move(t, m, "none")

Downgrade(t) ==
  \/ Move(t, "write", "read")
  \/ Move(t, "write", "upgradable")
  \/ Move(t, "upgradable", "read")

RNext == \E t \in Threads :
  \/ AcquireRead(t) \/ AcquireWrite(t) \/ AcquireUpgradable(t)
  \/ Upgrade(t) \/ Release(t) \/ Downgrade(t)

RSpec == RInit /\ [][RNext]_mode
=============================================================================
