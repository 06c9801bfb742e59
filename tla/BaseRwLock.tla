---------------------------- MODULE BaseRwLock ------------------------------
(***************************************************************************)
(* BaseRwLockRaw (sync/baselocks.rs): the reader-writer lock that every    *)
(* spin lock of the kernel (llspin, kspin, yspin, hspin) is built on.  The *)
(* whole lock is one usize: WRITER is added for a writer, UPGRADER for an  *)
(* upgradable holder, 1 for a reader.  The optimistic try_lock_shared and  *)
(* try_lock_upgradable add first and take the addition back when they find *)
(* that they were too late, so the word also counts the attempts that are  *)
(* about to be undone.  An action is one atomic access to the word.        *)
(*                                                                         *)
(* The strategy's hooks (on_*_unlock, *_relax) do not touch the word.  The *)
(* build targets x86-64 only, where compare_exchange_weak never fails      *)
(* spuriously.                                                             *)
(***************************************************************************)
EXTENDS Integers, FiniteSets

CONSTANTS
  Threads,              \* the threads that share the lock
  TryCallers,           \* those of them that (also) call the try_* methods
  WRITER, UPGRADER,     \* what a writer, an upgradable holder adds
  EXCLUSIVE_THRESHOLD,  \* at or above it the lock is held exclusively
  USIZE                 \* number of values of a usize (2^64)

ASSUME ThreadsAssumption == IsFiniteSet(Threads) /\ TryCallers \subseteq Threads

\* 1<<56, 1<<48 and 1<<40 satisfy this for every number of threads below 2^16 - 2^8.
ASSUME LayoutAssumption ==
  /\ WRITER \in Nat /\ UPGRADER \in Nat /\ USIZE \in Nat
  /\ EXCLUSIVE_THRESHOLD \in Nat /\ EXCLUSIVE_THRESHOLD > Cardinality(Threads) + 1
  /\ UPGRADER >= EXCLUSIVE_THRESHOLD /\ WRITER > UPGRADER
  /\ WRITER + UPGRADER * Cardinality(Threads) + Cardinality(Threads) < USIZE

\* The reader's part of the word is separate from the rest of it.
ASSUME AlignmentAssumption ==
  /\ UPGRADER % EXCLUSIVE_THRESHOLD = 0
  /\ WRITER % EXCLUSIVE_THRESHOLD = 0

VARIABLES
  value,   \* the AtomicUsize
  pc       \* pc[t]: where thread t is

vars == <<value, pc>>

(***************************************************************************)
(* Program points.  "reader", "upgradable" and "writer" hold the lock;     *)
(* "up_cas" and "up_spin" are inside upgrade() and still hold it as        *)
(* upgradable.  A "*_undo" point has added to the word and must subtract;  *)
(* the "try_" ones then return false, the others go on to spin.            *)
(***************************************************************************)
SharedUndo == {"s_undo", "try_s_undo"}
UpgradableUndo == {"u_undo", "try_u_undo"}
UpgradableHeld == {"upgradable", "up_cas", "up_spin"}
Waiting == {"s_add", "s_undo", "s_spin", "x_cas", "x_spin", "u_add", "u_undo", "u_spin"}

PCs == {"idle", "reader", "writer"}
         \cup SharedUndo \cup UpgradableUndo \cup UpgradableHeld \cup Waiting

Writers == {t \in Threads : pc[t] = "writer"}
UpgraderBits == {t \in Threads : pc[t] \in UpgradableHeld \cup UpgradableUndo}
ReaderBits == {t \in Threads : pc[t] \in {"reader"} \cup SharedUndo}

\* fetch_add and fetch_sub wrap around.
fetch_add(n) == value' = IF value + n < USIZE THEN value + n ELSE value + n - USIZE
fetch_sub(n) == value' = IF value >= n THEN value - n ELSE value - n + USIZE

Goto(t, from, to) == pc[t] = from /\ pc' = [pc EXCEPT ![t] = to]

is_locked_exclusively == value >= EXCLUSIVE_THRESHOLD

----------------------------------------------------------------------------
Init == value = 0 /\ pc = [t \in Threads |-> "idle"]

\* Entering one of the blocking methods.
Call(t) ==
  /\ \E p \in {"s_add", "x_cas", "u_add"} : Goto(t, "idle", p)
  /\ UNCHANGED value

\* Faulty variants: an upgrade that ignores readers; a check with the wrong
\* threshold; a downgrade that keeps no reader; a retry without waiting; readers
\* let in beside an upgradable holder.
UpgradeOverReaders(t) ==
  /\ is_locked_exclusively /\ value < 2 * UPGRADER
  /\ Goto(t, "up_cas", "writer")
  /\ value' = value - UPGRADER + WRITER
LateCheck(t) ==
  /\ fetch_add(1)
  /\ \/ Goto(t, "s_add", IF value > EXCLUSIVE_THRESHOLD + UPGRADER THEN "s_undo" ELSE "reader")
     \/ /\ t \in TryCallers
        /\ Goto(t, "idle", IF is_locked_exclusively THEN "try_s_undo" ELSE "reader")
DowngradeKeepsNothing(t) == fetch_sub(WRITER) /\ Goto(t, "writer", "reader")
UndoThenRetry(t) ==
  /\ fetch_sub(UPGRADER)
  /\ Goto(t, "u_undo", "u_add") \/ Goto(t, "try_u_undo", "idle")
ReadBesideUpgrader(t) ==
  /\ fetch_add(1)
  /\ Goto(t, "s_add", IF value >= WRITER THEN "s_undo" ELSE "reader")

\* try_lock_shared's fetch_add, called from lock_shared or directly.
AddShared(t) ==
  /\ fetch_add(1)
  /\ \/ Goto(t, "s_add", IF is_locked_exclusively THEN "s_undo" ELSE "reader")
     \/ /\ t \in TryCallers
        /\ Goto(t, "idle", IF is_locked_exclusively THEN "try_s_undo" ELSE "reader")

UndoShared(t) ==
  /\ fetch_sub(1)
  /\ Goto(t, "s_undo", "s_spin") \/ Goto(t, "try_s_undo", "idle")

\* The inner loop of lock_shared: leave it to try again.
SpinShared(t) ==
  /\ ~is_locked_exclusively
  /\ Goto(t, "s_spin", "s_add")
  /\ UNCHANGED value

unlock_shared(t) == fetch_sub(1) /\ Goto(t, "reader", "idle")

\* The compare_exchange of lock_exclusive and of try_lock_exclusive.
CasExclusive(t) ==
  IF value = 0
  THEN /\ Goto(t, "x_cas", "writer") \/ (t \in TryCallers /\ Goto(t, "idle", "writer"))
       /\ value' = WRITER
  ELSE Goto(t, "x_cas", "x_spin") /\ UNCHANGED value

SpinExclusive(t) == value = 0 /\ Goto(t, "x_spin", "x_cas") /\ UNCHANGED value

unlock_exclusive(t) == fetch_sub(WRITER) /\ Goto(t, "writer", "idle")

downgrade(t) == fetch_sub(WRITER - 1) /\ Goto(t, "writer", "reader")

\* try_lock_upgradable's fetch_add, called from lock_upgradable or directly.
AddUpgradable(t) ==
  /\ fetch_add(UPGRADER)
  /\ \/ Goto(t, "u_add", IF is_locked_exclusively THEN "u_undo" ELSE "upgradable")
     \/ /\ t \in TryCallers
        /\ Goto(t, "idle", IF is_locked_exclusively THEN "try_u_undo" ELSE "upgradable")

UndoUpgradable(t) ==
  /\ fetch_sub(UPGRADER)
  /\ Goto(t, "u_undo", "u_spin") \/ Goto(t, "try_u_undo", "idle")

SpinUpgradable(t) ==
  /\ ~is_locked_exclusively
  /\ Goto(t, "u_spin", "u_add")
  /\ UNCHANGED value

unlock_upgradable(t) == fetch_sub(UPGRADER) /\ Goto(t, "upgradable", "idle")

CallUpgrade(t) == Goto(t, "upgradable", "up_cas") /\ UNCHANGED value

\* The compare_exchange of try_upgrade, called from upgrade or directly.
CasUpgrade(t) ==
  IF value = UPGRADER
  THEN /\ Goto(t, "up_cas", "writer") \/ (t \in TryCallers /\ Goto(t, "upgradable", "writer"))
       /\ value' = WRITER
  ELSE Goto(t, "up_cas", "up_spin") /\ UNCHANGED value

SpinUpgrade(t) == value = UPGRADER /\ Goto(t, "up_spin", "up_cas") /\ UNCHANGED value

downgrade_upgradable(t) == fetch_sub(UPGRADER - 1) /\ Goto(t, "upgradable", "reader")

downgrade_to_upgradable(t) == fetch_sub(WRITER - UPGRADER) /\ Goto(t, "writer", "upgradable")

\* A step inside a lock or upgrade method, and the release of what is held.
LockStep(t) ==
  \/ AddShared(t) \/ UndoShared(t) \/ SpinShared(t)
  \/ CasExclusive(t) \/ SpinExclusive(t)
  \/ AddUpgradable(t) \/ UndoUpgradable(t) \/ SpinUpgradable(t)
  \/ CasUpgrade(t) \/ SpinUpgrade(t)
Unlock(t) == unlock_shared(t) \/ unlock_exclusive(t) \/ unlock_upgradable(t)
ChangeMode(t) ==
  \/ downgrade(t) \/ downgrade_upgradable(t) \/ downgrade_to_upgradable(t)
  \/ CallUpgrade(t)

Next == \E t \in Threads : Call(t) \/ LockStep(t) \/ Unlock(t) \/ ChangeMode(t)

Spec == Init /\ [][Next]_vars

(***************************************************************************)
(* A CPU that is inside a lock method keeps running it, and a guard is     *)
(* dropped some time.  Nobody has to call a method.                        *)
(***************************************************************************)
InsideStep(t) == pc[t] # "idle" /\ LockStep(t)

FairSpec == Spec /\ \A t \in Threads : WF_vars(InsideStep(t)) /\ WF_vars(Unlock(t))
----------------------------------------------------------------------------
(* Properties *)

HoldersOf(S) == {t \in Threads : pc[t] \in S}
Upgradables == HoldersOf(UpgradableHeld)
Readers == HoldersOf({"reader"})

\* Every thread is at a program point of the code, and the word never wraps:
\* it stays below what all threads together can have added to it.
TypeOK ==
  /\ pc \in [Threads -> PCs]
  /\ value \in 0 .. (WRITER + UPGRADER * Cardinality(Threads) + Cardinality(Threads))

\* A writer is alone: no other thread holds the lock in any mode, the ones that
\* are still upgrading included.  There is at most one upgradable holder.
MutualExclusion ==
  /\ \A t \in Writers : Writers \cup Upgradables \cup Readers = {t}
  /\ \A t, u \in Upgradables : t = u

\* The word is exactly the sum of what the holders and the attempts that are
\* about to be undone have added: no path through the lock leaks a bit of it.
WordCounts ==
  value = WRITER * Cardinality(Writers) + UPGRADER * Cardinality(UpgraderBits)
            + Cardinality(ReaderBits)

\* The lock word implements the abstract lock: every atomic access changes the
\* mode of one thread as RwLock allows it, or changes nothing.
ModeAt(p) == CASE p = "reader" -> "read"
               [] p = "writer" -> "write"
               [] p \in UpgradableHeld -> "upgradable"
               [] OTHER -> "none"
AbstractMode == [t \in Threads |-> ModeAt(pc[t])]
Abstract == INSTANCE RwLock WITH mode <- AbstractMode
ImplementsRwLock == Abstract!RSpec

\* From some time on nobody calls a try_* method: a thread that calls one in a
\* loop can keep the word from ever being seen free.
TryCallsEnd ==
  <>[][\A t \in Threads : pc[t] = "idle" => pc'[t] \in {"idle"} \cup Waiting]_vars

\* When the calls of the try_* methods come to an end, the spinners do not keep
\* each other out with the additions they take back: if a thread is waiting, some
\* thread comes to hold the lock.
SomeoneGetsTheLock ==
  TryCallsEnd =>
    ((\E t \in Threads : pc[t] \in Waiting)
       ~> (\E t \in Threads : pc[t] \in {"reader", "writer"} \cup UpgradableHeld))

\* A thread in upgrade() becomes the writer once the readers that were there
\* before it have left: newcomers do not hold it up for ever.
UpgradeCompletes ==
  TryCallsEnd => \A t \in Threads : pc[t] = "up_cas" ~> pc[t] = "writer"
=============================================================================
