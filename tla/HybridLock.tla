----------------------------- MODULE HybridLock -----------------------------
(***************************************************************************)
(* The hybrid mutex (sync/hspin.rs) on top of the KMutex of Interruptions. *)
(*                                                                         *)
(* HMutex::lock() repeats try_lock(), which takes a no-interruption guard  *)
(* and drops it again when the mutex is taken, and between two attempts    *)
(* relaxes outside that guard: it yields to the scheduler if a task is     *)
(* executing, and spins otherwise.  yield_to_scheduler asserts that yields *)
(* are not disabled.                                                       *)
(*                                                                         *)
(* The tasks that run while this one has yielded hold mutexes as the other *)
(* CPUs do, so a yield changes nothing here: it is OtherCPU's steps that   *)
(* show.  Interrupt handlers use KMutexes only.                            *)
(***************************************************************************)
EXTENDS Interruptions

CONSTANT HLocks \* the mutexes of Locks that are HMutexes

ASSUME HybridAssumption == HLocks \subseteq Locks

VARIABLES
  is_executing_task, \* _IS_EXECUTING_TASK: false in the code that boots the CPU
  call               \* the HMutex::lock() call of context 0, if there is one

hvars == <<is_executing_task, call>>

\* A call is at "try", "relax", or "yielded": the scheduler has been entered, and its
\* assertion evaluated; a false one is a "panic".  The call remembers, for the
\* properties, what its caller had disabled.
NoCall == [pc |-> "none", lock |-> NoLock, can_yield |-> FALSE, disabled |-> FALSE, flag |-> FALSE]

HInit == Init /\ is_executing_task \in BOOLEAN /\ call = NoCall

Calling == level = 0 /\ call.pc # "none"

\* The first attempt, and each that follows a relax: try_lock() of the KMutex.
HTry(m) ==
  /\ level = 0
  /\ \/ /\ call.pc = "none"
        /\ call' = [pc |-> "try", lock |-> m, can_yield |-> FALSE,
                    disabled |-> yield_disabled, flag |-> IF_flag]
     \/ /\ call.pc = "relax" /\ call.lock = m /\ owner[m] = Free
        /\ call' = [call EXCEPT !.pc = "try"]
  /\ owner[m] # 0
  /\ CallDisable(m, TRUE)
  /\ UNCHANGED is_executing_task

\* Faulty variant: relax starts before the failed attempt has dropped its guard.
TriedTooEarly ==
  /\ level = 0 /\ call.pc = "try" /\ At("e_clear")
  /\ call' = [call EXCEPT !.pc = "relax", !.can_yield = is_executing_task]
  /\ UNCHANGED <<vars, is_executing_task>>

\* try_lock has returned: with a guard, or else relax asks once whether it may yield.
HTried ==
  /\ level = 0 /\ call.pc = "try" /\ At("idle")
  /\ call' = IF \E g \in me.guards : g.lock = call.lock
             THEN NoCall
             ELSE [call EXCEPT !.pc = "relax", !.can_yield = is_executing_task]
  /\ UNCHANGED <<vars, is_executing_task>>

\* The assertion of yield_to_scheduler.
YieldAsserted == IF yield_disabled THEN "panic" ELSE "yielded"

\* One round of the loop of relax, while the mutex is locked.
HRelax ==
  /\ level = 0 /\ call.pc = "relax" /\ owner[call.lock] # Free /\ call.can_yield
  /\ call' = [call EXCEPT !.pc = YieldAsserted]
  /\ UNCHANGED <<vars, is_executing_task>>

\* The scheduler resumes the task.
HResume ==
  /\ level = 0 /\ call.pc = "yielded"
  /\ call' = [call EXCEPT !.pc = "relax"]
  /\ UNCHANGED <<vars, is_executing_task>>

\* Steps of Interruptions.  While lock() is between two calls of its own, context 0
\* does nothing else; and nobody spins for an HMutex the way lock() of a KMutex does.
Within ==
  /\ Next
  /\ (Calling /\ At("idle")) => level' # 0 \/ frames' = frames
  /\ me'.want \in HLocks => me'.try
  /\ UNCHANGED hvars

HNext == HTried \/ HRelax \/ HResume \/ Within \/ \E m \in HLocks : HTry(m)

HSpec == HInit /\ [][HNext]_<<vars, hvars>>
----------------------------------------------------------------------------
(* Properties *)

(***************************************************************************)
(* A lock() that waits does so with interrupts and yields as its caller    *)
(* had them: what the failed try_lock had disabled is restored before      *)
(* relax looks, so the scheduler refuses the yield only to a caller that   *)
(* had disabled yields itself.                                             *)
(***************************************************************************)
WaitsAsCalled ==
  (level = 0 /\ call.pc \in {"relax", "yielded", "panic"})
     => yield_disabled = call.disabled /\ IF_flag = call.flag
=============================================================================
