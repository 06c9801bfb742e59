------------------------------- MODULE Promise ------------------------------
(***************************************************************************)
(* Promises and acknowledgements (sync/promise.rs) on top of the           *)
(* scheduler.  Tasks share a fulfiller by reference: each completes it or  *)
(* cancels it, and the last of them to finish drops it, which cancels it   *)
(* too.  Other tasks get() the result, or try_get() it.                    *)
(*                                                                         *)
(* A Promise writes its value in three steps (EMPTY, INUSE, COMPLETE); an  *)
(* Acknowledgement has no value and one compare_exchange.                  *)
(***************************************************************************)
EXTENDS WaitingList

CONSTANT Fulfillers \* the tasks that share the fulfiller

EMPTY == "EMPTY"
INUSE == "INUSE"
COMPLETE == "COMPLETE"
Cancelled == "Cancelled"
Pending == "Pending"

\* The Pollers call try_get.
ASSUME PromiseTasks ==
  /\ Tasks = Getters \cup Fulfillers \cup Pollers
  /\ Fulfillers \cap (Getters \cup Pollers) = {} /\ Getters \cap Pollers = {}
  /\ Cancelled # None

VARIABLES
  is_ack, \* it is an Acknowledgement
  word,   \* the AtomicU8: POnceLock::state, AcknowledgementInner::state
  value,  \* POnceLock::value: the task that completed it, Cancelled, or None
  holders \* the tasks that have not given up the fulfiller yet

p_vars == <<list_vars, is_ack, word, value, holders, got>>
own_vars == <<word, value, holders, got>>

PLabels == {"get", "predicate", "wait_inner", "return", "try_get",
           "complete", "cancel", "set_value", "set_none", "store", "notify_all", "notify_inner",
           "notified", "release", "drop", Done}

Start == [t \in Tasks |-> CASE t \in Getters -> {"get"}
                            [] t \in Pollers -> {"try_get"}
                            [] t \in Fulfillers -> {"complete", "cancel", "release"}]

PInit ==
  /\ \E start \in [Tasks -> PLabels] : (\A t \in Tasks : start[t] \in Start[t]) /\ InitTasks(start)
  /\ is_ack \in BOOLEAN
  /\ word = EMPTY /\ value = None
  /\ holders = Fulfillers
  /\ got = [t \in Tasks |-> None]

----------------------------------------------------------------------------
(* Promise::get, Acknowledgement::get: wait_until_try *)

\* POnceLock::get: Some(value) once COMPLETE.
\* Faulty variant: the value is taken for written as soon as the word is not EMPTY.
GetTooEarly(c) ==
  /\ ~is_ack /\ Executing(c, "predicate")
  /\ IF word # EMPTY
     THEN got' = [got EXCEPT ![Running(c)] = value] /\ Goto(c, "return")
     ELSE Goto(c, "wait_inner") /\ UNCHANGED got
  /\ UNCHANGED <<word, value, holders>> /\ Stay

predicate(c) ==
  /\ ~is_ack /\ Executing(c, "predicate")
  /\ IF word = COMPLETE
     THEN got' = [got EXCEPT ![Running(c)] = value] /\ Goto(c, "return")
     ELSE Goto(c, "wait_inner") /\ UNCHANGED got
  /\ UNCHANGED <<word, value, holders>> /\ Stay

\* The closure of Acknowledgement::get.
ack_predicate(c) ==
  /\ is_ack /\ Executing(c, "predicate")
  /\ IF word = EMPTY
     THEN Goto(c, "wait_inner") /\ UNCHANGED got
     ELSE got' = [got EXCEPT ![Running(c)] = value] /\ Goto(c, "return")
  /\ UNCHANGED <<word, value, holders>> /\ Stay

wait_until_try(c) ==
  \/ LockWaiters(c, "get", "predicate") /\ UNCHANGED own_vars
  \/ predicate(c) \/ ack_predicate(c)
  \/ Wait(c, "wait_inner", "get") /\ UNCHANGED own_vars
  \/ UnlockWaiters(c, "return", Done) /\ UNCHANGED own_vars

try_get(c) ==
  /\ Executing(c, "try_get")
  /\ got' = [got EXCEPT ![Running(c)] = IF word = COMPLETE THEN value ELSE Pending]
  /\ Goto(c, Done)
  /\ UNCHANGED <<word, value, holders>> /\ Stay
----------------------------------------------------------------------------
(* _fill_internal: POnceLock::set (set, WriteValue, StoreComplete) or the         *)
(* compare_exchange of an acknowledgement, then notify_all if it succeeded        *)

\* Where _fill_internal returns to when it has filled nothing.
NotFilled(from) == IF from = "drop" THEN Done ELSE "release"

\* The compare_exchange.  It fails, with no effect, unless the word is EMPTY.
set(c, from, filled) ==
  /\ ~is_ack /\ Executing(c, from)
  /\ IF word = EMPTY
     THEN word' = INUSE /\ Goto(c, filled)
     ELSE UNCHANGED word /\ Goto(c, NotFilled(from))
  /\ UNCHANGED <<value, holders, got>> /\ Stay

\* AcknowledgementFulfiller::_fill_internal: the word is the value.
ack_fill(c, from, written) ==
  /\ is_ack /\ Executing(c, from)
  /\ IF word = EMPTY
     THEN word' = COMPLETE /\ value' = written /\ Goto(c, "notify_all")
     ELSE UNCHANGED <<word, value>> /\ Goto(c, NotFilled(from))
  /\ UNCHANGED <<holders, got>> /\ Stay

WriteValue(c, from, written) ==
  /\ Executing(c, from)
  /\ value' = written /\ Goto(c, "store")
  /\ UNCHANGED <<word, holders, got>> /\ Stay

StoreComplete(c) ==
  /\ Executing(c, "store")
  /\ word' = COMPLETE /\ Goto(c, "notify_all")
  /\ UNCHANGED <<value, holders, got>> /\ Stay

notify_all(c) ==
  \/ LockWaiters(c, "notify_all", "notify_inner") /\ UNCHANGED own_vars
  \/ Notify(c, "notify_inner", "notify_inner", "notified") /\ UNCHANGED own_vars
  \/ /\ UnlockWaiters(c, "notified", IF holders = {} THEN Done ELSE "release")
     /\ UNCHANGED own_vars

\* Faulty variant: the fulfiller is forgotten instead of dropped.
Forget(c) ==
  /\ Executing(c, "release")
  /\ holders' = holders \ {Running(c)} /\ Goto(c, Done)
  /\ UNCHANGED <<word, value, got>> /\ Stay

\* A task is done with its reference; the fulfiller is dropped after the last.
Release(c) ==
  /\ Executing(c, "release")
  /\ holders' = holders \ {Running(c)}
  /\ Goto(c, IF holders = {Running(c)} THEN "drop" ELSE Done)
  /\ UNCHANGED <<word, value, got>> /\ Stay

fulfil(c) ==
  \/ set(c, "complete", "set_value") \/ ack_fill(c, "complete", Running(c))
  \/ \E from \in {"cancel", "drop"} : set(c, from, "set_none") \/ ack_fill(c, from, Cancelled)
  \/ WriteValue(c, "set_value", Running(c)) \/ WriteValue(c, "set_none", Cancelled)
  \/ StoreComplete(c) \/ notify_all(c) \/ Release(c)
----------------------------------------------------------------------------
PTaskStep(c) == wait_until_try(c) \/ try_get(c) \/ fulfil(c)

PStep(c) ==
  /\ PTaskStep(c) \/ (SystemStep(c) /\ UNCHANGED own_vars)
  /\ UNCHANGED is_ack

\* Nothing is left to run: every CPU spins in schedule().
PIdle == Spinning /\ UNCHANGED p_vars

PNext == PIdle \/ \E c \in CPUs : PStep(c)

PSpec == PInit /\ [][PNext]_p_vars

\* As for WQueue: every CPU keeps executing, and push_task_to gets its KMutex.
PLiveSpec ==
  /\ PSpec
  /\ \A c \in CPUs : WF_p_vars(PStep(c)) /\ SF_p_vars(PStep(c) /\ push_task_to(c))
----------------------------------------------------------------------------
(***************************************************************************)
(* All who read a result read the one that the promise was filled with:    *)
(* nobody sees it half-written, two results, or a result before a filling, *)
(* and get() returns nothing else.                                         *)
(***************************************************************************)
Agreement ==
  /\ \A t \in Getters : pc[t] \in {"return", Done} => word = COMPLETE /\ got[t] = value
  /\ \A t \in Pollers : got[t] \notin {None, Pending} => word = COMPLETE /\ got[t] = value
  /\ word = COMPLETE => value # None

\* Every get returns, because the drop of the fulfiller fills the promise.
PromiseKept == \A t \in Getters : <>(pc[t] = Done)
=============================================================================
