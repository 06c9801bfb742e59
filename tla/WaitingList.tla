---------------------------- MODULE WaitingList -----------------------------
(***************************************************************************)
(* How tasks use a waiting list (sync/waitlist.rs) and the YMutexes        *)
(* (sync/yspin.rs): the steps that the modules WQueue and Promise put      *)
(* their tasks' programs together from.  A task that meets a locked YMutex *)
(* yields and tries again.                                                 *)
(***************************************************************************)
EXTENDS Scheduler

CONSTANTS
  waiters,  \* the waiting list
  Order,    \* Order[c]: the tasks of CPU c, the one that runs first
  Getters,  \* the tasks that call get
  Pollers   \* the tasks that ask for a result and do not wait

ASSUME ListAssumption == waiters \in Lists

\* Every task is created on one CPU, once, and no CPU is left without one.
ASSUME OrderAssumption ==
  /\ Order \in [CPUs -> Seq(Tasks)]
  /\ \A c \in CPUs : Order[c] # <<>>
  /\ \A t \in Tasks : \E c \in CPUs : t \in TasksIn(Order[c])
  /\ \A c, d \in CPUs : \A i \in DOMAIN Order[c], j \in DOMAIN Order[d] :
       Order[c][i] = Order[d][j] => c = d /\ i = j

VARIABLES
  pc, \* pc[t]: where task t is in its program
  got \* got[t]: what the call of t returned, or None

list_vars == <<vars, pc>>

Done == "done"

\* Each CPU runs its first task, which has pushed the others to the run queue.
InitTasks(start) ==
  /\ state = [c \in CPUs |-> [run_queue |-> Tail(Order[c]), sleeping |-> <<>>, deferred_drop |-> <<>>]]
  /\ cpu = [c \in CPUs |->
             [phase |-> "task", current |-> Head(Order[c]), executing |-> FALSE, task |-> None,
              command |-> PushBack, entry |-> None, stack |-> Head(Order[c])]]
  /\ home = [t \in Tasks |-> CHOOSE c \in CPUs : t \in TasksIn(Order[c])]
  /\ state_lock = [c \in CPUs |-> FALSE]
  /\ ticks = [c \in CPUs |-> 0] /\ tick = [c \in CPUs |-> 0]
  /\ waiting = [l \in Lists |-> <<>>] /\ list_lock = [l \in Lists |-> None]
  /\ dropped = {}
  /\ pc = start

Executing(c, p) == At(c, "task") /\ pc[Running(c)] = p
Goto(c, p) == pc' = [pc EXCEPT ![Running(c)] = p]
Stay == UNCHANGED vars

(* YMutex::lock of the list, of some other YMutex, and the drop of a guard *)

LockWaiters(c, from, to) ==
  /\ Executing(c, from)
  /\ \/ LockList(c, waiters) /\ Goto(c, to)
     \/ list_lock[waiters] # None /\ yield_to_scheduler(c, PushBack) /\ UNCHANGED pc

UnlockWaiters(c, from, to) ==
  /\ Executing(c, from)
  /\ UnlockList(c, waiters) /\ Goto(c, to)

\* The task goes on, when it is notified, where the loop around wait_inner starts.
Wait(c, from, loop) ==
  /\ Executing(c, from)
  /\ wait_inner(c, waiters) /\ Goto(c, loop)

\* notify_inner returns true to the place again, false to the place empty.
Notify(c, from, again, empty) ==
  /\ Executing(c, from)
  /\ \/ notify_inner(c, waiters) /\ Goto(c, again)
     \/ waiting[waiters] = <<>> /\ Stay /\ Goto(c, empty)

terminate_current_task(c) ==
  /\ Executing(c, Done)
  /\ yield_to_scheduler(c, Terminate) /\ UNCHANGED pc

SystemStep(c) ==
  \/ (CPUStep(c) \/ push_task_to(c)) /\ UNCHANGED pc
  \/ terminate_current_task(c)

\* Every CPU spins in schedule(): there is nothing to run.
Spinning == \A c \in CPUs : At(c, "pick") /\ state[c].run_queue = <<>>

\* The tasks in the list.
Waiting == {waiting[waiters][i].task : i \in 1 .. Len(waiting[waiters])}
=============================================================================
