------------------------------- MODULE WQueue -------------------------------
(***************************************************************************)
(* The synchronized queue WQueue (sync/queue.rs): tasks on several CPUs    *)
(* push, get, and get without blocking, once each.  The queue and the list *)
(* of waiters have a YMutex each.  A push unlocks the queue before it      *)
(* notifies; get() checks the queue with the list locked before it waits.  *)
(***************************************************************************)
EXTENDS WaitingList

CONSTANT Pushers \* the tasks that call push; the item of t is t itself

\* The Pollers call get_if_available or get_nonblocking.
ASSUME QueueTasks ==
  /\ Tasks = Getters \cup Pushers \cup Pollers
  /\ Pushers \cap (Getters \cup Pollers) = {} /\ Getters \cap Pollers = {}

VARIABLES
  queue,      \* the items
  queue_lock  \* the task that holds the YMutex of the queue, or None

wq_vars == <<list_vars, queue, queue_lock, got>>

Labels == {"get", "get_pop", "wait_ifnt", "predicate", "is_empty", "wait_inner", "return_false",
           "push", "push_back", "notify_one", "notify_inner", "notified",
           "poll", "poll_pop", "try_lock", Done}

Entry == [t \in Tasks |-> CASE t \in Getters -> {"get"}
                            [] t \in Pushers -> {"push"}
                            [] t \in Pollers -> {"poll", "try_lock"}]

WQInit ==
  /\ \E start \in [Tasks -> Labels] : (\A t \in Tasks : start[t] \in Entry[t]) /\ InitTasks(start)
  /\ queue = <<>> /\ queue_lock = None
  /\ got = [t \in Tasks |-> None]

\* self.queue.lock()
LockQueue(c, from, to) ==
  /\ Executing(c, from)
  /\ \/ /\ queue_lock = None /\ queue_lock' = Running(c)
        /\ Goto(c, to) /\ Stay
     \/ /\ queue_lock # None /\ UNCHANGED queue_lock
        /\ yield_to_scheduler(c, PushBack) /\ UNCHANGED pc
  /\ UNCHANGED <<queue, got>>

\* Faulty variant: the front is copied and left in the queue.
PeekFront(c, from, none) ==
  /\ Executing(c, from) /\ queue_lock' = None
  /\ IF queue = <<>>
     THEN Goto(c, none) /\ UNCHANGED got
     ELSE got' = [got EXCEPT ![Running(c)] = Head(queue)] /\ Goto(c, Done)
  /\ UNCHANGED queue /\ Stay

\* pop_front, and the drop of the guard.
pop_front(c, from, none) ==
  /\ Executing(c, from)
  /\ queue_lock' = None
  /\ IF queue = <<>>
     THEN Goto(c, none) /\ UNCHANGED <<queue, got>>
     ELSE /\ got' = [got EXCEPT ![Running(c)] = Head(queue)]
          /\ queue' = Tail(queue) /\ Goto(c, Done)
  /\ Stay

\* Faulty variant: the task waits whatever the predicate says.
WaitAnyway(c) ==
  /\ Executing(c, "is_empty") /\ queue_lock' = None
  /\ Goto(c, "wait_inner") /\ UNCHANGED <<queue, got>> /\ Stay

\* The predicate of get(), with the list locked, and the drop of the queue's guard.
is_empty(c) ==
  /\ Executing(c, "is_empty")
  /\ queue_lock' = None
  /\ Goto(c, IF queue = <<>> THEN "wait_inner" ELSE "return_false")
  /\ UNCHANGED <<queue, got>> /\ Stay

push_back(c) ==
  /\ Executing(c, "push_back")
  /\ queue' = Append(queue, Running(c)) /\ queue_lock' = None
  /\ Goto(c, "notify_one")
  /\ UNCHANGED got /\ Stay

\* get_nonblocking returns None when the queue is locked.
try_lock(c) ==
  /\ Executing(c, "try_lock")
  /\ \/ queue_lock = None /\ queue_lock' = Running(c) /\ Goto(c, "poll_pop")
     \/ queue_lock # None /\ UNCHANGED queue_lock /\ Goto(c, Done)
  /\ UNCHANGED <<queue, got>> /\ Stay

get(c) ==
  \/ LockQueue(c, "get", "get_pop")
  \/ pop_front(c, "get_pop", "wait_ifnt")
  \/ LockWaiters(c, "wait_ifnt", "predicate") /\ UNCHANGED <<queue, queue_lock, got>>
  \/ LockQueue(c, "predicate", "is_empty")
  \/ is_empty(c)
  \/ Wait(c, "wait_inner", "wait_ifnt") /\ UNCHANGED <<queue, queue_lock, got>>
  \/ UnlockWaiters(c, "return_false", "get") /\ UNCHANGED <<queue, queue_lock, got>>

push(c) ==
  \/ LockQueue(c, "push", "push_back")
  \/ push_back(c)
  \/ LockWaiters(c, "notify_one", "notify_inner") /\ UNCHANGED <<queue, queue_lock, got>>
  \/ Notify(c, "notify_inner", "notified", "notified") /\ UNCHANGED <<queue, queue_lock, got>>
  \/ UnlockWaiters(c, "notified", Done) /\ UNCHANGED <<queue, queue_lock, got>>

poll(c) ==
  \/ LockQueue(c, "poll", "poll_pop")
  \/ try_lock(c)
  \/ pop_front(c, "poll_pop", Done)

TaskStep(c) == get(c) \/ push(c) \/ poll(c)

\* Nothing is left to run: every CPU spins in schedule().
Idle == Spinning /\ UNCHANGED wq_vars

Step(c) == TaskStep(c) \/ (SystemStep(c) /\ UNCHANGED <<queue, queue_lock, got>>)

WQNext == Idle \/ \E c \in CPUs : Step(c)

WQSpec == WQInit /\ [][WQNext]_wq_vars

\* Every CPU keeps executing, and who spins for a KMutex that is free again and
\* again gets it: push_task_to contends with the schedule() of the other CPU.
WQLiveSpec ==
  /\ WQSpec
  /\ \A c \in CPUs : WF_wq_vars(Step(c)) /\ SF_wq_vars(Step(c) /\ push_task_to(c))
----------------------------------------------------------------------------
(***************************************************************************)
(* Every item that was pushed is in the queue or was returned, and only    *)
(* once: get and its non-blocking variants never both take an item.        *)
(***************************************************************************)
Conserved ==
  LET pushed == {t \in Pushers : pc[t] \notin {"push", "push_back"}}
  IN /\ pushed = TasksIn(queue) \cup ({got[t] : t \in Tasks} \ {None})
     /\ \A t, u \in Tasks : got[t] = got[u] /\ got[t] # None => t = u
     /\ \A t \in Tasks : got[t] \notin TasksIn(queue)
     /\ \A i, j \in DOMAIN queue : queue[i] = queue[j] => i = j

\* With a push for every get, every get returns, unless a poller takes an item.
EveryGetReturns ==
  \A t \in Getters : <>(pc[t] = Done \/ \E o \in Pollers : got[o] # None)
=============================================================================
