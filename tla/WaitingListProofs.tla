------------------------- MODULE WaitingListProofs --------------------------
(***************************************************************************)
(* The queue and the promise on top of the scheduler, for any number of    *)
(* CPUs and tasks: no item of a WQueue is lost or handed out twice, all    *)
(* who read a promise read one result, and both use the scheduler within   *)
(* its rules, so that their tasks too are in one place each.               *)
(*                                                                         *)
(* Every step of theirs is one of the scheduler's, because a task that     *)
(* ends has unlocked the list: the place in its program says whether it    *)
(* may hold the lock (LockOK).  Conserved and Agreement are inductive with *)
(* what the places in the programs say of the items and of the value.      *)
(* The facts about WQueue use no assumption of Promise, nor the converse.  *)
(***************************************************************************)
EXTENDS WQueue, Promise, SchedulerProofs

(* The first tasks *)

LEMMA OrderFacts ==
  ASSUME NEW c \in CPUs
  PROVE  /\ Order[c] \in Seq(Tasks) /\ Len(Order[c]) \in Nat /\ Len(Order[c]) >= 1
         /\ Head(Order[c]) = Order[c][1] /\ Head(Order[c]) \in Tasks
         /\ Tail(Order[c]) \in Seq(Tasks) /\ Len(Tail(Order[c])) = Len(Order[c]) - 1
         /\ \A i \in 1 .. Len(Order[c]) - 1 : Tail(Order[c])[i] = Order[c][i + 1]
         /\ \A i \in 1 .. Len(Order[c]) : Order[c][i] \in Tasks
  <1>1. Order[c] \in Seq(Tasks) /\ Order[c] # <<>>
    BY OrderAssumption, Zenon
  <1> QED BY <1>1

LEMMA OrderOnce ==
  ASSUME NEW c \in CPUs, NEW d \in CPUs, NEW i \in 1 .. Len(Order[c]), NEW j \in 1 .. Len(Order[d]),
         Order[c][i] = Order[d][j]
  PROVE  c = d /\ i = j
  <1>1. DOMAIN Order[c] = 1 .. Len(Order[c]) /\ DOMAIN Order[d] = 1 .. Len(Order[d])
    BY OrderFacts
  <1>2. \A k \in DOMAIN Order[c], l \in DOMAIN Order[d] : Order[c][k] = Order[d][l] => c = d /\ k = l
    BY OrderAssumption, Zenon
  <1> QED BY <1>1, <1>2, Zenon

\* The program that InitTasks starts has no part in the state of the scheduler.
FirstState == \E start : InitTasks(start)

LEMMA FirstHomes ==
  ASSUME FirstState
  PROVE  /\ home \in [Tasks -> CPUs \cup {None}]
         /\ \A t \in Tasks : home[t] \in CPUs
         /\ \A c \in CPUs : \A i \in 1 .. Len(Order[c]) : home[Order[c][i]] = c
  <1> DEFINE h(t) == CHOOSE c \in CPUs : t \in TasksIn(Order[c])
  <1>1. home = [t \in Tasks |-> h(t)]
    BY Zenon DEF FirstState, InitTasks
  <1>2. ASSUME NEW t \in Tasks
        PROVE  h(t) \in CPUs /\ t \in TasksIn(Order[h(t)])
    BY OrderAssumption, Zenon
  <1>3. ASSUME NEW c \in CPUs, NEW i \in 1 .. Len(Order[c])
        PROVE  Order[c][i] \in Tasks /\ h(Order[c][i]) = c
    <2> DEFINE t == Order[c][i]
    <2>1. t \in Tasks
      BY OrderFacts, Zenon
    <2>2. PICK j \in 1 .. Len(Order[h(t)]) : Order[h(t)][j] = t
      BY <1>2, <2>1, Zenon DEF TasksIn
    <2>3. h(t) \in CPUs
      BY <1>2, <2>1, Zenon
    <2> HIDE DEF h
    <2> QED BY <2>1, <2>2, <2>3, OrderOnce, Zenon
  <1> HIDE DEF h
  <1> QED BY <1>1, <1>2, <1>3, Zenon

LEMMA FirstCPUs ==
  ASSUME FirstState, NEW c \in CPUs
  PROVE  /\ state[c] = [run_queue |-> Tail(Order[c]), sleeping |-> <<>>, deferred_drop |-> <<>>]
         /\ cpu[c] = [phase |-> "task", current |-> Head(Order[c]), executing |-> FALSE, task |-> None,
                      command |-> PushBack, entry |-> None, stack |-> Head(Order[c])]
         /\ ticks[c] = 0 /\ tick[c] = 0
  BY DEF FirstState, InitTasks

LEMMA FirstInv ==
  ASSUME FirstState
  PROVE  IInv
  <1>1. Shape
    <2>1. PICK start : InitTasks(start)
      BY Zenon DEF FirstState
    <2> QED BY <2>1, FirstHomes, Zenon DEF InitTasks, Shape
  <1>2. ASSUME NEW c \in CPUs
        PROVE  QueueOK(c)
    <2>0. /\ state[c] = [run_queue |-> Tail(Order[c]), sleeping |-> <<>>, deferred_drop |-> <<>>]
          /\ ticks[c] = 0 /\ tick[c] = 0 /\ Tail(Order[c]) \in Seq(Tasks)
      BY FirstCPUs, OrderFacts, Zenon
    <2>1. /\ state[c].run_queue = Tail(Order[c]) /\ state[c].sleeping = <<>>
          /\ state[c] \in SchedulerState
      BY <2>0 DEF SchedulerState
    <2>2. \A i \in 1 .. Len(state[c].run_queue) : home[state[c].run_queue[i]] = c
      <3> SUFFICES ASSUME NEW i \in 1 .. Len(Tail(Order[c]))
                   PROVE  home[Tail(Order[c])[i]] = c
        BY <2>1, Zenon
      <3>1. Tail(Order[c])[i] = Order[c][i + 1] /\ i + 1 \in 1 .. Len(Order[c])
        BY OrderFacts
      <3> QED BY <3>1, FirstHomes, Zenon
    <2> QED BY <2>0, <2>1, <2>2 DEF QueueOK
  <1>3. ASSUME NEW c \in CPUs
        PROVE  CpuOK(c)
    <2>1. PushBack \in SchedulerCommand /\ PushBack.op = "PushBack"
      BY Zenon DEF PushBack, SchedulerCommand
    <2>2. /\ cpu[c].phase = "task" /\ cpu[c].current = Order[c][1] /\ cpu[c].task = None
          /\ cpu[c].command = PushBack /\ cpu[c].entry = None /\ cpu[c].stack = Order[c][1]
          /\ cpu[c] \in CPUState
      <3>1. /\ cpu[c] = [phase |-> "task", current |-> Head(Order[c]), executing |-> FALSE,
                         task |-> None, command |-> PushBack, entry |-> None, stack |-> Head(Order[c])]
            /\ Head(Order[c]) = Order[c][1] /\ Head(Order[c]) \in Tasks
        BY FirstCPUs, OrderFacts, Zenon
      <3> QED BY <2>1, <3>1 DEF CPUState, Phases
    <2>3. Order[c][1] \in Tasks /\ home[Order[c][1]] = c
      BY OrderFacts, FirstHomes
    <2> QED BY <2>1, <2>2, <2>3, ConstantsAssumption, Zenon DEF CpuOK
  <1>4. ASSUME NEW l \in Lists
        PROVE  ListOK(l)
    BY DEF ListOK, FirstState, InitTasks
  <1> QED BY <1>1, <1>2, <1>3, <1>4, Zenon DEF IInv

LEMMA FirstPlaces ==
  ASSUME FirstState
  PROVE  PInv
  <1>1. ASSUME NEW c \in CPUs
        PROVE  /\ state[c].run_queue = Tail(Order[c]) /\ state[c].sleeping = <<>>
               /\ state[c].deferred_drop = <<>>
               /\ cpu[c].phase = "task" /\ cpu[c].current = Order[c][1] /\ cpu[c].task = None
               /\ cpu[c].entry = None /\ cpu[c].stack = Order[c][1]
    <2>1. /\ state[c] = [run_queue |-> Tail(Order[c]), sleeping |-> <<>>, deferred_drop |-> <<>>]
          /\ cpu[c] = [phase |-> "task", current |-> Head(Order[c]), executing |-> FALSE, task |-> None,
                       command |-> PushBack, entry |-> None, stack |-> Head(Order[c])]
          /\ Head(Order[c]) = Order[c][1]
      BY FirstCPUs, OrderFacts, Zenon
    <2> QED BY <2>1
  <1>2. dropped = {} /\ \A l \in Lists : waiting[l] = <<>>
    BY Zenon DEF FirstState, InitTasks
  <1>3. ASSUME NEW t \in Tasks
        PROVE  One(t)
    <2> DEFINE Placed(k, x, i) ==
                 /\ x \in CPUs
                 /\ \/ k = "run" /\ i \in 1 .. Len(Order[x]) - 1 /\ Order[x][i + 1] = t
                    \/ k = "current" /\ i = 0 /\ Order[x][1] = t
    <2>1. \A k, x, i : Holds(t, k, x, i) <=> Placed(k, x, i)
      <3>1. \A x, i : ~InSleeping(t, x, i) /\ ~InDeferred(t, x, i)
        BY <1>1 DEF InSleeping, InDeferred
      <3>2. \A x, i : ~InWaiting(t, x, i)
        BY <1>2 DEF InWaiting
      <3>3. \A x : ~IsLocal(t, x) /\ ~IsEntry(t, x)
        BY <1>1, ConstantsAssumption, Zenon DEF IsLocal, IsEntry
      <3>4. \A x : IsCurrent(t, x) <=> x \in CPUs /\ Order[x][1] = t
        BY <1>1, Zenon DEF IsCurrent
      <3>5. \A x, i : InRun(t, x, i)
                      <=> x \in CPUs /\ i \in 1 .. Len(Order[x]) - 1 /\ Order[x][i + 1] = t
        BY <1>1, OrderFacts, ZenonT(40) DEF InRun
      <3> QED BY <3>1, <3>2, <3>3, <3>4, <3>5 DEF Holds
    <2>2. Live(t)
      BY <1>2, FirstHomes, ConstantsAssumption, Zenon DEF Live
    <2>3. \E k, x, i : Placed(k, x, i)
      <3>1. PICK c \in CPUs : t \in TasksIn(Order[c])
        BY OrderAssumption, Zenon
      <3>2. PICK j \in 1 .. Len(Order[c]) : Order[c][j] = t
        BY <3>1, Zenon DEF TasksIn
      <3>3. CASE j = 1
        <4>1. Placed("current", c, 0)
          BY <3>2, <3>3, Zenon
        <4> QED BY <4>1, Zenon
      <3>4. CASE j # 1
        <4>1. j - 1 \in 1 .. Len(Order[c]) - 1 /\ (j - 1) + 1 = j
          BY <3>4, OrderFacts
        <4>2. Placed("run", c, j - 1)
          BY <3>2, <4>1, Zenon
        <4> QED BY <4>2, Zenon
      <3> QED BY <3>3, <3>4, Zenon
    <2>4. ASSUME NEW k, NEW x, NEW i, NEW k2, NEW x2, NEW i2, Placed(k, x, i), Placed(k2, x2, i2)
          PROVE  k = k2 /\ x = x2 /\ i = i2
      <3> DEFINE n == IF k = "run" THEN i + 1 ELSE 1
                 n2 == IF k2 = "run" THEN i2 + 1 ELSE 1
      <3>1. x \in CPUs /\ n \in 1 .. Len(Order[x]) /\ Order[x][n] = t
        BY <2>4, OrderFacts
      <3>2. x2 \in CPUs /\ n2 \in 1 .. Len(Order[x2]) /\ Order[x2][n2] = t
        BY <2>4, OrderFacts
      <3>3. x = x2 /\ n = n2
        <4> HIDE DEF n, n2
        <4> QED BY <3>1, <3>2, OrderOnce, Zenon
      <3> QED BY <3>3, <2>4
    <2> HIDE DEF Placed
    <2> QED BY <1>2, <2>1, <2>2, <2>3, <2>4 DEF One
  <1>4. ASSUME NEW c \in CPUs
        PROVE  CpuPhase(c) /\ DeferredHome(c)
    BY <1>1, <1>2 DEF CpuPhase, DeferredHome
  <1> QED BY <1>3, <1>4, Zenon DEF PInv

(* The steps that programs are made of *)

\* The lock of the list: only a task whose place is in H holds it.
LockOK(H) ==
  /\ list_lock \in [Lists -> Tasks \cup {None}]
  /\ \A l \in Lists : l # waiters => list_lock[l] = None
  /\ \A t \in Tasks : list_lock[waiters] = t => pc[t] \in H

LEMMA RunningTask ==
  ASSUME IInv, NEW c \in CPUs, At(c, "task")
  PROVE  Running(c) \in Tasks
  BY Zenon DEF IInv, CpuOK, At, Running

LEMMA SchedulerSteps ==
  ASSUME NEW c \in CPUs
  PROVE  /\ CPUStep(c) \/ push_task_to(c) => Next
         /\ yield_to_scheduler(c, PushBack) => Next
         /\ HoldsNoList(c) /\ yield_to_scheduler(c, Terminate) => Next
         /\ wait_inner(c, waiters) => Next
         /\ LockList(c, waiters) \/ UnlockList(c, waiters) \/ notify_inner(c, waiters) => Next
  <1>1. waiters \in Lists
    BY ListAssumption, Zenon
  <1> QED BY <1>1, Zenon DEF Next, TaskYields

LEMMA GotoFacts ==
  ASSUME NEW L, pc \in [Tasks -> L], NEW c \in CPUs, Running(c) \in Tasks, NEW p \in L, Goto(c, p)
  PROVE  /\ pc' \in [Tasks -> L] /\ pc'[Running(c)] = p
         /\ \A t \in Tasks : t # Running(c) => pc'[t] = pc[t]
  BY Zenon DEF Goto

\* A step from p to q that leaves the lock alone, takes it, or gives it back.
LEMMA KeepsLock ==
  ASSUME NEW H, NEW L, pc \in [Tasks -> L], LockOK(H), NEW c \in CPUs, Running(c) \in Tasks,
         NEW p \in L, Goto(c, p),
         \/ UNCHANGED list_lock /\ (pc[Running(c)] \in H => p \in H)
         \/ list_lock' = [list_lock EXCEPT ![waiters] = Running(c)] /\ p \in H
         \/ list_lock' = [list_lock EXCEPT ![waiters] = None]
  PROVE  LockOK(H)'
  <1>1. /\ pc'[Running(c)] = p
        /\ \A t \in Tasks : t # Running(c) => pc'[t] = pc[t]
    BY Zenon DEF Goto
  <1>2. waiters \in Lists /\ None \notin Tasks
    BY ListAssumption, ConstantsAssumption, Zenon
  <1> QED BY <1>1, <1>2, Zenon DEF LockOK

\* A step of the scheduler releases the lock of a list, or leaves all as they are.
LEMMA SystemLocks ==
  ASSUME NEW H, LockOK(H), IInv, NEW c \in CPUs, SystemStep(c)
  PROVE  LockOK(H)' /\ UNCHANGED pc
  <1>1. UNCHANGED pc
    BY Zenon DEF SystemStep, terminate_current_task
  <1>2. \/ UNCHANGED list_lock
        \/ \E l \in Lists : list_lock' = [list_lock EXCEPT ![l] = None]
    <2>1. CASE FileWait(c)
      <3>1. cpu[c].command.list \in Lists
        BY <2>1, Zenon DEF FileWait, Arm, IInv, CpuOK
      <3> QED BY <2>1, <3>1, Zenon DEF FileWait
    <2>2. CASE ~FileWait(c)
      BY <2>2, Zenon DEF SystemStep, CPUStep, terminate_current_task, yield_to_scheduler, push_task_to,
         schedule, FileTerminate, FileSleep, FilePushBack, UnlockState, PickNext, resume_context
    <2> QED BY <2>1, <2>2, Zenon
  <1>3. None \notin Tasks
    BY ConstantsAssumption, Zenon
  <1> QED BY <1>1, <1>2, <1>3, Zenon DEF LockOK

LEMMA SystemAllowed ==
  ASSUME NEW H, LockOK(H), Done \notin H, IInv, NEW c \in CPUs, SystemStep(c)
  PROVE  Next
  <1>1. CASE terminate_current_task(c)
    <2>1. Running(c) \in Tasks /\ pc[Running(c)] = Done
      BY <1>1, RunningTask, Zenon DEF terminate_current_task, Executing
    <2>2. HoldsNoList(c)
      <3>1. None \notin Tasks
        BY ConstantsAssumption, Zenon
      <3> QED BY <2>1, <3>1, Zenon DEF HoldsNoList, LockOK
    <2> QED BY <1>1, <2>2, SchedulerSteps, Zenon DEF terminate_current_task
  <1>2. CASE CPUStep(c) \/ push_task_to(c)
    BY <1>2, SchedulerSteps, Zenon
  <1> QED BY <1>1, <1>2, Zenon DEF SystemStep

LEMMA LockWaitersStep ==
  ASSUME NEW H, NEW L, pc \in [Tasks -> L], LockOK(H), IInv, NEW c \in CPUs,
         NEW from, NEW to \in L, to \in H, LockWaiters(c, from, to)
  PROVE  LockOK(H)' /\ Next
  <1>1. Running(c) \in Tasks
    BY RunningTask, Zenon DEF LockWaiters, Executing
  <1>2. CASE LockList(c, waiters) /\ Goto(c, to)
    <2>1. list_lock' = [list_lock EXCEPT ![waiters] = Running(c)]
      BY <1>2, Zenon DEF LockList
    <2> QED BY <1>1, <1>2, <2>1, KeepsLock, SchedulerSteps, Zenon
  <1>3. CASE yield_to_scheduler(c, PushBack) /\ UNCHANGED pc
    BY <1>3, SchedulerSteps, Zenon DEF yield_to_scheduler, LockOK
  <1> QED BY <1>2, <1>3, Zenon DEF LockWaiters

LEMMA UnlockWaitersStep ==
  ASSUME NEW H, NEW L, pc \in [Tasks -> L], LockOK(H), IInv, NEW c \in CPUs,
         NEW from, NEW to \in L, UnlockWaiters(c, from, to)
  PROVE  LockOK(H)' /\ Next
  <1>1. Running(c) \in Tasks
    BY RunningTask, Zenon DEF UnlockWaiters, Executing
  <1>2. list_lock' = [list_lock EXCEPT ![waiters] = None] /\ Goto(c, to)
    BY Zenon DEF UnlockWaiters, UnlockList
  <1> QED BY <1>1, <1>2, KeepsLock, SchedulerSteps, Zenon DEF UnlockWaiters

LEMMA WaitStep ==
  ASSUME NEW H, NEW L, pc \in [Tasks -> L], LockOK(H), IInv, NEW c \in CPUs,
         NEW from, NEW loop \in L, loop \in H, Wait(c, from, loop)
  PROVE  LockOK(H)' /\ Next
  <1>1. Running(c) \in Tasks
    BY RunningTask, Zenon DEF Wait, Executing
  <1>2. UNCHANGED list_lock /\ Goto(c, loop)
    BY Zenon DEF Wait, wait_inner, yield_to_scheduler
  <1> QED BY <1>1, <1>2, KeepsLock, SchedulerSteps, Zenon DEF Wait

LEMMA NotifyStep ==
  ASSUME NEW H, NEW L, pc \in [Tasks -> L], LockOK(H), IInv, NEW c \in CPUs,
         NEW from, NEW again \in L, NEW empty \in L, again \in H, empty \in H,
         Notify(c, from, again, empty)
  PROVE  LockOK(H)' /\ [Next]_vars
  <1>1. Running(c) \in Tasks
    BY RunningTask, Zenon DEF Notify, Executing
  <1>2. CASE notify_inner(c, waiters) /\ Goto(c, again)
    <2>1. UNCHANGED list_lock
      BY <1>2, Zenon DEF notify_inner
    <2> QED BY <1>1, <1>2, <2>1, KeepsLock, SchedulerSteps, Zenon
  <1>3. CASE Stay /\ Goto(c, empty)
    <2>1. UNCHANGED list_lock /\ UNCHANGED vars
      BY <1>3, Zenon DEF Stay, vars
    <2> QED BY <1>1, <1>3, <2>1, KeepsLock, Zenon
  <1> QED BY <1>2, <1>3, Zenon DEF Notify

\* A step of the program alone.
LEMMA StayStep ==
  ASSUME NEW H, NEW L, pc \in [Tasks -> L], LockOK(H), IInv, NEW c \in CPUs,
         NEW from, NEW to \in L, Executing(c, from), Goto(c, to), Stay, from \in H => to \in H
  PROVE  LockOK(H)' /\ UNCHANGED vars
  <1>1. Running(c) \in Tasks /\ pc[Running(c)] = from
    BY RunningTask, Zenon DEF Executing
  <1>2. UNCHANGED list_lock /\ UNCHANGED vars
    BY Zenon DEF Stay, vars
  <1> QED BY <1>1, <1>2, KeepsLock, Zenon

LEMMA YieldStep ==
  ASSUME NEW H, LockOK(H), NEW c \in CPUs, yield_to_scheduler(c, PushBack), UNCHANGED pc
  PROVE  LockOK(H)' /\ Next
  BY SchedulerSteps, Zenon DEF yield_to_scheduler, LockOK

(* The queue *)

HoldsWaiters ==
  {"wait_ifnt", "predicate", "is_empty", "wait_inner", "return_false", "notify_inner", "notified"}

Unpushed == {"push", "push_back"}

\* Where the items are: the item of a pusher that has pushed is in one place.
Items ==
  /\ queue \in Seq(Tasks) /\ got \in [Tasks -> Tasks \cup {None}]
  /\ \A t \in Tasks : got[t] # None => pc[t] = Done
  /\ \A t \in Tasks : pc[t] \in Unpushed => t \in Pushers
  /\ \A i, j \in 1 .. Len(queue) : queue[i] = queue[j] => i = j
  /\ \A t \in Tasks : got[t] \notin TasksIn(queue)
  /\ \A t, u \in Tasks : got[t] = got[u] /\ got[t] # None => t = u
  /\ \A x \in Tasks : x \in Pushers /\ pc[x] \notin Unpushed
                      <=> x \in TasksIn(queue) \/ \E t \in Tasks : got[t] = x

WInv == pc \in [Tasks -> Labels] /\ LockOK(HoldsWaiters) /\ Items

\* What Items says of the items is what Conserved says of them.
LEMMA ItemsConserved ==
  ASSUME Items
  PROVE  Conserved
  <1>1. \A i, j \in DOMAIN queue : queue[i] = queue[j] => i = j
    BY DEF Items
  <1>2. TasksIn(queue) \subseteq Tasks /\ None \notin Tasks /\ Pushers \subseteq Tasks
    BY ConstantsAssumption, QueueTasks DEF Items, TasksIn
  <1>3. {t \in Pushers : pc[t] \notin {"push", "push_back"}}
          = TasksIn(queue) \cup ({got[t] : t \in Tasks} \ {None})
    BY <1>2 DEF Items, Unpushed
  <1> QED BY <1>1, <1>3, Zenon DEF Conserved, Items

\* A task that is neither done nor pushes goes on, or a pusher takes the lock.
LEMMA ItemsSame ==
  ASSUME pc \in [Tasks -> Labels], Items, UNCHANGED <<queue, got>>,
         NEW c \in CPUs, Running(c) \in Tasks, NEW p \in Labels, Goto(c, p),
         pc[Running(c)] # Done, pc[Running(c)] \in Unpushed <=> p \in Unpushed
  PROVE  Items'
  <1>1. pc'[Running(c)] = p /\ \A t \in Tasks : t # Running(c) => pc'[t] = pc[t]
    BY Zenon DEF Goto
  <1>2. TasksIn(queue)' = TasksIn(queue)
    BY Zenon DEF TasksIn
  <1>3. \A t \in Tasks : pc'[t] \in Unpushed <=> pc[t] \in Unpushed
    BY <1>1, Zenon
  <1>4. \A t \in Tasks : got[t] # None => pc'[t] = Done
    BY <1>1, Zenon DEF Items
  <1> QED BY <1>2, <1>3, <1>4, ZenonT(40) DEF Items

LEMMA ItemsKept ==
  ASSUME Items, UNCHANGED <<pc, queue, got>>
  PROVE  Items'
  BY DEF Items, TasksIn

\* The front leaves the queue for the call that returns it.
LEMMA ItemsPopped ==
  ASSUME pc \in [Tasks -> Labels], Items, NEW c \in CPUs, Running(c) \in Tasks, Goto(c, Done),
         pc[Running(c)] \notin Unpushed, pc[Running(c)] # Done, queue # <<>>,
         got' = [got EXCEPT ![Running(c)] = Head(queue)], queue' = Tail(queue)
  PROVE  Items'
  <1> DEFINE r == Running(c)
             x == Head(queue)
  <1>1. pc'[r] = Done /\ \A t \in Tasks : t # r => pc'[t] = pc[t]
    BY Zenon DEF Goto, Labels
  <1>2. got[r] = None /\ got'[r] = x /\ \A t \in Tasks : t # r => got'[t] = got[t]
    BY Zenon DEF Items
  <1>3. /\ queue \in Seq(Tasks) /\ x = queue[1] /\ x \in Tasks
        /\ Len(queue) \in Nat /\ Len(queue) >= 1
        /\ queue' \in Seq(Tasks) /\ Len(queue') = Len(queue) - 1
        /\ \A i \in 1 .. Len(queue) - 1 : queue'[i] = queue[i + 1]
    BY DEF Items
  <1>4. \A i, j \in 1 .. Len(queue) : queue[i] = queue[j] => i = j
    BY Zenon DEF Items
  <1>5. x \notin TasksIn(queue)' /\ x \in TasksIn(queue)
    BY <1>3, <1>4 DEF TasksIn
  <1>6. \A y : y \in TasksIn(queue) <=> y = x \/ y \in TasksIn(queue)'
    <2>1. ASSUME NEW y, y \in TasksIn(queue), y # x
          PROVE  y \in TasksIn(queue)'
      <3>1. PICK i \in 1 .. Len(queue) : queue[i] = y
        BY <2>1, Zenon DEF TasksIn
      <3>2. i - 1 \in 1 .. Len(queue) - 1 /\ (i - 1) + 1 = i
        BY <1>3, <2>1, <3>1
      <3> QED BY <1>3, <3>1, <3>2, Zenon DEF TasksIn
    <2>2. ASSUME NEW y, y \in TasksIn(queue)'
          PROVE  y \in TasksIn(queue)
      <3>1. PICK i \in 1 .. Len(queue) - 1 : queue[i + 1] = y
        BY <1>3, <2>2, ZenonT(40) DEF TasksIn
      <3> QED BY <1>3, <3>1 DEF TasksIn
    <2> QED BY <2>1, <2>2, <1>5, Zenon
  <1>7. \A i, j \in 1 .. Len(queue') : queue'[i] = queue'[j] => i = j
    BY <1>3, <1>4
  <1>8. x # None /\ None \notin Tasks
    BY <1>3, ConstantsAssumption, Zenon
  <1> HIDE DEF r, x
  <1>9. r \in Tasks /\ pc[r] \notin Unpushed /\ pc[r] # Done
    BY Zenon DEF r
  <1>10. got' \in [Tasks -> Tasks \cup {None}]
    BY <1>3, Zenon DEF Items, x
  <1>11. \A t \in Tasks : got'[t] # None => pc'[t] = Done
    BY <1>1, <1>2, <1>9 DEF Items
  <1>12. \A t \in Tasks : pc'[t] \in Unpushed <=> pc[t] \in Unpushed
    BY <1>1, <1>9, Zenon DEF Unpushed, Done
  <1>13. \A t \in Tasks : got'[t] \notin TasksIn(queue)'
    BY <1>2, <1>5, <1>6 DEF Items
  <1>14. \A t \in Tasks : got[t] # x
    BY <1>5 DEF Items
  <1>15. \A t, u \in Tasks : got'[t] = got'[u] /\ got'[t] # None => t = u
    BY <1>2, <1>9, <1>14 DEF Items
  <1>16. \A y \in Tasks : (\E t \in Tasks : got'[t] = y) <=> y = x \/ (\E t \in Tasks : got[t] = y)
    BY <1>2, <1>8, <1>9, Zenon
  <1>17. \A y \in Tasks : y \in Pushers /\ pc'[y] \notin Unpushed
                          <=> y \in TasksIn(queue)' \/ \E t \in Tasks : got'[t] = y
    BY <1>6, <1>12, <1>16, Zenon DEF Items
  <1> QED BY <1>3, <1>7, <1>10, <1>11, <1>12, <1>13, <1>15, <1>17, ZenonT(40) DEF Items

\* A pusher's item enters the queue.
LEMMA ItemsPushed ==
  ASSUME pc \in [Tasks -> Labels], Items, NEW c \in CPUs, Running(c) \in Tasks,
         Goto(c, "notify_one"), pc[Running(c)] = "push_back",
         queue' = Append(queue, Running(c)), UNCHANGED got
  PROVE  Items'
  <1> DEFINE r == Running(c)
  <1>1. pc'[r] = "notify_one" /\ \A t \in Tasks : t # r => pc'[t] = pc[t]
    BY Zenon DEF Goto, Labels
  <1>2. r \in Pushers /\ r \notin TasksIn(queue) /\ \A t \in Tasks : got[t] # r
    BY Zenon DEF Items, Unpushed
  <1>3. /\ queue \in Seq(Tasks) /\ Len(queue) \in Nat
        /\ queue' \in Seq(Tasks) /\ Len(queue') = Len(queue) + 1
        /\ queue'[Len(queue) + 1] = r
        /\ \A i \in 1 .. Len(queue) : queue'[i] = queue[i]
    BY DEF Items
  <1>4. \A y : y \in TasksIn(queue)' <=> y = r \/ y \in TasksIn(queue)
    BY <1>3 DEF TasksIn
  <1>5. \A i, j \in 1 .. Len(queue') : queue'[i] = queue'[j] => i = j
    <2>1. \A i \in 1 .. Len(queue) : queue[i] # r
      BY <1>2, Zenon DEF TasksIn
    <2>2. \A i, j \in 1 .. Len(queue) : queue[i] = queue[j] => i = j
      BY Zenon DEF Items
    <2> HIDE DEF r
    <2> QED BY <1>3, <2>1, <2>2
  <1> HIDE DEF r
  <1>6. r \in Tasks /\ pc[r] = "push_back"
    BY Zenon DEF r
  <1>7. \A t \in Tasks : got'[t] # None => pc'[t] = Done
    BY <1>1, <1>6, Zenon DEF Items, Done
  <1>8. \A t \in Tasks : pc'[t] \in Unpushed <=> pc[t] \in Unpushed /\ t # r
    BY <1>1, <1>6, Zenon DEF Unpushed
  <1>9. \A t \in Tasks : got'[t] \notin TasksIn(queue)'
    BY <1>2, <1>4, Zenon DEF Items
  <1>10. \A y \in Tasks : y \in Pushers /\ pc'[y] \notin Unpushed
                          <=> y \in TasksIn(queue)' \/ \E t \in Tasks : got'[t] = y
    BY <1>2, <1>4, <1>8 DEF Items
  <1> QED BY <1>3, <1>5, <1>7, <1>8, <1>9, <1>10 DEF Items

LEMMA QueueInit ==
  ASSUME WQInit
  PROVE  FirstState /\ WInv
  <1>1. PICK start \in [Tasks -> Labels] : (\A t \in Tasks : start[t] \in Entry[t]) /\ InitTasks(start)
    BY Zenon DEF WQInit
  <1>2. FirstState /\ pc \in [Tasks -> Labels] /\ \A t \in Tasks : pc[t] \in Entry[t]
    BY <1>1, Zenon DEF FirstState, InitTasks
  <1>3. LockOK(HoldsWaiters)
    <2>1. list_lock = [l \in Lists |-> None] /\ None \notin Tasks /\ waiters \in Lists
      BY <1>1, ConstantsAssumption, ListAssumption, Zenon DEF InitTasks
    <2> QED BY <2>1, Zenon DEF LockOK
  <1>4. \A t \in Tasks : pc[t] \in Unpushed <=> t \in Pushers
    <2> SUFFICES ASSUME NEW t \in Tasks
                 PROVE  pc[t] \in Unpushed <=> t \in Pushers
      BY Zenon
    <2>1. pc[t] \in CASE t \in Getters -> {"get"}
                      [] t \in Pushers -> {"push"}
                      [] t \in Pollers -> {"poll", "try_lock"}
      BY <1>2, Zenon DEF Entry
    <2>2. CASE t \in Getters
      BY <2>1, <2>2, QueueTasks, Zenon DEF Unpushed
    <2>3. CASE t \in Pushers
      BY <2>1, <2>3, QueueTasks, Zenon DEF Unpushed
    <2>4. CASE t \in Pollers
      BY <2>1, <2>4, QueueTasks, Zenon DEF Unpushed
    <2> QED BY <2>2, <2>3, <2>4, QueueTasks
  <1>5. Items
    <2>1. /\ queue = <<>> /\ queue \in Seq(Tasks) /\ Len(queue) = 0 /\ TasksIn(queue) = {}
          /\ got \in [Tasks -> Tasks \cup {None}] /\ \A t \in Tasks : got[t] = None
      BY DEF WQInit, TasksIn
    <2>2. None \notin Tasks
      BY ConstantsAssumption, Zenon
    <2> QED BY <1>4, <2>1, <2>2 DEF Items
  <1> QED BY <1>2, <1>3, <1>5, Zenon DEF WInv

LEMMA LockQueueStep ==
  ASSUME WInv, IInv, NEW c \in CPUs, NEW from, NEW to \in Labels, LockQueue(c, from, to),
         from # Done, from \in HoldsWaiters => to \in HoldsWaiters, from \in Unpushed <=> to \in Unpushed
  PROVE  WInv' /\ [Next]_vars
  <1> USE DEF WInv
  <1>1. Executing(c, from) /\ UNCHANGED <<queue, got>>
    BY Zenon DEF LockQueue
  <1>2. Running(c) \in Tasks /\ pc[Running(c)] = from
    BY <1>1, RunningTask, Zenon DEF Executing
  <1>3. CASE Goto(c, to) /\ Stay
    <2>1. LockOK(HoldsWaiters)' /\ UNCHANGED vars
      BY <1>1, <1>3, StayStep, Zenon
    <2>2. Items'
      BY <1>1, <1>2, <1>3, ItemsSame, Zenon
    <2>3. pc' \in [Tasks -> Labels]
      BY <1>2, <1>3, GotoFacts, Zenon
    <2> QED BY <2>1, <2>2, <2>3, Zenon
  <1>4. CASE yield_to_scheduler(c, PushBack) /\ UNCHANGED pc
    BY <1>1, <1>4, YieldStep, ItemsKept
  <1> QED BY <1>3, <1>4, Zenon DEF LockQueue

LEMMA PopFrontStep ==
  ASSUME WInv, IInv, NEW c \in CPUs, NEW from, NEW none \in Labels, pop_front(c, from, none),
         from \notin {Done} \cup HoldsWaiters \cup Unpushed, none \notin Unpushed
  PROVE  WInv' /\ [Next]_vars
  <1> USE DEF WInv
  <1>1. Executing(c, from) /\ Stay
    BY Zenon DEF pop_front
  <1>2. Running(c) \in Tasks /\ pc[Running(c)] = from
    BY <1>1, RunningTask, Zenon DEF Executing
  <1>3. CASE queue = <<>>
    <2>1. Goto(c, none) /\ UNCHANGED <<queue, got>>
      BY <1>3, Zenon DEF pop_front
    <2>2. LockOK(HoldsWaiters)' /\ UNCHANGED vars
      BY <1>1, <2>1, StayStep, Zenon
    <2>3. Items'
      BY <1>2, <2>1, ItemsSame, Zenon
    <2>4. pc' \in [Tasks -> Labels]
      BY <1>2, <2>1, GotoFacts
    <2> QED BY <2>2, <2>3, <2>4, Zenon
  <1>4. CASE queue # <<>>
    <2>1. /\ Goto(c, Done) /\ got' = [got EXCEPT ![Running(c)] = Head(queue)]
          /\ queue' = Tail(queue)
      BY <1>4, Zenon DEF pop_front
    <2>2. Done \in Labels
      BY Zenon DEF Labels
    <2>3. LockOK(HoldsWaiters)' /\ UNCHANGED vars
      BY <1>1, <2>1, <2>2, StayStep
    <2>4. Items'
      BY <1>2, <1>4, <2>1, ItemsPopped, Zenon
    <2>5. pc' \in [Tasks -> Labels]
      BY <1>2, <2>1, <2>2, GotoFacts
    <2> QED BY <2>3, <2>4, <2>5
  <1> QED BY <1>3, <1>4, Zenon

\* A step of the program alone that touches no item.
LEMMA QueueStay ==
  ASSUME WInv, IInv, NEW c \in CPUs, NEW from, NEW to \in Labels, Executing(c, from), Goto(c, to), Stay,
         UNCHANGED <<queue, got>>,
         from # Done, from \in HoldsWaiters => to \in HoldsWaiters, from \in Unpushed <=> to \in Unpushed
  PROVE  WInv' /\ [Next]_vars
  <1> USE DEF WInv
  <1>1. Running(c) \in Tasks /\ pc[Running(c)] = from
    BY RunningTask, Zenon DEF Executing
  <1>2. LockOK(HoldsWaiters)' /\ UNCHANGED vars
    BY StayStep, Zenon
  <1>3. Items' /\ pc' \in [Tasks -> Labels]
    BY <1>1, ItemsSame, GotoFacts, Zenon
  <1> QED BY <1>2, <1>3, Zenon

LEMMA PushBackStep ==
  ASSUME WInv, IInv, NEW c \in CPUs, push_back(c)
  PROVE  WInv' /\ [Next]_vars
  <1> USE DEF WInv
  <1>1. /\ Executing(c, "push_back") /\ Stay /\ Goto(c, "notify_one") /\ "notify_one" \in Labels
        /\ queue' = Append(queue, Running(c)) /\ UNCHANGED got
        /\ "push_back" \notin HoldsWaiters
    BY Zenon DEF push_back, Labels, HoldsWaiters
  <1>2. Running(c) \in Tasks /\ pc[Running(c)] = "push_back"
    BY <1>1, RunningTask, Zenon DEF Executing
  <1>3. LockOK(HoldsWaiters)' /\ UNCHANGED vars
    BY <1>1, StayStep, Zenon
  <1>4. Items'
    BY <1>1, <1>2, ItemsPushed, Zenon
  <1>5. pc' \in [Tasks -> Labels]
    BY <1>1, <1>2, GotoFacts, Zenon
  <1> QED BY <1>3, <1>4, <1>5, Zenon

\* A step with the list, which leaves the queue alone.
LEMMA ListStep ==
  ASSUME WInv, IInv, NEW c \in CPUs, UNCHANGED <<queue, got>>, LockOK(HoldsWaiters)', [Next]_vars,
         NEW from, NEW to \in Labels, Executing(c, from), Goto(c, to) \/ UNCHANGED pc,
         from \notin Unpushed, from # Done, to \notin Unpushed
  PROVE  WInv' /\ [Next]_vars
  <1> USE DEF WInv
  <1>1. Running(c) \in Tasks /\ pc[Running(c)] = from
    BY RunningTask, Zenon DEF Executing
  <1>2. CASE Goto(c, to)
    <2>1. Items' /\ pc' \in [Tasks -> Labels]
      BY <1>1, <1>2, ItemsSame, GotoFacts, Zenon
    <2> QED BY <2>1, Zenon
  <1>3. CASE UNCHANGED pc
    BY <1>3, ItemsKept, Zenon
  <1> QED BY <1>2, <1>3, Zenon

LEMMA GetStep ==
  ASSUME WInv, IInv, NEW c \in CPUs, get(c)
  PROVE  WInv' /\ [Next]_vars
  <1>0. pc \in [Tasks -> Labels] /\ LockOK(HoldsWaiters)
    BY Zenon DEF WInv
  <1>1. CASE LockQueue(c, "get", "get_pop")
    BY <1>1, LockQueueStep, Zenon DEF Labels, HoldsWaiters, Unpushed, Done
  <1>2. CASE pop_front(c, "get_pop", "wait_ifnt")
    BY <1>2, PopFrontStep, Zenon DEF Labels, HoldsWaiters, Unpushed, Done
  <1>3. CASE LockWaiters(c, "wait_ifnt", "predicate") /\ UNCHANGED <<queue, queue_lock, got>>
    <2>1. "predicate" \in Labels /\ "predicate" \in HoldsWaiters
      BY Zenon DEF Labels, HoldsWaiters
    <2>2. LockOK(HoldsWaiters)' /\ Next
      BY <1>0, <1>3, <2>1, LockWaitersStep
    <2>3. Executing(c, "wait_ifnt") /\ (Goto(c, "predicate") \/ UNCHANGED pc)
      BY <1>3, Zenon DEF LockWaiters
    <2> QED BY <1>3, <2>1, <2>2, <2>3, ListStep DEF Unpushed, Done
  <1>4. CASE LockQueue(c, "predicate", "is_empty")
    BY <1>4, LockQueueStep, Zenon DEF Labels, HoldsWaiters, Unpushed, Done
  <1>5. CASE is_empty(c)
    <2>1. PICK to \in {"wait_inner", "return_false"} : Goto(c, to)
      BY <1>5, Zenon DEF is_empty
    <2>2. Executing(c, "is_empty") /\ Stay /\ UNCHANGED <<queue, got>>
      BY <1>5, Zenon DEF is_empty
    <2>3. to \in Labels /\ to \in HoldsWaiters /\ to \notin Unpushed
      BY Zenon DEF Labels, HoldsWaiters, Unpushed
    <2> QED BY <2>1, <2>2, <2>3, QueueStay DEF Unpushed, Done
  <1>6. CASE Wait(c, "wait_inner", "wait_ifnt") /\ UNCHANGED <<queue, queue_lock, got>>
    <2>1. "wait_ifnt" \in Labels /\ "wait_ifnt" \in HoldsWaiters
      BY Zenon DEF Labels, HoldsWaiters
    <2>2. LockOK(HoldsWaiters)' /\ Next
      BY <1>0, <1>6, <2>1, WaitStep
    <2>3. Executing(c, "wait_inner") /\ Goto(c, "wait_ifnt")
      BY <1>6, Zenon DEF Wait
    <2> QED BY <1>6, <2>1, <2>2, <2>3, ListStep DEF Unpushed, Done
  <1>7. CASE UnlockWaiters(c, "return_false", "get") /\ UNCHANGED <<queue, queue_lock, got>>
    <2>1. "get" \in Labels
      BY Zenon DEF Labels
    <2>2. LockOK(HoldsWaiters)' /\ Next
      BY <1>0, <1>7, <2>1, UnlockWaitersStep
    <2>3. Executing(c, "return_false") /\ Goto(c, "get")
      BY <1>7, Zenon DEF UnlockWaiters
    <2> QED BY <1>7, <2>1, <2>2, <2>3, ListStep DEF Unpushed, Done
  <1> QED BY <1>1, <1>2, <1>3, <1>4, <1>5, <1>6, <1>7, SMTT(30) DEF get

LEMMA PushStep ==
  ASSUME WInv, IInv, NEW c \in CPUs, push(c)
  PROVE  WInv' /\ [Next]_vars
  <1>0. pc \in [Tasks -> Labels] /\ LockOK(HoldsWaiters)
    BY DEF WInv
  <1>1. CASE LockQueue(c, "push", "push_back")
    BY <1>1, LockQueueStep, Zenon DEF Labels, HoldsWaiters, Unpushed, Done
  <1>2. CASE push_back(c)
    BY <1>2, PushBackStep, Zenon
  <1>3. CASE LockWaiters(c, "notify_one", "notify_inner") /\ UNCHANGED <<queue, queue_lock, got>>
    <2>1. "notify_inner" \in Labels /\ "notify_inner" \in HoldsWaiters
      BY Zenon DEF Labels, HoldsWaiters
    <2>2. LockOK(HoldsWaiters)' /\ Next
      BY <1>0, <1>3, <2>1, LockWaitersStep, Zenon
    <2>3. Executing(c, "notify_one") /\ (Goto(c, "notify_inner") \/ UNCHANGED pc)
      BY <1>3, Zenon DEF LockWaiters
    <2> QED BY <1>3, <2>1, <2>2, <2>3, ListStep DEF Unpushed, Done
  <1>4. CASE Notify(c, "notify_inner", "notified", "notified") /\ UNCHANGED <<queue, queue_lock, got>>
    <2>1. "notified" \in Labels /\ "notified" \in HoldsWaiters
      BY Zenon DEF Labels, HoldsWaiters
    <2>2. LockOK(HoldsWaiters)' /\ [Next]_vars
      BY <1>0, <1>4, <2>1, NotifyStep, Zenon
    <2>3. Executing(c, "notify_inner") /\ Goto(c, "notified")
      BY <1>4, Zenon DEF Notify
    <2> QED BY <1>4, <2>1, <2>2, <2>3, ListStep, Zenon DEF Unpushed, Done
  <1>5. CASE UnlockWaiters(c, "notified", Done) /\ UNCHANGED <<queue, queue_lock, got>>
    <2>1. Done \in Labels
      BY Zenon DEF Labels
    <2>2. LockOK(HoldsWaiters)' /\ Next
      BY <1>0, <1>5, <2>1, UnlockWaitersStep, Zenon
    <2>3. Executing(c, "notified") /\ Goto(c, Done)
      BY <1>5, Zenon DEF UnlockWaiters
    <2> QED BY <1>5, <2>1, <2>2, <2>3, ListStep DEF Unpushed, Done
  <1> QED BY <1>1, <1>2, <1>3, <1>4, <1>5 DEF push

LEMMA PollStep ==
  ASSUME WInv, IInv, NEW c \in CPUs, poll(c)
  PROVE  WInv' /\ [Next]_vars
  <1>1. CASE LockQueue(c, "poll", "poll_pop")
    BY <1>1, LockQueueStep, Zenon DEF Labels, HoldsWaiters, Unpushed, Done
  <1>2. CASE try_lock(c)
    <2>1. PICK to \in {"poll_pop", Done} : Goto(c, to)
      BY <1>2, Zenon DEF try_lock
    <2>2. Executing(c, "try_lock") /\ Stay /\ UNCHANGED <<queue, got>>
      BY <1>2, Zenon DEF try_lock
    <2>3. to \in Labels /\ to \notin Unpushed
      BY Zenon DEF Labels, Unpushed, Done
    <2> QED BY <2>1, <2>2, <2>3, QueueStay, Zenon DEF Unpushed, HoldsWaiters, Done
  <1>3. CASE pop_front(c, "poll_pop", Done)
    BY <1>3, PopFrontStep, Zenon DEF Labels, HoldsWaiters, Unpushed, Done
  <1> QED BY <1>1, <1>2, <1>3, Zenon DEF poll

LEMMA QueueNext ==
  ASSUME WInv, IInv, [WQNext]_wq_vars
  PROVE  WInv' /\ [Next]_vars
  <1>1. ASSUME NEW c \in CPUs, SystemStep(c), UNCHANGED <<queue, queue_lock, got>>
        PROVE  WInv' /\ [Next]_vars
    <2>1. LockOK(HoldsWaiters)' /\ UNCHANGED pc
      BY <1>1, SystemLocks, Zenon DEF WInv
    <2>2. Next
      BY <1>1, SystemAllowed, Zenon DEF WInv, HoldsWaiters, Done
    <2> QED BY <1>1, <2>1, <2>2, ItemsKept, Zenon DEF WInv
  <1>2. CASE UNCHANGED wq_vars
    <2>1. UNCHANGED vars /\ UNCHANGED <<pc, queue, got>> /\ UNCHANGED list_lock
      BY <1>2, Zenon DEF wq_vars, list_vars, vars
    <2>2. LockOK(HoldsWaiters)'
      BY <2>1, Zenon DEF WInv, LockOK
    <2> QED BY <2>1, <2>2, ItemsKept, Zenon DEF WInv
  <1> QED BY <1>1, <1>2, GetStep, PushStep, PollStep DEF WQNext, Idle, Step, TaskStep

\* The invariant of the queue is inductive with that of the scheduler.
THEOREM QueueInvariance == WQSpec => [](IInv /\ PInv /\ WInv) /\ [][Next]_vars
  <1> DEFINE Inv == IInv /\ PInv /\ WInv
  <1>1. WQInit => Inv
    BY QueueInit, FirstInv, FirstPlaces, Zenon
  <1>2. Inv /\ [WQNext]_wq_vars => Inv' /\ [Next]_vars
    <2>1. WInv /\ IInv /\ [WQNext]_wq_vars => WInv' /\ [Next]_vars
      BY QueueNext, Zenon
    <2>2. IInv /\ [Next]_vars => IInv'
      BY NextInv, Zenon
    <2>3. IInv /\ PInv /\ [Next]_vars => PInv'
      BY NextPlaces, Zenon
    <2> QED BY <2>1, <2>2, <2>3, Zenon
  <1> HIDE DEF Inv
  <1>3. WQSpec => []Inv /\ [][Next]_vars
    BY <1>1, <1>2, PTL DEF WQSpec
  <1> QED BY <1>3, Zenon DEF Inv

(***************************************************************************)
(* Every item that is pushed is in the queue or was returned, once: no     *)
(* interleaving of get, get_if_available, get_nonblocking and push loses   *)
(* an item or gives it to two callers.                                     *)
(***************************************************************************)
THEOREM ConservedHolds == WQSpec => []Conserved
  <1>1. WInv => Conserved
    BY ItemsConserved, Zenon DEF WInv
  <1> QED BY <1>1, QueueInvariance, PTL

(***************************************************************************)
(* A get that waits and a push that notifies it from another CPU keep each *)
(* task in one place, on one CPU and on a stack that is not freed.         *)
(***************************************************************************)
THEOREM QueueTasksPlaced ==
  WQSpec => [](OnePlace /\ StackAlive /\ NoSharedStack /\ Affinity)
  <1>1. IInv /\ PInv => OnePlace /\ StackAlive /\ NoSharedStack /\ Affinity
    BY Types, Places, Exclusive, Homes DEF PInv, CpuPhase, StackAlive
  <1> QED BY <1>1, QueueInvariance, PTL
----------------------------------------------------------------------------
(* The promise *)

HoldsList == {"get", "predicate", "wait_inner", "return", "notify_inner", "notified"}

GetLabels == {"get", "predicate", "wait_inner", "return"}
Filling == {"set_value", "set_none", "store"}

\* One task at most fills the promise, between INUSE and COMPLETE.
Filled ==
  /\ word \in {EMPTY, INUSE, COMPLETE}
  /\ is_ack => word # INUSE
  /\ \A t \in Tasks : pc[t] \in Filling => word = INUSE
  /\ \A t \in Tasks : pc[t] = "store" => value # None
  /\ \A t, u \in Tasks : pc[t] \in Filling /\ pc[u] \in Filling => t = u
  /\ word = COMPLETE => value # None

\* What getters and pollers have read.
Reads ==
  /\ got = [t \in Tasks |-> got[t]]
  /\ \A t \in Tasks : pc[t] \in GetLabels => t \in Getters
  /\ \A t \in Tasks : pc[t] = "try_get" => t \in Pollers
  /\ \A t \in Getters : pc[t] \in GetLabels \cup {Done}
  /\ \A t \in Pollers : pc[t] \in {"try_get", Done}
  /\ \A t \in Getters : pc[t] \in {"return", Done} => word = COMPLETE /\ got[t] = value
  /\ \A t \in Pollers : got[t] \notin {None, Pending} => word = COMPLETE /\ got[t] = value

PrInv == pc \in [Tasks -> PLabels] /\ LockOK(HoldsList) /\ Filled /\ Reads

LEMMA ReadsAgree ==
  ASSUME PrInv
  PROVE  Agreement
  BY Zenon DEF PrInv, Filled, Reads, Agreement

\* A task goes on without filling or reading anything.
Passes(from, to) ==
  /\ from \in GetLabels \cup {"try_get"} => to \in GetLabels /\ from \in GetLabels
  /\ to \in GetLabels => from \in GetLabels /\ to # "return"
  /\ to # "try_get" /\ to \notin Filling /\ from \notin Filling \cup {Done}

LEMMA MoveKeeps ==
  ASSUME PrInv, NEW c \in CPUs, Running(c) \in Tasks, NEW to \in PLabels, Goto(c, to),
         Passes(pc[Running(c)], to), UNCHANGED <<is_ack, word, value, got>>
  PROVE  Filled' /\ Reads' /\ pc' \in [Tasks -> PLabels]
  <1> USE DEF PrInv
  <1> DEFINE r == Running(c)
  <1>1. pc'[r] = to /\ \A t \in Tasks : t # r => pc'[t] = pc[t]
    BY Zenon DEF Goto
  <1>2. pc' \in [Tasks -> PLabels]
    BY GotoFacts, Zenon
  <1>3. r \in Tasks /\ Getters \subseteq Tasks /\ Pollers \subseteq Tasks
    BY PromiseTasks, Zenon
  <1>4. \A t \in Tasks : pc'[t] \in Filling => pc'[t] = pc[t]
    BY <1>1, Zenon DEF Passes
  <1>5. Filled'
    BY <1>4, Zenon DEF Filled, Filling
  <1> HIDE DEF r
  <1>6. Reads'
    BY <1>1, <1>3, Zenon DEF Reads, Passes, GetLabels, r, Done
  <1> QED BY <1>2, <1>5, <1>6

LEMMA PromiseSame ==
  ASSUME PrInv, UNCHANGED <<pc, is_ack, word, value, got>>
  PROVE  Filled' /\ Reads' /\ pc' \in [Tasks -> PLabels]
  BY Zenon DEF PrInv, Filled, Reads

LEMMA PromiseInit ==
  ASSUME PInit
  PROVE  FirstState /\ PrInv
  <1>1. PICK start \in [Tasks -> PLabels] : (\A t \in Tasks : start[t] \in Start[t]) /\ InitTasks(start)
    BY SMTT(30) DEF PInit
  <1>2. FirstState /\ pc \in [Tasks -> PLabels] /\ \A t \in Tasks : pc[t] \in Start[t]
    BY <1>1 DEF FirstState, InitTasks
  <1>3. LockOK(HoldsList)
    <2>1. list_lock = [l \in Lists |-> None] /\ None \notin Tasks /\ waiters \in Lists
      BY <1>1, ConstantsAssumption, ListAssumption DEF InitTasks
    <2> QED BY <2>1, SMTT(30) DEF LockOK
  <1>4. ASSUME NEW t \in Tasks
        PROVE  /\ t \in Getters => pc[t] = "get"
               /\ t \in Pollers => pc[t] = "try_get"
               /\ t \in Fulfillers => pc[t] \in {"complete", "cancel", "release"}
    <2>1. pc[t] \in CASE t \in Getters -> {"get"}
                      [] t \in Pollers -> {"try_get"}
                      [] t \in Fulfillers -> {"complete", "cancel", "release"}
      BY <1>2, Zenon DEF Start
    <2> QED BY <2>1, PromiseTasks, Zenon
  <1>5. Filled
    BY <1>4, PromiseTasks, Zenon DEF PInit, Filled, Filling, EMPTY, INUSE, COMPLETE
  <1>6. Reads
    BY <1>4, PromiseTasks, Zenon DEF PInit, Reads, GetLabels, Done
  <1> QED BY <1>2, <1>3, <1>5, <1>6, Zenon DEF PrInv

\* A getter finds the promise filled and takes the value.
LEMMA GetReads ==
  ASSUME PrInv, NEW c \in CPUs, Running(c) \in Tasks, pc[Running(c)] = "predicate", Goto(c, "return"),
         word = COMPLETE, got' = [got EXCEPT ![Running(c)] = value], UNCHANGED <<is_ack, word, value>>
  PROVE  Filled' /\ Reads' /\ pc' \in [Tasks -> PLabels]
  <1> USE DEF PrInv
  <1> DEFINE r == Running(c)
  <1>1. pc'[r] = "return" /\ \A t \in Tasks : t # r => pc'[t] = pc[t]
    BY Zenon DEF Goto
  <1>2. /\ got'[r] = value /\ \A t \in Tasks : t # r => got'[t] = got[t]
        /\ got' = [t \in Tasks |-> got'[t]]
    BY Zenon DEF Reads
  <1>3. r \in Tasks /\ r \in Getters /\ pc[r] = "predicate"
    BY Zenon DEF Reads, GetLabels
  <1>4. Getters \subseteq Tasks /\ Pollers \subseteq Tasks /\ r \notin Pollers
    BY <1>3, PromiseTasks, Zenon
  <1> HIDE DEF r
  <1>5. pc' \in [Tasks -> PLabels]
    BY GotoFacts, Zenon DEF PLabels
  <1>6. Filled'
    BY <1>1, <1>3, Zenon DEF Filled, Filling
  <1>7. Reads'
    BY <1>1, <1>2, <1>3, <1>4 DEF Reads, GetLabels, Done
  <1> QED BY <1>5, <1>6, <1>7

LEMMA GetReturns ==
  ASSUME PrInv, NEW c \in CPUs, Running(c) \in Tasks, pc[Running(c)] = "return", Goto(c, Done),
         UNCHANGED <<is_ack, word, value, got>>
  PROVE  Filled' /\ Reads' /\ pc' \in [Tasks -> PLabels]
  <1> USE DEF PrInv
  <1> DEFINE r == Running(c)
  <1>1. pc'[r] = Done /\ \A t \in Tasks : t # r => pc'[t] = pc[t]
    BY Zenon DEF Goto
  <1>2. r \in Tasks /\ r \in Getters /\ pc[r] = "return"
    BY Zenon DEF Reads, GetLabels
  <1>3. Getters \subseteq Tasks /\ Pollers \subseteq Tasks /\ r \notin Pollers
    BY <1>2, PromiseTasks, Zenon
  <1> HIDE DEF r
  <1>4. pc' \in [Tasks -> PLabels]
    BY GotoFacts, Zenon DEF PLabels
  <1>5. Filled'
    BY <1>1, <1>2, Zenon DEF Filled, Filling, Done
  <1>6. Reads'
    BY <1>1, <1>2, <1>3, Zenon DEF Reads, GetLabels, Done
  <1> QED BY <1>4, <1>5, <1>6

LEMMA TryGetReads ==
  ASSUME PrInv, NEW c \in CPUs, Running(c) \in Tasks, pc[Running(c)] = "try_get", Goto(c, Done),
         got' = [got EXCEPT ![Running(c)] = IF word = COMPLETE THEN value ELSE Pending],
         UNCHANGED <<is_ack, word, value>>
  PROVE  Filled' /\ Reads' /\ pc' \in [Tasks -> PLabels]
  <1> USE DEF PrInv
  <1> DEFINE r == Running(c)
  <1>1. pc'[r] = Done /\ \A t \in Tasks : t # r => pc'[t] = pc[t]
    BY Zenon DEF Goto
  <1>2. /\ got'[r] = IF word = COMPLETE THEN value ELSE Pending
        /\ \A t \in Tasks : t # r => got'[t] = got[t]
        /\ got' = [t \in Tasks |-> got'[t]]
    BY Zenon DEF Reads
  <1>3. r \in Tasks /\ r \in Pollers /\ pc[r] = "try_get"
    BY Zenon DEF Reads
  <1>4. Getters \subseteq Tasks /\ Pollers \subseteq Tasks /\ r \notin Getters
    BY <1>3, PromiseTasks, Zenon
  <1> HIDE DEF r
  <1>5. pc' \in [Tasks -> PLabels]
    BY GotoFacts, Zenon DEF PLabels
  <1>6. Filled'
    BY <1>1, <1>3, Zenon DEF Filled, Filling, Done
  <1>7. Reads'
    BY <1>1, <1>2, <1>3, <1>4 DEF Reads, GetLabels, Done
  <1> QED BY <1>5, <1>6, <1>7, Zenon

\* A step of a fulfiller, which is no getter and no poller.
Fulfils(from, to) ==
  /\ {from, to} \cap (GetLabels \cup {"try_get", Done}) = {}

LEMMA FulfilReads ==
  ASSUME PrInv, NEW c \in CPUs, Running(c) \in Tasks, NEW to \in PLabels, Goto(c, to),
         Fulfils(pc[Running(c)], to), UNCHANGED got, word # COMPLETE
  PROVE  Reads' /\ pc' \in [Tasks -> PLabels]
  <1> USE DEF PrInv
  <1> DEFINE r == Running(c)
  <1>1. pc'[r] = to /\ \A t \in Tasks : t # r => pc'[t] = pc[t]
    BY Zenon DEF Goto
  <1>2. pc' \in [Tasks -> PLabels]
    BY GotoFacts, Zenon
  <1>3. r \in Tasks /\ Getters \subseteq Tasks /\ Pollers \subseteq Tasks /\ r \notin Getters \cup Pollers
    BY PromiseTasks, Zenon DEF Reads, Fulfils
  <1> HIDE DEF r
  <1>4. Reads'
    BY <1>1, <1>3, Zenon DEF Reads, Fulfils, r
  <1> QED BY <1>2, <1>4, Zenon

LEMMA SetStep ==
  ASSUME PrInv, IInv, NEW c \in CPUs, NEW from, NEW filled \in {"set_value", "set_none"},
         from \in {"complete", "cancel", "drop"}, set(c, from, filled), UNCHANGED is_ack
  PROVE  PrInv' /\ [Next]_vars
  <1>0. pc \in [Tasks -> PLabels] /\ LockOK(HoldsList) /\ from \notin HoldsList
    BY Zenon DEF PrInv, HoldsList
  <1>1. Executing(c, from) /\ Stay /\ UNCHANGED <<value, got>> /\ ~is_ack
    BY Zenon DEF set
  <1>2. Running(c) \in Tasks /\ pc[Running(c)] = from
    BY <1>1, RunningTask, Zenon DEF Executing
  <1>3. CASE word = EMPTY
    <2>1. word' = INUSE /\ Goto(c, filled)
      BY <1>3, Zenon DEF set
    <2>2. filled \in PLabels /\ filled \in Filling /\ filled # "store" /\ filled \notin HoldsList
      BY Zenon DEF PLabels, Filling, HoldsList
    <2>3. LockOK(HoldsList)' /\ UNCHANGED vars
      BY <1>0, <1>1, <2>1, <2>2, StayStep
    <2>4. Reads' /\ pc' \in [Tasks -> PLabels]
      BY <1>1, <1>2, <1>3, <2>1, <2>2, FulfilReads DEF Fulfils, GetLabels, Done, EMPTY, COMPLETE
    <2>5. Filled'
      <3>1. pc'[Running(c)] = filled /\ \A t \in Tasks : t # Running(c) => pc'[t] = pc[t]
        BY <1>0, <1>2, <2>1 DEF Goto
      <3>2. \A t \in Tasks : pc[t] \notin Filling
        BY <1>3, Zenon DEF PrInv, Filled, EMPTY, INUSE
      <3>3. \A t \in Tasks : pc'[t] \in Filling <=> t = Running(c)
        BY <1>2, <2>2, <3>1, <3>2
      <3>4. \A t \in Tasks : pc'[t] # "store"
        BY <2>2, <3>1, <3>2 DEF Filling
      <3> QED BY <1>1, <2>1, <3>3, <3>4, Zenon DEF Filled, EMPTY, INUSE, COMPLETE
    <2> QED BY <2>3, <2>4, <2>5, Zenon DEF PrInv
  <1>4. CASE word # EMPTY
    <2>1. UNCHANGED word /\ Goto(c, NotFilled(from))
      BY <1>4, Zenon DEF set
    <2>2. NotFilled(from) \in PLabels /\ Passes(from, NotFilled(from))
      BY Zenon DEF NotFilled, PLabels, Passes, GetLabels, Filling, Done
    <2>3. LockOK(HoldsList)' /\ UNCHANGED vars
      BY <1>0, <1>1, <2>1, <2>2, StayStep, SMTT(30)
    <2>4. Filled' /\ Reads' /\ pc' \in [Tasks -> PLabels]
      BY <1>1, <1>2, <2>1, <2>2, MoveKeeps, SMTT(30)
    <2> QED BY <2>3, <2>4, Zenon DEF PrInv
  <1> QED BY <1>3, <1>4, Zenon

LEMMA AckFillStep ==
  ASSUME PrInv, IInv, NEW c \in CPUs, NEW from, NEW written, written # None,
         from \in {"complete", "cancel", "drop"}, ack_fill(c, from, written), UNCHANGED is_ack
  PROVE  PrInv' /\ [Next]_vars
  <1>0. pc \in [Tasks -> PLabels] /\ LockOK(HoldsList) /\ from \notin HoldsList
    BY Zenon DEF PrInv, HoldsList
  <1>1. Executing(c, from) /\ Stay /\ UNCHANGED got
    BY Zenon DEF ack_fill
  <1>2. Running(c) \in Tasks /\ pc[Running(c)] = from
    BY <1>1, RunningTask, Zenon DEF Executing
  <1>3. CASE word = EMPTY
    <2>1. word' = COMPLETE /\ value' = written /\ Goto(c, "notify_all") /\ "notify_all" \in PLabels
      BY <1>3, Zenon DEF ack_fill, PLabels
    <2>2. LockOK(HoldsList)' /\ UNCHANGED vars
      BY <1>0, <1>1, <2>1, StayStep, SMTT(30)
    <2>3. Reads' /\ pc' \in [Tasks -> PLabels]
      BY <1>1, <1>2, <1>3, <2>1, FulfilReads, SMTT(30) DEF Fulfils, GetLabels, Done, EMPTY, COMPLETE
    <2>4. Filled'
      <3>1. pc'[Running(c)] = "notify_all" /\ \A t \in Tasks : t # Running(c) => pc'[t] = pc[t]
        BY <1>0, <1>2, <2>1 DEF Goto
      <3>2. \A t \in Tasks : pc[t] \notin Filling
        BY <1>3, Zenon DEF PrInv, Filled, EMPTY, INUSE
      <3>3. \A t \in Tasks : pc'[t] \notin Filling
        BY <3>1, <3>2, Zenon DEF Filling
      <3> QED BY <2>1, <3>3, Zenon DEF Filled, Filling, EMPTY, INUSE, COMPLETE
    <2> QED BY <2>2, <2>3, <2>4, Zenon DEF PrInv
  <1>4. CASE word # EMPTY
    <2>1. UNCHANGED <<word, value>> /\ Goto(c, NotFilled(from))
      BY <1>4, Zenon DEF ack_fill
    <2>2. NotFilled(from) \in PLabels /\ Passes(from, NotFilled(from))
      BY Zenon DEF NotFilled, PLabels, Passes, GetLabels, Filling, Done
    <2>3. LockOK(HoldsList)' /\ UNCHANGED vars
      BY <1>0, <1>1, <2>1, <2>2, StayStep, SMTT(30)
    <2>4. Filled' /\ Reads' /\ pc' \in [Tasks -> PLabels]
      BY <1>1, <1>2, <2>1, <2>2, MoveKeeps, SMTT(30)
    <2> QED BY <2>3, <2>4, Zenon DEF PrInv
  <1> QED BY <1>3, <1>4, Zenon

LEMMA WriteValueStep ==
  ASSUME PrInv, IInv, NEW c \in CPUs, NEW from \in {"set_value", "set_none"}, NEW written, written # None,
         WriteValue(c, from, written), UNCHANGED is_ack
  PROVE  PrInv' /\ [Next]_vars
  <1>0. /\ pc \in [Tasks -> PLabels] /\ LockOK(HoldsList) /\ from \notin HoldsList
        /\ "store" \in PLabels
    BY Zenon DEF PrInv, HoldsList, PLabels
  <1>1. Executing(c, from) /\ Stay /\ UNCHANGED <<word, got>> /\ value' = written /\ Goto(c, "store")
    BY Zenon DEF WriteValue
  <1>2. Running(c) \in Tasks /\ pc[Running(c)] = from
    BY <1>1, RunningTask, Zenon DEF Executing
  <1>3. LockOK(HoldsList)' /\ UNCHANGED vars
    BY <1>0, <1>1, StayStep, Zenon
  <1>4. word = INUSE
    BY <1>2, Zenon DEF PrInv, Filled, Filling
  <1>5. Reads' /\ pc' \in [Tasks -> PLabels]
    BY <1>0, <1>1, <1>2, <1>4, FulfilReads, SMTT(30) DEF Fulfils, GetLabels, Done, INUSE, COMPLETE
  <1>6. Filled'
    <2>1. pc'[Running(c)] = "store" /\ \A t \in Tasks : t # Running(c) => pc'[t] = pc[t]
      BY <1>0, <1>1, <1>2, Zenon DEF Goto
    <2>2. \A t \in Tasks : pc[t] \in Filling <=> t = Running(c)
      BY <1>2, Zenon DEF PrInv, Filled, Filling
    <2>3. \A t \in Tasks : pc'[t] \in Filling <=> t = Running(c)
      BY <1>2, <2>1, <2>2, Zenon DEF Filling
    <2> QED BY <1>1, <1>4, <2>3, Zenon DEF PrInv, Filled, INUSE, COMPLETE
  <1> QED BY <1>3, <1>5, <1>6 DEF PrInv

LEMMA StoreCompleteStep ==
  ASSUME PrInv, IInv, NEW c \in CPUs, StoreComplete(c), UNCHANGED is_ack
  PROVE  PrInv' /\ [Next]_vars
  <1>0. /\ pc \in [Tasks -> PLabels] /\ LockOK(HoldsList) /\ "store" \notin HoldsList
        /\ "notify_all" \in PLabels
    BY Zenon DEF PrInv, HoldsList, PLabels
  <1>1. /\ Executing(c, "store") /\ Stay /\ UNCHANGED <<value, got>> /\ word' = COMPLETE
        /\ Goto(c, "notify_all")
    BY Zenon DEF StoreComplete
  <1>2. Running(c) \in Tasks /\ pc[Running(c)] = "store"
    BY <1>1, RunningTask, Zenon DEF Executing
  <1>3. LockOK(HoldsList)' /\ UNCHANGED vars
    BY <1>0, <1>1, StayStep, Zenon
  <1>4. word = INUSE /\ value # None
    BY <1>2, Zenon DEF PrInv, Filled, Filling
  <1>5. Reads' /\ pc' \in [Tasks -> PLabels]
    BY <1>0, <1>1, <1>2, <1>4, FulfilReads, SMTT(30) DEF Fulfils, GetLabels, Done, INUSE, COMPLETE
  <1>6. Filled'
    <2>1. pc'[Running(c)] = "notify_all" /\ \A t \in Tasks : t # Running(c) => pc'[t] = pc[t]
      BY <1>0, <1>1, <1>2, Zenon DEF Goto
    <2>2. \A t \in Tasks : pc[t] \in Filling <=> t = Running(c)
      BY <1>2, Zenon DEF PrInv, Filled, Filling
    <2>3. \A t \in Tasks : pc'[t] \notin Filling
      BY <2>1, <2>2, Zenon DEF Filling
    <2> QED BY <1>1, <1>4, <2>3 DEF Filled, Filling, INUSE, COMPLETE
  <1> QED BY <1>3, <1>5, <1>6, Zenon DEF PrInv

\* A step with the list or of the program alone, which fills and reads nothing.
LEMMA OtherStep ==
  ASSUME PrInv, IInv, NEW c \in CPUs, UNCHANGED <<is_ack, word, value, got>>,
         LockOK(HoldsList)', [Next]_vars,
         NEW from, NEW to \in PLabels, Executing(c, from), Goto(c, to) \/ UNCHANGED pc, Passes(from, to)
  PROVE  PrInv' /\ [Next]_vars
  <1>1. Running(c) \in Tasks /\ pc[Running(c)] = from
    BY RunningTask, Zenon DEF Executing
  <1>2. CASE Goto(c, to)
    BY <1>1, <1>2, MoveKeeps, Zenon DEF PrInv
  <1>3. CASE UNCHANGED pc
    BY <1>3, PromiseSame, Zenon DEF PrInv
  <1> QED BY <1>2, <1>3, Zenon

LEMMA PredicateStep ==
  ASSUME PrInv, IInv, NEW c \in CPUs, predicate(c) \/ ack_predicate(c), UNCHANGED is_ack
  PROVE  PrInv' /\ [Next]_vars
  <1>0. /\ pc \in [Tasks -> PLabels] /\ LockOK(HoldsList)
        /\ "return" \in PLabels \cap HoldsList /\ "wait_inner" \in PLabels \cap HoldsList
    BY Zenon DEF PrInv, HoldsList, PLabels
  <1>1. Executing(c, "predicate") /\ Stay /\ UNCHANGED <<word, value>>
    BY Zenon DEF predicate, ack_predicate
  <1>2. Running(c) \in Tasks /\ pc[Running(c)] = "predicate"
    BY <1>1, RunningTask, Zenon DEF Executing
  <1>3. \/ /\ word = COMPLETE /\ got' = [got EXCEPT ![Running(c)] = value] /\ Goto(c, "return")
        \/ Goto(c, "wait_inner") /\ UNCHANGED got
    BY Zenon DEF predicate, ack_predicate, PrInv, Filled
  <1>4. CASE Goto(c, "wait_inner") /\ UNCHANGED got
    <2>1. LockOK(HoldsList)' /\ UNCHANGED vars
      BY <1>0, <1>1, <1>4, StayStep
    <2>2. Passes("predicate", "wait_inner")
      BY Zenon DEF Passes, GetLabels, Filling, Done
    <2> QED BY <1>0, <1>1, <1>4, <2>1, <2>2, OtherStep, SMTT(30)
  <1>5. CASE /\ word = COMPLETE /\ got' = [got EXCEPT ![Running(c)] = value] /\ Goto(c, "return")
    <2>1. LockOK(HoldsList)' /\ UNCHANGED vars
      BY <1>0, <1>1, <1>5, StayStep, Zenon
    <2>2. Filled' /\ Reads' /\ pc' \in [Tasks -> PLabels]
      BY <1>1, <1>2, <1>5, GetReads, Zenon
    <2> QED BY <2>1, <2>2, Zenon DEF PrInv
  <1> QED BY <1>3, <1>4, <1>5

LEMMA WaitUntilTryStep ==
  ASSUME PrInv, IInv, NEW c \in CPUs, wait_until_try(c), UNCHANGED is_ack
  PROVE  PrInv' /\ [Next]_vars
  <1>0. pc \in [Tasks -> PLabels] /\ LockOK(HoldsList)
    BY Zenon DEF PrInv
  <1>1. CASE LockWaiters(c, "get", "predicate") /\ UNCHANGED own_vars
    <2>1. "predicate" \in PLabels /\ "predicate" \in HoldsList /\ Passes("get", "predicate")
      BY Zenon DEF PLabels, HoldsList, Passes, GetLabels, Filling, Done
    <2>2. LockOK(HoldsList)' /\ Next
      BY <1>0, <1>1, <2>1, LockWaitersStep, ZenonT(40)
    <2>3. Executing(c, "get") /\ (Goto(c, "predicate") \/ UNCHANGED pc)
      BY <1>1, Zenon DEF LockWaiters
    <2> QED BY <1>1, <2>1, <2>2, <2>3, OtherStep, SMTT(30) DEF own_vars
  <1>2. CASE predicate(c) \/ ack_predicate(c)
    BY <1>2, PredicateStep, Zenon
  <1>3. CASE Wait(c, "wait_inner", "get") /\ UNCHANGED own_vars
    <2>1. "get" \in PLabels /\ "get" \in HoldsList /\ Passes("wait_inner", "get")
      BY Zenon DEF PLabels, HoldsList, Passes, GetLabels, Filling, Done
    <2>2. LockOK(HoldsList)' /\ Next
      BY <1>0, <1>3, <2>1, WaitStep, Zenon
    <2>3. Executing(c, "wait_inner") /\ Goto(c, "get")
      BY <1>3, Zenon DEF Wait
    <2> QED BY <1>3, <2>1, <2>2, <2>3, OtherStep, SMTT(30) DEF own_vars
  <1>4. CASE UnlockWaiters(c, "return", Done) /\ UNCHANGED own_vars
    <2>1. Done \in PLabels
      BY Zenon DEF PLabels
    <2>2. LockOK(HoldsList)' /\ Next
      BY <1>0, <1>4, <2>1, UnlockWaitersStep, ZenonT(40)
    <2>3. Executing(c, "return") /\ Goto(c, Done)
      BY <1>4, Zenon DEF UnlockWaiters
    <2>4. Running(c) \in Tasks /\ pc[Running(c)] = "return"
      BY <2>3, RunningTask, Zenon DEF Executing
    <2>5. Filled' /\ Reads' /\ pc' \in [Tasks -> PLabels]
      BY <1>4, <2>3, <2>4, GetReturns, Zenon DEF own_vars
    <2> QED BY <2>2, <2>5, Zenon DEF PrInv
  <1> QED BY <1>1, <1>2, <1>3, <1>4, Zenon DEF wait_until_try

LEMMA TryGetStep ==
  ASSUME PrInv, IInv, NEW c \in CPUs, try_get(c), UNCHANGED is_ack
  PROVE  PrInv' /\ [Next]_vars
  <1>0. pc \in [Tasks -> PLabels] /\ LockOK(HoldsList) /\ "try_get" \notin HoldsList /\ Done \in PLabels
    BY Zenon DEF PrInv, HoldsList, PLabels
  <1>1. /\ Executing(c, "try_get") /\ Stay /\ UNCHANGED <<word, value>> /\ Goto(c, Done)
        /\ got' = [got EXCEPT ![Running(c)] = IF word = COMPLETE THEN value ELSE Pending]
    BY Zenon DEF try_get
  <1>2. Running(c) \in Tasks /\ pc[Running(c)] = "try_get"
    BY <1>1, RunningTask, Zenon DEF Executing
  <1>3. LockOK(HoldsList)' /\ UNCHANGED vars
    BY <1>0, <1>1, StayStep, Zenon
  <1>4. Filled' /\ Reads' /\ pc' \in [Tasks -> PLabels]
    BY <1>1, <1>2, TryGetReads, Zenon
  <1> QED BY <1>3, <1>4, Zenon DEF PrInv

LEMMA NotifyAllStep ==
  ASSUME PrInv, IInv, NEW c \in CPUs, notify_all(c), UNCHANGED is_ack
  PROVE  PrInv' /\ [Next]_vars
  <1>0. pc \in [Tasks -> PLabels] /\ LockOK(HoldsList)
    BY DEF PrInv
  <1>1. CASE LockWaiters(c, "notify_all", "notify_inner") /\ UNCHANGED own_vars
    <2>1. "notify_inner" \in PLabels /\ "notify_inner" \in HoldsList /\ Passes("notify_all", "notify_inner")
      BY Zenon DEF PLabels, HoldsList, Passes, GetLabels, Filling, Done
    <2>2. LockOK(HoldsList)' /\ Next
      BY <1>0, <1>1, <2>1, LockWaitersStep, Zenon
    <2>3. Executing(c, "notify_all") /\ (Goto(c, "notify_inner") \/ UNCHANGED pc)
      BY <1>1, Zenon DEF LockWaiters
    <2> QED BY <1>1, <2>1, <2>2, <2>3, OtherStep, SMTT(30) DEF own_vars
  <1>2. CASE Notify(c, "notify_inner", "notify_inner", "notified") /\ UNCHANGED own_vars
    <2>1. /\ {"notify_inner", "notified"} \subseteq PLabels \cap HoldsList
          /\ Passes("notify_inner", "notify_inner") /\ Passes("notify_inner", "notified")
      BY Zenon DEF PLabels, HoldsList, Passes, GetLabels, Filling, Done
    <2>2. LockOK(HoldsList)' /\ [Next]_vars
      BY <1>0, <1>2, <2>1, NotifyStep
    <2>3. Executing(c, "notify_inner") /\ (Goto(c, "notify_inner") \/ Goto(c, "notified"))
      BY <1>2, Zenon DEF Notify
    <2> QED BY <1>2, <2>1, <2>2, <2>3, OtherStep, SMTT(30) DEF own_vars
  <1>3. CASE /\ UnlockWaiters(c, "notified", IF holders = {} THEN Done ELSE "release")
             /\ UNCHANGED own_vars
    <2>1. PICK to \in {Done, "release"} : UnlockWaiters(c, "notified", to)
      BY <1>3, Zenon
    <2>2. to \in PLabels /\ Passes("notified", to)
      BY Zenon DEF PLabels, Passes, GetLabels, Filling, Done
    <2>3. LockOK(HoldsList)' /\ Next
      BY <1>0, <2>1, <2>2, UnlockWaitersStep, Zenon
    <2>4. Executing(c, "notified") /\ Goto(c, to)
      BY <2>1, Zenon DEF UnlockWaiters
    <2> QED BY <1>3, <2>2, <2>3, <2>4, OtherStep, SMTT(30) DEF own_vars
  <1> QED BY <1>1, <1>2, <1>3, Zenon DEF notify_all

LEMMA ReleaseStep ==
  ASSUME PrInv, IInv, NEW c \in CPUs, Release(c), UNCHANGED is_ack
  PROVE  PrInv' /\ [Next]_vars
  <1>1. Executing(c, "release") /\ Stay /\ UNCHANGED <<word, value, got>>
    BY Zenon DEF Release
  <1>2. PICK to \in {"drop", Done} : Goto(c, to)
    BY Zenon DEF Release
  <1>3. to \in PLabels /\ Passes("release", to) /\ "release" \notin HoldsList
    BY Zenon DEF PLabels, Passes, GetLabels, Filling, Done, HoldsList
  <1>4. LockOK(HoldsList)' /\ UNCHANGED vars
    BY <1>1, <1>2, <1>3, StayStep, SMTT(30) DEF PrInv
  <1> QED BY <1>1, <1>2, <1>3, <1>4, OtherStep, SMTT(30)

LEMMA FulfilStep ==
  ASSUME PrInv, IInv, NEW c \in CPUs, fulfil(c), UNCHANGED is_ack
  PROVE  PrInv' /\ [Next]_vars
  <1>0. Cancelled # None /\ None \notin Tasks
    BY PromiseTasks, ConstantsAssumption, Zenon
  <1>1. CASE set(c, "complete", "set_value")
    BY <1>1, SetStep, Zenon
  <1>2. CASE ack_fill(c, "complete", Running(c))
    <2>1. Running(c) # None
      BY <1>0, <1>2, RunningTask, Zenon DEF ack_fill, Executing
    <2> QED BY <1>2, <2>1, AckFillStep, Zenon
  <1>3. CASE \E from \in {"cancel", "drop"} : set(c, from, "set_none") \/ ack_fill(c, from, Cancelled)
    <2>1. PICK from \in {"cancel", "drop"} : set(c, from, "set_none") \/ ack_fill(c, from, Cancelled)
      BY <1>3, Zenon
    <2>2. from \in {"complete", "cancel", "drop"}
      BY Zenon
    <2> QED BY <1>0, <2>1, <2>2, SetStep, AckFillStep, SMTT(30)
  <1>4. CASE WriteValue(c, "set_value", Running(c))
    <2>1. Running(c) # None
      BY <1>0, <1>4, RunningTask, Zenon DEF WriteValue, Executing
    <2> QED BY <1>4, <2>1, WriteValueStep, Zenon
  <1>5. CASE WriteValue(c, "set_none", Cancelled)
    BY <1>0, <1>5, WriteValueStep, Zenon
  <1> QED BY <1>1, <1>2, <1>3, <1>4, <1>5, StoreCompleteStep, NotifyAllStep, ReleaseStep, SMTT(30) DEF fulfil

LEMMA PromiseNext ==
  ASSUME PrInv, IInv, [PNext]_p_vars
  PROVE  PrInv' /\ [Next]_vars
  <1>1. ASSUME NEW c \in CPUs, SystemStep(c), UNCHANGED own_vars, UNCHANGED is_ack
        PROVE  PrInv' /\ [Next]_vars
    <2>1. LockOK(HoldsList)' /\ UNCHANGED pc
      BY <1>1, SystemLocks, Zenon DEF PrInv
    <2>2. Next
      BY <1>1, SystemAllowed, Zenon DEF PrInv, HoldsList, Done
    <2> QED BY <1>1, <2>1, <2>2, PromiseSame, SMTT(30) DEF PrInv, own_vars
  <1>2. CASE UNCHANGED p_vars
    <2>1. UNCHANGED vars /\ UNCHANGED <<pc, is_ack, word, value, got>> /\ UNCHANGED list_lock
      BY <1>2, Zenon DEF p_vars, list_vars, vars
    <2>2. LockOK(HoldsList)'
      BY <2>1 DEF PrInv, LockOK
    <2> QED BY <2>1, <2>2, PromiseSame, Zenon DEF PrInv
  <1> QED BY <1>1, <1>2, WaitUntilTryStep, TryGetStep, FulfilStep, SMTT(30) DEF PNext, PIdle, PStep, PTaskStep

\* The invariant of the promise is inductive with that of the scheduler.
THEOREM PromiseInvariance == PSpec => [](IInv /\ PInv /\ PrInv) /\ [][Next]_vars
  <1> DEFINE Inv == IInv /\ PInv /\ PrInv
  <1>1. PInit => Inv
    BY PromiseInit, FirstInv, FirstPlaces
  <1>2. Inv /\ [PNext]_p_vars => Inv' /\ [Next]_vars
    <2>1. PrInv /\ IInv /\ [PNext]_p_vars => PrInv' /\ [Next]_vars
      BY PromiseNext
    <2>2. IInv /\ [Next]_vars => IInv'
      BY NextInv
    <2>3. IInv /\ PInv /\ [Next]_vars => PInv'
      BY NextPlaces, SMTT(30)
    <2> QED BY <2>1, <2>2, <2>3
  <1> HIDE DEF Inv
  <1>3. PSpec => []Inv /\ [][Next]_vars
    BY <1>1, <1>2, PTL DEF PSpec
  <1> QED BY <1>3 DEF Inv

(***************************************************************************)
(* All who read a promise or an acknowledgement read what it was filled    *)
(* with, whoever else completes, cancels or drops the fulfiller meanwhile: *)
(* nobody reads a value that POnceLock::set has not stored as COMPLETE.    *)
(***************************************************************************)
THEOREM AgreementHolds == PSpec => []Agreement
  <1>1. PrInv => Agreement
    BY ReadsAgree, SMTT(30)
  <1> QED BY <1>1, PromiseInvariance, PTL

(***************************************************************************)
(* The getters that a fulfiller wakes from another CPU are each in one     *)
(* place, on one CPU and on a stack that is not freed.                     *)
(***************************************************************************)
THEOREM PromiseTasksPlaced ==
  PSpec => [](OnePlace /\ StackAlive /\ NoSharedStack /\ Affinity)
  <1>1. IInv /\ PInv => OnePlace /\ StackAlive /\ NoSharedStack /\ Affinity
    BY Types, Places, Exclusive, Homes DEF PInv, CpuPhase, StackAlive
  <1> QED BY <1>1, PromiseInvariance, PTL
=============================================================================
