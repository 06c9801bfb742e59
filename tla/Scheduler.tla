----------------------------- MODULE Scheduler ------------------------------
(***************************************************************************)
(* The cooperative scheduler (multitasking/scheduler.rs) on several CPUs,  *)
(* with the waiting lists (sync/waitlist.rs) its tasks sleep on.           *)
(*                                                                         *)
(* A task runs until it yields with a command.  schedule() then runs on    *)
(* the stack of that task: it takes the task out of _CURRENT_TASK, files   *)
(* it under the lock of the CPU's SchedulerState as the command says,      *)
(* pops the next task and switches to its stack.  A task in a waiting list *)
(* is pushed back to the run queue of its own CPU by a notify on any CPU.  *)
(*                                                                         *)
(* Here the running tasks issue any sequence of commands.  The critical    *)
(* section of a KMutex is one step, except the one of schedule(), in which *)
(* the lock of a waiting list is released.                                 *)
(***************************************************************************)
EXTENDS Integers, Sequences

CONSTANTS
  CPUs,      \* the processors
  Tasks,     \* the tasks that are ever created; ids are not reused
  Lists,     \* the waiting lists
  None,
  MAX_SLEEP, \* bound: longest sleep, in ticks
  MAX_TICKS  \* bound: ticks of a CPU's clock

ASSUME ConstantsAssumption ==
  /\ None \notin CPUs \cup Tasks \cup Lists
  /\ MAX_SLEEP \in Nat /\ MAX_TICKS \in Nat

\* An absent entry is no entry of a waiting list.
ASSUME NoneIsNoEntry == None \notin [task : Tasks, cpu : CPUs]

VARIABLES
  state,      \* state[c]: _SCHEDULER_STATE of c
  state_lock, \* state_lock[c]: the KMutex around state[c] is locked
  ticks,      \* ticks[c]: _SCHEDULER_TICKS of c
  tick,       \* tick[c]: the position of the timer interrupt's loop on c
  cpu,        \* cpu[c]: what c executes
  waiting,    \* waiting[l]: the entries of waiting list l
  list_lock,  \* list_lock[l]: the task that holds the YMutex of l, or None
  home,       \* home[t]: the CPU whose scheduler t was created on, or None
  dropped     \* the tasks that are dropped, their stacks freed

vars == <<state, state_lock, ticks, tick, cpu, waiting, list_lock, home, dropped>>

Sleeper == [task : Tasks, wake_at : Nat]

SchedulerState == [run_queue : Seq(Tasks), sleeping : Seq(Sleeper), deferred_drop : Seq(Tasks)]

WaitingListEntry == [task : Tasks, cpu : CPUs]

SchedulerCommand == [op : {"PushBack", "Terminate", "SleepNTicks", "PushToWaitingList"},
                     ticks : Nat, list : Lists \cup {None}]

PushBack == [op |-> "PushBack", ticks |-> 0, list |-> None]
Terminate == [op |-> "Terminate", ticks |-> 0, list |-> None]
SleepNTicks(n) == [op |-> "SleepNTicks", ticks |-> n, list |-> None]
PushToWaitingList(l) == [op |-> "PushToWaitingList", ticks |-> 0, list |-> l]

(***************************************************************************)
(* phase: boot code; a task; schedule() before it locks the state, with    *)
(* the state locked, after the task is filed, and while it looks for the   *)
(* next task; the switch to it; notify_inner with an entry in hand.        *)
(* current is _CURRENT_TASK and executing _IS_EXECUTING_TASK; task and     *)
(* command are the locals of schedule(), entry the one of notify_inner.    *)
(* stack is the task on whose stack the CPU runs.                          *)
(***************************************************************************)
Phases == {"boot", "task", "schedule", "locked", "filed", "pick", "resume", "notify"}

CPUState == [phase : Phases, current : Tasks \cup {None}, executing : BOOLEAN,
             task : Tasks \cup {None}, command : SchedulerCommand,
             entry : WaitingListEntry \cup {None}, stack : Tasks \cup {None}]

Init ==
  /\ state = [c \in CPUs |-> [run_queue |-> <<>>, sleeping |-> <<>>, deferred_drop |-> <<>>]]
  /\ state_lock = [c \in CPUs |-> FALSE]
  /\ ticks = [c \in CPUs |-> 0] /\ tick = [c \in CPUs |-> 0]
  /\ cpu = [c \in CPUs |->
             [phase |-> "boot", current |-> None, executing |-> FALSE, task |-> None,
              command |-> PushBack, entry |-> None, stack |-> None]]
  /\ waiting = [l \in Lists |-> <<>>]
  /\ list_lock = [l \in Lists |-> None]
  /\ home = [t \in Tasks |-> None]
  /\ dropped = {}

At(c, phase) == tick[c] = 0 /\ cpu[c].phase = phase
Running(c) == cpu[c].current
PushTo(c, t) == state' = [state EXCEPT ![c].run_queue = Append(@, t)]
----------------------------------------------------------------------------
(* The CPU *)

\* The boot code becomes task t; _IS_EXECUTING_TASK stays false until a resume.
init_scheduler(c, t) ==
  /\ At(c, "boot") /\ ~state_lock[c]
  /\ home[t] = None /\ home' = [home EXCEPT ![t] = c]
  /\ cpu' = [cpu EXCEPT ![c].phase = "task", ![c].current = t, ![c].stack = t]
  /\ UNCHANGED <<state, state_lock, ticks, tick, waiting, list_lock, dropped>>

schedule(c) ==
  /\ At(c, "schedule") /\ ~state_lock[c]
  /\ state_lock' = [state_lock EXCEPT ![c] = TRUE]
  /\ cpu' = [cpu EXCEPT ![c].phase = "locked"]
  /\ UNCHANGED <<state, ticks, tick, waiting, list_lock, home, dropped>>

\* One arm of the match on the command, ready to be filed.
Arm(c, op) ==
  /\ At(c, "locked") /\ cpu[c].command.op = op
  /\ cpu' = [cpu EXCEPT ![c].phase = "filed", ![c].task = None]
  /\ UNCHANGED <<state_lock, ticks, tick, home>>

\* The tasks that s[i] lists.
TasksIn(s) == {s[i] : i \in 1 .. Len(s)}

\* Faulty variant: the terminated task is dropped with the others.
DropAtOnce(c) ==
  /\ Arm(c, "Terminate")
  /\ dropped' = dropped \cup TasksIn(state[c].deferred_drop) \cup {cpu[c].task}
  /\ state' = [state EXCEPT ![c].deferred_drop = <<>>]
  /\ UNCHANGED <<waiting, list_lock>>

\* schedule() still runs on the stack of the task: only its predecessors are dropped.
FileTerminate(c) ==
  /\ Arm(c, "Terminate")
  /\ dropped' = dropped \cup TasksIn(state[c].deferred_drop)
  /\ state' = [state EXCEPT ![c].deferred_drop = <<cpu[c].task>>]
  /\ UNCHANGED <<waiting, list_lock>>

FileSleep(c) ==
  /\ Arm(c, "SleepNTicks")
  /\ state' = [state EXCEPT ![c].sleeping =
                 Append(@, [task |-> cpu[c].task, wake_at |-> ticks[c] + cpu[c].command.ticks])]
  /\ UNCHANGED <<waiting, list_lock, dropped>>

FileWait(c) ==
  LET l == cpu[c].command.list
  IN /\ Arm(c, "PushToWaitingList")
     /\ waiting' = [waiting EXCEPT ![l] = Append(@, [task |-> cpu[c].task, cpu |-> c])]
     /\ list_lock' = [list_lock EXCEPT ![l] = None]
     /\ UNCHANGED <<state, dropped>>

\* Faulty variant: the task is pushed to the front of the run queue.
FilePushFront(c) ==
  /\ Arm(c, "PushBack")
  /\ state' = [state EXCEPT ![c].run_queue = <<cpu[c].task>> \o @]
  /\ UNCHANGED <<waiting, list_lock, dropped>>

FilePushBack(c) ==
  /\ Arm(c, "PushBack")
  /\ PushTo(c, cpu[c].task)
  /\ UNCHANGED <<waiting, list_lock, dropped>>

UnlockState(c) ==
  /\ At(c, "filed")
  /\ state_lock' = [state_lock EXCEPT ![c] = FALSE]
  /\ cpu' = [cpu EXCEPT ![c].phase = "pick"]
  /\ UNCHANGED <<state, ticks, tick, waiting, list_lock, home, dropped>>

\* With an empty run queue the CPU spins.  The task is popped and the state
\* unlocked, but interruptions stay disabled.
PickNext(c) ==
  /\ At(c, "pick") /\ ~state_lock[c]
  /\ state[c].run_queue # <<>>
  /\ state' = [state EXCEPT ![c].run_queue = Tail(@)]
  /\ cpu' = [cpu EXCEPT ![c].phase = "resume", ![c].task = Head(state[c].run_queue)]
  /\ UNCHANGED <<state_lock, ticks, tick, waiting, list_lock, home, dropped>>

\* _cs_pop switches the stack and calls __resume_callback.
resume_context(c) ==
  /\ At(c, "resume")
  /\ cpu' = [cpu EXCEPT ![c].phase = "task", ![c].task = None, ![c].stack = cpu[c].task,
                        ![c].current = cpu[c].task, ![c].executing = TRUE]
  /\ UNCHANGED <<state, state_lock, ticks, tick, waiting, list_lock, home, dropped>>
----------------------------------------------------------------------------
(* The clock: _scheduler_tick, in an interrupt.  tick[c] is 0 outside it, and i *)
(* while the entries of sleeping below i are still to be looked at.             *)

\* Interruptions are disabled while a KMutex is held and during a resume.
_scheduler_tick(c) ==
  /\ tick[c] = 0 /\ ~state_lock[c]
  /\ cpu[c].phase \notin {"boot", "resume"}
  /\ ticks[c] < MAX_TICKS
  /\ ticks' = [ticks EXCEPT ![c] = @ + 1]
  /\ state_lock' = [state_lock EXCEPT ![c] = TRUE]
  /\ tick' = [tick EXCEPT ![c] = Len(state[c].sleeping) + 1]
  /\ UNCHANGED <<state, cpu, waiting, list_lock, home, dropped>>

\* VecDeque::swap_remove_back(i): the last element takes the place of the i-th.
swap_remove_back(s, i) == [j \in 1 .. Len(s) - 1 |-> IF j = i THEN s[Len(s)] ELSE s[j]]

\* Faulty variants: the loop leaves out index 0 of the list; it leaves the entry
\* behind.
SkipFirst(c) ==
  LET i == tick[c] - 1
      s == state[c].sleeping
  IN /\ tick[c] > 1
     /\ tick' = [tick EXCEPT ![c] = i]
     /\ state' = IF i > 1 /\ s[i].wake_at <= ticks[c]
                 THEN [state EXCEPT ![c].sleeping = swap_remove_back(s, i),
                                    ![c].run_queue = Append(@, s[i].task)]
                 ELSE state
     /\ UNCHANGED <<state_lock, ticks, cpu, waiting, list_lock, home, dropped>>
WakeTwice(c) ==
  LET i == tick[c] - 1
      s == state[c].sleeping
  IN /\ tick[c] > 1
     /\ tick' = [tick EXCEPT ![c] = i]
     /\ state' = IF s[i].wake_at <= ticks[c]
                 THEN [state EXCEPT ![c].run_queue = Append(@, s[i].task)]
                 ELSE state
     /\ UNCHANGED <<state_lock, ticks, cpu, waiting, list_lock, home, dropped>>

TickEntry(c) ==
  LET i == tick[c] - 1
      s == state[c].sleeping
  IN /\ tick[c] > 1
     /\ tick' = [tick EXCEPT ![c] = i]
     /\ state' = IF s[i].wake_at <= ticks[c]
                 THEN [state EXCEPT ![c].sleeping = swap_remove_back(s, i),
                                    ![c].run_queue = Append(@, s[i].task)]
                 ELSE state
     /\ UNCHANGED <<state_lock, ticks, cpu, waiting, list_lock, home, dropped>>

TickDone(c) ==
  /\ tick[c] = 1
  /\ tick' = [tick EXCEPT ![c] = 0]
  /\ state_lock' = [state_lock EXCEPT ![c] = FALSE]
  /\ UNCHANGED <<state, ticks, cpu, waiting, list_lock, home, dropped>>
----------------------------------------------------------------------------
(* The running task *)

\* yield_to_scheduler, up to the take() of _CURRENT_TASK in schedule().
yield_to_scheduler(c, command) ==
  /\ At(c, "task")
  /\ cpu' = [cpu EXCEPT ![c].phase = "schedule", ![c].executing = FALSE, ![c].current = None,
                        ![c].task = Running(c), ![c].command = command]
  /\ UNCHANGED <<state, state_lock, ticks, tick, waiting, list_lock, home, dropped>>

\* spawn_kernel_task: a new task in the run queue of this CPU.
push_task(c, t) ==
  /\ At(c, "task") /\ ~state_lock[c]
  /\ home[t] = None /\ home' = [home EXCEPT ![t] = c]
  /\ PushTo(c, t)
  /\ UNCHANGED <<state_lock, ticks, tick, cpu, waiting, list_lock, dropped>>

\* A YMutex that is locked makes its task yield, with PushBack, and try again.
LockList(c, l) ==
  /\ At(c, "task")
  /\ list_lock[l] = None
  /\ list_lock' = [list_lock EXCEPT ![l] = Running(c)]
  /\ UNCHANGED <<state, state_lock, ticks, tick, cpu, waiting, home, dropped>>

UnlockList(c, l) ==
  /\ At(c, "task") /\ list_lock[l] = Running(c)
  /\ list_lock' = [list_lock EXCEPT ![l] = None]
  /\ UNCHANGED <<state, state_lock, ticks, tick, cpu, waiting, home, dropped>>

\* The guard of the list moves into the scheduler, which drops it.
wait_inner(c, l) ==
  /\ list_lock[l] = Running(c)
  /\ yield_to_scheduler(c, PushToWaitingList(l))

notify_inner(c, l) ==
  /\ At(c, "task") /\ list_lock[l] = Running(c)
  /\ waiting[l] # <<>>
  /\ waiting' = [waiting EXCEPT ![l] = Tail(@)]
  /\ cpu' = [cpu EXCEPT ![c].phase = "notify", ![c].entry = Head(waiting[l])]
  /\ UNCHANGED <<state, state_lock, ticks, tick, list_lock, home, dropped>>

\* Faulty variant: the task is pushed to the CPU that notifies it.
push_task_here(c) ==
  /\ At(c, "notify") /\ ~state_lock[c]
  /\ PushTo(c, cpu[c].entry.task)
  /\ cpu' = [cpu EXCEPT ![c].phase = "task", ![c].entry = None]
  /\ UNCHANGED <<state_lock, ticks, tick, waiting, list_lock, home, dropped>>

\* The end of notify_inner: the entry goes back to the CPU it came from.
push_task_to(c) ==
  /\ At(c, "notify") /\ ~state_lock[cpu[c].entry.cpu]
  /\ PushTo(cpu[c].entry.cpu, cpu[c].entry.task)
  /\ cpu' = [cpu EXCEPT ![c].phase = "task", ![c].entry = None]
  /\ UNCHANGED <<state_lock, ticks, tick, waiting, list_lock, home, dropped>>

\* A task that ends, or sleeps on the clock, has unlocked the lists first.
HoldsNoList(c) == \A l \in Lists : list_lock[l] # Running(c)
----------------------------------------------------------------------------
CPUStep(c) ==
  \/ schedule(c) \/ FileTerminate(c) \/ FileSleep(c) \/ FileWait(c) \/ FilePushBack(c)
  \/ UnlockState(c) \/ PickNext(c) \/ resume_context(c)

TickStep(c) == _scheduler_tick(c) \/ TickEntry(c) \/ TickDone(c)

TaskYields(c) ==
  \/ yield_to_scheduler(c, PushBack)
  \/ HoldsNoList(c) /\ yield_to_scheduler(c, Terminate)
  \/ HoldsNoList(c) /\ \E n \in 0 .. MAX_SLEEP : yield_to_scheduler(c, SleepNTicks(n))
  \/ \E l \in Lists : wait_inner(c, l)

Next ==
  \E c \in CPUs :
    \/ CPUStep(c) \/ TickStep(c) \/ TaskYields(c) \/ push_task_to(c)
    \/ \E t \in Tasks : init_scheduler(c, t) \/ push_task(c, t)
    \/ \E l \in Lists : LockList(c, l) \/ UnlockList(c, l) \/ notify_inner(c, l)

Spec == Init /\ [][Next]_vars

(***************************************************************************)
(* A CPU keeps executing, and scheduling is cooperative: a running task    *)
(* yields in the end, whatever it does in between.  Who spins for a KMutex *)
(* that is free again and again gets it.  The timer keeps firing, and an   *)
(* interrupt stays pending until the CPU enables interrupts.               *)
(***************************************************************************)
Fairness ==
  \A c \in CPUs :
    /\ WF_vars(CPUStep(c)) /\ SF_vars(TaskYields(c)) /\ SF_vars(push_task_to(c))
    /\ SF_vars(_scheduler_tick(c)) /\ WF_vars(TickEntry(c) \/ TickDone(c))

LiveSpec == Spec /\ Fairness
----------------------------------------------------------------------------
(* Properties *)

TypeOK ==
  /\ state \in [CPUs -> SchedulerState]
  /\ state_lock \in [CPUs -> BOOLEAN]
  /\ ticks \in [CPUs -> Nat] /\ tick \in [CPUs -> Nat]
  /\ cpu \in [CPUs -> CPUState]
  /\ waiting \in [Lists -> Seq(WaitingListEntry)]
  /\ list_lock \in [Lists -> Tasks \cup {None}]
  /\ home \in [Tasks -> CPUs \cup {None}]
  /\ dropped \subseteq Tasks

(***************************************************************************)
(* Two CPUs never run on the same stack, although schedule() files a task  *)
(* where another CPU may reach it while it still runs on the task's stack. *)
(***************************************************************************)
NoSharedStack ==
  \A c, d \in CPUs : cpu[c].stack = cpu[d].stack /\ cpu[c].stack # None => c = d

(***************************************************************************)
(* No CPU runs on a stack that the drop of a terminated task freed:        *)
(* deferred_drop holds a task back until its CPU has left its stack.       *)
(***************************************************************************)
StackAlive == \A c \in CPUs : cpu[c].stack \notin dropped

\* The tasks that a position of the system holds, with the position.
Held ==
  (UNION {{[at |-> <<"run", c, i>>, task |-> state[c].run_queue[i]] : i \in DOMAIN state[c].run_queue}
          \cup {[at |-> <<"sleeping", c, i>>, task |-> state[c].sleeping[i].task] : i \in DOMAIN state[c].sleeping}
          \cup {[at |-> <<"deferred", c, i>>, task |-> state[c].deferred_drop[i]] : i \in DOMAIN state[c].deferred_drop}
          \cup {[at |-> <<"current", c, 0>>, task |-> cpu[c].current], [at |-> <<"local", c, 0>>, task |-> cpu[c].task]}
          \cup {[at |-> <<"entry", c, 0>>, task |-> cpu[c].entry.task] : x \in {cpu[c].entry} \ {None}}
          : c \in CPUs})
  \cup (UNION {{[at |-> <<"waiting", l, i>>, task |-> waiting[l][i].task] : i \in DOMAIN waiting[l]} : l \in Lists})

(***************************************************************************)
(* A created task is owned by exactly one place until it is dropped: the   *)
(* scheduler neither loses nor duplicates a task, whatever the commands.   *)
(***************************************************************************)
OnePlace ==
  \A t \in Tasks :
    LET at == {h \in Held : h.task = t}
    IN IF home[t] = None \/ t \in dropped THEN at = {} ELSE \E h \in at : at = {h}

(***************************************************************************)
(* A task never changes CPU: it is filed, woken and resumed on the CPU it  *)
(* was created on, by notifications from other CPUs too.                   *)
(***************************************************************************)
Affinity ==
  /\ \A c \in CPUs :
       /\ \A i \in DOMAIN state[c].run_queue : home[state[c].run_queue[i]] = c
       /\ \A i \in DOMAIN state[c].sleeping : home[state[c].sleeping[i].task] = c
       /\ \A t \in {cpu[c].current, cpu[c].task, cpu[c].stack} \ {None} : home[t] = c
       /\ cpu[c].entry # None => home[cpu[c].entry.task] = cpu[c].entry.cpu
  /\ \A l \in Lists : \A i \in DOMAIN waiting[l] : home[waiting[l][i].task] = waiting[l][i].cpu

(***************************************************************************)
(* No sleeper is passed over: the entries that the loop of a tick is done  *)
(* with expire later, although it removes entries while it goes through    *)
(* them, and outside the tick no entry is past its time.                   *)
(***************************************************************************)
NoOversleep ==
  \A c \in CPUs : \A i \in DOMAIN state[c].sleeping :
    /\ tick[c] = 0 => state[c].sleeping[i].wake_at >= ticks[c]
    /\ tick[c] \in 1 .. i => state[c].sleeping[i].wake_at > ticks[c]

\* A task in a run queue, or a sleeper whose time the clock will reach.
Due(t) ==
  \E c \in CPUs :
    \/ \E i \in DOMAIN state[c].run_queue : state[c].run_queue[i] = t
    \/ /\ ticks[c] < MAX_TICKS
       /\ \E i \in DOMAIN state[c].sleeping :
            state[c].sleeping[i].task = t /\ state[c].sleeping[i].wake_at <= MAX_TICKS

\* Such a task is resumed in the end.
DueTasksRun == \A t \in Tasks : Due(t) ~> (\E c \in CPUs : cpu[c].current = t)
=============================================================================
