-------------------------- MODULE SchedulerProofs ---------------------------
(***************************************************************************)
(* For any number of CPUs, tasks and waiting lists: two CPUs never run on  *)
(* the same stack, no CPU runs on a stack that a drop freed, a task is in  *)
(* exactly one place until it is dropped, and the clock passes no sleeper  *)
(* over.                                                                   *)
(*                                                                         *)
(* The first part is the types, the homes of the tasks and the sleepers    *)
(* (IInv), the second the places (PInv).                                   *)
(*                                                                         *)
(* The first property follows from Affinity, that every place of a CPU     *)
(* holds tasks created on it; Affinity and NoOversleep are inductive       *)
(* together with the types, what a phase says of the locals (CpuOK), the   *)
(* range of the tick's loop (QueueOK) and the homes of the waiters         *)
(* (ListOK).                                                               *)
(***************************************************************************)
EXTENDS Scheduler, TLAPS

\* CPU c's SchedulerState: its tasks are at home, and its sleepers on time.
QueueOK(c) ==
  /\ state[c] \in SchedulerState /\ ticks[c] \in Nat /\ tick[c] \in Nat
  /\ \A i \in 1 .. Len(state[c].run_queue) : home[state[c].run_queue[i]] = c
  /\ \A i \in 1 .. Len(state[c].sleeping) :
       /\ home[state[c].sleeping[i].task] = c
       /\ tick[c] = 0 => state[c].sleeping[i].wake_at >= ticks[c]
       /\ tick[c] \in 1 .. i => state[c].sleeping[i].wake_at > ticks[c]
  /\ tick[c] <= Len(state[c].sleeping) + 1

\* What CPU c executes: the locals of its phase are set, and its tasks at home.
CpuOK(c) ==
  /\ cpu[c] \in CPUState
  /\ cpu[c].phase \in {"task", "notify"} => cpu[c].current \in Tasks
  /\ cpu[c].phase \in {"schedule", "locked", "resume"} => cpu[c].task \in Tasks
  /\ cpu[c].phase = "notify" => /\ cpu[c].entry \in WaitingListEntry
                                /\ home[cpu[c].entry.task] = cpu[c].entry.cpu
  /\ cpu[c].command.op = "PushToWaitingList" => cpu[c].command.list \in Lists
  /\ cpu[c].current \in Tasks => home[cpu[c].current] = c
  /\ cpu[c].task \in Tasks => home[cpu[c].task] = c
  /\ cpu[c].stack \in Tasks => home[cpu[c].stack] = c
  /\ cpu[c].entry # None => home[cpu[c].entry.task] = cpu[c].entry.cpu

\* The entries of list l know where their tasks live.
ListOK(l) ==
  /\ waiting[l] \in Seq(WaitingListEntry)
  /\ \A i \in 1 .. Len(waiting[l]) : home[waiting[l][i].task] = waiting[l][i].cpu

Shape ==
  /\ DOMAIN state = CPUs /\ DOMAIN ticks = CPUs /\ DOMAIN tick = CPUs /\ DOMAIN cpu = CPUs
  /\ DOMAIN waiting = Lists
  /\ state = [c \in CPUs |-> state[c]] /\ ticks = [c \in CPUs |-> ticks[c]]
  /\ tick = [c \in CPUs |-> tick[c]] /\ cpu = [c \in CPUs |-> cpu[c]]
  /\ waiting = [l \in Lists |-> waiting[l]]
  /\ state_lock \in [CPUs -> BOOLEAN]
  /\ list_lock \in [Lists -> Tasks \cup {None}]
  /\ home \in [Tasks -> CPUs \cup {None}]
  /\ dropped \subseteq Tasks

IInv ==
  /\ Shape
  /\ \A c \in CPUs : QueueOK(c) /\ CpuOK(c)
  /\ \A l \in Lists : ListOK(l)

(* Sequences *)

LEMMA AppendFacts ==
  ASSUME NEW S, NEW s \in Seq(S), NEW x \in S
  PROVE  /\ Append(s, x) \in Seq(S) /\ Len(Append(s, x)) = Len(s) + 1
         /\ DOMAIN s = 1 .. Len(s) /\ DOMAIN Append(s, x) = 1 .. Len(s) + 1
         /\ \A i \in 1 .. Len(s) : Append(s, x)[i] = s[i]
         /\ Append(s, x)[Len(s) + 1] = x
         /\ Len(s) \in Nat
  OBVIOUS

LEMMA TailFacts ==
  ASSUME NEW S, NEW s \in Seq(S), s # <<>>
  PROVE  /\ Head(s) \in S /\ Tail(s) \in Seq(S) /\ Len(Tail(s)) = Len(s) - 1
         /\ DOMAIN s = 1 .. Len(s) /\ DOMAIN Tail(s) = 1 .. Len(s) - 1
         /\ \A i \in 1 .. Len(s) - 1 : Tail(s)[i] = s[i + 1]
         /\ Head(s) = s[1] /\ Len(s) \in Nat /\ 1 \in 1 .. Len(s)
  OBVIOUS

LEMMA SwapRemoveFacts ==
  ASSUME NEW S, NEW s \in Seq(S), NEW i \in 1 .. Len(s)
  PROVE  /\ swap_remove_back(s, i) \in Seq(S) /\ Len(swap_remove_back(s, i)) = Len(s) - 1
         /\ DOMAIN swap_remove_back(s, i) = 1 .. Len(s) - 1
         /\ \A j \in 1 .. Len(s) - 1 :
              swap_remove_back(s, i)[j] = IF j = i THEN s[Len(s)] ELSE s[j]
         /\ s[i] \in S /\ DOMAIN s = 1 .. Len(s) /\ Len(s) \in Nat
  BY DEF swap_remove_back

LEMMA SleeperFields ==
  ASSUME NEW s \in Seq(Sleeper), NEW i \in 1 .. Len(s)
  PROVE  s[i].task \in Tasks /\ s[i].wake_at \in Nat
  <1>1. s[i] \in Sleeper
    OBVIOUS
  <1> QED BY <1>1, Zenon DEF Sleeper

LEMMA EntryFields ==
  ASSUME NEW s \in Seq(WaitingListEntry), NEW i \in 1 .. Len(s)
  PROVE  s[i].task \in Tasks /\ s[i].cpu \in CPUs
  <1>1. s[i] \in WaitingListEntry
    OBVIOUS
  <1> QED BY <1>1, Zenon DEF WaitingListEntry

(* The invariant implies what it is for. *)

LEMMA Types ==
  ASSUME IInv
  PROVE  TypeOK
  <1>1. Shape
    BY Zenon DEF IInv
  <1>2. \A c \in CPUs : state[c] \in SchedulerState /\ cpu[c] \in CPUState
                        /\ ticks[c] \in Nat /\ tick[c] \in Nat
    BY Zenon DEF IInv, QueueOK, CpuOK
  <1>3. \A l \in Lists : waiting[l] \in Seq(WaitingListEntry)
    BY Zenon DEF IInv, ListOK
  <1>4. state \in [CPUs -> SchedulerState] /\ cpu \in [CPUs -> CPUState]
    BY <1>1, <1>2, Zenon DEF Shape
  <1>5. ticks \in [CPUs -> Nat] /\ tick \in [CPUs -> Nat]
    BY <1>1, <1>2, Zenon DEF Shape
  <1>6. waiting \in [Lists -> Seq(WaitingListEntry)]
    BY <1>1, <1>3, Zenon DEF Shape
  <1> QED BY <1>1, <1>4, <1>5, <1>6, Zenon DEF Shape, TypeOK

LEMMA Homes ==
  ASSUME IInv
  PROVE  Affinity
  <1>1. ASSUME NEW c \in CPUs
        PROVE  /\ \A i \in DOMAIN state[c].run_queue : home[state[c].run_queue[i]] = c
               /\ \A i \in DOMAIN state[c].sleeping : home[state[c].sleeping[i].task] = c
    <2>1. QueueOK(c)
      BY Zenon DEF IInv
    <2>2. state[c].run_queue \in Seq(Tasks) /\ state[c].sleeping \in Seq(Sleeper)
      BY <2>1, Zenon DEF QueueOK, SchedulerState
    <2>3. /\ DOMAIN state[c].run_queue = 1 .. Len(state[c].run_queue)
          /\ DOMAIN state[c].sleeping = 1 .. Len(state[c].sleeping)
      BY <2>2
    <2> QED BY <2>1, <2>3, Zenon DEF QueueOK
  <1>2. ASSUME NEW c \in CPUs
        PROVE  /\ \A t \in {cpu[c].current, cpu[c].task, cpu[c].stack} \ {None} : home[t] = c
               /\ cpu[c].entry # None => home[cpu[c].entry.task] = cpu[c].entry.cpu
    BY DEF IInv, CpuOK, CPUState
  <1>3. ASSUME NEW l \in Lists
        PROVE  \A i \in DOMAIN waiting[l] : home[waiting[l][i].task] = waiting[l][i].cpu
    BY DEF IInv, ListOK
  <1> QED BY <1>1, <1>2, <1>3, Zenon DEF Affinity

LEMMA OnTime ==
  ASSUME IInv
  PROVE  NoOversleep
  <1> SUFFICES ASSUME NEW c \in CPUs, NEW i \in DOMAIN state[c].sleeping
               PROVE  /\ tick[c] = 0 => state[c].sleeping[i].wake_at >= ticks[c]
                      /\ tick[c] \in 1 .. i => state[c].sleeping[i].wake_at > ticks[c]
    BY Zenon DEF NoOversleep
  <1>1. QueueOK(c)
    BY Zenon DEF IInv
  <1>2. state[c].sleeping \in Seq(Sleeper)
    BY <1>1, Zenon DEF QueueOK, SchedulerState
  <1>3. i \in 1 .. Len(state[c].sleeping)
    BY <1>2
  <1> QED BY <1>1, <1>3, Zenon DEF QueueOK

LEMMA Exclusive ==
  ASSUME IInv
  PROVE  NoSharedStack
  <1> SUFFICES ASSUME NEW c \in CPUs, NEW d \in CPUs,
                      cpu[c].stack = cpu[d].stack, cpu[c].stack # None
               PROVE  c = d
    BY Zenon DEF NoSharedStack
  <1>1. cpu[c].stack \in Tasks /\ cpu[d].stack \in Tasks
    BY Zenon DEF IInv, CpuOK, CPUState
  <1> QED BY <1>1 DEF IInv, CpuOK

(* Steps that leave a part alone, but for the creation of tasks. *)

\* A task that has a home keeps it.
HomeKept == \A t \in Tasks : home[t] \in CPUs => home'[t] = home[t]

LEMMA QueueSame ==
  ASSUME NEW c \in CPUs, QueueOK(c), HomeKept,
         state'[c] = state[c], ticks'[c] = ticks[c], tick'[c] = tick[c]
  PROVE  QueueOK(c)'
  <1>1. state[c].run_queue \in Seq(Tasks) /\ state[c].sleeping \in Seq(Sleeper)
    BY Zenon DEF QueueOK, SchedulerState
  <1>2. \A i \in 1 .. Len(state[c].run_queue) : state[c].run_queue[i] \in Tasks
    BY <1>1
  <1>3. \A i \in 1 .. Len(state[c].sleeping) : state[c].sleeping[i].task \in Tasks
    BY <1>1, SleeperFields, Zenon
  <1> QED BY <1>2, <1>3, SMTT(30) DEF QueueOK, HomeKept

LEMMA CpuSame ==
  ASSUME NEW c \in CPUs, CpuOK(c), HomeKept, cpu'[c] = cpu[c]
  PROVE  CpuOK(c)'
  <1>1. cpu[c].entry \in WaitingListEntry => cpu[c].entry.task \in Tasks /\ cpu[c].entry.cpu \in CPUs
    BY Zenon DEF WaitingListEntry
  <1>2. cpu[c].entry # None => cpu[c].entry \in WaitingListEntry
    BY Zenon DEF CpuOK, CPUState
  <1> QED BY <1>1, <1>2, Zenon DEF CpuOK, HomeKept

LEMMA ListSame ==
  ASSUME NEW l \in Lists, ListOK(l), HomeKept, waiting'[l] = waiting[l]
  PROVE  ListOK(l)'
  <1>1. \A i \in 1 .. Len(waiting[l]) : waiting[l][i].task \in Tasks /\ waiting[l][i].cpu \in CPUs
    BY EntryFields, Zenon DEF ListOK
  <1> QED BY <1>1 DEF ListOK, HomeKept

LEMMA QueuePush ==
  ASSUME NEW c \in CPUs, NEW t \in Tasks, QueueOK(c), HomeKept, home'[t] = c,
         state'[c] = [state[c] EXCEPT !.run_queue = Append(@, t)],
         ticks'[c] = ticks[c], tick'[c] = tick[c]
  PROVE  QueueOK(c)'
  <1> DEFINE q == state[c].run_queue
  <1>1. q \in Seq(Tasks) /\ state[c].sleeping \in Seq(Sleeper)
    BY Zenon DEF QueueOK, SchedulerState
  <1>a. Append(q, t) \in Seq(Tasks)
    BY <1>1, AppendFacts, Zenon
  <1>b. state[c] \in SchedulerState
    BY Zenon DEF QueueOK
  <1>2. state'[c] \in SchedulerState /\ state'[c].run_queue = Append(q, t)
        /\ state'[c].sleeping = state[c].sleeping
    BY <1>a, <1>b, Zenon DEF SchedulerState
  <1>3. \A i \in 1 .. Len(q) : q[i] \in Tasks /\ home[q[i]] = c
    BY <1>1 DEF QueueOK
  <1>4. \A i \in 1 .. Len(state[c].sleeping) : state[c].sleeping[i].task \in Tasks
    BY <1>1, SleeperFields, Zenon
  <1>5. \A i \in 1 .. Len(Append(q, t)) : home'[Append(q, t)[i]] = c
    BY <1>1, <1>3, AppendFacts, SMTT(30) DEF HomeKept
  <1>6. \A i \in 1 .. Len(state[c].sleeping) : home'[state[c].sleeping[i].task] = c
    BY <1>4 DEF QueueOK, HomeKept
  <1> HIDE DEF q
  <1>7. \A i \in 1 .. Len(state'[c].run_queue) : home'[state'[c].run_queue[i]] = c
    BY <1>2, <1>5, Zenon
  <1>8. \A i \in 1 .. Len(state'[c].sleeping) :
          /\ home'[state'[c].sleeping[i].task] = c
          /\ tick'[c] = 0 => state'[c].sleeping[i].wake_at >= ticks'[c]
          /\ tick'[c] \in 1 .. i => state'[c].sleeping[i].wake_at > ticks'[c]
    BY <1>2, <1>6 DEF QueueOK
  <1> QED BY <1>2, <1>7, <1>8, Zenon DEF QueueOK

LEMMA QueueSleep ==
  ASSUME NEW c \in CPUs, NEW t \in Tasks, NEW n \in Nat, QueueOK(c), HomeKept, home'[t] = c,
         tick[c] = 0, ticks'[c] = ticks[c], tick'[c] = tick[c],
         state'[c] = [state[c] EXCEPT !.sleeping = Append(@, [task |-> t, wake_at |-> ticks[c] + n])]
  PROVE  QueueOK(c)'
  <1> DEFINE q == state[c].run_queue
             s == state[c].sleeping
             e == [task |-> t, wake_at |-> ticks[c] + n]
  <1>1. q \in Seq(Tasks) /\ s \in Seq(Sleeper) /\ ticks[c] \in Nat /\ state[c] \in SchedulerState
    BY Zenon DEF QueueOK, SchedulerState
  <1>2. e \in Sleeper /\ e.task = t /\ e.wake_at >= ticks[c]
    BY <1>1 DEF Sleeper
  <1>3. /\ \A i \in 1 .. Len(q) : q[i] \in Tasks /\ home[q[i]] = c
        /\ \A i \in 1 .. Len(s) : home[s[i].task] = c /\ s[i].wake_at >= ticks[c]
    BY <1>1 DEF QueueOK
  <1>4. \A i \in 1 .. Len(s) : s[i].task \in Tasks
    BY <1>1, SleeperFields, Zenon
  <1> HIDE DEF e
  <1>a. Append(s, e) \in Seq(Sleeper)
    BY <1>1, <1>2, AppendFacts, Zenon
  <1>5. /\ state'[c] \in SchedulerState /\ state'[c].run_queue = q /\ state'[c].sleeping = Append(s, e)
    BY <1>a, <1>1, Zenon DEF SchedulerState, e
  <1>6. /\ Len(Append(s, e)) = Len(s) + 1 /\ Len(s) \in Nat
        /\ \A i \in 1 .. Len(s) : Append(s, e)[i] = s[i]
        /\ Append(s, e)[Len(s) + 1] = e
    BY <1>1, <1>2, AppendFacts
  <1>7. \A i \in 1 .. Len(Append(s, e)) :
          home'[Append(s, e)[i].task] = c /\ Append(s, e)[i].wake_at >= ticks[c]
    <2> SUFFICES ASSUME NEW i \in 1 .. Len(s) + 1
                 PROVE  home'[Append(s, e)[i].task] = c /\ Append(s, e)[i].wake_at >= ticks[c]
      BY <1>6, Zenon
    <2> HIDE DEF s
    <2>1. CASE i = Len(s) + 1
      BY <2>1, <1>6, <1>2, Zenon
    <2>2. CASE i # Len(s) + 1
      <3>1. i \in 1 .. Len(s)
        BY <2>2, <1>6
      <3> QED BY <3>1, <1>6, <1>3, <1>4 DEF HomeKept
    <2> QED BY <2>1, <2>2, Zenon
  <1>8. \A i \in 1 .. Len(q) : home'[q[i]] = c
    BY <1>3 DEF HomeKept
  <1> HIDE DEF q, s
  <1>9. \A i \in 1 .. Len(state'[c].sleeping) :
          /\ home'[state'[c].sleeping[i].task] = c
          /\ tick'[c] = 0 => state'[c].sleeping[i].wake_at >= ticks'[c]
          /\ tick'[c] \in 1 .. i => state'[c].sleeping[i].wake_at > ticks'[c]
    BY SMTT(20), <1>5, <1>7
  <1>10. \A i \in 1 .. Len(state'[c].run_queue) : home'[state'[c].run_queue[i]] = c
    BY <1>5, <1>8, Zenon
  <1>11. tick'[c] <= Len(state'[c].sleeping) + 1 /\ ticks'[c] \in Nat /\ tick'[c] \in Nat
    BY <1>5, <1>6, <1>1
  <1> QED BY <1>5, <1>9, <1>10, <1>11, Zenon DEF QueueOK

(* One lemma per action. *)

LEMMA Together ==
  ASSUME Shape', \A d \in CPUs : QueueOK(d)', \A d \in CPUs : CpuOK(d)', \A l \in Lists : ListOK(l)'
  PROVE  IInv'
  BY Zenon DEF IInv

LEMMA ScheduleInv ==
  ASSUME IInv, NEW c \in CPUs, schedule(c)
  PROVE  IInv'
  <1>0. Shape /\ QueueOK(c) /\ CpuOK(c)
    BY Zenon DEF IInv
  <1>p. cpu[c].phase = "schedule"
    BY Zenon DEF schedule, At
  <1>1. Shape'
    BY <1>0, Zenon DEF Shape, schedule, At
  <1>2. HomeKept
    BY Zenon DEF HomeKept, schedule, At
  <1>3. ASSUME NEW d \in CPUs
        PROVE  QueueOK(d)'
    <2>1. state'[d] = state[d] /\ ticks'[d] = ticks[d] /\ tick'[d] = tick[d]
      BY Zenon DEF schedule, At
    <2> QED BY <2>1, <1>2, QueueSame, Zenon DEF IInv
  <1>4. ASSUME NEW d \in CPUs
        PROVE  CpuOK(d)'
    <2>1. CASE d # c
      <3>1. cpu'[d] = cpu[d]
        BY <2>1, <1>0, Zenon DEF Shape, schedule, At
      <3> QED BY <3>1, <1>2, CpuSame, Zenon DEF IInv
    <2>2. CASE d = c
      <3>1. cpu'[c] = [cpu[c] EXCEPT !.phase = "locked"]
        BY <1>0, Zenon DEF Shape, schedule, At
      <3>2. cpu[c] \in CPUState
        BY <1>0, Zenon DEF CpuOK
      <3>3. /\ cpu'[c].phase = "locked"
            /\ cpu'[c].current = cpu[c].current
            /\ cpu'[c].executing = cpu[c].executing
            /\ cpu'[c].task = cpu[c].task
            /\ cpu'[c].command = cpu[c].command
            /\ cpu'[c].entry = cpu[c].entry
            /\ cpu'[c].stack = cpu[c].stack
        BY <3>1, <3>2, Zenon DEF CPUState
      <3>4. cpu'[c] \in CPUState
        BY <3>1, <3>2, <1>0, <1>p, Zenon DEF CpuOK, CPUState, Phases
      <3>5. cpu[c].entry \in WaitingListEntry => cpu[c].entry.task \in Tasks /\ cpu[c].entry.cpu \in CPUs
        BY Zenon DEF WaitingListEntry
      <3>6. cpu[c].entry # None => cpu[c].entry \in WaitingListEntry
        BY <3>2, Zenon DEF CPUState
      <3> QED BY <2>2, <3>3, <3>4, <3>5, <3>6, <1>0, <1>2, <1>p DEF CpuOK, HomeKept
    <2> QED BY <2>1, <2>2, Zenon
  <1>5. ASSUME NEW k \in Lists
        PROVE  ListOK(k)'
    <2>1. waiting'[k] = waiting[k]
      BY Zenon DEF schedule, At
    <2> QED BY <2>1, <1>2, ListSame, Zenon DEF IInv
  <1> QED BY <1>1, <1>3, <1>4, <1>5, Together, Zenon

LEMMA UnlockStateInv ==
  ASSUME IInv, NEW c \in CPUs, UnlockState(c)
  PROVE  IInv'
  <1>0. Shape /\ QueueOK(c) /\ CpuOK(c)
    BY DEF IInv
  <1>p. cpu[c].phase = "filed"
    BY Zenon DEF UnlockState, At
  <1>1. Shape'
    BY <1>0, Zenon DEF Shape, UnlockState, At
  <1>2. HomeKept
    BY Zenon DEF HomeKept, UnlockState, At
  <1>3. ASSUME NEW d \in CPUs
        PROVE  QueueOK(d)'
    <2>1. state'[d] = state[d] /\ ticks'[d] = ticks[d] /\ tick'[d] = tick[d]
      BY Zenon DEF UnlockState, At
    <2> QED BY <2>1, <1>2, QueueSame DEF IInv
  <1>4. ASSUME NEW d \in CPUs
        PROVE  CpuOK(d)'
    <2>1. CASE d # c
      <3>1. cpu'[d] = cpu[d]
        BY <2>1, <1>0, Zenon DEF Shape, UnlockState, At
      <3> QED BY <3>1, <1>2, CpuSame DEF IInv
    <2>2. CASE d = c
      <3>1. cpu'[c] = [cpu[c] EXCEPT !.phase = "pick"]
        BY <1>0, Zenon DEF Shape, UnlockState, At
      <3>2. cpu[c] \in CPUState
        BY <1>0 DEF CpuOK
      <3>3. /\ cpu'[c].phase = "pick"
            /\ cpu'[c].current = cpu[c].current
            /\ cpu'[c].executing = cpu[c].executing
            /\ cpu'[c].task = cpu[c].task
            /\ cpu'[c].command = cpu[c].command
            /\ cpu'[c].entry = cpu[c].entry
            /\ cpu'[c].stack = cpu[c].stack
        BY <3>1, <3>2, Zenon DEF CPUState
      <3>4. cpu'[c] \in CPUState
        BY <3>1, <3>2, <1>0, <1>p, Zenon DEF CpuOK, CPUState, Phases
      <3>5. cpu[c].entry \in WaitingListEntry => cpu[c].entry.task \in Tasks /\ cpu[c].entry.cpu \in CPUs
        BY DEF WaitingListEntry
      <3>6. cpu[c].entry # None => cpu[c].entry \in WaitingListEntry
        BY <3>2 DEF CPUState
      <3> QED BY <2>2, <3>3, <3>4, <3>5, <3>6, <1>0, <1>2, <1>p DEF CpuOK, HomeKept
    <2> QED BY <2>1, <2>2
  <1>5. ASSUME NEW k \in Lists
        PROVE  ListOK(k)'
    <2>1. waiting'[k] = waiting[k]
      BY Zenon DEF UnlockState, At
    <2> QED BY <2>1, <1>2, ListSame DEF IInv
  <1> QED BY <1>1, <1>3, <1>4, <1>5, Together

LEMMA ResumeInv ==
  ASSUME IInv, NEW c \in CPUs, resume_context(c)
  PROVE  IInv'
  <1>0. Shape /\ QueueOK(c) /\ CpuOK(c)
    BY DEF IInv
  <1>p. cpu[c].phase = "resume"
    BY Zenon DEF resume_context, At
  <1>1. Shape'
    BY <1>0, Zenon DEF Shape, resume_context, At
  <1>2. HomeKept
    BY Zenon DEF HomeKept, resume_context, At
  <1>3. ASSUME NEW d \in CPUs
        PROVE  QueueOK(d)'
    <2>1. state'[d] = state[d] /\ ticks'[d] = ticks[d] /\ tick'[d] = tick[d]
      BY Zenon DEF resume_context, At
    <2> QED BY <2>1, <1>2, QueueSame DEF IInv
  <1>4. ASSUME NEW d \in CPUs
        PROVE  CpuOK(d)'
    <2>1. CASE d # c
      <3>1. cpu'[d] = cpu[d]
        BY <2>1, <1>0, Zenon DEF Shape, resume_context, At
      <3> QED BY <3>1, <1>2, CpuSame DEF IInv
    <2>2. CASE d = c
      <3>1. cpu'[c] = [cpu[c] EXCEPT !.phase = "task", !.task = None, !.stack = cpu[c].task,
                                !.current = cpu[c].task, !.executing = TRUE]
        BY <1>0, Zenon DEF Shape, resume_context, At
      <3>2. cpu[c] \in CPUState
        BY <1>0 DEF CpuOK
      <3>3. /\ cpu'[c].phase = "task"
            /\ cpu'[c].current = cpu[c].task
            /\ cpu'[c].executing = TRUE
            /\ cpu'[c].task = None
            /\ cpu'[c].command = cpu[c].command
            /\ cpu'[c].entry = cpu[c].entry
            /\ cpu'[c].stack = cpu[c].task
        BY <3>1, <3>2, Zenon DEF CPUState
      <3>4. cpu'[c] \in CPUState
        BY <3>1, <3>2, <1>0, <1>p, ConstantsAssumption, Zenon DEF CpuOK, CPUState, Phases
      <3>5. cpu[c].entry \in WaitingListEntry => cpu[c].entry.task \in Tasks /\ cpu[c].entry.cpu \in CPUs
        BY DEF WaitingListEntry
      <3>6. cpu[c].entry # None => cpu[c].entry \in WaitingListEntry
        BY <3>2 DEF CPUState
      <3> QED BY <2>2, <3>3, <3>4, <3>5, <3>6, <1>0, <1>2, <1>p, ConstantsAssumption DEF CpuOK, HomeKept
    <2> QED BY <2>1, <2>2
  <1>5. ASSUME NEW k \in Lists
        PROVE  ListOK(k)'
    <2>1. waiting'[k] = waiting[k]
      BY Zenon DEF resume_context, At
    <2> QED BY <2>1, <1>2, ListSame DEF IInv
  <1> QED BY <1>1, <1>3, <1>4, <1>5, Together

LEMMA LockListInv ==
  ASSUME IInv, NEW c \in CPUs, NEW l \in Lists, LockList(c, l)
  PROVE  IInv'
  <1>0. Shape /\ QueueOK(c) /\ CpuOK(c)
    BY Zenon DEF IInv
  <1>p. cpu[c].phase = "task"
    BY Zenon DEF LockList, At, Running
  <1>t. cpu[c].current \in Tasks
    BY <1>0, <1>p, Zenon DEF CpuOK
  <1>1. Shape'
    BY <1>0, <1>t, Zenon DEF Shape, LockList, At, Running
  <1>2. HomeKept
    BY Zenon DEF HomeKept, LockList, At, Running
  <1>3. ASSUME NEW d \in CPUs
        PROVE  QueueOK(d)'
    <2>1. state'[d] = state[d] /\ ticks'[d] = ticks[d] /\ tick'[d] = tick[d]
      BY Zenon DEF LockList, At, Running
    <2> QED BY <2>1, <1>2, QueueSame, Zenon DEF IInv
  <1>4. ASSUME NEW d \in CPUs
        PROVE  CpuOK(d)'
    <2>1. cpu'[d] = cpu[d]
      BY Zenon DEF LockList, At, Running
    <2> QED BY <2>1, <1>2, CpuSame, Zenon DEF IInv
  <1>5. ASSUME NEW k \in Lists
        PROVE  ListOK(k)'
    <2>1. waiting'[k] = waiting[k]
      BY Zenon DEF LockList, At, Running
    <2> QED BY <2>1, <1>2, ListSame, Zenon DEF IInv
  <1> QED BY <1>1, <1>3, <1>4, <1>5, Together, Zenon

LEMMA UnlockListInv ==
  ASSUME IInv, NEW c \in CPUs, NEW l \in Lists, UnlockList(c, l)
  PROVE  IInv'
  <1>0. Shape /\ QueueOK(c) /\ CpuOK(c)
    BY DEF IInv
  <1>1. Shape'
    BY <1>0, Zenon DEF Shape, UnlockList, At, Running
  <1>2. HomeKept
    BY Zenon DEF HomeKept, UnlockList, At, Running
  <1>3. ASSUME NEW d \in CPUs
        PROVE  QueueOK(d)'
    <2>1. state'[d] = state[d] /\ ticks'[d] = ticks[d] /\ tick'[d] = tick[d]
      BY Zenon DEF UnlockList, At, Running
    <2> QED BY <2>1, <1>2, QueueSame DEF IInv
  <1>4. ASSUME NEW d \in CPUs
        PROVE  CpuOK(d)'
    <2>1. cpu'[d] = cpu[d]
      BY Zenon DEF UnlockList, At, Running
    <2> QED BY <2>1, <1>2, CpuSame DEF IInv
  <1>5. ASSUME NEW k \in Lists
        PROVE  ListOK(k)'
    <2>1. waiting'[k] = waiting[k]
      BY Zenon DEF UnlockList, At, Running
    <2> QED BY <2>1, <1>2, ListSame DEF IInv
  <1> QED BY <1>1, <1>3, <1>4, <1>5, Together

LEMMA YieldInv ==
  ASSUME IInv, NEW c \in CPUs,
         NEW command \in SchedulerCommand, command.op = "PushToWaitingList" => command.list \in Lists, yield_to_scheduler(c, command)
  PROVE  IInv'
  <1>0. Shape /\ QueueOK(c) /\ CpuOK(c)
    BY Zenon DEF IInv
  <1>p. cpu[c].phase = "task"
    BY Zenon DEF yield_to_scheduler, At, Running
  <1>1. Shape'
    BY <1>0, Zenon DEF Shape, yield_to_scheduler, At, Running
  <1>2. HomeKept
    BY Zenon DEF HomeKept, yield_to_scheduler, At, Running
  <1>3. ASSUME NEW d \in CPUs
        PROVE  QueueOK(d)'
    <2>1. state'[d] = state[d] /\ ticks'[d] = ticks[d] /\ tick'[d] = tick[d]
      BY Zenon DEF yield_to_scheduler, At, Running
    <2> QED BY <2>1, <1>2, QueueSame, Zenon DEF IInv
  <1>4. ASSUME NEW d \in CPUs
        PROVE  CpuOK(d)'
    <2>1. CASE d # c
      <3>1. cpu'[d] = cpu[d]
        BY <2>1, <1>0, Zenon DEF Shape, yield_to_scheduler, At, Running
      <3> QED BY <3>1, <1>2, CpuSame, Zenon DEF IInv
    <2>2. CASE d = c
      <3>1. cpu'[c] = [cpu[c] EXCEPT !.phase = "schedule", !.executing = FALSE, !.current = None,
                                !.task = cpu[c].current, !.command = command]
        BY <1>0, Zenon DEF Shape, yield_to_scheduler, At, Running
      <3>2. cpu[c] \in CPUState
        BY <1>0, Zenon DEF CpuOK
      <3>3. /\ cpu'[c].phase = "schedule"
            /\ cpu'[c].current = None
            /\ cpu'[c].executing = FALSE
            /\ cpu'[c].task = cpu[c].current
            /\ cpu'[c].command = command
            /\ cpu'[c].entry = cpu[c].entry
            /\ cpu'[c].stack = cpu[c].stack
        BY <3>1, <3>2, Zenon DEF CPUState
      <3>4. cpu'[c] \in CPUState
        BY <3>1, <3>2, <1>0, <1>p, ConstantsAssumption, Zenon DEF CpuOK, CPUState, Phases
      <3>5. cpu[c].entry \in WaitingListEntry => cpu[c].entry.task \in Tasks /\ cpu[c].entry.cpu \in CPUs
        BY Zenon DEF WaitingListEntry
      <3>6. cpu[c].entry # None => cpu[c].entry \in WaitingListEntry
        BY <3>2, Zenon DEF CPUState
      <3> QED BY <2>2, <3>3, <3>4, <3>5, <3>6, <1>0, <1>2, <1>p, ConstantsAssumption DEF CpuOK, HomeKept
    <2> QED BY <2>1, <2>2, Zenon
  <1>5. ASSUME NEW k \in Lists
        PROVE  ListOK(k)'
    <2>1. waiting'[k] = waiting[k]
      BY Zenon DEF yield_to_scheduler, At, Running
    <2> QED BY <2>1, <1>2, ListSame, Zenon DEF IInv
  <1> QED BY <1>1, <1>3, <1>4, <1>5, Together, Zenon

LEMMA TickInv ==
  ASSUME IInv, NEW c \in CPUs, _scheduler_tick(c)
  PROVE  IInv'
  <1>0. Shape /\ QueueOK(c) /\ CpuOK(c)
    BY DEF IInv
  <1>p. tick[c] = 0
    BY Zenon DEF _scheduler_tick
  <1>1. Shape'
    BY <1>0, Zenon DEF Shape, _scheduler_tick
  <1>2. HomeKept
    BY Zenon DEF HomeKept, _scheduler_tick
  <1>3. ASSUME NEW d \in CPUs
        PROVE  QueueOK(d)'
    <2>1. CASE d # c
      <3>1. state'[d] = state[d] /\ ticks'[d] = ticks[d] /\ tick'[d] = tick[d]
        BY <2>1, <1>0, Zenon DEF Shape, _scheduler_tick
      <3> QED BY <3>1, <1>2, QueueSame DEF IInv
    <2>2. CASE d = c
      <3>1. state'[c] = state[c] /\ ticks'[c] = ticks[c] + 1 /\ tick'[c] = Len(state[c].sleeping) + 1 /\ home' = home
        BY <1>0, Zenon DEF Shape, _scheduler_tick
      <3>2. state[c].sleeping \in Seq(Sleeper)
        BY <1>0, Zenon DEF QueueOK, SchedulerState
      <3>3. \A i \in 1 .. Len(state[c].sleeping) : state[c].sleeping[i].wake_at \in Nat
        BY <3>2, SleeperFields, Zenon
      <3> QED BY <2>2, <3>1, <3>2, <3>3, <1>0, <1>p DEF QueueOK
    <2> QED BY <2>1, <2>2
  <1>4. ASSUME NEW d \in CPUs
        PROVE  CpuOK(d)'
    <2>1. cpu'[d] = cpu[d]
      BY Zenon DEF _scheduler_tick
    <2> QED BY <2>1, <1>2, CpuSame DEF IInv
  <1>5. ASSUME NEW k \in Lists
        PROVE  ListOK(k)'
    <2>1. waiting'[k] = waiting[k]
      BY Zenon DEF _scheduler_tick
    <2> QED BY <2>1, <1>2, ListSame DEF IInv
  <1> QED BY <1>1, <1>3, <1>4, <1>5, Together

LEMMA TickDoneInv ==
  ASSUME IInv, NEW c \in CPUs, TickDone(c)
  PROVE  IInv'
  <1>0. Shape /\ QueueOK(c) /\ CpuOK(c)
    BY DEF IInv
  <1>p. tick[c] = 1
    BY Zenon DEF TickDone
  <1>1. Shape'
    BY <1>0, Zenon DEF Shape, TickDone
  <1>2. HomeKept
    BY Zenon DEF HomeKept, TickDone
  <1>3. ASSUME NEW d \in CPUs
        PROVE  QueueOK(d)'
    <2>1. CASE d # c
      <3>1. state'[d] = state[d] /\ ticks'[d] = ticks[d] /\ tick'[d] = tick[d]
        BY <2>1, <1>0, Zenon DEF Shape, TickDone
      <3> QED BY <3>1, <1>2, QueueSame DEF IInv
    <2>2. CASE d = c
      <3>1. state'[c] = state[c] /\ ticks'[c] = ticks[c] /\ tick'[c] = 0 /\ home' = home
        BY <1>0, Zenon DEF Shape, TickDone
      <3>2. state[c].sleeping \in Seq(Sleeper)
        BY <1>0 DEF QueueOK, SchedulerState
      <3>3. \A i \in 1 .. Len(state[c].sleeping) : state[c].sleeping[i].wake_at \in Nat
        BY <3>2, SleeperFields
      <3> QED BY <2>2, <3>1, <3>2, <3>3, <1>0, <1>p DEF QueueOK
    <2> QED BY <2>1, <2>2
  <1>4. ASSUME NEW d \in CPUs
        PROVE  CpuOK(d)'
    <2>1. cpu'[d] = cpu[d]
      BY Zenon DEF TickDone
    <2> QED BY <2>1, <1>2, CpuSame DEF IInv
  <1>5. ASSUME NEW k \in Lists
        PROVE  ListOK(k)'
    <2>1. waiting'[k] = waiting[k]
      BY Zenon DEF TickDone
    <2> QED BY <2>1, <1>2, ListSame DEF IInv
  <1> QED BY <1>1, <1>3, <1>4, <1>5, Together

LEMMA InitSchedulerInv ==
  ASSUME IInv, NEW c \in CPUs, NEW t \in Tasks, init_scheduler(c, t)
  PROVE  IInv'
  <1>0. Shape /\ QueueOK(c) /\ CpuOK(c)
    BY Zenon DEF IInv
  <1>p. cpu[c].phase = "boot"
    BY Zenon DEF init_scheduler, At
  <1>1. Shape'
    BY <1>0, Zenon DEF Shape, init_scheduler, At
  <1>2. HomeKept
    <2>1. None \notin CPUs
      BY ConstantsAssumption, Zenon
    <2> QED BY <2>1, <1>0, Zenon DEF HomeKept, Shape, init_scheduler, At
  <1>3. ASSUME NEW d \in CPUs
        PROVE  QueueOK(d)'
    <2>1. state'[d] = state[d] /\ ticks'[d] = ticks[d] /\ tick'[d] = tick[d]
      BY Zenon DEF init_scheduler, At
    <2> QED BY <2>1, <1>2, QueueSame, Zenon DEF IInv
  <1>4. ASSUME NEW d \in CPUs
        PROVE  CpuOK(d)'
    <2>1. CASE d # c
      <3>1. cpu'[d] = cpu[d]
        BY <2>1, <1>0, Zenon DEF Shape, init_scheduler, At
      <3> QED BY <3>1, <1>2, CpuSame, Zenon DEF IInv
    <2>2. CASE d = c
      <3>0. home'[t] = c
        BY <1>0, Zenon DEF Shape, init_scheduler, At
      <3>1. cpu'[c] = [cpu[c] EXCEPT !.phase = "task", !.current = t, !.stack = t]
        BY <1>0, Zenon DEF Shape, init_scheduler, At
      <3>2. cpu[c] \in CPUState
        BY <1>0, Zenon DEF CpuOK
      <3>3. /\ cpu'[c].phase = "task"
            /\ cpu'[c].current = t
            /\ cpu'[c].executing = cpu[c].executing
            /\ cpu'[c].task = cpu[c].task
            /\ cpu'[c].command = cpu[c].command
            /\ cpu'[c].entry = cpu[c].entry
            /\ cpu'[c].stack = t
        BY <3>1, <3>2, Zenon DEF CPUState
      <3>4. cpu'[c] \in CPUState
        BY <3>1, <3>2, <1>0, <1>p, <3>0, Zenon DEF CpuOK, CPUState, Phases
      <3>5. cpu[c].entry \in WaitingListEntry => cpu[c].entry.task \in Tasks /\ cpu[c].entry.cpu \in CPUs
        BY Zenon DEF WaitingListEntry
      <3>6. cpu[c].entry # None => cpu[c].entry \in WaitingListEntry
        BY <3>2, Zenon DEF CPUState
      <3> QED BY <2>2, <3>3, <3>4, <3>5, <3>6, <1>0, <1>2, <1>p, <3>0 DEF CpuOK, HomeKept
    <2> QED BY <2>1, <2>2, Zenon
  <1>5. ASSUME NEW k \in Lists
        PROVE  ListOK(k)'
    <2>1. waiting'[k] = waiting[k]
      BY Zenon DEF init_scheduler, At
    <2> QED BY <2>1, <1>2, ListSame, Zenon DEF IInv
  <1> QED BY <1>1, <1>3, <1>4, <1>5, Together, Zenon

LEMMA PushTaskInv ==
  ASSUME IInv, NEW c \in CPUs, NEW t \in Tasks, push_task(c, t)
  PROVE  IInv'
  <1>0. Shape /\ QueueOK(c) /\ CpuOK(c)
    BY DEF IInv
  <1>1. Shape'
    BY <1>0, Zenon DEF Shape, push_task, At, PushTo
  <1>2. HomeKept
    <2>1. None \notin CPUs
      BY ConstantsAssumption
    <2> QED BY <2>1, <1>0, Zenon DEF HomeKept, Shape, push_task, At, PushTo
  <1>3. ASSUME NEW d \in CPUs
        PROVE  QueueOK(d)'
    <2>1. CASE d # c
      <3>1. state'[d] = state[d] /\ ticks'[d] = ticks[d] /\ tick'[d] = tick[d]
        BY <2>1, <1>0, Zenon DEF Shape, push_task, At, PushTo
      <3> QED BY <3>1, <1>2, QueueSame DEF IInv
    <2>2. CASE d = c
      <3>1. /\ state'[c] = [state[c] EXCEPT !.run_queue = Append(@, t)]
            /\ ticks'[c] = ticks[c] /\ tick'[c] = tick[c] /\ home'[t] = c
        BY <1>0, Zenon DEF Shape, push_task, At, PushTo
      <3> QED BY <2>2, <3>1, <1>0, <1>2, QueuePush, Zenon
    <2> QED BY <2>1, <2>2
  <1>4. ASSUME NEW d \in CPUs
        PROVE  CpuOK(d)'
    <2>1. cpu'[d] = cpu[d]
      BY Zenon DEF push_task, At, PushTo
    <2> QED BY <2>1, <1>2, CpuSame DEF IInv
  <1>5. ASSUME NEW k \in Lists
        PROVE  ListOK(k)'
    <2>1. waiting'[k] = waiting[k]
      BY Zenon DEF push_task, At, PushTo
    <2> QED BY <2>1, <1>2, ListSame DEF IInv
  <1> QED BY <1>1, <1>3, <1>4, <1>5, Together

LEMMA FileTerminateInv ==
  ASSUME IInv, NEW c \in CPUs, FileTerminate(c)
  PROVE  IInv'
  <1>0. Shape /\ QueueOK(c) /\ CpuOK(c)
    BY DEF IInv
  <1>p. cpu[c].phase = "locked" /\ tick[c] = 0 /\ cpu[c].command.op = "Terminate"
    BY Zenon DEF FileTerminate, Arm, At
  <1>t. cpu[c].task \in Tasks /\ home[cpu[c].task] = c
    BY <1>0, <1>p, Zenon DEF CpuOK
  <1>d. state[c].deferred_drop \in Seq(Tasks) /\ TasksIn(state[c].deferred_drop) \subseteq Tasks
    <2>1. state[c].deferred_drop \in Seq(Tasks)
      BY <1>0, Zenon DEF QueueOK, SchedulerState
    <2> QED BY <2>1 DEF TasksIn
  <1>1. Shape'
    BY <1>0, <1>d, Zenon DEF Shape, FileTerminate, Arm, At
  <1>2. HomeKept
    BY Zenon DEF HomeKept, FileTerminate, Arm, At
  <1>3. ASSUME NEW d \in CPUs
        PROVE  QueueOK(d)'
    <2>1. CASE d # c
      <3>1. state'[d] = state[d] /\ ticks'[d] = ticks[d] /\ tick'[d] = tick[d]
        BY <2>1, <1>0, Zenon DEF Shape, FileTerminate, Arm, At
      <3> QED BY <3>1, <1>2, QueueSame DEF IInv
    <2>2. CASE d = c
      <3>1. /\ state'[c] = [state[c] EXCEPT !.deferred_drop = <<cpu[c].task>>]
            /\ ticks'[c] = ticks[c] /\ tick'[c] = tick[c] /\ home' = home
        BY <1>0, Zenon DEF Shape, FileTerminate, Arm, At
      <3>2. state[c] \in SchedulerState /\ <<cpu[c].task>> \in Seq(Tasks)
        BY <1>0, <1>t DEF QueueOK
      <3>3. /\ state'[c] \in SchedulerState /\ state'[c].run_queue = state[c].run_queue
            /\ state'[c].sleeping = state[c].sleeping
        BY <3>1, <3>2, Zenon DEF SchedulerState
      <3> QED BY <2>2, <3>1, <3>3, <1>0, Zenon DEF QueueOK
    <2> QED BY <2>1, <2>2
  <1>4. ASSUME NEW d \in CPUs
        PROVE  CpuOK(d)'
    <2>1. CASE d # c
      <3>1. cpu'[d] = cpu[d]
        BY <2>1, <1>0, Zenon DEF Shape, FileTerminate, Arm, At
      <3> QED BY <3>1, <1>2, CpuSame DEF IInv
    <2>2. CASE d = c
      <3>1. cpu'[c] = [cpu[c] EXCEPT !.phase = "filed", !.task = None]
        BY <1>0, Zenon DEF Shape, FileTerminate, Arm, At
      <3>2. cpu[c] \in CPUState
        BY <1>0 DEF CpuOK
      <3>3. /\ cpu'[c].phase = "filed"
            /\ cpu'[c].current = cpu[c].current
            /\ cpu'[c].executing = cpu[c].executing
            /\ cpu'[c].task = None
            /\ cpu'[c].command = cpu[c].command
            /\ cpu'[c].entry = cpu[c].entry
            /\ cpu'[c].stack = cpu[c].stack
        BY <3>1, <3>2, Zenon DEF CPUState
      <3>4. cpu'[c] \in CPUState
        BY <3>1, <3>2, <1>0, <1>p, ConstantsAssumption, Zenon DEF CpuOK, CPUState, Phases
      <3>5. cpu[c].entry \in WaitingListEntry => cpu[c].entry.task \in Tasks /\ cpu[c].entry.cpu \in CPUs
        BY DEF WaitingListEntry
      <3>6. cpu[c].entry # None => cpu[c].entry \in WaitingListEntry
        BY <3>2 DEF CPUState
      <3> QED BY <2>2, <3>3, <3>4, <3>5, <3>6, <1>0, <1>2, <1>p, ConstantsAssumption DEF CpuOK, HomeKept
    <2> QED BY <2>1, <2>2
  <1>5. ASSUME NEW k \in Lists
        PROVE  ListOK(k)'
    <2>1. waiting'[k] = waiting[k]
      BY Zenon DEF FileTerminate, Arm, At
    <2> QED BY <2>1, <1>2, ListSame DEF IInv
  <1> QED BY <1>1, <1>3, <1>4, <1>5, Together

LEMMA FileSleepInv ==
  ASSUME IInv, NEW c \in CPUs, FileSleep(c)
  PROVE  IInv'
  <1>0. Shape /\ QueueOK(c) /\ CpuOK(c)
    BY DEF IInv
  <1>p. cpu[c].phase = "locked" /\ tick[c] = 0 /\ cpu[c].command.op = "SleepNTicks"
    BY Zenon DEF FileSleep, Arm, At
  <1>t. cpu[c].task \in Tasks /\ home[cpu[c].task] = c
    BY <1>0, <1>p, Zenon DEF CpuOK
  <1>1. Shape'
    BY <1>0, Zenon DEF Shape, FileSleep, Arm, At
  <1>2. HomeKept
    BY Zenon DEF HomeKept, FileSleep, Arm, At
  <1>3. ASSUME NEW d \in CPUs
        PROVE  QueueOK(d)'
    <2>1. CASE d # c
      <3>1. state'[d] = state[d] /\ ticks'[d] = ticks[d] /\ tick'[d] = tick[d]
        BY <2>1, <1>0, Zenon DEF Shape, FileSleep, Arm, At
      <3> QED BY <3>1, <1>2, QueueSame DEF IInv
    <2>2. CASE d = c
      <3>1. /\ ticks'[c] = ticks[c] /\ tick'[c] = tick[c] /\ home' = home
            /\ state'[c] = [state[c] EXCEPT !.sleeping =
                 Append(@, [task |-> cpu[c].task, wake_at |-> ticks[c] + cpu[c].command.ticks])]
        BY <1>0, Zenon DEF Shape, FileSleep, Arm, At
      <3>2. cpu[c].command.ticks \in Nat
        BY <1>0, Zenon DEF CpuOK, CPUState, SchedulerCommand
      <3> QED BY <2>2, <3>1, <3>2, <1>0, <1>2, <1>p, <1>t, QueueSleep, Zenon
    <2> QED BY <2>1, <2>2
  <1>4. ASSUME NEW d \in CPUs
        PROVE  CpuOK(d)'
    <2>1. CASE d # c
      <3>1. cpu'[d] = cpu[d]
        BY <2>1, <1>0, Zenon DEF Shape, FileSleep, Arm, At
      <3> QED BY <3>1, <1>2, CpuSame DEF IInv
    <2>2. CASE d = c
      <3>1. cpu'[c] = [cpu[c] EXCEPT !.phase = "filed", !.task = None]
        BY <1>0, Zenon DEF Shape, FileSleep, Arm, At
      <3>2. cpu[c] \in CPUState
        BY <1>0 DEF CpuOK
      <3>3. /\ cpu'[c].phase = "filed"
            /\ cpu'[c].current = cpu[c].current
            /\ cpu'[c].executing = cpu[c].executing
            /\ cpu'[c].task = None
            /\ cpu'[c].command = cpu[c].command
            /\ cpu'[c].entry = cpu[c].entry
            /\ cpu'[c].stack = cpu[c].stack
        BY <3>1, <3>2 DEF CPUState
      <3>4. cpu'[c] \in CPUState
        BY <3>1, <3>2, <1>0, <1>p, ConstantsAssumption, Zenon DEF CpuOK, CPUState, Phases
      <3>5. cpu[c].entry \in WaitingListEntry => cpu[c].entry.task \in Tasks /\ cpu[c].entry.cpu \in CPUs
        BY DEF WaitingListEntry
      <3>6. cpu[c].entry # None => cpu[c].entry \in WaitingListEntry
        BY <3>2 DEF CPUState
      <3> QED BY <2>2, <3>3, <3>4, <3>5, <3>6, <1>0, <1>2, <1>p, ConstantsAssumption DEF CpuOK, HomeKept
    <2> QED BY <2>1, <2>2
  <1>5. ASSUME NEW k \in Lists
        PROVE  ListOK(k)'
    <2>1. waiting'[k] = waiting[k]
      BY Zenon DEF FileSleep, Arm, At
    <2> QED BY <2>1, <1>2, ListSame DEF IInv
  <1> QED BY <1>1, <1>3, <1>4, <1>5, Together

LEMMA FilePushBackInv ==
  ASSUME IInv, NEW c \in CPUs, FilePushBack(c)
  PROVE  IInv'
  <1>0. Shape /\ QueueOK(c) /\ CpuOK(c)
    BY DEF IInv
  <1>p. cpu[c].phase = "locked" /\ tick[c] = 0 /\ cpu[c].command.op = "PushBack"
    BY Zenon DEF FilePushBack, Arm, At, PushTo
  <1>t. cpu[c].task \in Tasks /\ home[cpu[c].task] = c
    BY <1>0, <1>p, Zenon DEF CpuOK
  <1>1. Shape'
    BY <1>0, Zenon DEF Shape, FilePushBack, Arm, At, PushTo
  <1>2. HomeKept
    BY Zenon DEF HomeKept, FilePushBack, Arm, At, PushTo
  <1>3. ASSUME NEW d \in CPUs
        PROVE  QueueOK(d)'
    <2>1. CASE d # c
      <3>1. state'[d] = state[d] /\ ticks'[d] = ticks[d] /\ tick'[d] = tick[d]
        BY <2>1, <1>0, Zenon DEF Shape, FilePushBack, Arm, At, PushTo
      <3> QED BY <3>1, <1>2, QueueSame DEF IInv
    <2>2. CASE d = c
      <3>1. /\ state'[c] = [state[c] EXCEPT !.run_queue = Append(@, cpu[c].task)]
            /\ ticks'[c] = ticks[c] /\ tick'[c] = tick[c] /\ home' = home
        BY <1>0, Zenon DEF Shape, FilePushBack, Arm, At, PushTo
      <3> QED BY <2>2, <3>1, <1>0, <1>2, <1>t, QueuePush, Zenon
    <2> QED BY <2>1, <2>2
  <1>4. ASSUME NEW d \in CPUs
        PROVE  CpuOK(d)'
    <2>1. CASE d # c
      <3>1. cpu'[d] = cpu[d]
        BY <2>1, <1>0, Zenon DEF Shape, FilePushBack, Arm, At, PushTo
      <3> QED BY <3>1, <1>2, CpuSame DEF IInv
    <2>2. CASE d = c
      <3>1. cpu'[c] = [cpu[c] EXCEPT !.phase = "filed", !.task = None]
        BY <1>0, Zenon DEF Shape, FilePushBack, Arm, At, PushTo
      <3>2. cpu[c] \in CPUState
        BY <1>0 DEF CpuOK
      <3>3. /\ cpu'[c].phase = "filed"
            /\ cpu'[c].current = cpu[c].current
            /\ cpu'[c].executing = cpu[c].executing
            /\ cpu'[c].task = None
            /\ cpu'[c].command = cpu[c].command
            /\ cpu'[c].entry = cpu[c].entry
            /\ cpu'[c].stack = cpu[c].stack
        BY <3>1, <3>2 DEF CPUState
      <3>4. cpu'[c] \in CPUState
        BY <3>1, <3>2, <1>0, <1>p, ConstantsAssumption, Zenon DEF CpuOK, CPUState, Phases
      <3>5. cpu[c].entry \in WaitingListEntry => cpu[c].entry.task \in Tasks /\ cpu[c].entry.cpu \in CPUs
        BY DEF WaitingListEntry
      <3>6. cpu[c].entry # None => cpu[c].entry \in WaitingListEntry
        BY <3>2 DEF CPUState
      <3> QED BY <2>2, <3>3, <3>4, <3>5, <3>6, <1>0, <1>2, <1>p, ConstantsAssumption DEF CpuOK, HomeKept
    <2> QED BY <2>1, <2>2
  <1>5. ASSUME NEW k \in Lists
        PROVE  ListOK(k)'
    <2>1. waiting'[k] = waiting[k]
      BY Zenon DEF FilePushBack, Arm, At, PushTo
    <2> QED BY <2>1, <1>2, ListSame DEF IInv
  <1> QED BY <1>1, <1>3, <1>4, <1>5, Together

LEMMA FileWaitInv ==
  ASSUME IInv, NEW c \in CPUs, FileWait(c)
  PROVE  IInv'
  <1>0. Shape /\ QueueOK(c) /\ CpuOK(c)
    BY DEF IInv
  <1>p. cpu[c].phase = "locked" /\ tick[c] = 0 /\ cpu[c].command.op = "PushToWaitingList"
    BY Zenon DEF FileWait, Arm, At
  <1>t. cpu[c].task \in Tasks /\ home[cpu[c].task] = c
    BY <1>0, <1>p, Zenon DEF CpuOK
  <1>l. cpu[c].command.list \in Lists
    BY <1>0, <1>p, Zenon DEF CpuOK
  <1>1. Shape'
    BY <1>0, <1>l, Zenon DEF Shape, FileWait, Arm, At
  <1>2. HomeKept
    BY Zenon DEF HomeKept, FileWait, Arm, At
  <1>3. ASSUME NEW d \in CPUs
        PROVE  QueueOK(d)'
    <2>1. state'[d] = state[d] /\ ticks'[d] = ticks[d] /\ tick'[d] = tick[d]
      BY Zenon DEF FileWait, Arm, At
    <2> QED BY <2>1, <1>2, QueueSame DEF IInv
  <1>4. ASSUME NEW d \in CPUs
        PROVE  CpuOK(d)'
    <2>1. CASE d # c
      <3>1. cpu'[d] = cpu[d]
        BY <2>1, <1>0, Zenon DEF Shape, FileWait, Arm, At
      <3> QED BY <3>1, <1>2, CpuSame DEF IInv
    <2>2. CASE d = c
      <3>1. cpu'[c] = [cpu[c] EXCEPT !.phase = "filed", !.task = None]
        BY <1>0, Zenon DEF Shape, FileWait, Arm, At
      <3>2. cpu[c] \in CPUState
        BY <1>0 DEF CpuOK
      <3>3. /\ cpu'[c].phase = "filed"
            /\ cpu'[c].current = cpu[c].current
            /\ cpu'[c].executing = cpu[c].executing
            /\ cpu'[c].task = None
            /\ cpu'[c].command = cpu[c].command
            /\ cpu'[c].entry = cpu[c].entry
            /\ cpu'[c].stack = cpu[c].stack
        BY <3>1, <3>2 DEF CPUState
      <3>4. cpu'[c] \in CPUState
        BY <3>1, <3>2, <1>0, <1>p, ConstantsAssumption, Zenon DEF CpuOK, CPUState, Phases
      <3>5. cpu[c].entry \in WaitingListEntry => cpu[c].entry.task \in Tasks /\ cpu[c].entry.cpu \in CPUs
        BY DEF WaitingListEntry
      <3>6. cpu[c].entry # None => cpu[c].entry \in WaitingListEntry
        BY <3>2 DEF CPUState
      <3> QED BY <2>2, <3>3, <3>4, <3>5, <3>6, <1>0, <1>2, <1>p, ConstantsAssumption DEF CpuOK, HomeKept
    <2> QED BY <2>1, <2>2
  <1>5. ASSUME NEW k \in Lists
        PROVE  ListOK(k)'
    <2> DEFINE l == cpu[c].command.list
               e == [task |-> cpu[c].task, cpu |-> c]
    <2>1. CASE k # l
      <3>1. waiting'[k] = waiting[k]
        BY <2>1, <1>0, <1>l, Zenon DEF Shape, FileWait, Arm, At
      <3> QED BY <3>1, <1>2, ListSame DEF IInv
    <2>2. CASE k = l
      <3>1. waiting'[k] = Append(waiting[k], e) /\ home' = home
        BY <2>2, <1>0, <1>l, Zenon DEF Shape, FileWait, Arm, At
      <3>2. e \in WaitingListEntry /\ home[e.task] = e.cpu
        BY <1>t, Zenon DEF WaitingListEntry
      <3>3. ListOK(k)
        BY Zenon DEF IInv
      <3> HIDE DEF e
      <3>4. /\ Append(waiting[k], e) \in Seq(WaitingListEntry)
            /\ Len(Append(waiting[k], e)) = Len(waiting[k]) + 1 /\ Len(waiting[k]) \in Nat
            /\ \A i \in 1 .. Len(waiting[k]) : Append(waiting[k], e)[i] = waiting[k][i]
            /\ Append(waiting[k], e)[Len(waiting[k]) + 1] = e
        BY <3>2, <3>3, AppendFacts DEF ListOK
      <3>5. \A i \in 1 .. Len(waiting[k]) + 1 :
              home[Append(waiting[k], e)[i].task] = Append(waiting[k], e)[i].cpu
        BY <3>2, <3>3, <3>4 DEF ListOK
      <3> QED BY <3>1, <3>4, <3>5, Zenon DEF ListOK
    <2> QED BY <2>1, <2>2, Zenon
  <1> QED BY <1>1, <1>3, <1>4, <1>5, Together

LEMMA PickNextInv ==
  ASSUME IInv, NEW c \in CPUs, PickNext(c)
  PROVE  IInv'
  <1>0. Shape /\ QueueOK(c) /\ CpuOK(c)
    BY DEF IInv
  <1>p. cpu[c].phase = "pick" /\ state[c].run_queue # <<>>
    BY Zenon DEF PickNext, At
  <1> DEFINE q == state[c].run_queue
  <1>q. q \in Seq(Tasks) /\ state[c] \in SchedulerState
    BY <1>0, Zenon DEF QueueOK, SchedulerState
  <1>t. /\ Head(q) \in Tasks /\ Tail(q) \in Seq(Tasks) /\ Len(Tail(q)) = Len(q) - 1 /\ Len(q) \in Nat
        /\ \A i \in 1 .. Len(q) - 1 : Tail(q)[i] = q[i + 1]
        /\ Head(q) = q[1] /\ 1 \in 1 .. Len(q)
    BY <1>p, <1>q, TailFacts, Zenon
  <1>h. \A i \in 1 .. Len(q) : home[q[i]] = c
    BY <1>0, Zenon DEF QueueOK
  <1>g. home[Head(q)] = c
    BY <1>t, <1>h, Zenon
  <1>1. Shape'
    BY <1>0, Zenon DEF Shape, PickNext, At
  <1>2. HomeKept
    BY Zenon DEF HomeKept, PickNext, At
  <1>3. ASSUME NEW d \in CPUs
        PROVE  QueueOK(d)'
    <2>1. CASE d # c
      <3>1. state'[d] = state[d] /\ ticks'[d] = ticks[d] /\ tick'[d] = tick[d]
        BY <2>1, <1>0, Zenon DEF Shape, PickNext, At
      <3> QED BY <3>1, <1>2, QueueSame DEF IInv
    <2>2. CASE d = c
      <3>1. /\ state'[c] = [state[c] EXCEPT !.run_queue = Tail(q)]
            /\ ticks'[c] = ticks[c] /\ tick'[c] = tick[c] /\ home' = home
        BY <1>0, Zenon DEF Shape, PickNext, At
      <3>2. /\ state'[c] \in SchedulerState /\ state'[c].run_queue = Tail(q)
            /\ state'[c].sleeping = state[c].sleeping
        BY <3>1, <1>q, <1>t, Zenon DEF SchedulerState
      <3> HIDE DEF q
      <3>3. \A i \in 1 .. Len(Tail(q)) : home[Tail(q)[i]] = c
        BY <1>t, <1>h
      <3> QED BY <2>2, <3>1, <3>2, <3>3, <1>0, ZenonT(40) DEF QueueOK
    <2> QED BY <2>1, <2>2
  <1>4. ASSUME NEW d \in CPUs
        PROVE  CpuOK(d)'
    <2>1. CASE d # c
      <3>1. cpu'[d] = cpu[d]
        BY <2>1, <1>0, Zenon DEF Shape, PickNext, At
      <3> QED BY <3>1, <1>2, CpuSame DEF IInv
    <2>2. CASE d = c
      <3>1. cpu'[c] = [cpu[c] EXCEPT !.phase = "resume", !.task = Head(q)]
        BY <1>0, Zenon DEF Shape, PickNext, At
      <3>2. cpu[c] \in CPUState
        BY <1>0 DEF CpuOK
      <3>3. /\ cpu'[c].phase = "resume"
            /\ cpu'[c].current = cpu[c].current
            /\ cpu'[c].executing = cpu[c].executing
            /\ cpu'[c].task = Head(q)
            /\ cpu'[c].command = cpu[c].command
            /\ cpu'[c].entry = cpu[c].entry
            /\ cpu'[c].stack = cpu[c].stack
        BY <3>1, <3>2, Zenon DEF CPUState
      <3>4. cpu'[c] \in CPUState
        BY <3>1, <3>2, <1>0, <1>p, <1>t, <1>g, Zenon DEF CpuOK, CPUState, Phases
      <3>5. cpu[c].entry \in WaitingListEntry => cpu[c].entry.task \in Tasks /\ cpu[c].entry.cpu \in CPUs
        BY DEF WaitingListEntry
      <3>6. cpu[c].entry # None => cpu[c].entry \in WaitingListEntry
        BY <3>2 DEF CPUState
      <3> QED BY <2>2, <3>3, <3>4, <3>5, <3>6, <1>0, <1>2, <1>p, <1>t, <1>g DEF CpuOK, HomeKept
    <2> QED BY <2>1, <2>2
  <1>5. ASSUME NEW k \in Lists
        PROVE  ListOK(k)'
    <2>1. waiting'[k] = waiting[k]
      BY Zenon DEF PickNext, At
    <2> QED BY <2>1, <1>2, ListSame DEF IInv
  <1> QED BY <1>1, <1>3, <1>4, <1>5, Together

LEMMA NotifyInnerInv ==
  ASSUME IInv, NEW c \in CPUs, NEW l \in Lists, notify_inner(c, l)
  PROVE  IInv'
  <1>0. Shape /\ QueueOK(c) /\ CpuOK(c)
    BY DEF IInv
  <1>p. cpu[c].phase = "task" /\ waiting[l] # <<>>
    BY Zenon DEF notify_inner, At, Running
  <1> DEFINE w == waiting[l]
  <1>q. w \in Seq(WaitingListEntry) /\ \A i \in 1 .. Len(w) : home[w[i].task] = w[i].cpu
    BY Zenon DEF IInv, ListOK
  <1>t. /\ Head(w) \in WaitingListEntry /\ Tail(w) \in Seq(WaitingListEntry) /\ Len(w) \in Nat
        /\ Len(Tail(w)) = Len(w) - 1 /\ \A i \in 1 .. Len(w) - 1 : Tail(w)[i] = w[i + 1]
        /\ Head(w) = w[1] /\ 1 \in 1 .. Len(w)
    BY <1>p, <1>q, TailFacts, Zenon
  <1>g. home[Head(w).task] = Head(w).cpu /\ home' = home
    BY <1>t, <1>q, Zenon DEF notify_inner
  <1>1. Shape'
    BY <1>0, Zenon DEF Shape, notify_inner, At, Running
  <1>2. HomeKept
    BY Zenon DEF HomeKept, notify_inner, At, Running
  <1>3. ASSUME NEW d \in CPUs
        PROVE  QueueOK(d)'
    <2>1. state'[d] = state[d] /\ ticks'[d] = ticks[d] /\ tick'[d] = tick[d]
      BY Zenon DEF notify_inner, At, Running
    <2> QED BY <2>1, <1>2, QueueSame DEF IInv
  <1>4. ASSUME NEW d \in CPUs
        PROVE  CpuOK(d)'
    <2>1. CASE d # c
      <3>1. cpu'[d] = cpu[d]
        BY <2>1, <1>0, Zenon DEF Shape, notify_inner, At, Running
      <3> QED BY <3>1, <1>2, CpuSame DEF IInv
    <2>2. CASE d = c
      <3>1. cpu'[c] = [cpu[c] EXCEPT !.phase = "notify", !.entry = Head(w)]
        BY <1>0, Zenon DEF Shape, notify_inner, At, Running
      <3>2. cpu[c] \in CPUState
        BY <1>0, Zenon DEF CpuOK
      <3>3. /\ cpu'[c].phase = "notify"
            /\ cpu'[c].current = cpu[c].current
            /\ cpu'[c].executing = cpu[c].executing
            /\ cpu'[c].task = cpu[c].task
            /\ cpu'[c].command = cpu[c].command
            /\ cpu'[c].entry = Head(w)
            /\ cpu'[c].stack = cpu[c].stack
        BY <3>1, <3>2, Zenon DEF CPUState
      <3>4. cpu'[c] \in CPUState
        BY <3>1, <3>2, <1>0, <1>p, <1>t, <1>g, Zenon DEF CpuOK, CPUState, Phases
      <3>5. cpu[c].entry \in WaitingListEntry => cpu[c].entry.task \in Tasks /\ cpu[c].entry.cpu \in CPUs
        BY Zenon DEF WaitingListEntry
      <3>6. cpu[c].entry # None => cpu[c].entry \in WaitingListEntry
        BY <3>2, Zenon DEF CPUState
      <3> QED BY <2>2, <3>3, <3>4, <3>5, <3>6, <1>0, <1>2, <1>p, <1>t, <1>g, Zenon DEF CpuOK, HomeKept
    <2> QED BY <2>1, <2>2
  <1>5. ASSUME NEW k \in Lists
        PROVE  ListOK(k)'
    <2>1. CASE k # l
      <3>1. waiting'[k] = waiting[k]
        BY <2>1, <1>0, Zenon DEF Shape, notify_inner, At, Running
      <3> QED BY <3>1, <1>2, ListSame DEF IInv
    <2>2. CASE k = l
      <3>1. waiting'[k] = Tail(w) /\ home' = home
        BY <2>2, <1>0, Zenon DEF Shape, notify_inner, At, Running
      <3> HIDE DEF w
      <3>2. \A i \in 1 .. Len(Tail(w)) : home[Tail(w)[i].task] = Tail(w)[i].cpu
        BY <1>t, <1>q
      <3> QED BY <3>1, <3>2, <1>t, Zenon DEF ListOK
    <2> QED BY <2>1, <2>2, Zenon
  <1> QED BY <1>1, <1>3, <1>4, <1>5, Together

LEMMA PushTaskToInv ==
  ASSUME IInv, NEW c \in CPUs, push_task_to(c)
  PROVE  IInv'
  <1>0. Shape /\ QueueOK(c) /\ CpuOK(c)
    BY DEF IInv
  <1>p. cpu[c].phase = "notify"
    BY Zenon DEF push_task_to, At, PushTo
  <1> DEFINE e == cpu[c].entry
  <1>t. e.task \in Tasks /\ e.cpu \in CPUs /\ home[e.task] = e.cpu
    BY <1>0, <1>p, Zenon DEF CpuOK, WaitingListEntry
  <1>1. Shape'
    BY <1>0, <1>t, Zenon DEF Shape, push_task_to, At, PushTo
  <1>2. HomeKept
    BY Zenon DEF HomeKept, push_task_to, At, PushTo
  <1>3. ASSUME NEW d \in CPUs
        PROVE  QueueOK(d)'
    <2>1. CASE d # e.cpu
      <3>1. state'[d] = state[d] /\ ticks'[d] = ticks[d] /\ tick'[d] = tick[d]
        BY <2>1, <1>0, <1>t, Zenon DEF Shape, push_task_to, At, PushTo
      <3> QED BY <3>1, <1>2, QueueSame DEF IInv
    <2>2. CASE d = e.cpu
      <3>1. /\ state'[e.cpu] = [state[e.cpu] EXCEPT !.run_queue = Append(@, e.task)]
            /\ ticks'[e.cpu] = ticks[e.cpu] /\ tick'[e.cpu] = tick[e.cpu] /\ home' = home
        BY <1>0, <1>t, Zenon DEF Shape, push_task_to, At, PushTo
      <3>2. QueueOK(e.cpu)
        BY <1>t, Zenon DEF IInv
      <3> HIDE DEF e
      <3> QED BY <2>2, <3>1, <3>2, <1>2, <1>t, QueuePush, Zenon
    <2> QED BY <2>1, <2>2, Zenon
  <1>4. ASSUME NEW d \in CPUs
        PROVE  CpuOK(d)'
    <2>1. CASE d # c
      <3>1. cpu'[d] = cpu[d]
        BY <2>1, <1>0, <1>t, Zenon DEF Shape, push_task_to, At, PushTo
      <3> QED BY <3>1, <1>2, CpuSame DEF IInv
    <2>2. CASE d = c
      <3>1. cpu'[c] = [cpu[c] EXCEPT !.phase = "task", !.entry = None]
        BY <1>0, Zenon DEF Shape, push_task_to, At, PushTo
      <3>2. cpu[c] \in CPUState
        BY <1>0 DEF CpuOK
      <3>3. /\ cpu'[c].phase = "task"
            /\ cpu'[c].current = cpu[c].current
            /\ cpu'[c].executing = cpu[c].executing
            /\ cpu'[c].task = cpu[c].task
            /\ cpu'[c].command = cpu[c].command
            /\ cpu'[c].entry = None
            /\ cpu'[c].stack = cpu[c].stack
        BY <3>1, <3>2, Zenon DEF CPUState
      <3>4. cpu'[c] \in CPUState
        BY <3>1, <3>2, <1>0, <1>p, ConstantsAssumption, Zenon DEF CpuOK, CPUState, Phases
      <3>5. cpu[c].entry \in WaitingListEntry => cpu[c].entry.task \in Tasks /\ cpu[c].entry.cpu \in CPUs
        BY DEF WaitingListEntry
      <3>6. cpu[c].entry # None => cpu[c].entry \in WaitingListEntry
        BY <3>2 DEF CPUState
      <3> QED BY <2>2, <3>3, <3>4, <3>5, <3>6, <1>0, <1>2, <1>p, ConstantsAssumption DEF CpuOK, HomeKept
    <2> QED BY <2>1, <2>2
  <1>5. ASSUME NEW k \in Lists
        PROVE  ListOK(k)'
    <2>1. waiting'[k] = waiting[k]
      BY Zenon DEF push_task_to, At, PushTo
    <2> QED BY <2>1, <1>2, ListSame DEF IInv
  <1> QED BY <1>1, <1>3, <1>4, <1>5, Together

LEMMA TickEntryInv ==
  ASSUME IInv, NEW c \in CPUs, TickEntry(c)
  PROVE  IInv'
  <1>0. Shape /\ QueueOK(c) /\ CpuOK(c)
    BY DEF IInv
  <1>p. tick[c] > 1
    BY Zenon DEF TickEntry
  <1>1. Shape'
    BY <1>0, Zenon DEF Shape, TickEntry
  <1>2. HomeKept
    BY Zenon DEF HomeKept, TickEntry
  <1>3. ASSUME NEW d \in CPUs
        PROVE  QueueOK(d)'
    <2>1. CASE d # c
      <3>1. state'[d] = state[d] /\ ticks'[d] = ticks[d] /\ tick'[d] = tick[d]
        BY <2>1, <1>0, Zenon DEF Shape, TickEntry
      <3> QED BY <3>1, <1>2, QueueSame DEF IInv
    <2>2. CASE d = c
      <3> DEFINE s == state[c].sleeping
                 i == tick[c] - 1
      <3>1. state[c] \in SchedulerState /\ s \in Seq(Sleeper) /\ tick[c] \in Nat /\ ticks[c] \in Nat
        BY <1>0, Zenon DEF QueueOK, SchedulerState
      <3>2. i \in 1 .. Len(s) /\ tick[c] = i + 1
        BY <1>0, <1>p, <3>1 DEF QueueOK
      <3>3. tick'[c] = i /\ ticks'[c] = ticks[c] /\ home' = home
        BY <1>0, Zenon DEF Shape, TickEntry
      <3>4. \A j \in 1 .. Len(s) : /\ home[s[j].task] = c
                                   /\ j > i => s[j].wake_at > ticks[c]
        BY <1>0, <3>1, <3>2 DEF QueueOK
      <3>5. s[i].task \in Tasks /\ s[i].wake_at \in Nat
        BY <3>1, <3>2, SleeperFields, Zenon
      <3>6. CASE ~(s[i].wake_at <= ticks[c])
        <4>1. state'[c] = state[c]
          BY <3>6, Zenon DEF TickEntry
        <4> HIDE DEF s, i
        <4>2. \A j \in 1 .. Len(s) : j >= i => s[j].wake_at > ticks[c]
          BY <3>4, <3>5, <3>6, <3>1, <3>2
        <4>3. \A j \in 1 .. Len(s) : /\ i # 0
                                     /\ i \in 1 .. j => s[j].wake_at > ticks[c]
          BY <4>2, <3>2
        <4>4. i <= Len(s) + 1 /\ i \in Nat
          BY <3>1, <3>2
        <4> QED BY <2>2, <4>1, <4>3, <4>4, <3>3, <1>0, Zenon DEF QueueOK, s
      <3>7. CASE s[i].wake_at <= ticks[c]
        <4> DEFINE r == swap_remove_back(s, i)
        <4>1. state'[c] = [state[c] EXCEPT !.sleeping = r, !.run_queue = Append(@, s[i].task)]
          BY <3>7, <1>0, Zenon DEF Shape, TickEntry
        <4> HIDE DEF i, s
        <4>2. /\ r \in Seq(Sleeper) /\ Len(r) = Len(s) - 1 /\ Len(s) \in Nat
              /\ \A j \in 1 .. Len(s) - 1 : r[j] = IF j = i THEN s[Len(s)] ELSE s[j]
          BY <3>1, <3>2, SwapRemoveFacts, Zenon
        <4> USE DEF s
        <4> DEFINE q == state[c].run_queue
        <4>q. q \in Seq(Tasks) /\ \A j \in 1 .. Len(q) : home[q[j]] = c
          BY <1>0, Zenon DEF QueueOK, SchedulerState
        <4>a. Append(q, s[i].task) \in Seq(Tasks)
          BY <4>q, <3>5, AppendFacts, Zenon
        <4> HIDE DEF r
        <4>3. /\ state'[c] \in SchedulerState /\ state'[c].sleeping = r
              /\ state'[c].run_queue = Append(q, s[i].task)
          BY <4>1, <4>2, <4>a, <3>1, Zenon DEF SchedulerState
        <4> HIDE DEF s, q
        <4>4. \A j \in 1 .. Len(r) : /\ home[r[j].task] = c
                                     /\ j >= i => r[j].wake_at > ticks[c]
          <5> SUFFICES ASSUME NEW j \in 1 .. Len(r)
                       PROVE  /\ home[r[j].task] = c
                              /\ j >= i => r[j].wake_at > ticks[c]
            BY Zenon
          <5>1. CASE j = i
            BY <5>1, <4>2, <3>2, <3>4
          <5>2. CASE j # i
            BY <5>2, <4>2, <3>2, <3>4
          <5> QED BY <5>1, <5>2, Zenon
        <4>5. \A j \in 1 .. Len(r) : /\ i # 0
                                     /\ i \in 1 .. j => r[j].wake_at > ticks[c]
          BY <4>4, <4>2, <3>2, SMTT(30)
        <4>6. i <= Len(r) + 1 /\ i \in Nat
          BY <4>2, <3>2
        <4>7. \A j \in 1 .. Len(Append(q, s[i].task)) : home[Append(q, s[i].task)[j]] = c
          BY <4>q, <3>2, <3>4, <3>5, AppendFacts
        <4> QED BY <2>2, <4>3, <4>4, <4>5, <4>6, <4>7, <3>3, <3>1, Zenon DEF QueueOK
      <3> QED BY <3>6, <3>7, Zenon
    <2> QED BY <2>1, <2>2
  <1>4. ASSUME NEW d \in CPUs
        PROVE  CpuOK(d)'
    <2>1. cpu'[d] = cpu[d]
      BY Zenon DEF TickEntry
    <2> QED BY <2>1, <1>2, CpuSame DEF IInv
  <1>5. ASSUME NEW k \in Lists
        PROVE  ListOK(k)'
    <2>1. waiting'[k] = waiting[k]
      BY Zenon DEF TickEntry
    <2> QED BY <2>1, <1>2, ListSame DEF IInv
  <1> QED BY <1>1, <1>3, <1>4, <1>5, Together

LEMMA InitInv ==
  ASSUME Init
  PROVE  IInv
  <1> USE DEF Init
  <1>1. Shape
    BY Zenon DEF Shape
  <1>2. ASSUME NEW c \in CPUs
        PROVE  QueueOK(c)
    <2>1. state[c] = [run_queue |-> <<>>, sleeping |-> <<>>, deferred_drop |-> <<>>]
      BY Zenon
    <2>2. state[c] \in SchedulerState /\ state[c].run_queue = <<>> /\ state[c].sleeping = <<>>
      BY <2>1 DEF SchedulerState
    <2> QED BY <2>2 DEF QueueOK
  <1>3. ASSUME NEW c \in CPUs
        PROVE  CpuOK(c)
    <2>1. PushBack \in SchedulerCommand /\ PushBack.op = "PushBack"
      BY Zenon DEF PushBack, SchedulerCommand
    <2>2. /\ cpu[c].phase = "boot" /\ cpu[c].current = None /\ cpu[c].task = None
          /\ cpu[c].command = PushBack /\ cpu[c].entry = None /\ cpu[c].stack = None
          /\ cpu[c] \in CPUState
      BY <2>1, Zenon DEF CPUState, Phases
    <2> QED BY <2>1, <2>2, ConstantsAssumption, Zenon DEF CpuOK
  <1>4. ASSUME NEW l \in Lists
        PROVE  ListOK(l)
    BY DEF ListOK
  <1> QED BY <1>1, <1>2, <1>3, <1>4, Zenon DEF IInv

LEMMA TaskYieldsInv ==
  ASSUME IInv, NEW c \in CPUs, TaskYields(c)
  PROVE  IInv'
  <1>1. PushBack \in SchedulerCommand /\ PushBack.op # "PushToWaitingList"
    BY Zenon DEF PushBack, SchedulerCommand
  <1>2. Terminate \in SchedulerCommand /\ Terminate.op # "PushToWaitingList"
    BY Zenon DEF Terminate, SchedulerCommand
  <1>3. \A n \in Nat : SleepNTicks(n) \in SchedulerCommand /\ SleepNTicks(n).op # "PushToWaitingList"
    BY Zenon DEF SleepNTicks, SchedulerCommand
  <1>4. \A l \in Lists : PushToWaitingList(l) \in SchedulerCommand /\ PushToWaitingList(l).list \in Lists
    BY Zenon DEF PushToWaitingList, SchedulerCommand
  <1>5. CASE yield_to_scheduler(c, PushBack)
    BY <1>1, <1>5, YieldInv, Zenon
  <1>6. CASE yield_to_scheduler(c, Terminate)
    BY <1>2, <1>6, YieldInv, Zenon
  <1>7. CASE \E n \in 0 .. MAX_SLEEP : yield_to_scheduler(c, SleepNTicks(n))
    <2>1. PICK n \in 0 .. MAX_SLEEP : yield_to_scheduler(c, SleepNTicks(n))
      BY <1>7, Zenon
    <2>2. n \in Nat
      BY ConstantsAssumption
    <2> QED BY <1>3, <2>1, <2>2, YieldInv, Zenon
  <1>8. CASE \E l \in Lists : wait_inner(c, l)
    <2>1. PICK l \in Lists : yield_to_scheduler(c, PushToWaitingList(l))
      BY <1>8, Zenon DEF wait_inner
    <2> QED BY <1>4, <2>1, YieldInv, Zenon
  <1> QED BY <1>5, <1>6, <1>7, <1>8, Zenon DEF TaskYields

LEMMA StutterInv ==
  ASSUME IInv, UNCHANGED vars
  PROVE  IInv'
  <1>1. HomeKept /\ Shape'
    BY Zenon DEF HomeKept, vars, IInv, Shape
  <1>2. ASSUME NEW c \in CPUs
        PROVE  QueueOK(c)' /\ CpuOK(c)'
    BY <1>1, QueueSame, CpuSame, Zenon DEF IInv, vars
  <1>3. ASSUME NEW l \in Lists
        PROVE  ListOK(l)'
    BY <1>1, ListSame, Zenon DEF IInv, vars
  <1> QED BY <1>1, <1>2, <1>3, Together, Zenon

LEMMA NextInv ==
  ASSUME IInv, [Next]_vars
  PROVE  IInv'
  <1>1. ASSUME NEW c \in CPUs, CPUStep(c)
        PROVE  IInv'
    BY <1>1, ScheduleInv, FileTerminateInv, FileSleepInv, FileWaitInv, FilePushBackInv,
       UnlockStateInv, PickNextInv, ResumeInv, Zenon DEF CPUStep
  <1>2. ASSUME NEW c \in CPUs, TickStep(c)
        PROVE  IInv'
    BY <1>2, TickInv, TickEntryInv, TickDoneInv, Zenon DEF TickStep
  <1>3. ASSUME NEW c \in CPUs, NEW t \in Tasks, init_scheduler(c, t) \/ push_task(c, t)
        PROVE  IInv'
    BY <1>3, InitSchedulerInv, PushTaskInv, Zenon
  <1>4. ASSUME NEW c \in CPUs, NEW l \in Lists,
               LockList(c, l) \/ UnlockList(c, l) \/ notify_inner(c, l)
        PROVE  IInv'
    BY <1>4, LockListInv, UnlockListInv, NotifyInnerInv, Zenon
  <1>5. CASE UNCHANGED vars
    BY <1>5, StutterInv, Zenon
  <1> QED BY <1>1, <1>2, <1>3, <1>4, <1>5, TaskYieldsInv, PushTaskToInv, Zenon DEF Next

THEOREM Invariance == Spec => []IInv
  <1>1. Init => IInv
    BY InitInv, Zenon
  <1>2. IInv /\ [Next]_vars => IInv'
    BY NextInv, Zenon
  <1> QED BY <1>1, <1>2, PTL DEF Spec

(***************************************************************************)
(* Types: what the scheduler files, pops and hands over is always a task,  *)
(* and yield_to_scheduler's locals are set in each phase that reads them.  *)
(***************************************************************************)
THEOREM TypeCorrect == Spec => []TypeOK
  <1>1. IInv => TypeOK
    BY Types, Zenon
  <1> QED BY <1>1, Invariance, PTL

\* A task is filed, woken and resumed only on the CPU it was created on.
THEOREM AffinityHolds == Spec => []Affinity
  <1>1. IInv => Affinity
    BY Homes, Zenon
  <1> QED BY <1>1, Invariance, PTL

(***************************************************************************)
(* Two CPUs never run on one stack, although a task can be notified while  *)
(* schedule() still runs on its stack.                                     *)
(***************************************************************************)
THEOREM NoSharedStackHolds == Spec => []NoSharedStack
  <1>1. IInv => NoSharedStack
    BY Exclusive
  <1> QED BY <1>1, Invariance, PTL

\* The loop of _scheduler_tick skips no expired entry while it removes others.
THEOREM NoOversleepHolds == Spec => []NoOversleep
  <1>1. IInv => NoOversleep
    BY OnTime
  <1> QED BY <1>1, Invariance, PTL

-----------------------------------------------------------------------------
(***************************************************************************)
(* The places: a task is in exactly one until it is dropped, and no CPU    *)
(* runs on a stack that a drop freed.                                      *)
(*                                                                         *)
(* OnePlace is inductive with the locals that each phase leaves empty      *)
(* (PhaseOK): a place is overwritten only when it holds nothing.  Each     *)
(* action moves one task from one place to another, and removals renumber  *)
(* the places behind.  StackAlive adds that deferred_drop holds tasks of   *)
(* its own CPU, whose stack is in use by the task it is about to file.     *)
(***************************************************************************)

(* The places of a task, by kind. *)

InRun(t, c, i) ==
  c \in CPUs /\ i \in 1 .. Len(state[c].run_queue) /\ state[c].run_queue[i] = t
InSleeping(t, c, i) ==
  c \in CPUs /\ i \in 1 .. Len(state[c].sleeping) /\ state[c].sleeping[i].task = t
InDeferred(t, c, i) ==
  c \in CPUs /\ i \in 1 .. Len(state[c].deferred_drop) /\ state[c].deferred_drop[i] = t
InWaiting(t, l, i) ==
  l \in Lists /\ i \in 1 .. Len(waiting[l]) /\ waiting[l][i].task = t
IsCurrent(t, c) == c \in CPUs /\ cpu[c].current = t
IsLocal(t, c) == c \in CPUs /\ cpu[c].task = t
IsEntry(t, c) == c \in CPUs /\ cpu[c].entry # None /\ cpu[c].entry.task = t

\* Place i of kind k, of CPU or list x, holds t.
Holds(t, k, x, i) ==
  \/ k = "run" /\ InRun(t, x, i)
  \/ k = "sleeping" /\ InSleeping(t, x, i)
  \/ k = "deferred" /\ InDeferred(t, x, i)
  \/ k = "waiting" /\ InWaiting(t, x, i)
  \/ k = "current" /\ i = 0 /\ IsCurrent(t, x)
  \/ k = "local" /\ i = 0 /\ IsLocal(t, x)
  \/ k = "entry" /\ i = 0 /\ IsEntry(t, x)

Live(t) == home[t] # None /\ t \notin dropped

One(t) ==
  /\ t \in dropped => home[t] # None
  /\ Live(t) => \E k, x, i : Holds(t, k, x, i)
  /\ \A k, x, i : Holds(t, k, x, i) => Live(t)
  /\ \A k, x, i, k2, x2, i2 :
       Holds(t, k, x, i) /\ Holds(t, k2, x2, i2) => k = k2 /\ x = x2 /\ i = i2

\* What a phase leaves empty, and whose stack it is on.
CpuPhase(c) ==
  /\ cpu[c].phase \notin {"task", "notify"} => cpu[c].current = None
  /\ cpu[c].phase \notin {"schedule", "locked", "resume"} => cpu[c].task = None
  /\ cpu[c].phase # "notify" => cpu[c].entry = None
  /\ cpu[c].phase \in {"task", "notify"} => cpu[c].stack = cpu[c].current
  /\ cpu[c].phase \in {"schedule", "locked"} => cpu[c].stack = cpu[c].task
  /\ cpu[c].stack \notin dropped

DeferredHome(c) ==
  \A i \in 1 .. Len(state[c].deferred_drop) : home[state[c].deferred_drop[i]] = c

PInv ==
  /\ \A t \in Tasks : One(t)
  /\ \A c \in CPUs : CpuPhase(c) /\ DeferredHome(c)

(* The invariant implies what it is for. *)

LEMMA HeldAt ==
  ASSUME TypeOK, NEW t \in Tasks, NEW h
  PROVE  h \in Held /\ h.task = t
         <=> \E k, x, i : h = [at |-> <<k, x, i>>, task |-> t] /\ Holds(t, k, x, i)
  <1> DEFINE A(c) == {[at |-> <<"run", c, i>>, task |-> state[c].run_queue[i]] : i \in DOMAIN state[c].run_queue}
  <1> DEFINE B(c) == {[at |-> <<"sleeping", c, i>>, task |-> state[c].sleeping[i].task] : i \in DOMAIN state[c].sleeping}
  <1> DEFINE D(c) == {[at |-> <<"deferred", c, i>>, task |-> state[c].deferred_drop[i]] : i \in DOMAIN state[c].deferred_drop}
  <1> DEFINE C(c) == {[at |-> <<"current", c, 0>>, task |-> cpu[c].current], [at |-> <<"local", c, 0>>, task |-> cpu[c].task]}
  <1> DEFINE E(c) == {[at |-> <<"entry", c, 0>>, task |-> cpu[c].entry.task] : x \in {cpu[c].entry} \ {None}}
  <1> DEFINE W(l) == {[at |-> <<"waiting", l, i>>, task |-> waiting[l][i].task] : i \in DOMAIN waiting[l]}
  <1> DEFINE P(k, x, i) == h = [at |-> <<k, x, i>>, task |-> t]
  <1> DEFINE F(c) == A(c) \cup B(c) \cup D(c) \cup C(c) \cup E(c)
  <1>0. Held = (UNION {F(c) : c \in CPUs}) \cup (UNION {W(l) : l \in Lists})
    BY Zenon DEF Held
  <1>d. ASSUME NEW c \in CPUs
        PROVE  /\ DOMAIN state[c].run_queue = 1 .. Len(state[c].run_queue)
               /\ DOMAIN state[c].sleeping = 1 .. Len(state[c].sleeping)
               /\ DOMAIN state[c].deferred_drop = 1 .. Len(state[c].deferred_drop)
    BY DEF TypeOK, SchedulerState
  <1>1. ASSUME NEW c \in CPUs
        PROVE  h \in A(c) /\ h.task = t <=> \E i : P("run", c, i) /\ InRun(t, c, i)
    BY <1>d DEF InRun
  <1>2. ASSUME NEW c \in CPUs
        PROVE  h \in B(c) /\ h.task = t <=> \E i : P("sleeping", c, i) /\ InSleeping(t, c, i)
    BY <1>d DEF InSleeping
  <1>3. ASSUME NEW c \in CPUs
        PROVE  h \in D(c) /\ h.task = t <=> \E i : P("deferred", c, i) /\ InDeferred(t, c, i)
    BY <1>d DEF InDeferred
  <1>4. ASSUME NEW c \in CPUs
        PROVE  h \in C(c) /\ h.task = t
               <=> (P("current", c, 0) /\ IsCurrent(t, c)) \/ (P("local", c, 0) /\ IsLocal(t, c))
    <2>1. h \in C(c) <=> \/ h = [at |-> <<"current", c, 0>>, task |-> cpu[c].current]
                         \/ h = [at |-> <<"local", c, 0>>, task |-> cpu[c].task]
      BY Zenon
    <2> QED BY <2>1 DEF IsCurrent, IsLocal
  <1>5. ASSUME NEW c \in CPUs
        PROVE  h \in E(c) /\ h.task = t <=> P("entry", c, 0) /\ IsEntry(t, c)
    BY DEF IsEntry
  <1>6. ASSUME NEW l \in Lists
        PROVE  h \in W(l) /\ h.task = t <=> \E i : P("waiting", l, i) /\ InWaiting(t, l, i)
    <2>1. DOMAIN waiting[l] = 1 .. Len(waiting[l])
      BY DEF TypeOK
    <2> QED BY <2>1 DEF InWaiting
  <1>g. \A c : h \in F(c) <=> h \in A(c) \/ h \in B(c) \/ h \in D(c) \/ h \in C(c) \/ h \in E(c)
    BY Zenon
  <1> HIDE DEF A, B, C, D, E, F, W, P
  <1>h. h \in Held <=> (\E c \in CPUs : h \in F(c)) \/ (\E l \in Lists : h \in W(l))
    <2>1. h \in UNION {F(c) : c \in CPUs} <=> \E c \in CPUs : h \in F(c)
      BY Zenon
    <2>2. h \in UNION {W(l) : l \in Lists} <=> \E l \in Lists : h \in W(l)
      BY Zenon
    <2>3. h \in Held <=> h \in UNION {F(c) : c \in CPUs} \/ h \in UNION {W(l) : l \in Lists}
      BY <1>0, Zenon
    <2> QED BY <2>1, <2>2, <2>3, Zenon
  <1>7. (\E k, x, i : P(k, x, i) /\ Holds(t, k, x, i))
        <=> \/ \E x, i : P("run", x, i) /\ InRun(t, x, i)
            \/ \E x, i : P("sleeping", x, i) /\ InSleeping(t, x, i)
            \/ \E x, i : P("deferred", x, i) /\ InDeferred(t, x, i)
            \/ \E x, i : P("waiting", x, i) /\ InWaiting(t, x, i)
            \/ \E x : P("current", x, 0) /\ IsCurrent(t, x)
            \/ \E x : P("local", x, 0) /\ IsLocal(t, x)
            \/ \E x : P("entry", x, 0) /\ IsEntry(t, x)
    BY Zenon DEF Holds
  <1>8. /\ \A x, i : InRun(t, x, i) => x \in CPUs
        /\ \A x, i : InSleeping(t, x, i) => x \in CPUs
        /\ \A x, i : InDeferred(t, x, i) => x \in CPUs
        /\ \A x, i : InWaiting(t, x, i) => x \in Lists
        /\ \A x : IsCurrent(t, x) => x \in CPUs
        /\ \A x : IsLocal(t, x) => x \in CPUs
        /\ \A x : IsEntry(t, x) => x \in CPUs
    BY Zenon DEF InRun, InSleeping, InDeferred, InWaiting, IsCurrent, IsLocal, IsEntry
  <1>9. h \in Held /\ h.task = t <=> \E k, x, i : P(k, x, i) /\ Holds(t, k, x, i)
    BY <1>g, <1>h, <1>1, <1>2, <1>3, <1>4, <1>5, <1>6, <1>7, <1>8, Zenon
  <1> QED BY <1>9, Zenon DEF P

LEMMA Places ==
  ASSUME TypeOK, \A t \in Tasks : One(t)
  PROVE  OnePlace
  <1> SUFFICES ASSUME NEW t \in Tasks
               PROVE  IF home[t] = None \/ t \in dropped
                      THEN {h \in Held : h.task = t} = {}
                      ELSE \E h \in {g \in Held : g.task = t} : {g \in Held : g.task = t} = {h}
    BY Zenon DEF OnePlace
  <1> DEFINE at == {h \in Held : h.task = t}
  <1>1. \A h : h \in at <=> \E k, x, i : h = [at |-> <<k, x, i>>, task |-> t] /\ Holds(t, k, x, i)
    BY HeldAt, Zenon
  <1>2. One(t)
    BY Zenon
  <1> HIDE DEF at
  <1>3. CASE ~Live(t)
    <2>1. at = {}
      BY <1>1, <1>2, <1>3, Zenon DEF One
    <2> QED BY <2>1, <1>3, Zenon DEF Live, at
  <1>4. CASE Live(t)
    <2>1. PICK k, x, i : Holds(t, k, x, i)
      BY <1>2, <1>4, Zenon DEF One
    <2> DEFINE h == [at |-> <<k, x, i>>, task |-> t]
    <2>2. h \in at
      BY <1>1, <2>1, Zenon
    <2>3. ASSUME NEW g \in at
          PROVE  g = h
      <3>1. PICK k2, x2, i2 : g = [at |-> <<k2, x2, i2>>, task |-> t] /\ Holds(t, k2, x2, i2)
        BY <1>1, Zenon
      <3> QED BY <1>2, <2>1, <3>1, Zenon DEF One
    <2> HIDE DEF h
    <2>4. at = {h}
      BY <2>2, <2>3, Zenon
    <2> QED BY <2>2, <2>4, <1>4, Zenon DEF Live, at
  <1> QED BY <1>3, <1>4, Zenon
(* What a step does to the places of one kind. *)

RunSame == \A t, x, i : InRun(t, x, i)' <=> InRun(t, x, i)
SleepingSame == \A t, x, i : InSleeping(t, x, i)' <=> InSleeping(t, x, i)
DeferredSame == \A t, x, i : InDeferred(t, x, i)' <=> InDeferred(t, x, i)
WaitingSame == \A t, x, i : InWaiting(t, x, i)' <=> InWaiting(t, x, i)
CurrentSame == \A t, x : IsCurrent(t, x)' <=> IsCurrent(t, x)
LocalSame == \A t, x : IsLocal(t, x)' <=> IsLocal(t, x)
EntrySame == \A t, x : IsEntry(t, x)' <=> IsEntry(t, x)

LEMMA StateSame ==
  ASSUME state' = state
  PROVE  RunSame /\ SleepingSame /\ DeferredSame
  BY Zenon DEF RunSame, SleepingSame, DeferredSame, InRun, InSleeping, InDeferred

LEMMA WaitSame ==
  ASSUME waiting' = waiting
  PROVE  WaitingSame
  BY Zenon DEF WaitingSame, InWaiting

LEMMA CpuPlacesSame ==
  ASSUME cpu' = cpu
  PROVE  CurrentSame /\ LocalSame /\ EntrySame
  BY Zenon DEF CurrentSame, LocalSame, EntrySame, IsCurrent, IsLocal, IsEntry

\* A field of state[c] that the step leaves alone.
LEMMA FieldSame ==
  ASSUME NEW c \in CPUs, \A d \in CPUs \ {c} : state'[d] = state[d]
  PROVE  /\ state'[c].run_queue = state[c].run_queue => RunSame
         /\ state'[c].sleeping = state[c].sleeping => SleepingSame
         /\ state'[c].deferred_drop = state[c].deferred_drop => DeferredSame
  <1>1. ASSUME state'[c].run_queue = state[c].run_queue
        PROVE  RunSame
    <2>1. \A d \in CPUs : state'[d].run_queue = state[d].run_queue
      BY <1>1, Zenon
    <2> QED BY <2>1, Zenon DEF RunSame, InRun
  <1>2. ASSUME state'[c].sleeping = state[c].sleeping
        PROVE  SleepingSame
    <2>1. \A d \in CPUs : state'[d].sleeping = state[d].sleeping
      BY <1>2, Zenon
    <2> QED BY <2>1, Zenon DEF SleepingSame, InSleeping
  <1>3. ASSUME state'[c].deferred_drop = state[c].deferred_drop
        PROVE  DeferredSame
    <2>1. \A d \in CPUs : state'[d].deferred_drop = state[d].deferred_drop
      BY <1>3, Zenon
    <2> QED BY <2>1, Zenon DEF DeferredSame, InDeferred
  <1> QED BY <1>1, <1>2, <1>3, Zenon

\* A task at the end of a run queue.
LEMMA RunAppended ==
  ASSUME NEW c \in CPUs, NEW t \in Tasks, state[c].run_queue \in Seq(Tasks),
         \A d \in CPUs \ {c} : state'[d] = state[d],
         state'[c].run_queue = Append(state[c].run_queue, t)
  PROVE  \A u, x, i : InRun(u, x, i)'
           <=> InRun(u, x, i) \/ (u = t /\ x = c /\ i = Len(state[c].run_queue) + 1)
  <1> DEFINE q == state[c].run_queue
  <1>1. /\ Len(Append(q, t)) = Len(q) + 1 /\ Len(q) \in Nat
        /\ \A i \in 1 .. Len(q) : Append(q, t)[i] = q[i]
        /\ Append(q, t)[Len(q) + 1] = t
    BY AppendFacts
  <1> SUFFICES ASSUME NEW u, NEW x, NEW i
               PROVE  InRun(u, x, i)' <=> InRun(u, x, i) \/ (u = t /\ x = c /\ i = Len(q) + 1)
    BY Zenon
  <1>2. CASE x = c
    <2>1. InRun(u, x, i)' <=> i \in 1 .. Len(q) + 1 /\ Append(q, t)[i] = u
      BY <1>1, <1>2, Zenon DEF InRun
    <2>2. InRun(u, x, i) <=> i \in 1 .. Len(q) /\ q[i] = u
      BY <1>2, Zenon DEF InRun
    <2> HIDE DEF q
    <2> QED BY <1>1, <1>2, <2>1, <2>2
  <1>3. CASE x # c
    BY <1>3, Zenon DEF InRun
  <1> QED BY <1>2, <1>3, Zenon

\* The first task of a run queue taken off.
LEMMA RunTail ==
  ASSUME NEW c \in CPUs, state[c].run_queue \in Seq(Tasks), state[c].run_queue # <<>>,
         \A d \in CPUs \ {c} : state'[d] = state[d],
         state'[c].run_queue = Tail(state[c].run_queue)
  PROVE  /\ \A u, x, i : x # c => (InRun(u, x, i)' <=> InRun(u, x, i))
         /\ \A u, i : InRun(u, c, i)' <=> i \in Nat \ {0} /\ InRun(u, c, i + 1)
  <1> DEFINE q == state[c].run_queue
  <1>1. /\ Len(Tail(q)) = Len(q) - 1 /\ Len(q) \in Nat
        /\ \A i \in 1 .. Len(q) - 1 : Tail(q)[i] = q[i + 1]
    BY TailFacts, Zenon
  <1>2. \A u, x, i : x # c => (InRun(u, x, i)' <=> InRun(u, x, i))
    BY Zenon DEF InRun
  <1>3. ASSUME NEW u, NEW i
        PROVE  InRun(u, c, i)' <=> i \in Nat \ {0} /\ InRun(u, c, i + 1)
    <2>1. InRun(u, c, i)' <=> i \in 1 .. Len(q) - 1 /\ Tail(q)[i] = u
      BY <1>1, Zenon DEF InRun
    <2>2. InRun(u, c, i + 1) <=> i + 1 \in 1 .. Len(q) /\ q[i + 1] = u
      BY Zenon DEF InRun
    <2> HIDE DEF q
    <2> QED BY <1>1, <2>1, <2>2
  <1> QED BY <1>2, <1>3, Zenon

\* A sleeper at the end of the list.
LEMMA SleepingAppended ==
  ASSUME NEW c \in CPUs, NEW s \in Sleeper, state[c].sleeping \in Seq(Sleeper),
         \A d \in CPUs \ {c} : state'[d] = state[d],
         state'[c].sleeping = Append(state[c].sleeping, s)
  PROVE  \A u, x, i : InSleeping(u, x, i)'
           <=> InSleeping(u, x, i) \/ (u = s.task /\ x = c /\ i = Len(state[c].sleeping) + 1)
  <1> DEFINE q == state[c].sleeping
  <1>1. /\ Len(Append(q, s)) = Len(q) + 1 /\ Len(q) \in Nat
        /\ \A i \in 1 .. Len(q) : Append(q, s)[i] = q[i]
        /\ Append(q, s)[Len(q) + 1] = s
    BY AppendFacts
  <1> SUFFICES ASSUME NEW u, NEW x, NEW i
               PROVE  InSleeping(u, x, i)'
                        <=> InSleeping(u, x, i) \/ (u = s.task /\ x = c /\ i = Len(q) + 1)
    BY Zenon
  <1>2. CASE x = c
    <2>1. InSleeping(u, x, i)' <=> i \in 1 .. Len(q) + 1 /\ Append(q, s)[i].task = u
      BY <1>1, <1>2, Zenon DEF InSleeping
    <2>2. InSleeping(u, x, i) <=> i \in 1 .. Len(q) /\ q[i].task = u
      BY <1>2, Zenon DEF InSleeping
    <2> HIDE DEF q
    <2> QED BY <1>1, <1>2, <2>1, <2>2
  <1>3. CASE x # c
    BY <1>3, Zenon DEF InSleeping
  <1> QED BY <1>2, <1>3, Zenon

\* Sleeper n removed, and the last one in its place.
LEMMA SleepingSwapped ==
  ASSUME NEW c \in CPUs, state[c].sleeping \in Seq(Sleeper), NEW n \in 1 .. Len(state[c].sleeping),
         \A d \in CPUs \ {c} : state'[d] = state[d],
         state'[c].sleeping = swap_remove_back(state[c].sleeping, n)
  PROVE  /\ \A u, x, i : x # c => (InSleeping(u, x, i)' <=> InSleeping(u, x, i))
         /\ \A u, i : InSleeping(u, c, i)'
              <=> /\ i \in 1 .. Len(state[c].sleeping) - 1
                  /\ InSleeping(u, c, IF i = n THEN Len(state[c].sleeping) ELSE i)
  <1> DEFINE q == state[c].sleeping
             r == swap_remove_back(q, n)
  <1>1. /\ Len(r) = Len(q) - 1 /\ Len(q) \in Nat
        /\ \A j \in 1 .. Len(q) - 1 : r[j] = IF j = n THEN q[Len(q)] ELSE q[j]
    BY DEF swap_remove_back
  <1>2. \A u, x, i : x # c => (InSleeping(u, x, i)' <=> InSleeping(u, x, i))
    BY Zenon DEF InSleeping
  <1>3. ASSUME NEW u, NEW i
        PROVE  InSleeping(u, c, i)'
                 <=> i \in 1 .. Len(q) - 1 /\ InSleeping(u, c, IF i = n THEN Len(q) ELSE i)
    <2>1. InSleeping(u, c, i)' <=> i \in 1 .. Len(r) /\ r[i].task = u
      BY Zenon DEF InSleeping
    <2>2. \A j : InSleeping(u, c, j) <=> j \in 1 .. Len(q) /\ q[j].task = u
      BY Zenon DEF InSleeping
    <2> HIDE DEF q, r
    <2> QED BY <1>1, <2>1, <2>2
  <1> QED BY <1>2, <1>3, Zenon

\* An entry at the end of a waiting list.
LEMMA WaitingAppended ==
  ASSUME NEW l \in Lists, NEW e \in WaitingListEntry, waiting[l] \in Seq(WaitingListEntry),
         \A m \in Lists \ {l} : waiting'[m] = waiting[m],
         waiting'[l] = Append(waiting[l], e)
  PROVE  \A u, x, i : InWaiting(u, x, i)'
           <=> InWaiting(u, x, i) \/ (u = e.task /\ x = l /\ i = Len(waiting[l]) + 1)
  <1> DEFINE q == waiting[l]
  <1>1. /\ Len(Append(q, e)) = Len(q) + 1 /\ Len(q) \in Nat
        /\ \A i \in 1 .. Len(q) : Append(q, e)[i] = q[i]
        /\ Append(q, e)[Len(q) + 1] = e
    BY AppendFacts
  <1> SUFFICES ASSUME NEW u, NEW x, NEW i
               PROVE  InWaiting(u, x, i)'
                        <=> InWaiting(u, x, i) \/ (u = e.task /\ x = l /\ i = Len(q) + 1)
    BY Zenon
  <1>2. CASE x = l
    <2>1. InWaiting(u, x, i)' <=> i \in 1 .. Len(q) + 1 /\ Append(q, e)[i].task = u
      BY <1>1, <1>2, Zenon DEF InWaiting
    <2>2. InWaiting(u, x, i) <=> i \in 1 .. Len(q) /\ q[i].task = u
      BY <1>2, Zenon DEF InWaiting
    <2> HIDE DEF q
    <2> QED BY <1>1, <1>2, <2>1, <2>2
  <1>3. CASE x # l
    BY <1>3, Zenon DEF InWaiting
  <1> QED BY <1>2, <1>3, Zenon

\* The first entry of a waiting list taken off.
LEMMA WaitingTail ==
  ASSUME NEW l \in Lists, waiting[l] \in Seq(WaitingListEntry), waiting[l] # <<>>,
         \A m \in Lists \ {l} : waiting'[m] = waiting[m],
         waiting'[l] = Tail(waiting[l])
  PROVE  /\ \A u, x, i : x # l => (InWaiting(u, x, i)' <=> InWaiting(u, x, i))
         /\ \A u, i : InWaiting(u, l, i)' <=> i \in Nat \ {0} /\ InWaiting(u, l, i + 1)
  <1> DEFINE q == waiting[l]
  <1>1. /\ Len(Tail(q)) = Len(q) - 1 /\ Len(q) \in Nat
        /\ \A i \in 1 .. Len(q) - 1 : Tail(q)[i] = q[i + 1]
    BY TailFacts, Zenon
  <1>2. \A u, x, i : x # l => (InWaiting(u, x, i)' <=> InWaiting(u, x, i))
    BY Zenon DEF InWaiting
  <1>3. ASSUME NEW u, NEW i
        PROVE  InWaiting(u, l, i)' <=> i \in Nat \ {0} /\ InWaiting(u, l, i + 1)
    <2>1. InWaiting(u, l, i)' <=> i \in 1 .. Len(q) - 1 /\ Tail(q)[i].task = u
      BY <1>1, Zenon DEF InWaiting
    <2>2. InWaiting(u, l, i + 1) <=> i + 1 \in 1 .. Len(q) /\ q[i + 1].task = u
      BY Zenon DEF InWaiting
    <2> HIDE DEF q
    <2> QED BY <1>1, <2>1, <2>2
  <1> QED BY <1>2, <1>3, Zenon

\* The locals of CPU c, of which the step sets some.
LEMMA CpuPlaces ==
  ASSUME NEW c \in CPUs, \A d \in CPUs \ {c} : cpu'[d] = cpu[d]
  PROVE  /\ \A u, x : IsCurrent(u, x)'
              <=> (x # c /\ IsCurrent(u, x)) \/ (x = c /\ u = cpu'[c].current)
         /\ \A u, x : IsLocal(u, x)'
              <=> (x # c /\ IsLocal(u, x)) \/ (x = c /\ u = cpu'[c].task)
         /\ \A u, x : IsEntry(u, x)'
              <=> \/ x # c /\ IsEntry(u, x)
                  \/ x = c /\ cpu'[c].entry # None /\ u = cpu'[c].entry.task
         /\ cpu'[c].current = cpu[c].current => CurrentSame
         /\ cpu'[c].task = cpu[c].task => LocalSame
         /\ cpu'[c].entry = cpu[c].entry => EntrySame
  <1>1. \A u, x : IsCurrent(u, x)'
          <=> (x # c /\ IsCurrent(u, x)) \/ (x = c /\ u = cpu'[c].current)
    BY Zenon DEF IsCurrent
  <1>2. \A u, x : IsLocal(u, x)'
          <=> (x # c /\ IsLocal(u, x)) \/ (x = c /\ u = cpu'[c].task)
    BY Zenon DEF IsLocal
  <1>3. \A u, x : IsEntry(u, x)'
          <=> \/ x # c /\ IsEntry(u, x)
              \/ x = c /\ cpu'[c].entry # None /\ u = cpu'[c].entry.task
    BY Zenon DEF IsEntry
  <1>4. cpu'[c].current = cpu[c].current => CurrentSame
    BY <1>1, Zenon DEF CurrentSame, IsCurrent
  <1>5. cpu'[c].task = cpu[c].task => LocalSame
    BY <1>2, Zenon DEF LocalSame, IsLocal
  <1>6. cpu'[c].entry = cpu[c].entry => EntrySame
    BY <1>3, Zenon DEF EntrySame, IsEntry
  <1> QED BY <1>1, <1>2, <1>3, <1>4, <1>5, <1>6, Zenon

(* What a step does to the tasks. *)

\* The step neither creates nor drops t.
Kept(t) == home'[t] = home[t] /\ (t \in dropped' <=> t \in dropped)

LEMMA Untouched ==
  ASSUME NEW t \in Tasks, One(t), RunSame, SleepingSame, DeferredSame, WaitingSame,
         CurrentSame, LocalSame, EntrySame, Kept(t)
  PROVE  One(t)'
  <1>1. \A k, x, i : Holds(t, k, x, i)' <=> Holds(t, k, x, i)
    BY DEF Holds, RunSame, SleepingSame, DeferredSame, WaitingSame, CurrentSame, LocalSame, EntrySame
  <1> QED BY <1>1 DEF One, Live, Kept

\* Task t moves from one place to another, and the other places stay as they are.
Moves(t, k0, x0, i0, k1, x1, i1) ==
  /\ Holds(t, k0, x0, i0)
  /\ \A u \in Tasks : Holds(u, k0, x0, i0) => u = t
  /\ \A u \in Tasks : \A k, x, i :
       Holds(u, k, x, i)' <=> \/ Holds(u, k, x, i) /\ ~(k = k0 /\ x = x0 /\ i = i0)
                              \/ u = t /\ k = k1 /\ x = x1 /\ i = i1

LEMMA Moved ==
  ASSUME NEW t \in Tasks, NEW k0, NEW x0, NEW i0, NEW k1, NEW x1, NEW i1,
         Moves(t, k0, x0, i0, k1, x1, i1),
         \A u \in Tasks : One(u), \A u \in Tasks : Kept(u)
  PROVE  \A u \in Tasks : One(u)'
  <1> USE DEF Moves
  <1> SUFFICES ASSUME NEW u \in Tasks
               PROVE  One(u)'
    BY Zenon
  <1>1. CASE u = t
    <2>1. \A k, x, i : Holds(t, k, x, i)' <=> k = k1 /\ x = x1 /\ i = i1
      BY DEF One, Live, Kept
    <2>2. Live(t) /\ Live(t)'
      BY Zenon DEF One, Live, Kept
    <2> QED BY <1>1, <2>1, <2>2 DEF One, Live, Kept
  <1>2. CASE u # t
    <2>1. \A k, x, i : Holds(u, k, x, i)' <=> Holds(u, k, x, i)
      BY <1>2, Zenon
    <2> QED BY <2>1 DEF One, Live, Kept
  <1> QED BY <1>1, <1>2, Zenon
\* Task t moves from the head of a queue, where the others move up.
MovesFromHead(t, k0, x0, k1, x1, i1) ==
  /\ Holds(t, k0, x0, 1) /\ ~(k1 = k0 /\ x1 = x0)
  /\ \A u \in Tasks : Holds(u, k0, x0, 1) => u = t
  /\ \A u \in Tasks : \A i : Holds(u, k0, x0, i) => i \in Nat \ {0}
  /\ \A u \in Tasks : \A k, x, i : ~(k = k0 /\ x = x0) =>
       (Holds(u, k, x, i)' <=> Holds(u, k, x, i) \/ (u = t /\ k = k1 /\ x = x1 /\ i = i1))
  /\ \A u \in Tasks : \A i : Holds(u, k0, x0, i)' <=> i \in Nat \ {0} /\ Holds(u, k0, x0, i + 1)

LEMMA MovedFromHead ==
  ASSUME NEW t \in Tasks, NEW k0, NEW x0, NEW k1, NEW x1, NEW i1,
         MovesFromHead(t, k0, x0, k1, x1, i1),
         \A u \in Tasks : One(u), \A u \in Tasks : Kept(u)
  PROVE  \A u \in Tasks : One(u)'
  <1> USE DEF MovesFromHead
  <1> SUFFICES ASSUME NEW u \in Tasks
               PROVE  One(u)'
    BY Zenon
  <1>1. CASE u = t
    <2>1. \A i : Holds(t, k0, x0, i) => i = 1
      BY DEF One, Live, Kept
    <2>2. \A i : ~Holds(t, k0, x0, i)'
      BY <2>1
    <2>3. \A k, x, i : ~(k = k0 /\ x = x0) => ~Holds(t, k, x, i)
      BY DEF One, Live, Kept
    <2>4. \A k, x, i : Holds(t, k, x, i)' <=> k = k1 /\ x = x1 /\ i = i1
      BY <2>2, <2>3
    <2>5. Live(t) /\ Live(t)'
      BY DEF One, Live, Kept
    <2> HIDE DEF MovesFromHead
    <2> QED BY <1>1, <2>4, <2>5 DEF One, Live, Kept
  <1>2. CASE u # t /\ \E i : Holds(u, k0, x0, i)
    <2>1. PICK i : Holds(u, k0, x0, i)
      BY <1>2, Zenon
    <2>2. i \in Nat /\ i > 1
      BY <1>2, <2>1
    <2>3. \A k, x, j : Holds(u, k, x, j) => k = k0 /\ x = x0 /\ j = i
      BY <2>1 DEF One, Live, Kept
    <2>4. Holds(u, k0, x0, i - 1)'
      BY <2>1, <2>2
    <2>5. \A k, x, j : Holds(u, k, x, j)' => k = k0 /\ x = x0 /\ j = i - 1
      BY <1>2, <2>2, <2>3
    <2>6. Live(u) /\ Live(u)'
      BY <2>1, Zenon DEF One, Live, Kept
    <2> HIDE DEF MovesFromHead
    <2> QED BY <2>4, <2>5, <2>6 DEF One, Live, Kept
  <1>3. CASE u # t /\ ~\E i : Holds(u, k0, x0, i)
    <2>1. \A k, x, i : Holds(u, k, x, i)' <=> Holds(u, k, x, i)
      BY <1>3
    <2> QED BY <2>1 DEF One, Live, Kept
  <1> QED BY <1>1, <1>2, <1>3, Zenon

\* Task t moves from place n of a queue of m, where the last one takes its place.
MovesFromMiddle(t, k0, x0, n, m, k1, x1, i1) ==
  /\ Holds(t, k0, x0, n) /\ ~(k1 = k0 /\ x1 = x0)
  /\ \A u \in Tasks : Holds(u, k0, x0, n) => u = t
  /\ \A u \in Tasks : \A i : Holds(u, k0, x0, i) => i \in 1 .. m
  /\ \A u \in Tasks : \A k, x, i : ~(k = k0 /\ x = x0) =>
       (Holds(u, k, x, i)' <=> Holds(u, k, x, i) \/ (u = t /\ k = k1 /\ x = x1 /\ i = i1))
  /\ \A u \in Tasks : \A i : Holds(u, k0, x0, i)'
       <=> i \in 1 .. m - 1 /\ Holds(u, k0, x0, IF i = n THEN m ELSE i)

LEMMA MovedFromMiddle ==
  ASSUME NEW t \in Tasks, NEW k0, NEW x0, NEW m \in Nat, NEW n \in 1 .. m, NEW k1, NEW x1, NEW i1,
         MovesFromMiddle(t, k0, x0, n, m, k1, x1, i1),
         \A u \in Tasks : One(u), \A u \in Tasks : Kept(u)
  PROVE  \A u \in Tasks : One(u)'
  <1> USE DEF MovesFromMiddle
  <1> SUFFICES ASSUME NEW u \in Tasks
               PROVE  One(u)'
    BY Zenon
  <1>1. CASE u = t
    <2>1. \A i : Holds(t, k0, x0, i) => i = n
      BY DEF One, Live, Kept
    <2>2. \A i : ~Holds(t, k0, x0, i)'
      BY <2>1
    <2>3. \A k, x, i : ~(k = k0 /\ x = x0) => ~Holds(t, k, x, i)
      BY DEF One, Live, Kept
    <2>4. \A k, x, i : Holds(t, k, x, i)' <=> k = k1 /\ x = x1 /\ i = i1
      BY <2>2, <2>3
    <2>5. Live(t) /\ Live(t)'
      BY Zenon DEF One, Live, Kept
    <2> HIDE DEF MovesFromMiddle
    <2> QED BY <1>1, <2>4, <2>5 DEF One, Live, Kept
  <1>2. CASE u # t /\ \E i : Holds(u, k0, x0, i)
    <2>1. PICK i : Holds(u, k0, x0, i)
      BY <1>2, Zenon
    <2> DEFINE j == IF i = m THEN n ELSE i
    <2>2. i \in 1 .. m /\ i # n
      BY <1>2, <2>1, Zenon
    <2>3. \A k, x, a : Holds(u, k, x, a) => k = k0 /\ x = x0 /\ a = i
      BY <2>1 DEF One, Live, Kept
    <2>4. Holds(u, k0, x0, j)'
      BY <2>1, <2>2
    <2>5. \A k, x, a : Holds(u, k, x, a)' => k = k0 /\ x = x0 /\ a = j
      BY <1>2, <2>2, <2>3
    <2>6. Live(u) /\ Live(u)'
      BY <2>1, Zenon DEF One, Live, Kept
    <2> HIDE DEF MovesFromMiddle
    <2> QED BY <2>4, <2>5, <2>6 DEF One, Live, Kept
  <1>3. CASE u # t /\ ~\E i : Holds(u, k0, x0, i)
    <2>1. \A k, x, i : Holds(u, k, x, i)' <=> Holds(u, k, x, i)
      BY <1>3, Zenon
    <2> QED BY <2>1 DEF One, Live, Kept
  <1> QED BY <1>1, <1>2, <1>3, Zenon
\* A new task appears in one place, and the others stay as they are.
Appears(t, k1, x1, i1) ==
  /\ home[t] = None /\ home'[t] # None /\ dropped' = dropped
  /\ \A u \in Tasks \ {t} : home'[u] = home[u]
  /\ \A u \in Tasks : \A k, x, i :
       Holds(u, k, x, i)' <=> Holds(u, k, x, i) \/ (u = t /\ k = k1 /\ x = x1 /\ i = i1)

LEMMA Appeared ==
  ASSUME NEW t \in Tasks, NEW k1, NEW x1, NEW i1, Appears(t, k1, x1, i1), \A u \in Tasks : One(u)
  PROVE  \A u \in Tasks : One(u)'
  <1> SUFFICES ASSUME NEW u \in Tasks
               PROVE  One(u)'
    BY Zenon
  <1>1. CASE u = t
    <2>1. \A k, x, i : ~Holds(t, k, x, i)
      BY Zenon DEF One, Live, Appears
    <2>2. \A k, x, i : Holds(t, k, x, i)' <=> k = k1 /\ x = x1 /\ i = i1
      BY <2>1 DEF Appears
    <2>3. Live(t)'
      BY Zenon DEF One, Live, Appears
    <2> QED BY <1>1, <2>2, <2>3 DEF One, Live
  <1>2. CASE u # t
    <2>1. \A k, x, i : Holds(u, k, x, i)' <=> Holds(u, k, x, i)
      BY <1>2, Zenon DEF Appears
    <2> QED BY <2>1, <1>2 DEF One, Live, Appears
  <1> QED BY <1>1, <1>2, Zenon

(* The phases. *)

LEMMA LocalTypes ==
  ASSUME IInv, NEW c \in CPUs
  PROVE  /\ cpu = [d \in CPUs |-> cpu[d]] /\ cpu[c] \in CPUState
         /\ cpu[c].current \in Tasks \cup {None} /\ cpu[c].task \in Tasks \cup {None}
         /\ cpu[c].stack \in Tasks \cup {None} /\ cpu[c].entry \in WaitingListEntry \cup {None}
         /\ state = [d \in CPUs |-> state[d]] /\ state[c] \in SchedulerState
         /\ state[c].run_queue \in Seq(Tasks) /\ state[c].sleeping \in Seq(Sleeper)
         /\ state[c].deferred_drop \in Seq(Tasks)
         /\ None \notin Tasks /\ None \notin WaitingListEntry
  <1>1. /\ cpu[c] \in CPUState /\ state[c] \in SchedulerState
        /\ cpu = [d \in CPUs |-> cpu[d]] /\ state = [d \in CPUs |-> state[d]]
    BY Zenon DEF IInv, Shape, CpuOK, QueueOK
  <1>2. /\ cpu[c].current \in Tasks \cup {None} /\ cpu[c].task \in Tasks \cup {None}
        /\ cpu[c].stack \in Tasks \cup {None} /\ cpu[c].entry \in WaitingListEntry \cup {None}
    BY <1>1, Zenon DEF CPUState
  <1>3. /\ state[c].run_queue \in Seq(Tasks) /\ state[c].sleeping \in Seq(Sleeper)
        /\ state[c].deferred_drop \in Seq(Tasks)
    BY <1>1, Zenon DEF SchedulerState
  <1>4. None \notin Tasks /\ None \notin WaitingListEntry
    BY ConstantsAssumption, NoneIsNoEntry, Zenon DEF WaitingListEntry
  <1> QED BY <1>1, <1>2, <1>3, <1>4, Zenon

\* A step of CPU c, or of nobody, that drops no task.
LEMMA PhaseStep ==
  ASSUME IInv, PInv, NEW c \in CPUs, \A d \in CPUs \ {c} : cpu'[d] = cpu[d],
         \A d \in CPUs : state'[d].deferred_drop = state[d].deferred_drop,
         HomeKept, dropped' = dropped, CpuPhase(c)'
  PROVE  \A d \in CPUs : (CpuPhase(d) /\ DeferredHome(d))'
  <1> SUFFICES ASSUME NEW d \in CPUs
               PROVE  CpuPhase(d)' /\ DeferredHome(d)'
    BY Zenon
  <1>1. CpuPhase(d)'
    <2>1. CASE d = c
      BY <2>1, Zenon
    <2>2. CASE d # c
      <3>1. cpu'[d] = cpu[d]
        BY <2>2, Zenon
      <3> QED BY <3>1, ZenonT(40) DEF PInv, CpuPhase
    <2> QED BY <2>1, <2>2, Zenon
  <1>2. DeferredHome(d)'
    <2>1. \A i \in 1 .. Len(state[d].deferred_drop) : state[d].deferred_drop[i] \in Tasks
      BY LocalTypes
    <2> QED BY <2>1 DEF PInv, DeferredHome, HomeKept
  <1> QED BY <1>1, <1>2, Zenon

LEMMA LiveKept ==
  ASSUME home' = home, dropped' = dropped
  PROVE  HomeKept /\ \A u \in Tasks : Kept(u)
  BY Zenon DEF HomeKept, Kept

(* One lemma per action.  Those that move no task: *)

LEMMA SchedulePlaces ==
  ASSUME IInv, PInv, NEW c \in CPUs, schedule(c)
  PROVE  PInv'
  <1>0. cpu = [d \in CPUs |-> cpu[d]] /\ cpu[c] \in CPUState
    BY LocalTypes, Zenon
  <1>1. \A d \in CPUs \ {c} : cpu'[d] = cpu[d]
    BY <1>0, Zenon DEF schedule, At
  <1>2. cpu'[c] = [cpu[c] EXCEPT !.phase = "locked"] /\ cpu[c].phase = "schedule"
    BY <1>0, Zenon DEF schedule, At
  <1>3. /\ cpu'[c].phase = "locked" /\ cpu'[c].current = cpu[c].current /\ cpu'[c].task = cpu[c].task
        /\ cpu'[c].entry = cpu[c].entry /\ cpu'[c].stack = cpu[c].stack
    BY <1>0, <1>2, Zenon DEF CPUState
  <1>4. state' = state /\ waiting' = waiting /\ home' = home /\ dropped' = dropped
    BY Zenon DEF schedule, At
  <1>5. \A u \in Tasks : One(u)'
    <2>1. CurrentSame /\ LocalSame /\ EntrySame
      BY <1>1, <1>3, CpuPlaces, Zenon
    <2>2. RunSame /\ SleepingSame /\ DeferredSame /\ WaitingSame
      BY <1>4, StateSame, WaitSame, Zenon
    <2> QED BY <2>1, <2>2, <1>4, LiveKept, Untouched, Zenon DEF PInv
  <1>6. CpuPhase(c)'
    BY <1>2, <1>3, <1>4, Zenon DEF PInv, CpuPhase
  <1>7. \A d \in CPUs : (CpuPhase(d) /\ DeferredHome(d))'
    BY <1>1, <1>4, <1>6, LiveKept, PhaseStep, Zenon
  <1> QED BY <1>5, <1>7, Zenon DEF PInv

LEMMA UnlockStatePlaces ==
  ASSUME IInv, PInv, NEW c \in CPUs, UnlockState(c)
  PROVE  PInv'
  <1>0. cpu = [d \in CPUs |-> cpu[d]] /\ cpu[c] \in CPUState
    BY LocalTypes
  <1>1. \A d \in CPUs \ {c} : cpu'[d] = cpu[d]
    BY <1>0, Zenon DEF UnlockState, At
  <1>2. cpu'[c] = [cpu[c] EXCEPT !.phase = "pick"] /\ cpu[c].phase = "filed"
    BY <1>0, Zenon DEF UnlockState, At
  <1>3. /\ cpu'[c].phase = "pick" /\ cpu'[c].current = cpu[c].current /\ cpu'[c].task = cpu[c].task
        /\ cpu'[c].entry = cpu[c].entry /\ cpu'[c].stack = cpu[c].stack
    BY <1>0, <1>2, Zenon DEF CPUState
  <1>4. state' = state /\ waiting' = waiting /\ home' = home /\ dropped' = dropped
    BY Zenon DEF UnlockState, At
  <1>5. \A u \in Tasks : One(u)'
    <2>1. CurrentSame /\ LocalSame /\ EntrySame
      BY <1>1, <1>3, CpuPlaces, Zenon
    <2>2. RunSame /\ SleepingSame /\ DeferredSame /\ WaitingSame
      BY <1>4, StateSame, WaitSame
    <2> QED BY <2>1, <2>2, <1>4, LiveKept, Untouched DEF PInv
  <1>6. CpuPhase(c)'
    BY <1>2, <1>3, <1>4, Zenon DEF PInv, CpuPhase
  <1>7. \A d \in CPUs : (CpuPhase(d) /\ DeferredHome(d))'
    BY <1>1, <1>4, <1>6, LiveKept, PhaseStep
  <1> QED BY <1>5, <1>7 DEF PInv

\* The steps that change locks and clocks only.
LEMMA NoPlaces ==
  ASSUME IInv, PInv, cpu' = cpu, state' = state, waiting' = waiting, home' = home, dropped' = dropped
  PROVE  PInv'
  <1>1. \A u \in Tasks : One(u)'
    <2>1. CurrentSame /\ LocalSame /\ EntrySame
      BY CpuPlacesSame, Zenon
    <2>2. RunSame /\ SleepingSame /\ DeferredSame /\ WaitingSame
      BY StateSame, WaitSame, Zenon
    <2> QED BY <2>1, <2>2, LiveKept, Untouched, Zenon DEF PInv
  <1>2. \A d \in CPUs : (CpuPhase(d) /\ DeferredHome(d))'
    BY Zenon DEF PInv, CpuPhase, DeferredHome
  <1> QED BY <1>1, <1>2, Zenon DEF PInv

LEMMA LocksAndClocks ==
  ASSUME IInv, PInv, NEW c \in CPUs,
         \/ _scheduler_tick(c) \/ TickDone(c)
         \/ \E l \in Lists : LockList(c, l) \/ UnlockList(c, l)
  PROVE  PInv'
  <1>1. cpu' = cpu /\ state' = state /\ waiting' = waiting /\ home' = home /\ dropped' = dropped
    BY Zenon DEF _scheduler_tick, TickDone, LockList, UnlockList
  <1> QED BY <1>1, NoPlaces, Zenon
(* Those that move one: *)

LEMMA YieldPlaces ==
  ASSUME IInv, PInv, NEW c \in CPUs, NEW command, yield_to_scheduler(c, command)
  PROVE  PInv'
  <1>0. /\ cpu = [d \in CPUs |-> cpu[d]] /\ cpu[c] \in CPUState
        /\ state = [d \in CPUs |-> state[d]] /\ state[c] \in SchedulerState
        /\ state[c].run_queue \in Seq(Tasks) /\ state[c].sleeping \in Seq(Sleeper)
        /\ None \notin Tasks /\ None \notin WaitingListEntry
    BY LocalTypes, Zenon
  <1>1. \A d \in CPUs \ {c} : cpu'[d] = cpu[d]
    BY <1>0, Zenon DEF yield_to_scheduler, At, Running
  <1>2. cpu'[c] = [cpu[c] EXCEPT !.phase = "schedule", !.executing = FALSE, !.current = None,
                                 !.task = cpu[c].current, !.command = command]
    BY <1>0, Zenon DEF yield_to_scheduler, At, Running
  <1>p. cpu[c].phase = "task"
    BY Zenon DEF yield_to_scheduler, At, Running
  <1>3. /\ cpu'[c].phase = "schedule" /\ cpu'[c].current = None /\ cpu'[c].task = cpu[c].current
        /\ cpu'[c].entry = cpu[c].entry /\ cpu'[c].stack = cpu[c].stack
    BY <1>0, <1>2, Zenon DEF CPUState
  <1>c. CpuPhase(c) /\ CpuOK(c)
    BY Zenon DEF PInv, IInv
  <1>4. state' = state /\ waiting' = waiting /\ home' = home /\ dropped' = dropped
    BY Zenon DEF yield_to_scheduler
  <1>k. /\ home' = home /\ dropped' = dropped
        /\ \A d \in CPUs : state'[d].deferred_drop = state[d].deferred_drop
    BY <1>4, Zenon
  <1>5. cpu[c].current \in Tasks /\ cpu[c].task = None
    BY <1>c, <1>p, Zenon DEF CpuPhase, CpuOK
  <1>6. ASSUME NEW u \in Tasks, NEW k, NEW x, NEW i
        PROVE  Holds(u, k, x, i)'
                 <=> \/ Holds(u, k, x, i) /\ ~(k = "current" /\ x = c /\ i = 0)
                     \/ u = cpu[c].current /\ k = "local" /\ x = c /\ i = 0
    <2>1. RunSame /\ SleepingSame /\ DeferredSame /\ WaitingSame /\ EntrySame
      BY <1>1, <1>3, <1>4, StateSame, WaitSame, CpuPlaces, Zenon
    <2>2. IsCurrent(u, x)' <=> x # c /\ IsCurrent(u, x)
      BY <1>0, <1>1, <1>3, CpuPlaces
    <2>3. IsLocal(u, x)' <=> IsLocal(u, x) \/ (x = c /\ u = cpu[c].current)
      BY <1>0, <1>1, <1>3, <1>5, CpuPlaces DEF IsLocal
    <2> QED BY <2>1, <2>2, <2>3, Zenon DEF Holds, RunSame, SleepingSame, DeferredSame, WaitingSame, EntrySame
  <1>7. \A u \in Tasks : One(u)'
    <2>1. Holds(cpu[c].current, "current", c, 0)
      BY Zenon DEF Holds, IsCurrent
    <2>2. \A u \in Tasks : Holds(u, "current", c, 0) => u = cpu[c].current
      BY Zenon DEF Holds, IsCurrent
    <2>3. \A u \in Tasks : One(u) /\ Kept(u)
      BY <1>k, LiveKept, Zenon DEF PInv
    <2>4. Moves(cpu[c].current, "current", c, 0, "local", c, 0)
      BY <1>6, <2>1, <2>2, Zenon DEF Moves
    <2> QED BY <1>5, <2>3, <2>4, Moved, Zenon
  <1>8. CpuPhase(c)'
    BY <1>p, <1>3, <1>k, <1>c, <1>5, Zenon DEF CpuPhase
  <1>9. \A d \in CPUs : (CpuPhase(d) /\ DeferredHome(d))'
    BY <1>1, <1>k, <1>8, LiveKept, PhaseStep, Zenon
  <1> QED BY <1>7, <1>9, Zenon DEF PInv

LEMMA ResumePlaces ==
  ASSUME IInv, PInv, NEW c \in CPUs, resume_context(c)
  PROVE  PInv'
  <1>0. /\ cpu = [d \in CPUs |-> cpu[d]] /\ cpu[c] \in CPUState
        /\ state = [d \in CPUs |-> state[d]] /\ state[c] \in SchedulerState
        /\ state[c].run_queue \in Seq(Tasks) /\ state[c].sleeping \in Seq(Sleeper)
        /\ None \notin Tasks /\ None \notin WaitingListEntry
    BY LocalTypes, Zenon
  <1>1. \A d \in CPUs \ {c} : cpu'[d] = cpu[d]
    BY <1>0, Zenon DEF resume_context, At
  <1>2. cpu'[c] = [cpu[c] EXCEPT !.phase = "task", !.task = None, !.stack = cpu[c].task,
                                 !.current = cpu[c].task, !.executing = TRUE]
    BY <1>0, Zenon DEF resume_context, At
  <1>p. cpu[c].phase = "resume"
    BY Zenon DEF resume_context, At
  <1>3. /\ cpu'[c].phase = "task" /\ cpu'[c].current = cpu[c].task /\ cpu'[c].task = None
        /\ cpu'[c].entry = cpu[c].entry /\ cpu'[c].stack = cpu[c].task
    BY <1>0, <1>2, Zenon DEF CPUState
  <1>c. CpuPhase(c) /\ CpuOK(c)
    BY Zenon DEF PInv, IInv
  <1>4. state' = state /\ waiting' = waiting /\ home' = home /\ dropped' = dropped
    BY Zenon DEF resume_context
  <1>k. /\ home' = home /\ dropped' = dropped
        /\ \A d \in CPUs : state'[d].deferred_drop = state[d].deferred_drop
    BY <1>4, Zenon
  <1>5. cpu[c].task \in Tasks /\ cpu[c].current = None /\ cpu[c].task \notin dropped
    <2>1. cpu[c].task \in Tasks /\ cpu[c].current = None
      BY <1>c, <1>p, Zenon DEF CpuPhase, CpuOK
    <2>2. Holds(cpu[c].task, "local", c, 0)
      BY Zenon DEF Holds, IsLocal
    <2> QED BY <2>1, <2>2, Zenon DEF PInv, One, Live
  <1>6. ASSUME NEW u \in Tasks, NEW k, NEW x, NEW i
        PROVE  Holds(u, k, x, i)'
                 <=> \/ Holds(u, k, x, i) /\ ~(k = "local" /\ x = c /\ i = 0)
                     \/ u = cpu[c].task /\ k = "current" /\ x = c /\ i = 0
    <2>1. RunSame /\ SleepingSame /\ DeferredSame /\ WaitingSame /\ EntrySame
      BY <1>1, <1>3, <1>4, StateSame, WaitSame, CpuPlaces, Zenon
    <2>2. IsLocal(u, x)' <=> x # c /\ IsLocal(u, x)
      BY <1>0, <1>1, <1>3, CpuPlaces, Zenon
    <2>3. IsCurrent(u, x)' <=> IsCurrent(u, x) \/ (x = c /\ u = cpu[c].task)
      BY <1>0, <1>1, <1>3, <1>5, CpuPlaces DEF IsCurrent
    <2> QED BY <2>1, <2>2, <2>3, Zenon DEF Holds, RunSame, SleepingSame, DeferredSame, WaitingSame, EntrySame
  <1>7. \A u \in Tasks : One(u)'
    <2>1. Holds(cpu[c].task, "local", c, 0)
      BY <1>0, <1>5, Zenon DEF Holds, IsLocal
    <2>2. \A u \in Tasks : Holds(u, "local", c, 0) => u = cpu[c].task
      BY Zenon DEF Holds, IsLocal
    <2>3. \A u \in Tasks : One(u) /\ Kept(u)
      BY <1>k, LiveKept, Zenon DEF PInv
    <2>4. Moves(cpu[c].task, "local", c, 0, "current", c, 0)
      BY <1>6, <2>1, <2>2, Zenon DEF Moves
    <2> QED BY <1>5, <2>3, <2>4, Moved, Zenon
  <1>8. CpuPhase(c)'
    BY <1>p, <1>3, <1>k, <1>c, <1>5, Zenon DEF CpuPhase
  <1>9. \A d \in CPUs : (CpuPhase(d) /\ DeferredHome(d))'
    BY <1>1, <1>k, <1>8, LiveKept, PhaseStep, Zenon
  <1> QED BY <1>7, <1>9 DEF PInv

LEMMA FilePushBackPlaces ==
  ASSUME IInv, PInv, NEW c \in CPUs, FilePushBack(c)
  PROVE  PInv'
  <1>0. /\ cpu = [d \in CPUs |-> cpu[d]] /\ cpu[c] \in CPUState
        /\ state = [d \in CPUs |-> state[d]] /\ state[c] \in SchedulerState
        /\ state[c].run_queue \in Seq(Tasks) /\ state[c].sleeping \in Seq(Sleeper)
        /\ None \notin Tasks /\ None \notin WaitingListEntry
    BY LocalTypes
  <1>1. \A d \in CPUs \ {c} : cpu'[d] = cpu[d]
    BY <1>0, Zenon DEF FilePushBack, Arm, At
  <1>2. cpu'[c] = [cpu[c] EXCEPT !.phase = "filed", !.task = None]
    BY <1>0, Zenon DEF FilePushBack, Arm, At
  <1>p. cpu[c].phase = "locked"
    BY Zenon DEF FilePushBack, Arm, At
  <1>3. /\ cpu'[c].phase = "filed" /\ cpu'[c].current = cpu[c].current /\ cpu'[c].task = None
        /\ cpu'[c].entry = cpu[c].entry /\ cpu'[c].stack = cpu[c].stack
    BY <1>0, <1>2, Zenon DEF CPUState
  <1>c. CpuPhase(c) /\ CpuOK(c)
    BY DEF PInv, IInv
  <1>4. /\ \A d \in CPUs \ {c} : state'[d] = state[d]
        /\ state'[c] = [state[c] EXCEPT !.run_queue = Append(@, cpu[c].task)]
        /\ \A d \in CPUs : state'[d].deferred_drop = state[d].deferred_drop
        /\ waiting' = waiting /\ home' = home /\ dropped' = dropped
    BY <1>0, Zenon DEF FilePushBack, Arm, PushTo, SchedulerState
  <1>k. /\ home' = home /\ dropped' = dropped
        /\ \A d \in CPUs : state'[d].deferred_drop = state[d].deferred_drop
    BY <1>4, Zenon
  <1>5. cpu[c].task \in Tasks
    BY <1>c, <1>p, Zenon DEF CpuOK
  <1>6. ASSUME NEW u \in Tasks, NEW k, NEW x, NEW i
        PROVE  Holds(u, k, x, i)'
                 <=> \/ Holds(u, k, x, i) /\ ~(k = "local" /\ x = c /\ i = 0)
                     \/ u = cpu[c].task /\ k = "run" /\ x = c /\ i = Len(state[c].run_queue) + 1
    <2>0. /\ state'[c].run_queue = Append(state[c].run_queue, cpu[c].task)
          /\ state'[c].sleeping = state[c].sleeping /\ \A d \in CPUs \ {c} : state'[d] = state[d]
      BY <1>0, <1>4, Zenon DEF SchedulerState
    <2>1. SleepingSame /\ DeferredSame /\ WaitingSame
      BY <2>0, <1>4, FieldSame, WaitSame, Zenon
    <2>2. InRun(u, x, i)' <=> \/ InRun(u, x, i)
                              \/ u = cpu[c].task /\ x = c /\ i = Len(state[c].run_queue) + 1
      BY <2>0, <1>0, <1>5, RunAppended
    <2>8. CurrentSame /\ EntrySame
      BY <1>1, <1>3, CpuPlaces, Zenon
    <2>9. IsLocal(u, x)' <=> x # c /\ IsLocal(u, x)
      BY <1>0, <1>1, <1>3, CpuPlaces, Zenon
    <2> QED BY <2>1, <2>2, <2>8, <2>9, Zenon DEF Holds, SleepingSame, DeferredSame, WaitingSame, CurrentSame, EntrySame
  <1>7. \A u \in Tasks : One(u)'
    <2>1. Holds(cpu[c].task, "local", c, 0)
      BY <1>0, <1>5, Zenon DEF Holds, IsLocal
    <2>2. \A u \in Tasks : Holds(u, "local", c, 0) => u = cpu[c].task
      BY DEF Holds, IsLocal
    <2>3. \A u \in Tasks : One(u) /\ Kept(u)
      BY <1>k, LiveKept DEF PInv
    <2>4. Moves(cpu[c].task, "local", c, 0, "run", c, Len(state[c].run_queue) + 1)
      BY <1>6, <2>1, <2>2, Zenon DEF Moves
    <2> QED BY <1>5, <2>3, <2>4, Moved, Zenon
  <1>8. CpuPhase(c)'
    BY <1>p, <1>3, <1>k, <1>c, <1>5, Zenon DEF CpuPhase
  <1>9. \A d \in CPUs : (CpuPhase(d) /\ DeferredHome(d))'
    BY <1>1, <1>k, <1>8, LiveKept, PhaseStep
  <1> QED BY <1>7, <1>9 DEF PInv

LEMMA FileSleepPlaces ==
  ASSUME IInv, PInv, NEW c \in CPUs, FileSleep(c)
  PROVE  PInv'
  <1>0. /\ cpu = [d \in CPUs |-> cpu[d]] /\ cpu[c] \in CPUState
        /\ state = [d \in CPUs |-> state[d]] /\ state[c] \in SchedulerState
        /\ state[c].run_queue \in Seq(Tasks) /\ state[c].sleeping \in Seq(Sleeper)
        /\ None \notin Tasks /\ None \notin WaitingListEntry
    BY LocalTypes
  <1>1. \A d \in CPUs \ {c} : cpu'[d] = cpu[d]
    BY <1>0, Zenon DEF FileSleep, Arm, At
  <1>2. cpu'[c] = [cpu[c] EXCEPT !.phase = "filed", !.task = None]
    BY <1>0, Zenon DEF FileSleep, Arm, At
  <1>p. cpu[c].phase = "locked"
    BY Zenon DEF FileSleep, Arm, At
  <1>3. /\ cpu'[c].phase = "filed" /\ cpu'[c].current = cpu[c].current /\ cpu'[c].task = None
        /\ cpu'[c].entry = cpu[c].entry /\ cpu'[c].stack = cpu[c].stack
    BY <1>0, <1>2 DEF CPUState
  <1>c. CpuPhase(c) /\ CpuOK(c)
    BY DEF PInv, IInv
  <1> DEFINE s == [task |-> cpu[c].task, wake_at |-> ticks[c] + cpu[c].command.ticks]
  <1>4. /\ \A d \in CPUs \ {c} : state'[d] = state[d]
        /\ state'[c] = [state[c] EXCEPT !.sleeping = Append(@, s)]
        /\ \A d \in CPUs : state'[d].deferred_drop = state[d].deferred_drop
        /\ waiting' = waiting /\ home' = home /\ dropped' = dropped
    BY <1>0, Zenon DEF FileSleep, Arm, SchedulerState
  <1>k. /\ home' = home /\ dropped' = dropped
        /\ \A d \in CPUs : state'[d].deferred_drop = state[d].deferred_drop
    BY <1>4, Zenon
  <1>5. cpu[c].task \in Tasks
    BY <1>c, <1>p DEF CpuOK
  <1>6. ASSUME NEW u \in Tasks, NEW k, NEW x, NEW i
        PROVE  Holds(u, k, x, i)'
                 <=> \/ Holds(u, k, x, i) /\ ~(k = "local" /\ x = c /\ i = 0)
                     \/ u = cpu[c].task /\ k = "sleeping" /\ x = c /\ i = Len(state[c].sleeping) + 1
    <2>0. /\ state'[c].sleeping = Append(state[c].sleeping, s)
          /\ state'[c].run_queue = state[c].run_queue /\ \A d \in CPUs \ {c} : state'[d] = state[d]
      BY <1>0, <1>4, Zenon DEF SchedulerState
    <2>1. RunSame /\ DeferredSame /\ WaitingSame
      BY <2>0, <1>4, FieldSame, WaitSame, Zenon
    <2>2. InSleeping(u, x, i)' <=> \/ InSleeping(u, x, i)
                                   \/ u = cpu[c].task /\ x = c /\ i = Len(state[c].sleeping) + 1
      <3>1. ticks[c] \in Nat /\ cpu[c].command.ticks \in Nat
        BY <1>0, Zenon DEF IInv, QueueOK, CPUState, SchedulerCommand
      <3>2. s \in Sleeper /\ s.task = cpu[c].task
        BY <3>1, <1>5 DEF Sleeper
      <3> HIDE DEF s
      <3> QED BY <3>2, <2>0, <1>0, SleepingAppended
    <2>8. CurrentSame /\ EntrySame
      BY <1>1, <1>3, CpuPlaces
    <2>9. IsLocal(u, x)' <=> x # c /\ IsLocal(u, x)
      BY <1>0, <1>1, <1>3, CpuPlaces
    <2> QED BY <2>1, <2>2, <2>8, <2>9, Zenon DEF Holds, RunSame, DeferredSame, WaitingSame, CurrentSame, EntrySame
  <1>7. \A u \in Tasks : One(u)'
    <2>1. Holds(cpu[c].task, "local", c, 0)
      BY <1>0, <1>5 DEF Holds, IsLocal
    <2>2. \A u \in Tasks : Holds(u, "local", c, 0) => u = cpu[c].task
      BY DEF Holds, IsLocal
    <2>3. \A u \in Tasks : One(u) /\ Kept(u)
      BY <1>k, LiveKept DEF PInv
    <2>4. Moves(cpu[c].task, "local", c, 0, "sleeping", c, Len(state[c].sleeping) + 1)
      BY <1>6, <2>1, <2>2, Zenon DEF Moves
    <2> QED BY <1>5, <2>3, <2>4, Moved, Zenon
  <1>8. CpuPhase(c)'
    BY <1>p, <1>3, <1>k, <1>c, <1>5 DEF CpuPhase
  <1>9. \A d \in CPUs : (CpuPhase(d) /\ DeferredHome(d))'
    BY <1>1, <1>k, <1>8, LiveKept, PhaseStep
  <1> QED BY <1>7, <1>9 DEF PInv

LEMMA FileWaitPlaces ==
  ASSUME IInv, PInv, NEW c \in CPUs, FileWait(c)
  PROVE  PInv'
  <1>0. /\ cpu = [d \in CPUs |-> cpu[d]] /\ cpu[c] \in CPUState
        /\ state = [d \in CPUs |-> state[d]] /\ state[c] \in SchedulerState
        /\ state[c].run_queue \in Seq(Tasks) /\ state[c].sleeping \in Seq(Sleeper)
        /\ None \notin Tasks /\ None \notin WaitingListEntry
    BY LocalTypes
  <1>1. \A d \in CPUs \ {c} : cpu'[d] = cpu[d]
    BY <1>0, Zenon DEF FileWait, Arm, At
  <1>2. cpu'[c] = [cpu[c] EXCEPT !.phase = "filed", !.task = None]
    BY <1>0, Zenon DEF FileWait, Arm, At
  <1>p. cpu[c].phase = "locked"
    BY Zenon DEF FileWait, Arm, At
  <1>3. /\ cpu'[c].phase = "filed" /\ cpu'[c].current = cpu[c].current /\ cpu'[c].task = None
        /\ cpu'[c].entry = cpu[c].entry /\ cpu'[c].stack = cpu[c].stack
    BY <1>0, <1>2 DEF CPUState
  <1>c. CpuPhase(c) /\ CpuOK(c)
    BY DEF PInv, IInv
  <1> DEFINE l == cpu[c].command.list
             e == [task |-> cpu[c].task, cpu |-> c]
  <1>4. state' = state /\ home' = home /\ dropped' = dropped
    BY Zenon DEF FileWait, Arm
  <1>k. /\ home' = home /\ dropped' = dropped
        /\ \A d \in CPUs : state'[d].deferred_drop = state[d].deferred_drop
    BY <1>4, Zenon
  <1>5. cpu[c].task \in Tasks /\ l \in Lists
    BY <1>c, <1>p, Zenon DEF CpuOK, FileWait, Arm
  <1>6. ASSUME NEW u \in Tasks, NEW k, NEW x, NEW i
        PROVE  Holds(u, k, x, i)'
                 <=> \/ Holds(u, k, x, i) /\ ~(k = "local" /\ x = c /\ i = 0)
                     \/ u = cpu[c].task /\ k = "waiting" /\ x = l /\ i = Len(waiting[l]) + 1
    <2>1. RunSame /\ SleepingSame /\ DeferredSame
      BY <1>4, StateSame, Zenon
    <2>2. InWaiting(u, x, i)' <=> \/ InWaiting(u, x, i)
                                  \/ u = cpu[c].task /\ x = l /\ i = Len(waiting[l]) + 1
      <3>1. waiting = [m \in Lists |-> waiting[m]] /\ waiting[l] \in Seq(WaitingListEntry)
        BY <1>5, Zenon DEF IInv, Shape, ListOK
      <3>2. e \in WaitingListEntry /\ e.task = cpu[c].task
        BY <1>5, Zenon DEF WaitingListEntry
      <3>3. waiting'[l] = Append(waiting[l], e) /\ \A m \in Lists \ {l} : waiting'[m] = waiting[m]
        BY <3>1, <1>5, Zenon DEF FileWait
      <3> HIDE DEF e, l
      <3> QED BY <3>1, <3>2, <3>3, <1>5, WaitingAppended
    <2>8. CurrentSame /\ EntrySame
      BY <1>1, <1>3, CpuPlaces
    <2>9. IsLocal(u, x)' <=> x # c /\ IsLocal(u, x)
      BY <1>0, <1>1, <1>3, CpuPlaces
    <2> QED BY <2>1, <2>2, <2>8, <2>9, Zenon DEF Holds, RunSame, SleepingSame, DeferredSame, CurrentSame, EntrySame
  <1>7. \A u \in Tasks : One(u)'
    <2>1. Holds(cpu[c].task, "local", c, 0)
      BY <1>0, <1>5, Zenon DEF Holds, IsLocal
    <2>2. \A u \in Tasks : Holds(u, "local", c, 0) => u = cpu[c].task
      BY DEF Holds, IsLocal
    <2>3. \A u \in Tasks : One(u) /\ Kept(u)
      BY <1>k, LiveKept DEF PInv
    <2>4. Moves(cpu[c].task, "local", c, 0, "waiting", l, Len(waiting[l]) + 1)
      BY <1>6, <2>1, <2>2, Zenon DEF Moves
    <2> QED BY <1>5, <2>3, <2>4, Moved, Zenon
  <1>8. CpuPhase(c)'
    BY <1>p, <1>3, <1>k, <1>c, <1>5 DEF CpuPhase
  <1>9. \A d \in CPUs : (CpuPhase(d) /\ DeferredHome(d))'
    BY <1>1, <1>k, <1>8, LiveKept, PhaseStep
  <1> QED BY <1>7, <1>9 DEF PInv
LEMMA PickNextPlaces ==
  ASSUME IInv, PInv, NEW c \in CPUs, PickNext(c)
  PROVE  PInv'
  <1> DEFINE q == state[c].run_queue
  <1>0. /\ cpu = [d \in CPUs |-> cpu[d]] /\ cpu[c] \in CPUState
        /\ state = [d \in CPUs |-> state[d]] /\ state[c] \in SchedulerState
        /\ state[c].run_queue \in Seq(Tasks) /\ state[c].sleeping \in Seq(Sleeper)
        /\ None \notin Tasks /\ None \notin WaitingListEntry
    BY LocalTypes
  <1>1. \A d \in CPUs \ {c} : cpu'[d] = cpu[d]
    BY <1>0, Zenon DEF PickNext, At
  <1>2. cpu'[c] = [cpu[c] EXCEPT !.phase = "resume", !.task = Head(q)]
    BY <1>0, Zenon DEF PickNext, At
  <1>p. cpu[c].phase = "pick"
    BY Zenon DEF PickNext, At
  <1>3. /\ cpu'[c].phase = "resume" /\ cpu'[c].current = cpu[c].current /\ cpu'[c].task = Head(q)
        /\ cpu'[c].entry = cpu[c].entry /\ cpu'[c].stack = cpu[c].stack
    BY <1>0, <1>2, Zenon DEF CPUState
  <1>c. CpuPhase(c) /\ CpuOK(c)
    BY DEF PInv, IInv
  <1>4. /\ \A d \in CPUs \ {c} : state'[d] = state[d]
        /\ state'[c] = [state[c] EXCEPT !.run_queue = Tail(@)]
        /\ \A d \in CPUs : state'[d].deferred_drop = state[d].deferred_drop
        /\ waiting' = waiting /\ home' = home /\ dropped' = dropped
    BY <1>0, Zenon DEF PickNext, SchedulerState
  <1>k. /\ home' = home /\ dropped' = dropped
        /\ \A d \in CPUs : state'[d].deferred_drop = state[d].deferred_drop
    BY <1>4, Zenon
  <1>5. /\ q # <<>> /\ Head(q) \in Tasks /\ Head(q) = q[1] /\ 1 \in 1 .. Len(q) /\ Len(q) \in Nat
        /\ cpu[c].task = None
    <2>1. q # <<>>
      BY Zenon DEF PickNext
    <2>2. cpu[c].task = None
      BY <1>c, <1>p, Zenon DEF CpuPhase
    <2> QED BY <2>1, <2>2, <1>0, TailFacts, Zenon
  <1>6. MovesFromHead(Head(q), "run", c, "local", c, 0)
    <2>0. /\ state'[c].run_queue = Tail(q) /\ state'[c].sleeping = state[c].sleeping
          /\ \A d \in CPUs \ {c} : state'[d] = state[d]
      BY <1>0, <1>4, Zenon DEF SchedulerState
    <2>1. SleepingSame /\ DeferredSame /\ WaitingSame /\ CurrentSame /\ EntrySame
      BY <2>0, <1>1, <1>3, <1>4, FieldSame, WaitSame, CpuPlaces, Zenon
    <2>2. /\ \A u, x, i : x # c => (InRun(u, x, i)' <=> InRun(u, x, i))
          /\ \A u, i : InRun(u, c, i)' <=> i \in Nat \ {0} /\ InRun(u, c, i + 1)
      BY <2>0, <1>0, <1>5, RunTail, Zenon
    <2>3. \A u \in Tasks : \A x : IsLocal(u, x)' <=> IsLocal(u, x) \/ (x = c /\ u = Head(q))
      BY <1>0, <1>1, <1>3, <1>5, CpuPlaces DEF IsLocal
    <2>4. \A u, i : InRun(u, c, i) => i \in Nat \ {0}
      BY DEF InRun
    <2>5. InRun(Head(q), c, 1) /\ \A u : InRun(u, c, 1) => u = Head(q)
      BY <1>5, Zenon DEF InRun
    <2> HIDE DEF q
    <2>6. \A u : \A i : Holds(u, "run", c, i) <=> InRun(u, c, i)
      BY Zenon DEF Holds
    <2>7. \A u : \A i : Holds(u, "run", c, i)' <=> InRun(u, c, i)'
      BY Zenon DEF Holds
    <2>8. ASSUME NEW u \in Tasks, NEW k, NEW x, NEW i, ~(k = "run" /\ x = c)
          PROVE  Holds(u, k, x, i)' <=> \/ Holds(u, k, x, i)
                                        \/ u = Head(q) /\ k = "local" /\ x = c /\ i = 0
      BY <2>1, <2>2, <2>3, <2>8, Zenon DEF Holds, SleepingSame, DeferredSame, WaitingSame, CurrentSame, EntrySame
    <2> QED BY <2>2, <2>4, <2>5, <2>6, <2>7, <2>8, Zenon DEF MovesFromHead
  <1>7. \A u \in Tasks : One(u)'
    <2>1. \A u \in Tasks : One(u) /\ Kept(u)
      BY <1>k, LiveKept DEF PInv
    <2> QED BY <1>5, <1>6, <2>1, MovedFromHead, Zenon
  <1>8. CpuPhase(c)'
    BY <1>p, <1>3, <1>k, <1>c, <1>5, Zenon DEF CpuPhase
  <1>9. \A d \in CPUs : (CpuPhase(d) /\ DeferredHome(d))'
    BY <1>1, <1>k, <1>8, LiveKept, PhaseStep
  <1> QED BY <1>7, <1>9 DEF PInv

LEMMA NotifyInnerPlaces ==
  ASSUME IInv, PInv, NEW c \in CPUs, NEW l \in Lists, notify_inner(c, l)
  PROVE  PInv'
  <1> DEFINE q == waiting[l]
  <1>0. /\ cpu = [d \in CPUs |-> cpu[d]] /\ cpu[c] \in CPUState
        /\ state = [d \in CPUs |-> state[d]] /\ state[c] \in SchedulerState
        /\ state[c].run_queue \in Seq(Tasks) /\ state[c].sleeping \in Seq(Sleeper)
        /\ None \notin Tasks /\ None \notin WaitingListEntry
    BY LocalTypes, Zenon
  <1>1. \A d \in CPUs \ {c} : cpu'[d] = cpu[d]
    BY <1>0, Zenon DEF notify_inner, At
  <1>2. cpu'[c] = [cpu[c] EXCEPT !.phase = "notify", !.entry = Head(q)]
    BY <1>0, Zenon DEF notify_inner, At
  <1>p. cpu[c].phase = "task"
    BY Zenon DEF notify_inner, At
  <1>3. /\ cpu'[c].phase = "notify" /\ cpu'[c].current = cpu[c].current /\ cpu'[c].task = cpu[c].task
        /\ cpu'[c].entry = Head(q) /\ cpu'[c].stack = cpu[c].stack
    BY <1>0, <1>2, Zenon DEF CPUState
  <1>c. CpuPhase(c) /\ CpuOK(c)
    BY Zenon DEF PInv, IInv
  <1>4. /\ \A m \in Lists \ {l} : waiting'[m] = waiting[m]
        /\ waiting'[l] = Tail(q) /\ q \in Seq(WaitingListEntry)
        /\ state' = state /\ home' = home /\ dropped' = dropped
    BY Zenon DEF notify_inner, IInv, Shape, ListOK
  <1>k. /\ home' = home /\ dropped' = dropped
        /\ \A d \in CPUs : state'[d].deferred_drop = state[d].deferred_drop
    BY <1>4, Zenon
  <1>5. /\ q # <<>> /\ Head(q) \in WaitingListEntry /\ Head(q) = q[1] /\ 1 \in 1 .. Len(q)
        /\ Head(q).task \in Tasks /\ Head(q) # None /\ cpu[c].entry = None
    <2>1. q # <<>>
      BY Zenon DEF notify_inner
    <2>2. cpu[c].entry = None
      BY <1>c, <1>p, Zenon DEF CpuPhase
    <2>3. Head(q) \in WaitingListEntry /\ Head(q) = q[1] /\ 1 \in 1 .. Len(q)
      BY <2>1, <1>4, TailFacts, Zenon
    <2>4. Head(q).task \in Tasks
      BY <2>3, Zenon DEF WaitingListEntry
    <2> QED BY <2>1, <2>2, <2>3, <2>4, <1>0, Zenon
  <1>6. MovesFromHead(Head(q).task, "waiting", l, "entry", c, 0)
    <2>1. RunSame /\ SleepingSame /\ DeferredSame /\ CurrentSame /\ LocalSame
      BY <1>1, <1>3, <1>4, StateSame, CpuPlaces, Zenon
    <2>2. /\ \A u, x, i : x # l => (InWaiting(u, x, i)' <=> InWaiting(u, x, i))
          /\ \A u, i : InWaiting(u, l, i)' <=> i \in Nat \ {0} /\ InWaiting(u, l, i + 1)
      BY <1>4, <1>5, WaitingTail, Zenon
    <2>3. \A u \in Tasks : \A x : IsEntry(u, x)' <=> IsEntry(u, x) \/ (x = c /\ u = Head(q).task)
      BY <1>0, <1>1, <1>3, <1>5, CpuPlaces DEF IsEntry
    <2>4. \A u, i : InWaiting(u, l, i) => i \in Nat \ {0}
      BY DEF InWaiting
    <2>5. InWaiting(Head(q).task, l, 1) /\ \A u : InWaiting(u, l, 1) => u = Head(q).task
      BY <1>5, Zenon DEF InWaiting
    <2> HIDE DEF q
    <2>6. \A u : \A i : Holds(u, "waiting", l, i) <=> InWaiting(u, l, i)
      BY Zenon DEF Holds
    <2>7. \A u : \A i : Holds(u, "waiting", l, i)' <=> InWaiting(u, l, i)'
      BY Zenon DEF Holds
    <2>8. ASSUME NEW u \in Tasks, NEW k, NEW x, NEW i, ~(k = "waiting" /\ x = l)
          PROVE  Holds(u, k, x, i)' <=> \/ Holds(u, k, x, i)
                                        \/ u = Head(q).task /\ k = "entry" /\ x = c /\ i = 0
      BY <2>1, <2>2, <2>3, <2>8, Zenon DEF Holds, RunSame, SleepingSame, DeferredSame, CurrentSame, LocalSame
    <2> QED BY <2>2, <2>4, <2>5, <2>6, <2>7, <2>8, Zenon DEF MovesFromHead
  <1>7. \A u \in Tasks : One(u)'
    <2>1. \A u \in Tasks : One(u) /\ Kept(u)
      BY <1>k, LiveKept, Zenon DEF PInv
    <2> QED BY <1>5, <1>6, <2>1, MovedFromHead, Zenon
  <1>8. CpuPhase(c)'
    BY <1>p, <1>3, <1>k, <1>c, <1>5, Zenon DEF CpuPhase
  <1>9. \A d \in CPUs : (CpuPhase(d) /\ DeferredHome(d))'
    BY <1>1, <1>k, <1>8, LiveKept, PhaseStep, Zenon
  <1> QED BY <1>7, <1>9, Zenon DEF PInv
LEMMA PushTaskToPlaces ==
  ASSUME IInv, PInv, NEW c \in CPUs, push_task_to(c)
  PROVE  PInv'
  <1> DEFINE t == cpu[c].entry.task
             h == cpu[c].entry.cpu
  <1>0. /\ cpu = [d \in CPUs |-> cpu[d]] /\ cpu[c] \in CPUState
        /\ state = [d \in CPUs |-> state[d]] /\ state[c] \in SchedulerState
        /\ state[c].run_queue \in Seq(Tasks) /\ state[c].sleeping \in Seq(Sleeper)
        /\ None \notin Tasks /\ None \notin WaitingListEntry
    BY LocalTypes
  <1>1. \A d \in CPUs \ {c} : cpu'[d] = cpu[d]
    BY <1>0, Zenon DEF push_task_to, At
  <1>2. cpu'[c] = [cpu[c] EXCEPT !.phase = "task", !.entry = None]
    BY <1>0, Zenon DEF push_task_to, At
  <1>p. cpu[c].phase = "notify"
    BY Zenon DEF push_task_to, At
  <1>3. /\ cpu'[c].phase = "task" /\ cpu'[c].current = cpu[c].current /\ cpu'[c].task = cpu[c].task
        /\ cpu'[c].entry = None /\ cpu'[c].stack = cpu[c].stack
    BY <1>0, <1>2, Zenon DEF CPUState
  <1>c. CpuPhase(c) /\ CpuOK(c)
    BY DEF PInv, IInv
  <1>5. t \in Tasks /\ h \in CPUs /\ cpu[c].entry # None
    <2>1. cpu[c].entry \in WaitingListEntry
      BY <1>c, <1>p, Zenon DEF CpuOK
    <2> QED BY <2>1, <1>0, Zenon DEF WaitingListEntry
  <1>h. /\ state[h] \in SchedulerState /\ state[h].run_queue \in Seq(Tasks)
        /\ \A d \in CPUs : state[d] \in SchedulerState
    BY <1>5, LocalTypes, Zenon
  <1>4. /\ \A d \in CPUs \ {h} : state'[d] = state[d]
        /\ state'[h] = [state[h] EXCEPT !.run_queue = Append(@, t)]
        /\ \A d \in CPUs : state'[d].deferred_drop = state[d].deferred_drop
        /\ waiting' = waiting /\ home' = home /\ dropped' = dropped
    BY <1>0, <1>5, <1>h, Zenon DEF push_task_to, PushTo, SchedulerState
  <1>k. /\ home' = home /\ dropped' = dropped
        /\ \A d \in CPUs : state'[d].deferred_drop = state[d].deferred_drop
    BY <1>4, Zenon
  <1> HIDE DEF t, h
  <1>6. ASSUME NEW u \in Tasks, NEW k, NEW x, NEW i
        PROVE  Holds(u, k, x, i)'
                 <=> \/ Holds(u, k, x, i) /\ ~(k = "entry" /\ x = c /\ i = 0)
                     \/ u = t /\ k = "run" /\ x = h /\ i = Len(state[h].run_queue) + 1
    <2>0. /\ state'[h].run_queue = Append(state[h].run_queue, t)
          /\ state'[h].sleeping = state[h].sleeping /\ \A d \in CPUs \ {h} : state'[d] = state[d]
      BY <1>h, <1>4, Zenon DEF SchedulerState
    <2>1. SleepingSame /\ DeferredSame /\ WaitingSame
      BY <2>0, <1>4, <1>5, FieldSame, WaitSame, Zenon
    <2>2. InRun(u, x, i)' <=> \/ InRun(u, x, i)
                              \/ u = t /\ x = h /\ i = Len(state[h].run_queue) + 1
      BY <2>0, <1>h, <1>5, RunAppended
    <2>3. CurrentSame /\ LocalSame
      BY <1>1, <1>3, CpuPlaces, Zenon
    <2>4. IsEntry(u, x)' <=> x # c /\ IsEntry(u, x)
      BY <1>0, <1>1, <1>3, CpuPlaces, Zenon
    <2> QED BY <2>1, <2>2, <2>3, <2>4, Zenon
            DEF Holds, SleepingSame, DeferredSame, WaitingSame, CurrentSame, LocalSame
  <1>7. \A u \in Tasks : One(u)'
    <2>1. Holds(t, "entry", c, 0)
      BY <1>5, Zenon DEF Holds, IsEntry, t
    <2>2. \A u \in Tasks : Holds(u, "entry", c, 0) => u = t
      BY Zenon DEF Holds, IsEntry, t
    <2>3. \A u \in Tasks : One(u) /\ Kept(u)
      BY <1>k, LiveKept DEF PInv
    <2>4. Moves(t, "entry", c, 0, "run", h, Len(state[h].run_queue) + 1)
      BY <1>6, <2>1, <2>2, Zenon DEF Moves
    <2> QED BY <1>5, <2>3, <2>4, Moved, Zenon
  <1>8. CpuPhase(c)'
    BY <1>p, <1>3, <1>k, <1>c, <1>5, Zenon DEF CpuPhase
  <1>9. \A d \in CPUs : (CpuPhase(d) /\ DeferredHome(d))'
    BY <1>1, <1>k, <1>8, LiveKept, PhaseStep
  <1> QED BY <1>7, <1>9 DEF PInv

LEMMA TickEntryPlaces ==
  ASSUME IInv, PInv, NEW c \in CPUs, TickEntry(c)
  PROVE  PInv'
  <1> DEFINE n == tick[c] - 1
             s == state[c].sleeping
             q == state[c].run_queue
  <1>0. /\ state = [d \in CPUs |-> state[d]] /\ state[c] \in SchedulerState
        /\ q \in Seq(Tasks) /\ s \in Seq(Sleeper)
    BY LocalTypes, Zenon
  <1>1. cpu' = cpu /\ waiting' = waiting /\ home' = home /\ dropped' = dropped
    BY Zenon DEF TickEntry
  <1>2. CASE state' = state
    BY <1>1, <1>2, NoPlaces, Zenon
  <1>3. CASE state' # state
    <2>1. state' = [state EXCEPT ![c].sleeping = swap_remove_back(s, n),
                                 ![c].run_queue = Append(@, s[n].task)]
      BY <1>3, Zenon DEF TickEntry
    <2>2. n \in 1 .. Len(s) /\ Len(s) \in Nat
      BY <1>0 DEF TickEntry, IInv, QueueOK
    <2>3. s[n].task \in Tasks
      BY <1>0, <2>2, SleeperFields, Zenon
    <2> HIDE DEF n
    <2>4. /\ state'[c] = [state[c] EXCEPT !.sleeping = swap_remove_back(s, n),
                                          !.run_queue = Append(@, s[n].task)]
          /\ \A d \in CPUs \ {c} : state'[d] = state[d]
      BY <2>1, <1>0, Zenon
    <2>5. /\ state'[c].sleeping = swap_remove_back(s, n)
          /\ state'[c].run_queue = Append(q, s[n].task)
          /\ state'[c].deferred_drop = state[c].deferred_drop
      BY <2>4, <1>0, Zenon DEF SchedulerState
    <2>6. MovesFromMiddle(s[n].task, "sleeping", c, n, Len(s), "run", c, Len(q) + 1)
      <3>1. DeferredSame /\ WaitingSame /\ CurrentSame /\ LocalSame /\ EntrySame
        BY <2>4, <2>5, <1>1, FieldSame, WaitSame, CpuPlacesSame, Zenon
      <3>2. \A u, x, i : InRun(u, x, i)'
              <=> InRun(u, x, i) \/ (u = s[n].task /\ x = c /\ i = Len(q) + 1)
        BY <2>3, <2>4, <2>5, <1>0, RunAppended, Zenon
      <3>3. /\ \A u, x, i : x # c => (InSleeping(u, x, i)' <=> InSleeping(u, x, i))
            /\ \A u, i : InSleeping(u, c, i)'
                 <=> i \in 1 .. Len(s) - 1 /\ InSleeping(u, c, IF i = n THEN Len(s) ELSE i)
        BY <2>2, <2>4, <2>5, <1>0, SleepingSwapped, Zenon
      <3>4. \A u, i : InSleeping(u, c, i) => i \in 1 .. Len(s)
        BY Zenon DEF InSleeping
      <3>5. InSleeping(s[n].task, c, n) /\ \A u : InSleeping(u, c, n) => u = s[n].task
        BY <2>2, Zenon DEF InSleeping
      <3> HIDE DEF s, q
      <3>6. \A u : \A i : Holds(u, "sleeping", c, i) <=> InSleeping(u, c, i)
        BY Zenon DEF Holds
      <3>7. \A u : \A i : Holds(u, "sleeping", c, i)' <=> InSleeping(u, c, i)'
        BY Zenon DEF Holds
      <3>8. ASSUME NEW u \in Tasks, NEW k, NEW x, NEW i, ~(k = "sleeping" /\ x = c)
            PROVE  Holds(u, k, x, i)' <=> \/ Holds(u, k, x, i)
                                          \/ u = s[n].task /\ k = "run" /\ x = c /\ i = Len(q) + 1
        BY <3>1, <3>2, <3>3, <3>8, Zenon
           DEF Holds, DeferredSame, WaitingSame, CurrentSame, LocalSame, EntrySame
      <3> QED BY <3>3, <3>4, <3>5, <3>6, <3>7, <3>8, Zenon DEF MovesFromMiddle
    <2>7. \A u \in Tasks : One(u)'
      <3>1. \A u \in Tasks : One(u) /\ Kept(u)
        BY <1>1, LiveKept, Zenon DEF PInv
      <3> HIDE DEF s, q
      <3> QED BY <2>2, <2>3, <2>6, <3>1, MovedFromMiddle, Zenon
    <2>8. \A d \in CPUs : state'[d].deferred_drop = state[d].deferred_drop
      BY <2>4, <2>5, Zenon
    <2>9. \A d \in CPUs : (CpuPhase(d) /\ DeferredHome(d))'
      <3>1. CpuPhase(c)'
        BY <1>1, Zenon DEF PInv, CpuPhase
      <3> QED BY <3>1, <2>8, <1>1, LiveKept, PhaseStep, Zenon
    <2> QED BY <2>7, <2>9 DEF PInv
  <1> QED BY <1>2, <1>3, Zenon

(* Those that create one: *)

LEMMA InitSchedulerPlaces ==
  ASSUME IInv, PInv, NEW c \in CPUs, NEW t \in Tasks, init_scheduler(c, t)
  PROVE  PInv'
  <1>0. /\ cpu = [d \in CPUs |-> cpu[d]] /\ cpu[c] \in CPUState
        /\ state = [d \in CPUs |-> state[d]] /\ state[c] \in SchedulerState
        /\ state[c].run_queue \in Seq(Tasks) /\ state[c].sleeping \in Seq(Sleeper)
        /\ None \notin Tasks /\ None \notin WaitingListEntry
    BY LocalTypes, Zenon
  <1>1. \A d \in CPUs \ {c} : cpu'[d] = cpu[d]
    BY <1>0, Zenon DEF init_scheduler, At
  <1>2. cpu'[c] = [cpu[c] EXCEPT !.phase = "task", !.current = t, !.stack = t]
    BY <1>0, Zenon DEF init_scheduler, At
  <1>p. cpu[c].phase = "boot"
    BY Zenon DEF init_scheduler, At
  <1>3. /\ cpu'[c].phase = "task" /\ cpu'[c].current = t /\ cpu'[c].task = cpu[c].task
        /\ cpu'[c].entry = cpu[c].entry /\ cpu'[c].stack = t
    BY <1>0, <1>2, Zenon DEF CPUState
  <1>c. CpuPhase(c) /\ CpuOK(c)
    BY Zenon DEF PInv, IInv
  <1>4. state' = state /\ waiting' = waiting /\ dropped' = dropped
    BY Zenon DEF init_scheduler
  <1>5. cpu[c].current = None /\ cpu[c].task = None /\ cpu[c].entry = None /\ t \notin dropped
    <2>1. t \notin dropped
      BY Zenon DEF init_scheduler, PInv, One
    <2> QED BY <2>1, <1>c, <1>p, Zenon DEF CpuPhase
  <1>6. Appears(t, "current", c, 0)
    <2>1. RunSame /\ SleepingSame /\ DeferredSame /\ WaitingSame /\ LocalSame /\ EntrySame
      BY <1>1, <1>3, <1>4, StateSame, WaitSame, CpuPlaces, Zenon
    <2>2. \A u \in Tasks : \A x : IsCurrent(u, x)' <=> IsCurrent(u, x) \/ (x = c /\ u = t)
      BY <1>0, <1>1, <1>3, <1>5, CpuPlaces DEF IsCurrent
    <2>3. \A u \in Tasks : \A k, x, i :
            Holds(u, k, x, i)' <=> Holds(u, k, x, i) \/ (u = t /\ k = "current" /\ x = c /\ i = 0)
      BY <2>1, <2>2 DEF Holds, RunSame, SleepingSame, DeferredSame, WaitingSame, LocalSame, EntrySame
    <2>4. home[t] = None /\ home'[t] # None /\ \A u \in Tasks \ {t} : home'[u] = home[u]
      BY ConstantsAssumption, Zenon DEF init_scheduler, IInv, Shape
    <2> QED BY <2>3, <2>4, <1>4, Zenon DEF Appears
  <1>7. \A u \in Tasks : One(u)'
    BY <1>6, Appeared, Zenon DEF PInv
  <1>8. CpuPhase(c)'
    BY <1>3, <1>4, <1>5, Zenon DEF CpuPhase
  <1>9. \A d \in CPUs : (CpuPhase(d) /\ DeferredHome(d))'
    <2>1. HomeKept
      BY ConstantsAssumption, Zenon DEF HomeKept, init_scheduler, IInv, Shape
    <2> QED BY <2>1, <1>1, <1>4, <1>8, PhaseStep, Zenon
  <1> QED BY <1>7, <1>9, Zenon DEF PInv

LEMMA PushTaskPlaces ==
  ASSUME IInv, PInv, NEW c \in CPUs, NEW t \in Tasks, push_task(c, t)
  PROVE  PInv'
  <1>0. /\ state = [d \in CPUs |-> state[d]] /\ state[c] \in SchedulerState
        /\ state[c].run_queue \in Seq(Tasks)
    BY LocalTypes, Zenon
  <1>1. /\ state'[c] = [state[c] EXCEPT !.run_queue = Append(@, t)]
        /\ \A d \in CPUs \ {c} : state'[d] = state[d]
        /\ cpu' = cpu /\ waiting' = waiting /\ dropped' = dropped
    BY <1>0, Zenon DEF push_task, PushTo
  <1>2. /\ state'[c].run_queue = Append(state[c].run_queue, t)
        /\ state'[c].sleeping = state[c].sleeping
        /\ state'[c].deferred_drop = state[c].deferred_drop
        /\ \A d \in CPUs \ {c} : state'[d] = state[d]
    BY <1>0, <1>1, Zenon DEF SchedulerState
  <1>3. Appears(t, "run", c, Len(state[c].run_queue) + 1)
    <2>1. /\ SleepingSame /\ DeferredSame /\ WaitingSame
          /\ CurrentSame /\ LocalSame /\ EntrySame
      BY <1>1, <1>2, FieldSame, WaitSame, CpuPlacesSame, Zenon
    <2>2. \A u, x, i : InRun(u, x, i)'
            <=> InRun(u, x, i) \/ (u = t /\ x = c /\ i = Len(state[c].run_queue) + 1)
      BY <1>0, <1>2, RunAppended, Zenon
    <2>3. \A u \in Tasks : \A k, x, i :
            Holds(u, k, x, i)'
              <=> \/ Holds(u, k, x, i)
                  \/ u = t /\ k = "run" /\ x = c /\ i = Len(state[c].run_queue) + 1
      BY <2>1, <2>2 DEF Holds, SleepingSame, DeferredSame, WaitingSame, CurrentSame, LocalSame, EntrySame
    <2>4. home[t] = None /\ home'[t] # None /\ \A u \in Tasks \ {t} : home'[u] = home[u]
      BY ConstantsAssumption, Zenon DEF push_task, IInv, Shape
    <2> QED BY <2>3, <2>4, <1>1, Zenon DEF Appears
  <1>4. \A u \in Tasks : One(u)'
    BY <1>3, Appeared, Zenon DEF PInv
  <1>5. \A d \in CPUs : (CpuPhase(d) /\ DeferredHome(d))'
    <2>1. HomeKept
      BY ConstantsAssumption, Zenon DEF HomeKept, push_task, IInv, Shape
    <2>2. CpuPhase(c)'
      BY <1>1, Zenon DEF PInv, CpuPhase
    <2>3. \A d \in CPUs : state'[d].deferred_drop = state[d].deferred_drop
      BY <1>2, Zenon
    <2> QED BY <2>1, <2>2, <2>3, <1>1, PhaseStep, Zenon
  <1> QED BY <1>4, <1>5 DEF PInv
(* The one that drops some: *)

\* The tasks that c drops are its own, and none of them is the one it files.
LEMMA FileTerminatePlaces ==
  ASSUME IInv, PInv, NEW c \in CPUs, FileTerminate(c)
  PROVE  PInv'
  <1> DEFINE t == cpu[c].task
             D == TasksIn(state[c].deferred_drop)
  <1>0. /\ cpu = [d \in CPUs |-> cpu[d]] /\ cpu[c] \in CPUState
        /\ state = [d \in CPUs |-> state[d]] /\ state[c] \in SchedulerState
        /\ state[c].run_queue \in Seq(Tasks) /\ state[c].sleeping \in Seq(Sleeper)
        /\ None \notin Tasks /\ None \notin WaitingListEntry
    BY LocalTypes
  <1>1. \A d \in CPUs \ {c} : cpu'[d] = cpu[d]
    BY <1>0, Zenon DEF FileTerminate, Arm, At
  <1>2. cpu'[c] = [cpu[c] EXCEPT !.phase = "filed", !.task = None]
    BY <1>0, Zenon DEF FileTerminate, Arm, At
  <1>p. cpu[c].phase = "locked"
    BY Zenon DEF FileTerminate, Arm, At
  <1>3. /\ cpu'[c].phase = "filed" /\ cpu'[c].current = cpu[c].current /\ cpu'[c].task = None
        /\ cpu'[c].entry = cpu[c].entry /\ cpu'[c].stack = cpu[c].stack
    BY <1>0, <1>2 DEF CPUState
  <1>c. CpuPhase(c) /\ CpuOK(c)
    BY DEF PInv, IInv
  <1>4. /\ \A d \in CPUs \ {c} : state'[d] = state[d]
        /\ state'[c] = [state[c] EXCEPT !.deferred_drop = <<t>>]
        /\ waiting' = waiting /\ home' = home /\ dropped' = dropped \cup D
    BY <1>0, Zenon DEF FileTerminate, Arm
  <1>5. t \in Tasks /\ home[t] = c /\ cpu[c].stack = t
    BY <1>c, <1>p, Zenon DEF CpuPhase, CpuOK
  <1>d. /\ \A u : u \in D <=> \E i : InDeferred(u, c, i)
        /\ \A u \in D : u \in Tasks /\ home[u] = c
    <2>1. \A u : u \in D <=> \E i : InDeferred(u, c, i)
      BY Zenon DEF TasksIn, InDeferred
    <2>2. state[c].deferred_drop \in Seq(Tasks)
      BY LocalTypes, Zenon
    <2> QED BY <2>1, <2>2 DEF InDeferred, PInv, DeferredHome
  <1>f. /\ state'[c].deferred_drop = <<t>> /\ state'[c].run_queue = state[c].run_queue
        /\ state'[c].sleeping = state[c].sleeping
    BY <1>0, <1>4, Zenon DEF SchedulerState
  <1>6. ASSUME NEW u \in Tasks, NEW k, NEW x, NEW i
        PROVE  Holds(u, k, x, i)'
                 <=> \/ /\ Holds(u, k, x, i)
                        /\ ~(k = "local" /\ x = c /\ i = 0) /\ ~(k = "deferred" /\ x = c)
                     \/ u = t /\ k = "deferred" /\ x = c /\ i = 1
    <2>1. RunSame /\ SleepingSame /\ WaitingSame /\ CurrentSame /\ EntrySame
      BY <1>1, <1>3, <1>4, <1>f, FieldSame, WaitSame, CpuPlaces, Zenon
    <2>2. IsLocal(u, x)' <=> x # c /\ IsLocal(u, x)
      BY <1>0, <1>1, <1>3, CpuPlaces
    <2>3. InDeferred(u, x, i)' <=> (x # c /\ InDeferred(u, x, i)) \/ (x = c /\ i = 1 /\ u = t)
      <3>1. CASE x = c
        BY <3>1, <1>f DEF InDeferred
      <3>2. CASE x # c
        BY <3>2, <1>4, Zenon DEF InDeferred
      <3> QED BY <3>1, <3>2, Zenon
    <2> HIDE DEF t
    <2> QED BY <2>1, <2>2, <2>3, ZenonT(40) DEF Holds, RunSame, SleepingSame, WaitingSame, CurrentSame, EntrySame
  <1>t. Holds(t, "local", c, 0) /\ t \notin D /\ t \notin dropped /\ t \notin dropped'
    <2>1. Holds(t, "local", c, 0)
      BY Zenon DEF Holds, IsLocal
    <2>2. One(t)
      BY <1>5, Zenon DEF PInv
    <2>3. \A i : ~InDeferred(t, c, i)
      BY <2>1, <2>2, Zenon DEF One, Holds
    <2> QED BY <2>1, <2>2, <2>3, <1>d, <1>4, Zenon DEF One, Live
  <1>7. ASSUME NEW u \in Tasks
        PROVE  One(u)'
    <2>0. One(u)
      BY Zenon DEF PInv
    <2>1. CASE u = t
      <3>1. \A k, x, i : Holds(t, k, x, i) => k = "local" /\ x = c /\ i = 0
        BY <2>0, <2>1, <1>t, Zenon DEF One
      <3>2. \A k, x, i : Holds(u, k, x, i)' <=> k = "deferred" /\ x = c /\ i = 1
        BY <3>1, <2>1, <1>6
      <3>3. Live(u)' /\ home'[u] # None
        BY <2>1, <1>t, <1>4, <1>5, ConstantsAssumption, Zenon DEF Live
      <3> QED BY <3>2, <3>3 DEF One
    <2>2. CASE u # t /\ u \in D
      <3>1. PICK i : Holds(u, "deferred", c, i)
        BY <2>2, <1>d, Zenon DEF Holds
      <3>2. \A k, x, j : ~Holds(u, k, x, j)'
        BY <3>1, <2>0, <2>2, <1>6 DEF One
      <3>3. ~Live(u)' /\ home'[u] # None
        BY <2>2, <1>d, <1>4, ConstantsAssumption, SMTT(30) DEF Live
      <3> QED BY <3>2, <3>3, Zenon DEF One
    <2>3. CASE u # t /\ u \notin D
      <3>1. \A i : ~InDeferred(u, c, i)
        BY <2>3, <1>d, Zenon
      <3>2. \A i : ~Holds(u, "deferred", c, i)
        BY <3>1, Zenon DEF Holds
      <3>3. \A i : ~Holds(u, "local", c, i)
        BY <2>3, Zenon DEF Holds, IsLocal
      <3>4. \A k, x, i : Holds(u, k, x, i)' <=> Holds(u, k, x, i)
        BY <3>2, <3>3, <2>3, <1>6, Zenon
      <3>5. Kept(u)
        BY <2>3, <1>4, Zenon DEF Kept
      <3> QED BY <3>4, <3>5, <2>0 DEF One, Live, Kept
    <2> QED BY <2>1, <2>2, <2>3, Zenon
  <1>8. ASSUME NEW d \in CPUs
        PROVE  CpuPhase(d)' /\ DeferredHome(d)'
    <2>1. CASE d = c
      <3>1. CpuPhase(c)'
        BY <1>p, <1>3, <1>5, <1>c, <1>t, Zenon DEF CpuPhase
      <3>2. DeferredHome(c)'
        BY <1>4, <1>5, <1>f DEF DeferredHome
      <3> QED BY <2>1, <3>1, <3>2, Zenon
    <2>2. CASE d # c
      <3>1. cpu'[d] = cpu[d] /\ state'[d] = state[d]
        BY <2>2, <1>1, <1>4, Zenon
      <3>2. cpu[d].stack \notin dropped'
        <4>1. cpu[d].stack \in Tasks => home[cpu[d].stack] = d
          BY Zenon DEF IInv, CpuOK
        <4>2. cpu[d].stack \notin dropped
          BY Zenon DEF PInv, CpuPhase
        <4> QED BY <4>1, <4>2, <2>2, <1>d, <1>4, Zenon
      <3> QED BY <3>1, <3>2, <1>4 DEF PInv, CpuPhase, DeferredHome
    <2> QED BY <2>1, <2>2, Zenon
  <1> QED BY <1>7, <1>8, Zenon DEF PInv

(* The theorems *)

LEMMA InitPlaces ==
  ASSUME Init
  PROVE  PInv
  <1> USE DEF Init
  <1>1. ASSUME NEW c \in CPUs
        PROVE  /\ state[c].run_queue = <<>> /\ state[c].sleeping = <<>> /\ state[c].deferred_drop = <<>>
               /\ cpu[c].phase = "boot" /\ cpu[c].current = None /\ cpu[c].task = None
               /\ cpu[c].entry = None /\ cpu[c].stack = None
    BY Zenon
  <1>2. \A l \in Lists : waiting[l] = <<>>
    BY Zenon
  <1>3. ASSUME NEW t \in Tasks
        PROVE  One(t)
    <2>1. t # None
      BY ConstantsAssumption, Zenon
    <2>2. \A k, x, i : ~Holds(t, k, x, i)
      <3>1. \A x, i : ~InRun(t, x, i) /\ ~InSleeping(t, x, i) /\ ~InDeferred(t, x, i)
        BY <1>1 DEF InRun, InSleeping, InDeferred
      <3>2. \A x, i : ~InWaiting(t, x, i)
        BY <1>2 DEF InWaiting
      <3>3. \A x : ~IsCurrent(t, x) /\ ~IsLocal(t, x) /\ ~IsEntry(t, x)
        BY <1>1, <2>1, Zenon DEF IsCurrent, IsLocal, IsEntry
      <3> QED BY <3>1, <3>2, <3>3, Zenon DEF Holds
    <2>3. ~Live(t) /\ t \notin dropped
      BY Zenon DEF Live
    <2> QED BY <2>2, <2>3, Zenon DEF One
  <1>4. ASSUME NEW c \in CPUs
        PROVE  CpuPhase(c) /\ DeferredHome(c)
    BY <1>1 DEF CpuPhase, DeferredHome
  <1> QED BY <1>3, <1>4, Zenon DEF PInv

LEMMA TaskYieldsPlaces ==
  ASSUME IInv, PInv, NEW c \in CPUs, TaskYields(c)
  PROVE  PInv'
  <1>1. \E command : yield_to_scheduler(c, command)
    BY Zenon DEF TaskYields, wait_inner
  <1> QED BY <1>1, YieldPlaces, Zenon

LEMMA NextPlaces ==
  ASSUME IInv, PInv, [Next]_vars
  PROVE  PInv'
  <1>1. ASSUME NEW c \in CPUs, CPUStep(c)
        PROVE  PInv'
    BY <1>1, SchedulePlaces, FileTerminatePlaces, FileSleepPlaces, FileWaitPlaces,
       FilePushBackPlaces, UnlockStatePlaces, PickNextPlaces, ResumePlaces, Zenon DEF CPUStep
  <1>2. ASSUME NEW c \in CPUs, TickStep(c)
        PROVE  PInv'
    BY <1>2, LocksAndClocks, TickEntryPlaces, Zenon DEF TickStep
  <1>3. ASSUME NEW c \in CPUs, NEW t \in Tasks, init_scheduler(c, t) \/ push_task(c, t)
        PROVE  PInv'
    BY <1>3, InitSchedulerPlaces, PushTaskPlaces, Zenon
  <1>4. ASSUME NEW c \in CPUs, NEW l \in Lists,
               LockList(c, l) \/ UnlockList(c, l) \/ notify_inner(c, l)
        PROVE  PInv'
    BY <1>4, LocksAndClocks, NotifyInnerPlaces, Zenon
  <1>5. CASE UNCHANGED vars
    BY <1>5, NoPlaces, Zenon DEF vars
  <1> QED BY <1>1, <1>2, <1>3, <1>4, <1>5, TaskYieldsPlaces, PushTaskToPlaces, Zenon DEF Next

\* The types and homes of SchedulerProofs, and the places, are inductive together.
THEOREM PlacesInvariance == Spec => [](IInv /\ PInv)
  <1>1. Init => PInv
    BY InitPlaces, Zenon
  <1>2. IInv /\ PInv /\ [Next]_vars => PInv'
    BY NextPlaces, Zenon
  <1> QED BY <1>1, <1>2, Invariance, PTL DEF Spec

(***************************************************************************)
(* A task is neither lost nor duplicated by the commands, wake-ups and     *)
(* ticks of any number of CPUs: until it is dropped it is in exactly one   *)
(* run queue, sleeping list, waiting list or local of the scheduler.       *)
(***************************************************************************)
THEOREM OnePlaceHolds == Spec => []OnePlace
  <1>1. IInv /\ PInv => OnePlace
    BY Types, Places, Zenon DEF PInv
  <1> QED BY <1>1, PlacesInvariance, PTL

(***************************************************************************)
(* deferred_drop holds a terminated task back until its CPU has left its   *)
(* stack: no CPU runs on a stack that is freed.                            *)
(***************************************************************************)
THEOREM StackAliveHolds == Spec => []StackAlive
  <1>1. PInv => StackAlive
    BY Zenon DEF PInv, CpuPhase, StackAlive
  <1> QED BY <1>1, PlacesInvariance, PTL
=============================================================================
