----------------------------- MODULE KernelHeap -----------------------------
(***************************************************************************)
(* The kernel heap (memory/kernel_heap.rs): an allocator behind a spin     *)
(* lock that, when it is out of memory, adds a reserve set aside for that  *)
(* and spawns the tasks that log it, set up the next reserve and grow the  *)
(* heap.  Spawning them takes locks and allocates from the same heap.      *)
(*                                                                         *)
(* A CPU is a stack of frames: an operation of the kernel that holds a     *)
(* lock and may allocate meanwhile, an allocation inside it, the           *)
(* out-of-memory hook inside that, the operations that spawn a task inside *)
(* the hook, and so on; or a task that the hook has spawned.  Inside an    *)
(* allocation interruptions are disabled.  Outside, a CPU is not           *)
(* interrupted either: there are no interrupt handlers here, nor yields.   *)
(*                                                                         *)
(* Memory is counted in units; an allocation on the heap takes one, a      *)
(* task's stack takes one of physical memory.  What is given back to the   *)
(* heap, and when, is left open.                                           *)
(***************************************************************************)
EXTENDS Integers, Sequences, FiniteSetsExt

CONSTANTS
  CPUs, BSP,      \* the CPUs, and the one that boots
  HEAP, PHYS,     \* the initial heap, and the physical memory
  BOOT_STACK,     \* the bootstrap stack
  RESCUE, EXPAND, \* RESCUE_SIZE and POST_RESCUE_EXPAND_SIZE
  OtherCode,      \* OtherCode[c]: the operations that other code performs on c
  MAX_GROWTHS     \* bound: MAX_GROWTHS[c]: how often the no-interruptions stack of c grows

ASSUME KernelHeapAssumption ==
  /\ BSP \in CPUs
  /\ HEAP \in Nat /\ PHYS \in Nat /\ BOOT_STACK \in Nat
  /\ RESCUE \in Nat /\ EXPAND \in Nat /\ MAX_GROWTHS \in [CPUs -> Nat]
  /\ OtherCode \in [CPUs -> SUBSET {"box", "log", "pfree", "map", "push"}]

VARIABLES
  free, used, \* the units of the heap
  phys,       \* free physical memory
  rescue,     \* GLOBAL_RESCUE holds a reserve
  queue,      \* queue[c]: the tasks that wait to run on c
  deferred,   \* deferred[c]: the terminated tasks of c that are not dropped yet
  growths,    \* growths[c]: how often the no-interruptions stack of c has grown
  frames,     \* frames[c]: the stack of c, the innermost frame last
  halted      \* the CPUs that have panicked

memory == <<free, used, phys>>
tasks == <<queue, deferred>>
vars == <<memory, rescue, tasks, growths, frames, halted>>

(***************************************************************************)
(* An operation is named for what it does under its lock: write a log      *)
(* message, allocate or free physical memory, change the kernel's page     *)
(* table, push a task, terminate one, store a reserve, add memory to the   *)
(* heap, or push to the no-interruptions stack.  "box" is an allocation.   *)
(***************************************************************************)
LockOf == [log |-> "PIPELINE", palloc |-> "PHYSMEM_ALLOCATOR", pfree |-> "PHYSMEM_ALLOCATOR",
           map |-> "KERNEL_PTABLE", push |-> "SCHEDULER_STATE", exit |-> "SCHEDULER_STATE",
           store |-> "GLOBAL_RESCUE", grow |-> "heap", ni |-> "NOINTERRUPTIONS_STATE"]
Operations == DOMAIN LockOf
HMutexes == {"PHYSMEM_ALLOCATOR", "KERNEL_PTABLE"}
PerCPU == {"SCHEDULER_STATE", "NOINTERRUPTIONS_STATE"}

\* push, exit and the rest begin with disable_interruptions; the heap's own lock
\* does not.
Guarded(o) == o \in Operations \ {"grow", "ni"}

\* The operations that spawn a task: its arguments, its stack, and the push.
Spawn == <<"box", "palloc", "map", "push">>

\* Faulty variant: the hook does not see to the next reserve.
SpawnedNoReserve == <<"notify", "expand", "expand">>

Spawned == <<"notify", "reinit", "expand">>

(***************************************************************************)
(* What the hook does once it has the reserve, and what the tasks do.  The *)
(* boot task only ends here; what it does before is other code.            *)
(***************************************************************************)
Program == [hook   |-> [n \in 1 .. 13 |-> IF n = 1 THEN "grow" ELSE Spawn[1 + ((n + 2) % 4)]],
            boot   |-> <<"exit">>,
            notify |-> <<"log", "exit">>,
            reinit |-> <<"log", "palloc", "map", "log", "store", "exit">>,
            expand |-> <<"log", "palloc", "map", "grow", "exit">>]
Routines == DOMAIN Program
Tasks == Routines \ {"hook"}
TaskAt(n) == Spawned[(n + 2) \div 4]
Size == [hook |-> 1, reinit |-> RESCUE, expand |-> EXPAND]

Places == {"lock", "held", "unlock", "alloc", "retry", "take", "run", "fail"}
Frame == [at : Places, id : Operations \cup Routines \cup {"box"}, n : Nat]

Enter(o) == [at |-> IF o = "box" THEN "alloc" ELSE "lock", id |-> o, n |-> 0]
Hook == [at |-> "take", id |-> "hook", n |-> 0]

\* Routine k, and on top of it its n-th operation; nothing is left of it at its end.
Routine(k, n) ==
  IF n > Len(Program[k]) THEN <<>> ELSE <<[at |-> "run", id |-> k, n |-> n], Enter(Program[k][n])>>

Top(c) == frames[c][Len(frames[c])]
Below(c) == SubSeq(frames[c], 1, Len(frames[c]) - 1)
Idle(c) == c \notin halted /\ frames[c] = <<>>
At(c, p) == c \notin halted /\ frames[c] # <<>> /\ Top(c).at = p

Replace(c, s) == frames' = [frames EXCEPT ![c] = Below(c) \o s]
Call(c, p, f) == Replace(c, <<[Top(c) EXCEPT !.at = p], f>>)
Return(c) == Replace(c, <<>>)
Panic(c) == halted' = halted \cup {c}

Holds(c, l) == \E i \in 1 .. Len(frames[c]) : LET f == frames[c][i] IN
  f.id \in Operations /\ LockOf[f.id] = l /\ f.at \in {"held", "unlock", "retry"}
Taken(c, l) == Holds(c, l) \/ (l \notin PerCPU /\ \E d \in CPUs : Holds(d, l))
Waits(c, l) == At(c, "lock") /\ LockOf[Top(c).id] = l

\* c is inside an allocation that has run out of memory.
InHook(c) == \E i \in 1 .. Len(frames[c]) : frames[c][i].at = "retry"
\* c is in schedule(), after its task has terminated.
Terminating(c) == \E i \in 1 .. Len(frames[c]) : frames[c][i].id = "exit"
----------------------------------------------------------------------------
\* Faulty variant: the reserve is there before the task that sets it up has run.
InitWithReserve ==
  /\ free = HEAP /\ used = 0 /\ phys = PHYS
  /\ rescue = TRUE
  /\ queue = [c \in CPUs |-> IF c = BSP THEN <<"reinit", "boot">> ELSE <<>>]
  /\ deferred = [c \in CPUs |-> <<>>]
  /\ growths = [c \in CPUs |-> 0]
  /\ frames = [c \in CPUs |-> <<>>] /\ halted = {}

\* init_kheap has run and init_kheap_2 has spawned _reinit_rescue; the boot task, on
\* the bootstrap stack, waits for tasks it has spawned since, and is behind it.
Init ==
  /\ free = HEAP /\ used = 0 /\ phys = PHYS
  /\ rescue = FALSE
  /\ queue = [c \in CPUs |-> IF c = BSP THEN <<"reinit", "boot">> ELSE <<>>]
  /\ deferred = [c \in CPUs |-> <<>>]
  /\ growths = [c \in CPUs |-> 0]
  /\ frames = [c \in CPUs |-> <<>>] /\ halted = {}

(* Operations under a lock *)

\* An operation of the code that the heap serves.
Begin(c, o) ==
  /\ Idle(c)
  /\ frames' = [frames EXCEPT ![c] = <<Enter(o)>>]
  /\ UNCHANGED <<memory, rescue, tasks, growths, halted>>

\* c is about to call disable_interruptions.
Disables(c) == At(c, "take") \/ (At(c, "lock") /\ Guarded(Top(c).id))

\* disable_interruptions, at the start of lock() or try_lock() of a KMutex or an
\* HMutex, finds its stack full and lets it grow while it holds the LLMutex.
GrowStack(c) ==
  /\ Disables(c)
  /\ ~Holds(c, "NOINTERRUPTIONS_STATE") /\ growths[c] < MAX_GROWTHS[c]
  /\ growths' = [growths EXCEPT ![c] = @ + 1]
  /\ Call(c, Top(c).at, Enter("ni"))
  /\ UNCHANGED <<memory, rescue, tasks, halted>>

\* What is done under a lock may allocate; a push to a full stack does.
Lock(c) ==
  /\ At(c, "lock") /\ ~Taken(c, LockOf[Top(c).id])
  /\ Guarded(Top(c).id) => ~Holds(c, "NOINTERRUPTIONS_STATE")
  /\ \/ Top(c).id # "ni" /\ Replace(c, <<[Top(c) EXCEPT !.at = "held"]>>)
     \/ Top(c).id \notin {"store", "grow"} /\ Call(c, "held", Enter("box"))
  /\ UNCHANGED <<memory, rescue, tasks, growths, halted>>

\* relax: a task that meets a taken HMutex yields, which panics inside an
\* allocation, where interruptions are disabled; the scheduler itself spins.
YieldPanics(c) ==
  /\ \E l \in HMutexes : Waits(c, l) /\ Taken(c, l)
  /\ ~Holds(c, "NOINTERRUPTIONS_STATE")
  /\ InHook(c) /\ ~Terminating(c)
  /\ Panic(c)
  /\ UNCHANGED <<memory, rescue, tasks, growths, frames>>

InBody(c, o) == At(c, "held") /\ Top(c).id = o

\* The operation on top is a step of a routine.  When it ends, the next one begins.
InRoutine(c) == Len(frames[c]) > 1 /\ frames[c][Len(frames[c]) - 1].at = "run"
Caller(c) == frames[c][Len(frames[c]) - 1]
BelowCaller(c) == SubSeq(frames[c], 1, Len(frames[c]) - 2)
Done(c) == frames' = [frames EXCEPT ![c] =
  IF InRoutine(c) THEN BelowCaller(c) \o Routine(Caller(c).id, Caller(c).n + 1) ELSE Below(c)]

\* The operations whose effect is not modelled: writing a message, mapping pages,
\* and the push to the no-interruptions stack.
Body(c, o) ==
  /\ InBody(c, o)
  /\ Done(c)
  /\ UNCHANGED <<memory, rescue, tasks, growths, halted>>

_kernel_log(c) == Body(c, "log")
MapPages(c) == Body(c, "map")
PushState(c) == Body(c, "ni")

\* palloc: a refusal is logged with the allocator locked.
palloc(c) ==
  LET size == Size[Caller(c).id] IN
  /\ InBody(c, "palloc")
  /\ \/ phys >= size /\ phys' = phys - size /\ Done(c)
     \/ /\ phys < size /\ UNCHANGED phys
        /\ frames' = [frames EXCEPT ![c] = BelowCaller(c)
             \o <<[Caller(c) EXCEPT !.at = "fail"], [Top(c) EXCEPT !.at = "unlock"], Enter("log")>>]
  /\ UNCHANGED <<free, used, rescue, tasks, growths, halted>>

\* The page table gives no virtual memory for what the routine has allocated: it is
\* dropped, and the routine fails as if palloc had refused it.  With assertions on,
\* OffsetMappedAllocation::alloc_new panics before that.
MapRefused(c) ==
  /\ InBody(c, "map") /\ InRoutine(c)
  /\ frames' = [frames EXCEPT ![c] = BelowCaller(c)
       \o <<[Caller(c) EXCEPT !.at = "fail", !.n = @ - 1],
            [Enter("pfree") EXCEPT !.n = Size[Caller(c).id]]>>]
  /\ UNCHANGED halted \/ (Caller(c).id # "hook" /\ Panic(c))
  /\ UNCHANGED <<memory, rescue, tasks, growths>>

\* Drop of PhysicalMemoryAllocation: that of a stack, or of what was not mapped.
pfree(c) ==
  /\ InBody(c, "pfree")
  /\ phys' = phys + Top(c).n
  /\ Done(c)
  /\ UNCHANGED <<free, used, rescue, tasks, growths, halted>>

push_task(c) ==
  /\ InBody(c, "push")
  /\ queue' = IF InRoutine(c) THEN [queue EXCEPT ![c] = Append(@, TaskAt(Caller(c).n))] ELSE queue
  /\ Done(c)
  /\ UNCHANGED <<memory, rescue, deferred, growths, halted>>

\* *GLOBAL_RESCUE.lock() = Some(nr): what was there before is dropped.
StoreRescue(c) ==
  /\ InBody(c, "store")
  /\ rescue' = TRUE
  /\ phys' = IF rescue THEN phys + RESCUE ELSE phys
  /\ Done(c)
  /\ UNCHANGED <<free, used, tasks, growths, halted>>

Added(c) == IF InRoutine(c) THEN (IF Caller(c).id = "hook" THEN RESCUE ELSE EXPAND) ELSE Top(c).n

\* Faulty variant: the allocation is dropped after its memory went to the heap.
AddToHeapDrops(c) ==
  /\ InBody(c, "grow")
  /\ free' = free + Added(c)
  /\ phys' = IF InRoutine(c) /\ Caller(c).id = "expand" THEN phys + EXPAND ELSE phys
  /\ Done(c)
  /\ UNCHANGED <<used, rescue, tasks, growths, halted>>

\* heap.lock().init(...), and the allocation is leaked or forgotten; or
\* reclaim_for_heap.  In grow_kheap the heap is locked with interruptions enabled:
\* that nothing comes in between is an abstraction of this module.
AddToHeap(c) ==
  /\ InBody(c, "grow")
  /\ free' = free + Added(c)
  /\ Done(c)
  /\ UNCHANGED <<used, phys, rescue, tasks, growths, halted>>

\* The operations that drop a terminated task: its stack is unmapped and freed, the
\* bootstrap stack is logged and reclaimed.
DropTask(k) == IF k = "boot" THEN <<[Enter("grow") EXCEPT !.n = BOOT_STACK], Enter("log")>>
                              ELSE <<[Enter("pfree") EXCEPT !.n = 1], Enter("map")>>

\* schedule(Terminate): deferred_drop.clear() and deferred_drop.push(current_task).
Terminate(c) ==
  /\ InBody(c, "exit")
  /\ deferred' = [deferred EXCEPT ![c] = <<Caller(c).id>>]
  /\ frames' = [frames EXCEPT ![c] = <<[Top(c) EXCEPT !.at = "unlock"]>>
       \o (IF deferred[c] = <<>> THEN <<>> ELSE DropTask(deferred[c][1]))]
  /\ UNCHANGED <<memory, rescue, queue, growths, halted>>

Unlock(c) ==
  /\ At(c, "unlock")
  /\ Return(c)
  /\ UNCHANGED <<memory, rescue, tasks, growths, halted>>

(* KernelHeap: alloc, dealloc, and the hook *)

\* Faulty variant: the guard of the heap's lock lives on while the hook runs.
AllocKeepsGuard(c) ==
  /\ At(c, "alloc") /\ ~Taken(c, "heap")
  /\ \/ free > 0 /\ free' = free - 1 /\ used' = used + 1 /\ Done(c)
     \/ /\ free = 0 /\ UNCHANGED <<free, used>>
        /\ Replace(c, <<[Top(c) EXCEPT !.at = "retry", !.id = "grow"], Hook>>)
  /\ UNCHANGED <<phys, rescue, tasks, growths, halted>>

alloc(c) ==
  /\ At(c, "alloc") /\ ~Taken(c, "heap")
  /\ \/ free > 0 /\ free' = free - 1 /\ used' = used + 1 /\ Done(c)
     \/ free = 0 /\ Call(c, "retry", Hook) /\ UNCHANGED <<free, used>>
  /\ UNCHANGED <<phys, rescue, tasks, growths, halted>>

\* The second attempt, after on_oom; the caller of a failed allocation panics.
Retry(c) ==
  /\ At(c, "retry") /\ ~Taken(c, "heap")
  /\ \/ free > 0 /\ free' = free - 1 /\ used' = used + 1 /\ Done(c) /\ UNCHANGED halted
     \/ free = 0 /\ Panic(c) /\ UNCHANGED <<free, used, frames>>
  /\ UNCHANGED <<phys, rescue, tasks, growths>>

dealloc(c) ==
  /\ Idle(c) /\ used > 0 /\ ~Taken(c, "heap")
  /\ used' = used - 1 /\ free' = free + 1
  /\ UNCHANGED <<phys, rescue, tasks, growths, frames, halted>>

\* Faulty variant: the reserve is used and not taken out.
TakeRescueLeaves(c) ==
  /\ At(c, "take") /\ ~Holds(c, "NOINTERRUPTIONS_STATE")
  /\ \/ rescue /\ ~Taken(c, "GLOBAL_RESCUE") /\ Replace(c, Routine("hook", 1))
     \/ (~rescue \/ Taken(c, "GLOBAL_RESCUE")) /\ Return(c)
  /\ UNCHANGED <<rescue, memory, tasks, growths, halted>>

\* _use_rescue, up to the end of the temporary guard; without a reserve, or with
\* its lock taken, the hook returns.
TakeRescue(c) ==
  /\ At(c, "take") /\ ~Holds(c, "NOINTERRUPTIONS_STATE")
  /\ \/ /\ rescue /\ ~Taken(c, "GLOBAL_RESCUE")
        /\ rescue' = FALSE /\ Replace(c, Routine("hook", 1))
     \/ (~rescue \/ Taken(c, "GLOBAL_RESCUE")) /\ Return(c) /\ UNCHANGED rescue
  /\ UNCHANGED <<memory, tasks, growths, halted>>

(* The steps of the hook and of the tasks *)

Run(c) ==
  /\ Idle(c) /\ queue[c] # <<>>
  /\ queue' = [queue EXCEPT ![c] = Tail(@)]
  /\ frames' = [frames EXCEPT ![c] = Routine(Head(queue[c]), 1)]
  /\ UNCHANGED <<memory, rescue, deferred, growths, halted>>

\* Physical or virtual memory was refused: spawn_kernel_task_v unwraps the missing
\* stack and panics; the tasks log that they give up.
Refused(c) ==
  LET f == Top(c) IN
  /\ At(c, "fail")
  /\ \/ f.id = "hook" /\ Panic(c) /\ UNCHANGED frames
     \/ /\ f.id # "hook" /\ UNCHANGED halted
        /\ Replace(c, Routine("notify", 1))
  /\ UNCHANGED <<memory, rescue, tasks, growths>>
----------------------------------------------------------------------------
Step(c) ==
  \/ GrowStack(c) \/ Lock(c) \/ YieldPanics(c) \/ Unlock(c)
  \/ _kernel_log(c) \/ MapPages(c) \/ MapRefused(c) \/ PushState(c)
  \/ palloc(c) \/ pfree(c)
  \/ push_task(c) \/ StoreRescue(c) \/ AddToHeap(c) \/ Terminate(c)
  \/ alloc(c) \/ Retry(c) \/ TakeRescue(c) \/ Refused(c)

Next == \E c \in CPUs :
  \/ \E o \in OtherCode[c] : Begin(c, o)
  \/ dealloc(c)
  \/ Run(c)
  \/ Step(c)

(***************************************************************************)
(* Every CPU goes on with what it does, comes to run its tasks, and gets a *)
(* lock that becomes free again and again.                                 *)
(***************************************************************************)
Fairness == \A c \in CPUs : SF_vars(Step(c)) /\ SF_vars(Run(c))

Spec == Init /\ [][Next]_vars /\ Fairness
----------------------------------------------------------------------------
(* Properties *)

\* The memory that a task, and that a frame owns: a frame of a routine from the
\* operation that allocates it to the one that passes it on.
StackOf(k) == IF k = "boot" THEN BOOT_STACK ELSE 1
Between(f, first, last, size) == IF f.n \in first + 1 .. last THEN size ELSE 0
Owned(f) ==
  CASE f.id \in {"grow", "pfree"} -> f.n
    [] f.id = "hook" -> Between(f, 0, 1, RESCUE)
         + Between(f, 3, 5, 1) + Between(f, 7, 9, 1) + Between(f, 11, 13, 1)
    [] f.id = "reinit" -> 1 + Between(f, 2, 5, RESCUE)
    [] f.id = "expand" -> 1 + Between(f, 2, 4, EXPAND)
    [] f.id \in {"boot", "notify"} -> StackOf(f.id)
    [] OTHER -> 0

SumSeq(s, op(_)) == MapThenSumSet(LAMBDA i : op(s[i]), DOMAIN s)

\* Every unit of memory has one owner: the heap, the physical memory allocator, the
\* reserve, or a task or a routine.  What grow_kheap and the hook add to the heap is
\* not freed by the destructor as well, and no stack is lost or freed twice.
MemoryHasOneOwner ==
  free + used + phys + (IF rescue THEN RESCUE ELSE 0)
    + MapThenSumSet(LAMBDA c : SumSeq(queue[c], StackOf) + SumSeq(deferred[c], StackOf)
                               + SumSeq(frames[c], Owned), CPUs)
  = HEAP + PHYS + BOOT_STACK + 1

\* When _reinit_rescue stores a reserve there is none: the assignment under the
\* lock of GLOBAL_RESCUE never drops one.
ReserveNeverOverwritten ==
  \A c \in CPUs : InBody(c, "store") => ~rescue

\* A hook that is entered from within a hook, by an allocation of a spawn, never
\* gets a reserve of its own, so that the recursion ends there.
HooksDoNotStack ==
  \A c \in CPUs : \A i, j \in 1 .. Len(frames[c]) :
    (i < j /\ frames[c][i].id = "hook" /\ frames[c][j].id = "hook") => frames[c][j].at = "take"

\* A CPU that waits for a lock it holds itself.
HangsOn(c, l) == Waits(c, l) /\ Holds(c, l)
Hung(c) ==
  \/ \E l \in {LockOf[o] : o \in Operations} : HangsOn(c, l)
  \/ Disables(c) /\ Holds(c, "NOINTERRUPTIONS_STATE")

\* Of the locks that the hook takes, a CPU never waits for three that it holds
\* itself, whatever called the allocator: the heap's, whose guard is dropped before
\* the hook runs; that of the reserve; and, unless memory was refused, the logger's,
\* since that a reserve was used is logged by a task.
RescueHangsOnCallersLocks == \A c \in CPUs :
  /\ ~HangsOn(c, "heap") /\ ~HangsOn(c, "GLOBAL_RESCUE")
  /\ HangsOn(c, "PIPELINE") => \E i \in 1 .. Len(frames[c]) : frames[c][i].at = "fail"

\* A reserve that is used is replaced, unless memory is refused, a CPU panics or a
\* CPU waits for a lock of its own: the spawned task gets to run and stores it.
ReserveComesBack ==
  (\E c \in CPUs : \E i \in 1 .. Len(frames[c]) : frames[c][i].id = "hook" /\ frames[c][i].at = "run")
    ~> \/ rescue
       \/ halted # {}
       \/ \E c \in CPUs : Hung(c) \/ At(c, "fail")
=============================================================================
