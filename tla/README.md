# Verification of the cookie_os kernel

TLA+ models of the concurrent and the stateful parts of the cookie_os kernel
(`src/kernel/rust`), the TLC runs that check them on small instances, and proofs,
checked by TLAPS, of the central properties for instances of every size.
`PROJECT.json` maps each definition to the lines it models and lists the parts
of the system, the runs, the mutants, the hazards, the findings and the
theorems.

## 1. The system

cookie_os is a kernel in Rust for x86-64 (`src/kernel/rust/src`); the older
kernel it is being rewritten from (`src/kernel/rust_old`) is not compiled. In
the current one the other CPUs are not started yet (`todo!()`) and there are no
interrupt handlers, but the code is written for both, and is modelled with both.

| part | source | who uses it | modelled by |
|---|---|---|---|
| reader-writer lock word | `sync/baselocks.rs` | every RwLock flavour | `BaseRwLock`, `RwLock` (what it promises) |
| no-interruption sections, KMutex | `multitasking/interruptions.rs`, `sync/nointerruptionslocks.rs` | scheduler, heap, all K- and H-locks | `Interruptions` |
| hybrid locks | `sync/hspin.rs` | memory management | `HybridLock` (extends `Interruptions`) |
| scheduler, tasks, tick | `multitasking/scheduler.rs`, `task.rs`, context switch | everything that blocks | `Scheduler` |
| waiting lists, yielding locks | `sync/waitlist.rs`, `sync/yspin.rs` | queues, promises | `Scheduler`, `WaitingList` (extends it) |
| WQueue | `sync/queue.rs` | tasks | `WQueue` (extends `WaitingList`) |
| promises, acknowledgements | `sync/promise.rs` | tasks | `Promise` (extends `WaitingList`) |
| CPU-local values | `multitasking/cpulocal.rs` | scheduler, paging | `CpuLocal` |
| descriptor tables | `descriptors.rs` | (kernel objects) | `Descriptors` |
| physical memory | `memory/physical.rs` | paging, heap, unified memory | `Buddy` |
| allocators of virtual addresses | `memory/paging/allocators/*`, `strategy.rs`, `sealed.rs`, the write guard of `api.rs` | all mappings | `FirstFit` |
| contexts, active tables, TLB | `memory/paging/api.rs`, `global_pages.rs`, `arch/x86_64.rs` | all mappings | `PagingContext` |
| unified memory, stacks | `memory/unified.rs` | task stacks, heap growth | `Unified` (extends `Buddy`) |
| kernel heap | `memory/kernel_heap.rs`, `alloc_util.rs`, and the spawning, logging and locking it does | everything | `KernelHeap` |
| start-up, logging, panic, CPU tables, drivers | `lib.rs`, `logging.rs`, `panic.rs`, `cpu/`, `coredrivers/` | | no (section 8) |
| the previous kernel | `src/kernel/rust_old` | | no, except as a plan |

The composition follows the code: a queue or a promise runs on the scheduler's
own steps (`WQueue`, `Promise` extend `WaitingList` extends `Scheduler`), a
hybrid lock on the steps of the no-interruption stack (`HybridLock` extends
`Interruptions`), a unified allocation takes and gives back its memory with the
steps of the buddy allocator (`Unified` extends `Buddy`), and the lock word is
shown to implement the abstract lock (`BaseRwLock` instantiates `RwLock`). The
heap calls into everything below it while it is out of memory; `KernelHeap` has
those calls as frames on a CPU's stack, each reduced to its lock, the allocations
made under it and the memory it moves.

## 2. The modules

**`RwLock`** is the abstract lock: each thread holds it as a reader, an
upgradable reader, a writer or not at all. **`BaseRwLock`** is the word of
`BaseRwLockRaw`. Its state is the AtomicUsize `value` and a program point per
thread; an action is one atomic access: `AddShared`/`UndoShared` are the
`fetch_add` of an attempt and the `fetch_sub` that takes it back, the `Spin`
actions the wait loops, the rest unlocks, upgrades and downgrades. A thread in
`TryCallers` may also give up after a failed attempt (`try_*`). The word wraps
at `USIZE`.

**`Interruptions`** has one CPU: the interrupt flag, the yield flag, the
CPU-local stack of saved states behind its LLMutex, the KMutexes, and the
contexts: the code, and the handlers that have interrupted it. Each function
is cut at the places where an interrupt may come in between (`DisableSwap`,
`LockStack`, `DisablePush`, `EnableClear`, ...). Guards are dropped in any
order. `OtherCPU` lets other CPUs hold a mutex. **`HybridLock`** adds
`HMutex::lock` in context 0: `HTry` and `HTried` are the `try_lock` under a
guard of `Interruptions`, `HRelax` the wait, with the assertion of
`yield_to_scheduler`. The call is made with or without guards held.

**`Scheduler`** has several CPUs. `cpu[c]` is what a CPU executes, with the
task whose stack it runs on. The tasks issue any commands in any order. The
phases of `schedule()` are actions (take the task, file it, release the lock,
pick the next, switch); `_scheduler_tick`, `TickEntry` and `TickDone` are the
loop of the timer tick, which interrupts the CPU wherever its lock allows.
`notify_inner` is in two steps: it takes the entry out of the list, and then
pushes it to the other CPU's queue (`push_task_to`). **`WaitingList`** has the
steps of programs that use a list; **`WQueue`** and **`Promise`** give each task
a program: a getter, a pusher, a poller; a getter, a poller, one of several
threads that share a fulfiller and drop it. `Promise` covers both `Promise`
and `Acknowledgement` (`is_ack`).

**`CpuLocal`** is `_get_for_inner` cut at its lock operations.
**`Descriptors`** has slots in a tree of tables, with one action per atomic
access to a count, an id or a sub-table pointer, for handles in every stage of
creation, acquisition, cloning and drop.

**`Buddy`** is the allocator of physical memory as a sequential state machine
(every entry point holds the lock): `init_pmem` with its recursion, `palloc`
with the splits and the drop with the merges. **`FirstFit`** is the multi-level
allocator as recursive operators over a tree of tables, each with its entries,
its sub-tables and its availability, and the operations of the write guard as
actions. A call has three outcomes: an allocation, None, a panic; a call that
fails leaves the table as the code leaves it. Arithmetic is that of the default
build, in which an underflow panics.

**`Unified`** has allocations with the sections of their backing and slots of
virtual memory, over `Buddy` for the physical blocks and one page table for the
virtual ones. The inner lock is held throughout an operation, so `map_vmem`,
`expand` (downwards or upwards) and the drop of a guard (`drop_guard`) are an
action each; the drop of the backing comes after the lock is released and is
one action per section (`DropSection`). `RemapTurn` is one turn of the loop of
`_remap_pages`, for a section and a piece of a slot: map it, drop it, put it
back, or split it. `stack_alloc_new` and `drop_stack` are `AllocatedStack`. The
search for virtual memory is left open: `allocate` returns any free range or none
(`Starts`), and `allocate_at` may refuse a range that is free, as it does when
a sub-table it begins or ends in counts as more than half full; `FirstFit` has the search. A `failed`
state is one in which an `unwrap`, `expect` or `unreachable!` of the file was reached.

**`PagingContext`** has threads on CPUs, the contexts and the global tables
with `active_count` and lock, the tables' entries, and each CPU's CR3 and TLB.
`_begin_active`, `LockActivated`, `SwitchTable`, `_end_active` and `Release`
are `activate()`; `write_when_active`, `LoadCount`, `Write`, `invalidate_tlb`
are a write through the guard. `Fill` is the processor, which may cache a
translation at any time (external). `missed` remembers the translations that a
CPU had cached when another CPU changed the entry: the code only invalidates
its own CPU's (`arch/x86_64.rs:244`, a TODO).

**`KernelHeap`** is a stack of frames per CPU. A frame is an operation that
takes a lock (`LockOf`), an allocation (`"box"`), the out-of-memory hook, or a
routine: the hook after it has got the reserve, or a task. `Program` lists the
operations of a routine, `Routine` and `Done` go from one to the next. Under a
lock the code may allocate (`Lock`), the allocation may enter the hook (`alloc`),
the hook takes the reserve (`TakeRescue`), adds it to the heap and spawns three
tasks, and each spawn allocates again, takes physical memory, maps it and pushes
the task. `Retry` is the second attempt. `GrowStack` is the allocation in
`disable_interruptions` itself, when its stack is full. `Begin` is the rest of
the kernel: any operations of `OtherCode`, in any order. A refused `palloc` logs
with the allocator locked, and its caller then panics or gives up (`Refused`).
The page table may refuse at any time (`MapRefused`): what was allocated is
dropped and the caller fails in the same way; the `debug_assert` of
`OffsetMappedAllocation::alloc_new` may panic before that, as it does in the
default build. Interrupts and yields of the code that the heap serves are not part
of the module.
`Terminate` and `DropTask` are the end of a task, with the deferred drop of the
one before, which gives the boot stack to the heap.

`...MC` modules give the constants their values for TLC; `...Proofs` modules
hold the theorems. `InterruptionsProofs` has those of `HybridLock` as well, and
`WaitingListProofs` those of `WQueue` and `Promise`, over `SchedulerProofs`.

## 3. The runs

| run | instance | shows |
|---|---|---|
| `rwlock` | 4 threads, 2 of which also use try_*; a 10-bit word | mutual exclusion, exact counts in the word, refinement of `RwLock`; someone gets a free lock, an upgrade completes |
| `interruptions` | an HMutex, a KMutex, up to 3 entries, a handler, a section | interruptions stay off while a guard lives and come back as they were; nobody waits for a lock of its own CPU; a hybrid wait leaves interruptions as its caller had them |
| `scheduler` | 2 CPUs, 2 tasks, 1 list, 2 ticks | no shared or freed stack, no lost or doubled task, no late sleeper; a due task runs |
| `wqueue` | 2 CPUs, 2 getters, 2 pushers, a poller | items are neither lost nor doubled; every get returns, so that no wake-up is lost |
| `promise` | 2 CPUs, 2 getters, 2 fulfilling threads, a poller | one outcome for all; every get returns, so that nobody is left in the list |
| `descriptors` | 3 handles, 2 slots and 2 sub-tables per table, 2 levels, 3 ids | a handle sees its own descriptor, slots are written alone, nothing leaks, what is held is found |
| `cpulocal` | 3 callers, 3 CPU numbers | a slot that is set, with no creation on its way to it, is final, and later calls return it |
| `kernel_heap` | 2 CPUs, a heap of 1 unit, a reserve of 2, 6 units of physical memory | memory has one owner, a reserve is never overwritten, hooks do not recurse, the hook never waits on its own CPU for the heap, the reserve or, unless memory was refused, the logger; a used reserve comes back |
| `first_fit` | 3 levels of 2, 2 and 3 entries, sizes 1 to 5, every address, the kernel's strategies, 3 allocations | every page has one owner, every allocation maps what was asked, the bitmap is sound |
| `unified` | 3 memory maps, 4 orders; an allocation of up to 3 pages with 2 slots and 2 sections, a stack of 2 pages and its guard, 5 virtual pages | memory is conserved (no page in two blocks, none lost), buddies are merged; no mapping outlives its memory, virtual memory and backing are conserved, a stack is mapped in full above its guard |
| `unified_resize` (violation) | the same without stacks | a slot that is reported as resized has lost its virtual memory |
| `paging_context` | 2 CPUs, 3 threads, 2 contexts, a page, a global page | counts are exact, a writer that skips the invalidation is alone, no stale translation |

Every property of a passing run has a mutant: a definition of the module with
a plausible bug, under which TLC finds the property violated.

### Bounds

* `rwlock`: the failures of such a lock need two or three parties (an attempt
  that is taken back, one that sees it, one that holds). Four threads give all
  of them and one more. The proofs are for any number.
* `interruptions`: an inactive entry between two active ones needs three
  entries; a handler needs one more context. Proved for any bounds.
* `scheduler`: a CPU that files a task and one that takes it. Two tasks are
  enough for a task to be resumed on one CPU while another one terminates, and
  two ticks for a sleeper to be passed over. Safety is proved for any bounds.
* `wqueue`, `promise`: two of each kind; a lost wake-up needs one waiter, one
  that wakes and one that steals. Safety is proved for any bounds.
* `descriptors`: reuse of a slot while an old handle or search is under way
  needs two handles and two ids; three of each let a third see the intermediate
  states, and fill the first table so that sub-tables are made. Proved for any
  bounds.
* `unified`: the maps have a hole, an odd end, a start inside a block, adjacent
  entries, and an entry that the kernel's end cuts; blocks of three orders reach
  chains of splits and merges. Two sections and two slots, of one and two pages,
  reach the branches of `_remap_pages` for pieces inside, after and across the
  end of a section; those for pieces before a section or across its start are
  modelled and never reached, as no slot begins below its backing. Five virtual pages are too
  few for everything at once, so that expansions and stacks also fail.
* `first_fit`: each level has the property that matters of the real one (no
  huge pages at the top, huge pages, pages only). Sizes and addresses cover no
  remainder, a start, an end and both, at each level.
* `kernel_heap`: other code pushes tasks on one CPU and logs on the other, whose
  no-interruptions stack grows once; the tasks of the heap itself log, allocate
  physical memory and change the page table. So the hook is entered under each of
  the locks it needs itself, and nested. A heap of one unit runs out at once, and
  six units of physical memory last for a second reserve, which is used as well,
  and run out after it. Safety is proved for any sizes.
* `paging_context`: two CPUs, one of them with two threads, so that an
  activation can be overtaken on its own CPU. Proved for any bounds.

### Fairness

* `BaseRwLock.FairSpec`: a thread inside a call goes on (weak fairness of
  `InsideStep`), and a holder unlocks in the end. The two liveness properties
  assume that try_* calls are not made for ever (`TryCallsEnd`): each of them
  adds to the word for a moment, and the lock is not fair to those that wait.
* `Scheduler.Fairness`: a CPU goes on (weak fairness). Strong fairness of
  `TaskYields`: tasks are cooperative, so a task that is resumed again and
  again yields again and again whatever it does in between. Strong fairness of
  `push_task_to` and `_scheduler_tick`: both wait for a KMutex that is free
  again and again, since the idle loop of the other CPU takes it in each turn;
  a spin lock gives no stronger guarantee, and with weak fairness only the
  idle CPU could keep the pusher out for ever. `wqueue` and `promise` make the
  same assumptions, with weak fairness of a task's step.
* `KernelHeap.Fairness`: strong fairness of a CPU's steps and of running its
  tasks. A CPU goes on with what it does; a lock that is free again and again is
  got in the end, as above; and other code ends, so that the scheduler comes to
  run the tasks again and again.

`CHECK_DEADLOCK FALSE` is in the configurations whose bounds end the behaviour
(all ids created, all ticks passed, all memory given out) and in that of the
kernel heap, where a CPU may panic or wait for itself, and nowhere else.

## 4. What is proved

TLAPS checks, for every value of the constants that satisfies the modules'
assumptions:

* **`BaseRwLockProofs`**: `MutualExclusion`, `WordCounts`, `TypeOK`, and the
  refinement of `RwLock`. Assumptions: the threads are finitely many and fit
  the layout of the word (`LayoutAssumption`). The inductive invariant is that
  the word is the sum of what each thread has added and not taken back, with
  mutual exclusion. Mutual exclusion alone is not inductive, since a thread
  decides from the word it finds; with the sum, "below the threshold", "0" and
  "one upgrader" each say which counts are 0.
* **`InterruptionsProofs`**: `Shielded`, `Restored`, `NoSelfDeadlock`, that each
  guard owns an active entry of its own, that handlers find nothing held, and
  the types. Argument: interrupts are on only when the running context holds
  nothing, so all guards belong to the running context; only the outermost
  entry or section can have found interruptions on, and it is restored last.
  The module also proves that `HybridLock` implements `Interruptions`
  (`HybridImplements`): every step of a call of `HMutex::lock` is one of the
  guards' steps or leaves their state alone. The three properties therefore hold
  with hybrid locks (`HybridSafe`). `WaitsAsCalled` is inductive with what a call
  has saved and given back at each of its points: `try_lock` keeps the two flags
  of its caller in its locals or in the entry on top of the stack, and in `relax`
  they are the caller's again.
* **`SchedulerProofs`**: `NoSharedStack`, `NoOversleep`, `Affinity` (a task
  never leaves its CPU) and the types. `NoSharedStack` is not inductive: a task
  is filed while its CPU still runs on its stack. It follows from `Affinity`,
  as only the task's own CPU, which is busy on that stack, can pick it up.
  The second half of the module proves `OnePlace` and `StackAlive`. A task's
  places are the positions of the queues and lists and the locals of the CPUs
  (`Holds`). `OnePlace` is inductive with the locals that each phase leaves empty,
  since a place is overwritten only when it holds nothing; each action moves one
  task, and a removal renumbers the places behind it. For `StackAlive`,
  what is dropped was in the `deferred_drop` of a CPU, whose tasks are all its
  own, and that CPU is then on the stack of another task, the one it files.
  Assumption: None is no task, CPU, list or entry.
* **`WaitingListProofs`**: `Conserved` for the queue, `Agreement` for the promise
  and the acknowledgement, and for both that their tasks are in one place each,
  on stacks that are alive and their own. The programs may use the scheduler's
  theorems because each of their steps is one of the scheduler's; the case that
  needs an argument is termination, which a task may not do with a list locked.
  The place in its program says whether it may hold the lock (`LockOK`).
  `Conserved` is inductive with the place of every item: with its pusher, in the
  queue, or with the task that got it. `Agreement` is inductive with the
  three values of the word: at most one task is between the claim of the cell and
  the end of its write, and no value is read before that. Assumptions: every task
  is created once, on one CPU (`OrderAssumption`), and has one of the programs
  (`QueueTasks`, `PromiseTasks`).
* **`PagingContextProofs`**: `CountExact`, `UnawareWriterAlone`,
  `NoStaleTranslation` and the types. The invariant adds that a thread past the
  lock of its table holds it, that CR3 is what `_ACTIVE_PAGE_TABLE` says and
  that the global tables count as active for ever. A writer that read 0 is alone
  because the count is exact: a CPU that walks the table is counted, and an
  activation that was counted after the read waits for the writer's lock.
  The third is proved from the first two: an entry changes either under a
  writer that is about to invalidate it, or in a table this CPU does not walk.
* **`CpuLocalProofs`**: `SettledStaysSettled`, and that no call indexes the
  vector past its end. The vector only grows, so an index that was checked in an
  earlier critical section stays good; a slot is written only by calls that found
  it empty or absent.
* **`KernelHeapProofs`**: `ReserveNeverOverwritten`, `HooksDoNotStack` and
  `RescueHangsOnCallersLocks`. None of them is inductive. The invariant says that
  there is at most one reserve, present or to come: in GLOBAL_RESCUE, in a queued
  or running `_reinit_rescue`, or in a hook that has not spawned one yet. Each step
  passes it on or, when memory is refused, loses it. A hook that has spawned `_reinit_rescue` keeps it
  queued, as its CPU is busy; so while any hook works there is no reserve, and a
  second hook finds none. The rest of the invariant is which frames can be on top
  of which (`Stack`), from which the locks a CPU holds below a waiting frame are
  known. The steps keep it because a routine only enters what `Program` lists.
* **`DescriptorsProofs`**: `HandlesSeeTheirDescriptor`, `WritersAlone`,
  `NothingLeaks` and the action property `HeldIsFound`, for any number of handles,
  and tables of any size and depth. Assumption: the handles are fewer than the
  reference count can count (`DescriptorsAssumption`). The invariant relates the
  counts of a slot to the program points of the handles there. Somebody who sets
  a slot up or clears it is alone, with rc_a = 1; otherwise rc_a is 0, or one more
  than the handles that hold a reference to slot A; rc_b is the number of those
  that hold one to slot B. Each atomic operation changes one count and moves one
  handle, or two when an upgrade ends, which consumes its handle. The id of a
  slot changes only while somebody is alone there, so that a comparison made
  under a reference stays true. For `HeldIsFound` the invariant adds that an id
  is in one slot only, and that a search for an id with a handle in hand has not
  gone past the place of that handle.

## 5. What is only model-checked

Liveness (`SomeoneGetsTheLock`, `UpgradeCompletes`, `DueTasksRun`,
`EveryGetReturns`, `PromiseKept`, `ReserveComesBack`), which is outside what the
prover does; `MemoryHasOneOwner`, a sum over all frames, which is a fold, so that
what it adds up to needs induction; and `Buddy`, `Unified` and `FirstFit`, whose
operators are recursive.

The models are sequentially consistent: memory orderings are not part of them,
except that a value that is written while it may be read is counted as
an error (`Agreement`, `WritersAlone`).

## 6. Findings

* **`unified_resize`**: `unified.rs:253` says `expand_vmem` returns each slot
  that is now large enough for the whole allocation. `_remap_pages` moves
  `prev_alloc_end` past a piece before it puts the piece back (line 441; 462 and
  465 for the halves of a split), and `expand_vmem` does not lower the slot's
  offset (line 271). After a downward expansion all pieces of the slot are found
  after the last section and dropped: the slot is returned, with no virtual
  memory. For the same reason a split never leaves anything mapped. What the
  passing run `unified` shows is that nothing worse follows: no page is lost,
  mapped to other memory, or mapped to memory that was freed.

Observations without a run of their own:

* `sync/mod.rs:13` says a hybrid lock falls back to spinning when it cannot yield.
  `relax` (`hspin.rs:28`) asks only whether a task is executing; with a
  no-interruptions guard held, `yield_to_scheduler` then fails its assertion.
  `HybridLock` has the panic.
* `kernel_heap.rs:77` says that using KMutexes in the hook is probably safe. An allocation that runs
  out of memory while its caller holds the scheduler's state, the no-interruptions
  stack, the physical allocator or the kernel's page table makes the hook wait for
  that lock on its own CPU, or panic in `relax`. `RescueHangsOnCallersLocks` says
  that the heap, the reserve and, unless memory was refused, the logger are not
  among these locks; `ReserveComesBack` excepts the CPUs that wait so. Other locks
  that a caller may hold, and the hook may need, are outside the model: that of a
  CPU-local's vector, for one, is held while its value is allocated
  (`cpulocal.rs:51`).
* `kernel_heap.rs:30` says that the heap must not be locked with interruptions
  enabled. `grow_kheap` (line 111) calls `init` without disabling them, unlike
  `alloc`, `dealloc` and `reclaim_for_heap`: an interrupt handler that allocates
  while its own CPU is there would wait for ever. There are no such handlers yet,
  and `KernelHeap` has no interrupts, so no property is about it.
* `firstfit.rs:203` subtracts the number of entries asked for from that of the
  table, and line 205 from the strategy's last page: a request for more than
  that panics (or, without overflow checks, searches past the end) and is not
  refused. `FirstFit` has the panic, and assumes that no caller asks for more than
  the table has.
* `kernel_heap.rs:135` says that the hook cannot log. After a refused `palloc` it
  does, inside the spawn (`physical.rs`, a warning), under the logger's lock.
* `cpulocal.rs:51`: two concurrent first users of a CPU's value each create
  one; the first one's reference is to a value that is no longer in the vector.
* `physical.rs:90`: the bound of `merge` allows an order one past the last;
  it takes two free buddies of the highest order.
* `physical.rs:118`: `add_memory` adds no block of order 0; an odd page at the
  end of a range is not used.
* `descriptors.rs:66` asks for rc_a = 1 when slot B is cleared; the drop of the
  last B handle clears it with A handles alive. It is harmless: `WritersAlone`
  holds, as A handles do not read slot B.
* `api.rs:490` says active_count never goes from 0 to 1 while the lock is held;
  `_begin_active` increments it before it takes the lock. It is harmless:
  `UnawareWriterAlone` holds.
* `strategy.rs:12` says spread mode falls back to any sub-table. Both passes test
  `strategy.spread_mode` (`firstfit.rs:224`) and not the loop's variable, so the
  second repeats the first; `FirstFit` has it so.
* `unified.rs:471` converts a negative number to usize, and unwraps it; offsets
  are never such that the branch is reached. A slot that has lost its pieces runs
  into the `expect` of the next expansion (`unified.rs:261`). `unified.rs:284`, the expansion
  upwards, is a TODO: slots stay as they are. `unified.rs:716` evaluates
  `PageAllocationSizeT::new(0)`, which panics, in every call of
  `AllocatedStack::expand`; it has no caller.
* `firstfit.rs:311`: when the start of an allocation fails, its end is given
  back without a refresh of the availability, and an empty sub-table stays until
  it is used again. `AvailabilitySound` holds nevertheless: it says that nothing
  taken is offered, not that everything free is. An entry may stay marked fuller
  than it is until the next change of its sub-table, and is passed over until then.
* `api.rs:687`: a split at the full size would try to split the last page of the
  lowest level, and panic. The model splits strictly inside.

## 7. What could come next

The buddy allocator with its recursion over orders cut into steps, so that its
conservation of memory can be proved, and from it that of `Unified`. The
reader-writer flavours over the no-interruption guards. The sleeping locks of the previous kernel
(`rust_old/src/sync/wlock.rs`) that `sync/mod.rs` plans to port, over
`WaitingList`, once they are.

## 8. Not modelled

Start-up code, the formatting of log messages, the panic handler, descriptor tables of the processor,
the multiboot parser and the serial port have no protocol state: they run once
or format text. The fixed CPU-locals are a structure set once per CPU; their
fields are variables of the models that use them. Page flags, alignment of
addresses and the bit layout of page-table entries are data that no property
here tells apart. Of unified memory, the shared and copy-on-write backings, which
nothing creates and the zeroing of memory are left out; offset mappings are
those of `KernelHeap`, without their addresses. The heap's free lists are an external
crate: memory is counted. Of the stack pool, the claim of a static stack is one
compare-and-exchange. The
previous kernel's drivers and interrupt handlers are not
compiled.
