--------------------------- MODULE Interruptions ----------------------------
(***************************************************************************)
(* Sections without interruptions (multitasking/interruptions.rs) and the  *)
(* KMutex built on them (sync/nointerruptionslocks.rs), on one CPU.        *)
(*                                                                         *)
(* disable_interruptions() clears the interrupt flag, disables scheduler   *)
(* yields and pushes what it found on a CPU-local stack; the guard it      *)
(* returns holds an index into that stack.  Guards may be dropped in any   *)
(* order: a drop marks its entry inactive, and then the inactive entries   *)
(* on top of the stack are popped and restored.                            *)
(*                                                                         *)
(* Context 0 is the code of the CPU, context l+1 the interrupt handler     *)
(* that interrupted context l.  The code that runs in a context takes and  *)
(* drops guards and mutexes as it likes.  The other CPUs hold a mutex now  *)
(* and then.  An action is a step that an interrupt may precede.           *)
(***************************************************************************)
EXTENDS Integers, Sequences

CONSTANTS
  Locks,         \* the KMutexes
  NoLock,        \* the lock of a guard that is a mere no-interruptions guard
  MAX_CONTEXTS,  \* bound: contexts 0 .. MAX_CONTEXTS
  MAX_GUARDS,    \* bound: entries of the stack
  MAX_SECTIONS   \* bound: nested _without_interruptions_noalloc calls

ASSUME ConstantsAssumption ==
  /\ NoLock \notin Locks
  /\ MAX_CONTEXTS \in Nat /\ MAX_GUARDS \in Nat /\ MAX_SECTIONS \in Nat

VARIABLES
  IF_flag,    \* maskable interrupts are enabled on this CPU
  yield_disabled, \* SCHEDULER_YIELD_DISABLED
  stack,      \* CURRENT_NOINTERRUPTIONS_STATE
  stack_lock, \* the context that holds the LLMutex around the stack, or Free
  owner,      \* owner[m]: the context that holds KMutex m, Free or Elsewhere
  level,      \* the context that is running
  frames,     \* frames[l]: the local state of context l
  boot_flag   \* the interrupt flag the CPU started with

vars == <<IF_flag, yield_disabled, stack, stack_lock, owner, level, frames, boot_flag>>

Contexts == 0 .. MAX_CONTEXTS
Free == -1
Elsewhere == -2

Entry == [active : BOOLEAN, interrupt_state : BOOLEAN, yield_state : BOOLEAN]

\* A guard: its index in the stack, and the mutex it is wrapped around, if any.
Guard == [index : Nat, lock : Locks \cup {NoLock}]

\* An open _without_interruptions_noalloc: what it will restore, and the guards
\* that its closure found and must leave as they are.
Section == [interrupt_state : BOOLEAN, yield_state : BOOLEAN, found : SUBSET Guard]

PCs == {"idle", "d_swap", "d_lock", "d_push", "k_acquire",
        "e_clear", "e_lock", "e_restore", "e_sti", "n_swap", "n_sti"}

(***************************************************************************)
(* pc, the locals interrupt_state, yield_state and index of the function   *)
(* the context is in, the mutex that it is locking and whether by          *)
(* try_lock, the guards it holds and the noalloc sections it is in.        *)
(***************************************************************************)
Frame == [pc : PCs, interrupt_state : BOOLEAN, yield_state : BOOLEAN, index : Nat,
          want : Locks \cup {NoLock}, try : BOOLEAN,
          guards : SUBSET Guard, sections : Seq(Section)]

FreshFrame == [pc |-> "idle", interrupt_state |-> FALSE, yield_state |-> FALSE, index |-> 0,
               want |-> NoLock, try |-> FALSE, guards |-> {}, sections |-> <<>>]

me == frames[level]
Found == IF me.sections = <<>> THEN {} ELSE me.sections[Len(me.sections)].found
----------------------------------------------------------------------------
Init ==
  /\ boot_flag \in BOOLEAN /\ IF_flag = boot_flag
  /\ yield_disabled = FALSE
  /\ stack = <<>> /\ stack_lock = Free
  /\ owner = [m \in Locks |-> Free]
  /\ level = 0
  /\ frames = [l \in Contexts |-> FreshFrame]

At(p) == me.pc = p
SetFrame(f) == frames' = [frames EXCEPT ![level] = f]

(* disable_interruptions, alone (NoLock) or at the start of lock and try_lock *)

clear_interrupts == IF_flag' = FALSE

\* The code never calls lock() for a mutex whose guard it holds already.
CallDisable(m, try) ==
  /\ At("idle")
  /\ Len(stack) < MAX_GUARDS
  /\ m \in Locks => try \/ owner[m] # level
  /\ SetFrame([me EXCEPT !.pc = "d_swap", !.interrupt_state = IF_flag, !.want = m, !.try = try])
  /\ clear_interrupts
  /\ UNCHANGED <<yield_disabled, stack, stack_lock, owner, level, boot_flag>>

DisableSwap ==
  /\ At("d_swap")
  /\ SetFrame([me EXCEPT !.pc = "d_lock", !.yield_state = yield_disabled])
  /\ yield_disabled' = TRUE
  /\ UNCHANGED <<IF_flag, stack, stack_lock, owner, level, boot_flag>>

\* CURRENT_NOINTERRUPTIONS_STATE.lock() of either function.
LockStack ==
  /\ At("d_lock") \/ At("e_lock")
  /\ stack_lock = Free
  /\ stack_lock' = level
  /\ SetFrame([me EXCEPT !.pc = IF At("d_lock") THEN "d_push" ELSE "e_restore"])
  /\ UNCHANGED <<IF_flag, yield_disabled, stack, owner, level, boot_flag>>

DisablePush ==
  LET index == Len(stack) + 1
      entry == [active |-> TRUE, interrupt_state |-> me.interrupt_state,
                yield_state |-> me.yield_state]
  IN /\ At("d_push")
     /\ stack' = Append(stack, entry)
     /\ stack_lock' = Free
     /\ SetFrame(IF me.want = NoLock
                 THEN [me EXCEPT !.pc = "idle",
                                 !.guards = @ \cup {[index |-> index, lock |-> NoLock]}]
                 ELSE [me EXCEPT !.pc = "k_acquire", !.index = index])
     /\ UNCHANGED <<IF_flag, yield_disabled, owner, level, boot_flag>>

\* The raw lock of a KMutex: lock() spins, a failed try_lock() drops its guard.
Acquire ==
  /\ At("k_acquire")
  /\ \/ /\ owner[me.want] = Free
        /\ owner' = [owner EXCEPT ![me.want] = level]
        /\ SetFrame([me EXCEPT !.pc = "idle",
                               !.guards = @ \cup {[index |-> me.index, lock |-> me.want]}])
     \/ /\ owner[me.want] # Free /\ me.try
        /\ SetFrame([me EXCEPT !.pc = "e_clear"])
        /\ UNCHANGED owner
  /\ UNCHANGED <<IF_flag, yield_disabled, stack, stack_lock, level, boot_flag>>

(* Dropping a guard: the mutex first, then enable_interruptions(index) *)

Unlock(g) == owner' = IF g.lock = NoLock THEN owner ELSE [owner EXCEPT ![g.lock] = Free]

\* Faulty variant: the mutex is not unlocked.
DropKeepsLock(g) ==
  /\ At("idle") /\ g \in me.guards \ Found
  /\ SetFrame([me EXCEPT !.pc = "e_clear", !.index = g.index, !.guards = @ \ {g}])
  /\ UNCHANGED <<IF_flag, yield_disabled, stack, stack_lock, owner, level, boot_flag>>

DropGuard(g) ==
  /\ At("idle") /\ g \in me.guards \ Found
  /\ Unlock(g)
  /\ SetFrame([me EXCEPT !.pc = "e_clear", !.index = g.index, !.guards = @ \ {g}])
  /\ UNCHANGED <<IF_flag, yield_disabled, stack, stack_lock, level, boot_flag>>

\* into_nointerrupt_guard: the mutex is unlocked, the guard is kept.
into_nointerrupt_guard(g) ==
  /\ At("idle") /\ g \in me.guards \ Found /\ g.lock # NoLock
  /\ Unlock(g)
  /\ SetFrame([me EXCEPT !.guards = (@ \ {g}) \cup {[index |-> g.index, lock |-> NoLock]}])
  /\ UNCHANGED <<IF_flag, yield_disabled, stack, stack_lock, level, boot_flag>>

EnableClear ==
  /\ At("e_clear")
  /\ SetFrame([me EXCEPT !.pc = "e_lock", !.interrupt_state = IF_flag])
  /\ clear_interrupts
  /\ UNCHANGED <<yield_disabled, stack, stack_lock, owner, level, boot_flag>>

\* Faulty variants: a drop that restores what its own entry saved; one that
\* restores what the top entry saved.
RestoreEntry(i) ==
  LET marked == [stack EXCEPT ![me.index].active = FALSE]
  IN /\ At("e_restore") /\ stack_lock' = Free
     /\ \E kept \in 0 .. Len(stack) :
          /\ kept > 0 => marked[kept].active
          /\ \A j \in kept + 1 .. Len(stack) : ~marked[j].active
          /\ stack' = SubSeq(marked, 1, kept)
     /\ yield_disabled' = stack[i].yield_state
     /\ SetFrame([me EXCEPT !.pc = "e_sti", !.interrupt_state = stack[i].interrupt_state])
     /\ UNCHANGED <<IF_flag, owner, level, boot_flag>>
RestoreOwnEntry == RestoreEntry(me.index)
RestoreTopEntry == RestoreEntry(Len(stack))

\* Mark the entry inactive, then pop the inactive entries that are now on top;
\* what the last one popped had saved is restored.
EnableRestore ==
  LET marked == [stack EXCEPT ![me.index].active = FALSE]
  IN /\ At("e_restore")
     /\ \E kept \in 0 .. Len(stack) :
          /\ kept > 0 => marked[kept].active
          /\ \A i \in kept + 1 .. Len(stack) : ~marked[i].active
          /\ stack' = SubSeq(marked, 1, kept)
          /\ IF kept < Len(stack)
             THEN /\ yield_disabled' = stack[kept + 1].yield_state
                  /\ SetFrame([me EXCEPT !.pc = "e_sti",
                                         !.interrupt_state = stack[kept + 1].interrupt_state])
             ELSE /\ SetFrame([me EXCEPT !.pc = "e_sti"])
                  /\ UNCHANGED yield_disabled
     /\ stack_lock' = Free
     /\ UNCHANGED <<IF_flag, owner, level, boot_flag>>

\* restore_interrupts enables, it never disables.
restore_interrupts ==
  /\ At("e_sti") \/ At("n_sti")
  /\ IF_flag' = (IF_flag \/ me.interrupt_state)
  /\ SetFrame([me EXCEPT !.pc = "idle"])
  /\ UNCHANGED <<yield_disabled, stack, stack_lock, owner, level, boot_flag>>

(* _without_interruptions_noalloc: what it saves stays on the caller's stack *)

EnterNoalloc ==
  /\ At("idle") /\ Len(me.sections) < MAX_SECTIONS
  /\ SetFrame([me EXCEPT !.pc = "n_swap", !.interrupt_state = IF_flag])
  /\ clear_interrupts
  /\ UNCHANGED <<yield_disabled, stack, stack_lock, owner, level, boot_flag>>

NoallocSwap ==
  LET section == [interrupt_state |-> me.interrupt_state, yield_state |-> yield_disabled,
                  found |-> me.guards]
  IN /\ At("n_swap")
     /\ SetFrame([me EXCEPT !.pc = "idle", !.sections = Append(@, section)])
     /\ yield_disabled' = TRUE
     /\ UNCHANGED <<IF_flag, stack, stack_lock, owner, level, boot_flag>>

\* The closure has dropped the guards it took, as the function demands.
LeaveNoalloc ==
  LET n == Len(me.sections)
  IN /\ At("idle") /\ n > 0 /\ me.guards = me.sections[n].found
     /\ yield_disabled' = me.sections[n].yield_state
     /\ SetFrame([me EXCEPT !.pc = "n_sti", !.interrupt_state = me.sections[n].interrupt_state,
                            !.sections = SubSeq(@, 1, n - 1)])
     /\ UNCHANGED <<IF_flag, stack, stack_lock, owner, level, boot_flag>>

(* The processor and the other CPUs *)

\* An interrupt gate clears the flag, iret puts it back.
Interrupt ==
  /\ IF_flag /\ level < MAX_CONTEXTS
  /\ level' = level + 1
  /\ frames' = [frames EXCEPT ![level + 1] = FreshFrame]
  /\ IF_flag' = FALSE
  /\ UNCHANGED <<yield_disabled, stack, stack_lock, owner, boot_flag>>

InterruptReturn ==
  /\ level > 0 /\ At("idle") /\ me.guards = {} /\ me.sections = <<>>
  /\ level' = level - 1
  /\ IF_flag' = TRUE
  /\ UNCHANGED <<yield_disabled, stack, stack_lock, owner, frames, boot_flag>>

OtherCPU(m) ==
  /\ \/ owner[m] = Free /\ owner' = [owner EXCEPT ![m] = Elsewhere]
     \/ owner[m] = Elsewhere /\ owner' = [owner EXCEPT ![m] = Free]
  /\ UNCHANGED <<IF_flag, yield_disabled, stack, stack_lock, level, frames, boot_flag>>
----------------------------------------------------------------------------
Next ==
  \/ \E m \in Locks \cup {NoLock}, try \in BOOLEAN : CallDisable(m, try)
  \/ DisableSwap \/ LockStack \/ DisablePush \/ Acquire
  \/ \E g \in me.guards : DropGuard(g) \/ into_nointerrupt_guard(g)
  \/ EnableClear \/ EnableRestore \/ restore_interrupts
  \/ EnterNoalloc \/ NoallocSwap \/ LeaveNoalloc
  \/ Interrupt \/ InterruptReturn
  \/ \E m \in Locks : OtherCPU(m)

Spec == Init /\ [][Next]_vars
----------------------------------------------------------------------------
(* Properties *)

TypeOK ==
  /\ IF_flag \in BOOLEAN /\ yield_disabled \in BOOLEAN /\ boot_flag \in BOOLEAN
  /\ stack \in Seq(Entry) /\ Len(stack) <= MAX_GUARDS
  /\ level \in Contexts /\ frames \in [Contexts -> Frame]
  /\ stack_lock \in {Free} \cup Contexts
  /\ owner \in [Locks -> {Free, Elsewhere} \cup Contexts]

\* As long as a context holds a guard or is inside a noalloc section, interrupts
\* and scheduler yields stay disabled, in whatever order guards are dropped.
Shielded ==
  \A l \in Contexts :
    (l <= level /\ (frames[l].guards # {} \/ frames[l].sections # <<>>))
      => ~IF_flag /\ yield_disabled

\* The index inside a guard is the place of its own entry in the stack, which is
\* still active: guard[index] neither panics nor marks another guard's entry.
GuardsOwnEntries ==
  \A l \in Contexts : l <= level =>
    /\ \A g \in frames[l].guards : g.index \in 1 .. Len(stack) /\ stack[g.index].active
    /\ \A g, h \in frames[l].guards : g.index = h.index => g = h
    /\ \A k \in Contexts : k < l =>
         \A g \in frames[l].guards, h \in frames[k].guards : g.index # h.index

\* Once the code of the CPU has dropped its last guard and left its last section,
\* the stack is empty, yields are allowed, and the interrupt flag is as it was.
Restored ==
  (level = 0 /\ At("idle") /\ me.guards = {} /\ me.sections = <<>>)
    => stack = <<>> /\ ~yield_disabled /\ IF_flag = boot_flag

\* An interrupt handler never spins for a KMutex, nor anybody for the LLMutex of
\* the stack, that a context below it on the same CPU holds: the holder could not
\* run to release it.
NoSelfDeadlock ==
  /\ (At("k_acquire") /\ ~me.try) => owner[me.want] \in {Free, Elsewhere}
  /\ (At("d_lock") \/ At("e_lock")) => stack_lock = Free

\* No path through the guards enables interrupts inside an interrupt handler.
HandlersDoNotNest == level > 0 => ~IF_flag
=============================================================================
