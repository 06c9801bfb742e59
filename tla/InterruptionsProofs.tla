------------------------ MODULE InterruptionsProofs -------------------------
(***************************************************************************)
(* Proofs about the no-interruption stack and the hybrid mutex, for every  *)
(* set of mutexes and every bound on contexts, guards and sections.        *)
(*                                                                         *)
(* The argument: interrupts are enabled only when the running context      *)
(* holds nothing, so a context that is interrupted holds nothing, and all  *)
(* guards and sections belong to the running context.  Of the entries of   *)
(* the stack and the open sections only the very first can have found      *)
(* interruptions enabled, and it is restored last.                         *)
(***************************************************************************)
EXTENDS HybridLock, TLAPS

\* Where the function a context is in has an entry of the stack in its hands.
Pending == {"k_acquire", "e_clear", "e_lock", "e_restore"}

Interrupted(l) == frames[l].pc = "idle" /\ frames[l].guards = {} /\ frames[l].sections = <<>>
HoldsNothing == me.guards = {} /\ me.sections = <<>>

\* The contexts that were interrupted hold nothing, nor does the running one
\* when it can be interrupted or when yields are allowed.
Quiet ==
  /\ \A l \in Contexts : l < level => Interrupted(l)
  /\ IF_flag => At("idle") /\ HoldsNothing /\ stack = <<>>
  /\ ~yield_disabled => /\ me.pc \in {"idle", "d_swap", "n_swap", "e_sti", "n_sti"}
                        /\ HoldsNothing /\ stack = <<>>

\* Active entries and the guards (or the function in progress) that own them.
Ownership ==
  /\ \A g \in me.guards : g.index \in 1 .. Len(stack) /\ stack[g.index].active
  /\ \A g, h \in me.guards : g.index = h.index => g = h
  /\ me.pc \in Pending =>
       /\ me.index \in 1 .. Len(stack) /\ stack[me.index].active
       /\ \A g \in me.guards : g.index # me.index
  /\ \A i \in 1 .. Len(stack) : stack[i].active =>
       (\E g \in me.guards : g.index = i) \/ (me.pc \in Pending /\ me.index = i)
  /\ stack # <<>> => stack[Len(stack)].active
  /\ me.pc \in {"d_swap", "d_lock", "d_push"} => Len(stack) < MAX_GUARDS

\* Only the outermost entry or section can have found interruptions enabled.
Outermost ==
  /\ \A i \in 1 .. Len(stack) :
       stack[i].interrupt_state \/ ~stack[i].yield_state =>
         i = 1 /\ (me.sections # <<>> => me.sections[1].found # {})
  /\ \A i \in 1 .. Len(me.sections) :
       /\ me.sections[i].found \subseteq me.guards
       /\ me.sections[i].interrupt_state \/ ~me.sections[i].yield_state =>
            i = 1 /\ me.sections[1].found = {}
  /\ \A i, j \in 1 .. Len(me.sections) : i <= j => me.sections[i].found \subseteq me.sections[j].found

\* What the function in progress will store or restore.
InProgress ==
  /\ (me.pc \in {"d_swap", "d_lock", "d_push", "n_swap", "e_sti", "n_sti"} /\ me.interrupt_state)
       => HoldsNothing /\ stack = <<>>
  /\ (me.pc \in {"d_lock", "d_push"} /\ ~me.yield_state) => HoldsNothing /\ stack = <<>>
  /\ me.pc \in {"e_lock", "e_restore"} => ~me.interrupt_state

\* The state to come back to: the flag the CPU started with, or disabled in a
\* handler, with yields allowed.  It is in the CPU itself, in the function in
\* progress, in the first section or in the first entry of the stack.
Origin == IF level = 0 THEN boot_flag ELSE FALSE
BaseState ==
  /\ level > 0 => level = 1 /\ boot_flag
  /\ (At("idle") /\ HoldsNothing) => IF_flag = Origin /\ ~yield_disabled
  /\ (me.pc \in {"d_swap", "n_swap", "e_sti", "n_sti"} /\ HoldsNothing /\ stack = <<>>)
       => me.interrupt_state = Origin /\ ~yield_disabled
  /\ (me.pc \in {"d_lock", "d_push"} /\ HoldsNothing /\ stack = <<>>)
       => me.interrupt_state = Origin /\ ~me.yield_state
  /\ (stack # <<>> /\ (me.sections = <<>> \/ me.sections[1].found # {}))
       => stack[1].interrupt_state = Origin /\ ~stack[1].yield_state
  /\ (me.sections # <<>> /\ me.sections[1].found = {})
       => me.sections[1].interrupt_state = Origin /\ ~me.sections[1].yield_state

Locked ==
  /\ stack_lock = IF me.pc \in {"d_push", "e_restore"} THEN level ELSE Free
  /\ \A m \in Locks : owner[m] \in Contexts =>
       owner[m] = level /\ \E g \in me.guards : g.lock = m
  /\ me.pc \in {"d_swap", "d_lock", "d_push", "k_acquire"} /\ ~me.try /\ me.want # NoLock
       => owner[me.want] \notin Contexts
  /\ At("k_acquire") => me.want # NoLock

IInv == TypeOK /\ Quiet /\ Ownership /\ Outermost /\ InProgress /\ BaseState /\ Locked
----------------------------------------------------------------------------
LEMMA EntryFields ==
  ASSUME NEW e \in Entry
  PROVE  e.active \in BOOLEAN /\ e.interrupt_state \in BOOLEAN /\ e.yield_state \in BOOLEAN
BY Zenon DEF Entry

\* A step of the running context changes no other frame.
LEMMA OwnFrame ==
  ASSUME TypeOK, NEW f \in Frame, SetFrame(f), level' = level
  PROVE  /\ me' = f /\ me \in Frame
         /\ frames' \in [Contexts -> Frame]
         /\ \A l \in Contexts : l < level' => frames'[l] = frames[l]
BY DEF TypeOK, SetFrame, me, Contexts


LEMMA Appended ==
  ASSUME NEW S, NEW q \in Seq(S), NEW x \in S
  PROVE  /\ Append(q, x) \in Seq(S) /\ Append(q, x) # <<>>
         /\ Len(Append(q, x)) = Len(q) + 1 /\ Append(q, x)[Len(q) + 1] = x
         /\ \A i \in 1 .. Len(q) : Append(q, x)[i] = q[i]
OBVIOUS

LEMMA Prefix ==
  ASSUME NEW S, NEW q \in Seq(S), NEW k \in 0 .. Len(q)
  PROVE  /\ SubSeq(q, 1, k) \in Seq(S) /\ Len(SubSeq(q, 1, k)) = k
         /\ SubSeq(q, 1, k) = <<>> <=> k = 0
         /\ \A i \in 1 .. k : SubSeq(q, 1, k)[i] = q[i]
OBVIOUS

\* When the running context has nothing in its hands, the stack is empty.
LEMMA NothingOnStack ==
  ASSUME IInv, me.guards = {}, me.pc \notin Pending
  PROVE  stack = <<>>
BY DEF IInv, Ownership

LEMMA CallDisableInv == IInv => \A m \in Locks \cup {NoLock}, try \in BOOLEAN : CallDisable(m, try) => IInv'
<1> SUFFICES ASSUME IInv, NEW m \in Locks \cup {NoLock}, NEW try \in BOOLEAN, CallDisable(m, try) PROVE IInv'
  BY Zenon
<1> DEFINE f == [me EXCEPT !.pc = "d_swap", !.interrupt_state = IF_flag, !.want = m, !.try = try]
<1>1. me \in Frame
  BY Zenon DEF IInv, TypeOK, me
<1>2. f \in Frame
  BY <1>1, Zenon DEF IInv, TypeOK, Frame, PCs
<1>3. /\ me' = f /\ level' = level /\ frames' \in [Contexts -> Frame]
      /\ \A l \in Contexts : l < level => frames'[l] = frames[l]
  BY <1>2, OwnFrame, Zenon DEF IInv, CallDisable
<1>4. /\ me'.pc = "d_swap" /\ me'.interrupt_state = IF_flag /\ me'.yield_state = me.yield_state
      /\ me'.index = me.index /\ me'.want = m /\ me'.try = try /\ me'.guards = me.guards
      /\ me'.sections = me.sections
  BY <1>1, <1>3, Zenon DEF Frame
<1>5. /\ UNCHANGED <<yield_disabled, stack, stack_lock, owner, level, boot_flag>>
      /\ IF_flag' = FALSE /\ me.pc = "idle"
      /\ m \in Locks => try \/ owner[m] # level
      /\ Len(stack) < MAX_GUARDS
  BY Zenon DEF CallDisable, At, clear_interrupts
<1> HIDE DEF f
<1>6. TypeOK'
  BY <1>3, <1>5, Zenon DEF IInv, TypeOK
<1>7. Quiet'
  BY <1>3, <1>4, <1>5, Zenon DEF IInv, Quiet, Interrupted, HoldsNothing, At
<1>8. Ownership'
  BY <1>4, <1>5, Zenon DEF IInv, Ownership, Pending
<1>9. Outermost'
  BY <1>4, <1>5, Zenon DEF IInv, Outermost
<1>10. InProgress'
  BY <1>1, <1>4, <1>5, Zenon DEF IInv, InProgress, Quiet, HoldsNothing, TypeOK, At
<1>11. BaseState'
  BY <1>4, <1>5, Zenon DEF IInv, BaseState, HoldsNothing, Origin, At, Quiet
<1>12. Locked'
  BY <1>4, <1>5, ConstantsAssumption, Zenon DEF IInv, Locked, At
<1> QED
  BY <1>6, <1>7, <1>8, <1>9, <1>10, <1>11, <1>12, Zenon DEF IInv

LEMMA DisableSwapInv == IInv /\ DisableSwap => IInv'
<1> SUFFICES ASSUME IInv, DisableSwap PROVE IInv'
  BY Zenon
<1> DEFINE f == [me EXCEPT !.pc = "d_lock", !.yield_state = yield_disabled]
<1>1. me \in Frame
  BY Zenon DEF IInv, TypeOK, me
<1>2. f \in Frame
  BY <1>1, Zenon DEF IInv, TypeOK, Frame, PCs
<1>3. /\ me' = f /\ level' = level /\ frames' \in [Contexts -> Frame]
      /\ \A l \in Contexts : l < level => frames'[l] = frames[l]
  BY <1>2, OwnFrame, Zenon DEF IInv, DisableSwap
<1>4. /\ me'.pc = "d_lock" /\ me'.interrupt_state = me.interrupt_state
      /\ me'.yield_state = yield_disabled /\ me'.index = me.index /\ me'.want = me.want
      /\ me'.try = me.try /\ me'.guards = me.guards /\ me'.sections = me.sections
  BY <1>1, <1>3, Zenon DEF Frame
<1>5. /\ UNCHANGED <<IF_flag, stack, stack_lock, owner, level, boot_flag>>
      /\ yield_disabled' = TRUE /\ me.pc = "d_swap"
  BY Zenon DEF DisableSwap, At
<1> HIDE DEF f
<1>6. TypeOK'
  BY <1>3, <1>5, Zenon DEF IInv, TypeOK
<1>7. Quiet'
  BY <1>3, <1>4, <1>5, Zenon DEF IInv, Quiet, Interrupted, HoldsNothing, At
<1>8. Ownership'
  BY <1>4, <1>5, Zenon DEF IInv, Ownership, Pending
<1>9. Outermost'
  BY <1>4, <1>5, Zenon DEF IInv, Outermost
<1>10. InProgress'
  BY <1>1, <1>4, <1>5, Zenon DEF IInv, InProgress, Quiet, HoldsNothing, TypeOK, At
<1>11. BaseState'
  BY <1>4, <1>5, Zenon DEF IInv, BaseState, HoldsNothing, Origin, At, Quiet
<1>12. Locked'
  BY <1>4, <1>5, Zenon DEF IInv, Locked, At
<1> QED
  BY <1>6, <1>7, <1>8, <1>9, <1>10, <1>11, <1>12, Zenon DEF IInv

LEMMA LockStackInv == IInv /\ LockStack => IInv'
<1> SUFFICES ASSUME IInv, LockStack PROVE IInv'
  OBVIOUS
<1> DEFINE f == [me EXCEPT !.pc = IF At("d_lock") THEN "d_push" ELSE "e_restore"]
<1>1. me \in Frame
  BY DEF IInv, TypeOK, me
<1>2. f \in Frame
  BY <1>1, Zenon DEF IInv, TypeOK, Frame, PCs
<1>3. /\ me' = f /\ level' = level /\ frames' \in [Contexts -> Frame]
      /\ \A l \in Contexts : l < level => frames'[l] = frames[l]
  BY <1>2, OwnFrame, Zenon DEF IInv, LockStack
<1>4. /\ me'.pc = (IF At("d_lock") THEN "d_push" ELSE "e_restore") /\ me'.interrupt_state = me.interrupt_state
      /\ me'.yield_state = me.yield_state /\ me'.index = me.index /\ me'.want = me.want
      /\ me'.try = me.try /\ me'.guards = me.guards /\ me'.sections = me.sections
  BY <1>1, <1>3, Zenon DEF Frame
<1>5. /\ UNCHANGED <<IF_flag, yield_disabled, stack, owner, level, boot_flag>>
      /\ \/ me.pc = "d_lock" /\ me'.pc = "d_push"
         \/ me.pc = "e_lock" /\ me'.pc = "e_restore"
      /\ stack_lock' = level
  BY <1>4, Zenon DEF LockStack, At
<1> HIDE DEF f
<1>6. TypeOK'
  BY <1>3, <1>5, Zenon DEF IInv, TypeOK
<1>7. Quiet'
  BY <1>3, <1>4, <1>5, Zenon DEF IInv, Quiet, Interrupted, HoldsNothing, At
<1>8. Ownership'
  BY <1>4, <1>5, Zenon DEF IInv, Ownership, Pending
<1>9. Outermost'
  BY <1>4, <1>5, Zenon DEF IInv, Outermost
<1>10. InProgress'
  BY <1>1, <1>4, <1>5, Zenon DEF IInv, InProgress, Quiet, HoldsNothing, TypeOK, At
<1>11. BaseState'
  BY <1>4, <1>5, Zenon DEF IInv, BaseState, HoldsNothing, Origin, At, Quiet
<1>12. Locked'
  BY <1>4, <1>5, Zenon DEF IInv, Locked, At
<1> QED
  BY <1>6, <1>7, <1>8, <1>9, <1>10, <1>11, <1>12 DEF IInv

LEMMA DisablePushInv == IInv /\ DisablePush => IInv'
<1> SUFFICES ASSUME IInv, DisablePush PROVE IInv'
  OBVIOUS
<1> DEFINE e == [active |-> TRUE, interrupt_state |-> me.interrupt_state, yield_state |-> me.yield_state]
<1> DEFINE f == IF me.want = NoLock
                 THEN [me EXCEPT !.pc = "idle",
                                 !.guards = @ \cup {[index |-> Len(stack) + 1, lock |-> NoLock]}]
                 ELSE [me EXCEPT !.pc = "k_acquire", !.index = Len(stack) + 1]
<1>1. me \in Frame
  BY DEF IInv, TypeOK, me
<1>2. f \in Frame
  <2>1. Len(stack) + 1 \in Nat /\ [index |-> Len(stack) + 1, lock |-> NoLock] \in Guard
    BY DEF IInv, TypeOK, Guard
  <2> QED
    BY <1>1, <2>1, Zenon DEF Frame, PCs
<1>3. /\ me' = f /\ level' = level /\ frames' \in [Contexts -> Frame]
      /\ \A l \in Contexts : l < level => frames'[l] = frames[l]
  BY <1>2, OwnFrame, Zenon DEF IInv, DisablePush
<1>4. /\ me'.pc = (IF me.want = NoLock THEN "idle" ELSE "k_acquire") /\ me'.interrupt_state = me.interrupt_state
      /\ me'.yield_state = me.yield_state /\ me'.index = (IF me.want = NoLock THEN me.index ELSE Len(stack) + 1)
      /\ me'.want = me.want /\ me'.try = me.try /\ me'.guards = (IF me.want = NoLock THEN me.guards \cup {[index |-> Len(stack) + 1, lock |-> NoLock]} ELSE me.guards)
      /\ me'.sections = me.sections
  BY <1>1, <1>3, Zenon DEF Frame
<1>5. /\ UNCHANGED <<IF_flag, yield_disabled, owner, level, boot_flag>>
      /\ stack' = Append(stack, e) /\ e \in Entry
      /\ me.pc = "d_push" /\ stack_lock' = Free
  BY <1>1, Zenon DEF DisablePush, At, Entry, Frame
<1> HIDE DEF f
<1>6. TypeOK'
  <2>1. stack \in Seq(Entry) /\ Len(stack) < MAX_GUARDS
    BY <1>5, Zenon DEF IInv, TypeOK, Ownership
  <2>2. stack' \in Seq(Entry) /\ Len(stack') = Len(stack) + 1
    BY <1>5, <2>1, Appended, Zenon
  <2> QED
    BY <1>3, <1>5, <2>1, <2>2, ConstantsAssumption DEF IInv, TypeOK
<1>7. Quiet'
  BY <1>3, <1>4, <1>5 DEF IInv, Quiet, Interrupted, HoldsNothing, At
<1>8. Ownership'
  <2>1. stack \in Seq(Entry) /\ Len(stack) < MAX_GUARDS
    BY <1>5 DEF IInv, TypeOK, Ownership
  <2>2. /\ stack' \in Seq(Entry) /\ Len(stack') = Len(stack) + 1 /\ stack'[Len(stack) + 1] = e
        /\ \A i \in 1 .. Len(stack) : stack'[i] = stack[i]
    BY <1>5, <2>1, Appended
  <2>3. \A g \in me.guards : g.index \in 1 .. Len(stack) /\ stack[g.index].active
    BY Zenon DEF IInv, Ownership
  <2>4. \A g, h \in me.guards : g.index = h.index => g = h
    BY Zenon DEF IInv, Ownership
  <2>5. \A i \in 1 .. Len(stack) : stack[i].active => \E g \in me.guards : g.index = i
    BY <1>5, Zenon DEF IInv, Ownership, Pending
  <2>6. \A i \in 1 .. Len(stack') : i \in 1 .. Len(stack) \/ i = Len(stack) + 1
    BY <2>1, <2>2
  <2>7. CASE me.want = NoLock
    <3> DEFINE h == [index |-> Len(stack) + 1, lock |-> NoLock]
    <3>1. me'.guards = me.guards \cup {h} /\ me'.pc = "idle" /\ h.index = Len(stack) + 1
      BY <1>4, <2>7, Zenon
    <3> HIDE DEF h
    <3>2. \A g \in me'.guards : g.index \in 1 .. Len(stack') /\ stack'[g.index].active
      BY <2>1, <2>2, <2>3, <3>1
    <3>3. \A g, k \in me'.guards : g.index = k.index => g = k
      BY <2>1, <2>3, <2>4, <3>1
    <3>4. \A i \in 1 .. Len(stack') : stack'[i].active => \E g \in me'.guards : g.index = i
      BY <2>2, <2>5, <2>6, <3>1, Zenon
    <3> QED
      BY <2>1, <2>2, <3>1, <3>2, <3>3, <3>4, Zenon DEF Ownership, Pending
  <2>8. CASE me.want # NoLock
    <3>1. me'.guards = me.guards /\ me'.pc = "k_acquire" /\ me'.index = Len(stack) + 1
      BY <1>4, <2>8, Zenon
    <3>2. \A i \in 1 .. Len(stack') : stack'[i].active =>
            (\E g \in me'.guards : g.index = i) \/ me'.index = i
      BY <2>2, <2>5, <2>6, <3>1, Zenon
    <3> QED
      BY <2>1, <2>2, <2>3, <2>4, <3>1, <3>2 DEF Ownership, Pending
  <2> QED
    BY <2>7, <2>8, Zenon
<1>9. Outermost'
  <2>1. stack \in Seq(Entry)
    BY Zenon DEF IInv, TypeOK
  <2>2. /\ Len(stack') = Len(stack) + 1 /\ stack'[Len(stack) + 1] = e
        /\ \A i \in 1 .. Len(stack) : stack'[i] = stack[i]
    BY <1>5, <2>1, Appended
  <2>3. me'.sections = me.sections /\ me.guards \subseteq me'.guards
    BY <1>4, Zenon
  <2>4. e.interrupt_state \/ ~e.yield_state => me.sections = <<>> /\ stack = <<>>
    BY <1>5, Zenon DEF IInv, InProgress, HoldsNothing
  <2>5. Len(stack) \in Nat /\ (stack = <<>> => Len(stack) = 0)
    BY <2>1
  <2>6. \A i \in 1 .. Len(stack') :
          stack'[i].interrupt_state \/ ~stack'[i].yield_state =>
            i = 1 /\ (me'.sections # <<>> => me'.sections[1].found # {})
    BY <2>2, <2>3, <2>4, <2>5 DEF IInv, Outermost
  <2> QED
    BY <2>3, <2>6, Zenon DEF IInv, Outermost
<1>10. InProgress'
  BY <1>1, <1>4, <1>5, Zenon DEF IInv, InProgress, Quiet, HoldsNothing, TypeOK, At
<1>11. BaseState'
  <2>1. stack \in Seq(Entry)
    BY DEF IInv, TypeOK
  <2>2. /\ stack' # <<>> /\ stack'[Len(stack) + 1] = e
        /\ \A i \in 1 .. Len(stack) : stack'[i] = stack[i]
    BY <1>5, <2>1, Appended
  <2>3. me'.sections = me.sections /\ me'.pc \in {"idle", "k_acquire"} /\ Origin' = Origin
    BY <1>4, <1>5, Zenon DEF Origin
  <2>4. (At("idle") /\ HoldsNothing)' => FALSE
    BY <1>4, Zenon DEF At, HoldsNothing
  <2>5. me.sections # <<>> /\ stack = <<>> => me.sections[1].found = {}
    <3> SUFFICES ASSUME me.sections # <<>>, stack = <<>> PROVE me.sections[1].found = {}
      BY Zenon
    <3>1. 1 \in 1 .. Len(me.sections)
      BY <1>1 DEF Frame
    <3>2. me.sections[1].found \subseteq me.guards /\ me.guards = {}
      BY <3>1, <2>1 DEF IInv, Outermost, Ownership
    <3> QED
      BY <3>2, Zenon
  <2>6. stack # <<>> => stack'[1] = stack[1]
    BY <2>1, <2>2
  <2>7. stack = <<>> => stack'[1] = e /\ me.guards = {}
    BY <2>1, <2>2 DEF IInv, Ownership
  <2>8. (stack' # <<>> /\ (me'.sections = <<>> \/ me'.sections[1].found # {}))
          => stack'[1].interrupt_state = Origin /\ ~stack'[1].yield_state
    BY <1>5, <2>3, <2>5, <2>6, <2>7 DEF IInv, BaseState, HoldsNothing
  <2> QED
    BY <1>5, <2>2, <2>3, <2>4, <2>8, Zenon DEF IInv, BaseState, HoldsNothing, At
<1>12. Locked'
  BY <1>4, <1>5, Zenon DEF IInv, Locked, At
<1> QED
  BY <1>6, <1>7, <1>8, <1>9, <1>10, <1>11, <1>12 DEF IInv

LEMMA EnableClearInv == IInv /\ EnableClear => IInv'
<1> SUFFICES ASSUME IInv, EnableClear PROVE IInv'
  OBVIOUS
<1> DEFINE f == [me EXCEPT !.pc = "e_lock", !.interrupt_state = IF_flag]
<1>1. me \in Frame
  BY DEF IInv, TypeOK, me
<1>2. f \in Frame
  BY <1>1, Zenon DEF IInv, TypeOK, Frame, PCs
<1>3. /\ me' = f /\ level' = level /\ frames' \in [Contexts -> Frame]
      /\ \A l \in Contexts : l < level => frames'[l] = frames[l]
  BY <1>2, OwnFrame, Zenon DEF IInv, EnableClear
<1>4. /\ me'.pc = "e_lock" /\ me'.interrupt_state = IF_flag /\ me'.yield_state = me.yield_state
      /\ me'.index = me.index /\ me'.want = me.want /\ me'.try = me.try
      /\ me'.guards = me.guards /\ me'.sections = me.sections
  BY <1>1, <1>3, Zenon DEF Frame
<1>5. /\ UNCHANGED <<yield_disabled, stack, stack_lock, owner, level, boot_flag>>
      /\ IF_flag' = FALSE /\ me.pc = "e_clear"
  BY Zenon DEF EnableClear, At, clear_interrupts
<1> HIDE DEF f
<1>6. TypeOK'
  BY <1>3, <1>5, Zenon DEF IInv, TypeOK
<1>7. Quiet'
  BY <1>3, <1>4, <1>5, Zenon DEF IInv, Quiet, Interrupted, HoldsNothing, At
<1>8. Ownership'
  BY <1>4, <1>5, Zenon DEF IInv, Ownership, Pending
<1>9. Outermost'
  BY <1>4, <1>5, Zenon DEF IInv, Outermost
<1>10. InProgress'
  BY <1>1, <1>4, <1>5, Zenon DEF IInv, InProgress, Quiet, HoldsNothing, TypeOK, At
<1>11. BaseState'
  BY <1>4, <1>5, Zenon DEF IInv, BaseState, HoldsNothing, Origin, At, Quiet
<1>12. Locked'
  BY <1>4, <1>5, Zenon DEF IInv, Locked, At
<1> QED
  BY <1>6, <1>7, <1>8, <1>9, <1>10, <1>11, <1>12 DEF IInv

LEMMA Restore_interruptsInv == IInv /\ restore_interrupts => IInv'
<1> SUFFICES ASSUME IInv, restore_interrupts PROVE IInv'
  OBVIOUS
<1> DEFINE f == [me EXCEPT !.pc = "idle"]
<1>1. me \in Frame
  BY DEF IInv, TypeOK, me
<1>2. f \in Frame
  BY <1>1, Zenon DEF IInv, TypeOK, Frame, PCs
<1>3. /\ me' = f /\ level' = level /\ frames' \in [Contexts -> Frame]
      /\ \A l \in Contexts : l < level => frames'[l] = frames[l]
  BY <1>2, OwnFrame, Zenon DEF IInv, restore_interrupts
<1>4. /\ me'.pc = "idle" /\ me'.interrupt_state = me.interrupt_state /\ me'.yield_state = me.yield_state
      /\ me'.index = me.index /\ me'.want = me.want /\ me'.try = me.try
      /\ me'.guards = me.guards /\ me'.sections = me.sections
  BY <1>1, <1>3, Zenon DEF Frame
<1>5. /\ UNCHANGED <<yield_disabled, stack, stack_lock, owner, level, boot_flag>>
      /\ IF_flag' = (IF_flag \/ me.interrupt_state) /\ me.pc \in {"e_sti", "n_sti"}
  BY Zenon DEF restore_interrupts, At
<1> HIDE DEF f
<1>6. TypeOK'
  BY <1>3, <1>5, Zenon DEF IInv, TypeOK
<1>7. Quiet'
  <2>1. IF_flag = FALSE /\ Len(stack) \in Nat
    BY <1>5 DEF IInv, Quiet, TypeOK, At
  <2>2. me.interrupt_state => HoldsNothing /\ stack = <<>>
    BY <1>5, Zenon DEF IInv, InProgress
  <2> QED
    BY <1>3, <1>4, <1>5, <2>1, <2>2, Zenon DEF IInv, Quiet, Interrupted, HoldsNothing, At
<1>8. Ownership'
  BY <1>4, <1>5, Zenon DEF IInv, Ownership, Pending
<1>9. Outermost'
  BY <1>4, <1>5, Zenon DEF IInv, Outermost
<1>10. InProgress'
  BY <1>1, <1>4, <1>5, Zenon DEF IInv, InProgress, Quiet, HoldsNothing, TypeOK, At
<1>11. BaseState'
  <2>1. IF_flag = FALSE /\ me.interrupt_state \in BOOLEAN
    BY <1>1, <1>5, Zenon DEF IInv, Quiet, TypeOK, At, Frame
  <2>2. HoldsNothing => stack = <<>>
    BY <1>5, NothingOnStack, Zenon DEF HoldsNothing, Pending
  <2>3. HoldsNothing => IF_flag' = Origin /\ ~yield_disabled
    BY <1>5, <2>1, <2>2, Zenon DEF IInv, BaseState
  <2> QED
    BY <1>4, <1>5, <2>3, Zenon DEF IInv, BaseState, HoldsNothing, Origin, At
<1>12. Locked'
  BY <1>4, <1>5, Zenon DEF IInv, Locked, At
<1> QED
  BY <1>6, <1>7, <1>8, <1>9, <1>10, <1>11, <1>12 DEF IInv

LEMMA EnterNoallocInv == IInv /\ EnterNoalloc => IInv'
<1> SUFFICES ASSUME IInv, EnterNoalloc PROVE IInv'
  OBVIOUS
<1> DEFINE f == [me EXCEPT !.pc = "n_swap", !.interrupt_state = IF_flag]
<1>1. me \in Frame
  BY DEF IInv, TypeOK, me
<1>2. f \in Frame
  BY <1>1, Zenon DEF IInv, TypeOK, Frame, PCs
<1>3. /\ me' = f /\ level' = level /\ frames' \in [Contexts -> Frame]
      /\ \A l \in Contexts : l < level => frames'[l] = frames[l]
  BY <1>2, OwnFrame, Zenon DEF IInv, EnterNoalloc
<1>4. /\ me'.pc = "n_swap" /\ me'.interrupt_state = IF_flag /\ me'.yield_state = me.yield_state
      /\ me'.index = me.index /\ me'.want = me.want /\ me'.try = me.try
      /\ me'.guards = me.guards /\ me'.sections = me.sections
  BY <1>1, <1>3, Zenon DEF Frame
<1>5. /\ UNCHANGED <<yield_disabled, stack, stack_lock, owner, level, boot_flag>>
      /\ IF_flag' = FALSE /\ me.pc = "idle"
  BY Zenon DEF EnterNoalloc, At, clear_interrupts
<1> HIDE DEF f
<1>6. TypeOK'
  BY <1>3, <1>5, Zenon DEF IInv, TypeOK
<1>7. Quiet'
  BY <1>3, <1>4, <1>5, Zenon DEF IInv, Quiet, Interrupted, HoldsNothing, At
<1>8. Ownership'
  BY <1>4, <1>5, Zenon DEF IInv, Ownership, Pending
<1>9. Outermost'
  BY <1>4, <1>5, Zenon DEF IInv, Outermost
<1>10. InProgress'
  BY <1>1, <1>4, <1>5, Zenon DEF IInv, InProgress, Quiet, HoldsNothing, TypeOK, At
<1>11. BaseState'
  BY <1>4, <1>5, Zenon DEF IInv, BaseState, HoldsNothing, Origin, At, Quiet
<1>12. Locked'
  BY <1>4, <1>5, Zenon DEF IInv, Locked, At
<1> QED
  BY <1>6, <1>7, <1>8, <1>9, <1>10, <1>11, <1>12 DEF IInv

LEMMA NoallocSwapInv == IInv /\ NoallocSwap => IInv'
<1> SUFFICES ASSUME IInv, NoallocSwap PROVE IInv'
  OBVIOUS
<1> DEFINE s == [interrupt_state |-> me.interrupt_state, yield_state |-> yield_disabled, found |-> me.guards]
<1> DEFINE f == [me EXCEPT !.pc = "idle", !.sections =
                  Append(@, [interrupt_state |-> me.interrupt_state, yield_state |-> yield_disabled,
                             found |-> me.guards])]
<1>1. me \in Frame
  BY DEF IInv, TypeOK, me
<1>2. f \in Frame
  <2>1. s \in Section
    BY <1>1, Zenon DEF IInv, TypeOK, Section, Frame
  <2>2. Append(me.sections, s) \in Seq(Section)
    BY <1>1, <2>1 DEF Frame
  <2> QED
    BY <1>1, <2>2, Zenon DEF Frame, PCs
<1>3. /\ me' = f /\ level' = level /\ frames' \in [Contexts -> Frame]
      /\ \A l \in Contexts : l < level => frames'[l] = frames[l]
  BY <1>2, OwnFrame, Zenon DEF IInv, NoallocSwap
<1>4. /\ me'.pc = "idle" /\ me'.interrupt_state = me.interrupt_state /\ me'.yield_state = me.yield_state
      /\ me'.index = me.index /\ me'.want = me.want /\ me'.try = me.try
      /\ me'.guards = me.guards /\ me'.sections = Append(me.sections, s)
  BY <1>1, <1>3, Zenon DEF Frame
<1>5. /\ UNCHANGED <<IF_flag, stack, stack_lock, owner, level, boot_flag>>
      /\ yield_disabled' = TRUE /\ me.pc = "n_swap"
  BY Zenon DEF NoallocSwap, At
<1> HIDE DEF f
<1>6. TypeOK'
  BY <1>3, <1>5, Zenon DEF IInv, TypeOK
<1>7. Quiet'
  BY <1>3, <1>4, <1>5, Zenon DEF IInv, Quiet, Interrupted, HoldsNothing, At
<1>8. Ownership'
  BY <1>4, <1>5, Zenon DEF IInv, Ownership, Pending
<1>9. Outermost'
  <2>1. me.sections \in Seq(Section) /\ s \in Section
    BY <1>1, Zenon DEF IInv, TypeOK, Section, Frame
  <2> DEFINE n == Len(me.sections)
  <2>2. /\ Len(me'.sections) = n + 1 /\ me'.sections[n + 1] = s /\ me'.sections # <<>>
        /\ \A i \in 1 .. n : me'.sections[i] = me.sections[i]
    BY <1>4, <2>1, Appended
  <2>3. n \in Nat /\ (me.sections = <<>> <=> n = 0)
    BY <2>1
  <2>4. s.interrupt_state \/ ~s.yield_state => n = 0 /\ s.found = {}
    BY <1>5, <2>3, Zenon DEF IInv, InProgress, Quiet, HoldsNothing
  <2>5. stack # <<>> => s.found # {}
    BY <1>5, NothingOnStack, Zenon DEF Pending
  <2> HIDE DEF n, s
  <2>6. \A i \in 1 .. Len(stack) :
          stack[i].interrupt_state \/ ~stack[i].yield_state => i = 1 /\ me'.sections[1].found # {}
    <3>1. stack \in Seq(Entry)
      BY DEF IInv, TypeOK
    <3>2. (\E i \in 1 .. Len(stack) : TRUE) => stack # <<>>
      BY <3>1
    <3> QED
      BY <2>2, <2>3, <2>5, <3>2, SMTT(30) DEF IInv, Outermost
  <2>7. s.found = me.guards
    BY Zenon DEF s
  <2>8. \A i \in 1 .. n + 1 :
          /\ me'.sections[i].found \subseteq me.guards
          /\ me'.sections[i].interrupt_state \/ ~me'.sections[i].yield_state =>
               i = 1 /\ me'.sections[1].found = {}
    <3> SUFFICES ASSUME NEW i \in 1 .. n + 1
                 PROVE  /\ me'.sections[i].found \subseteq me.guards
                        /\ me'.sections[i].interrupt_state \/ ~me'.sections[i].yield_state =>
                             i = 1 /\ me'.sections[1].found = {}
      BY Zenon
    <3>1. CASE i = n + 1
      BY <2>2, <2>3, <2>4, <2>7, <3>1
    <3>2. CASE i \in 1 .. n
      BY <2>2, <2>3, <3>2 DEF IInv, Outermost, n
    <3> QED
      BY <2>3, <3>1, <3>2
  <2>9. \A i, j \in 1 .. n + 1 : i <= j => me'.sections[i].found \subseteq me'.sections[j].found
    <3> SUFFICES ASSUME NEW i \in 1 .. n + 1, NEW j \in 1 .. n + 1, i <= j
                 PROVE  me'.sections[i].found \subseteq me'.sections[j].found
      BY Zenon
    <3>1. CASE j = n + 1
      BY <2>2, <2>7, <2>8, <3>1, Zenon
    <3>2. CASE j \in 1 .. n
      <4>1. i \in 1 .. n
        BY <2>3, <3>2
      <4> QED
        BY <2>2, <3>2, <4>1, Zenon DEF IInv, Outermost, n
    <3> QED
      BY <2>3, <3>1, <3>2
  <2> QED
    BY <1>4, <1>5, <2>2, <2>6, <2>8, <2>9, Zenon DEF Outermost
<1>10. InProgress'
  BY <1>1, <1>4, <1>5, Zenon DEF IInv, InProgress, Quiet, HoldsNothing, TypeOK, At
<1>11. BaseState'
  <2>1. me.sections \in Seq(Section) /\ s \in Section /\ s.found = me.guards
    BY <1>1, Zenon DEF IInv, TypeOK, Section, Frame
  <2>2. /\ me'.sections # <<>>
        /\ me.sections # <<>> => me'.sections[1] = me.sections[1]
        /\ me.sections = <<>> => me'.sections[1] = s
    BY <1>4, <2>1, Appended
  <2>3. me.guards = {} => stack = <<>>
    BY <1>5, NothingOnStack, Zenon DEF Pending
  <2>4. me.sections = <<>> /\ s.found = {} => s.interrupt_state = Origin /\ ~s.yield_state
    BY <1>5, <2>1, <2>3, Zenon DEF IInv, BaseState, HoldsNothing
  <2>5. Origin' = Origin /\ stack' = stack /\ level' = level /\ me'.pc = "idle" /\ boot_flag' = boot_flag
    BY <1>4, <1>5, Zenon DEF Origin
  <2>6. (stack # <<>> /\ me'.sections[1].found # {}) => stack[1].interrupt_state = Origin /\ ~stack[1].yield_state
    BY <2>1, <2>2, Zenon DEF IInv, BaseState
  <2>7. me'.sections[1].found = {} => me'.sections[1].interrupt_state = Origin /\ ~me'.sections[1].yield_state
    BY <2>1, <2>2, <2>4, Zenon DEF IInv, BaseState
  <2> QED
    BY <2>2, <2>5, <2>6, <2>7, Zenon DEF IInv, BaseState, HoldsNothing
<1>12. Locked'
  BY <1>4, <1>5, Zenon DEF IInv, Locked, At
<1> QED
  BY <1>6, <1>7, <1>8, <1>9, <1>10, <1>11, <1>12 DEF IInv

LEMMA LeaveNoallocInv == IInv /\ LeaveNoalloc => IInv'
<1> SUFFICES ASSUME IInv, LeaveNoalloc PROVE IInv'
  OBVIOUS
<1> DEFINE n == Len(me.sections)
<1> DEFINE f == [me EXCEPT !.pc = "n_sti",
                     !.interrupt_state = me.sections[Len(me.sections)].interrupt_state,
                     !.sections = SubSeq(@, 1, Len(me.sections) - 1)]
<1>1. me \in Frame
  BY DEF IInv, TypeOK, me
<1>2. f \in Frame
  <2>1. me.sections \in Seq(Section) /\ n \in Nat /\ n > 0
    BY <1>1 DEF Frame, LeaveNoalloc
  <2>2. SubSeq(me.sections, 1, n - 1) \in Seq(Section)
    BY <2>1, Prefix
  <2>3. me.sections[n] \in Section
    BY <2>1
  <2>4. me.sections[n].interrupt_state \in BOOLEAN
    BY <2>3, Zenon DEF Section
  <2> QED
    BY <1>1, <2>2, <2>4, Zenon DEF Frame, PCs
<1>3. /\ me' = f /\ level' = level /\ frames' \in [Contexts -> Frame]
      /\ \A l \in Contexts : l < level => frames'[l] = frames[l]
  BY <1>2, OwnFrame, Zenon DEF IInv, LeaveNoalloc
<1>4. /\ me'.pc = "n_sti" /\ me'.interrupt_state = me.sections[n].interrupt_state
      /\ me'.yield_state = me.yield_state /\ me'.index = me.index /\ me'.want = me.want
      /\ me'.try = me.try /\ me'.guards = me.guards /\ me'.sections = SubSeq(me.sections, 1, n - 1)
  BY <1>1, <1>3, Zenon DEF Frame
<1>5. /\ UNCHANGED <<IF_flag, stack, stack_lock, owner, level, boot_flag>>
      /\ yield_disabled' = me.sections[n].yield_state
      /\ me.pc = "idle" /\ n > 0 /\ me.guards = me.sections[n].found
  BY <1>1, Zenon DEF LeaveNoalloc, At
<1> HIDE DEF f
<1>6. TypeOK'
  <2>1. me.sections \in Seq(Section) /\ n \in Nat /\ n > 0
    BY <1>1, <1>5 DEF Frame
  <2>2. me.sections[n] \in Section
    BY <2>1
  <2>3. me.sections[n].yield_state \in BOOLEAN
    BY <2>2, Zenon DEF Section
  <2> QED
    BY <1>3, <1>5, <2>3, Zenon DEF IInv, TypeOK
<1>7. Quiet'
  <2>1. me.sections # <<>> /\ me.sections \in Seq(Section) /\ n \in 1 .. n
    BY <1>1, <1>5 DEF Frame
  <2>2. ~IF_flag
    BY <2>1, Zenon DEF IInv, Quiet, HoldsNothing
  <2>3. ~me.sections[n].yield_state => n = 1 /\ me.guards = {}
    BY <1>5, <2>1, Zenon DEF IInv, Outermost
  <2>4. n = 1 => me'.sections = <<>>
    BY <1>4, <2>1, Prefix
  <2>5. me.guards = {} => stack = <<>>
    BY <1>5, NothingOnStack, Zenon DEF Pending
  <2> QED
    BY <1>3, <1>4, <1>5, <2>2, <2>3, <2>4, <2>5, Zenon DEF IInv, Quiet, Interrupted, HoldsNothing, At
<1>8. Ownership'
  BY <1>4, <1>5, Zenon DEF IInv, Ownership, Pending
<1>9. Outermost'
  <2>1. me.sections \in Seq(Section) /\ n \in Nat /\ n > 0 /\ me'.sections = SubSeq(me.sections, 1, n - 1)
    BY <1>1, <1>4, <1>5 DEF Frame
  <2>2. /\ Len(me'.sections) = n - 1 /\ (me'.sections = <<>> <=> n - 1 = 0)
        /\ \A i \in 1 .. n - 1 : me'.sections[i] = me.sections[i]
    <3>1. n - 1 \in 0 .. Len(me.sections)
      BY <2>1
    <3> DEFINE q == SubSeq(me.sections, 1, n - 1)
    <3>2. /\ Len(q) = n - 1 /\ (q = <<>> <=> n - 1 = 0)
          /\ \A i \in 1 .. n - 1 : q[i] = me.sections[i]
      BY <2>1, <3>1, Prefix, Zenon
    <3> QED
      BY <2>1, <3>2, Zenon
  <2>3. me'.guards = me.guards /\ stack' = stack /\ me.sections # <<>>
    BY <1>4, <1>5, <2>1
  <2>4. \A i \in 1 .. n - 1 : i \in 1 .. n
    BY <2>1
  <2>5. me'.sections # <<>> => me'.sections[1] = me.sections[1]
    BY <2>1, <2>2
  <2>6. \A i \in 1 .. Len(stack) :
          stack[i].interrupt_state \/ ~stack[i].yield_state =>
            i = 1 /\ (me'.sections # <<>> => me'.sections[1].found # {})
    BY <2>3, <2>5, Zenon DEF IInv, Outermost
  <2>7. \A i \in 1 .. n - 1 :
          /\ me.sections[i].found \subseteq me.guards
          /\ me.sections[i].interrupt_state \/ ~me.sections[i].yield_state =>
               i = 1 /\ me.sections[1].found = {}
    BY <2>4, Zenon DEF IInv, Outermost
  <2>8. \A i, j \in 1 .. n - 1 : i <= j => me.sections[i].found \subseteq me.sections[j].found
    BY <2>4, Zenon DEF IInv, Outermost
  <2>9. \A i \in 1 .. n - 1 : me'.sections # <<>>
    BY <2>1, <2>2
  <2> QED
    BY <2>2, <2>3, <2>5, <2>6, <2>7, <2>8, <2>9, Zenon DEF Outermost
<1>10. InProgress'
  <2>1. me.sections \in Seq(Section) /\ n \in 1 .. n
    BY <1>1, <1>5 DEF Frame
  <2>2. me.sections[n].interrupt_state => n = 1 /\ me.guards = {}
    BY <1>5, <2>1, Zenon DEF IInv, Outermost
  <2>3. n = 1 => me'.sections = <<>>
    BY <1>4, <2>1, Prefix
  <2>4. me.guards = {} => stack = <<>>
    BY <1>5, NothingOnStack DEF Pending
  <2> QED
    BY <1>4, <1>5, <2>2, <2>3, <2>4, Zenon DEF InProgress, HoldsNothing
<1>11. BaseState'
  <2>1. me.sections \in Seq(Section) /\ n \in Nat /\ n > 0 /\ me.sections # <<>>
    BY <1>1, <1>5 DEF Frame
  <2>2. /\ me'.sections = <<>> <=> n = 1
        /\ n > 1 => me'.sections[1] = me.sections[1]
    <3>1. n - 1 \in 0 .. Len(me.sections)
      BY <2>1
    <3>2. /\ me'.sections = <<>> <=> n - 1 = 0
          /\ \A i \in 1 .. n - 1 : me'.sections[i] = me.sections[i]
      BY <1>4, <2>1, <3>1, Prefix, Zenon
    <3> QED
      BY <2>1, <3>2
  <2> HIDE DEF n
  <2>3. Origin' = Origin /\ stack' = stack /\ level' = level /\ boot_flag' = boot_flag
        /\ me'.pc = "n_sti" /\ me'.guards = me.guards
    BY <1>4, <1>5, Zenon DEF Origin
  <2>4. HoldsNothing' => me'.interrupt_state = Origin /\ ~yield_disabled'
    BY <1>4, <1>5, <2>1, <2>2, Zenon DEF IInv, BaseState, HoldsNothing
  <2>5. (stack # <<>> /\ (me'.sections = <<>> \/ me'.sections[1].found # {}))
          => stack[1].interrupt_state = Origin /\ ~stack[1].yield_state
    <3>1. n = 1 /\ stack # <<>> => me.sections[1].found # {}
      BY <1>5, NothingOnStack, Zenon DEF Pending
    <3>2. CASE n = 1
      BY <2>1, <3>1, <3>2, Zenon DEF IInv, BaseState
    <3>3. CASE n > 1
      BY <2>1, <2>2, <3>3 DEF IInv, BaseState
    <3> QED
      BY <2>1, <3>2, <3>3
  <2>6. (me'.sections # <<>> /\ me'.sections[1].found = {})
          => me'.sections[1].interrupt_state = Origin /\ ~me'.sections[1].yield_state
    <3>1. CASE n = 1
      BY <2>2, <3>1, Zenon
    <3>2. CASE n > 1
      BY <2>1, <2>2, <3>2, Zenon DEF IInv, BaseState
    <3> QED
      BY <2>1, <3>1, <3>2
  <2> QED
    BY <2>3, <2>4, <2>5, <2>6, Zenon DEF IInv, BaseState, At
<1>12. Locked'
  BY <1>4, <1>5, Zenon DEF IInv, Locked, At
<1> QED
  BY <1>6, <1>7, <1>8, <1>9, <1>10, <1>11, <1>12 DEF IInv

LEMMA DropGuardInv == IInv => \A g \in me.guards : DropGuard(g) => IInv'
<1> SUFFICES ASSUME IInv, NEW g \in me.guards, DropGuard(g) PROVE IInv'
  BY Zenon
<1> DEFINE f == [me EXCEPT !.pc = "e_clear", !.index = g.index, !.guards = @ \ {g}]
<1>1. me \in Frame
  BY Zenon DEF IInv, TypeOK, me
<1>2. f \in Frame
  <2>1. g \in Guard
    BY <1>1, Zenon DEF Frame
  <2>2. g.index \in Nat
    BY <2>1, Zenon DEF Guard
  <2> QED
    BY <1>1, <2>2, Zenon DEF Frame, PCs
<1>3. /\ me' = f /\ level' = level /\ frames' \in [Contexts -> Frame]
      /\ \A l \in Contexts : l < level => frames'[l] = frames[l]
  BY <1>2, OwnFrame, Zenon DEF IInv, DropGuard
<1>4. /\ me'.pc = "e_clear" /\ me'.interrupt_state = me.interrupt_state
      /\ me'.yield_state = me.yield_state /\ me'.index = g.index /\ me'.want = me.want
      /\ me'.try = me.try /\ me'.guards = me.guards \ {g} /\ me'.sections = me.sections
  BY <1>1, <1>3, Zenon DEF Frame
<1>5. /\ UNCHANGED <<IF_flag, yield_disabled, stack, stack_lock, level, boot_flag>>
      /\ me.pc = "idle" /\ g \notin Found
      /\ owner' = IF g.lock = NoLock THEN owner ELSE [owner EXCEPT ![g.lock] = Free]
  BY Zenon DEF DropGuard, At, Unlock
<1> HIDE DEF f
<1>6. TypeOK'
  <2>1. g.lock \in Locks \cup {NoLock}
    BY <1>1, Zenon DEF Frame, Guard
  <2> QED
    BY <1>3, <1>5, <2>1, Zenon DEF IInv, TypeOK
<1>7. Quiet'
  BY <1>3, <1>4, <1>5, Zenon DEF IInv, Quiet, Interrupted, HoldsNothing, At
<1>8. Ownership'
  BY <1>4, <1>5 DEF IInv, Ownership, Pending
<1>9. Outermost'
  <2> DEFINE n == Len(me.sections)
  <2>1. me.sections \in Seq(Section) /\ n \in Nat
    BY <1>1 DEF Frame
  <2>2. \A i \in 1 .. n : g \notin me.sections[i].found
    <3> SUFFICES ASSUME NEW i \in 1 .. n PROVE g \notin me.sections[i].found
      BY Zenon
    <3>1. me.sections # <<>> /\ n \in 1 .. n /\ i <= n
      BY <2>1
    <3>2. Found = me.sections[n].found
      BY <3>1, Zenon DEF Found
    <3>3. me.sections[i].found \subseteq me.sections[n].found
      BY <3>1, Zenon DEF IInv, Outermost
    <3> QED
      BY <1>5, <3>2, <3>3, Zenon
  <2>3. \A i \in 1 .. n : me.sections[i].found \subseteq me.guards \ {g}
    BY <2>2 DEF IInv, Outermost
  <2> QED
    BY <1>4, <1>5, <2>3, Zenon DEF IInv, Outermost
<1>10. InProgress'
  BY <1>1, <1>4, <1>5, Zenon DEF IInv, InProgress, Quiet, HoldsNothing, TypeOK, At
<1>11. BaseState'
  BY <1>4, <1>5, Zenon DEF IInv, BaseState, HoldsNothing, Origin, At, Quiet
<1>12. Locked'
  <2>1. g.lock \in Locks \cup {NoLock} /\ owner \in [Locks -> {Free, Elsewhere} \cup Contexts]
    BY <1>1, Zenon DEF Frame, Guard, IInv, TypeOK
  <2>2. \A m \in Locks : owner'[m] \in Contexts => owner'[m] = owner[m] /\ m # g.lock
    BY <1>5, <2>1, ConstantsAssumption DEF Free, Contexts
  <2>3. \A m \in Locks : owner'[m] \in Contexts =>
          owner'[m] = level' /\ \E h \in me'.guards : h.lock = m
    BY <1>4, <1>5, <2>2 DEF IInv, Locked
  <2> QED
    BY <1>4, <1>5, <2>3, Zenon DEF IInv, Locked, At
<1> QED
  BY <1>6, <1>7, <1>8, <1>9, <1>10, <1>11, <1>12, Zenon DEF IInv

LEMMA Into_nointerrupt_guardInv == IInv => \A g \in me.guards : into_nointerrupt_guard(g) => IInv'
<1> SUFFICES ASSUME IInv, NEW g \in me.guards, into_nointerrupt_guard(g) PROVE IInv'
  OBVIOUS
<1> DEFINE h == [index |-> g.index, lock |-> NoLock]
<1> DEFINE f == [me EXCEPT !.guards = (@ \ {g}) \cup {[index |-> g.index, lock |-> NoLock]}]
<1>1. me \in Frame
  BY DEF IInv, TypeOK, me
<1>2. f \in Frame
  <2>1. g \in Guard
    BY <1>1 DEF Frame
  <2>2. [index |-> g.index, lock |-> NoLock] \in Guard
    BY <2>1, Zenon DEF Guard
  <2> QED
    BY <1>1, <2>2, Zenon DEF Frame, PCs
<1>3. /\ me' = f /\ level' = level /\ frames' \in [Contexts -> Frame]
      /\ \A l \in Contexts : l < level => frames'[l] = frames[l]
  BY <1>2, OwnFrame, Zenon DEF IInv, into_nointerrupt_guard
<1>4. /\ me'.pc = me.pc /\ me'.interrupt_state = me.interrupt_state /\ me'.yield_state = me.yield_state
      /\ me'.index = me.index /\ me'.want = me.want /\ me'.try = me.try
      /\ me'.guards = (me.guards \ {g}) \cup {h} /\ me'.sections = me.sections
  BY <1>1, <1>3, Zenon DEF Frame
<1>5. /\ UNCHANGED <<IF_flag, yield_disabled, stack, stack_lock, level, boot_flag>>
      /\ me.pc = "idle" /\ g \notin Found /\ g.lock # NoLock
      /\ owner' = [owner EXCEPT ![g.lock] = Free]
  BY Zenon DEF into_nointerrupt_guard, At, Unlock
<1> HIDE DEF f
<1>6. TypeOK'
  <2>1. g.lock \in Locks \cup {NoLock}
    BY <1>1 DEF Frame, Guard
  <2> QED
    BY <1>3, <1>5, <2>1, Zenon DEF IInv, TypeOK
<1>7. Quiet'
  BY <1>3, <1>4, <1>5, Zenon DEF IInv, Quiet, Interrupted, HoldsNothing, At
<1>8. Ownership'
  <2>1. h.index = g.index
    BY Zenon
  <2> HIDE DEF h
  <2>2. \A k \in me'.guards : k.index \in 1 .. Len(stack) /\ stack[k.index].active
    BY <1>4, <2>1 DEF IInv, Ownership
  <2>3. \A k, l \in me'.guards : k.index = l.index => k = l
    BY <1>4, <2>1 DEF IInv, Ownership
  <2>4. \A i : (\E k \in me.guards : k.index = i) => \E k \in me'.guards : k.index = i
    BY <1>4, <2>1, Zenon
  <2> QED
    BY <1>4, <1>5, <2>2, <2>3, <2>4, Zenon DEF IInv, Ownership, Pending
<1>9. Outermost'
  <2> DEFINE n == Len(me.sections)
  <2>1. me.sections \in Seq(Section) /\ n \in Nat
    BY <1>1 DEF Frame
  <2>2. \A i \in 1 .. n : g \notin me.sections[i].found
    <3> SUFFICES ASSUME NEW i \in 1 .. n PROVE g \notin me.sections[i].found
      OBVIOUS
    <3>1. me.sections # <<>> /\ n \in 1 .. n /\ i <= n
      BY <2>1
    <3>2. Found = me.sections[n].found
      BY <3>1 DEF Found
    <3>3. me.sections[i].found \subseteq me.sections[n].found
      BY <3>1 DEF IInv, Outermost
    <3> QED
      BY <1>5, <3>2, <3>3, Zenon
  <2> HIDE DEF h
  <2>3. \A i \in 1 .. n : me.sections[i].found \subseteq (me.guards \ {g}) \cup {h}
    BY <2>2 DEF IInv, Outermost
  <2> QED
    BY <1>4, <1>5, <2>3, Zenon DEF IInv, Outermost
<1>10. InProgress'
  BY <1>1, <1>4, <1>5, Zenon DEF IInv, InProgress, Quiet, HoldsNothing, TypeOK, At
<1>11. BaseState'
  BY <1>4, <1>5, Zenon DEF IInv, BaseState, HoldsNothing, Origin, At, Quiet
<1>12. Locked'
  <2>1. g.lock \in Locks \cup {NoLock} /\ owner \in [Locks -> {Free, Elsewhere} \cup Contexts]
    BY <1>1 DEF Frame, Guard, IInv, TypeOK
  <2>2. \A m \in Locks : owner'[m] \in Contexts => owner'[m] = owner[m] /\ m # g.lock
    BY <1>5, <2>1 DEF Free, Contexts
  <2> HIDE DEF h
  <2>3. \A m \in Locks : owner'[m] \in Contexts =>
          owner'[m] = level' /\ \E k \in me'.guards : k.lock = m
    BY <1>4, <1>5, <2>2 DEF IInv, Locked
  <2> QED
    BY <1>4, <1>5, <2>3, Zenon DEF IInv, Locked, At
<1> QED
  BY <1>6, <1>7, <1>8, <1>9, <1>10, <1>11, <1>12 DEF IInv

LEMMA AcquireInv == IInv /\ Acquire => IInv'
<1> SUFFICES ASSUME IInv, Acquire PROVE IInv'
  OBVIOUS
<1>1. me \in Frame
  BY DEF IInv, TypeOK, me
<1>2. me.pc = "k_acquire" /\ me.want \in Locks /\ ~IF_flag /\ yield_disabled
  BY <1>1, Zenon DEF IInv, Acquire, At, Locked, Frame, Quiet
<1>3. UNCHANGED <<IF_flag, yield_disabled, stack, stack_lock, level, boot_flag>>
  BY Zenon DEF Acquire
<1>4. CASE owner[me.want] = Free /\ owner' = [owner EXCEPT ![me.want] = level]
           /\ SetFrame([me EXCEPT !.pc = "idle",
                                  !.guards = @ \cup {[index |-> me.index, lock |-> me.want]}])
  <2> DEFINE h == [index |-> me.index, lock |-> me.want]
             f == [me EXCEPT !.pc = "idle", !.guards = @ \cup {h}]
  <2>1. h \in Guard /\ h.index = me.index /\ h.lock = me.want
    BY <1>1, Zenon DEF Guard, Frame
  <2>2. f \in Frame
    BY <1>1, <2>1, Zenon DEF Frame, PCs
  <2>3. /\ me' = f /\ frames' \in [Contexts -> Frame]
        /\ \A l \in Contexts : l < level => frames'[l] = frames[l]
    BY <1>3, <1>4, <2>2, OwnFrame, Zenon DEF IInv
  <2>4. /\ me'.pc = "idle" /\ me'.sections = me.sections /\ me'.guards = me.guards \cup {h}
    BY <1>1, <2>3, Zenon DEF Frame
  <2> HIDE DEF h, f
  <2>5. TypeOK'
    BY <1>2, <1>3, <1>4, <2>3, Zenon DEF IInv, TypeOK
  <2>6. Quiet'
    BY <1>2, <1>3, <2>3, <2>4, Zenon DEF IInv, Quiet, Interrupted, HoldsNothing, At
  <2>7. Ownership'
    <3>1. /\ me.index \in 1 .. Len(stack) /\ stack[me.index].active
          /\ \A g \in me.guards : g.index # me.index
      BY <1>2, Zenon DEF IInv, Ownership, Pending
    <3>2. \A g \in me'.guards : g.index \in 1 .. Len(stack) /\ stack[g.index].active
      BY <2>1, <2>4, <3>1, Zenon DEF IInv, Ownership
    <3>3. \A g, k \in me'.guards : g.index = k.index => g = k
      BY <2>1, <2>4, <3>1 DEF IInv, Ownership
    <3>4. \A i \in 1 .. Len(stack) : stack[i].active => \E g \in me'.guards : g.index = i
      BY <2>1, <2>4, Zenon DEF IInv, Ownership
    <3> QED
      BY <1>3, <2>4, <3>2, <3>3, <3>4, Zenon DEF IInv, Ownership, Pending
  <2>8. Outermost'
    BY <1>3, <2>4, Zenon DEF IInv, Outermost
  <2>9. InProgress'
    BY <2>4, Zenon DEF InProgress
  <2>10. BaseState'
    BY <1>3, <2>4, Zenon DEF IInv, BaseState, HoldsNothing, Origin, At
  <2>11. Locked'
    <3>1. \A m \in Locks : owner'[m] = IF m = me.want THEN level ELSE owner[m]
      BY <1>2, <1>4, Zenon DEF IInv, TypeOK
    <3>2. \A m \in Locks : owner'[m] \in Contexts => owner'[m] = level /\ \E g \in me'.guards : g.lock = m
      BY <2>1, <2>4, <3>1, Zenon DEF IInv, Locked
    <3> QED
      BY <1>2, <1>3, <2>4, <3>2, Zenon DEF IInv, Locked, At
  <2> QED
    BY <2>5, <2>6, <2>7, <2>8, <2>9, <2>10, <2>11 DEF IInv
<1>5. CASE UNCHANGED owner /\ SetFrame([me EXCEPT !.pc = "e_clear"])
  <2> DEFINE f == [me EXCEPT !.pc = "e_clear"]
  <2>1. f \in Frame
    BY <1>1, Zenon DEF Frame, PCs
  <2>2. /\ me' = f /\ frames' \in [Contexts -> Frame]
        /\ \A l \in Contexts : l < level => frames'[l] = frames[l]
    BY <1>3, <1>5, <2>1, OwnFrame, Zenon DEF IInv
  <2>3. /\ me'.pc = "e_clear" /\ me'.sections = me.sections /\ me'.guards = me.guards
        /\ me'.index = me.index
    BY <1>1, <2>2, Zenon DEF Frame
  <2> HIDE DEF f
  <2>4. TypeOK'
    BY <1>3, <1>5, <2>2, Zenon DEF IInv, TypeOK
  <2>5. Quiet'
    BY <1>2, <1>3, <2>2, <2>3, Zenon DEF IInv, Quiet, Interrupted, HoldsNothing, At
  <2>6. Ownership'
    BY <1>2, <1>3, <2>3, Zenon DEF IInv, Ownership, Pending
  <2>7. Outermost'
    BY <1>3, <2>3, Zenon DEF IInv, Outermost
  <2>8. InProgress'
    BY <2>3, Zenon DEF InProgress
  <2>9. BaseState'
    BY <1>3, <2>3, Zenon DEF IInv, BaseState, HoldsNothing, Origin, At
  <2>10. Locked'
    BY <1>2, <1>3, <1>5, <2>3, Zenon DEF IInv, Locked, At
  <2> QED
    BY <2>4, <2>5, <2>6, <2>7, <2>8, <2>9, <2>10 DEF IInv
<1> QED
  BY <1>4, <1>5, Zenon DEF Acquire

\* The heart of the proof: an entry that found interruptions enabled is popped
\* last, and only when no guard and no section is left.
LEMMA EnableRestoreInv == IInv /\ EnableRestore => IInv'
<1> SUFFICES ASSUME IInv, EnableRestore PROVE IInv'
  OBVIOUS
<1> DEFINE marked == [stack EXCEPT ![me.index].active = FALSE]
<1>1. me \in Frame /\ stack \in Seq(Entry) /\ Len(stack) \in Nat
  BY DEF IInv, TypeOK, me
<1>2. /\ me.pc = "e_restore" /\ ~IF_flag /\ yield_disabled /\ ~me.interrupt_state
      /\ me.index \in 1 .. Len(stack)
      /\ \A g \in me.guards : g.index # me.index
  BY Zenon DEF IInv, EnableRestore, At, Quiet, InProgress, Ownership, Pending
<1>3. PICK kept \in 0 .. Len(stack) :
        /\ kept > 0 => marked[kept].active
        /\ \A i \in kept + 1 .. Len(stack) : ~marked[i].active
        /\ stack' = SubSeq(marked, 1, kept)
        /\ IF kept < Len(stack)
           THEN /\ yield_disabled' = stack[kept + 1].yield_state
                /\ SetFrame([me EXCEPT !.pc = "e_sti",
                                       !.interrupt_state = stack[kept + 1].interrupt_state])
           ELSE /\ SetFrame([me EXCEPT !.pc = "e_sti"])
                /\ UNCHANGED yield_disabled
  BY Zenon DEF EnableRestore
<1>4. UNCHANGED <<IF_flag, owner, level, boot_flag>> /\ stack_lock' = Free
  BY Zenon DEF EnableRestore
<1>5. /\ marked \in Seq(Entry) /\ Len(marked) = Len(stack)
      /\ ~marked[me.index].active
      /\ \A i \in 1 .. Len(stack) :
           /\ i # me.index => marked[i] = stack[i]
           /\ marked[i].interrupt_state = stack[i].interrupt_state
           /\ marked[i].yield_state = stack[i].yield_state
  <2>1. stack[me.index] \in Entry
    BY <1>1, <1>2
  <2>2. [stack[me.index] EXCEPT !.active = FALSE] \in Entry
    BY <2>1, Zenon DEF Entry
  <2> QED
    BY <1>1, <1>2, <2>1, <2>2 DEF Entry
<1> HIDE DEF marked
<1>6. /\ stack' \in Seq(Entry) /\ Len(stack') = kept /\ (stack' = <<>> <=> kept = 0)
      /\ \A i \in 1 .. kept : stack'[i] = marked[i]
  BY <1>3, <1>5, Prefix
<1>7. \A g \in me.guards : g.index \in 1 .. kept /\ marked[g.index].active
  <2> SUFFICES ASSUME NEW g \in me.guards PROVE g.index \in 1 .. kept /\ marked[g.index].active
    BY Zenon
  <2>1. g.index \in 1 .. Len(stack) /\ stack[g.index].active /\ g.index # me.index
    BY <1>2, Zenon DEF IInv, Ownership
  <2>2. marked[g.index].active
    BY <1>5, <2>1, Zenon
  <2> QED
    BY <1>1, <1>3, <2>1, <2>2
<1> DEFINE y == IF kept < Len(stack) THEN stack[kept + 1].yield_state ELSE yield_disabled
           w == IF kept < Len(stack) THEN stack[kept + 1].interrupt_state ELSE me.interrupt_state
           f == [me EXCEPT !.pc = "e_sti", !.interrupt_state = w]
<1>8. y \in BOOLEAN /\ w \in BOOLEAN /\ yield_disabled' = y
  <2>1. CASE kept < Len(stack)
    <3>1. stack[kept + 1] \in Entry
      BY <1>1, <2>1
    <3> QED
      BY <1>3, <2>1, <3>1, EntryFields, Zenon
  <2>2. CASE ~(kept < Len(stack))
    BY <1>1, <1>3, <2>2, Zenon DEF IInv, TypeOK, Frame
  <2> QED
    BY <2>1, <2>2, Zenon
<1>9. f \in Frame
  BY <1>1, <1>8, Zenon DEF Frame, PCs
<1>10. SetFrame(f)
  <2>1. CASE kept < Len(stack)
    BY <1>3, <2>1, Zenon
  <2>2. CASE ~(kept < Len(stack))
    <3>1. f = [me EXCEPT !.pc = "e_sti"]
      BY <1>1, <2>2, Zenon DEF Frame
    <3> QED
      BY <1>3, <2>2, <3>1, Zenon
  <2> QED
    BY <2>1, <2>2, Zenon
<1>11. /\ me' = f /\ frames' \in [Contexts -> Frame]
       /\ \A l \in Contexts : l < level => frames'[l] = frames[l]
  BY <1>4, <1>9, <1>10, OwnFrame, Zenon DEF IInv
<1>12. /\ me'.pc = "e_sti" /\ me'.interrupt_state = w
       /\ me'.guards = me.guards /\ me'.sections = me.sections
  BY <1>1, <1>11, Zenon DEF Frame
<1>13. w \/ ~y => kept = 0 /\ me.guards = {} /\ me.sections = <<>>
  <2> SUFFICES ASSUME w \/ ~y PROVE kept = 0 /\ me.guards = {} /\ me.sections = <<>>
    BY Zenon
  <2>1. kept < Len(stack) /\ (stack[kept + 1].interrupt_state \/ ~stack[kept + 1].yield_state)
    BY <1>2, Zenon
  <2>2. kept + 1 = 1 /\ (me.sections # <<>> => me.sections[1].found # {})
    BY <1>1, <1>3, <2>1 DEF IInv, Outermost
  <2>3. me.guards = {}
    BY <1>7, <2>2
  <2>4. me.sections # <<>> => me.sections[1].found \subseteq me.guards
    <3>1. me.sections # <<>> => 1 \in 1 .. Len(me.sections)
      BY <1>1 DEF Frame
    <3> QED
      BY <3>1, Zenon DEF IInv, Outermost
  <2>5. kept = 0
    BY <1>1, <1>3, <2>2
  <2> QED
    BY <2>2, <2>3, <2>4, <2>5, Zenon
<1>14. kept = 0 => w = stack[1].interrupt_state /\ y = stack[1].yield_state /\ stack # <<>>
  <2> SUFFICES ASSUME kept = 0
               PROVE  w = stack[1].interrupt_state /\ y = stack[1].yield_state /\ stack # <<>>
    BY Zenon
  <2>1. kept < Len(stack) /\ kept + 1 = 1 /\ stack # <<>>
    BY <1>1, <1>2
  <2> QED
    BY <2>1, Zenon
<1> HIDE DEF f, y, w
<1>15. TypeOK'
  BY <1>1, <1>3, <1>4, <1>6, <1>8, <1>11, ConstantsAssumption DEF IInv, TypeOK
<1>16. Quiet'
  BY <1>2, <1>4, <1>6, <1>8, <1>11, <1>12, <1>13, Zenon DEF IInv, Quiet, Interrupted, HoldsNothing, At
<1>17. Ownership'
  <2>1. \A g \in me'.guards : g.index \in 1 .. Len(stack') /\ stack'[g.index].active
    BY <1>6, <1>7, <1>12, Zenon
  <2>2. \A i \in 1 .. Len(stack') : stack'[i].active => \E g \in me'.guards : g.index = i
    <3> SUFFICES ASSUME NEW i \in 1 .. kept, marked[i].active PROVE \E g \in me.guards : g.index = i
      BY <1>6, <1>12, Zenon
    <3>1. i \in 1 .. Len(stack) /\ i # me.index
      BY <1>1, <1>3, <1>5
    <3> QED
      BY <1>5, <3>1, Zenon DEF IInv, Ownership
  <2>3. stack' # <<>> => stack'[Len(stack')].active
    BY <1>3, <1>6
  <2>4. \A g, h \in me'.guards : g.index = h.index => g = h
    BY <1>12, Zenon DEF IInv, Ownership
  <2> QED
    BY <1>12, <2>1, <2>2, <2>3, <2>4, Zenon DEF Ownership, Pending
<1>18. Outermost'
  <2>1. \A i \in 1 .. Len(stack') :
          stack'[i].interrupt_state \/ ~stack'[i].yield_state =>
            i = 1 /\ (me'.sections # <<>> => me'.sections[1].found # {})
    <3> SUFFICES ASSUME NEW i \in 1 .. kept, stack'[i].interrupt_state \/ ~stack'[i].yield_state
                 PROVE  i = 1 /\ (me.sections # <<>> => me.sections[1].found # {})
      BY <1>6, <1>12, Zenon
    <3>1. i \in 1 .. Len(stack)
      BY <1>1, <1>3
    <3>2. stack[i].interrupt_state \/ ~stack[i].yield_state
      BY <1>5, <1>6, <3>1, Zenon
    <3> QED
      BY <3>1, <3>2, Zenon DEF IInv, Outermost
  <2> QED
    BY <1>12, <2>1, Zenon DEF IInv, Outermost
<1>19. InProgress'
  BY <1>6, <1>12, <1>13, Zenon DEF InProgress, HoldsNothing
<1>20. BaseState'
  <2>1. Origin' = Origin
    BY <1>4, Zenon DEF Origin
  <2>2. (me.guards = {} /\ me.sections = <<>> /\ stack' = <<>>) => w = Origin /\ ~y
    BY <1>6, <1>14, Zenon DEF IInv, BaseState
  <2>3. stack' # <<>> => /\ stack'[1].interrupt_state = stack[1].interrupt_state
                         /\ stack'[1].yield_state = stack[1].yield_state
                         /\ stack # <<>>
    <3> SUFFICES ASSUME stack' # <<>>
                 PROVE  /\ stack'[1].interrupt_state = stack[1].interrupt_state
                        /\ stack'[1].yield_state = stack[1].yield_state
                        /\ stack # <<>>
      BY Zenon
    <3>1. 1 \in 1 .. kept /\ 1 \in 1 .. Len(stack)
      BY <1>1, <1>3, <1>6
    <3> QED
      BY <1>1, <1>5, <1>6, <3>1
  <2> QED
    BY <1>4, <1>8, <1>12, <2>1, <2>2, <2>3, Zenon DEF IInv, BaseState, HoldsNothing, At
<1>21. Locked'
  BY <1>2, <1>4, <1>12, Zenon DEF IInv, Locked, At
<1> QED
  BY <1>15, <1>16, <1>17, <1>18, <1>19, <1>20, <1>21, Zenon DEF IInv

LEMMA InterruptInv == IInv /\ Interrupt => IInv'
<1> SUFFICES ASSUME IInv, Interrupt PROVE IInv'
  OBVIOUS
<1>1. level \in Contexts /\ level + 1 \in Contexts /\ frames \in [Contexts -> Frame]
  BY ConstantsAssumption DEF IInv, TypeOK, Interrupt, Contexts
<1>2. FreshFrame \in Frame
  BY DEF FreshFrame, Frame, PCs
<1>3. /\ UNCHANGED <<yield_disabled, stack, stack_lock, owner, boot_flag>>
      /\ IF_flag /\ IF_flag' = FALSE /\ level' = level + 1
  BY Zenon DEF Interrupt
<1>4. /\ frames' \in [Contexts -> Frame] /\ me' = FreshFrame
      /\ \A l \in Contexts : l < level' => frames'[l] = frames[l]
  BY <1>1, <1>2, <1>3 DEF Interrupt, me, Contexts
<1>5. me.pc = "idle" /\ HoldsNothing /\ stack = <<>> /\ ~yield_disabled /\ level = 0 /\ boot_flag
  BY <1>1, <1>3, Zenon DEF IInv, Quiet, BaseState, Origin, At, Contexts
<1>6. me'.pc = "idle" /\ me'.guards = {} /\ me'.sections = <<>>
  BY <1>4, Zenon DEF FreshFrame
<1>7. TypeOK'
  BY <1>1, <1>3, <1>4, Zenon DEF IInv, TypeOK
<1>8. Quiet'
  <2>1. Interrupted(level)
    BY <1>5, Zenon DEF Interrupted, HoldsNothing, me
  <2>2. \A l \in Contexts : l < level' => l = level
    BY <1>3, <1>5 DEF Contexts
  <2> QED
    BY <1>3, <1>4, <1>5, <1>6, <2>1, <2>2, Zenon DEF Quiet, Interrupted, HoldsNothing, At
<1>9. Ownership' /\ Outermost'
  BY <1>3, <1>5, <1>6 DEF Ownership, Outermost, Pending
<1>10. InProgress'
  BY <1>6, Zenon DEF InProgress
<1>11. BaseState'
  <2>1. level' = 1 /\ level' # 0 /\ stack' = <<>>
    BY <1>3, <1>5
  <2>2. IF_flag' = Origin'
    BY <1>3, <2>1, Zenon DEF Origin
  <2>3. boot_flag' /\ ~yield_disabled'
    BY <1>3, <1>5, Zenon
  <2> QED
    BY <1>6, <2>1, <2>2, <2>3, Zenon DEF BaseState, HoldsNothing, At
<1>12. Locked'
  <2>1. \A m \in Locks : owner[m] \notin Contexts
    BY <1>5, Zenon DEF IInv, Locked, HoldsNothing
  <2> QED
    BY <1>3, <1>5, <1>6, <2>1, Zenon DEF IInv, Locked, At
<1> QED
  BY <1>7, <1>8, <1>9, <1>10, <1>11, <1>12, Zenon DEF IInv

LEMMA InterruptReturnInv == IInv /\ InterruptReturn => IInv'
<1> SUFFICES ASSUME IInv, InterruptReturn PROVE IInv'
  OBVIOUS
<1>1. /\ UNCHANGED <<yield_disabled, stack, stack_lock, owner, frames, boot_flag>>
      /\ IF_flag' = TRUE /\ level > 0 /\ level' = level - 1
      /\ me.pc = "idle" /\ me.guards = {} /\ me.sections = <<>>
  BY Zenon DEF InterruptReturn, At
<1>2. level = 1 /\ level' = 0 /\ boot_flag /\ ~yield_disabled
  BY <1>1 DEF IInv, BaseState, HoldsNothing, At
<1>3. 0 \in Contexts /\ frames \in [Contexts -> Frame]
  BY ConstantsAssumption DEF IInv, TypeOK, Contexts
<1>4. me'.pc = "idle" /\ me'.guards = {} /\ me'.sections = <<>>
  BY <1>1, <1>2, <1>3, Zenon DEF IInv, Quiet, Interrupted, me
<1>5. stack = <<>>
  BY <1>1, NothingOnStack, Zenon DEF Pending
<1>6. TypeOK'
  BY <1>1, <1>2, <1>3, Zenon DEF IInv, TypeOK
<1>7. Quiet'
  BY <1>1, <1>2, <1>4, <1>5 DEF Quiet, HoldsNothing, At, Contexts
<1>8. Ownership' /\ Outermost'
  BY <1>1, <1>4, <1>5 DEF Ownership, Outermost, Pending
<1>9. InProgress'
  BY <1>4 DEF InProgress
<1>10. BaseState'
  BY <1>1, <1>2, <1>4, <1>5 DEF BaseState, HoldsNothing, Origin, At
<1>11. Locked'
  <2>1. \A m \in Locks : owner[m] \notin Contexts
    BY <1>1, Zenon DEF IInv, Locked
  <2> QED
    BY <1>1, <1>4, <2>1, Zenon DEF IInv, Locked, At
<1> QED
  BY <1>6, <1>7, <1>8, <1>9, <1>10, <1>11 DEF IInv

LEMMA OtherCPUInv == IInv => \A m \in Locks : OtherCPU(m) => IInv'
<1> SUFFICES ASSUME IInv, NEW m \in Locks, OtherCPU(m) PROVE IInv'
  BY Zenon
<1>1. UNCHANGED <<IF_flag, yield_disabled, stack, stack_lock, level, frames, boot_flag>> /\ me' = me
  BY Zenon DEF OtherCPU, me
<1>2. /\ owner' \in [Locks -> {Free, Elsewhere} \cup Contexts]
      /\ \A n \in Locks : owner'[n] \in Contexts <=> owner[n] \in Contexts
      /\ \A n \in Locks : owner[n] \in Contexts => owner'[n] = owner[n]
  BY DEF OtherCPU, IInv, TypeOK, Free, Elsewhere, Contexts
<1>3. TypeOK'
  BY <1>1, <1>2, Zenon DEF IInv, TypeOK
<1>4. Quiet'
  BY <1>1, Zenon DEF IInv, Quiet, Interrupted, HoldsNothing, At
<1>5. Ownership' /\ Outermost'
  BY <1>1, Zenon DEF IInv, Ownership, Outermost
<1>6. InProgress'
  BY <1>1, Zenon DEF IInv, InProgress, HoldsNothing
<1>7. BaseState'
  BY <1>1, Zenon DEF IInv, BaseState, HoldsNothing, Origin, At
<1>8. Locked'
  <2>1. me.want \in Locks \cup {NoLock}
    BY Zenon DEF IInv, TypeOK, me, Frame
  <2> QED
    BY <1>1, <1>2, <2>1, Zenon DEF IInv, Locked, At
<1> QED
  BY <1>3, <1>4, <1>5, <1>6, <1>7, <1>8, Zenon DEF IInv
----------------------------------------------------------------------------
LEMMA InitInv == Init => IInv
<1> SUFFICES ASSUME Init PROVE IInv
  BY Zenon
<1>1. FreshFrame \in Frame /\ 0 \in Contexts
  <2>1. "idle" \in PCs
    BY Zenon DEF PCs
  <2>2. <<>> \in Seq(Section) /\ {} \in SUBSET Guard
    OBVIOUS
  <2>3. FreshFrame \in Frame
    BY <2>1, <2>2, Zenon DEF FreshFrame, Frame
  <2> QED
    BY <2>3, ConstantsAssumption DEF Contexts
<1>2. frames \in [Contexts -> Frame] /\ me = FreshFrame
  BY <1>1, Zenon DEF Init, me
<1>3. me.pc = "idle" /\ me.guards = {} /\ me.sections = <<>>
  BY <1>2, Zenon DEF FreshFrame
<1>4. TypeOK
  <2>1. stack \in Seq(Entry) /\ Len(stack) = 0 /\ Len(stack) <= MAX_GUARDS
    BY ConstantsAssumption DEF Init
  <2> QED
    BY <1>1, <1>2, <2>1, Zenon DEF Init, TypeOK
<1>5. Quiet /\ Ownership /\ Outermost /\ InProgress /\ BaseState
  <2>1. Quiet
    BY <1>3 DEF Init, Quiet, HoldsNothing, At, Contexts
  <2>2. Ownership
    BY <1>3 DEF Init, Ownership, At, Pending, Contexts
  <2>3. Outermost
    BY <1>3 DEF Init, Outermost, Origin, At, Pending
  <2>4. InProgress
    BY <1>3, Zenon DEF Init, InProgress, At
  <2>5. BaseState
    BY <1>3 DEF Init, BaseState, HoldsNothing, Origin, At
  <2> QED
    BY <2>1, <2>2, <2>3, <2>4, <2>5, Zenon
<1>6. Locked
  BY <1>3 DEF Init, Locked, At, Free, Contexts
<1> QED
  BY <1>4, <1>5, <1>6, Zenon DEF IInv

LEMMA StutterInv == IInv /\ UNCHANGED vars => IInv'
<1> SUFFICES ASSUME IInv, UNCHANGED vars PROVE IInv'
  BY Zenon
<1>1. /\ UNCHANGED <<IF_flag, yield_disabled, stack, stack_lock, owner, level, frames, boot_flag>>
      /\ me' = me
  BY Zenon DEF vars, me
<1>2. TypeOK'
  BY <1>1, Zenon DEF IInv, TypeOK
<1>3. Quiet'
  BY <1>1, Zenon DEF IInv, Quiet, Interrupted, HoldsNothing, At
<1>4. Ownership' /\ Outermost'
  BY <1>1, Zenon DEF IInv, Ownership, Outermost
<1>5. InProgress'
  BY <1>1, Zenon DEF IInv, InProgress, HoldsNothing
<1>6. BaseState'
  BY <1>1, Zenon DEF IInv, BaseState, HoldsNothing, Origin, At
<1>7. Locked'
  BY <1>1, Zenon DEF IInv, Locked, At
<1> QED
  BY <1>2, <1>3, <1>4, <1>5, <1>6, <1>7, Zenon DEF IInv

LEMMA NextInv == IInv /\ [Next]_vars => IInv'
BY CallDisableInv, DisableSwapInv, LockStackInv, DisablePushInv, AcquireInv, DropGuardInv,
   Into_nointerrupt_guardInv, EnableClearInv, EnableRestoreInv, Restore_interruptsInv,
   EnterNoallocInv, NoallocSwapInv, LeaveNoallocInv, InterruptInv, InterruptReturnInv,
   OtherCPUInv, StutterInv, Zenon
DEF Next

LEMMA Invariant == Spec => []IInv
BY InitInv, NextInv, PTL DEF Spec

\* The stack, the guards and the locals of disable_interruptions and
\* enable_interruptions keep their types, and the stack its bound.
THEOREM TypeCorrect == Spec => []TypeOK
<1>1. IInv => TypeOK
  BY Zenon DEF IInv
<1> QED
  BY <1>1, Invariant, PTL

\* Interrupts and yields stay disabled while any NoInterruptionsGuard or noalloc
\* section exists, whatever the order in which the guards are dropped.
THEOREM ShieldedHolds == Spec => []Shielded
<1>1. IInv => Shielded
  <2> SUFFICES ASSUME IInv, NEW l \in Contexts, l <= level,
                      frames[l].guards # {} \/ frames[l].sections # <<>>
               PROVE  ~IF_flag /\ yield_disabled
    BY Zenon DEF Shielded
  <2>1. level \in Nat /\ l \in Nat /\ IF_flag \in BOOLEAN /\ yield_disabled \in BOOLEAN
    BY DEF IInv, TypeOK, Contexts
  <2>2. l = level
    BY <2>1 DEF IInv, Quiet, Interrupted
  <2>3. ~HoldsNothing
    BY <2>2, Zenon DEF HoldsNothing, me
  <2> QED
    BY <2>1, <2>3, Zenon DEF IInv, Quiet
<1> QED
  BY <1>1, Invariant, PTL

\* guard[index] in enable_interruptions is always the dropped guard's own entry.
THEOREM GuardsOwnEntriesHolds == Spec => []GuardsOwnEntries
<1>1. IInv => GuardsOwnEntries
  <2> SUFFICES ASSUME IInv, NEW l \in Contexts, l <= level
               PROVE  /\ \A g \in frames[l].guards : g.index \in 1 .. Len(stack) /\ stack[g.index].active
                      /\ \A g, h \in frames[l].guards : g.index = h.index => g = h
                      /\ \A k \in Contexts : k < l =>
                           \A g \in frames[l].guards, h \in frames[k].guards : g.index # h.index
    BY Zenon DEF GuardsOwnEntries
  <2>1. level \in Nat /\ l \in Nat /\ Contexts \subseteq Nat
    BY DEF IInv, TypeOK, Contexts
  <2>2. \A k \in Contexts : k < l => frames[k].guards = {}
    BY <2>1 DEF IInv, Quiet, Interrupted
  <2>3. CASE l < level
    BY <2>2, <2>3, Zenon DEF IInv, Quiet, Interrupted
  <2>4. CASE l = level
    BY <2>2, <2>4, Zenon DEF IInv, Ownership, me
  <2>5. l < level \/ l = level
    BY <2>1
  <2> QED
    BY <2>3, <2>4, <2>5, Zenon
<1> QED
  BY <1>1, Invariant, PTL

\* The last drop brings the CPU back to where the first disable found it.
THEOREM RestoredHolds == Spec => []Restored
<1>1. IInv => Restored
  <2> SUFFICES ASSUME IInv, level = 0, At("idle"), me.guards = {}, me.sections = <<>>
               PROVE  stack = <<>> /\ ~yield_disabled /\ IF_flag = boot_flag
    BY Zenon DEF Restored
  <2>1. stack = <<>>
    BY NothingOnStack, Zenon DEF At, Pending
  <2> QED
    BY <2>1, Zenon DEF IInv, BaseState, HoldsNothing, Origin
<1> QED
  BY <1>1, Invariant, PTL

\* Neither a KMutex nor the stack's LLMutex is ever waited for while a context of
\* the same CPU holds it.
THEOREM NoSelfDeadlockHolds == Spec => []NoSelfDeadlock
<1>1. IInv => NoSelfDeadlock
  <2> SUFFICES ASSUME IInv PROVE NoSelfDeadlock
    BY Zenon
  <2>1. me.want \in Locks \cup {NoLock} /\ owner \in [Locks -> {Free, Elsewhere} \cup Contexts]
    BY Zenon DEF IInv, TypeOK, me, Frame
  <2>2. (At("k_acquire") /\ ~me.try) => owner[me.want] \in {Free, Elsewhere}
    BY <2>1, Zenon DEF IInv, Locked, At
  <2>3. (At("d_lock") \/ At("e_lock")) => stack_lock = Free
    BY Zenon DEF IInv, Locked, At
  <2> QED
    BY <2>2, <2>3, Zenon DEF NoSelfDeadlock
<1> QED
  BY <1>1, Invariant, PTL

\* Interrupts are never enabled inside an interrupt handler.
THEOREM HandlersDoNotNestHolds == Spec => []HandlersDoNotNest
<1>1. IInv => HandlersDoNotNest
  <2> SUFFICES ASSUME IInv, level > 0, IF_flag PROVE FALSE
    BY Zenon DEF HandlersDoNotNest
  <2>1. level = 1 /\ At("idle") /\ HoldsNothing
    BY Zenon DEF IInv, Quiet, BaseState
  <2>2. IF_flag = FALSE
    BY <2>1 DEF IInv, BaseState, Origin
  <2> QED
    BY <2>2, Zenon
<1> QED
  BY <1>1, Invariant, PTL
----------------------------------------------------------------------------
(* The HMutex: HybridLock takes the steps of Interruptions, and relax waits with *)
(* what the call of lock() found.                                                *)

Relaxing == {"relax", "yielded", "panic"}
Call == [pc : {"none", "try"} \cup Relaxing, lock : Locks \cup {NoLock}, can_yield : BOOLEAN,
         disabled : BOOLEAN, flag : BOOLEAN]

AsCalled == yield_disabled = call.disabled /\ IF_flag = call.flag

\* What try_lock has saved on its way, in its locals or in the entry on top of the
\* stack.  The entry below that one is active, so that a failed attempt pops no other.
Trying ==
  /\ me.pc \notin {"n_swap", "n_sti"}
  /\ At("idle") => (\E g \in me.guards : g.lock = call.lock) \/ AsCalled
  /\ me.pc \in {"d_swap", "d_lock", "d_push", "k_acquire"} => me.want = call.lock
  /\ me.pc \in {"d_swap", "d_lock", "d_push", "e_sti"} => me.interrupt_state = call.flag
  /\ me.pc \in {"d_swap", "e_sti"} => yield_disabled = call.disabled
  /\ me.pc \in {"d_lock", "d_push"} => me.yield_state = call.disabled
  /\ me.pc \in Pending =>
       /\ me.index = Len(stack)
       /\ stack[Len(stack)].interrupt_state = call.flag
       /\ stack[Len(stack)].yield_state = call.disabled
       /\ Len(stack) > 1 => stack[Len(stack) - 1].active

\* A handler interrupts the call only if it was made with interruptions enabled.
CallInv ==
  /\ call \in Call /\ is_executing_task \in BOOLEAN
  /\ call.pc # "none" /\ level > 0 => call.flag /\ ~call.disabled
  /\ call.pc = "try" /\ level = 0 => Trying
  /\ call.pc \in Relaxing /\ level = 0 => At("idle") /\ AsCalled

HInv == IInv /\ CallInv

\* Every step of HybridLock is one of Interruptions, or changes nothing there.
LEMMA HNextImplements == [HNext]_<<vars, hvars>> => [Next]_vars
<1> SUFFICES ASSUME [HNext]_<<vars, hvars>> PROVE Next \/ UNCHANGED vars
  BY Zenon
<1>1. ASSUME NEW m \in HLocks, HTry(m) PROVE Next
  <2>1. m \in Locks \cup {NoLock} /\ CallDisable(m, TRUE)
    BY <1>1, HybridAssumption, Zenon DEF HTry
  <2> QED BY <2>1, Zenon DEF Next
<1>2. HTried \/ HRelax \/ HResume => UNCHANGED vars
  BY Zenon DEF HTried, HRelax, HResume
<1>3. Within => Next
  BY Zenon DEF Within
<1> QED BY <1>1, <1>2, <1>3, Zenon DEF HNext

\* The steps that change the context, and the others.
LEMMA LevelMoves == Next => level' = level \/ Interrupt \/ InterruptReturn
BY Zenon DEF Next, CallDisable, DisableSwap, LockStack, DisablePush, Acquire, DropGuard,
       into_nointerrupt_guard, EnableClear, EnableRestore, restore_interrupts,
       EnterNoalloc, NoallocSwap, LeaveNoalloc, OtherCPU

\* What Quiet says of the values that a call found, when it is idle and can be
\* interrupted.
LEMMA Interruptible ==
  ASSUME IInv, IF_flag
  PROVE  At("idle") /\ me.guards = {} /\ ~yield_disabled
BY Zenon DEF IInv, Quiet, BaseState, HoldsNothing

\* A handler comes in while lock() is between two steps of its own, and returns.
LEMMA InterruptCall ==
  ASSUME HInv, level = 0, Interrupt, UNCHANGED hvars, call.pc # "none"
  PROVE  CallInv'
<1>1. IF_flag /\ level' = 1 /\ At("idle") /\ me.guards = {} /\ ~yield_disabled
  BY Interruptible DEF HInv, Interrupt
<1>2. AsCalled
  BY <1>1, Zenon DEF HInv, CallInv, Trying, Call, Relaxing
<1>3. call.flag /\ ~call.disabled
  BY <1>1, <1>2, Zenon DEF AsCalled, HInv, CallInv, Call
<1> QED BY <1>1, <1>3 DEF HInv, CallInv, hvars

LEMMA ReturnToCall ==
  ASSUME HInv, level > 0, InterruptReturn, UNCHANGED hvars, call.pc # "none"
  PROVE  CallInv'
<1>1. level = 1 /\ level' = 0 /\ IF_flag' = TRUE /\ frames' = frames /\ yield_disabled' = yield_disabled
  BY DEF HInv, IInv, BaseState, InterruptReturn
<1>2. ~yield_disabled
  BY Zenon DEF HInv, IInv, BaseState, InterruptReturn, HoldsNothing
<1>3. 0 \in Contexts /\ frames[0].pc = "idle"
  BY <1>1, ConstantsAssumption DEF HInv, IInv, Quiet, Interrupted, Contexts
<1>4. me'.pc = "idle"
  BY <1>1, <1>3, Zenon DEF me
<1>5. call.flag = TRUE /\ call.disabled = FALSE
  BY Zenon DEF HInv, CallInv, Call
<1>6. AsCalled'
  BY <1>1, <1>2, <1>5, Zenon DEF AsCalled, HInv, IInv, TypeOK, hvars
<1>7. Trying'
  BY <1>4, <1>6, Zenon DEF Trying, At, Pending
<1> QED BY <1>1, <1>4, <1>6, <1>7, Zenon DEF HInv, CallInv, At, hvars

\* Context 0 does nothing of its own while lock() is between two attempts.
LEMMA IdleCall ==
  ASSUME HInv, Within, level = 0, level' = level, At("idle"), call.pc # "none"
  PROVE  CallInv'
<1>1. frames' = frames /\ me' = me /\ UNCHANGED <<call, is_executing_task>> /\ Next
  BY Zenon DEF Within, Calling, hvars, me
<1>2. UNCHANGED <<IF_flag, yield_disabled>>
  <2>1. me \in Frame /\ level \in Contexts
    BY Zenon DEF HInv, IInv, TypeOK, me
  <2>2. ASSUME NEW f, SetFrame(f) PROVE f = me
    BY <1>1, <2>1, <2>2, Zenon DEF SetFrame, me, HInv, IInv, TypeOK
  <2>4. me.pc = "idle"
    BY Zenon DEF At
  <2>5. ASSUME NEW m, NEW try, CallDisable(m, try) PROVE FALSE
    <3>1. me = [me EXCEPT !.pc = "d_swap", !.interrupt_state = IF_flag, !.want = m, !.try = try]
      BY <2>2, <2>5, Zenon DEF CallDisable
    <3> QED BY <3>1, <2>1, <2>4, Zenon DEF Frame
  <2>6. ASSUME NEW g, DropGuard(g) PROVE FALSE
    <3>1. me = [me EXCEPT !.pc = "e_clear", !.index = g.index, !.guards = @ \ {g}]
      BY <2>2, <2>6, Zenon DEF DropGuard
    <3> QED BY <3>1, <2>1, <2>4, Zenon DEF Frame
  <2>7. ~EnterNoalloc
    <3> SUFFICES ASSUME EnterNoalloc PROVE FALSE
      BY Zenon
    <3>1. me = [me EXCEPT !.pc = "n_swap", !.interrupt_state = IF_flag]
      BY <2>2, Zenon DEF EnterNoalloc
    <3> QED BY <3>1, <2>1, <2>4, Zenon DEF Frame
  <2>8. ~LeaveNoalloc
    <3> SUFFICES ASSUME LeaveNoalloc PROVE FALSE
      OBVIOUS
    <3> DEFINE n == Len(me.sections)
    <3>1. me = [me EXCEPT !.pc = "n_sti", !.interrupt_state = me.sections[n].interrupt_state,
                          !.sections = SubSeq(@, 1, n - 1)]
      BY <2>2, Zenon DEF LeaveNoalloc
    <3> QED BY <3>1, <2>1, <2>4, Zenon DEF Frame
  <2>9. ~(DisableSwap \/ LockStack \/ DisablePush \/ Acquire \/ EnableClear \/ EnableRestore
          \/ restore_interrupts \/ NoallocSwap)
    BY <2>4, Zenon DEF DisableSwap, LockStack, DisablePush, Acquire, EnableClear, EnableRestore,
                restore_interrupts, NoallocSwap, At
  <2>10. ~Interrupt /\ ~InterruptReturn
    BY DEF Interrupt, InterruptReturn
  <2> QED
    BY <1>1, <2>5, <2>6, <2>7, <2>8, <2>9, <2>10, Zenon DEF Next, into_nointerrupt_guard, OtherCPU
<1>3. AsCalled' = AsCalled
  BY <1>1, <1>2, Zenon DEF AsCalled
<1>4. Trying => Trying'
  BY <1>1, <1>2, <1>3, Zenon DEF Trying, At, Pending
<1> QED BY <1>1, <1>3, <1>4, Zenon DEF HInv, CallInv, At

\* The steps of an attempt, from the first clear_interrupts to the restore.
LEMMA AttemptStep ==
  ASSUME HInv, Within, level = 0, level' = level, ~At("idle"), call.pc # "none"
  PROVE  CallInv'
<1>1. /\ me \in Frame /\ level \in Contexts /\ me.pc # "idle" /\ frames \in [Contexts -> Frame]
      /\ stack \in Seq(Entry) /\ IF_flag \in BOOLEAN /\ yield_disabled \in BOOLEAN
  BY Zenon DEF HInv, IInv, TypeOK, me, At
<1>2. UNCHANGED <<call, is_executing_task>> /\ Next /\ call \in Call /\ is_executing_task \in BOOLEAN
  BY Zenon DEF Within, hvars, HInv, CallInv
<1>3. call.pc = "try" /\ Trying /\ ~IF_flag
  BY <1>1, <1>2, Zenon DEF HInv, CallInv, Call, Relaxing, At, IInv, Quiet
<1>4. ASSUME NEW f, SetFrame(f) PROVE me' = f
  BY <1>1, <1>4, Zenon DEF SetFrame, me
<1> SUFFICES Trying'
  BY <1>2, <1>3 DEF CallInv, Relaxing
<1>5. CASE DisableSwap
  <2>1. me' = [me EXCEPT !.pc = "d_lock", !.yield_state = yield_disabled] /\ me.pc = "d_swap"
    BY <1>4, <1>5, Zenon DEF DisableSwap, At
  <2>2. /\ me'.pc = "d_lock" /\ me'.yield_state = yield_disabled /\ me'.want = me.want
        /\ me'.interrupt_state = me.interrupt_state
    BY <1>1, <2>1, Zenon DEF Frame
  <2> QED BY <1>2, <1>3, <2>1, <2>2, Zenon DEF Trying, At, Pending
<1>6. CASE LockStack
  <2>1. /\ me' = [me EXCEPT !.pc = IF At("d_lock") THEN "d_push" ELSE "e_restore"]
        /\ me.pc \in {"d_lock", "e_lock"} /\ stack' = stack
    BY <1>4, <1>6, Zenon DEF LockStack, At
  <2>2. /\ me'.pc = (IF me.pc = "d_lock" THEN "d_push" ELSE "e_restore") /\ me'.want = me.want
        /\ me'.interrupt_state = me.interrupt_state /\ me'.yield_state = me.yield_state
        /\ me'.index = me.index
    BY <1>1, <2>1, Zenon DEF Frame, At
  <2> QED BY <1>2, <1>3, <2>1, <2>2 DEF Trying, At, Pending
<1>7. CASE DisablePush
  <2> DEFINE index == Len(stack) + 1
             entry == [active |-> TRUE, interrupt_state |-> me.interrupt_state,
                       yield_state |-> me.yield_state]
  <2>1. me.pc = "d_push" /\ stack' = Append(stack, entry)
    BY <1>7, Zenon DEF DisablePush, At
  <2>2. me.want = call.lock /\ me.interrupt_state = call.flag /\ me.yield_state = call.disabled
    BY <1>3, <2>1, Zenon DEF Trying
  <2>3. entry \in Entry /\ entry.interrupt_state = call.flag /\ entry.yield_state = call.disabled
    BY <1>1, <2>2, Zenon DEF Entry, Frame
  <2>4. /\ Len(stack') = index /\ stack'[index] = entry /\ index \in Nat \ {0}
        /\ \A i \in 1 .. Len(stack) : stack'[i] = stack[i]
    BY <1>1, <2>1, <2>3, Appended
  <2>5. index > 1 => stack'[index - 1].active
    <3>1. stack # <<>> => stack[Len(stack)].active
      BY Zenon DEF HInv, IInv, Ownership
    <3>2. Len(stack) \in Nat /\ (index > 1 => stack # <<>> /\ index - 1 = Len(stack) /\ Len(stack) \in 1 .. Len(stack))
      BY <1>1
    <3> QED BY <2>4, <3>1, <3>2, Zenon
  <2>6. CASE me.want = NoLock
    <3>1. me' = [me EXCEPT !.pc = "idle", !.guards = @ \cup {[index |-> index, lock |-> NoLock]}]
      BY <1>4, <1>7, <2>6, Zenon DEF DisablePush
    <3>2. me'.pc = "idle" /\ me'.guards = me.guards \cup {[index |-> index, lock |-> NoLock]}
      BY <1>1, <3>1, Zenon DEF Frame
    <3>3. \E g \in me'.guards : g.lock = call.lock
      <4>1. [index |-> index, lock |-> NoLock] \in me'.guards
        BY <3>2, Zenon
      <4>2. [index |-> index, lock |-> NoLock].lock = call.lock
        BY <2>2, <2>6, Zenon
      <4> QED BY <4>1, <4>2, Zenon
    <3> QED BY <1>2, <3>2, <3>3, Zenon DEF Trying, At, Pending
  <2>7. CASE me.want # NoLock
    <3>1. me' = [me EXCEPT !.pc = "k_acquire", !.index = index]
      BY <1>4, <1>7, <2>7, Zenon DEF DisablePush
    <3>2. me'.pc = "k_acquire" /\ me'.index = index /\ me'.want = me.want
      BY <1>1, <3>1, Zenon DEF Frame
    <3> HIDE DEF entry, index
    <3> QED BY <1>2, <2>2, <2>3, <2>4, <2>5, <3>2, Zenon DEF Trying, At, Pending
  <2> QED BY <2>6, <2>7, Zenon
<1>8. CASE Acquire
  <2>1. me.pc = "k_acquire" /\ UNCHANGED <<stack, IF_flag, yield_disabled>> /\ me.want = call.lock
    BY <1>3, <1>8, Zenon DEF Acquire, At, Trying
  <2>2. CASE /\ owner[me.want] = Free
             /\ SetFrame([me EXCEPT !.pc = "idle",
                                    !.guards = @ \cup {[index |-> me.index, lock |-> me.want]}])
    <3>1. me'.pc = "idle" /\ me'.guards = me.guards \cup {[index |-> me.index, lock |-> me.want]}
      BY <1>1, <1>4, <2>2, Zenon DEF Frame
    <3>2. \E g \in me'.guards : g.lock = call.lock
      <4>1. [index |-> me.index, lock |-> me.want] \in me'.guards
        BY <3>1, Zenon
      <4>2. [index |-> me.index, lock |-> me.want].lock = call.lock
        BY <2>1, Zenon
      <4> QED BY <4>1, <4>2, Zenon
    <3> QED BY <1>2, <3>1, <3>2, Zenon DEF Trying, At, Pending
  <2>3. CASE SetFrame([me EXCEPT !.pc = "e_clear"])
    <3>1. me'.pc = "e_clear" /\ me'.index = me.index
      BY <1>1, <1>4, <2>3, Zenon DEF Frame
    <3> QED BY <1>2, <1>3, <2>1, <3>1, Zenon DEF Trying, At, Pending
  <2> QED BY <1>8, <2>2, <2>3, Zenon DEF Acquire
<1>9. CASE EnableClear
  <2>1. me.pc = "e_clear" /\ stack' = stack
    BY <1>9, Zenon DEF EnableClear, At
  <2>2. me'.pc = "e_lock" /\ me'.index = me.index
    BY <1>1, <1>4, <1>9, Zenon DEF EnableClear, Frame
  <2> QED BY <1>2, <1>3, <2>1, <2>2, Zenon DEF Trying, At, Pending
<1>10. CASE EnableRestore
  <2> DEFINE marked == [stack EXCEPT ![me.index].active = FALSE]
             n == Len(stack)
  <2>1. me.pc = "e_restore" /\ me.index = n
    BY <1>3, <1>10, Zenon DEF EnableRestore, At, Trying, Pending
  <2>2. n \in Nat /\ n \in 1 .. n
    BY <1>1, <2>1 DEF HInv, IInv, Ownership, Pending
  <2>3. PICK kept \in 0 .. n :
          /\ kept > 0 => marked[kept].active
          /\ \A i \in kept + 1 .. n : ~marked[i].active
          /\ IF kept < n
             THEN /\ yield_disabled' = stack[kept + 1].yield_state
                  /\ SetFrame([me EXCEPT !.pc = "e_sti",
                                         !.interrupt_state = stack[kept + 1].interrupt_state])
             ELSE /\ SetFrame([me EXCEPT !.pc = "e_sti"])
                  /\ UNCHANGED yield_disabled
    BY <1>10, Zenon DEF EnableRestore
  <2>4. /\ ~marked[n].active
        /\ \A i \in 1 .. n : i # n => marked[i].active = stack[i].active
    BY <1>1, <2>1, <2>2 DEF Entry
  <2>5. n > 1 => stack[n - 1].active
    BY <1>3, <2>1, Zenon DEF Trying, Pending
  <2>6. kept = n - 1
    <3> HIDE DEF marked
    <3>1. kept # n
      BY <2>2, <2>3, <2>4
    <3>2. n > 1 => marked[n - 1].active
      BY <2>2, <2>4, <2>5
    <3>3. ~(kept < n - 1)
      BY <2>2, <2>3, <3>2
    <3> QED BY <2>2, <2>3, <3>1, <3>3
  <2>7. /\ yield_disabled' = stack[n].yield_state
        /\ me' = [me EXCEPT !.pc = "e_sti", !.interrupt_state = stack[n].interrupt_state]
    BY <1>4, <2>2, <2>3, <2>6
  <2>8. me'.pc = "e_sti" /\ me'.interrupt_state = stack[n].interrupt_state
    BY <1>1, <2>7, Zenon DEF Frame
  <2> QED BY <1>2, <1>3, <2>1, <2>7, <2>8, Zenon DEF Trying, At, Pending
<1>11. CASE restore_interrupts
  <2>1. me.pc = "e_sti" /\ yield_disabled' = yield_disabled /\ IF_flag' = (IF_flag \/ me.interrupt_state)
    BY <1>3, <1>11, Zenon DEF restore_interrupts, At, Trying
  <2>2. me'.pc = "idle"
    BY <1>1, <1>4, <1>11, Zenon DEF restore_interrupts, Frame
  <2>3. me.interrupt_state = call.flag /\ yield_disabled = call.disabled /\ call.flag \in BOOLEAN
    BY <1>2, <1>3, <2>1, Zenon DEF Trying, Call
  <2>4. AsCalled'
    BY <1>1, <1>2, <1>3, <2>1, <2>3, Zenon DEF AsCalled
  <2> QED BY <2>2, <2>4, Zenon DEF Trying, At, Pending
<1>12. ASSUME NEW m \in Locks, OtherCPU(m) PROVE Trying'
  <2>1. UNCHANGED <<IF_flag, yield_disabled, stack, call>> /\ me' = me
    BY <1>2, <1>12, Zenon DEF OtherCPU, me
  <2> QED BY <1>3, <2>1, Zenon DEF Trying, At, Pending, AsCalled
<1>13. /\ \A m, try : ~CallDisable(m, try)
       /\ \A g : ~DropGuard(g) /\ ~into_nointerrupt_guard(g)
       /\ ~EnterNoalloc /\ ~LeaveNoalloc
  BY <1>1, Zenon DEF CallDisable, DropGuard, into_nointerrupt_guard, EnterNoalloc, LeaveNoalloc, At
<1>14. ~NoallocSwap /\ ~Interrupt /\ ~InterruptReturn
  BY <1>3, Zenon DEF NoallocSwap, Interrupt, InterruptReturn, Trying, At
<1> QED
  BY <1>2, <1>5, <1>6, <1>7, <1>8, <1>9, <1>10, <1>11, <1>12, <1>13, <1>14, Zenon DEF Next

LEMMA HTryCall ==
  ASSUME HInv, NEW m \in HLocks, HTry(m)
  PROVE  CallInv'
<1>1. /\ me \in Frame /\ level \in Contexts /\ frames \in [Contexts -> Frame]
      /\ IF_flag \in BOOLEAN /\ yield_disabled \in BOOLEAN /\ m \in Locks /\ call \in Call
  BY HybridAssumption, Zenon DEF HInv, IInv, TypeOK, me, CallInv
<1>2. /\ me' = [me EXCEPT !.pc = "d_swap", !.interrupt_state = IF_flag, !.want = m, !.try = TRUE]
      /\ UNCHANGED <<yield_disabled, level>> /\ level = 0 /\ me.pc = "idle"
  BY <1>1, Zenon DEF HTry, CallDisable, SetFrame, me, At
<1>3. me'.pc = "d_swap" /\ me'.interrupt_state = IF_flag /\ me'.want = m
  BY <1>1, <1>2, Zenon DEF Frame
<1>4. /\ call' \in Call /\ call'.pc = "try" /\ call'.lock = m
      /\ call'.disabled = yield_disabled /\ call'.flag = IF_flag
  <2>1. CASE call.pc = "none"
    <3>1. call' = [pc |-> "try", lock |-> m, can_yield |-> FALSE,
                   disabled |-> yield_disabled, flag |-> IF_flag]
      BY <2>1, Zenon DEF HTry
    <3> QED BY <1>1, <3>1, Zenon DEF Call
  <2>2. CASE call.pc = "relax"
    <3>1. AsCalled
      BY <1>2, <2>2, Zenon DEF HInv, CallInv, Relaxing
    <3>2. call' = [call EXCEPT !.pc = "try"] /\ call.lock = m
      BY <2>2, Zenon DEF HTry
    <3> QED BY <1>1, <3>1, <3>2, Zenon DEF Call, AsCalled
  <2> QED BY <2>1, <2>2, Zenon DEF HTry
<1>5. Trying'
  BY <1>2, <1>3, <1>4, Zenon DEF Trying, At, Pending
<1>6. is_executing_task' \in BOOLEAN
  BY Zenon DEF HTry, HInv, CallInv
<1> QED BY <1>2, <1>4, <1>5, <1>6 DEF CallInv, Relaxing

\* try_lock has returned, and relax and the scheduler look.
LEMMA RelaxCall ==
  ASSUME HInv, HTried \/ HRelax \/ HResume
  PROVE  CallInv'
<1>1. /\ level = 0 /\ level' = level /\ me' = me /\ UNCHANGED <<IF_flag, yield_disabled>>
      /\ call.pc \in {"try", "relax", "yielded"} /\ call \in Call
      /\ is_executing_task \in BOOLEAN /\ is_executing_task' = is_executing_task
  BY Zenon DEF HTried, HRelax, HResume, vars, me, HInv, CallInv
<1>2. At("idle")
  BY <1>1, Zenon DEF HTried, HRelax, HResume, HInv, CallInv, Relaxing
<1>3. CASE call' = NoCall
  BY <1>1, <1>3, Zenon DEF NoCall, CallInv, Call, Relaxing
<1>4. CASE call' # NoCall
  <2>1. AsCalled
    BY <1>1, <1>2, <1>4, Zenon DEF HTried, HRelax, HResume, HInv, CallInv, Relaxing, Trying
  <2>2. /\ call' \in Call /\ call'.pc \in Relaxing
        /\ call'.disabled = call.disabled /\ call'.flag = call.flag
    <3>1. CASE HTried
      <4>1. call' = [call EXCEPT !.pc = "relax", !.can_yield = is_executing_task]
        BY <1>4, <3>1, Zenon DEF HTried
      <4> QED BY <1>1, <4>1, Zenon DEF Call, Relaxing
    <3>2. CASE HRelax
      BY <1>1, <3>2, Zenon DEF HRelax, YieldAsserted, Call, Relaxing
    <3>3. CASE HResume
      BY <1>1, <3>3, Zenon DEF HResume, Call, Relaxing
    <3> QED BY <3>1, <3>2, <3>3, Zenon
  <2>3. AsCalled'
    BY <1>1, <2>1, <2>2, Zenon DEF AsCalled
  <2> QED BY <1>1, <1>2, <2>2, <2>3 DEF CallInv, Relaxing, At
<1> QED BY <1>3, <1>4, Zenon

LEMMA HNextCall == HInv /\ [HNext]_<<vars, hvars>> => CallInv'
<1> SUFFICES ASSUME HInv, [HNext]_<<vars, hvars>> PROVE CallInv'
  BY Zenon
<1>1. CASE Within
  <2>1. UNCHANGED hvars /\ UNCHANGED <<call, is_executing_task>> /\ Next
    BY <1>1, Zenon DEF Within, hvars
  <2>2. CASE call.pc = "none"
    BY <2>1, <2>2, Zenon DEF HInv, CallInv, Relaxing
  <2>3. CASE call.pc # "none" /\ level > 0
    <3>1. level' = level \/ Interrupt => CallInv'
      <4>1. level' = level \/ Interrupt => level' > 0
        BY <2>3 DEF Interrupt, HInv, IInv, TypeOK, Contexts
      <4>2. level \in Nat /\ (level' > 0 => level' # 0)
        BY DEF HInv, IInv, TypeOK, Contexts
      <4> QED BY <2>1, <2>3, <4>1, <4>2, Zenon DEF HInv, CallInv
    <3> QED BY <2>1, <2>3, <3>1, ReturnToCall, LevelMoves, Zenon
  <2>4. CASE call.pc # "none" /\ level = 0
    <3>1. ~InterruptReturn
      BY <2>4 DEF InterruptReturn
    <3>2. CASE Interrupt
      BY <2>1, <2>4, <3>2, InterruptCall, Zenon
    <3>3. CASE level' = level
      BY <1>1, <2>4, <3>3, IdleCall, AttemptStep, Zenon
    <3> QED BY <2>1, <3>1, <3>2, <3>3, LevelMoves, Zenon
  <2>5. level \in Nat
    BY DEF HInv, IInv, TypeOK, Contexts
  <2> QED BY <2>2, <2>3, <2>4, <2>5
<1>2. CASE UNCHANGED <<vars, hvars>>
  <2>1. UNCHANGED <<IF_flag, yield_disabled, stack, level, call, is_executing_task>> /\ me' = me
    BY <1>2, Zenon DEF vars, hvars, me
  <2> QED BY <2>1, Zenon DEF HInv, CallInv, Trying, AsCalled, At, Pending
<1> QED BY <1>1, <1>2, HTryCall, RelaxCall, Zenon DEF HNext

LEMMA HInitInv == HInit => HInv
<1> SUFFICES ASSUME HInit PROVE CallInv
  BY InitInv, Zenon DEF HInit, HInv
<1> QED BY Zenon DEF HInit, CallInv, NoCall, Call, Relaxing

\* HMutex uses the guards of disable_interruptions only in ways that the model of
\* those guards allows: HybridLock implements Interruptions.
THEOREM HybridImplements == HSpec => Spec
<1>1. HInit => Init
  BY Zenon DEF HInit
<1> QED
  BY <1>1, HNextImplements, PTL DEF HSpec, Spec

\* With HMutexes among the mutexes, interrupts and yields still stay disabled under
\* every guard, come back with the last one, and no handler waits for its own CPU.
THEOREM HybridSafe == HSpec => [](Shielded /\ Restored /\ NoSelfDeadlock)
<1> QED
  BY HybridImplements, ShieldedHolds, RestoredHolds, NoSelfDeadlockHolds, PTL

\* HMutex::lock() waits with interrupts and yields as its caller had them, so that
\* the assertion of yield_to_scheduler fails only for a caller that had disabled
\* yields.
THEOREM WaitsAsCalledHolds == HSpec => []WaitsAsCalled
<1>1. HInv /\ [HNext]_<<vars, hvars>> => HInv'
  BY HNextCall, HNextImplements, NextInv, Zenon DEF HInv
<1>2. HInv => WaitsAsCalled
  BY Zenon DEF HInv, CallInv, WaitsAsCalled, AsCalled, Relaxing
<1> QED
  BY HInitInv, <1>1, <1>2, PTL DEF HSpec
=============================================================================
