-------------------------- MODULE KernelHeapProofs --------------------------
(***************************************************************************)
(* Three invariants of KernelHeap, for any CPUs, sizes, other code and     *)
(* growths: a reserve is never overwritten, hooks do not stack, and the    *)
(* hook hangs only on its caller's locks.                                  *)
(*                                                                         *)
(* The inductive invariant says that there is at most one reserve, present *)
(* or to come: the one in GLOBAL_RESCUE, the one that a queued             *)
(* _reinit_rescue will set up, the one of a _reinit_rescue that has not    *)
(* stored it yet, or that of a hook that has not spawned _reinit_rescue    *)
(* yet.  It is passed on from the one to the next, and lost only when      *)
(* memory is refused.  For that, the invariant also says which frames may  *)
(* be on top of which.  First come the lemmas on how steps rewrite stacks, *)
(* then one lemma per action.                                              *)
(***************************************************************************)
EXTENDS KernelHeap, SequenceTheorems, TLAPS

\* A frame that will bring about a reserve, and a hook that has spawned the task
\* that will.
Owes(f) ==
  \/ f.id = "hook" /\ f.at \in {"run", "fail"} /\ f.n <= 9
  \/ f.id = "reinit" /\ f.at = "run" /\ f.n <= 5
Spent(f) == f.id = "hook" /\ f.at \in {"run", "fail"} /\ f.n > 9

Owing(c, i) == i \in 1 .. Len(frames[c]) /\ Owes(frames[c][i])
Queued(c, i) == i \in 1 .. Len(queue[c]) /\ queue[c][i] = "reinit"

\* There is at most one reserve, present or to come.
OneReserve ==
  /\ rescue => \A c \in CPUs, i \in Nat : ~Queued(c, i) /\ ~Owing(c, i)
  /\ \A c, d \in CPUs, i, j \in Nat :
       /\ Queued(c, i) => ~Owing(d, j)
       /\ Queued(c, i) /\ Queued(d, j) => c = d /\ i = j
       /\ Owing(c, i) /\ Owing(d, j) => c = d /\ i = j

\* A hook that has spawned _reinit_rescue keeps it from running: its CPU is busy.
SpawnedIsQueued ==
  \A c \in CPUs, i \in Nat :
    i \in 1 .. Len(frames[c]) /\ Spent(frames[c][i]) => \E j \in Nat : Queued(c, j)

\* What a frame is, by its place in the code.
Sort(f) ==
  /\ f.at \in {"lock", "held", "unlock"} => f.id \in Operations
  /\ f.at = "unlock" => f.id \in {"palloc", "exit"}
  /\ f.at \in {"alloc", "retry"} => f.id = "box"
  /\ f.at = "take" => f.id = "hook"
  /\ f.at \in {"run", "fail"} => f.id \in Routines

\* Frame g may be on top of frame f.
Calls(f, g) ==
  /\ f.at = "run" => f.n \in 1 .. Len(Program[f.id]) /\ g.id = Program[f.id][f.n]
  /\ f.at = "take" => g.id = "ni"
  /\ f.id = "ni" => f.at = "held"
  /\ f.id \in {"grow", "store"} => f.at = "lock"
  /\ g.id = "store" => f.at = "run"
  /\ g.id = "palloc" => f.at = IF g.at = "unlock" THEN "fail" ELSE "run"

\* Where frame i of stack s may be.
Place(s, i) ==
  /\ s[i].at = "run" => i < Len(s)
  /\ s[i].at \in {"run", "fail"} => s[i].id = "hook" \/ i = 1
  /\ s[i].id = "exit" /\ s[i].at = "unlock" => i = 1
  /\ s[i].id \in {"store", "palloc"} => i > 1
  /\ s[i].id = "log" => \/ i = 1
                        \/ i = 2 /\ s[1].at = "run"
                        \/ i = 3 /\ s[1].id = "exit" /\ s[2].id = "grow"
                        \/ i > 2 /\ s[i - 2].at = "fail"

Fits(s, i) ==
  /\ Sort(s[i]) /\ Place(s, i)
  /\ i > 1 => Calls(s[i - 1], s[i])

Stack(s) == \A i \in 1 .. Len(s) : Fits(s, i)

TypeOK ==
  /\ rescue \in BOOLEAN
  /\ queue \in [CPUs -> Seq(Tasks)]
  /\ frames \in [CPUs -> Seq(Frame)]

IInv ==
  /\ TypeOK
  /\ \A c \in CPUs : Stack(frames[c])
  /\ OneReserve
  /\ SpawnedIsQueued
  /\ HooksDoNotStack
-----------------------------------------------------------------------------
(* The programs *)

\* The operations, the routines, and their locks.
LEMMA Names ==
  /\ Operations = {"log", "palloc", "pfree", "map", "push", "exit", "store", "grow", "ni"}
  /\ Routines = {"hook", "boot", "notify", "reinit", "expand"}
  /\ \A o \in Operations : /\ LockOf[o] = "heap" => o = "grow"
                           /\ LockOf[o] = "GLOBAL_RESCUE" => o = "store"
                           /\ LockOf[o] = "PIPELINE" => o = "log"
                           /\ o = "ni" => LockOf[o] = "NOINTERRUPTIONS_STATE"
<1>1. Operations = {"log", "palloc", "pfree", "map", "push", "exit", "store", "grow", "ni"}
  BY Zenon DEF Operations, LockOf
<1>2. Routines = {"hook", "boot", "notify", "reinit", "expand"}
  BY Zenon DEF Routines, Program
<1>3. ASSUME NEW o \in Operations
      PROVE  /\ LockOf[o] = "heap" => o = "grow"
             /\ LockOf[o] = "GLOBAL_RESCUE" => o = "store"
             /\ LockOf[o] = "PIPELINE" => o = "log"
             /\ o = "ni" => LockOf[o] = "NOINTERRUPTIONS_STATE"
  BY <1>1 DEF LockOf
<1> QED
  BY <1>1, <1>2, <1>3, Zenon

\* What the operations of a routine are, as far as it matters: where a reserve is
\* stored, where a task is pushed, that the hook neither logs nor ends a task, and
\* who maps pages.
OperationFits(k, n, o) ==
  /\ o \in {"box", "log", "palloc", "map", "push", "exit", "store", "grow"}
  /\ o = "store" <=> k = "reinit" /\ n = 5
  /\ o = "push" => k = "hook" /\ n \in {5, 9, 13}
  /\ k = "hook" /\ n = 9 => o = "push"
  /\ k = "hook" => o \notin {"log", "exit"}
  /\ o = "map" => (k = "hook" /\ n \in {4, 8, 12}) \/ k \in {"reinit", "expand"}

\* The operations of every routine are as OperationFits says.
LEMMA ProgramFits ==
  ASSUME NEW k \in Routines, NEW n \in 1 .. Len(Program[k])
  PROVE  OperationFits(k, n, Program[k][n])
<1>1. CASE k = "hook"
  <2>1. Program[k] = [i \in 1 .. 13 |-> IF i = 1 THEN "grow" ELSE Spawn[1 + ((i + 2) % 4)]]
    BY <1>1, Zenon DEF Program
  <2>2. n \in 1 .. 13 /\ Program[k][n] = IF n = 1 THEN "grow" ELSE Spawn[1 + ((n + 2) % 4)]
    BY <2>1
  <2>3. \/ n = 1
        \/ n \in {2, 6, 10} /\ 1 + ((n + 2) % 4) = 1
        \/ n \in {3, 7, 11} /\ 1 + ((n + 2) % 4) = 2
        \/ n \in {4, 8, 12} /\ 1 + ((n + 2) % 4) = 3
        \/ n \in {5, 9, 13} /\ 1 + ((n + 2) % 4) = 4
    BY <2>2
  <2>4. Spawn[1] = "box" /\ Spawn[2] = "palloc" /\ Spawn[3] = "map" /\ Spawn[4] = "push"
    BY Zenon DEF Spawn
  <2>5. \/ n = 1 /\ Program[k][n] = "grow"
        \/ n \in {2, 6, 10} /\ Program[k][n] = "box"
        \/ n \in {3, 7, 11} /\ Program[k][n] = "palloc"
        \/ n \in {4, 8, 12} /\ Program[k][n] = "map"
        \/ n \in {5, 9, 13} /\ Program[k][n] = "push"
    BY <2>2, <2>3, <2>4, Zenon
  <2> QED
    BY <1>1, <2>5 DEF OperationFits
<1>2. CASE k = "boot"
  BY <1>2 DEF Program, OperationFits
<1>3. CASE k = "notify"
  BY <1>3 DEF Program, OperationFits
<1>4. CASE k = "reinit"
  BY <1>4 DEF Program, OperationFits
<1>5. CASE k = "expand"
  BY <1>5 DEF Program, OperationFits
<1> QED
  BY <1>1, <1>2, <1>3, <1>4, <1>5, Names, Zenon

\* Of the tasks that the hook spawns, only the second is _reinit_rescue.
LEMMA SecondIsReinit ==
  /\ \A n \in {5, 9, 13} : TaskAt(n) \in Tasks
  /\ TaskAt(9) = "reinit" /\ TaskAt(5) # "reinit" /\ TaskAt(13) # "reinit"
<1>1. TaskAt(5) = "notify" /\ TaskAt(9) = "reinit" /\ TaskAt(13) = "expand"
  BY DEF TaskAt, Spawned
<1> QED
  BY <1>1, Names, Zenon DEF Tasks
-----------------------------------------------------------------------------
(* Stacks *)

\* The first k frames of a stack, and t on top of them.
OnTop(s, k, t) == SubSeq(s, 1, k) \o t

\* The frames that are kept.
LEMMA Kept ==
  ASSUME NEW S, NEW s \in Seq(S), NEW k \in Nat, k <= Len(s), NEW p, p = SubSeq(s, 1, k)
  PROVE  p \in Seq(S) /\ Len(p) = k /\ \A i \in 1 .. k : p[i] = s[i]
  OBVIOUS

\* One frame, two or three on top of the k that are kept.
LEMMA Rewritten1 ==
  ASSUME NEW s \in Seq(Frame), NEW k \in Nat, k <= Len(s), NEW f \in Frame,
         NEW u, u = OnTop(s, k, <<f>>)
  PROVE  /\ u \in Seq(Frame) /\ Len(u) = k + 1
         /\ u[k + 1] = f
         /\ \A i \in 1 .. k : u[i] = s[i]
<1> DEFINE p == SubSeq(s, 1, k)
<1>1. p \in Seq(Frame) /\ Len(p) = k /\ \A i \in 1 .. k : p[i] = s[i]
  BY Kept
<1>2. p \in Seq(Frame) /\ u = p \o <<f>>
  BY <1>1, Zenon DEF OnTop
<1> HIDE DEF p
<1>3. /\ u \in Seq(Frame) /\ Len(u) = Len(p) + 1
      /\ u[Len(p) + 1] = f
      /\ \A i \in 1 .. Len(p) : u[i] = p[i]
  BY ONLY <1>2, f \in Frame
<1> QED
  BY ONLY <1>1, <1>3, Zenon

LEMMA Rewritten2 ==
  ASSUME NEW s \in Seq(Frame), NEW k \in Nat, k <= Len(s), NEW f \in Frame, NEW g \in Frame,
         NEW u, u = OnTop(s, k, <<f, g>>)
  PROVE  /\ u \in Seq(Frame) /\ Len(u) = k + 2
         /\ u[k + 1] = f /\ u[k + 2] = g
         /\ \A i \in 1 .. k : u[i] = s[i]
<1> DEFINE p == SubSeq(s, 1, k)
<1>1. p \in Seq(Frame) /\ Len(p) = k /\ \A i \in 1 .. k : p[i] = s[i]
  BY Kept
<1>2. p \in Seq(Frame) /\ u = p \o <<f, g>>
  BY <1>1, Zenon DEF OnTop
<1> HIDE DEF p
<1>3. /\ u \in Seq(Frame) /\ Len(u) = Len(p) + 2
      /\ u[Len(p) + 1] = f /\ u[Len(p) + 2] = g
      /\ \A i \in 1 .. Len(p) : u[i] = p[i]
  BY ONLY <1>2, f \in Frame, g \in Frame
<1> QED
  BY ONLY <1>1, <1>3, Zenon

LEMMA Rewritten3 ==
  ASSUME NEW s \in Seq(Frame), NEW k \in Nat, k <= Len(s), NEW f \in Frame, NEW g \in Frame, NEW h \in Frame,
         NEW u, u = OnTop(s, k, <<f, g, h>>)
  PROVE  /\ u \in Seq(Frame) /\ Len(u) = k + 3
         /\ u[k + 1] = f /\ u[k + 2] = g /\ u[k + 3] = h
         /\ \A i \in 1 .. k : u[i] = s[i]
<1> DEFINE p == SubSeq(s, 1, k)
<1>1. p \in Seq(Frame) /\ Len(p) = k /\ \A i \in 1 .. k : p[i] = s[i]
  BY Kept
<1>2. p \in Seq(Frame) /\ u = p \o <<f, g, h>>
  BY <1>1, Zenon DEF OnTop
<1> HIDE DEF p
<1>3. /\ u \in Seq(Frame) /\ Len(u) = Len(p) + 3
      /\ u[Len(p) + 1] = f /\ u[Len(p) + 2] = g /\ u[Len(p) + 3] = h
      /\ \A i \in 1 .. Len(p) : u[i] = p[i]
  BY ONLY <1>2, f \in Frame, g \in Frame, h \in Frame
<1> QED
  BY ONLY <1>1, <1>3, Zenon

\* A stack that agrees with a good one on the first k frames and whose other frames
\* are in their places is good.
LEMMA StackRewritten ==
  ASSUME NEW s \in Seq(Frame), Stack(s),
         NEW u \in Seq(Frame), NEW k \in Nat, k <= Len(s), k <= Len(u),
         \A i \in 1 .. k : u[i] = s[i],
         k > 0 /\ s[k].at = "run" => k < Len(u),
         \A i \in k + 1 .. Len(u) : Fits(u, i)
  PROVE  Stack(u)
<1> SUFFICES ASSUME NEW i \in 1 .. Len(u) PROVE Fits(u, i)
  BY Zenon DEF Stack
<1>1. CASE i > k
  BY <1>1
<1>2. CASE i <= k
  <2>1. Fits(s, i) /\ i \in 1 .. k
    BY <1>2 DEF Stack
  <2>2. Sort(u[i]) /\ (i > 1 => Calls(u[i - 1], u[i]))
    BY <2>1 DEF Fits
  <2>3. Place(u, i)
    BY <2>1 DEF Fits, Place
  <2> QED
    BY <2>2, <2>3, Zenon DEF Fits
<1> QED
  BY <1>1, <1>2
-----------------------------------------------------------------------------
(* Steps that do not pass the reserve on *)

\* Frame i of stack u owes nothing that it did not owe in stack s, and is a hook only
\* if it was one there, or if it is new and has nothing yet.
HookKept(s, u, i) ==
  u[i].id = "hook" =>
    \/ i = Len(u) /\ u[i].at = "take"
    \/ i <= Len(s) /\ s[i].id = "hook" /\ (s[i].at = "take" => u[i].at = "take")
Tame(s, u, i) ==
  /\ Owes(u[i]) => i <= Len(s) /\ Owes(s[i])
  /\ Spent(u[i]) => i <= Len(s) /\ Spent(s[i])
  /\ HookKept(s, u, i)

\* The stack of c becomes u.
Becomes(c, u) == frames' = [frames EXCEPT ![c] = u]

\* The types, and the shape of the stacks.
LEMMA StacksStep ==
  ASSUME IInv, NEW c \in CPUs, NEW u \in Seq(Frame), Becomes(c, u), Stack(u)
  PROVE  /\ frames' \in [CPUs -> Seq(Frame)]
         /\ \A d \in CPUs : Stack(frames'[d])
         /\ frames'[c] = u /\ \A d \in CPUs : d # c => frames'[d] = frames[d]
<1>1. frames \in [CPUs -> Seq(Frame)] /\ frames' = [frames EXCEPT ![c] = u]
  BY Zenon DEF IInv, TypeOK, Becomes
<1>2. frames'[c] = u /\ \A d \in CPUs : d # c => frames'[d] = frames[d]
  BY <1>1, Zenon
<1>3. frames' \in [CPUs -> Seq(Frame)]
  BY <1>1, Zenon
<1>4. ASSUME NEW d \in CPUs PROVE Stack(frames'[d])
  BY <1>2, Zenon DEF IInv
<1> QED
  BY <1>2, <1>3, <1>4, Zenon

\* Hooks do not stack after a step that adds a hook only on top, without a reserve.
LEMMA HooksStep ==
  ASSUME IInv, NEW c \in CPUs, NEW u \in Seq(Frame),
         frames'[c] = u, \A d \in CPUs : d # c => frames'[d] = frames[d],
         \A i \in 1 .. Len(u) : HookKept(frames[c], u, i)
  PROVE  HooksDoNotStack'
<1> SUFFICES ASSUME NEW d \in CPUs, NEW i \in 1 .. Len(frames'[d]), NEW j \in 1 .. Len(frames'[d]),
                    i < j, frames'[d][i].id = "hook", frames'[d][j].id = "hook"
             PROVE  frames'[d][j].at = "take"
  BY Zenon DEF HooksDoNotStack
<1>1. CASE d # c
  BY <1>1 DEF IInv, HooksDoNotStack
<1>2. CASE d = c
  <2>1. HookKept(frames[c], u, i) /\ HookKept(frames[c], u, j) /\ i \in Nat /\ j \in Nat /\ j <= Len(u)
    BY <1>2
  <2>2. i <= Len(frames[c]) /\ frames[c][i].id = "hook"
    BY <1>2, <2>1 DEF HookKept
  <2>3. CASE j = Len(u) /\ u[j].at = "take"
    BY <1>2, <2>3, Zenon
  <2>4. CASE j <= Len(frames[c]) /\ frames[c][j].id = "hook" /\ (frames[c][j].at = "take" => u[j].at = "take")
    <3>1. frames[c][j].at = "take"
      BY <1>2, <2>1, <2>2, <2>4 DEF IInv, TypeOK, HooksDoNotStack
    <3> QED
      BY <1>2, <2>4, <3>1, Zenon
  <2> QED
    BY <1>2, <2>1, <2>3, <2>4, Zenon DEF HookKept
<1> QED
  BY <1>1, <1>2, Zenon

\* A step that changes the stack of one CPU tamely preserves the invariant.
LEMMA TameStep ==
  ASSUME IInv, NEW c \in CPUs, NEW u \in Seq(Frame), Becomes(c, u), Stack(u),
         \A i \in 1 .. Len(u) : Tame(frames[c], u, i),
         UNCHANGED <<rescue, queue>>
  PROVE  IInv'
<1>1. /\ frames' \in [CPUs -> Seq(Frame)]
      /\ \A d \in CPUs : Stack(frames'[d])
      /\ frames'[c] = u /\ \A d \in CPUs : d # c => frames'[d] = frames[d]
  BY StacksStep, Zenon
<1>2. TypeOK'
  BY <1>1, Zenon DEF IInv, TypeOK
<1>3. ASSUME NEW d \in CPUs, NEW i \in Nat, Owing(d, i)'
      PROVE  Owing(d, i)
  BY <1>1, <1>3 DEF Owing, Tame
<1>4. ASSUME NEW d \in CPUs, NEW i \in Nat
      PROVE  Queued(d, i)' <=> Queued(d, i)
  BY Zenon DEF Queued
<1>5. OneReserve'
  BY <1>3, <1>4 DEF IInv, OneReserve
<1>6. SpawnedIsQueued'
  <2> SUFFICES ASSUME NEW d \in CPUs, NEW i \in Nat, i \in 1 .. Len(frames'[d]), Spent(frames'[d][i])
               PROVE  \E j \in Nat : Queued(d, j)'
    BY Zenon DEF SpawnedIsQueued
  <2>1. i \in 1 .. Len(frames[d]) /\ Spent(frames[d][i])
    BY <1>1 DEF Tame
  <2> QED
    BY <1>4, <2>1, Zenon DEF IInv, SpawnedIsQueued
<1>7. HooksDoNotStack'
  BY <1>1, HooksStep, Zenon DEF Tame
<1> QED
  BY <1>1, <1>2, <1>5, <1>6, <1>7, Zenon DEF IInv

\* The same for a step that keeps the first k frames of a stack.
LEMMA TopStep ==
  ASSUME IInv, NEW c \in CPUs, NEW u \in Seq(Frame), Becomes(c, u),
         NEW k \in Nat, k <= Len(frames[c]), k <= Len(u),
         \A i \in 1 .. k : u[i] = frames[c][i],
         k > 0 /\ frames[c][k].at = "run" => k < Len(u),
         \A i \in k + 1 .. Len(u) : Fits(u, i) /\ Tame(frames[c], u, i),
         UNCHANGED <<rescue, queue>>
  PROVE  IInv'
<1> DEFINE s == frames[c]
<1>1. s \in Seq(Frame) /\ Stack(s)
  BY Zenon DEF IInv, TypeOK
<1>2. k <= Len(s) /\ (k > 0 /\ s[k].at = "run" => k < Len(u)) /\ \A i \in 1 .. k : u[i] = s[i]
  BY Zenon
<1>3. ASSUME NEW i \in k + 1 .. Len(u) PROVE Fits(u, i) /\ Tame(s, u, i)
  BY Zenon
<1> HIDE DEF s
<1>4. Stack(u)
  BY <1>1, <1>2, <1>3, StackRewritten, Zenon
<1>5. ASSUME NEW i \in 1 .. Len(u) PROVE Tame(s, u, i)
  <2>1. CASE i > k
    BY <1>3, <2>1
  <2>2. CASE i <= k
    <3>1. u[i] = s[i] /\ i <= Len(s)
      BY <1>1, <1>2, <2>2
    <3> QED
      BY ONLY <3>1, Zenon DEF Tame, HookKept
  <2> QED
    BY <2>1, <2>2
<1> QED
  BY <1>4, <1>5, TameStep, Zenon DEF s
-----------------------------------------------------------------------------
(* The frames on top *)

\* The two frames on top of a stack that is not empty.
LEMMA TopFrames ==
  ASSUME IInv, NEW c \in CPUs, frames[c] # <<>>
  PROVE  /\ frames[c] \in Seq(Frame) /\ Stack(frames[c])
         /\ Len(frames[c]) \in Nat /\ Len(frames[c]) > 0
         /\ Top(c) = frames[c][Len(frames[c])] /\ Top(c) \in Frame
         /\ Fits(frames[c], Len(frames[c]))
         /\ Len(frames[c]) > 1 => /\ Caller(c) = frames[c][Len(frames[c]) - 1] /\ Caller(c) \in Frame
                                  /\ Calls(Caller(c), Top(c))
                                  /\ Fits(frames[c], Len(frames[c]) - 1)
<1>1. frames[c] \in Seq(Frame) /\ Stack(frames[c])
  BY Zenon DEF IInv, TypeOK
<1>2. Len(frames[c]) \in Nat /\ Len(frames[c]) > 0
  BY <1>1
<1>3. Top(c) = frames[c][Len(frames[c])] /\ Top(c) \in Frame /\ Fits(frames[c], Len(frames[c]))
  BY <1>1, <1>2 DEF Top, Stack
<1>4. ASSUME Len(frames[c]) > 1
      PROVE  /\ Caller(c) = frames[c][Len(frames[c]) - 1] /\ Caller(c) \in Frame
             /\ Calls(Caller(c), Top(c))
             /\ Fits(frames[c], Len(frames[c]) - 1)
  BY <1>1, <1>2, <1>3, <1>4 DEF Caller, Stack, Fits
<1> QED
  BY <1>1, <1>2, <1>3, <1>4, Zenon

\* The frame on top is removed, and it was not an operation of a routine.
LEMMA PopStep ==
  ASSUME IInv, NEW c \in CPUs, frames[c] # <<>>, ~InRoutine(c),
         Becomes(c, Below(c)) \/ Becomes(c, Below(c) \o <<>>), UNCHANGED <<rescue, queue>>
  PROVE  IInv'
<1> DEFINE s == frames[c]
           k == Len(s) - 1
           u == Below(c)
<1>1. s \in Seq(Frame) /\ Len(s) \in Nat /\ Len(s) > 0
  BY TopFrames, Zenon
<1>2. k \in Nat /\ k <= Len(s) /\ u = SubSeq(s, 1, k) /\ ~(k > 0 /\ s[k].at = "run")
  BY <1>1 DEF InRoutine, Below
<1>3. Becomes(c, u) \/ Becomes(c, u \o <<>>)
  BY Zenon
<1> HIDE DEF k, u
<1>4. u \in Seq(Frame) /\ Len(u) = k /\ \A i \in 1 .. k : u[i] = s[i]
  BY <1>1, <1>2, Kept
<1>5. Becomes(c, u)
  BY <1>3, <1>4, ConcatEmptySeq, Zenon
<1>6. \A i \in k + 1 .. Len(u) : Fits(u, i) /\ Tame(s, u, i)
  BY <1>2, <1>4
<1>7. k <= Len(u) /\ (k > 0 /\ s[k].at = "run" => k < Len(u))
  BY <1>2, <1>4
<1> QED
  BY ONLY IInv, c \in CPUs, UNCHANGED <<rescue, queue>>, <1>2, <1>4, <1>5, <1>6, <1>7, TopStep, Zenon

\* Frame f may take the place of frame s[n].
Moved(s, n, f) ==
  /\ f.id = s[n].id /\ Sort(f) /\ f.at # "run"
  /\ f.at = "unlock" <=> s[n].at = "unlock"
  /\ f.at = "fail" => s[n].at = "fail"
  /\ s[n].at = "take" => f.at = "take"
  /\ Owes(f) => Owes(s[n])
  /\ Spent(f) => Spent(s[n])

\* The frame that takes its place is as good as the one before it.
LEMMA MovedFits ==
  ASSUME NEW s \in Seq(Frame), NEW u \in Seq(Frame), NEW n \in Nat, n > 0, n <= Len(s), n <= Len(u),
         Fits(s, n), Moved(s, n, u[n]), \A i \in 1 .. n - 1 : u[i] = s[i]
  PROVE  Fits(u, n) /\ Tame(s, u, n)
<1>1. Place(s, n) /\ (n > 1 => Calls(s[n - 1], s[n]) /\ u[n - 1] = s[n - 1])
  BY DEF Fits
<1>2. u[n].id = "log" => \/ n = 1
                         \/ n = 2 /\ u[1].at = "run"
                         \/ n = 3 /\ u[1].id = "exit" /\ u[2].id = "grow"
                         \/ n > 2 /\ u[n - 2].at = "fail"
  BY <1>1 DEF Place, Moved
<1>3. Place(u, n)
  BY <1>1, <1>2, Zenon DEF Place, Moved
<1>4. n > 1 => Calls(u[n - 1], u[n])
  BY <1>1, Zenon DEF Calls, Moved
<1>5. Tame(s, u, n)
  BY Zenon DEF Tame, HookKept, Moved
<1> QED
  BY <1>3, <1>4, <1>5, Zenon DEF Fits, Moved

\* Frame f takes the place of the frame on top.
LEMMA MoveStep ==
  ASSUME IInv, NEW c \in CPUs, frames[c] # <<>>, NEW f \in Frame,
         Becomes(c, Below(c) \o <<f>>), UNCHANGED <<rescue, queue>>,
         Moved(frames[c], Len(frames[c]), f)
  PROVE  IInv'
<1> DEFINE s == frames[c]
           n == Len(s)
           u == Below(c) \o <<f>>
           k == n - 1
<1>1. s \in Seq(Frame) /\ n \in Nat /\ n > 0 /\ Fits(s, n)
  BY TopFrames, Zenon
<1>2. k \in Nat /\ k <= Len(s) /\ n = k + 1 /\ n = Len(s)
  BY <1>1
<1>u. u = OnTop(s, k, <<f>>)
  BY Zenon DEF Below, OnTop
<1>3. Becomes(c, u) /\ Moved(s, n, f)
  BY Zenon
<1> HIDE DEF s, n, u, k
<1>4. u \in Seq(Frame) /\ Len(u) = k + 1 /\ u[k + 1] = f /\ \A i \in 1 .. k : u[i] = s[i]
  BY ONLY f \in Frame, <1>1, <1>2, <1>u, Rewritten1
<1>5. Fits(u, n) /\ Tame(s, u, n)
  <2>1. n <= Len(s) /\ n <= Len(u) /\ Moved(s, n, u[n]) /\ \A i \in 1 .. n - 1 : u[i] = s[i]
    BY ONLY <1>1, <1>2, <1>3, <1>4
  <2> QED
    BY ONLY <1>1, <1>4, <2>1, MovedFits, Zenon
<1>6. k <= Len(s) /\ k < Len(u) /\ \A i \in k + 1 .. Len(u) : Fits(u, i) /\ Tame(s, u, i)
  BY <1>2, <1>4, <1>5
<1> QED
  BY ONLY IInv, c \in CPUs, UNCHANGED <<rescue, queue>>, <1>2, <1>3, <1>4, <1>6, TopStep, Zenon DEF s

\* Frames f and g take the place of the frame on top, and g is new.
LEMMA CallStep ==
  ASSUME IInv, NEW c \in CPUs, frames[c] # <<>>, NEW f \in Frame, NEW g \in Frame,
         Becomes(c, Below(c) \o <<f, g>>), UNCHANGED <<rescue, queue>>,
         Moved(frames[c], Len(frames[c]), f),
         Sort(g), Calls(f, g), g.at \notin {"run", "fail", "unlock"},
         g.id \notin {"store", "palloc", "log"}, g.id = "hook" => g.at = "take"
  PROVE  IInv'
<1> DEFINE s == frames[c]
           n == Len(s)
           u == Below(c) \o <<f, g>>
           k == n - 1
<1>1. s \in Seq(Frame) /\ n \in Nat /\ n > 0 /\ Fits(s, n)
  BY TopFrames, Zenon
<1>2. k \in Nat /\ k <= Len(s) /\ n = k + 1 /\ n = Len(s)
  BY <1>1
<1>u. u = OnTop(s, k, <<f, g>>)
  BY Zenon DEF Below, OnTop
<1>3. Becomes(c, u) /\ Moved(s, n, f)
  BY Zenon
<1> HIDE DEF s, n, u, k
<1>4. /\ u \in Seq(Frame) /\ Len(u) = k + 2 /\ u[k + 1] = f /\ u[k + 2] = g
      /\ \A i \in 1 .. k : u[i] = s[i]
  BY ONLY f \in Frame, g \in Frame, <1>1, <1>2, <1>u, Rewritten2
<1>5. Fits(u, n) /\ Tame(s, u, n)
  <2>1. n <= Len(s) /\ n <= Len(u) /\ Moved(s, n, u[n]) /\ \A i \in 1 .. n - 1 : u[i] = s[i]
    BY ONLY <1>1, <1>2, <1>3, <1>4
  <2> QED
    BY ONLY <1>1, <1>4, <2>1, MovedFits, Zenon
<1>6. Fits(u, n + 1)
  <2>1. u[n + 1] = g /\ u[n] = f /\ n + 1 > 1 /\ (n + 1) - 1 = n
    BY <1>2, <1>4
  <2>2. Place(u, n + 1)
    BY <2>1, Zenon DEF Place
  <2> QED
    BY <2>1, <2>2, Zenon DEF Fits
<1>7. Tame(s, u, n + 1)
  <2>1. u[n + 1] = g /\ n + 1 = Len(u)
    BY <1>2, <1>4
  <2>2. ~Owes(g) /\ ~Spent(g)
    BY Zenon DEF Owes, Spent
  <2> QED
    BY <2>1, <2>2, Zenon DEF Tame, HookKept
<1>8. k <= Len(s) /\ k < Len(u) /\ \A i \in k + 1 .. Len(u) : Fits(u, i) /\ Tame(s, u, i)
  <2>1. \A i \in k + 1 .. Len(u) : i = n \/ i = n + 1
    BY <1>2, <1>4
  <2> QED
    BY ONLY <1>1, <1>2, <1>4, <1>5, <1>6, <1>7, <2>1
<1> QED
  BY ONLY IInv, c \in CPUs, UNCHANGED <<rescue, queue>>, <1>2, <1>3, <1>4, <1>8, TopStep DEF s
-----------------------------------------------------------------------------
(* Steps of routines *)

\* Routine k at its n-th operation.
Runs(k, n) == [at |-> "run", id |-> k, n |-> n]

\* A routine and its n-th operation, as they are put on the stack.
LEMMA Entered ==
  ASSUME NEW k \in Routines, NEW n \in 1 .. Len(Program[k]), NEW e, e = Enter(Program[k][n])
  PROVE  /\ Runs(k, n) \in Frame /\ e \in Frame
         /\ Sort(Runs(k, n)) /\ Sort(e) /\ Calls(Runs(k, n), e)
         /\ e.at \in {"lock", "alloc"} /\ e.id # "hook" /\ e.id \notin Routines
         /\ e.id = "log" => k # "hook"
         /\ ~Owes(e) /\ ~Spent(e)
<1> DEFINE o == Program[k][n]
<1>1. OperationFits(k, n, o)
  BY ProgramFits, Zenon
<1>2. o \in Operations \cup {"box"} /\ o \notin Routines /\ o # "hook" /\ (o = "log" => k # "hook")
  BY <1>1, Names, Zenon DEF OperationFits
<1>3. n \in Nat
  BY Names DEF Program
<1>4. e.id = o /\ e.at \in {"lock", "alloc"} /\ (e.at = "lock" => o # "box") /\ (e.at = "alloc" => o = "box") /\ e.n = 0
  BY Zenon DEF Enter
<1>5. e \in Frame
  BY <1>2, Zenon DEF Enter, Frame, Places
<1>6. Runs(k, n) \in Frame /\ Runs(k, n).at = "run" /\ Runs(k, n).id = k /\ Runs(k, n).n = n
  BY <1>3, Zenon DEF Runs, Frame, Places
<1> HIDE DEF o
<1>7. Sort(Runs(k, n)) /\ Sort(e)
  BY <1>2, <1>4, <1>6, Zenon DEF Sort
<1>8. Calls(Runs(k, n), e)
  BY <1>2, <1>4, <1>6, Names, Zenon DEF Calls, o
<1>9. ~Owes(e) /\ ~Spent(e)
  BY <1>4, Zenon DEF Owes, Spent
<1> QED
  BY <1>2, <1>4, <1>5, <1>6, <1>7, <1>8, <1>9, Zenon

\* What a routine and its next operation are, in a stack whose first frames are kept.
LEMMA RunsFits ==
  ASSUME NEW u \in Seq(Frame), NEW i \in Nat, i > 0, Len(u) = i + 1,
         NEW k \in Routines, NEW n \in 1 .. Len(Program[k]),
         u[i] = Runs(k, n), u[i + 1] = Enter(Program[k][n]),
         k = "hook" \/ i = 1, i > 1 => Calls(u[i - 1], u[i])
  PROVE  Fits(u, i) /\ Fits(u, i + 1)
<1>1. /\ Sort(u[i]) /\ Sort(u[i + 1]) /\ Calls(u[i], u[i + 1])
      /\ u[i + 1].at \in {"lock", "alloc"}
      /\ u[i + 1].id = "log" => k # "hook"
  BY Entered, Zenon
<1>2. u[i].at = "run" /\ u[i].id = k /\ k \notin Operations
  BY Names DEF Runs
<1>3. Place(u, i)
  BY <1>2, Names DEF Place
<1>4. Place(u, i + 1)
  BY <1>1, <1>2 DEF Place
<1>5. i + 1 > 1 /\ (i + 1) - 1 = i
  OBVIOUS
<1> QED
  BY <1>1, <1>3, <1>4, <1>5, Zenon DEF Fits

\* The operation on top of a routine.
LEMMA InRoutineTop ==
  ASSUME IInv, NEW c \in CPUs, InRoutine(c)
  PROVE  /\ frames[c] # <<>> /\ Len(frames[c]) - 2 \in Nat
         /\ Caller(c) = frames[c][Len(frames[c]) - 1] /\ Caller(c) \in Frame
         /\ Caller(c).at = "run" /\ Caller(c).id \in Routines
         /\ Caller(c).n \in 1 .. Len(Program[Caller(c).id])
         /\ Top(c).id = Program[Caller(c).id][Caller(c).n]
         /\ OperationFits(Caller(c).id, Caller(c).n, Top(c).id)
         /\ Caller(c).id = "hook" \/ Len(frames[c]) - 1 = 1
<1>1. frames[c] \in Seq(Frame)
  BY Zenon DEF IInv, TypeOK
<1>2. Len(frames[c]) \in Nat /\ Len(frames[c]) > 1 /\ frames[c] # <<>>
  BY <1>1 DEF InRoutine
<1>3. /\ Caller(c) = frames[c][Len(frames[c]) - 1] /\ Caller(c) \in Frame
      /\ Calls(Caller(c), Top(c)) /\ Fits(frames[c], Len(frames[c]) - 1)
  BY <1>2, TopFrames, Zenon
<1>4. Caller(c).at = "run"
  BY <1>3, Zenon DEF InRoutine
<1>5. /\ Caller(c).id \in Routines /\ Caller(c).n \in 1 .. Len(Program[Caller(c).id])
      /\ Top(c).id = Program[Caller(c).id][Caller(c).n]
      /\ Caller(c).id = "hook" \/ Len(frames[c]) - 1 = 1
  BY <1>3, <1>4, Zenon DEF Calls, Fits, Sort, Place
<1>6. OperationFits(Caller(c).id, Caller(c).n, Top(c).id)
  BY <1>5, ProgramFits, Zenon
<1>7. Len(frames[c]) - 2 \in Nat
  BY <1>2
<1> QED
  BY ONLY <1>2, <1>3, <1>4, <1>5, <1>6, <1>7, Zenon

\* What the frames owe once an operation of a routine is done: what they owed before,
\* except that a hook has spawned its tasks or a _reinit_rescue is past its store.
Advanced(s, u, i, f) ==
  /\ HookKept(s, u, i)
  /\ Owes(u[i]) => i <= Len(s) /\ Owes(s[i])
  /\ Spent(u[i]) => i <= Len(s) /\ (Spent(s[i]) \/ (f.id = "hook" /\ f.n = 9))
  /\ i = Len(s) - 1 /\ ((f.id = "hook" /\ f.n = 9) \/ (f.id = "reinit" /\ f.n = 5)) => ~Owes(u[i])

\* When an operation of a routine is done the stack is in order, and the routine has
\* advanced or is gone.
LEMMA DoneShape ==
  ASSUME IInv, NEW c \in CPUs, InRoutine(c),
         NEW u, u = BelowCaller(c) \o Routine(Caller(c).id, Caller(c).n + 1)
  PROVE  u \in Seq(Frame) /\ Stack(u) /\ \A i \in 1 .. Len(u) : Advanced(frames[c], u, i, Caller(c))
<1> DEFINE s == frames[c]
           k == Len(s) - 2
           f == Caller(c)
           m == f.n + 1
<1>1. /\ s \in Seq(Frame) /\ Stack(s) /\ Len(s) \in Nat
      /\ k \in Nat /\ k + 2 = Len(s) /\ k + 1 = Len(s) - 1 /\ k <= Len(s)
  BY InRoutineTop, TopFrames
<1>2. /\ f = s[k + 1] /\ f.at = "run" /\ f.id \in Routines /\ f \in Frame /\ f.n \in Nat
      /\ f.id = "hook" \/ k + 1 = 1
  BY <1>1, InRoutineTop DEF Frame
<1>3. u = OnTop(s, k, Routine(f.id, m))
  BY Zenon DEF BelowCaller, OnTop
<1> HIDE DEF s, k, f
<1>m. m \in Nat /\ m > 0 /\ m = f.n + 1
  BY ONLY <1>2
<1> HIDE DEF m
<1>4. Fits(s, k + 1) /\ (k > 0 => Calls(s[k], s[k + 1]) /\ Fits(s, k))
  BY <1>1 DEF Stack, Fits
<1>5. k > 0 => s[k].at # "run"
  <2> SUFFICES ASSUME k > 0, s[k].at = "run" PROVE FALSE
    BY Zenon
  <2>1. /\ s[k].id \in Routines /\ s[k].n \in 1 .. Len(Program[s[k].id])
        /\ f.id = Program[s[k].id][s[k].n]
    BY <1>2, <1>4, Zenon DEF Calls, Fits, Sort
  <2>2. OperationFits(s[k].id, s[k].n, f.id)
    BY <2>1, ProgramFits, Zenon
  <2> QED
    BY <1>2, <2>2, Names, Zenon DEF OperationFits
<1>6. CASE m > Len(Program[f.id])
  <2>1. u = SubSeq(s, 1, k) \o <<>>
    BY <1>3, <1>6, Zenon DEF Routine, OnTop
  <2> DEFINE p == SubSeq(s, 1, k)
  <2>2. p \in Seq(Frame) /\ Len(p) = k /\ \A i \in 1 .. k : p[i] = s[i]
    BY <1>1, Kept
  <2>3. u = p \o <<>>
    BY <2>1, Zenon
  <2> HIDE DEF p
  <2>4. u = p
    BY <2>2, <2>3, ConcatEmptySeq, Zenon
  <2>5. u \in Seq(Frame) /\ Len(u) = k /\ \A i \in 1 .. k : u[i] = s[i]
    BY <2>2, <2>4, Zenon
  <2>6. Stack(u)
    <3>1. k <= Len(u) /\ (k > 0 /\ s[k].at = "run" => k < Len(u)) /\ \A i \in k + 1 .. Len(u) : Fits(u, i)
      BY <1>1, <1>5, <2>5
    <3> QED
      BY ONLY <1>1, <2>5, <3>1, StackRewritten, Zenon
  <2>7. ASSUME NEW i \in 1 .. Len(u) PROVE Advanced(s, u, i, f)
    <3>1. u[i] = s[i] /\ i <= Len(s) /\ i # Len(s) - 1
      BY <1>1, <2>5
    <3> QED
      BY ONLY <3>1, Zenon DEF Advanced, HookKept
  <2> QED
    BY <2>5, <2>6, <2>7, Zenon DEF s, f
<1>7. CASE ~(m > Len(Program[f.id]))
  <2> DEFINE r == Runs(f.id, m)
             e == Enter(Program[f.id][m])
  <2>1. u = OnTop(s, k, <<r, e>>)
    <3>1. Routine(f.id, m) = <<r, e>>
      BY <1>7, Zenon DEF Routine, Runs
    <3> QED
      BY <1>3, <3>1, Zenon
  <2>2. m \in 1 .. Len(Program[f.id])
    <3>1. Len(Program[f.id]) \in Nat
      BY <1>2, Names DEF Program
    <3> QED
      BY <1>m, <1>7, <3>1
  <2>3. /\ r \in Frame /\ e \in Frame
        /\ e.id # "hook" /\ ~Owes(e) /\ ~Spent(e)
    BY <1>2, <2>2, Entered
  <2>4. r.at = "run" /\ r.id = f.id /\ r.n = f.n + 1
    BY <1>m, Zenon DEF Runs
  <2>5. r = Runs(f.id, m) /\ e = Enter(Program[f.id][m])
    BY Zenon
  <2> HIDE DEF r, e
  <2>6. /\ u \in Seq(Frame) /\ Len(u) = k + 2 /\ u[k + 1] = r /\ u[k + 2] = e
        /\ \A i \in 1 .. k : u[i] = s[i]
    BY ONLY <1>1, <2>1, <2>3, Rewritten2
  <2>7. Fits(u, k + 1) /\ Fits(u, k + 2)
    <3>1. k + 1 > 1 => Calls(u[k], u[k + 1])
      <4>1. k + 1 > 1 => k > 0 /\ k \in 1 .. k
        BY ONLY <1>1
      <4>2. k > 0 => Calls(s[k], f)
        BY <1>2, <1>4, Zenon
      <4>3. k > 0 => Calls(s[k], r)
        BY <1>2, <2>4, <4>2, Zenon DEF Calls
      <4> QED
        BY ONLY <2>6, <4>1, <4>3, Zenon
    <3>2. k + 1 \in Nat /\ k + 1 > 0 /\ Len(u) = (k + 1) + 1 /\ (k + 1) - 1 = k /\ (k + 1) + 1 = k + 2
      BY <1>1, <2>6
    <3> QED
      BY ONLY <1>2, <2>2, <2>5, <2>6, <3>1, <3>2, RunsFits, Zenon
  <2>8. Stack(u)
    <3>1. k <= Len(u) /\ (k > 0 /\ s[k].at = "run" => k < Len(u)) /\ \A i \in k + 1 .. Len(u) : i = k + 1 \/ i = k + 2
      BY ONLY <1>1, <2>6
    <3>2. \A i \in k + 1 .. Len(u) : Fits(u, i)
      BY ONLY <3>1, <2>7, Zenon
    <3> QED
      BY ONLY <1>1, <2>6, <3>1, <3>2, StackRewritten, Zenon
  <2>9. ASSUME NEW i \in 1 .. Len(u) PROVE Advanced(s, u, i, f)
    <3>1. CASE i <= k
      <4>1. u[i] = s[i] /\ i <= Len(s) /\ i # Len(s) - 1
        BY <1>1, <2>6, <3>1
      <4> QED
        BY ONLY <4>1 DEF Advanced, HookKept
    <3>2. CASE i = k + 1
      <4>1. u[i] = r /\ s[i] = f /\ i <= Len(s)
        BY <1>1, <1>2, <2>6, <3>2
      <4>2. HookKept(s, u, i)
        BY ONLY <1>2, <2>4, <4>1, Zenon DEF HookKept
      <4>3. Owes(r) => Owes(f) /\ ~((f.id = "hook" /\ f.n = 9) \/ (f.id = "reinit" /\ f.n = 5))
        BY ONLY <1>2, <2>4 DEF Owes
      <4>4. Spent(r) => Spent(f) \/ (f.id = "hook" /\ f.n = 9)
        BY ONLY <1>2, <2>4 DEF Spent
      <4> QED
        BY ONLY <4>1, <4>2, <4>3, <4>4, Zenon DEF Advanced
    <3>3. CASE i = k + 2
      <4>1. u[i] = e /\ i # Len(s) - 1
        BY <1>1, <2>6, <3>3
      <4> QED
        BY ONLY <2>3, <4>1, Zenon DEF Advanced, HookKept
    <3>4. i <= k \/ i = k + 1 \/ i = k + 2
      BY ONLY <1>1, <2>6, i \in 1 .. Len(u)
    <3> QED
      BY <3>1, <3>2, <3>3, <3>4, Zenon
  <2> QED
    BY <2>6, <2>8, <2>9, Zenon DEF s, f
<1> QED
  BY <1>6, <1>7, Zenon

\* An operation ends that passes no reserve on.
LEMMA DoneStep ==
  ASSUME IInv, NEW c \in CPUs, frames[c] # <<>>, Done(c), UNCHANGED <<rescue, queue>>,
         Top(c).id \notin {"push", "store"} \/ ~InRoutine(c)
  PROVE  IInv'
<1>1. CASE InRoutine(c)
  <2> DEFINE u == BelowCaller(c) \o Routine(Caller(c).id, Caller(c).n + 1)
  <2>1. Becomes(c, u)
    BY <1>1, Zenon DEF Done, Becomes
  <2>2. u \in Seq(Frame) /\ Stack(u) /\ \A i \in 1 .. Len(u) : Advanced(frames[c], u, i, Caller(c))
    BY <1>1, DoneShape, Zenon
  <2>3. ~(Caller(c).id = "hook" /\ Caller(c).n = 9)
    BY <1>1, InRoutineTop, Zenon DEF OperationFits
  <2> HIDE DEF u
  <2>4. \A i \in 1 .. Len(u) : Tame(frames[c], u, i)
    BY <2>2, <2>3, Zenon DEF Advanced, Tame
  <2> QED
    BY <2>1, <2>2, <2>4, TameStep, Zenon
<1>2. CASE ~InRoutine(c)
  <2>1. Becomes(c, Below(c))
    BY <1>2, Zenon DEF Done, Becomes
  <2> QED
    BY <1>2, <2>1, PopStep, Zenon
<1> QED
  BY <1>1, <1>2, Zenon
-----------------------------------------------------------------------------
(* The steps that pass the reserve on *)

\* A step that appends a task to the queue of c.
LEMMA QueueStep ==
  ASSUME IInv, NEW c \in CPUs, NEW k \in Tasks, queue' = [queue EXCEPT ![c] = Append(@, k)]
  PROVE  /\ queue' \in [CPUs -> Seq(Tasks)]
         /\ \A d \in CPUs, i \in Nat : Queued(d, i) => Queued(d, i)'
         /\ \A d \in CPUs, i \in Nat : Queued(d, i)' =>
              Queued(d, i) \/ (k = "reinit" /\ d = c /\ i = Len(queue[c]) + 1)
         /\ k = "reinit" => \E j \in Nat : Queued(c, j)'
<1>1. queue \in [CPUs -> Seq(Tasks)] /\ queue[c] \in Seq(Tasks)
  BY Zenon DEF IInv, TypeOK
<1> DEFINE q == Append(queue[c], k)
<1>2. /\ q \in Seq(Tasks) /\ Len(q) = Len(queue[c]) + 1 /\ q[Len(queue[c]) + 1] = k
      /\ \A i \in 1 .. Len(queue[c]) : q[i] = queue[c][i]
  BY <1>1, AppendProperties
<1>3. queue' = [queue EXCEPT ![c] = q]
  BY Zenon
<1> HIDE DEF q
<1>4. queue' \in [CPUs -> Seq(Tasks)] /\ queue'[c] = q /\ \A d \in CPUs : d # c => queue'[d] = queue[d]
  BY <1>1, <1>2, <1>3, Zenon
<1>5. Len(queue[c]) \in Nat
  BY <1>1
<1>6. ASSUME NEW d \in CPUs, NEW i \in Nat, Queued(d, i) PROVE Queued(d, i)'
  BY <1>2, <1>4, <1>5, <1>6 DEF Queued
<1>7. ASSUME NEW d \in CPUs, NEW i \in Nat, Queued(d, i)'
      PROVE  Queued(d, i) \/ (k = "reinit" /\ d = c /\ i = Len(queue[c]) + 1)
  <2>1. CASE d = c
    BY <1>2, <1>4, <1>5, <1>7, <2>1 DEF Queued
  <2>2. CASE d # c
    BY <1>4, <1>7, <2>2, Zenon DEF Queued
  <2> QED
    BY <2>1, <2>2, Zenon
<1>8. ASSUME k = "reinit", NEW j \in Nat, j = Len(queue[c]) + 1 PROVE Queued(c, j)'
  BY <1>2, <1>4, <1>5, <1>8 DEF Queued
<1>9. k = "reinit" => \E j \in Nat : Queued(c, j)'
  BY <1>5, <1>8
<1> QED
  BY <1>4, <1>6, <1>7, <1>9, Zenon

\* push_task: the hook queues the task that sets up the next reserve.
LEMMA PushStep ==
  ASSUME IInv, NEW c \in CPUs, push_task(c)
  PROVE  IInv'
<1>0. frames[c] # <<>> /\ Done(c) /\ UNCHANGED rescue /\ Top(c).id = "push"
  BY Zenon DEF push_task, InBody, At
<1>1. CASE ~InRoutine(c)
  <2>1. UNCHANGED <<rescue, queue>>
    BY <1>1, Zenon DEF push_task
  <2> QED
    BY <1>0, <1>1, <2>1, DoneStep, Zenon
<1>2. CASE InRoutine(c)
  <2> DEFINE u == BelowCaller(c) \o Routine(Caller(c).id, Caller(c).n + 1)
             s == frames[c]
             f == Caller(c)
             k == TaskAt(f.n)
  <2>1. Becomes(c, u) /\ queue' = [queue EXCEPT ![c] = Append(@, k)]
    BY <1>0, <1>2, Zenon DEF Done, Becomes, push_task
  <2>2. u \in Seq(Frame) /\ Stack(u) /\ \A i \in 1 .. Len(u) : Advanced(s, u, i, f)
    BY <1>2, DoneShape, Zenon
  <2>3. /\ f.id = "hook" /\ f.n \in {5, 9, 13} /\ f.at = "run" /\ f = s[Len(s) - 1]
        /\ Len(s) - 1 \in Nat /\ Len(s) - 1 \in 1 .. Len(s)
    <3>1. OperationFits(f.id, f.n, "push") /\ f.at = "run" /\ f = s[Len(s) - 1] /\ Len(s) - 2 \in Nat
      BY <1>0, <1>2, InRoutineTop, Zenon
    <3>2. f.id = "hook" /\ f.n \in {5, 9, 13}
      BY ONLY <3>1, Zenon DEF OperationFits
    <3>3. s \in Seq(Frame)
      BY Zenon DEF IInv, TypeOK
    <3> HIDE DEF s, f
    <3> QED
      BY ONLY <3>1, <3>2, <3>3
  <2>4. k \in Tasks /\ (k = "reinit" <=> f.n = 9)
    BY <2>3, SecondIsReinit, Zenon
  <2>5. f.n = 9 => Owing(c, Len(s) - 1)
    BY <2>3 DEF Owing, Owes
  <2> HIDE DEF u, s, f, k
  <2>6. /\ frames' \in [CPUs -> Seq(Frame)]
        /\ \A d \in CPUs : Stack(frames'[d])
        /\ frames'[c] = u /\ \A d \in CPUs : d # c => frames'[d] = frames[d]
    BY <2>1, <2>2, StacksStep, Zenon
  <2>7. /\ queue' \in [CPUs -> Seq(Tasks)]
        /\ \A d \in CPUs, i \in Nat : Queued(d, i) => Queued(d, i)'
        /\ \A d \in CPUs, i \in Nat : Queued(d, i)' =>
              Queued(d, i) \/ (k = "reinit" /\ d = c /\ i = Len(queue[c]) + 1)
        /\ k = "reinit" => \E j \in Nat : Queued(c, j)'
    BY <2>1, <2>4, QueueStep, Zenon
  <2>8. TypeOK'
    BY <1>0, <2>6, <2>7, Zenon DEF IInv, TypeOK
  <2>9. HooksDoNotStack'
    BY <2>2, <2>6, HooksStep, Zenon DEF Advanced, s
  <2>10. SpawnedIsQueued'
    <3> SUFFICES ASSUME NEW d \in CPUs, NEW i \in Nat, i \in 1 .. Len(frames'[d]), Spent(frames'[d][i])
                 PROVE  \E j \in Nat : Queued(d, j)'
      BY Zenon DEF SpawnedIsQueued
    <3>1. CASE k = "reinit" /\ d = c
      BY <2>7, <3>1, Zenon
    <3>2. CASE ~(k = "reinit" /\ d = c)
      <4>1. i \in 1 .. Len(frames[d]) /\ Spent(frames[d][i])
        BY <2>2, <2>4, <2>6, <3>2 DEF Advanced, s
      <4>2. \E j \in Nat : Queued(d, j)
        BY <4>1, Zenon DEF IInv, SpawnedIsQueued
      <4> QED
        BY <2>7, <4>2, Zenon
    <3> QED
      BY <3>1, <3>2, Zenon
  <2>11. ASSUME NEW d \in CPUs, NEW i \in Nat, Owing(d, i)'
         PROVE  Owing(d, i) /\ (d = c /\ f.n = 9 => i # Len(s) - 1)
    <3>1. CASE d = c
      <4>1. i \in 1 .. Len(u) /\ Owes(u[i])
        BY <2>6, <2>11, <3>1, Zenon DEF Owing
      <4>2. Advanced(s, u, i, f)
        BY ONLY <2>2, <4>1, Zenon
      <4>3. i <= Len(s) /\ Owes(s[i]) /\ (f.n = 9 => i # Len(s) - 1)
        BY ONLY <2>3, <4>1, <4>2, Zenon DEF Advanced
      <4> QED
        BY <3>1, <4>1, <4>3 DEF Owing, s
    <3>2. CASE d # c
      BY <2>6, <2>11, <3>2, Zenon DEF Owing
    <3> QED
      BY <3>1, <3>2, Zenon
  <2>12. OneReserve'
    <3>1. CASE k # "reinit"
      <4>1. \A d \in CPUs, i \in Nat : (Queued(d, i)' => Queued(d, i)) /\ (Owing(d, i)' => Owing(d, i))
        BY <2>7, <2>11, <3>1, Zenon
      <4>2. OneReserve /\ UNCHANGED rescue
        BY <1>0, Zenon DEF IInv
      <4> QED
        BY ONLY <4>1, <4>2 DEF OneReserve
    <3>2. CASE k = "reinit"
      <4>1. OneReserve /\ Owing(c, Len(s) - 1) /\ f.n = 9 /\ Len(s) - 1 \in Nat
        BY <2>3, <2>4, <2>5, <3>2, Zenon DEF IInv
      <4>2. ~rescue /\ \A d \in CPUs, i \in Nat : ~Queued(d, i) /\ (Owing(d, i) => d = c /\ i = Len(s) - 1)
        BY <4>1 DEF OneReserve
      <4>3. \A d \in CPUs, i \in Nat : ~Owing(d, i)'
        BY <2>11, <4>1, <4>2, Zenon
      <4>4. \A d \in CPUs, i \in Nat : Queued(d, i)' => d = c /\ i = Len(queue[c]) + 1
        BY <2>7, <4>2, Zenon
      <4> QED
        BY <1>0, <4>2, <4>3, <4>4, Zenon DEF OneReserve
    <3> QED
      BY <3>1, <3>2, Zenon
  <2> QED
    BY <2>6, <2>8, <2>9, <2>10, <2>12, Zenon DEF IInv
<1> QED
  BY <1>1, <1>2, Zenon

\* A task that is about to store a reserve owes one.
LEMMA StoreOwes ==
  ASSUME IInv, NEW c \in CPUs, InBody(c, "store")
  PROVE  /\ InRoutine(c) /\ frames[c] # <<>>
         /\ Caller(c).id = "reinit" /\ Caller(c).n = 5
         /\ Len(frames[c]) - 1 \in Nat /\ Owing(c, Len(frames[c]) - 1)
<1> DEFINE s == frames[c]
           n == Len(s)
<1>1. s # <<>> /\ Top(c).id = "store"
  BY Zenon DEF InBody, At
<1>2. s \in Seq(Frame) /\ n \in Nat /\ n > 0 /\ Top(c) = s[n] /\ Fits(s, n)
  BY <1>1, TopFrames, Zenon
<1>3. n > 1
  BY <1>1, <1>2, Zenon DEF Fits, Place
<1>4. Caller(c) = s[n - 1] /\ Calls(Caller(c), Top(c))
  BY <1>1, <1>3, TopFrames, Zenon
<1>5. Caller(c).at = "run"
  BY <1>1, <1>4, Zenon DEF Calls
<1>6. InRoutine(c)
  BY <1>3, <1>4, <1>5, Zenon DEF InRoutine
<1>7. Caller(c).id = "reinit" /\ Caller(c).n = 5
  <2>1. OperationFits(Caller(c).id, Caller(c).n, "store")
    BY <1>1, <1>6, InRoutineTop, Zenon
  <2> QED
    BY <2>1, Zenon DEF OperationFits
<1>8. n - 1 \in Nat /\ n - 1 \in 1 .. n
  BY <1>2, <1>3
<1>9. Owes(s[n - 1])
  BY <1>4, <1>5, <1>7 DEF Owes
<1> QED
  BY <1>1, <1>6, <1>7, <1>8, <1>9, Zenon DEF Owing

\* *GLOBAL_RESCUE.lock() = Some(nr): the task that owed a reserve has set it up.
LEMMA StoreStep ==
  ASSUME IInv, NEW c \in CPUs, StoreRescue(c)
  PROVE  IInv'
<1> DEFINE u == BelowCaller(c) \o Routine(Caller(c).id, Caller(c).n + 1)
           s == frames[c]
           f == Caller(c)
<1>1. /\ InRoutine(c) /\ f.id = "reinit" /\ f.n = 5
      /\ Len(s) - 1 \in Nat /\ Owing(c, Len(s) - 1)
  BY StoreOwes, Zenon DEF StoreRescue
<1>2. Becomes(c, u) /\ rescue' = TRUE /\ UNCHANGED queue
  BY <1>1, Zenon DEF StoreRescue, Done, Becomes, tasks
<1>3. u \in Seq(Frame) /\ Stack(u) /\ \A i \in 1 .. Len(u) : Advanced(s, u, i, f)
  BY <1>1, DoneShape, Zenon
<1> HIDE DEF u, s, f
<1>4. /\ frames' \in [CPUs -> Seq(Frame)]
      /\ \A d \in CPUs : Stack(frames'[d])
      /\ frames'[c] = u /\ \A d \in CPUs : d # c => frames'[d] = frames[d]
  BY <1>2, <1>3, StacksStep, Zenon
<1>5. TypeOK'
  BY <1>2, <1>4, Zenon DEF IInv, TypeOK
<1>6. HooksDoNotStack'
  BY <1>3, <1>4, HooksStep DEF Advanced, s
<1>7. \A d \in CPUs, i \in Nat : Queued(d, i)' <=> Queued(d, i)
  BY <1>2, Zenon DEF Queued
<1>8. ~rescue /\ \A d \in CPUs, i \in Nat : ~Queued(d, i) /\ (Owing(d, i) => d = c /\ i = Len(s) - 1)
  BY <1>1 DEF IInv, OneReserve
<1>9. ASSUME NEW d \in CPUs, NEW i \in Nat, Owing(d, i)' PROVE FALSE
  <2>1. CASE d = c
    <3>1. i \in 1 .. Len(u) /\ Owes(u[i])
      BY <1>4, <1>9, <2>1 DEF Owing
    <3>2. Advanced(s, u, i, f)
      BY ONLY <1>3, <3>1
    <3>3. i <= Len(s) /\ Owes(s[i]) /\ i # Len(s) - 1
      BY ONLY <1>1, <3>1, <3>2, Zenon DEF Advanced
    <3>4. Owing(c, i)
      BY <3>1, <3>3 DEF Owing, s
    <3> QED
      BY <1>8, <3>3, <3>4, Zenon
  <2>2. CASE d # c
    <3>1. Owing(d, i)
      BY <1>4, <1>9, <2>2, Zenon DEF Owing
    <3> QED
      BY <1>8, <2>2, <3>1, Zenon
  <2> QED
    BY <2>1, <2>2, Zenon
<1>10. OneReserve'
  BY <1>7, <1>8, <1>9, Zenon DEF OneReserve
<1>11. SpawnedIsQueued'
  <2> SUFFICES ASSUME NEW d \in CPUs, NEW i \in Nat, i \in 1 .. Len(frames'[d]), Spent(frames'[d][i])
               PROVE  FALSE
    BY Zenon DEF SpawnedIsQueued
  <2>1. i \in 1 .. Len(frames[d]) /\ Spent(frames[d][i])
    <3>1. CASE d = c
      <4>1. i \in 1 .. Len(u) /\ Spent(u[i])
        BY <1>4, <3>1, Zenon
      <4>2. Advanced(s, u, i, f)
        BY ONLY <1>3, <4>1
      <4>3. i <= Len(s) /\ Spent(s[i])
        BY ONLY <1>1, <4>1, <4>2, Zenon DEF Advanced
      <4> QED
        BY <3>1, <4>1, <4>3 DEF s
    <3>2. CASE d # c
      BY <1>4, <3>2, Zenon
    <3> QED
      BY <3>1, <3>2, Zenon
  <2> QED
    BY <1>8, <2>1, Zenon DEF IInv, SpawnedIsQueued
<1> QED
  BY <1>4, <1>5, <1>6, <1>10, <1>11, Zenon DEF IInv

\* Where there is a reserve and no growing stack below it, the hook on top of the
\* stack of c is the only one.
LEMMA OnlyHook ==
  ASSUME IInv, NEW c \in CPUs, rescue, At(c, "take"), ~Holds(c, "NOINTERRUPTIONS_STATE"),
         NEW i \in Nat, i > 0, i < Len(frames[c])
  PROVE  frames[c][i].id # "hook"
<1> SUFFICES ASSUME frames[c][i].id = "hook" PROVE FALSE
  BY Zenon
<1> DEFINE s == frames[c]
           n == Len(s)
<1>1. s # <<>> /\ Top(c).at = "take"
  BY Zenon DEF At
<1>2. s \in Seq(Frame) /\ Stack(s) /\ n \in Nat /\ s[n].at = "take" /\ Fits(s, n)
  BY <1>1, TopFrames, Zenon
<1>3. s[n].id = "hook"
  BY <1>2, Zenon DEF Fits, Sort
<1>4. i \in 1 .. n /\ i + 1 \in 1 .. n /\ Fits(s, i) /\ Fits(s, i + 1) /\ s[i] \in Frame
  BY <1>2 DEF Stack
<1>5. s[i].id = "hook" /\ i < n /\ i > 0
  BY Zenon
<1> HIDE DEF s, n
<1>6. s[i].at \in {"take", "run", "fail"}
  BY <1>4, <1>5, Names, Zenon DEF Fits, Sort, Frame, Places
<1>7. CASE s[i].at \in {"run", "fail"}
  <2>1. s[i].n \in Nat
    BY <1>4, Zenon DEF Frame
  <2>2. Owes(s[i]) \/ Spent(s[i])
    BY <1>5, <1>7, <2>1 DEF Owes, Spent
  <2>3. CASE Owes(s[i])
    <3>1. Owing(c, i)
      BY <1>4, <2>3, Zenon DEF Owing, s, n
    <3> QED
      BY <3>1, Zenon DEF IInv, OneReserve
  <2>4. CASE Spent(s[i])
    BY <1>4, <2>4, Zenon DEF IInv, OneReserve, SpawnedIsQueued, s, n
  <2> QED
    BY <2>2, <2>3, <2>4, Zenon
<1>8. CASE s[i].at = "take"
  <2>1. i + 1 > 1 /\ (i + 1) - 1 = i
    BY <1>5
  <2>2. Calls(s[i], s[i + 1])
    BY <1>4, <2>1, Zenon DEF Fits
  <2>3. s[i + 1].id = "ni"
    BY <1>8, <2>2, Zenon DEF Calls
  <2>4. i + 1 # n
    BY <1>3, <2>3, Zenon
  <2>5. i + 2 \in 1 .. n /\ i + 2 > 1 /\ (i + 2) - 1 = i + 1
    BY <1>2, <1>4, <2>4
  <2>6. Calls(s[i + 1], s[i + 2])
    BY <1>2, <2>5, Zenon DEF Stack, Fits, n
  <2>7. s[i + 1].at = "held"
    BY <2>3, <2>6, Zenon DEF Calls
  <2>8. s[i + 1].id \in Operations /\ LockOf[s[i + 1].id] = "NOINTERRUPTIONS_STATE"
    BY <2>3, Names, Zenon
  <2> QED
    BY <1>4, <2>7, <2>8, Zenon DEF Holds, s, n
<1> QED
  BY <1>6, <1>7, <1>8, Zenon

\* _use_rescue takes the reserve, and will see to the next.
LEMMA TakeStep ==
  ASSUME IInv, NEW c \in CPUs, rescue, At(c, "take"), ~Holds(c, "NOINTERRUPTIONS_STATE"),
         rescue' = FALSE, UNCHANGED queue, Replace(c, Routine("hook", 1))
  PROVE  IInv'
<1> DEFINE s == frames[c]
           n == Len(s)
           k == n - 1
           r == Runs("hook", 1)
           e == Enter(Program["hook"][1])
           u == Below(c) \o <<r, e>>
<1>1. s # <<>> /\ Top(c).at = "take"
  BY Zenon DEF At
<1>2. s \in Seq(Frame) /\ Stack(s) /\ n \in Nat /\ n > 0 /\ s[n].at = "take" /\ Fits(s, n)
  BY <1>1, TopFrames, Zenon
<1>3. s[n].id = "hook" /\ (n > 1 => Calls(s[n - 1], s[n]))
  BY <1>2, Zenon DEF Fits, Sort
<1>4. 1 \in 1 .. Len(Program["hook"]) /\ "hook" \in Routines
  BY Names DEF Program
<1>5. Routine("hook", 1) = <<r, e>>
  <2>1. ~(1 > Len(Program["hook"]))
    BY DEF Program
  <2> QED
    BY <2>1, Zenon DEF Routine, Runs
<1>6. Becomes(c, u)
  BY <1>5, Zenon DEF Replace, Becomes
<1>7. u = OnTop(s, k, <<r, e>>)
  BY Zenon DEF Below, OnTop
<1>8. k \in Nat /\ k <= Len(s) /\ k + 1 = n /\ k + 2 = n + 1 /\ n = Len(s)
  BY <1>2
<1>9. r \in Frame /\ e \in Frame /\ e.id # "hook" /\ ~Owes(e) /\ ~Spent(e)
  BY <1>4, Entered, Zenon
<1>10. r.id = "hook" /\ r.at = "run" /\ r.n = 1 /\ ~Spent(r)
  BY DEF Runs, Spent
<1>11. r = Runs("hook", 1) /\ e = Enter(Program["hook"][1])
  BY Zenon
<1> HIDE DEF s, n, k, r, e, u
<1>12. /\ u \in Seq(Frame) /\ Len(u) = n + 1 /\ u[n] = r /\ u[n + 1] = e
       /\ \A i \in 1 .. k : u[i] = s[i]
  <2>1. /\ u \in Seq(Frame) /\ Len(u) = k + 2 /\ u[k + 1] = r /\ u[k + 2] = e
        /\ \A i \in 1 .. k : u[i] = s[i]
    <3>1. s \in Seq(Frame) /\ k \in Nat /\ k <= Len(s) /\ r \in Frame /\ e \in Frame
      BY <1>2, <1>8, <1>9, Zenon
    <3> QED
      BY ONLY <1>7, <3>1, Rewritten2
  <2> QED
    BY ONLY <1>8, <2>1, Zenon
<1>13. Fits(u, n) /\ Fits(u, n + 1)
  <2>1. n > 1 => Calls(u[n - 1], u[n])
    <3>1. n > 1 => Calls(s[n - 1], r)
      BY <1>2, <1>3, <1>10, Zenon DEF Calls
    <3>2. n > 1 => u[n - 1] = s[n - 1]
      BY ONLY <1>2, <1>8, <1>12
    <3> QED
      BY ONLY <1>12, <3>1, <3>2, Zenon
  <2> QED
    BY ONLY <1>2, <1>4, <1>11, <1>12, <2>1, RunsFits, Zenon
<1>14. Stack(u)
  <2>1. k <= Len(u) /\ (k > 0 /\ s[k].at = "run" => k < Len(u)) /\ \A i \in k + 1 .. Len(u) : i = n \/ i = n + 1
    BY ONLY <1>2, <1>8, <1>12
  <2>2. \A i \in k + 1 .. Len(u) : Fits(u, i)
    BY ONLY <1>13, <2>1, Zenon
  <2> QED
    BY ONLY <1>2, <1>8, <1>12, <2>1, <2>2, StackRewritten, Zenon
<1>15. /\ frames' \in [CPUs -> Seq(Frame)]
       /\ \A d \in CPUs : Stack(frames'[d])
       /\ frames'[c] = u /\ \A d \in CPUs : d # c => frames'[d] = frames[d]
  BY <1>6, <1>12, <1>14, StacksStep, Zenon
<1>16. ASSUME NEW i \in 1 .. Len(u) PROVE (i < n /\ u[i] = s[i] /\ i <= Len(s)) \/ i = n \/ i = n + 1
  BY ONLY <1>2, <1>8, <1>12, i \in 1 .. Len(u)
<1>17. ASSUME NEW d \in CPUs, NEW i \in Nat
       PROVE  ~Queued(d, i) /\ ~Owing(d, i) /\ ~(i \in 1 .. Len(frames[d]) /\ Spent(frames[d][i]))
  BY Zenon DEF IInv, OneReserve, SpawnedIsQueued
<1>18. ASSUME NEW d \in CPUs, NEW i \in Nat, i \in 1 .. Len(frames'[d])
       PROVE  ~Spent(frames'[d][i]) /\ (Owes(frames'[d][i]) => d = c /\ i = n)
  <2>1. CASE d # c
    BY <1>15, <1>17, <1>18, <2>1, Zenon DEF Owing
  <2>2. CASE d = c
    <3>1. i \in 1 .. Len(u)
      BY <1>15, <1>18, <2>2, Zenon
    <3>2. CASE i < n /\ u[i] = s[i] /\ i <= Len(s)
      <4>1. i \in 1 .. Len(frames[c]) /\ frames'[c][i] = frames[c][i]
        BY <1>15, <3>1, <3>2 DEF s
      <4> QED
        BY <1>17, <2>2, <4>1, Zenon DEF Owing
    <3>3. CASE i = n \/ i = n + 1
      BY <1>9, <1>10, <1>12, <1>15, <2>2, <3>3, Zenon
    <3> QED
      BY <1>16, <3>1, <3>2, <3>3, Zenon
  <2> QED
    BY <2>1, <2>2, Zenon
<1>19. TypeOK'
  BY <1>15, Zenon DEF IInv, TypeOK
<1>20. OneReserve'
  <2>1. \A d \in CPUs, i \in Nat : ~Queued(d, i)'
    BY <1>17, Zenon DEF Queued
  <2>2. \A d \in CPUs, i \in Nat : Owing(d, i)' => d = c /\ i = n
    BY <1>18, Zenon DEF Owing
  <2> QED
    BY <2>1, <2>2, Zenon DEF OneReserve
<1>21. SpawnedIsQueued'
  BY <1>18, Zenon DEF SpawnedIsQueued
<1>22. HooksDoNotStack'
  <2> SUFFICES ASSUME NEW d \in CPUs, NEW i \in 1 .. Len(frames'[d]), NEW j \in 1 .. Len(frames'[d]),
                      i < j, frames'[d][i].id = "hook", frames'[d][j].id = "hook"
               PROVE  frames'[d][j].at = "take"
    BY Zenon DEF HooksDoNotStack
  <2>1. CASE d # c
    BY <1>15, <2>1, SMTT(30) DEF IInv, HooksDoNotStack
  <2>2. CASE d = c
    <3>1. i \in 1 .. Len(u) /\ j \in 1 .. Len(u) /\ u[i].id = "hook" /\ u[j].id = "hook" /\ i < j
      BY <1>15, <2>2, Zenon
    <3>2. j # n + 1 /\ i < n /\ i \in Nat /\ i > 0
      BY ONLY <1>2, <1>9, <1>12, <3>1
    <3>3. u[i] = s[i]
      BY ONLY <1>8, <1>12, <3>2
    <3> QED
      BY <1>8, <3>1, <3>2, <3>3, OnlyHook, Zenon DEF s
  <2> QED
    BY <2>1, <2>2, Zenon
<1> QED
  BY <1>15, <1>19, <1>20, <1>21, <1>22, Zenon DEF IInv

\* A task begins to run, among them the one that sets up a reserve.
LEMMA RunStep ==
  ASSUME IInv, NEW c \in CPUs, Run(c)
  PROVE  IInv'
<1> DEFINE q == queue[c]
           k == Head(q)
           r == Runs(k, 1)
           e == Enter(Program[k][1])
           u == <<r, e>>
<1>1. q \in Seq(Tasks) /\ q # <<>> /\ frames[c] = <<>> /\ UNCHANGED rescue /\ queue \in [CPUs -> Seq(Tasks)]
  BY Zenon DEF IInv, TypeOK, Run, Idle
<1>2. /\ k \in Tasks /\ k = q[1] /\ Len(q) \in Nat /\ Len(q) > 0
      /\ Tail(q) \in Seq(Tasks) /\ Len(Tail(q)) = Len(q) - 1
      /\ \A i \in 1 .. Len(q) - 1 : Tail(q)[i] = q[i + 1]
  BY <1>1, HeadTailProperties
<1>3. k \in Routines /\ k # "hook" /\ 1 \in 1 .. Len(Program[k]) /\ ~(1 > Len(Program[k]))
  <2>1. k \in {"boot", "notify", "reinit", "expand"} /\ k \in Routines
    BY <1>2, Names, Zenon DEF Tasks
  <2> HIDE DEF k
  <2>2. Len(Program[k]) \in {1, 2, 5, 6}
    BY <2>1 DEF Program
  <2>3. 1 \in 1 .. Len(Program[k]) /\ ~(1 > Len(Program[k]))
    <3>1. \A l \in {1, 2, 5, 6} : 1 \in 1 .. l /\ ~(1 > l)
      OBVIOUS
    <3> QED
      BY ONLY <2>2, <3>1, Zenon
  <2>4. k # "hook"
    BY ONLY <2>1, Zenon
  <2> QED
    BY <2>1, <2>3, <2>4, Zenon
<1>4. Routine(k, 1) = u
  BY <1>3, Zenon DEF Routine, Runs
<1>5. Becomes(c, u) /\ queue' = [queue EXCEPT ![c] = Tail(q)]
  BY <1>4, Zenon DEF Run, Becomes
<1>6. r \in Frame /\ e \in Frame /\ e.id # "hook" /\ ~Owes(e) /\ ~Spent(e)
  BY <1>3, Entered, Zenon
<1>7. r.id = k /\ r.at = "run" /\ r.n = 1 /\ ~Spent(r) /\ (Owes(r) => k = "reinit")
  BY <1>3, Zenon DEF Runs, Spent, Owes
<1>8. r = Runs(k, 1) /\ e = Enter(Program[k][1])
  BY Zenon
<1> HIDE DEF r, e, k
<1>9. u \in Seq(Frame) /\ Len(u) = 2 /\ u[1] = r /\ u[2] = e
  BY ONLY <1>6
<1> HIDE DEF u
<1>10. Stack(u)
  <2>1. Len(u) = 1 + 1 /\ u[1 + 1] = e /\ ~(1 > 1) /\ 1 \in Nat /\ 1 > 0
    BY ONLY <1>9
  <2>2. Fits(u, 1) /\ Fits(u, 1 + 1)
    BY ONLY <1>3, <1>8, <1>9, <2>1, RunsFits, Zenon
  <2>3. \A i \in 1 .. Len(u) : i = 1 \/ i = 1 + 1
    BY ONLY <1>9
  <2> QED
    BY ONLY <2>2, <2>3, Zenon DEF Stack
<1>11. /\ frames' \in [CPUs -> Seq(Frame)]
       /\ \A d \in CPUs : Stack(frames'[d])
       /\ frames'[c] = u /\ \A d \in CPUs : d # c => frames'[d] = frames[d]
  BY <1>5, <1>9, <1>10, StacksStep, Zenon
<1>12. queue' \in [CPUs -> Seq(Tasks)] /\ queue'[c] = Tail(q) /\ \A d \in CPUs : d # c => queue'[d] = queue[d]
  BY <1>1, <1>2, <1>5, Zenon
<1>13. TypeOK'
  BY <1>1, <1>11, <1>12, Zenon DEF IInv, TypeOK
<1>14. ASSUME NEW i \in 1 .. Len(u)
       PROVE  i \in {1, 2} /\ u[i].id # "hook" /\ ~Spent(u[i]) /\ (Owes(u[i]) => i = 1 /\ k = "reinit")
  BY <1>3, <1>6, <1>7, <1>9
<1>15. HooksDoNotStack'
  <2>1. \A i \in 1 .. Len(u) : HookKept(frames[c], u, i)
    BY <1>14, Zenon DEF HookKept
  <2> QED
    BY <1>9, <1>11, <2>1, HooksStep, Zenon
<1>16. ASSUME NEW d \in CPUs, NEW i \in Nat, Owing(d, i)'
       PROVE  (d = c /\ i = 1 /\ k = "reinit") \/ (d # c /\ Owing(d, i))
  BY <1>11, <1>14, <1>16, Zenon DEF Owing
<1>17. ASSUME NEW d \in CPUs, NEW i \in Nat, Queued(d, i)'
       PROVE  (d = c /\ Queued(c, i + 1)) \/ (d # c /\ Queued(d, i))
  <2>1. CASE d = c
    <3>1. i \in 1 .. Len(Tail(q)) /\ Tail(q)[i] = "reinit"
      BY <1>12, <1>17, <2>1, Zenon DEF Queued
    <3>2. i + 1 \in 1 .. Len(q) /\ q[i + 1] = "reinit"
      BY ONLY <1>2, <3>1
    <3> QED
      BY <2>1, <3>2, Zenon DEF Queued
  <2>2. CASE d # c
    BY <1>12, <1>17, <2>2, Zenon DEF Queued
  <2> QED
    BY <2>1, <2>2, Zenon
<1>18. k = "reinit" => Queued(c, 1)
  BY <1>2 DEF Queued
<1>19. OneReserve'
  <2>1. OneReserve
    BY Zenon DEF IInv
  <2>2. ASSUME rescue', NEW d \in CPUs, NEW i \in Nat PROVE ~Queued(d, i)' /\ ~Owing(d, i)'
    <3>1. \A g \in CPUs, j \in Nat : ~Queued(g, j) /\ ~Owing(g, j)
      BY <1>1, <2>1, <2>2, Zenon DEF OneReserve
    <3>2. i + 1 \in Nat /\ 1 \in Nat
      OBVIOUS
    <3> QED
      BY <1>16, <1>17, <1>18, <3>1, <3>2, Zenon
  <2>3. ASSUME NEW d \in CPUs, NEW g \in CPUs, NEW i \in Nat, NEW j \in Nat, Queued(d, i)' PROVE ~Owing(g, j)'
    <3>1. \E x \in Nat : Queued(d, x) /\ x # 0 /\ (d = c => x # 1)
      BY <1>17, <2>3, SMTT(30) DEF Queued
    <3>2. k # "reinit"
      BY <1>18, <2>1, <3>1, Zenon DEF OneReserve
    <3> QED
      BY <1>16, <2>1, <3>1, <3>2, Zenon DEF OneReserve
  <2>4. ASSUME NEW d \in CPUs, NEW g \in CPUs, NEW i \in Nat, NEW j \in Nat, Queued(d, i)', Queued(g, j)'
        PROVE  d = g /\ i = j
    BY <1>17, <2>1, <2>4 DEF OneReserve
  <2>5. ASSUME NEW d \in CPUs, NEW g \in CPUs, NEW i \in Nat, NEW j \in Nat, Owing(d, i)', Owing(g, j)'
        PROVE  d = g /\ i = j
    BY <1>16, <1>18, <2>1, <2>5 DEF OneReserve
  <2> QED
    BY <2>2, <2>3, <2>4, <2>5 DEF OneReserve
<1>20. SpawnedIsQueued'
  <2> SUFFICES ASSUME NEW d \in CPUs, NEW i \in Nat, i \in 1 .. Len(frames'[d]), Spent(frames'[d][i])
               PROVE  \E j \in Nat : Queued(d, j)'
    BY DEF SpawnedIsQueued
  <2>1. d # c
    BY <1>11, <1>14, Zenon
  <2>2. \E j \in Nat : Queued(d, j)
    BY <1>11, <2>1, Zenon DEF IInv, SpawnedIsQueued
  <2> QED
    BY <1>12, <2>1, <2>2, Zenon DEF Queued
<1> QED
  BY <1>11, <1>13, <1>15, <1>19, <1>20 DEF IInv
-----------------------------------------------------------------------------
(* The other steps *)

\* The parts of an operation that locks.
LEMMA Locked ==
  ASSUME IInv, NEW c \in CPUs, NEW p, At(c, p)
  PROVE  /\ frames[c] # <<>> /\ frames[c] \in Seq(Frame) /\ Len(frames[c]) \in Nat /\ Len(frames[c]) > 0
         /\ Top(c) = frames[c][Len(frames[c])] /\ Top(c).at = p
         /\ Sort(Top(c)) /\ Place(frames[c], Len(frames[c]))
         /\ Top(c) \in Frame
  BY TopFrames, Zenon DEF At, Fits

\* A frame at another place in the code.
LEMMA MovedFrame ==
  ASSUME NEW f \in Frame, NEW p \in Places
  PROVE  /\ [f EXCEPT !.at = p] \in Frame
         /\ [f EXCEPT !.at = p].at = p /\ [f EXCEPT !.at = p].id = f.id /\ [f EXCEPT !.at = p].n = f.n
  BY Zenon DEF Frame

\* An operation that is entered.
LEMMA EnterFrame ==
  ASSUME NEW o \in Operations \cup {"box"}
  PROVE  /\ Enter(o) \in Frame /\ Enter(o).id = o /\ Sort(Enter(o))
         /\ Enter(o).at = IF o = "box" THEN "alloc" ELSE "lock"
<1>1. Enter(o).id = o /\ Enter(o).at = IF o = "box" THEN "alloc" ELSE "lock"
  BY Zenon DEF Enter
<1>2. Enter(o) \in Frame
  BY Zenon DEF Enter, Frame, Places
<1> QED
  BY <1>1, <1>2, Zenon DEF Sort

\* A frame at the bottom of a stack.
LEMMA FitsFirst ==
  ASSUME NEW u \in Seq(Frame), Sort(u[1]), u[1].at \notin {"run", "fail"}, u[1].id \notin {"store", "palloc"}
  PROVE  Fits(u, 1)
<1>1. Place(u, 1)
  BY Zenon DEF Place
<1>2. ~(1 > 1)
  OBVIOUS
<1> QED
  BY ONLY Sort(u[1]), <1>1, <1>2, Zenon DEF Fits

\* The stack of the no-interruptions guards grows on top of the operation or hook.
LEMMA GrowStackStep ==
  ASSUME IInv, NEW c \in CPUs, GrowStack(c)
  PROVE  IInv'
<1> DEFINE t == Top(c)
           f == [t EXCEPT !.at = t.at]
           g == Enter("ni")
<1>1. PICK p \in {"take", "lock"} : At(c, p) /\ (p = "lock" => Guarded(t.id))
  BY Zenon DEF GrowStack, Disables
<1>2. /\ frames[c] # <<>> /\ t = frames[c][Len(frames[c])] /\ t.at = p /\ Sort(t) /\ t \in Frame
  BY <1>1, Locked, Zenon
<1>3. f = t
  BY <1>2, Zenon DEF Frame
<1>4. g \in Frame /\ g.id = "ni" /\ g.at = "lock" /\ Sort(g)
  BY EnterFrame, Names, Zenon
<1>5. Becomes(c, Below(c) \o <<f, g>>) /\ UNCHANGED <<rescue, queue>>
  BY Zenon DEF GrowStack, Call, Replace, Becomes, tasks
<1> HIDE DEF f, g
<1>6. Moved(frames[c], Len(frames[c]), t)
  BY <1>1, <1>2, Zenon DEF Moved
<1>7. Calls(t, g)
  BY <1>1, <1>2, <1>4, Names, Zenon DEF Calls, Guarded, Sort
<1> QED
  BY <1>2, <1>3, <1>4, <1>5, <1>6, <1>7, CallStep, Zenon

\* lock(): the operation has its lock, and may allocate.
LEMMA LockStep ==
  ASSUME IInv, NEW c \in CPUs, Lock(c)
  PROVE  IInv'
<1> DEFINE t == Top(c)
           f == [t EXCEPT !.at = "held"]
           g == Enter("box")
<1>1. /\ frames[c] # <<>> /\ t = frames[c][Len(frames[c])] /\ t.at = "lock" /\ Sort(t) /\ t \in Frame
  BY Locked, Zenon DEF Lock
<1>2. f \in Frame /\ f.at = "held" /\ f.id = t.id /\ f.n = t.n
  BY <1>1, MovedFrame, Zenon DEF Places
<1>3. g \in Frame /\ g.id = "box" /\ g.at = "alloc" /\ Sort(g)
  BY EnterFrame, Zenon
<1>4. UNCHANGED <<rescue, queue>>
  BY Zenon DEF Lock, tasks
<1>5. \/ Becomes(c, Below(c) \o <<f>>)
      \/ t.id \notin {"store", "grow"} /\ Becomes(c, Below(c) \o <<f, g>>)
  BY Zenon DEF Lock, Call, Replace, Becomes
<1> HIDE DEF t, f, g
<1>6. Sort(f) /\ ~Owes(f) /\ ~Spent(f)
  BY <1>1, <1>2, Zenon DEF Sort, Owes, Spent
<1>7. Moved(frames[c], Len(frames[c]), f)
  BY <1>1, <1>2, <1>6, Zenon DEF Moved
<1>8. CASE Becomes(c, Below(c) \o <<f>>)
  BY <1>1, <1>2, <1>4, <1>7, <1>8, MoveStep, Zenon
<1>9. CASE t.id \notin {"store", "grow"} /\ Becomes(c, Below(c) \o <<f, g>>)
  <2>1. Calls(f, g)
    BY <1>2, <1>3, <1>9, Zenon DEF Calls
  <2> QED
    BY <1>1, <1>2, <1>3, <1>4, <1>7, <1>9, <2>1, CallStep, Zenon
<1> QED
  BY <1>5, <1>8, <1>9, Zenon

\* alloc: the operation is done, or the hook is entered.
LEMMA AllocStep ==
  ASSUME IInv, NEW c \in CPUs, alloc(c)
  PROVE  IInv'
<1> DEFINE t == Top(c)
           f == [t EXCEPT !.at = "retry"]
<1>1. /\ frames[c] # <<>> /\ t = frames[c][Len(frames[c])] /\ t.at = "alloc" /\ Sort(t) /\ t \in Frame
  BY Locked, Zenon DEF alloc
<1>2. t.id = "box"
  BY <1>1, Zenon DEF Sort
<1>3. UNCHANGED <<rescue, queue>>
  BY Zenon DEF alloc, tasks
<1>4. CASE Done(c)
  BY <1>1, <1>2, <1>3, <1>4, DoneStep, Zenon
<1>5. CASE Call(c, "retry", Hook)
  <2>1. f \in Frame /\ f.at = "retry" /\ f.id = "box" /\ f.n = t.n
    BY <1>1, <1>2, MovedFrame, Zenon DEF Places
  <2>2. Hook \in Frame /\ Hook.id = "hook" /\ Hook.at = "take"
    BY Names, Zenon DEF Hook, Frame, Places
  <2>3. Becomes(c, Below(c) \o <<f, Hook>>)
    BY <1>5, Zenon DEF Call, Replace, Becomes
  <2> HIDE DEF t, f
  <2>4. Moved(frames[c], Len(frames[c]), f)
    BY <1>1, <1>2, <2>1, Zenon DEF Moved, Sort, Owes, Spent
  <2>5. Sort(Hook) /\ Calls(f, Hook)
    BY <2>1, <2>2, Zenon DEF Sort, Calls
  <2> QED
    BY <1>1, <1>3, <2>1, <2>2, <2>3, <2>4, <2>5, CallStep, Zenon
<1> QED
  BY <1>4, <1>5, Zenon DEF alloc

\* unlock() of an operation that does not end a step of a routine.
LEMMA UnlockStep ==
  ASSUME IInv, NEW c \in CPUs, Unlock(c)
  PROVE  IInv'
<1>1. /\ frames[c] # <<>> /\ frames[c] \in Seq(Frame) /\ Top(c).at = "unlock" /\ Sort(Top(c))
      /\ Place(frames[c], Len(frames[c])) /\ Top(c) = frames[c][Len(frames[c])]
  BY Locked, Zenon DEF Unlock
<1>2. ~InRoutine(c)
  <2> SUFFICES ASSUME InRoutine(c) PROVE FALSE
    BY Zenon
  <2>1. Len(frames[c]) > 1 /\ Caller(c).at = "run"
    BY Zenon DEF InRoutine, Caller
  <2>2. Calls(Caller(c), Top(c))
    BY <1>1, <2>1, TopFrames, Zenon
  <2>3. Top(c).id = "palloc"
    <3>1. Len(frames[c]) # 1
      BY ONLY <1>1, <2>1
    <3> QED
      BY ONLY <1>1, <3>1, Zenon DEF Sort, Place
  <2> QED
    BY <1>1, <2>1, <2>2, <2>3, Zenon DEF Calls
<1>3. Becomes(c, Below(c) \o <<>>) /\ UNCHANGED <<rescue, queue>>
  BY Zenon DEF Unlock, Return, Replace, Becomes, tasks
<1> QED
  BY <1>1, <1>2, <1>3, PopStep, Zenon

\* palloc refuses: its message is logged with the allocator locked.
LEMMA RefusalStep ==
  ASSUME IInv, NEW c \in CPUs, InBody(c, "palloc"), UNCHANGED <<rescue, queue>>,
         Becomes(c, BelowCaller(c)
           \o <<[Caller(c) EXCEPT !.at = "fail"], [Top(c) EXCEPT !.at = "unlock"], Enter("log")>>)
  PROVE  IInv'
<1> DEFINE s == frames[c]
           n == Len(s)
           k == n - 2
           f == [Caller(c) EXCEPT !.at = "fail"]
           t == [Top(c) EXCEPT !.at = "unlock"]
           e == Enter("log")
           u == BelowCaller(c) \o <<f, t, e>>
<1>1. /\ s # <<>> /\ s \in Seq(Frame) /\ n \in Nat /\ n > 0 /\ Top(c) \in Frame /\ Place(s, n)
      /\ Top(c).id = "palloc" /\ Top(c).at = "held" /\ Top(c) = s[n]
  BY Locked, Zenon DEF InBody, At
<1>2. n > 1
  BY <1>1, Zenon DEF Place
<1>3. /\ Caller(c) = s[n - 1] /\ Caller(c) \in Frame /\ Calls(Caller(c), Top(c)) /\ Fits(s, n - 1)
      /\ Stack(s)
  BY <1>1, <1>2, TopFrames, Zenon
<1>4. Caller(c).at = "run"
  BY <1>1, <1>3, Zenon DEF Calls
<1>5. f \in Frame /\ f.at = "fail" /\ f.id = Caller(c).id /\ f.n = Caller(c).n
  BY <1>3, MovedFrame, Zenon DEF Places
<1>6. t \in Frame /\ t.at = "unlock" /\ t.id = "palloc"
  BY <1>1, MovedFrame, Zenon DEF Places
<1>7. e \in Frame /\ e.at = "lock" /\ e.id = "log" /\ Sort(e)
  BY EnterFrame, Names, Zenon
<1>8. k \in Nat /\ k <= Len(s) /\ k + 1 = n - 1 /\ k + 2 = n /\ n = Len(s)
  BY <1>1, <1>2
<1>9. u = OnTop(s, k, <<f, t, e>>)
  BY Zenon DEF BelowCaller, OnTop
<1>10. Becomes(c, u)
  BY Zenon
<1> HIDE DEF s, n, k, f, t, e, u
<1>11. /\ u \in Seq(Frame) /\ Len(u) = k + 3 /\ u[k + 1] = f /\ u[k + 2] = t /\ u[k + 3] = e
       /\ \A i \in 1 .. k : u[i] = s[i]
  <2>1. s \in Seq(Frame) /\ k \in Nat /\ k <= Len(s) /\ f \in Frame /\ t \in Frame /\ e \in Frame
    BY <1>1, <1>5, <1>6, <1>7, <1>8, Zenon
  <2> QED
    BY ONLY <1>9, <2>1, Rewritten3
<1>12. s[k + 1].at = "run" /\ s[k + 1].id = f.id /\ s[k + 1].n = f.n /\ s[k + 1].id \in Routines
       /\ Place(s, k + 1) /\ (k > 0 => Calls(s[k], s[k + 1]))
  <2>1. Sort(s[k + 1]) /\ Place(s, k + 1) /\ (k + 1 > 1 => Calls(s[(k + 1) - 1], s[k + 1]))
    BY <1>3, <1>8, Zenon DEF Fits
  <2>2. k > 0 => Calls(s[k], s[k + 1])
    BY <1>8, <2>1
  <2>3. s[k + 1] = Caller(c)
    BY <1>3, <1>8, Zenon
  <2> QED
    BY <1>4, <1>5, <2>1, <2>2, <2>3, Zenon DEF Sort
<1>13. Fits(u, k + 1) /\ Tame(s, u, k + 1)
  <2>1. Sort(f) /\ f.id \notin Operations
    BY <1>5, <1>12, Names, Zenon DEF Sort
  <2>2. Place(u, k + 1)
    BY <1>5, <1>11, <1>12, <2>1, Names, Zenon DEF Place
  <2>3. k > 0 => Calls(s[k], f)
    BY <1>5, <1>12, <2>1, Names, Zenon DEF Calls
  <2>4. k + 1 > 1 => Calls(u[(k + 1) - 1], u[k + 1])
    <3>1. k + 1 > 1 => k > 0 /\ k \in 1 .. k /\ (k + 1) - 1 = k
      BY ONLY <1>8
    <3> QED
      BY ONLY <1>11, <2>3, <3>1, Zenon
  <2>5. Owes(f) => Owes(s[k + 1])
    BY <1>5, <1>12, Zenon DEF Owes
  <2>6. Spent(f) => Spent(s[k + 1])
    BY <1>5, <1>12, Zenon DEF Spent
  <2>7. k + 1 <= Len(s)
    BY <1>1, <1>8
  <2>8. Tame(s, u, k + 1)
    BY ONLY <1>11, <1>12, <2>5, <2>6, <2>7, Zenon DEF Tame, HookKept
  <2> QED
    BY ONLY <1>11, <2>1, <2>2, <2>4, <2>8, Zenon DEF Fits
<1>14. Fits(u, k + 2) /\ Tame(s, u, k + 2)
  <2>1. Sort(t)
    BY <1>6, Names, Zenon DEF Sort
  <2>2. Place(u, k + 2)
    <3>1. k + 2 > 1
      BY <1>8
    <3> QED
      BY ONLY <1>6, <1>11, <3>1, Zenon DEF Place
  <2>3. Calls(f, t) /\ (k + 2) - 1 = k + 1
    BY <1>5, <1>6, <1>8, <1>12, Names, Zenon DEF Calls
  <2>4. Tame(s, u, k + 2)
    BY <1>6, <1>11, Zenon DEF Tame, HookKept, Owes, Spent
  <2> QED
    BY ONLY <1>11, <2>1, <2>2, <2>3, <2>4, Zenon DEF Fits
<1>15. Fits(u, k + 3) /\ Tame(s, u, k + 3)
  <2>1. (k + 3) - 1 = k + 2 /\ (k + 3) - 2 = k + 1 /\ k + 3 > 2
    BY <1>8
  <2>2. Place(u, k + 3)
    BY <1>5, <1>7, <1>11, <2>1, Zenon DEF Place
  <2>3. Calls(t, e)
    BY <1>6, <1>7, Zenon DEF Calls
  <2>4. Tame(s, u, k + 3)
    BY <1>7, <1>11, Zenon DEF Tame, HookKept, Owes, Spent
  <2> QED
    BY ONLY <1>7, <1>11, <2>1, <2>2, <2>3, <2>4, Zenon DEF Fits
<1>16. k <= Len(u) /\ k < Len(u) /\ \A i \in k + 1 .. Len(u) : Fits(u, i) /\ Tame(s, u, i)
  <2>1. k <= Len(u) /\ k < Len(u) /\ \A i \in k + 1 .. Len(u) : i = k + 1 \/ i = k + 2 \/ i = k + 3
    BY ONLY <1>8, <1>11
  <2> QED
    BY ONLY <1>13, <1>14, <1>15, <2>1, Zenon
<1> QED
  BY ONLY IInv, c \in CPUs, UNCHANGED <<rescue, queue>>, <1>8, <1>10, <1>11, <1>16, TopStep, Zenon DEF s

\* Virtual memory is refused: the routine fails, and what it allocated is freed.
LEMMA MapRefusalStep ==
  ASSUME IInv, NEW c \in CPUs, MapRefused(c)
  PROVE  IInv'
<1> DEFINE s == frames[c]
           n == Len(s)
           k == n - 2
           r == Caller(c)
           f == [r EXCEPT !.at = "fail", !.n = @ - 1]
           g == [Enter("pfree") EXCEPT !.n = Size[r.id]]
           u == BelowCaller(c) \o <<f, g>>
<1>1. /\ InBody(c, "map") /\ InRoutine(c) /\ UNCHANGED <<rescue, queue>> /\ Becomes(c, u)
  BY Zenon DEF MapRefused, Becomes, tasks
<1>2. /\ s # <<>> /\ s \in Seq(Frame) /\ n \in Nat /\ n > 0 /\ Top(c).id = "map"
  BY <1>1, Locked, Zenon DEF InBody, At
<1>3. n > 1 /\ r.at = "run"
  BY <1>1, Zenon DEF InRoutine, Caller
<1>4. /\ r = s[n - 1] /\ r \in Frame /\ Calls(r, Top(c)) /\ Fits(s, n - 1)
  BY <1>2, <1>3, TopFrames, Zenon
<1>5. r.id \in Routines /\ r.n \in 1 .. Len(Program[r.id]) /\ OperationFits(r.id, r.n, "map")
  <2>1. r.id \in Routines
    BY <1>3, <1>4, Zenon DEF Fits, Sort
  <2>2. r.n \in 1 .. Len(Program[r.id]) /\ Program[r.id][r.n] = "map"
    BY <1>2, <1>3, <1>4, Zenon DEF Calls
  <2> QED
    BY <2>1, <2>2, ProgramFits, Zenon
<1>6. \/ r.id = "hook" /\ r.n \in {4, 8, 12}
      \/ r.id \in {"reinit", "expand"}
  BY <1>5, Zenon DEF OperationFits
<1>7. r.n \in Nat /\ r.n - 1 \in Nat
  BY <1>4, <1>5 DEF Frame
<1>8. f \in Frame /\ f.at = "fail" /\ f.id = r.id /\ f.n = r.n - 1
  BY <1>4, <1>7, Zenon DEF Frame, Places
<1>9. Size[r.id] \in Nat
  BY <1>6, KernelHeapAssumption DEF Size
<1>10. g \in Frame /\ g.at = "lock" /\ g.id = "pfree"
  BY <1>9, Names DEF Enter, Frame, Places
<1>11. k \in Nat /\ k <= Len(s) /\ k + 1 = n - 1 /\ k + 2 = n
  BY <1>2, <1>3
<1>12. u = OnTop(s, k, <<f, g>>)
  BY Zenon DEF BelowCaller, OnTop
<1> HIDE DEF s, n, k, r, f, g, u
<1>13. /\ u \in Seq(Frame) /\ Len(u) = k + 2 /\ u[k + 1] = f /\ u[k + 2] = g
       /\ \A i \in 1 .. k : u[i] = s[i]
  <2>1. s \in Seq(Frame) /\ k \in Nat /\ k <= Len(s) /\ f \in Frame /\ g \in Frame
    BY <1>2, <1>8, <1>10, <1>11, Zenon
  <2> QED
    BY ONLY <1>12, <2>1, Rewritten2
<1>14. s[k + 1] = r /\ Sort(r) /\ Place(s, k + 1) /\ (k > 0 => Calls(s[k], r))
  <2>1. s[k + 1] = r /\ Sort(s[k + 1]) /\ Place(s, k + 1) /\ (k + 1 > 1 => Calls(s[(k + 1) - 1], s[k + 1]))
    BY <1>4, <1>11, Zenon DEF Fits
  <2> QED
    BY <1>11, <2>1
<1>15. Fits(u, k + 1) /\ Tame(s, u, k + 1)
  <2>1. Sort(f) /\ f.id \notin Operations
    BY <1>5, <1>8, Names, Zenon DEF Sort
  <2>2. Place(u, k + 1)
    BY <1>3, <1>8, <1>13, <1>14, <2>1, Names, Zenon DEF Place
  <2>3. k > 0 => Calls(s[k], f)
    BY <1>3, <1>8, <1>14, <2>1, Names, Zenon DEF Calls
  <2>4. k + 1 > 1 => Calls(u[(k + 1) - 1], u[k + 1])
    <3>1. k + 1 > 1 => k > 0 /\ k \in 1 .. k /\ (k + 1) - 1 = k
      BY ONLY <1>11
    <3> QED
      BY ONLY <1>13, <2>3, <3>1, Zenon
  <2>5. (Owes(f) => Owes(r)) /\ (Spent(f) => Spent(r))
    <3>1. r.id = "hook" => (f.n <= 9 => r.n <= 9) /\ (f.n > 9 => r.n > 9)
      BY <1>6, <1>7, <1>8
    <3> QED
      BY <1>3, <1>8, <3>1, Zenon DEF Owes, Spent
  <2>6. k + 1 <= Len(s)
    BY <1>11 DEF n
  <2>7. Tame(s, u, k + 1)
    BY <1>3, <1>8, <1>13, <1>14, <2>5, <2>6, Zenon DEF Tame, HookKept
  <2> QED
    BY ONLY <1>13, <2>1, <2>2, <2>4, <2>7, Zenon DEF Fits
<1>16. Fits(u, k + 2) /\ Tame(s, u, k + 2)
  <2>1. Sort(g) /\ Place(u, k + 2)
    BY <1>10, <1>13, Names, Zenon DEF Sort, Place
  <2>2. Calls(f, g) /\ (k + 2) - 1 = k + 1
    BY <1>5, <1>8, <1>10, <1>11, Names, Zenon DEF Calls
  <2>3. Tame(s, u, k + 2)
    BY <1>10, <1>13, Zenon DEF Tame, HookKept, Owes, Spent
  <2> QED
    BY ONLY <1>13, <2>1, <2>2, <2>3, Zenon DEF Fits
<1>17. k <= Len(u) /\ k < Len(u) /\ \A i \in k + 1 .. Len(u) : Fits(u, i) /\ Tame(s, u, i)
  <2>1. k <= Len(u) /\ k < Len(u) /\ \A i \in k + 1 .. Len(u) : i = k + 1 \/ i = k + 2
    BY ONLY <1>11, <1>13
  <2> QED
    BY ONLY <1>15, <1>16, <2>1, Zenon
<1> QED
  BY ONLY IInv, c \in CPUs, <1>1, <1>11, <1>13, <1>17, TopStep, Zenon DEF s

\* palloc: the operation is done, or refused.
LEMMA PallocStep ==
  ASSUME IInv, NEW c \in CPUs, palloc(c)
  PROVE  IInv'
<1>1. InBody(c, "palloc") /\ frames[c] # <<>> /\ Top(c).id = "palloc" /\ UNCHANGED <<rescue, queue>>
  BY Zenon DEF palloc, InBody, At, tasks
<1>2. CASE Done(c)
  BY <1>1, <1>2, DoneStep, Zenon
<1>3. CASE Becomes(c, BelowCaller(c)
             \o <<[Caller(c) EXCEPT !.at = "fail"], [Top(c) EXCEPT !.at = "unlock"], Enter("log")>>)
  BY <1>1, <1>3, RefusalStep, Zenon
<1> QED
  BY <1>2, <1>3, Zenon DEF palloc, Becomes

\* The stack of c becomes one of which nothing is kept.
LEMMA FreshStep ==
  ASSUME IInv, NEW c \in CPUs, NEW u \in Seq(Frame), Becomes(c, u), UNCHANGED <<rescue, queue>>,
         \A i \in 1 .. Len(u) : Fits(u, i) /\ u[i].id # "hook" /\ ~Owes(u[i])
  PROVE  IInv'
<1>1. Stack(u)
  BY Zenon DEF Stack
<1>2. \A i \in 1 .. Len(u) : Tame(frames[c], u, i)
  BY Zenon DEF Tame, HookKept, Spent
<1> QED
  BY <1>1, <1>2, TameStep, Zenon

\* An operation of other code begins.
LEMMA BeginStep ==
  ASSUME IInv, NEW c \in CPUs, NEW o \in OtherCode[c], Begin(c, o)
  PROVE  IInv'
<1> DEFINE e == Enter(o)
           u == <<e>>
<1>1. o \in {"box", "log", "pfree", "map", "push"} /\ o \in Operations \cup {"box"}
  BY KernelHeapAssumption, Names, Zenon
<1>2. e \in Frame /\ e.id = o /\ Sort(e) /\ e.at \in {"alloc", "lock"}
  BY <1>1, EnterFrame, Zenon
<1>3. Becomes(c, u) /\ UNCHANGED <<rescue, queue>>
  BY Zenon DEF Begin, Becomes, tasks
<1> HIDE DEF e
<1>4. u \in Seq(Frame) /\ Len(u) = 1 /\ u[1] = e
  BY ONLY <1>2
<1> HIDE DEF u
<1>5. Fits(u, 1) /\ e.id # "hook" /\ ~Owes(e)
  <2>1. e.id # "hook" /\ ~Owes(e)
    BY <1>1, <1>2, Zenon DEF Owes
  <2> QED
    BY <1>1, <1>2, <1>4, <2>1, FitsFirst, Zenon
<1>6. \A i \in 1 .. Len(u) : Fits(u, i) /\ u[i].id # "hook" /\ ~Owes(u[i])
  BY ONLY <1>4, <1>5
<1> QED
  BY <1>3, <1>4, <1>6, FreshStep, Zenon

\* schedule(Terminate): nothing is left of the stack but the drop of a task.
LEMMA TerminateStep ==
  ASSUME IInv, NEW c \in CPUs, Terminate(c)
  PROVE  IInv'
<1> DEFINE x == [Top(c) EXCEPT !.at = "unlock"]
<1>1. Top(c) \in Frame /\ Top(c).id = "exit" /\ UNCHANGED <<rescue, queue>>
  BY Locked, Zenon DEF Terminate, InBody
<1>2. x \in Frame /\ x.at = "unlock" /\ x.id = "exit"
  BY <1>1, MovedFrame, Zenon DEF Places
<1>3. \/ Becomes(c, <<x>> \o <<>>)
      \/ \E k : Becomes(c, <<x>> \o DropTask(k))
  BY Zenon DEF Terminate, Becomes
<1> HIDE DEF x
<1>4. Sort(x) /\ ~Owes(x)
  BY <1>2, Names, Zenon DEF Sort, Owes
<1>5. CASE Becomes(c, <<x>> \o <<>>)
  <2> DEFINE u == <<x>>
  <2>1. u \in Seq(Frame) /\ Len(u) = 1 /\ u[1] = x
    BY ONLY <1>2
  <2>2. u \o <<>> = u
    BY <2>1, ConcatEmptySeq, Zenon
  <2>3. Becomes(c, u)
    BY <1>5, <2>2, Zenon
  <2> HIDE DEF u
  <2>4. Fits(u, 1)
    BY <1>2, <1>4, <2>1, FitsFirst, Zenon
  <2>5. \A i \in 1 .. Len(u) : Fits(u, i) /\ u[i].id # "hook" /\ ~Owes(u[i])
    BY ONLY <1>2, <1>4, <2>1, <2>4
  <2> QED
    BY <1>1, <2>1, <2>3, <2>5, FreshStep, Zenon
<1>6. ASSUME NEW k, Becomes(c, <<x>> \o DropTask(k)) PROVE IInv'
  <2>1. PICK y \in Frame, z \in Frame :
          /\ DropTask(k) = <<y, z>> /\ y.at = "lock" /\ z.at = "lock"
          /\ (y.id = "grow" /\ z.id = "log") \/ (y.id = "pfree" /\ z.id = "map")
    <3>1. CASE k = "boot"
      <4> DEFINE y == [Enter("grow") EXCEPT !.n = BOOT_STACK]
                 z == Enter("log")
      <4>1. y \in Frame /\ y.at = "lock" /\ y.id = "grow"
        BY KernelHeapAssumption, Names, Zenon DEF Enter, Frame, Places
      <4>2. z \in Frame /\ z.at = "lock" /\ z.id = "log"
        BY EnterFrame, Names, Zenon
      <4>3. DropTask(k) = <<y, z>>
        BY <3>1, Zenon DEF DropTask
      <4> HIDE DEF y, z
      <4> QED
        BY <4>1, <4>2, <4>3, Zenon
    <3>2. CASE k # "boot"
      <4> DEFINE y == [Enter("pfree") EXCEPT !.n = 1]
                 z == Enter("map")
      <4>1. y \in Frame /\ y.at = "lock" /\ y.id = "pfree"
        BY Names, Zenon DEF Enter, Frame, Places
      <4>2. z \in Frame /\ z.at = "lock" /\ z.id = "map"
        BY EnterFrame, Names, Zenon
      <4>3. DropTask(k) = <<y, z>>
        BY <3>2, Zenon DEF DropTask
      <4> HIDE DEF y, z
      <4> QED
        BY <4>1, <4>2, <4>3, Zenon
    <3> QED
      BY <3>1, <3>2, Zenon
  <2> DEFINE p == <<x>>
             u == p \o <<y, z>>
  <2>2. p \in Seq(Frame) /\ Len(p) = 1 /\ p[1] = x
    BY ONLY <1>2
  <2>3. Becomes(c, u)
    BY <1>6, <2>1, Zenon
  <2>4. u = p \o <<y, z>>
    BY Zenon
  <2> HIDE DEF p, u
  <2>5. /\ u \in Seq(Frame) /\ Len(u) = Len(p) + 2 /\ u[Len(p) + 1] = y /\ u[Len(p) + 2] = z
        /\ \A i \in 1 .. Len(p) : u[i] = p[i]
    <3>1. p \in Seq(Frame) /\ u = p \o <<y, z>>
      BY <2>2, <2>4, Zenon
    <3> QED
      BY ONLY <3>1, y \in Frame, z \in Frame
  <2>6. u \in Seq(Frame) /\ Len(u) = 3 /\ u[1] = x /\ u[2] = y /\ u[3] = z
    BY ONLY <2>2, <2>5
  <2>7. Fits(u, 1)
    BY <1>2, <1>4, <2>6, FitsFirst, Zenon
  <2>8. Fits(u, 2)
    <3>1. Sort(y) /\ Calls(x, y)
      BY <1>2, <2>1, Names, Zenon DEF Sort, Calls
    <3>2. Place(u, 2)
      BY <2>1, <2>6, Zenon DEF Place
    <3>3. 2 - 1 = 1
      OBVIOUS
    <3> QED
      BY ONLY <2>6, <3>1, <3>2, <3>3, Zenon DEF Fits
  <2>9. Fits(u, 3)
    <3>1. Sort(z) /\ Calls(y, z)
      BY <2>1, Names, Zenon DEF Sort, Calls
    <3>2. Place(u, 3)
      BY <1>2, <2>1, <2>6, Zenon DEF Place
    <3>3. 3 - 1 = 2
      OBVIOUS
    <3> QED
      BY ONLY <2>6, <3>1, <3>2, <3>3, Zenon DEF Fits
  <2>10. x.id # "hook" /\ y.id # "hook" /\ z.id # "hook" /\ ~Owes(x) /\ ~Owes(y) /\ ~Owes(z)
    BY <1>2, <2>1, Zenon DEF Owes
  <2>11. \A i \in 1 .. Len(u) : Fits(u, i) /\ u[i].id # "hook" /\ ~Owes(u[i])
    <3>1. \A i \in 1 .. Len(u) : i = 1 \/ i = 2 \/ i = 3
      BY ONLY <2>6
    <3> QED
      BY ONLY <2>6, <2>7, <2>8, <2>9, <2>10, <3>1, Zenon
  <2> QED
    BY <1>1, <2>3, <2>6, <2>11, FreshStep, Zenon
<1> QED
  BY <1>3, <1>5, <1>6, Zenon

\* A task whose allocation was refused logs it, and ends.
LEMMA RefusedStep ==
  ASSUME IInv, NEW c \in CPUs, At(c, "fail"), Top(c).id # "hook", Replace(c, Routine("notify", 1)),
         UNCHANGED <<rescue, queue>>
  PROVE  IInv'
<1> DEFINE s == frames[c]
           r == Runs("notify", 1)
           e == Enter(Program["notify"][1])
           u == Below(c) \o <<r, e>>
<1>1. s \in Seq(Frame) /\ Len(s) = 1
  BY Locked, Zenon DEF Place
<1>2. "notify" \in Routines /\ 1 \in 1 .. Len(Program["notify"]) /\ ~(1 > Len(Program["notify"]))
  BY Names DEF Program
<1>3. Routine("notify", 1) = <<r, e>>
  BY <1>2, Zenon DEF Routine, Runs
<1>4. r \in Frame /\ e \in Frame /\ e.id # "hook" /\ ~Owes(e)
  BY <1>2, Entered, Zenon
<1>5. r.id # "hook" /\ ~Owes(r) /\ r = Runs("notify", 1) /\ e = Enter(Program["notify"][1])
  BY Zenon DEF Runs, Owes
<1>6. Becomes(c, u)
  BY <1>3, Zenon DEF Replace, Becomes
<1>7. u = OnTop(s, 0, <<r, e>>)
  BY <1>1 DEF Below, OnTop
<1> HIDE DEF s, r, e, u
<1>8. u \in Seq(Frame) /\ Len(u) = 2 /\ u[1] = r /\ u[2] = e
  <2>1. s \in Seq(Frame) /\ 0 \in Nat /\ 0 <= Len(s) /\ r \in Frame /\ e \in Frame
    BY <1>1, <1>4
  <2>2. u \in Seq(Frame) /\ Len(u) = 0 + 2 /\ u[0 + 1] = r /\ u[0 + 2] = e
    BY ONLY <1>7, <2>1, Rewritten2
  <2> QED
    BY ONLY <2>2
<1>9. Fits(u, 1) /\ Fits(u, 2)
  <2>1. Len(u) = 1 + 1 /\ u[1 + 1] = e /\ ~(1 > 1) /\ 1 \in Nat /\ 1 > 0
    BY ONLY <1>8
  <2>2. Fits(u, 1) /\ Fits(u, 1 + 1)
    BY ONLY <1>2, <1>5, <1>8, <2>1, RunsFits, Zenon
  <2> QED
    BY <2>2
<1>10. \A i \in 1 .. Len(u) : Fits(u, i) /\ u[i].id # "hook" /\ ~Owes(u[i])
  <2>1. \A i \in 1 .. Len(u) : i = 1 \/ i = 2
    BY ONLY <1>8
  <2> QED
    BY ONLY <1>4, <1>5, <1>8, <1>9, <2>1, Zenon
<1> QED
  BY <1>6, <1>8, <1>10, FreshStep, Zenon
-----------------------------------------------------------------------------
(* The invariant, and the theorems *)

\* At first there is one _reinit_rescue, queued, and no frame.
LEMMA InitIInv ==
  ASSUME Init
  PROVE  IInv
<1>1. /\ rescue = FALSE
      /\ queue = [c \in CPUs |-> IF c = BSP THEN <<"reinit", "boot">> ELSE <<>>]
      /\ frames = [c \in CPUs |-> <<>>]
  BY Zenon DEF Init
<1>2. <<"reinit", "boot">> \in Seq(Tasks)
  BY Names DEF Tasks
<1>3. \A c \in CPUs : queue[c] \in Seq(Tasks)
  BY <1>1, <1>2
<1>4. TypeOK
  <2>1. <<>> \in Seq(Frame) /\ <<>> \in Seq(Tasks)
    OBVIOUS
  <2>2. queue \in [CPUs -> Seq(Tasks)]
    BY ONLY <1>1, <1>2, <2>1, Zenon
  <2>3. frames \in [CPUs -> Seq(Frame)]
    BY ONLY <1>1, <2>1, Zenon
  <2> QED
    BY <1>1, <2>2, <2>3, Zenon DEF TypeOK
<1>5. \A c \in CPUs : frames[c] = <<>> /\ Len(frames[c]) = 0
  BY <1>1, Zenon
<1>6. ASSUME NEW c \in CPUs, NEW i \in Nat, Queued(c, i)
      PROVE  c = BSP /\ i = 1
  <2>1. CASE c = BSP
    <3>1. queue[c] = <<"reinit", "boot">>
      BY <1>1, <2>1, Zenon
    <3>2. i \in 1 .. 2 /\ <<"reinit", "boot">>[i] = "reinit"
      BY <1>6, <3>1, Zenon DEF Queued
    <3> QED
      BY <2>1, <3>2
  <2>2. CASE c # BSP
    BY <1>1, <1>6, <2>2 DEF Queued
  <2> QED
    BY <2>1, <2>2, Zenon
<1>7. \A c \in CPUs, i \in Nat : ~Owing(c, i)
  BY <1>5 DEF Owing
<1>8. OneReserve
  BY <1>1, <1>6, <1>7 DEF OneReserve
<1>9. ASSUME NEW c \in CPUs, NEW i \in 1 .. Len(frames[c]) PROVE FALSE
  BY ONLY <1>5, <1>9
<1>10. \A c \in CPUs : Stack(frames[c])
  BY <1>9, Zenon DEF Stack
<1>11. SpawnedIsQueued /\ HooksDoNotStack
  BY <1>9, Zenon DEF SpawnedIsQueued, HooksDoNotStack
<1> QED
  BY <1>4, <1>8, <1>10, <1>11, Zenon DEF IInv

\* A step that changes neither a stack, nor a queue, nor the reserve.
LEMMA QuietStep ==
  ASSUME IInv, UNCHANGED <<rescue, queue, frames>>
  PROVE  IInv'
<1>1. \A c \in CPUs, i \in Nat : (Queued(c, i)' <=> Queued(c, i)) /\ (Owing(c, i)' <=> Owing(c, i))
  BY Zenon DEF Queued, Owing
<1>2. OneReserve'
  BY <1>1 DEF IInv, OneReserve
<1>4. SpawnedIsQueued'
  BY <1>1, Zenon DEF IInv, SpawnedIsQueued
<1>3. TypeOK' /\ HooksDoNotStack' /\ \A c \in CPUs : Stack(frames'[c])
  BY Zenon DEF IInv, TypeOK, HooksDoNotStack
<1> QED
  BY <1>2, <1>3, <1>4, Zenon DEF IInv

\* Every step preserves the invariant.
LEMMA NextIInv ==
  ASSUME IInv, [Next]_vars
  PROVE  IInv'
<1>1. CASE UNCHANGED vars
  BY <1>1, QuietStep, Zenon DEF vars, tasks
<1>2. ASSUME NEW c \in CPUs, NEW o \in OtherCode[c], Begin(c, o) PROVE IInv'
  BY <1>2, BeginStep, Zenon
<1>3. ASSUME NEW c \in CPUs, dealloc(c) PROVE IInv'
  BY <1>3, QuietStep, Zenon DEF dealloc, tasks
<1>4. ASSUME NEW c \in CPUs, Run(c) PROVE IInv'
  BY <1>4, RunStep, Zenon
<1>5. ASSUME NEW c \in CPUs, Step(c) PROVE IInv'
  <2>1. CASE GrowStack(c)
    BY <2>1, GrowStackStep
  <2>2. CASE Lock(c)
    BY <2>2, LockStep
  <2>3. CASE YieldPanics(c)
    BY <2>3, QuietStep, Zenon DEF YieldPanics, tasks
  <2>4. CASE Unlock(c)
    BY <2>4, UnlockStep
  <2>5. ASSUME NEW o, o \notin {"push", "store"}, Body(c, o) PROVE IInv'
    <3>1. frames[c] # <<>> /\ Top(c).id = o /\ Done(c) /\ UNCHANGED <<rescue, queue>>
      BY <2>5, Zenon DEF Body, InBody, At, tasks
    <3> QED
      BY <2>5, <3>1, DoneStep, Zenon
  <2>6. CASE _kernel_log(c) \/ MapPages(c) \/ PushState(c)
    BY <2>5, <2>6, Zenon DEF _kernel_log, MapPages, PushState
  <2>7. CASE palloc(c)
    BY <2>7, PallocStep
  <2>8. CASE pfree(c)
    <3>1. frames[c] # <<>> /\ Top(c).id = "pfree" /\ Done(c) /\ UNCHANGED <<rescue, queue>>
      BY <2>8, Zenon DEF pfree, InBody, At, tasks
    <3> QED
      BY <3>1, DoneStep, Zenon
  <2>9. CASE push_task(c)
    BY <2>9, PushStep
  <2>10. CASE StoreRescue(c)
    BY <2>10, StoreStep
  <2>11. CASE AddToHeap(c)
    <3>1. frames[c] # <<>> /\ Top(c).id = "grow" /\ Done(c) /\ UNCHANGED <<rescue, queue>>
      BY <2>11, Zenon DEF AddToHeap, InBody, At, tasks
    <3> QED
      BY <3>1, DoneStep, Zenon
  <2>12. CASE Terminate(c)
    BY <2>12, TerminateStep
  <2>13. CASE alloc(c)
    BY <2>13, AllocStep
  <2>14. CASE Retry(c)
    <3>1. frames[c] # <<>> /\ Top(c).id = "box" /\ UNCHANGED <<rescue, queue>> /\ (Done(c) \/ UNCHANGED frames)
      BY <2>14, Locked, Zenon DEF Retry, Sort, tasks
    <3>2. CASE Done(c)
      BY <3>1, <3>2, DoneStep, Zenon
    <3>3. CASE UNCHANGED frames
      BY <3>1, <3>3, QuietStep, Zenon
    <3> QED
      BY <3>1, <3>2, <3>3, Zenon
  <2>15. CASE TakeRescue(c)
    <3>1. At(c, "take") /\ ~Holds(c, "NOINTERRUPTIONS_STATE") /\ UNCHANGED queue
      BY <2>15, Zenon DEF TakeRescue, tasks
    <3>2. CASE rescue /\ rescue' = FALSE /\ Replace(c, Routine("hook", 1))
      BY <3>1, <3>2, TakeStep, Zenon
    <3>3. CASE Return(c) /\ UNCHANGED rescue
      <4>1. frames[c] # <<>> /\ Top(c).id = "hook"
        BY <3>1, Locked, Zenon DEF Sort
      <4>2. ~InRoutine(c)
        <5>1. InRoutine(c) => OperationFits(Caller(c).id, Caller(c).n, "hook")
          BY <4>1, InRoutineTop, Zenon
        <5> QED
          BY <5>1, Zenon DEF OperationFits
      <4>3. Becomes(c, Below(c) \o <<>>)
        BY <3>3, Zenon DEF Return, Replace, Becomes
      <4> QED
        BY <3>1, <3>3, <4>1, <4>2, <4>3, PopStep, Zenon
    <3> QED
      BY <2>15, <3>2, <3>3, Zenon DEF TakeRescue
  <2>16. CASE Refused(c)
    <3>1. At(c, "fail") /\ UNCHANGED <<rescue, queue>>
      BY <2>16, Zenon DEF Refused, tasks
    <3>2. CASE UNCHANGED frames
      BY <3>1, <3>2, QuietStep, Zenon
    <3>3. CASE Top(c).id # "hook" /\ Replace(c, Routine("notify", 1))
      BY <3>1, <3>3, RefusedStep, Zenon
    <3> QED
      BY <2>16, <3>2, <3>3, Zenon DEF Refused
  <2>17. CASE MapRefused(c)
    BY <2>17, MapRefusalStep
  <2> QED
    BY <1>5, <2>1, <2>2, <2>3, <2>4, <2>6, <2>7, <2>8, <2>9, <2>10, <2>11, <2>12, <2>13,
       <2>14, <2>15, <2>16, <2>17, SMTT(30) DEF Step
<1> QED
  BY <1>1, <1>2, <1>3, <1>4, <1>5, Zenon DEF Next

\* There is at most one reserve, present or to come, and the stacks are in order.
THEOREM Inductive == Spec => []IInv
<1>1. Init => IInv
  BY InitIInv, Zenon
<1>2. IInv /\ [Next]_vars => IInv'
  BY NextIInv, Zenon
<1> QED
  BY <1>1, <1>2, PTL DEF Spec

\* The assignment of _reinit_rescue to GLOBAL_RESCUE never drops a reserve.
THEOREM ReserveKept == Spec => []ReserveNeverOverwritten
<1>1. IInv => ReserveNeverOverwritten
  <2> SUFFICES ASSUME IInv, NEW c \in CPUs, InBody(c, "store") PROVE ~rescue
    BY Zenon DEF ReserveNeverOverwritten
  <2>1. Len(frames[c]) - 1 \in Nat /\ Owing(c, Len(frames[c]) - 1)
    BY StoreOwes, Zenon
  <2> QED
    BY <2>1, Zenon DEF IInv, OneReserve
<1> QED
  BY <1>1, Inductive, PTL

\* The out-of-memory hook that an allocation of the hook enters finds no reserve, so
\* that it does nothing.
THEOREM OneHook == Spec => []HooksDoNotStack
<1>1. IInv => HooksDoNotStack
  BY Zenon DEF IInv
<1> QED
  BY <1>1, Inductive, PTL

\* On a stack in order, a wait for one of the CPU's own locks is one for a lock that
\* the code that called the allocator holds.
LEMMA HangsOnOwnLocks ==
  ASSUME IInv, NEW c \in CPUs, NEW l \in {"heap", "GLOBAL_RESCUE", "PIPELINE"}, HangsOn(c, l)
  PROVE  l = "PIPELINE" /\ \E i \in 1 .. Len(frames[c]) : frames[c][i].at = "fail"
<1> DEFINE s == frames[c]
           n == Len(s)
           o == Top(c).id
<1>1. At(c, "lock") /\ LockOf[o] = l /\ Holds(c, l)
  BY Zenon DEF HangsOn, Waits
<1>2. /\ s \in Seq(Frame) /\ Stack(s) /\ n \in Nat /\ n > 0 /\ s[n].at = "lock" /\ s[n].id = o
      /\ Sort(s[n]) /\ Place(s, n)
  <2>1. Stack(s)
    BY Zenon DEF IInv
  <2>2. /\ s \in Seq(Frame) /\ n \in Nat /\ n > 0 /\ Top(c) = s[n] /\ Top(c).at = "lock"
        /\ Sort(Top(c)) /\ Place(s, n)
    BY <1>1, Locked, Zenon
  <2> QED
    BY ONLY <2>1, <2>2, Zenon
<1>3. o \in Operations
  BY <1>2, Zenon DEF Sort
<1>4. PICK i \in 1 .. n : s[i].id \in Operations /\ LockOf[s[i].id] = l /\ s[i].at \in {"held", "unlock", "retry"}
  BY <1>1, Zenon DEF Holds
<1>5. /\ l = "heap" => o = "grow" /\ s[i].id = "grow"
      /\ l = "GLOBAL_RESCUE" => o = "store" /\ s[i].id = "store"
      /\ l = "PIPELINE" => o = "log" /\ s[i].id = "log"
  <2> HIDE DEF s, n, o
  <2>1. \A x \in Operations :
          /\ LockOf[x] = "heap" => x = "grow"
          /\ LockOf[x] = "GLOBAL_RESCUE" => x = "store"
          /\ LockOf[x] = "PIPELINE" => x = "log"
    BY Names, Zenon
  <2>2. /\ l = "heap" => o = "grow"
        /\ l = "GLOBAL_RESCUE" => o = "store"
        /\ l = "PIPELINE" => o = "log"
    BY ONLY <1>1, <1>3, <2>1, Zenon
  <2>3. /\ l = "heap" => s[i].id = "grow"
        /\ l = "GLOBAL_RESCUE" => s[i].id = "store"
        /\ l = "PIPELINE" => s[i].id = "log"
    BY ONLY <1>4, <2>1, Zenon
  <2> QED
    BY ONLY <2>2, <2>3, Zenon
<1>n. n \in Nat /\ i \in 1 .. n
  BY <1>2, Zenon
<1> HIDE DEF s, n, o
<1>6. i \in Nat /\ i > 0 /\ i < n /\ i + 1 \in 1 .. n /\ i + 1 > 1 /\ (i + 1) - 1 = i
  <2>1. i # n
    BY ONLY <1>2, <1>4, Zenon
  <2> QED
    BY ONLY <1>n, <2>1
<1>7. Calls(s[i], s[i + 1])
  BY <1>2, <1>6, Zenon DEF Stack, Fits, n
<1>8. l = "PIPELINE"
  BY <1>4, <1>5, <1>7, Zenon DEF Calls
<1>9. n > 2 /\ s[n - 2].at = "fail"
  <2>1. s[n].id = "log" /\ n # 1 /\ s[i].id = "log" /\ s[i].at # "run"
    <3>1. n # 1
      BY ONLY <1>n, <1>6
    <3> QED
      BY ONLY <1>2, <1>4, <1>5, <1>8, <3>1, Zenon
  <2>2. n = 2 => i = 1
    BY ONLY <1>6
  <2>3. n = 3 => i = 1 \/ i = 2
    BY ONLY <1>6
  <2> QED
    BY ONLY <1>2, <2>1, <2>2, <2>3, Zenon DEF Place
<1>10. n - 2 \in 1 .. n
  BY ONLY <1>n, <1>9
<1> QED
  BY <1>8, <1>9, <1>10, Zenon DEF s, n

\* The hook never waits for the heap's lock or the reserve's on a CPU that holds it,
\* and for the logger's only under an allocation of physical memory that was refused.
THEOREM HangsOnlyOnCallersLocks == Spec => []RescueHangsOnCallersLocks
<1>1. IInv => RescueHangsOnCallersLocks
  <2> SUFFICES ASSUME IInv, NEW c \in CPUs
               PROVE  /\ ~HangsOn(c, "heap") /\ ~HangsOn(c, "GLOBAL_RESCUE")
                      /\ HangsOn(c, "PIPELINE") => \E i \in 1 .. Len(frames[c]) : frames[c][i].at = "fail"
    BY Zenon DEF RescueHangsOnCallersLocks
  <2> QED
    BY HangsOnOwnLocks, Zenon
<1> QED
  BY <1>1, Inductive, PTL
=============================================================================
