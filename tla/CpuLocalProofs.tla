--------------------------- MODULE CpuLocalProofs ---------------------------
(***************************************************************************)
(* SettledStaysSettled of CpuLocal, for any number of callers and of CPUs. *)
(*                                                                         *)
(* The action property is not inductive on its own: a step that stores a   *)
(* value has to be within the vector, for otherwise nothing is known of    *)
(* the vector after it.  The invariant is IndexInBounds, with the types.   *)
(***************************************************************************)
EXTENDS CpuLocal, TLAPS

\* The vector holds numbers of values, and a call is for one of the CPUs.
TypeOK ==
  /\ pointers \in Seq(Nat) /\ boxes \in Nat
  /\ call \in [Callers -> Call]
  /\ returned \in [CpuNums -> SUBSET Nat]

Inv == TypeOK /\ IndexInBounds

\* A slot that no step of the vector's growth may touch: the vector only gets
\* longer, and what it holds stays.
Grown == /\ Len(pointers') >= Len(pointers)
         /\ \A i \in 1 .. Len(pointers) : pointers'[i] = pointers[i]

\* _initialise_empty keeps every pointer and makes the vector long enough.
LEMMA Extends ==
  ASSUME TypeOK, NEW k \in Callers, _initialise_empty(k)
  PROVE  /\ pointers' \in Seq(Nat)
         /\ Grown
         /\ call[k].id < Len(pointers')
<1> DEFINE id == call[k].id
           len == IF Len(pointers) <= id THEN id + 1 ELSE Len(pointers)
<1>1. id \in Nat /\ Len(pointers) \in Nat
  BY CpuLocalAssumption DEF TypeOK, Call, CpuNums
<1>2. len \in Nat /\ len >= Len(pointers) /\ id < len
  BY <1>1
<1>3. pointers' = [i \in 1 .. len |-> IF i <= Len(pointers) THEN pointers[i] ELSE None]
  BY DEF _initialise_empty
<1> HIDE DEF len
<1>4. \A i \in 1 .. len : (IF i <= Len(pointers) THEN pointers[i] ELSE None) \in Nat
  BY <1>1, <1>2 DEF TypeOK, None
<1>5. pointers' \in Seq(Nat) /\ Len(pointers') = len
  BY <1>2, <1>3, <1>4
<1> QED
  BY <1>1, <1>2, <1>3, <1>5 DEF Grown

\* Create stores a value inside the vector, which keeps its length.
LEMMA Stores ==
  ASSUME Inv, NEW k \in Callers, Create(k)
  PROVE  /\ pointers' \in Seq(Nat)
         /\ Len(pointers') = Len(pointers)
         /\ \A i \in 1 .. Len(pointers) : i # call[k].id + 1 => pointers'[i] = pointers[i]
<1>1. call[k].id \in Nat /\ call[k].id < Len(pointers)
  BY CpuLocalAssumption DEF Inv, TypeOK, IndexInBounds, Create, Call, CpuNums
<1>2. boxes' \in Nat
  BY DEF Inv, TypeOK, Create
<1>3. pointers' = [pointers EXCEPT ![call[k].id + 1] = boxes']
  BY DEF Create
<1> QED
  BY <1>1, <1>2, <1>3 DEF Inv, TypeOK

\* A call that returns a value leaves the calls and the returned values well typed.
LEMMA Returns ==
  ASSUME TypeOK, NEW k \in Callers, NEW id \in CpuNums, NEW item \in Nat, Return(k, id, item)
  PROVE  call' \in [Callers -> Call] /\ returned' \in [CpuNums -> SUBSET Nat]
<1>1. call' \in [Callers -> Call]
  BY DEF TypeOK, Return, Goto, Call
<1>2. returned' \in [CpuNums -> SUBSET Nat]
  BY DEF TypeOK, Return
<1> QED
  BY <1>1, <1>2

\* Every step preserves the invariant.
LEMMA InvStep == Inv /\ [Next]_vars => Inv'
<1> SUFFICES ASSUME Inv, [Next]_vars PROVE Inv'
  OBVIOUS
<1>1. ASSUME NEW k \in Callers, NEW id \in CpuNums, _get_for_inner(k, id)
      PROVE  Inv'
  <2>1. id \in Nat
    BY CpuLocalAssumption DEF CpuNums
  <2>2. Len(pointers) > id => pointers[id + 1] \in Nat
    BY <2>1 DEF Inv, TypeOK
  <2>3. TypeOK'
    <3>1. CASE Len(pointers) > id /\ Return(k, id, pointers[id + 1])
      BY <1>1, <2>2, <3>1, Returns DEF Inv, TypeOK, _get_for_inner
    <3>2. CASE \E pc \in {"extend", "create"} : call' = [call EXCEPT ![k] = [pc |-> pc, id |-> id]]
                                              /\ UNCHANGED returned
      BY <1>1, <3>2 DEF Inv, TypeOK, _get_for_inner, Call
    <3> QED
      BY <1>1, <3>1, <3>2 DEF _get_for_inner
  <2>4. IndexInBounds'
    BY <1>1, <2>1 DEF Inv, TypeOK, IndexInBounds, _get_for_inner, Return, Goto, Call
  <2> QED
    BY <2>3, <2>4 DEF Inv
<1>2. ASSUME NEW k \in Callers, _initialise_empty(k)
      PROVE  Inv'
  <2>1. /\ pointers' \in Seq(Nat) /\ Grown /\ call[k].id < Len(pointers')
    BY <1>2, Extends DEF Inv
  <2>2. call' = [call EXCEPT ![k].pc = "index"] /\ UNCHANGED <<boxes, returned>>
    BY <1>2 DEF _initialise_empty, Goto
  <2>3. TypeOK'
    BY <2>1, <2>2 DEF Inv, TypeOK, Call
  <2>4. ASSUME NEW j \in Callers, call'[j].pc \in {"index", "create"}
        PROVE  call'[j].id < Len(pointers')
    <3>1. call'[j].id = call[j].id /\ call[j].id \in Nat
      BY <2>2, CpuLocalAssumption DEF Inv, TypeOK, Call, CpuNums
    <3>2. CASE j = k
      BY <2>1, <3>1, <3>2
    <3>3. CASE j # k
      BY <2>1, <2>2, <2>4, <3>1, <3>3 DEF Inv, TypeOK, IndexInBounds, Grown
    <3> QED
      BY <3>2, <3>3
  <2> QED
    BY <2>3, <2>4 DEF Inv, IndexInBounds
<1>3. ASSUME NEW k \in Callers, Reread(k)
      PROVE  Inv'
  <2>1. call[k].id \in Nat /\ call[k].id \in CpuNums
    BY CpuLocalAssumption DEF Inv, TypeOK, Call, CpuNums
  <2>2. pointers[call[k].id + 1] \in Nat
    BY <1>3, <2>1 DEF Inv, TypeOK, Reread
  <2>3. ASSUME Return(k, call[k].id, pointers[call[k].id + 1])
        PROVE  TypeOK'
    BY <1>3, <2>1, <2>2, <2>3, Returns DEF Inv, TypeOK, Reread
  <2>4. ASSUME Goto(k, "create"), UNCHANGED returned
        PROVE  TypeOK'
    BY <1>3, <2>4 DEF Inv, TypeOK, Reread, Goto, Call
  <2>5. IndexInBounds'
    BY <1>3, <2>1 DEF Inv, TypeOK, IndexInBounds, Reread, Return, Goto, Call
  <2> QED
    BY <1>3, <2>3, <2>4, <2>5 DEF Inv, Reread
<1>4. ASSUME NEW k \in Callers, Create(k)
      PROVE  Inv'
  <2>1. pointers' \in Seq(Nat) /\ Len(pointers') = Len(pointers)
    BY <1>4, Stores
  <2>2. boxes' \in Nat /\ call[k].id \in CpuNums
    BY <1>4 DEF Inv, TypeOK, Create, Call
  <2>3. TypeOK'
    BY <1>4, <2>1, <2>2, Returns DEF Inv, TypeOK, Create
  <2>4. IndexInBounds'
    BY <1>4, <2>1 DEF Inv, TypeOK, IndexInBounds, Create, Return, Goto, Call
  <2> QED
    BY <2>3, <2>4 DEF Inv
<1>5. ASSUME UNCHANGED vars PROVE Inv'
  BY <1>5 DEF Inv, TypeOK, IndexInBounds, vars
<1> QED
  BY <1>1, <1>2, <1>3, <1>4, <1>5 DEF Next

\* The two places that index the vector in a later critical section than the one
\* that looked at its length are within bounds.
THEOREM InBounds == Spec => []Inv
<1>1. Init => Inv
  BY CpuLocalAssumption DEF Init, Inv, TypeOK, IndexInBounds, Call, CpuNums
<1> QED
  BY <1>1, InvStep, PTL DEF Spec

\* What SettledStaysSettled says of one CPU.
Settled(id) ==
  /\ id < Len(pointers) /\ pointers[id + 1] # None
  /\ \A k \in Callers : ~(call[k].pc = "create" /\ call[k].id = id)
Kept(id) ==
  /\ pointers'[id + 1] = pointers[id + 1]
  /\ returned'[id] \subseteq returned[id] \cup {pointers[id + 1]}

\* A step leaves a settled slot alone.
LEMMA SettledStep ==
  ASSUME Inv, [Next]_vars, NEW id \in CpuNums, Settled(id)
  PROVE  Kept(id)
<1>0. id \in Nat
  BY CpuLocalAssumption DEF CpuNums
<1>1. ASSUME NEW k \in Callers, NEW i \in CpuNums, _get_for_inner(k, i)
      PROVE  Kept(id)
  BY <1>0, <1>1 DEF Inv, TypeOK, Kept, _get_for_inner, Return
<1>2. ASSUME NEW k \in Callers, _initialise_empty(k)
      PROVE  Kept(id)
  <2>1. Grown
    BY <1>2, Extends DEF Inv
  <2>2. id + 1 \in 1 .. Len(pointers)
    BY <1>0 DEF Settled, Inv, TypeOK
  <2> QED
    BY <1>2, <2>1, <2>2 DEF Kept, Grown, _initialise_empty
<1>3. ASSUME NEW k \in Callers, Reread(k)
      PROVE  Kept(id)
  BY <1>0, <1>3 DEF Inv, TypeOK, Kept, Reread, Return, Call
<1>4. ASSUME NEW k \in Callers, Create(k)
      PROVE  Kept(id)
  <2>1. call[k].id # id /\ call[k].id \in Nat
    BY <1>4, CpuLocalAssumption DEF Settled, Create, Inv, TypeOK, Call, CpuNums
  <2>2. id + 1 \in 1 .. Len(pointers)
    BY <1>0 DEF Settled, Inv, TypeOK
  <2>3. pointers'[id + 1] = pointers[id + 1]
    BY <1>0, <1>4, <2>1, <2>2, Stores
  <2>4. returned'[id] = returned[id]
    BY <1>4, <2>1 DEF Create, Return, Inv, TypeOK
  <2> QED
    BY <2>3, <2>4 DEF Kept
<1>5. ASSUME UNCHANGED vars PROVE Kept(id)
  BY <1>5 DEF Kept, vars
<1> QED
  BY <1>1, <1>2, <1>3, <1>4, <1>5 DEF Next

\* Once a CPU has a value and no call that found the slot empty is still on its
\* way, the slot never changes again, and every call returns what is in it.
THEOREM SettledCorrect == Spec => SettledStaysSettled
<1> DEFINE Step == \A id \in CpuNums : Settled(id) => Kept(id)
<1>1. Inv /\ [Next]_vars => [Step]_vars
  BY SettledStep
<1>2. [Step]_vars =>
       [\A id \in CpuNums :
          /\ id < Len(pointers) /\ pointers[id + 1] # None
          /\ \A k \in Callers : ~(call[k].pc = "create" /\ call[k].id = id)
          => /\ pointers'[id + 1] = pointers[id + 1]
             /\ returned'[id] \subseteq returned[id] \cup {pointers[id + 1]}]_vars
  BY DEF Settled, Kept
<1> QED
  BY <1>1, <1>2, InBounds, PTL DEF Spec, SettledStaysSettled
=============================================================================
