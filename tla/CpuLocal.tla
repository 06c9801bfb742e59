------------------------------ MODULE CpuLocal ------------------------------
(***************************************************************************)
(* CpuLocal<T, SHARED> (multitasking/cpulocal.rs): a vector with one       *)
(* pointer for each CPU, filled in on first use.                           *)
(*                                                                         *)
(* A caller is a thread of execution, on whatever CPU, inside              *)
(* _get_for_inner(id).  The vector is read and written only under its      *)
(* KRwLock, but the lock is released between the steps of the function: an *)
(* action is one critical section.                                         *)
(***************************************************************************)
EXTENDS Naturals, Sequences

CONSTANTS
  Callers,     \* threads that use the CpuLocal
  MAX_CPU,     \* CPU numbers are 0 .. MAX_CPU
  MAX_VALUES   \* bound: values ever created

ASSUME CpuLocalAssumption == MAX_CPU \in Nat /\ MAX_VALUES \in Nat

VARIABLES
  pointers, \* the vector; the pointer of CPU id is pointers[id + 1]
  boxes,    \* how many values have been allocated; they are 1 .. boxes
  call,     \* call[k]: what caller k is doing
  returned  \* returned[id]: the values that calls for id have returned

vars == <<pointers, boxes, call, returned>>

CpuNums == 0 .. MAX_CPU
None == 0
Call == [pc : {"idle", "extend", "index", "create"}, id : CpuNums]

Init ==
  /\ pointers = <<>> /\ boxes = 0
  /\ call = [k \in Callers |-> [pc |-> "idle", id |-> 0]]
  /\ returned = [id \in CpuNums |-> {}]

Goto(k, pc) == call' = [call EXCEPT ![k].pc = pc]
Return(k, id, item) ==
  /\ Goto(k, "idle")
  /\ returned' = [returned EXCEPT ![id] = @ \cup {item}]

\* get_current and get_for, up to the end of the first read guard.
_get_for_inner(k, id) ==
  /\ call[k].pc = "idle"
  /\ \/ /\ Len(pointers) <= id
        /\ call' = [call EXCEPT ![k] = [pc |-> "extend", id |-> id]]
        /\ UNCHANGED returned
     \/ /\ Len(pointers) > id /\ pointers[id + 1] = None
        /\ call' = [call EXCEPT ![k] = [pc |-> "create", id |-> id]]
        /\ UNCHANGED returned
     \/ /\ Len(pointers) > id /\ pointers[id + 1] # None
        /\ Return(k, id, pointers[id + 1])
  /\ UNCHANGED <<pointers, boxes>>

\* Faulty variant: the vector is replaced by a fresh one.
ExtendAfresh(k) ==
  LET len == IF Len(pointers) <= call[k].id THEN call[k].id + 1 ELSE Len(pointers)
  IN /\ call[k].pc = "extend"
     /\ pointers' = [i \in 1 .. len |-> None]
     /\ Goto(k, "index")
     /\ UNCHANGED <<boxes, returned>>

\* Another caller may have extended the vector, even further, in the meantime.
_initialise_empty(k) ==
  LET len == IF Len(pointers) <= call[k].id THEN call[k].id + 1 ELSE Len(pointers)
  IN /\ call[k].pc = "extend"
     /\ pointers' = [i \in 1 .. len |-> IF i <= Len(pointers) THEN pointers[i] ELSE None]
     /\ Goto(k, "index")
     /\ UNCHANGED <<boxes, returned>>

\* self.0.read()[id], after the vector has been extended.
Reread(k) ==
  LET id == call[k].id
  IN /\ call[k].pc = "index"
     /\ id < Len(pointers)
     /\ \/ /\ pointers[id + 1] = None
           /\ Goto(k, "create") /\ UNCHANGED returned
        \/ /\ pointers[id + 1] # None
           /\ Return(k, id, pointers[id + 1])
     /\ UNCHANGED <<pointers, boxes>>

\* The write guard: a new box is stored without another look at the slot.
Create(k) ==
  LET id == call[k].id
  IN /\ call[k].pc = "create" /\ boxes < MAX_VALUES
     /\ boxes' = boxes + 1
     /\ pointers' = [pointers EXCEPT ![id + 1] = boxes']
     /\ Return(k, id, boxes')

Next == \E k \in Callers :
  \/ \E id \in CpuNums : _get_for_inner(k, id)
  \/ _initialise_empty(k) \/ Reread(k) \/ Create(k)

Spec == Init /\ [][Next]_vars
----------------------------------------------------------------------------
(* Properties *)

\* The two places that index the vector in a later critical section than the one
\* that looked at its length (self.0.read()[id] and wg[id]) are within bounds.
IndexInBounds ==
  \A k \in Callers : call[k].pc \in {"index", "create"} => call[k].id < Len(pointers)

\* Once a CPU has a value and no call that found the slot empty is still on its
\* way, the slot never changes again, and every call returns what is in it.
SettledStaysSettled ==
  [][\A id \in CpuNums :
       /\ id < Len(pointers) /\ pointers[id + 1] # None
       /\ \A k \in Callers : ~(call[k].pc = "create" /\ call[k].id = id)
       => /\ pointers'[id + 1] = pointers[id + 1]
          /\ returned'[id] \subseteq returned[id] \cup {pointers[id + 1]}]_vars
=============================================================================
