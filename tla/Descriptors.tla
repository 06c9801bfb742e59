---------------------------- MODULE Descriptors -----------------------------
(***************************************************************************)
(* Descriptor tables (descriptors.rs): slots with two reference counts, in *)
(* a tree of tables, used by any number of threads without a lock.         *)
(*                                                                         *)
(* A thread shows here as the handle or the initialiser it is making,      *)
(* using or dropping; an action is one atomic operation on a slot.  A slot *)
(* value is the id of the descriptor it belongs to.  Atomic operations are *)
(* sequentially consistent.                                                *)
(***************************************************************************)
EXTENDS Integers, Sequences, FiniteSets

CONSTANTS
  Handles,    \* the handles and initialisers there can be at a time
  NoHandle,   \* no handle
  N,          \* slots in each table
  M,          \* sub-tables of each table
  MAX_DEPTH,  \* bound: sub-tables below sub-tables
  MAX_ID,     \* bound: descriptors ever created
  RC          \* the counts are modulo RC (2^16 in the code)

ASSUME DescriptorsAssumption ==
  /\ NoHandle \notin Handles /\ IsFiniteSet(Handles)
  /\ N \in Nat \ {0} /\ M \in Nat \ {0} /\ MAX_DEPTH \in Nat /\ MAX_ID \in Nat
  /\ RC \in Nat /\ Cardinality(Handles) + 1 < RC

VARIABLES
  slot,     \* slot[s]: the Descriptor in place s
  tables,   \* the tables that exist, each named by the indices that lead to it
  next_id,
  handle    \* handle[h]: what is being done with handle h

vars == <<slot, tables, next_id, handle>>

IDs == 1 .. MAX_ID
None == 0
Paths == UNION {[1 .. d -> 0 .. M - 1] : d \in 0 .. MAX_DEPTH}
Slots == Paths \X (1 .. N)
Descriptor == [rc_a : 0 .. RC - 1, rc_b : 0 .. RC - 1, id : {None} \cup IDs,
               slot_a : {None} \cup IDs, slot_b : {None} \cup IDs]

PCs == {"free", "search", "ref_a", "ref_b", "check", "live", "moved", "alloc", "reset_b", "set_id",
        "init", "commit_b", "commit_a", "clone_b", "drop_b", "clear_b", "drop_a", "clear_a",
        "free_slot"}

(***************************************************************************)
(* The id asked for, the place the search has come to, whether it is a     *)
(* B-handle, and the handle the operation was called on: borrowed for the  *)
(* time of the call, or consumed by it.                                    *)
(***************************************************************************)
Handle == [pc : PCs, id : {None} \cup IDs, depth : 0 .. MAX_DEPTH, index : 1 .. N, is_b : BOOLEAN,
           src : Handles \cup {NoHandle}, consume : BOOLEAN]

FreeHandle == [pc |-> "free", id |-> None, depth |-> 0, index |-> 1, is_b |-> FALSE,
               src |-> NoHandle, consume |-> FALSE]

\* The table at a depth on the path of an id: index ID%M, then (ID/M)%M, and so on.
TableOf(id, depth) == [k \in 1 .. depth |-> (id \div M ^ (k - 1)) % M]
Place(x) == <<TableOf(x.id, x.depth), x.index>>

new_empty == [rc_a |-> 0, rc_b |-> 0, id |-> None, slot_a |-> None, slot_b |-> None]

Init ==
  /\ slot = [s \in Slots |-> new_empty]
  /\ tables = {<<>>}
  /\ next_id = 1
  /\ handle = [h \in Handles |-> FreeHandle]
----------------------------------------------------------------------------
At(h, pc) == handle[h].pc = pc
Goto(h, pc) == handle' = [handle EXCEPT ![h].pc = pc]
Update(h, d) == slot' = [slot EXCEPT ![Place(handle[h])] = d]
mine(h) == slot[Place(handle[h])]
Borrowed(h) == \E k \in Handles : handle[k].src = h
Inc(n) == (n + 1) % RC
Dec(n) == (n - 1) % RC

\* The operation that h came from ends: what it was called on is released, or,
\* if the operation consumed it, dropped.
Finish(h, record) ==
  LET x == handle[h]
  IN handle' = [k \in Handles |->
       IF k = h THEN record
       ELSE IF k = x.src /\ x.consume
            THEN [handle[k] EXCEPT !.pc = IF handle[k].is_b THEN "drop_b" ELSE "drop_a"]
            ELSE handle[k]]
Live(h) == Finish(h, [handle[h] EXCEPT !.pc = "live", !.src = NoHandle, !.consume = FALSE])
Gone(h) == Finish(h, FreeHandle)

(* Creating a descriptor *)

create_new_descriptor(h) ==
  /\ At(h, "free") /\ next_id <= MAX_ID
  /\ next_id' = next_id + 1
  /\ handle' = [handle EXCEPT ![h] = [FreeHandle EXCEPT !.pc = "alloc", !.id = next_id, !.is_b = TRUE]]
  /\ UNCHANGED <<slot, tables>>

\* The compare_exchange of reserve(), in the loop of _allocate_empty.
reserve(h) ==
  /\ At(h, "alloc") /\ mine(h).rc_a = 0
  /\ Update(h, [mine(h) EXCEPT !.rc_a = 1])
  /\ Goto(h, "reset_b")
  /\ UNCHANGED <<tables, next_id>>

\* Load and compare_exchange in one step: whoever creates the table, it is this one.
_get_or_create_sub_table(x) == tables' = tables \cup {TableOf(x.id, x.depth + 1)}

\* The next slot, or the next sub-table, which is created if there is none.
_allocate_empty(h) ==
  LET x == handle[h]
  IN /\ At(h, "alloc") /\ mine(h).rc_a # 0
     /\ \/ /\ x.index < N
           /\ handle' = [handle EXCEPT ![h].index = @ + 1]
           /\ UNCHANGED tables
        \/ /\ x.index = N /\ x.depth < MAX_DEPTH
           /\ _get_or_create_sub_table(x)
           /\ handle' = [handle EXCEPT ![h].index = 1, ![h].depth = @ + 1]
     /\ UNCHANGED <<slot, next_id>>

ReserveClearB(h) ==
  /\ At(h, "reset_b")
  /\ Update(h, [mine(h) EXCEPT !.rc_b = 0])
  /\ Goto(h, "set_id")
  /\ UNCHANGED <<tables, next_id>>

ReserveId(h) ==
  /\ At(h, "set_id")
  /\ Update(h, [mine(h) EXCEPT !.id = handle[h].id])
  /\ Goto(h, "init")
  /\ UNCHANGED <<tables, next_id>>

_init_slots(h) ==
  /\ At(h, "init")
  /\ Update(h, [mine(h) EXCEPT !.slot_a = handle[h].id, !.slot_b = handle[h].id])
  /\ Goto(h, "commit_b")
  /\ UNCHANGED <<tables, next_id>>

CommitB(h) ==
  /\ At(h, "commit_b")
  /\ Update(h, [mine(h) EXCEPT !.rc_b = Inc(@)])
  /\ Goto(h, "commit_a")
  /\ UNCHANGED <<tables, next_id>>

CommitA(h) ==
  /\ At(h, "commit_a")
  /\ Update(h, [mine(h) EXCEPT !.rc_a = Inc(@)])
  /\ Goto(h, "live")
  /\ UNCHANGED <<tables, next_id>>

\* An initialiser dropped without commit(): _clear_slot_b, then _clear.
DropInitialiser(h) ==
  /\ At(h, "init")
  /\ Update(h, [mine(h) EXCEPT !.slot_b = None])
  /\ Goto(h, "clear_a")
  /\ UNCHANGED <<tables, next_id>>

(* Acquiring a handle by id, perhaps while a handle to the same descriptor is held *)

acquire(h, id, is_b, src) ==
  /\ At(h, "free") /\ id < next_id
  /\ src # NoHandle => At(src, "live") /\ handle[src].id = id
  /\ handle' = [handle EXCEPT ![h] =
                  [FreeHandle EXCEPT !.pc = "search", !.id = id, !.is_b = is_b, !.src = src]]
  /\ UNCHANGED <<slot, tables, next_id>>

_search(h) ==
  LET x == handle[h]
  IN /\ At(h, "search")
     /\ \/ /\ mine(h).id = x.id
           /\ Goto(h, "ref_a")
        \/ /\ mine(h).id # x.id /\ x.index < N
           /\ handle' = [handle EXCEPT ![h].index = @ + 1]
        \/ /\ mine(h).id # x.id /\ x.index = N /\ x.depth < MAX_DEPTH
           /\ TableOf(x.id, x.depth + 1) \in tables
           /\ handle' = [handle EXCEPT ![h].index = 1, ![h].depth = @ + 1]
     /\ UNCHANGED <<slot, tables, next_id>>

\* Faulty variant: the search gives up after one slot.
NotFoundAtOnce(h) ==
  /\ At(h, "search") /\ mine(h).id # handle[h].id /\ Gone(h)
  /\ UNCHANGED <<slot, tables, next_id>>

NotFound(h) ==
  LET x == handle[h]
  IN /\ At(h, "search") /\ mine(h).id # x.id /\ x.index = N
     /\ x.depth < MAX_DEPTH => TableOf(x.id, x.depth + 1) \notin tables
     /\ Gone(h)
     /\ UNCHANGED <<slot, tables, next_id>>

\* An upgrade goes straight to acquire_ref, and does not compare ids.
Acquired(h) == IF handle[h].consume THEN Live(h) ELSE Goto(h, "check")

acquire_ref_a(h) ==
  /\ At(h, "ref_a") /\ mine(h).rc_a >= 2
  /\ Update(h, [mine(h) EXCEPT !.rc_a = @ + 1])
  /\ IF handle[h].is_b THEN Goto(h, "ref_b") ELSE Acquired(h)
  /\ UNCHANGED <<tables, next_id>>

DescriptorReserved(h) ==
  /\ At(h, "ref_a") /\ mine(h).rc_a < 2
  /\ Gone(h)
  /\ UNCHANGED <<slot, tables, next_id>>

acquire_ref_b(h) ==
  /\ At(h, "ref_b") /\ mine(h).rc_b >= 1
  /\ Update(h, [mine(h) EXCEPT !.rc_b = @ + 1])
  /\ Acquired(h)
  /\ UNCHANGED <<tables, next_id>>

BSlotNotAvailable(h) ==
  /\ At(h, "ref_b") /\ mine(h).rc_b = 0
  /\ Goto(h, "drop_a")
  /\ UNCHANGED <<slot, tables, next_id>>

\* Faulty variant: the id is not compared again.
CheckNothing(h) == At(h, "check") /\ Live(h) /\ UNCHANGED <<slot, tables, next_id>>

CheckId(h) ==
  /\ At(h, "check")
  /\ \/ mine(h).id = handle[h].id /\ Live(h)
     \/ /\ mine(h).id # handle[h].id
        /\ Goto(h, IF handle[h].is_b THEN "drop_b" ELSE "drop_a")
  /\ UNCHANGED <<slot, tables, next_id>>

(* Operations on a handle; k is the new handle *)

New(k, h, pc, is_b, consume) ==
  [handle[h] EXCEPT !.pc = pc, !.is_b = is_b, !.src = h, !.consume = consume]

clone_a_ref(h, k) ==
  /\ At(h, "live") /\ At(k, "free")
  /\ Update(h, [mine(h) EXCEPT !.rc_a = Inc(@)])
  /\ handle' = [handle EXCEPT ![k] = [handle[h] EXCEPT !.is_b = FALSE]]
  /\ UNCHANGED <<tables, next_id>>

\* clone_a_ref, and then self is dropped.
downgrade(h, k) ==
  /\ At(h, "live") /\ handle[h].is_b /\ ~Borrowed(h) /\ At(k, "free")
  /\ Update(h, [mine(h) EXCEPT !.rc_a = Inc(@)])
  /\ handle' = [handle EXCEPT ![k] = [handle[h] EXCEPT !.is_b = FALSE], ![h].pc = "drop_b"]
  /\ UNCHANGED <<tables, next_id>>

clone_b_ref(h, k) ==
  /\ At(h, "live") /\ handle[h].is_b /\ At(k, "free")
  /\ Update(h, [mine(h) EXCEPT !.rc_a = Inc(@)])
  /\ handle' = [handle EXCEPT ![k] = New(k, h, "clone_b", TRUE, FALSE)]
  /\ UNCHANGED <<tables, next_id>>

CloneB(h) ==
  /\ At(h, "clone_b")
  /\ Update(h, [mine(h) EXCEPT !.rc_b = Inc(@)])
  /\ Live(h)
  /\ UNCHANGED <<tables, next_id>>

upgrade(h, k) ==
  /\ At(h, "live") /\ ~handle[h].is_b /\ ~Borrowed(h) /\ At(k, "free")
  /\ handle' = [handle EXCEPT ![k] = New(k, h, "ref_a", TRUE, TRUE), ![h].pc = "moved"]
  /\ UNCHANGED <<slot, tables, next_id>>

(* Dropping a handle *)

DropHandle(h) ==
  /\ At(h, "live") /\ ~Borrowed(h)
  /\ Goto(h, IF handle[h].is_b THEN "drop_b" ELSE "drop_a")
  /\ UNCHANGED <<slot, tables, next_id>>

_decrement_rc_b(h) ==
  /\ At(h, "drop_b")
  /\ Update(h, [mine(h) EXCEPT !.rc_b = Dec(@)])
  /\ Goto(h, IF mine(h).rc_b = 1 THEN "clear_b" ELSE "drop_a")
  /\ UNCHANGED <<tables, next_id>>

_clear_slot_b(h) ==
  /\ At(h, "clear_b")
  /\ Update(h, [mine(h) EXCEPT !.slot_b = None])
  /\ Goto(h, "drop_a")
  /\ UNCHANGED <<tables, next_id>>

\* Faulty variants: the last handle does not notice that it is; rc_a is not left
\* at 1 while the slot is being cleared.
decrement_a_only(h) ==
  /\ At(h, "drop_a") /\ Update(h, [mine(h) EXCEPT !.rc_a = Dec(@)]) /\ Gone(h)
  /\ UNCHANGED <<tables, next_id>>
decrement_a_to_zero(h) ==
  /\ At(h, "drop_a")
  /\ Update(h, [mine(h) EXCEPT !.rc_a = IF @ = 2 THEN 0 ELSE Dec(@)])
  /\ IF mine(h).rc_a = 2 THEN Goto(h, "clear_a") ELSE Gone(h)
  /\ UNCHANGED <<tables, next_id>>

_decrement_rc_a(h) ==
  /\ At(h, "drop_a")
  /\ Update(h, [mine(h) EXCEPT !.rc_a = Dec(@)])
  /\ IF mine(h).rc_a = 2 THEN Goto(h, "clear_a") ELSE Gone(h)
  /\ UNCHANGED <<tables, next_id>>

_clear(h) ==
  /\ At(h, "clear_a")
  /\ Update(h, [mine(h) EXCEPT !.slot_a = None])
  /\ Goto(h, "free_slot")
  /\ UNCHANGED <<tables, next_id>>

ClearStore(h) ==
  /\ At(h, "free_slot")
  /\ Update(h, [mine(h) EXCEPT !.rc_a = 0])
  /\ Gone(h)
  /\ UNCHANGED <<tables, next_id>>
----------------------------------------------------------------------------
Creates(h) ==
  \/ create_new_descriptor(h) \/ reserve(h) \/ _allocate_empty(h) \/ ReserveClearB(h)
  \/ ReserveId(h) \/ _init_slots(h) \/ CommitB(h) \/ CommitA(h) \/ DropInitialiser(h)

Acquires(h) ==
  \/ \E id \in IDs, is_b \in BOOLEAN, src \in Handles \cup {NoHandle} : acquire(h, id, is_b, src)
  \/ _search(h) \/ NotFound(h) \/ acquire_ref_a(h) \/ DescriptorReserved(h)
  \/ acquire_ref_b(h) \/ BSlotNotAvailable(h) \/ CheckId(h)

Copies(h) ==
  \/ \E k \in Handles : clone_a_ref(h, k) \/ clone_b_ref(h, k) \/ upgrade(h, k) \/ downgrade(h, k)
  \/ CloneB(h)

Drops(h) ==
  \/ DropHandle(h) \/ _decrement_rc_b(h) \/ _clear_slot_b(h)
  \/ _decrement_rc_a(h) \/ _clear(h) \/ ClearStore(h)

Next == \E h \in Handles : Creates(h) \/ Acquires(h) \/ Copies(h) \/ Drops(h)

Spec == Init /\ [][Next]_vars
----------------------------------------------------------------------------
(* Properties *)

TypeOK ==
  /\ slot \in [Slots -> Descriptor]
  /\ tables \subseteq Paths
  /\ next_id \in 1 .. MAX_ID + 1
  /\ handle \in [Handles -> Handle]

\* The user may call get_a, and get_b of a B-handle.
Usable(h) == handle[h].pc \in {"live", "moved"}

(***************************************************************************)
(* get_a and get_b never find an empty slot, nor the value of another      *)
(* descriptor that was put into the same place: the unwrap()s do not panic *)
(* and a handle acquired by id is a handle to that id.                     *)
(***************************************************************************)
HandlesSeeTheirDescriptor ==
  \A h \in Handles : Usable(h) =>
    /\ mine(h).id = handle[h].id /\ mine(h).slot_a = handle[h].id
    /\ handle[h].is_b => mine(h).slot_b = handle[h].id

(***************************************************************************)
(* Who writes to a slot's value, by _init_slots, _clear_slot_b or _clear,  *)
(* is alone with it: nobody can be holding a reference from get_a or get_b *)
(* to it, nobody else writes to it, and nobody has reserved the place.     *)
(***************************************************************************)
WritersAlone ==
  \A h, k \in Handles : h # k /\ Place(handle[h]) = Place(handle[k]) =>
    /\ handle[h].pc \in {"reset_b", "set_id", "init", "commit_b", "commit_a", "clear_a", "free_slot"} =>
         ~Usable(k) /\ handle[k].pc \notin {"reset_b", "set_id", "init", "commit_b", "commit_a",
                                            "clear_b", "clear_a", "free_slot"}
    /\ handle[h].pc = "clear_b" => ~(Usable(k) /\ handle[k].is_b) /\ handle[k].pc # "clear_b"

\* Once every handle to a place is gone, the place is free and both values have
\* been dropped.
NothingLeaks ==
  \A s \in Slots :
    (\A h \in Handles : handle[h].pc \in {"free", "search", "ref_a", "alloc"} \/ Place(handle[h]) # s)
      => slot[s].rc_a = 0 /\ slot[s].rc_b = 0 /\ slot[s].slot_a = None /\ slot[s].slot_b = None

(***************************************************************************)
(* While a handle to a descriptor is held, acquiring its id succeeds,      *)
(* except that slot B may be gone: the search does not miss it, and it     *)
(* does not end at another slot or find the descriptor reserved.           *)
(***************************************************************************)
HeldIsFound ==
  [][\A h \in Handles :
       handle[h].src # NoHandle => ~NotFound(h) /\ ~DescriptorReserved(h)
                                   /\ (At(h, "check") => mine(h).id = handle[h].id)]_vars
=============================================================================
