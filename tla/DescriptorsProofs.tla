------------------------- MODULE DescriptorsProofs --------------------------
(***************************************************************************)
(* Proofs about the descriptor tables, for any number of handles, tables   *)
(* of any size and depth, and any number of descriptors.                   *)
(*                                                                         *)
(* The argument: the counts of a slot are what the program points of the   *)
(* handles at that place say.  rc_a is 0 when nobody is there, 1 when      *)
(* somebody is setting the slot up or clearing it, alone, and otherwise    *)
(* one more than the handles that hold a reference; rc_b is the number of  *)
(* those that hold one to slot B.  The id of a slot changes only while     *)
(* somebody is alone there, so a handle that compared it stays with its    *)
(* descriptor.  An id is written to one slot only, so that a search that   *)
(* meets it has come to the place of every other handle to it.             *)
(***************************************************************************)
EXTENDS Descriptors, FiniteSetTheorems, TLAPS

\* Where a handle is alone with its slot; where it holds a reference to slot A.
Alone == {"reset_b", "set_id", "init", "commit_b", "commit_a", "clear_a", "free_slot"}
Counted == {"ref_b", "check", "live", "moved", "clone_b", "drop_b", "clear_b", "drop_a"}

IsWriter(x, s) == x.pc \in Alone /\ Place(x) = s
IsA(x, s) == x.pc \in Counted /\ Place(x) = s
IsB(x, s) ==
  /\ x.pc \in {"commit_a", "drop_b"} \/ (x.pc \in {"check", "live"} /\ x.is_b)
  /\ Place(x) = s
ClearsB(x, s) == x.pc = "clear_b" /\ Place(x) = s

Writers(s) == {h \in Handles : IsWriter(handle[h], s)}
HoldersA(s) == {h \in Handles : IsA(handle[h], s)}
HoldersB(s) == {h \in Handles : IsB(handle[h], s)}
ClearersB(s) == {h \in Handles : ClearsB(handle[h], s)}

\* How many there are of each kind.
NumW(s) == Cardinality(Writers(s))
NumA(s) == Cardinality(HoldersA(s))
NumB(s) == Cardinality(HoldersB(s))
NumC(s) == Cardinality(ClearersB(s))

\* The counts of a slot.
Counts(s) ==
  /\ NumW(s) > 0 => NumW(s) = 1 /\ NumA(s) = 0 /\ slot[s].rc_a = 1
  /\ NumW(s) = 0 => slot[s].rc_a = (IF NumA(s) = 0 THEN 0 ELSE NumA(s) + 1)
  /\ slot[s].rc_b = NumB(s)
  /\ NumC(s) > 0 => NumC(s) = 1 /\ NumB(s) = 0

\* The values that somebody who is alone with a slot has put there so far.
WriterValues(pc, d) ==
  /\ pc \in {"reset_b", "set_id", "init", "free_slot"} => d.slot_a = None /\ d.slot_b = None
  /\ pc \in {"commit_b", "commit_a"} => d.slot_a = d.id /\ d.slot_b = d.id
  /\ pc = "clear_a" => d.slot_b = None

\* The values of a slot.
Values(s) ==
  /\ NumA(s) > 0 => /\ slot[s].slot_a = slot[s].id
                    /\ slot[s].slot_b = (IF NumB(s) + NumC(s) > 0 THEN slot[s].id ELSE None)
  /\ NumW(s) = 0 /\ NumA(s) = 0 => slot[s].slot_a = None /\ slot[s].slot_b = None
  /\ \A h \in Writers(s) : WriterValues(handle[h].pc, slot[s])

\* What the program point of a handle says of it.
Settled == {"live", "moved", "clone_b", "init", "commit_b", "commit_a"}
Initialising == {"alloc", "reset_b", "set_id", "init", "commit_b", "commit_a"}
Owns(h) ==
  LET x == handle[h]
  IN /\ x.pc \in Settled => mine(h).id = x.id
     /\ x.pc \in Initialising \cup {"ref_b", "clone_b", "drop_b", "clear_b"} => x.is_b
     /\ x.pc = "moved" => ~x.is_b
     /\ x.pc \in Initialising \cup {"free", "live", "moved"} => x.src = NoHandle
     /\ x.pc # "free" => x.id # None

\* What an operation may rely on of the handle it was called on.
Source(h) ==
  LET x == handle[h]
      y == handle[x.src]
  IN /\ x.consume => x.src # NoHandle /\ x.is_b /\ x.pc \in {"ref_a", "ref_b", "drop_a"}
     /\ x.pc = "clone_b" => x.src # NoHandle
     /\ x.src # NoHandle =>
          /\ y.id = x.id /\ y.pc = (IF x.consume THEN "moved" ELSE "live")
          /\ x.pc # "search" => x.depth = y.depth /\ x.index = y.index
          /\ x.pc = "clone_b" => y.is_b
          /\ x.pc = "search" => x.depth < y.depth \/ (x.depth = y.depth /\ x.index <= y.index)
          /\ x.consume => \A k \in Handles : handle[k].src = x.src => k = h

\* The id of a handle has been given out, and the tables on the way to its place exist.
Reached(h) ==
  /\ handle[h].id < next_id
  /\ \A d \in 0 .. handle[h].depth : TableOf(handle[h].id, d) \in tables

\* An id is in one slot at most, and in none before its descriptor is set up.
Fresh == {"alloc", "reset_b", "set_id"}
Ids ==
  /\ \A s \in Slots : slot[s].id < next_id
  /\ \A r, s \in Slots : slot[r].id = slot[s].id /\ slot[r].id # None => r = s
  /\ \A h \in Handles : handle[h].pc \in Fresh =>
       /\ \A s \in Slots : slot[s].id # handle[h].id
       /\ \A k \in Handles : handle[k].pc \in Fresh /\ handle[k].id = handle[h].id => k = h

IInv ==
  /\ TypeOK
  /\ \A s \in Slots : Counts(s) /\ Values(s)
  /\ \A h \in Handles : Owns(h) /\ Source(h) /\ Reached(h)
  /\ Ids
----------------------------------------------------------------------------
(* Places and shapes *)

LEMMA DigitType ==
  ASSUME NEW id \in Nat, NEW k \in Nat
  PROVE  (id \div M ^ k) % M \in 0 .. M - 1
BY DescriptorsAssumption

LEMMA PlaceType ==
  ASSUME NEW id \in Nat, NEW depth \in 0 .. MAX_DEPTH
  PROVE  /\ TableOf(id, depth) \in Paths
         /\ \A x \in Handle : x.id = id /\ x.depth = depth => Place(x) \in Slots
<1>1. ASSUME NEW k \in 1 .. depth PROVE (id \div M ^ (k - 1)) % M \in 0 .. M - 1
  <2>1. k - 1 \in Nat
    BY DescriptorsAssumption
  <2> QED BY <2>1, DigitType, Zenon
<1>2. TableOf(id, depth) \in [1 .. depth -> 0 .. M - 1]
  BY <1>1, Zenon DEF TableOf
<1>3. TableOf(id, depth) \in Paths
  BY <1>2, Zenon DEF Paths
<1> QED BY <1>3, Zenon DEF Place, Slots, Handle

\* A path tells its depth.
LEMMA SamePlace ==
  ASSUME NEW x \in Handle, NEW y \in Handle, x.id = y.id
  PROVE  Place(x) = Place(y) <=> x.depth = y.depth /\ x.index = y.index
<1>1. x.depth \in Nat /\ y.depth \in Nat
  BY DescriptorsAssumption DEF Handle
<1>2. DOMAIN TableOf(x.id, x.depth) = 1 .. x.depth /\ DOMAIN TableOf(y.id, y.depth) = 1 .. y.depth
  BY Zenon DEF TableOf
<1>3. TableOf(x.id, x.depth) = TableOf(y.id, y.depth) => x.depth = y.depth
  <2> SUFFICES ASSUME 1 .. x.depth = 1 .. y.depth PROVE x.depth = y.depth
    BY <1>2, Zenon
  <2>1. x.depth > y.depth => x.depth \in 1 .. x.depth /\ x.depth \notin 1 .. y.depth
    BY <1>1
  <2>2. y.depth > x.depth => y.depth \in 1 .. y.depth /\ y.depth \notin 1 .. x.depth
    BY <1>1
  <2> QED BY <1>1, <2>1, <2>2
<1> QED BY <1>3, Zenon DEF Place

\* What holds of h and of its slot.
LEMMA Here ==
  ASSUME IInv, NEW h \in Handles
  PROVE  /\ TypeOK /\ handle[h] \in Handle /\ mine(h) \in Descriptor
         /\ Place(handle[h]) \in Slots /\ mine(h) = slot[Place(handle[h])]
         /\ Counts(Place(handle[h])) /\ Values(Place(handle[h]))
         /\ Owns(h) /\ Source(h) /\ Reached(h)
<1>1. handle[h] \in Handle /\ slot \in [Slots -> Descriptor]
  BY Zenon DEF IInv, TypeOK
<1>2. handle[h].id \in Nat /\ handle[h].depth \in 0 .. MAX_DEPTH
  BY <1>1, DescriptorsAssumption DEF Handle, IDs, None
<1>3. Place(handle[h]) \in Slots
  BY <1>1, <1>2, PlaceType, Zenon
<1> QED BY <1>1, <1>3, Zenon DEF IInv, mine

\* A handle whose program point alone changes.
PcBecomes(x, y, pc) ==
  /\ y.pc = pc /\ y.id = x.id /\ y.depth = x.depth /\ y.index = x.index
  /\ y.is_b = x.is_b /\ y.src = x.src /\ y.consume = x.consume /\ Place(y) = Place(x)

LEMMA PcFields ==
  ASSUME NEW x \in Handle, NEW pc \in PCs
  PROVE  [x EXCEPT !.pc = pc] \in Handle /\ PcBecomes(x, [x EXCEPT !.pc = pc], pc)
<1>1. PICK y : y = [x EXCEPT !.pc = pc]
  BY Zenon
<1>2. /\ y \in Handle /\ y.pc = pc /\ y.id = x.id /\ y.depth = x.depth /\ y.index = x.index
      /\ y.is_b = x.is_b /\ y.src = x.src /\ y.consume = x.consume
  BY <1>1, Zenon DEF Handle
<1>3. Place(y) = Place(x)
  BY <1>2, Zenon DEF Place
<1> QED BY <1>1, <1>2, <1>3, Zenon DEF PcBecomes

\* Nobody outside C changes.
Only(C) == \A k \in Handles \ C : handle'[k] = handle[k]

LEMMA Replaced ==
  ASSUME TypeOK, NEW h \in Handles, NEW y \in Handle, handle' = [handle EXCEPT ![h] = y]
  PROVE  handle' \in [Handles -> Handle] /\ handle'[h] = y /\ Only({h})
BY Zenon DEF TypeOK, Only

LEMMA GotoShape ==
  ASSUME TypeOK, NEW h \in Handles, NEW pc \in PCs, Goto(h, pc)
  PROVE  handle' \in [Handles -> Handle] /\ Only({h}) /\ PcBecomes(handle[h], handle'[h], pc)
<1>1. handle[h] \in Handle /\ handle' = [handle EXCEPT ![h] = [handle[h] EXCEPT !.pc = pc]]
  BY Zenon DEF TypeOK, Goto
<1> QED BY <1>1, PcFields, Replaced, Zenon

LEMMA FreeType == FreeHandle \in Handle /\ FreeHandle.pc = "free"
<1>1. NoHandle \in Handles \cup {NoHandle} /\ 0 \in 0 .. MAX_DEPTH /\ 1 \in 1 .. N
  BY DescriptorsAssumption
<1> QED BY <1>1, Zenon DEF FreeHandle, Handle, PCs
----------------------------------------------------------------------------
(* How many there are of each kind *)

\* A number that was n and is m, when one member joins or leaves.
Steps(n, m, was, is) ==
  /\ ~was /\ is => m = n + 1
  /\ was /\ ~is => m = n - 1
  /\ (was <=> is) => m = n

\* Replacing x by y makes no difference at s.
SameAt(x, y, s) ==
  /\ IsWriter(x, s) <=> IsWriter(y, s)
  /\ IsA(x, s) <=> IsA(y, s)
  /\ IsB(x, s) <=> IsB(y, s)
  /\ ClearsB(x, s) <=> ClearsB(y, s)
  /\ IsWriter(x, s) => x.pc = y.pc

OthersSame(j, s) == \A k \in Handles : k # j => SameAt(handle[k], handle'[k], s)

LEMMA Sizes ==
  ASSUME NEW S \in SUBSET Handles, NEW j \in Handles
  PROVE  /\ Cardinality(S) \in Nat /\ Cardinality(S) < RC - 1
         /\ Cardinality(S) = 0 <=> S = {}
         /\ j \notin S => Cardinality(S) + 1 < RC - 1
         /\ \A T \in SUBSET Handles : T \ {j} = S \ {j} =>
              Steps(Cardinality(S), Cardinality(T), j \in S, j \in T)
<1>1. IsFiniteSet(Handles) /\ RC \in Nat /\ Cardinality(Handles) + 1 < RC /\ Cardinality(Handles) \in Nat
  BY DescriptorsAssumption, FS_CardinalityType, Zenon
<1>2. \A T \in SUBSET Handles : IsFiniteSet(T) /\ Cardinality(T) \in Nat /\ Cardinality(T) <= Cardinality(Handles)
  BY <1>1, FS_Subset, FS_CardinalityType, Zenon
<1>3. Cardinality(S) = 0 <=> S = {}
  BY <1>2, FS_EmptySet, Zenon
<1>4. j \notin S => S \cup {j} \in SUBSET Handles /\ Cardinality(S \cup {j}) = Cardinality(S) + 1
  BY <1>2, FS_AddElement, Zenon
<1>5. ASSUME NEW T \in SUBSET Handles, T \ {j} = S \ {j}
      PROVE  Steps(Cardinality(S), Cardinality(T), j \in S, j \in T)
  <2>1. CASE j \in T /\ j \notin S
    <3>1. T = S \cup {j}
      BY <1>5, <2>1, Zenon
    <3> QED BY <1>4, <2>1, <3>1, Zenon DEF Steps
  <2>2. CASE j \in S /\ j \notin T
    <3>1. S = T \cup {j} /\ Cardinality(T \cup {j}) = Cardinality(T) + 1
      BY <1>2, <1>5, <2>2, FS_AddElement
    <3> QED BY <1>2, <2>2, <3>1 DEF Steps
  <2>3. CASE j \in S <=> j \in T
    <3>1. S = T
      BY <1>5, <2>3
    <3> QED BY <2>3, <3>1, Zenon DEF Steps
  <2> QED BY <2>1, <2>2, <2>3, Zenon
<1> QED BY <1>1, <1>2, <1>3, <1>4, <1>5

\* One handle joins, or leaves.
LEMMA Changes ==
  ASSUME NEW s, NEW j \in Handles, OthersSame(j, s)
  PROVE  /\ Steps(NumW(s), NumW(s)', IsWriter(handle[j], s), IsWriter(handle'[j], s))
         /\ Steps(NumA(s), NumA(s)', IsA(handle[j], s), IsA(handle'[j], s))
         /\ Steps(NumB(s), NumB(s)', IsB(handle[j], s), IsB(handle'[j], s))
         /\ Steps(NumC(s), NumC(s)', ClearsB(handle[j], s), ClearsB(handle'[j], s))
         /\ \A k \in Writers(s)' : k # j => k \in Writers(s) /\ handle'[k].pc = handle[k].pc
<1>1. Steps(NumW(s), NumW(s)', IsWriter(handle[j], s), IsWriter(handle'[j], s))
  <2>1. Writers(s) \in SUBSET Handles /\ Writers(s)' \in SUBSET Handles /\ Writers(s)' \ {j} = Writers(s) \ {j}
    BY Zenon DEF OthersSame, SameAt, Writers
  <2>2. Steps(NumW(s), NumW(s)', j \in Writers(s), j \in Writers(s)')
    BY <2>1, Sizes, Zenon DEF NumW
  <2> QED BY <2>2, Zenon DEF Steps, Writers
<1>2. Steps(NumA(s), NumA(s)', IsA(handle[j], s), IsA(handle'[j], s))
  <2>1. HoldersA(s) \in SUBSET Handles /\ HoldersA(s)' \in SUBSET Handles /\ HoldersA(s)' \ {j} = HoldersA(s) \ {j}
    BY Zenon DEF OthersSame, SameAt, HoldersA
  <2>2. Steps(NumA(s), NumA(s)', j \in HoldersA(s), j \in HoldersA(s)')
    BY <2>1, Sizes DEF NumA
  <2> QED BY <2>2 DEF Steps, HoldersA
<1>3. Steps(NumB(s), NumB(s)', IsB(handle[j], s), IsB(handle'[j], s))
  <2>1. HoldersB(s) \in SUBSET Handles /\ HoldersB(s)' \in SUBSET Handles /\ HoldersB(s)' \ {j} = HoldersB(s) \ {j}
    BY Zenon DEF OthersSame, SameAt, HoldersB
  <2>2. Steps(NumB(s), NumB(s)', j \in HoldersB(s), j \in HoldersB(s)')
    BY <2>1, Sizes DEF NumB
  <2> QED BY <2>2 DEF Steps, HoldersB
<1>4. Steps(NumC(s), NumC(s)', ClearsB(handle[j], s), ClearsB(handle'[j], s))
  <2>1. ClearersB(s) \in SUBSET Handles /\ ClearersB(s)' \in SUBSET Handles /\ ClearersB(s)' \ {j} = ClearersB(s) \ {j}
    BY Zenon DEF OthersSame, SameAt, ClearersB
  <2>2. Steps(NumC(s), NumC(s)', j \in ClearersB(s), j \in ClearersB(s)')
    BY <2>1, Sizes DEF NumC
  <2> QED BY <2>2 DEF Steps, ClearersB
<1>5. \A k \in Writers(s)' : k # j => k \in Writers(s) /\ handle'[k].pc = handle[k].pc
  BY Zenon DEF OthersSame, SameAt, Writers
<1> QED BY <1>1, <1>2, <1>3, <1>4, <1>5, Zenon

\* The numbers at one place.
LEMMA Tally ==
  ASSUME NEW s
  PROVE  /\ NumW(s) \in Nat /\ NumA(s) \in Nat /\ NumB(s) \in Nat /\ NumC(s) \in Nat
         /\ NumW(s) = 0 /\ NumA(s) = 0 => NumB(s) = 0 /\ NumC(s) = 0
         /\ \A j \in Handles : /\ IsWriter(handle[j], s) => NumW(s) > 0
                               /\ IsA(handle[j], s) => NumA(s) > 0
                               /\ IsB(handle[j], s) => NumB(s) > 0
                               /\ ClearsB(handle[j], s) => NumC(s) > 0
                               /\ NumA(s) < RC - 1 /\ (~IsA(handle[j], s) => NumA(s) + 1 < RC - 1)
                               /\ NumB(s) < RC - 1 /\ (~IsB(handle[j], s) => NumB(s) + 1 < RC - 1)
<1>1. /\ Writers(s) \in SUBSET Handles /\ HoldersA(s) \in SUBSET Handles
      /\ HoldersB(s) \in SUBSET Handles /\ ClearersB(s) \in SUBSET Handles
  BY Zenon DEF Writers, HoldersA, HoldersB, ClearersB
<1>2. HoldersB(s) \cup ClearersB(s) \subseteq HoldersA(s) \cup Writers(s)
  BY Zenon DEF Writers, HoldersA, HoldersB, ClearersB, IsWriter, IsA, IsB, ClearsB, Alone, Counted
<1>3. CASE Handles = {}
  BY <1>1, <1>3, FS_EmptySet DEF NumW, NumA, NumB, NumC
<1>4. ASSUME NEW j \in Handles
      PROVE  /\ NumW(s) \in Nat /\ NumA(s) \in Nat /\ NumB(s) \in Nat /\ NumC(s) \in Nat
             /\ NumW(s) = 0 <=> Writers(s) = {}
             /\ NumA(s) = 0 <=> HoldersA(s) = {}
             /\ NumB(s) = 0 <=> HoldersB(s) = {}
             /\ NumC(s) = 0 <=> ClearersB(s) = {}
             /\ NumA(s) < RC - 1 /\ (j \notin HoldersA(s) => NumA(s) + 1 < RC - 1)
             /\ NumB(s) < RC - 1 /\ (j \notin HoldersB(s) => NumB(s) + 1 < RC - 1)
  BY <1>1, <1>4, Sizes, Zenon DEF NumW, NumA, NumB, NumC
<1>5. CASE Handles # {}
  <2>1. /\ NumW(s) \in Nat /\ NumA(s) \in Nat /\ NumB(s) \in Nat /\ NumC(s) \in Nat
        /\ NumW(s) = 0 /\ NumA(s) = 0 => NumB(s) = 0 /\ NumC(s) = 0
    BY <1>2, <1>4, <1>5, Zenon
  <2>2. ASSUME NEW j \in Handles
        PROVE  /\ IsWriter(handle[j], s) => NumW(s) > 0
               /\ IsA(handle[j], s) => NumA(s) > 0
               /\ IsB(handle[j], s) => NumB(s) > 0
               /\ ClearsB(handle[j], s) => NumC(s) > 0
               /\ NumA(s) < RC - 1 /\ (~IsA(handle[j], s) => NumA(s) + 1 < RC - 1)
               /\ NumB(s) < RC - 1 /\ (~IsB(handle[j], s) => NumB(s) + 1 < RC - 1)
    BY <1>4, <2>1 DEF Writers, HoldersA, HoldersB, ClearersB
  <2> QED BY <2>1, <2>2, Zenon
<1> QED BY <1>3, <1>5, Zenon

\* A handle that has a place to itself, or has the only reference to it.
LEMMA Single ==
  ASSUME NEW s, NEW j \in Handles, IsWriter(handle[j], s) \/ IsA(handle[j], s), NumW(s) + NumA(s) = 1
  PROVE  /\ NumB(s) = (IF IsB(handle[j], s) THEN 1 ELSE 0)
         /\ NumC(s) = (IF ClearsB(handle[j], s) THEN 1 ELSE 0)
         /\ \A k \in Handles : IsWriter(handle[k], s) \/ IsA(handle[k], s) => k = j
<1>1. PICK S : S = Writers(s) \cup HoldersA(s)
  BY Zenon
<1>2. /\ S \in SUBSET Handles /\ j \in S /\ Writers(s) \in SUBSET Handles /\ HoldersA(s) \in SUBSET Handles
      /\ HoldersB(s) \subseteq S /\ ClearersB(s) \subseteq S /\ Writers(s) \cap HoldersA(s) = {}
  BY <1>1, Zenon DEF Writers, HoldersA, HoldersB, ClearersB, IsWriter, IsA, IsB, ClearsB, Alone, Counted
<1>3. S = {j}
  <2>1. (NumW(s) = 0 /\ NumA(s) = 1) \/ (NumA(s) = 0 /\ NumW(s) = 1)
    <3>1. NumW(s) \in Nat /\ NumA(s) \in Nat
      BY Tally, Zenon
    <3> QED BY <3>1
  <2>2. (NumW(s) = 0 => Writers(s) = {}) /\ (NumA(s) = 0 => HoldersA(s) = {})
    BY <1>2, Sizes, Zenon DEF NumW, NumA
  <2>3. Cardinality(S) = 1
    BY <1>1, <2>1, <2>2, Zenon DEF NumW, NumA
  <2>4. \A k \in Handles : k \notin S \ {j}
    <3> SUFFICES ASSUME NEW k \in S, k # j PROVE FALSE
      BY <1>2, Zenon
    <3>1. S \ {j} \in SUBSET Handles /\ (S \ {j}) \ {j} = S \ {j} /\ j \notin S \ {j}
      BY <1>2, Zenon
    <3>2. Cardinality(S \ {j}) = 0
      BY <1>2, <2>3, <3>1, Sizes DEF Steps
    <3>3. S \ {j} = {}
      BY <1>2, <3>1, <3>2, Sizes, Zenon
    <3> QED BY <3>3, Zenon
  <2> QED BY <1>2, <2>4, Zenon
<1>4. HoldersB(s) = (IF IsB(handle[j], s) THEN {j} ELSE {}) /\ ClearersB(s) = (IF ClearsB(handle[j], s) THEN {j} ELSE {})
  BY <1>2, <1>3, Zenon DEF HoldersB, ClearersB
<1> QED BY <1>1, <1>3, <1>4, FS_EmptySet, FS_Singleton, Zenon DEF NumB, NumC, Writers, HoldersA
----------------------------------------------------------------------------
(* What a step leaves alone *)

\* A handle that is somewhere else, or is not counted anywhere.
Away(x, s) == x.pc \notin Alone \cup Counted \/ Place(x) # s

LEMMA AwayFrom ==
  ASSUME NEW x, NEW s, Away(x, s)
  PROVE  ~IsWriter(x, s) /\ ~IsA(x, s) /\ ~IsB(x, s) /\ ~ClearsB(x, s)
BY Zenon DEF Away, IsWriter, IsA, IsB, ClearsB, Alone, Counted

LEMMA Unaffected ==
  ASSUME NEW s, \A k \in Handles : SameAt(handle[k], handle'[k], s), slot'[s] = slot[s], Counts(s), Values(s)
  PROVE  Counts(s)' /\ Values(s)'
<1>1. /\ Writers(s)' = Writers(s) /\ HoldersA(s)' = HoldersA(s)
      /\ HoldersB(s)' = HoldersB(s) /\ ClearersB(s)' = ClearersB(s)
      /\ \A h \in Writers(s) : handle'[h].pc = handle[h].pc
  BY Zenon DEF SameAt, Writers, HoldersA, HoldersB, ClearersB
<1>2. NumW(s)' = NumW(s) /\ NumA(s)' = NumA(s) /\ NumB(s)' = NumB(s) /\ NumC(s)' = NumC(s)
  BY <1>1, Zenon DEF NumW, NumA, NumB, NumC
<1> QED BY <1>1, <1>2, Zenon DEF Counts, Values

\* What the handles hold changes for j only, and at p only.
MovesAt(j, p) ==
  /\ \A s : OthersSame(j, s)
  /\ \A s : s # p => Away(handle[j], s) /\ Away(handle'[j], s)

\* The numbers at p, when h moves there.
Recount(h, p) ==
  /\ NumW(p) \in Nat /\ NumA(p) \in Nat /\ NumB(p) \in Nat /\ NumC(p) \in Nat
  /\ Steps(NumW(p), NumW(p)', IsWriter(handle[h], p), IsWriter(handle'[h], p))
  /\ Steps(NumA(p), NumA(p)', IsA(handle[h], p), IsA(handle'[h], p))
  /\ Steps(NumB(p), NumB(p)', IsB(handle[h], p), IsB(handle'[h], p))
  /\ Steps(NumC(p), NumC(p)', ClearsB(handle[h], p), ClearsB(handle'[h], p))
  /\ \A k \in Writers(p)' : k # h => k \in Writers(p) /\ handle'[k].pc = handle[k].pc

LEMMA Moved ==
  ASSUME NEW h \in Handles, NEW p, MovesAt(h, p)
  PROVE  Recount(h, p)
<1>1. OthersSame(h, p)
  BY Zenon DEF MovesAt
<1> QED BY <1>1, Tally, Changes, Zenon DEF Recount

LEMMA SlotsFrame ==
  ASSUME IInv, NEW j \in Handles, NEW p, MovesAt(j, p), \A s \in Slots : s # p => slot'[s] = slot[s],
         p \in Slots => Counts(p)' /\ Values(p)'
  PROVE  \A s \in Slots : Counts(s)' /\ Values(s)'
<1> SUFFICES ASSUME NEW s \in Slots, s # p PROVE Counts(s)' /\ Values(s)'
  BY Zenon
<1>1. SameAt(handle[j], handle'[j], s)
  BY AwayFrom DEF MovesAt, SameAt
<1>2. \A k \in Handles : SameAt(handle[k], handle'[k], s)
  BY <1>1, Zenon DEF MovesAt, OthersSame
<1> QED BY <1>2, Unaffected, Zenon DEF IInv

\* The handles in C change, and no other.  Nobody else was called on one of them,
\* and what they were called on is not given away by another call.
Apart(C) ==
  /\ C \subseteq Handles /\ Only(C)
  /\ \A k \in Handles \ C : handle[k].src \notin C
  /\ \A i \in C : \/ handle'[i].src \in {NoHandle, handle[i].src}
                  \/ handle'[i].src \in Handles /\ handle[handle'[i].src].pc = "live"

LEMMA HandlesFrame ==
  ASSUME IInv, NEW C, Apart(C), tables \subseteq tables', next_id <= next_id', TypeOK',
         \A k \in Handles \ C : handle[k].pc \in Settled => mine(k)'.id = mine(k).id,
         \A k \in C : Owns(k)' /\ Source(k)' /\ Reached(k)'
  PROVE  \A k \in Handles : Owns(k)' /\ Source(k)' /\ Reached(k)'
<1> SUFFICES ASSUME NEW k \in Handles \ C PROVE Owns(k)' /\ Source(k)' /\ Reached(k)'
  BY Zenon
<1>1. /\ handle'[k] = handle[k] /\ Owns(k) /\ Source(k) /\ Reached(k) /\ handle[k] \in Handle
      /\ handle[k].src \in Handles \cup {NoHandle} /\ NoHandle \notin Handles
  BY DescriptorsAssumption, Zenon DEF Apart, Only, IInv, TypeOK, Handle
<1>2. Owns(k)'
  BY <1>1, Zenon DEF Owns
<1>3. Reached(k)'
  <2>1. handle[k].id \in Int /\ next_id \in Int /\ next_id' \in Int
    BY <1>1, DescriptorsAssumption DEF IInv, TypeOK, Handle, IDs, None
  <2> QED BY <1>1, <2>1 DEF Reached
<1>4. Source(k)'
  <2>1. CASE handle[k].src = NoHandle
    BY <1>1, <2>1, SMTT(30) DEF Source
  <2>2. CASE handle[k].src # NoHandle
    <3>1. handle'[handle[k].src] = handle[handle[k].src]
      BY <1>1, <2>2, Zenon DEF Apart, Only
    <3>2. ASSUME handle[k].consume, NEW i \in Handles, handle'[i].src = handle[k].src PROVE i = k
      <4>1. handle[handle[k].src].pc = "moved"
        BY <1>1, <2>2, <3>2, Zenon DEF Source
      <4>2. handle[i].src = handle[k].src
        BY <2>2, <3>2, <4>1, Zenon DEF Apart, Only
      <4> QED BY <1>1, <2>2, <3>2, <4>2, Zenon DEF Source
    <3> QED BY <1>1, <2>2, <3>1, <3>2 DEF Source
  <2> QED BY <2>1, <2>2, Zenon
<1> QED BY <1>2, <1>3, <1>4, Zenon

LEMMA KeepIds ==
  ASSUME IInv, \A s \in Slots : slot'[s].id = slot[s].id, next_id' = next_id, NEW C, Only(C),
         \A k \in C : handle'[k].pc \in Fresh => handle[k].pc \in Fresh /\ handle'[k].id = handle[k].id
  PROVE  Ids'
BY DEF IInv, Ids, Only

\* A handle with the id of another one is at most as far along its path.
LEMMA KeepReached ==
  ASSUME IInv, tables \subseteq tables', next_id' = next_id, NEW h \in Handles, NEW k \in Handles,
         handle'[k].id = handle[h].id, handle'[k].depth = handle[h].depth
  PROVE  Reached(k)'
BY Zenon DEF IInv, Reached

\* The first table.
LEMMA Root ==
  ASSUME IInv, NEW h \in Handles, NEW id
  PROVE  TableOf(id, 0) \in tables
<1>1. TableOf(id, 0) = TableOf(handle[h].id, 0)
  BY DEF TableOf
<1>2. 0 \in 0 .. handle[h].depth
  BY DescriptorsAssumption DEF IInv, TypeOK, Handle
<1> QED BY <1>1, <1>2, Zenon DEF IInv, Reached

\* Nobody was called on a handle that is not in the user's hands.
LEMMA NotSource ==
  ASSUME IInv, NEW h \in Handles, handle[h].pc \notin {"live", "moved"} \/ ~Borrowed(h)
  PROVE  \A k \in Handles : handle[k].src # h
<1> SUFFICES ASSUME NEW k \in Handles, handle[k].src = h PROVE FALSE
  BY Zenon
<1>1. Source(k) /\ h # NoHandle
  BY DescriptorsAssumption, Zenon DEF IInv
<1> QED BY <1>1, Zenon DEF Source, Borrowed
----------------------------------------------------------------------------
(* A handle goes on to another program point *)

\* h is at the slot p; p, and no other slot, becomes what the other parameters say.
Stands(h, p) ==
  /\ p = Place(handle[h]) /\ slot[p] = mine(h) /\ slot[p] \in Descriptor /\ handle[h] \in Handle
  /\ Counts(p) /\ Values(p) /\ Owns(h) /\ Source(h)
Puts(p, a, b, id, x, y) ==
  /\ slot' \in [Slots -> Descriptor] /\ \A s \in Slots : s # p => slot'[s] = slot[s]
  /\ slot'[p].rc_a = a /\ slot'[p].rc_b = b /\ slot'[p].id = id
  /\ slot'[p].slot_a = x /\ slot'[p].slot_b = y

LEMMA CountTypes ==
  /\ RC \in Nat /\ 1 < RC /\ 0 \in 0 .. RC - 1 /\ 1 \in 0 .. RC - 1
  /\ \A n \in 0 .. RC - 1 : Inc(n) \in 0 .. RC - 1 /\ Dec(n) \in 0 .. RC - 1
<1>1. RC \in Nat /\ 1 < RC
  BY DescriptorsAssumption, FS_CardinalityType
<1> QED BY <1>1 DEF Inc, Dec

\* Below the width of the counter, it counts.
LEMMA UpDown ==
  ASSUME NEW n \in Nat, RC \in Nat
  PROVE  (n + 1 < RC => Inc(n) = n + 1) /\ (0 < n /\ n <= RC => Dec(n) = n - 1)
BY DEF Inc, Dec

LEMMA Stand ==
  ASSUME IInv, NEW h \in Handles
  PROVE  \E p \in Slots : Stands(h, p)
BY Here, Zenon DEF Stands

LEMMA Put ==
  ASSUME IInv, NEW h \in Handles, NEW p \in Slots, Stands(h, p), NEW d \in Descriptor, Update(h, d)
  PROVE  Puts(p, d.rc_a, d.rc_b, d.id, d.slot_a, d.slot_b)
BY Here, Zenon DEF Update, TypeOK, Stands, Puts

LEMMA PutRcA ==
  ASSUME IInv, NEW h \in Handles, NEW p \in Slots, Stands(h, p), NEW v \in 0 .. RC - 1,
         Update(h, [mine(h) EXCEPT !.rc_a = v])
  PROVE  Puts(p, v, slot[p].rc_b, slot[p].id, slot[p].slot_a, slot[p].slot_b)
<1>1. PICK d : d = [slot[p] EXCEPT !.rc_a = v]
  BY Zenon
<1>2. /\ d \in Descriptor /\ d.rc_a = v /\ d.rc_b = slot[p].rc_b /\ d.id = slot[p].id
      /\ d.slot_a = slot[p].slot_a /\ d.slot_b = slot[p].slot_b
  BY <1>1, Zenon DEF Stands, Descriptor
<1>3. Update(h, d)
  BY <1>1, Zenon DEF Stands
<1> QED BY <1>2, <1>3, Put, Zenon

LEMMA PutRcB ==
  ASSUME IInv, NEW h \in Handles, NEW p \in Slots, Stands(h, p), NEW v \in 0 .. RC - 1,
         Update(h, [mine(h) EXCEPT !.rc_b = v])
  PROVE  Puts(p, slot[p].rc_a, v, slot[p].id, slot[p].slot_a, slot[p].slot_b)
<1>1. PICK d : d = [slot[p] EXCEPT !.rc_b = v]
  BY Zenon
<1>2. /\ d \in Descriptor /\ d.rc_a = slot[p].rc_a /\ d.rc_b = v /\ d.id = slot[p].id
      /\ d.slot_a = slot[p].slot_a /\ d.slot_b = slot[p].slot_b
  BY <1>1, Zenon DEF Stands, Descriptor
<1>3. Update(h, d)
  BY <1>1, Zenon DEF Stands
<1> QED BY <1>2, <1>3, Put, Zenon

\* What h may be doing before and after.
MayGoto(h, pc) ==
  LET x == handle[h]
  IN /\ x.pc \notin {"free", "search"} /\ (x.pc \in {"live", "moved"} => ~Borrowed(h))
     /\ pc \notin {"free", "search", "clone_b", "moved"}
     /\ x.consume => pc \in {"ref_a", "ref_b", "drop_a"}
     /\ pc \in Settled => slot'[Place(x)].id = x.id
     /\ pc \in Initialising \cup {"ref_b", "drop_b", "clear_b"} => x.is_b
     /\ pc \in Initialising \cup {"live"} => x.src = NoHandle

LEMMA GotoMoves ==
  ASSUME IInv, NEW h \in Handles, NEW pc \in PCs, Goto(h, pc)
  PROVE  MovesAt(h, Place(handle[h])) /\ PcBecomes(handle[h], handle'[h], pc)
<1>1. Only({h}) /\ PcBecomes(handle[h], handle'[h], pc)
  BY Here, GotoShape, Zenon
<1>2. \A s : OthersSame(h, s)
  BY <1>1, Zenon DEF Only, OthersSame, SameAt
<1> QED BY <1>1, <1>2, Zenon DEF MovesAt, Away, PcBecomes

LEMMA GotoHandles ==
  ASSUME IInv, NEW h \in Handles, NEW pc \in PCs, Goto(h, pc), MayGoto(h, pc), TypeOK',
         UNCHANGED <<tables, next_id>>,
         \A k \in Handles \ {h} : handle[k].pc \in Settled => mine(k)'.id = mine(k).id
  PROVE  \A k \in Handles : Owns(k)' /\ Source(k)' /\ Reached(k)'
<1>1. /\ TypeOK /\ handle[h] \in Handle /\ Owns(h) /\ Source(h) /\ Reached(h)
      /\ next_id \in Nat
  BY Here DEF TypeOK
<1>2. Only({h}) /\ PcBecomes(handle[h], handle'[h], pc)
  BY <1>1, GotoShape, Zenon
<1>3. \A k \in Handles : handle[k].src # h
  BY NotSource, Zenon DEF MayGoto
<1>4. Owns(h)'
  BY <1>1, <1>2, Zenon DEF Owns, MayGoto, mine, PcBecomes, Initialising
<1>5. Source(h)'
  <2>1. handle[h].src # NoHandle => handle'[handle[h].src] = handle[handle[h].src]
    BY <1>1, <1>2, <1>3, Zenon DEF Only, Handle
  <2>2. \A k \in Handles : handle'[k].src = handle[k].src
    BY <1>2, Zenon DEF Only, PcBecomes
  <2> QED BY <1>1, <1>2, <2>1, <2>2, ZenonT(40) DEF Source, MayGoto, PcBecomes
<1>6. Reached(h)'
  BY <1>2, KeepReached, Zenon DEF PcBecomes
<1>7. Apart({h})
  BY <1>2, <1>3, Zenon DEF Apart, PcBecomes
<1> QED BY <1>1, <1>4, <1>5, <1>6, <1>7, HandlesFrame

LEMMA GotoStep ==
  ASSUME IInv, NEW h \in Handles, NEW p \in Slots, NEW pc \in PCs, p = Place(handle[h]),
         slot' \in [Slots -> Descriptor], \A s \in Slots : s # p => slot'[s] = slot[s],
         slot'[p].id = slot[p].id, Goto(h, pc), UNCHANGED <<tables, next_id>>, MayGoto(h, pc),
         pc \in Fresh => handle[h].pc \in Fresh, Counts(p)', Values(p)'
  PROVE  IInv'
<1>1. Only({h}) /\ PcBecomes(handle[h], handle'[h], pc) /\ TypeOK'
  BY Here, GotoShape, Zenon DEF TypeOK
<1>2. \A s \in Slots : Counts(s)' /\ Values(s)'
  BY GotoMoves, SlotsFrame, Zenon
<1>3. \A k \in Handles : Owns(k)' /\ Source(k)' /\ Reached(k)'
  <2>1. \A k \in Handles \ {h} : mine(k)'.id = mine(k).id
    BY <1>1, Here, Zenon DEF Only, mine
  <2> QED BY <1>1, <2>1, GotoHandles, Zenon
<1>4. Ids'
  BY <1>1, KeepIds, Zenon DEF PcBecomes
<1> QED BY <1>1, <1>2, <1>3, <1>4, Zenon DEF IInv
----------------------------------------------------------------------------
(* Creating a descriptor *)

LEMMA reserveInv ==
  ASSUME IInv, NEW h \in Handles, reserve(h)
  PROVE  IInv'
<1>1. PICK p \in Slots : Stands(h, p)
  BY Stand, Zenon
<1>2. Puts(p, 1, slot[p].rc_b, slot[p].id, slot[p].slot_a, slot[p].slot_b) /\ slot[p].rc_a = 0
  BY <1>1, CountTypes, PutRcA, Zenon DEF reserve, Stands
<1>3. /\ handle[h].pc = "alloc" /\ "reset_b" \in PCs /\ Goto(h, "reset_b") /\ UNCHANGED <<tables, next_id>>
      /\ MovesAt(h, p) /\ PcBecomes(handle[h], handle'[h], "reset_b")
  BY <1>1, GotoMoves, Zenon DEF reserve, At, PCs, Stands
<1>4. /\ ~IsWriter(handle[h], p) /\ ~IsA(handle[h], p) /\ ~IsB(handle[h], p) /\ ~ClearsB(handle[h], p)
      /\ IsWriter(handle'[h], p) /\ ~IsA(handle'[h], p) /\ ~IsB(handle'[h], p) /\ ~ClearsB(handle'[h], p)
  BY <1>1, <1>3, Zenon DEF Stands, PcBecomes, IsWriter, IsA, IsB, ClearsB, Alone, Counted
<1>5. /\ NumW(p) = 0 /\ NumA(p) = 0 /\ NumB(p) = 0 /\ NumC(p) = 0
      /\ NumW(p)' = 1 /\ NumA(p)' = 0 /\ NumB(p)' = 0 /\ NumC(p)' = 0
  <2>1. /\ NumW(p) \in Nat /\ NumA(p) \in Nat /\ NumB(p) \in Nat /\ NumC(p) \in Nat /\ Counts(p)
        /\ NumW(p) = 0 /\ NumA(p) = 0 => NumB(p) = 0 /\ NumC(p) = 0
    BY <1>1, Tally, Zenon DEF Stands
  <2>2. NumW(p) = 0 /\ NumA(p) = 0 /\ NumB(p) = 0 /\ NumC(p) = 0
    BY <1>2, <2>1 DEF Counts
  <2>3. Recount(h, p)
    BY <1>3, Moved, Zenon
  <2> QED BY <1>4, <2>2, <2>3 DEF Recount, Steps
<1>6. Counts(p)' /\ Values(p)'
  <2>1. \A k \in Writers(p) : FALSE
    BY <1>5, Tally DEF Writers
  <2>2. \A k \in Writers(p)' : k # h => k \in Writers(p)
    BY <1>3, Moved, Zenon DEF Recount
  <2>3. \A k \in Writers(p)' : handle'[k].pc = "reset_b"
    BY <1>3, <2>1, <2>2, Zenon DEF PcBecomes
  <2>4. Counts(p) /\ Values(p)
    BY <1>1, Zenon DEF Stands
  <2>5. slot'[p].rc_a = 1 /\ slot'[p].rc_b = 0 /\ slot'[p].slot_a = None /\ slot'[p].slot_b = None
    BY <1>2, <1>5, <2>4, Zenon DEF Puts, Counts, Values
  <2> QED BY <1>5, <2>3, <2>5 DEF Counts, Values, WriterValues
<1>7. MayGoto(h, "reset_b")
  BY <1>1, <1>3, Zenon DEF MayGoto, Stands, Owns, Source, Settled, Initialising
<1> QED BY <1>1, <1>2, <1>3, <1>6, <1>7, GotoStep, Zenon DEF Stands, Puts, Fresh

\* Somebody who is alone with the slot.
LEMMA WriterAlone ==
  ASSUME NEW h \in Handles, NEW p, Stands(h, p), handle[h].pc \in Alone
  PROVE  /\ NumW(p) = 1 /\ NumA(p) = 0 /\ NumC(p) = 0 /\ slot[p].rc_a = 1
         /\ NumB(p) = (IF handle[h].pc = "commit_a" THEN 1 ELSE 0) /\ slot[p].rc_b = NumB(p)
         /\ WriterValues(handle[h].pc, slot[p])
         /\ \A k \in Handles : handle[k].pc \in Alone \cup Counted /\ Place(handle[k]) = p => k = h
<1>1. /\ IsWriter(handle[h], p) /\ ~ClearsB(handle[h], p) /\ h \in Writers(p)
      /\ IsB(handle[h], p) <=> handle[h].pc = "commit_a"
  BY Zenon DEF Stands, IsWriter, IsB, ClearsB, Alone, Writers
<1>2. NumW(p) = 1 /\ NumA(p) = 0 /\ slot[p].rc_a = 1 /\ slot[p].rc_b = NumB(p)
  BY <1>1, Tally, Zenon DEF Stands, Counts
<1>3. NumB(p) = (IF handle[h].pc = "commit_a" THEN 1 ELSE 0) /\ NumC(p) = 0
  BY <1>1, <1>2, Single
<1>4. \A k \in Handles : handle[k].pc \in Alone \cup Counted /\ Place(handle[k]) = p => k = h
  BY <1>1, <1>2, Single DEF IsWriter, IsA
<1> QED BY <1>1, <1>2, <1>3, <1>4, Zenon DEF Stands, Values

LEMMA WriterMoves ==
  ASSUME NEW h \in Handles, NEW p, Stands(h, p), handle[h].pc \in Alone, NEW pc \in Alone,
         MovesAt(h, p), PcBecomes(handle[h], handle'[h], pc), slot'[p].rc_a = slot[p].rc_a,
         slot'[p].rc_b = (IF pc = "commit_a" THEN 1 ELSE 0),
         WriterValues(handle[h].pc, slot[p]) => WriterValues(pc, slot'[p])
  PROVE  Counts(p)' /\ Values(p)'
<1>1. /\ NumW(p) = 1 /\ NumA(p) = 0 /\ NumC(p) = 0 /\ slot[p].rc_a = 1
      /\ NumB(p) = (IF handle[h].pc = "commit_a" THEN 1 ELSE 0)
      /\ WriterValues(pc, slot'[p]) /\ handle'[h].pc = pc
      /\ \A k \in Handles : handle[k].pc \in Alone /\ Place(handle[k]) = p => k = h
  BY WriterAlone, Zenon DEF PcBecomes
<1>2. /\ IsWriter(handle[h], p) /\ ~IsA(handle[h], p) /\ ~ClearsB(handle[h], p)
      /\ IsWriter(handle'[h], p) /\ ~IsA(handle'[h], p) /\ ~ClearsB(handle'[h], p)
      /\ IsB(handle[h], p) <=> handle[h].pc = "commit_a"
      /\ IsB(handle'[h], p) <=> pc = "commit_a"
  BY Zenon DEF Stands, PcBecomes, IsWriter, IsA, IsB, ClearsB, Alone, Counted
<1>3. Recount(h, p)
  BY Moved, ZenonT(40)
<1>4. NumW(p)' = 1 /\ NumA(p)' = 0 /\ NumC(p)' = 0 /\ NumB(p)' = (IF pc = "commit_a" THEN 1 ELSE 0)
  BY <1>1, <1>2, <1>3 DEF Recount, Steps
<1>5. \A k \in Writers(p)' : k = h
  BY <1>1, <1>3, Zenon DEF Recount, Writers, IsWriter
<1> QED BY <1>1, <1>4, <1>5 DEF Counts, Values

LEMMA ReserveClearBInv ==
  ASSUME IInv, NEW h \in Handles, ReserveClearB(h)
  PROVE  IInv'
<1>1. PICK p \in Slots : Stands(h, p)
  BY Stand
<1>2. Puts(p, slot[p].rc_a, 0, slot[p].id, slot[p].slot_a, slot[p].slot_b)
  BY <1>1, CountTypes, PutRcB, Zenon DEF ReserveClearB
<1>3. /\ handle[h].pc = "reset_b" /\ "set_id" \in PCs /\ Goto(h, "set_id") /\ UNCHANGED <<tables, next_id>>
      /\ MovesAt(h, p) /\ PcBecomes(handle[h], handle'[h], "set_id")
  BY <1>1, GotoMoves, Zenon DEF ReserveClearB, At, PCs, Stands
<1>4. Counts(p)' /\ Values(p)'
  BY <1>1, <1>2, <1>3, WriterMoves, Zenon DEF Puts, WriterValues, Alone
<1>5. MayGoto(h, "set_id")
  BY <1>1, <1>3, Zenon DEF MayGoto, Stands, Owns, Source, Settled, Initialising
<1> QED BY <1>1, <1>2, <1>3, <1>4, <1>5, GotoStep, Zenon DEF Stands, Puts, Fresh

LEMMA CommitBInv ==
  ASSUME IInv, NEW h \in Handles, CommitB(h)
  PROVE  IInv'
<1>1. PICK p \in Slots : Stands(h, p)
  BY Stand
<1>2. Puts(p, slot[p].rc_a, Inc(slot[p].rc_b), slot[p].id, slot[p].slot_a, slot[p].slot_b)
  BY <1>1, CountTypes, PutRcB, Zenon DEF CommitB, Stands, Descriptor
<1>3. /\ handle[h].pc = "commit_b" /\ "commit_a" \in PCs /\ Goto(h, "commit_a") /\ UNCHANGED <<tables, next_id>>
      /\ MovesAt(h, p) /\ PcBecomes(handle[h], handle'[h], "commit_a")
  BY <1>1, GotoMoves, Zenon DEF CommitB, At, PCs, Stands
<1>4. Counts(p)' /\ Values(p)'
  <2>1. Inc(slot[p].rc_b) = 1
    <3>1. slot[p].rc_b = 0 /\ 1 < RC /\ RC \in Nat
      BY <1>1, <1>3, WriterAlone, CountTypes, Zenon DEF Alone
    <3> QED BY <3>1, UpDown
  <2> QED BY <1>1, <1>2, <1>3, <2>1, WriterMoves, Zenon DEF Puts, WriterValues, Alone
<1>5. MayGoto(h, "commit_a")
  BY <1>1, <1>2, <1>3, ZenonT(40) DEF MayGoto, Stands, Puts, Owns, Source, Settled, Initialising
<1> QED BY <1>1, <1>2, <1>3, <1>4, <1>5, GotoStep, Zenon DEF Stands, Puts, Fresh

\* The reference to slot B comes first; with the other one, the initialiser is a handle.
LEMMA CommitAInv ==
  ASSUME IInv, NEW h \in Handles, CommitA(h)
  PROVE  IInv'
<1>1. PICK p \in Slots : Stands(h, p)
  BY Stand
<1>2. Puts(p, Inc(slot[p].rc_a), slot[p].rc_b, slot[p].id, slot[p].slot_a, slot[p].slot_b)
  BY <1>1, CountTypes, PutRcA, Zenon DEF CommitA, Stands, Descriptor
<1>3. /\ handle[h].pc = "commit_a" /\ "live" \in PCs /\ Goto(h, "live") /\ UNCHANGED <<tables, next_id>>
      /\ MovesAt(h, p) /\ PcBecomes(handle[h], handle'[h], "live") /\ handle[h].is_b
  BY <1>1, GotoMoves, Zenon DEF CommitA, At, PCs, Stands, Owns, Initialising
<1>4. /\ NumW(p) = 1 /\ NumA(p) = 0 /\ NumB(p) = 1 /\ NumC(p) = 0 /\ slot[p].rc_a = 1 /\ slot[p].rc_b = 1
      /\ WriterValues("commit_a", slot[p]) /\ \A k \in Handles : IsWriter(handle[k], p) => k = h
  BY <1>1, <1>3, WriterAlone, ZenonT(40) DEF Alone, IsWriter
<1>5. /\ IsWriter(handle[h], p) /\ ~IsA(handle[h], p) /\ IsB(handle[h], p) /\ ~ClearsB(handle[h], p)
      /\ ~IsWriter(handle'[h], p) /\ IsA(handle'[h], p) /\ IsB(handle'[h], p) /\ ~ClearsB(handle'[h], p)
  BY <1>1, <1>3, Zenon DEF Stands, PcBecomes, IsWriter, IsA, IsB, ClearsB, Alone, Counted
<1>6. NumW(p)' = 0 /\ NumA(p)' = 1 /\ NumB(p)' = 1 /\ NumC(p)' = 0 /\ Writers(p)' = {}
  <2>1. Recount(h, p)
    BY <1>3, Moved, Zenon
  <2>2. NumW(p)' = 0 /\ NumA(p)' = 1 /\ NumB(p)' = 1 /\ NumC(p)' = 0
    BY <1>4, <1>5, <2>1 DEF Recount, Steps
  <2>3. \A k \in Writers(p)' : FALSE
    BY <1>4, <1>5, <2>1, Zenon DEF Recount, Writers
  <2> QED BY <2>2, <2>3, Zenon
<1>7. Inc(slot[p].rc_a) = 2
  <2>1. RC \in Nat /\ 2 < RC
    BY <1>4, <1>5, CountTypes, Tally, SMTT(30)
  <2> QED BY <1>4, <2>1, UpDown
<1>8. Counts(p)' /\ Values(p)'
  BY <1>2, <1>4, <1>6, <1>7 DEF Puts, Counts, Values, WriterValues
<1>9. MayGoto(h, "live")
  BY <1>1, <1>2, <1>3, ZenonT(40) DEF MayGoto, Stands, Puts, Owns, Source, Settled, Initialising
<1> QED BY <1>1, <1>2, <1>3, <1>8, <1>9, GotoStep, Zenon DEF Stands, Puts, Fresh

LEMMA PutB ==
  ASSUME IInv, NEW h \in Handles, NEW p \in Slots, Stands(h, p), Update(h, [mine(h) EXCEPT !.slot_b = None])
  PROVE  Puts(p, slot[p].rc_a, slot[p].rc_b, slot[p].id, slot[p].slot_a, None)
<1>1. PICK d : d = [slot[p] EXCEPT !.slot_b = None]
  BY Zenon
<1>2. /\ d \in Descriptor /\ d.rc_a = slot[p].rc_a /\ d.rc_b = slot[p].rc_b /\ d.id = slot[p].id
      /\ d.slot_a = slot[p].slot_a /\ d.slot_b = None
  BY <1>1, Zenon DEF Stands, Descriptor
<1>3. Update(h, d)
  BY <1>1, Zenon DEF Stands
<1> QED BY <1>2, <1>3, Put, Zenon

LEMMA DropInitialiserInv ==
  ASSUME IInv, NEW h \in Handles, DropInitialiser(h)
  PROVE  IInv'
<1>1. PICK p \in Slots : Stands(h, p)
  BY Stand
<1>2. Puts(p, slot[p].rc_a, slot[p].rc_b, slot[p].id, slot[p].slot_a, None)
  BY <1>1, PutB, Zenon DEF DropInitialiser
<1>3. /\ handle[h].pc = "init" /\ "clear_a" \in PCs /\ Goto(h, "clear_a") /\ UNCHANGED <<tables, next_id>>
      /\ MovesAt(h, p) /\ PcBecomes(handle[h], handle'[h], "clear_a")
  BY <1>1, GotoMoves, Zenon DEF DropInitialiser, At, PCs, Stands
<1>4. Counts(p)' /\ Values(p)'
  <2>1. slot[p].rc_b = 0
    BY <1>1, <1>3, WriterAlone, Zenon DEF Alone
  <2> QED BY <1>1, <1>2, <1>3, <2>1, WriterMoves, Zenon DEF Puts, WriterValues, Alone
<1>5. MayGoto(h, "clear_a")
  BY <1>1, <1>3, Zenon DEF MayGoto, Stands, Owns, Source, Settled, Initialising
<1> QED BY <1>1, <1>2, <1>3, <1>4, <1>5, GotoStep, Zenon DEF Stands, Puts, Fresh

LEMMA _clearInv ==
  ASSUME IInv, NEW h \in Handles, _clear(h)
  PROVE  IInv'
<1>1. PICK p \in Slots : Stands(h, p)
  BY Stand
<1>2. Puts(p, slot[p].rc_a, slot[p].rc_b, slot[p].id, None, slot[p].slot_b)
  <2>1. PICK d : d = [slot[p] EXCEPT !.slot_a = None]
    BY Zenon
  <2>2. /\ d \in Descriptor /\ d.rc_a = slot[p].rc_a /\ d.rc_b = slot[p].rc_b /\ d.id = slot[p].id
        /\ d.slot_a = None /\ d.slot_b = slot[p].slot_b
    BY <1>1, <2>1, Zenon DEF Stands, Descriptor
  <2>3. Update(h, d)
    BY <1>1, <2>1, Zenon DEF Stands, _clear
  <2> QED BY <1>1, <2>2, <2>3, Put, Zenon
<1>3. /\ handle[h].pc = "clear_a" /\ "free_slot" \in PCs /\ Goto(h, "free_slot") /\ UNCHANGED <<tables, next_id>>
      /\ MovesAt(h, p) /\ PcBecomes(handle[h], handle'[h], "free_slot")
  BY <1>1, GotoMoves, Zenon DEF _clear, At, PCs, Stands
<1>4. Counts(p)' /\ Values(p)'
  <2>1. slot[p].rc_b = 0
    BY <1>1, <1>3, WriterAlone, Zenon DEF Alone
  <2> QED BY <1>1, <1>2, <1>3, <2>1, WriterMoves, Zenon DEF Puts, WriterValues, Alone
<1>5. MayGoto(h, "free_slot")
  BY <1>1, <1>3, Zenon DEF MayGoto, Stands, Owns, Source, Settled, Initialising
<1> QED BY <1>1, <1>2, <1>3, <1>4, <1>5, GotoStep, Zenon DEF Stands, Puts, Fresh

LEMMA _init_slotsInv ==
  ASSUME IInv, NEW h \in Handles, _init_slots(h)
  PROVE  IInv'
<1>1. PICK p \in Slots : Stands(h, p)
  BY Stand
<1>2. /\ handle[h].pc = "init" /\ "commit_b" \in PCs /\ Goto(h, "commit_b") /\ UNCHANGED <<tables, next_id>>
      /\ MovesAt(h, p) /\ PcBecomes(handle[h], handle'[h], "commit_b")
  BY <1>1, GotoMoves, Zenon DEF _init_slots, At, PCs, Stands
<1>3. slot[p].id = handle[h].id
  BY <1>1, <1>2, Zenon DEF Stands, Owns, Settled
<1>4. Puts(p, slot[p].rc_a, slot[p].rc_b, slot[p].id, slot[p].id, slot[p].id)
  <2>1. PICK d : d = [slot[p] EXCEPT !.slot_a = slot[p].id, !.slot_b = slot[p].id]
    BY Zenon
  <2>2. /\ d \in Descriptor /\ d.rc_a = slot[p].rc_a /\ d.rc_b = slot[p].rc_b /\ d.id = slot[p].id
        /\ d.slot_a = slot[p].id /\ d.slot_b = slot[p].id
    BY <1>1, <2>1, Zenon DEF Stands, Descriptor
  <2>3. Update(h, d)
    BY <1>1, <1>3, <2>1, Zenon DEF Stands, _init_slots
  <2> QED BY <1>1, <2>2, <2>3, Put, Zenon
<1>5. Counts(p)' /\ Values(p)'
  <2>1. slot[p].rc_b = 0
    BY <1>1, <1>2, WriterAlone, Zenon DEF Alone
  <2> QED BY <1>1, <1>2, <1>4, <2>1, WriterMoves, Zenon DEF Puts, WriterValues, Alone
<1>6. MayGoto(h, "commit_b")
  BY <1>1, <1>2, <1>4, ZenonT(40) DEF MayGoto, Stands, Puts, Owns, Source, Settled, Initialising
<1> QED BY <1>1, <1>2, <1>4, <1>5, <1>6, GotoStep, Zenon DEF Stands, Puts, Fresh

\* The id of a slot changes here only, when nobody else can be looking at it.
LEMMA ReserveIdInv ==
  ASSUME IInv, NEW h \in Handles, ReserveId(h)
  PROVE  IInv'
<1>1. PICK p \in Slots : Stands(h, p)
  BY Stand
<1>2. Puts(p, slot[p].rc_a, slot[p].rc_b, handle[h].id, slot[p].slot_a, slot[p].slot_b)
  <2>1. PICK d : d = [slot[p] EXCEPT !.id = handle[h].id]
    BY Zenon
  <2>2. /\ d \in Descriptor /\ d.rc_a = slot[p].rc_a /\ d.rc_b = slot[p].rc_b /\ d.id = handle[h].id
        /\ d.slot_a = slot[p].slot_a /\ d.slot_b = slot[p].slot_b
    BY <1>1, <2>1, Zenon DEF Stands, Descriptor, Handle
  <2>3. Update(h, d)
    BY <1>1, <2>1, Zenon DEF Stands, ReserveId
  <2> QED BY <1>1, <2>2, <2>3, Put, Zenon
<1>3. /\ handle[h].pc = "set_id" /\ "init" \in PCs /\ Goto(h, "init") /\ UNCHANGED <<tables, next_id>>
      /\ MovesAt(h, p) /\ PcBecomes(handle[h], handle'[h], "init") /\ Only({h}) /\ TypeOK'
  BY <1>1, <1>2, Here, GotoMoves, GotoShape, Zenon DEF ReserveId, At, PCs, Stands, Puts, TypeOK
<1>4. Counts(p)' /\ Values(p)'
  <2>1. slot[p].rc_b = 0
    BY <1>1, <1>3, WriterAlone, Zenon DEF Alone
  <2> QED BY <1>1, <1>2, <1>3, <2>1, WriterMoves, Zenon DEF Puts, WriterValues, Alone
<1>5. \A s \in Slots : Counts(s)' /\ Values(s)'
  BY <1>1, <1>2, <1>3, <1>4, SlotsFrame, Zenon DEF Puts
<1>6. \A k \in Handles : Owns(k)' /\ Source(k)' /\ Reached(k)'
  <2>1. MayGoto(h, "init")
    BY <1>1, <1>2, <1>3, Zenon DEF MayGoto, Stands, Puts, Owns, Source, Settled, Initialising
  <2>2. ASSUME NEW k \in Handles \ {h}, handle[k].pc \in Settled PROVE mine(k)'.id = mine(k).id
    <3>1. Place(handle[k]) # p
      BY <1>1, <1>3, <2>2, WriterAlone, Zenon DEF Settled, Alone, Counted
    <3> QED BY <1>2, <1>3, <3>1, Here, Zenon DEF Puts, Only, mine
  <2> QED BY <1>3, <2>1, <2>2, GotoHandles, Zenon
<1>7. Ids'
  <2>1. /\ Ids /\ handle[h].id < next_id /\ handle[h].pc \in Fresh
        /\ \A s \in Slots : slot'[s].id = IF s = p THEN handle[h].id ELSE slot[s].id
    BY <1>2, <1>3, Here, Zenon DEF IInv, Reached, Puts, Fresh
  <2>2. \A k \in Handles : handle'[k].pc \in Fresh => k # h /\ handle[k].pc \in Fresh /\ handle'[k].id = handle[k].id
    BY <1>3, Zenon DEF Only, PcBecomes, Fresh
  <2> QED BY <1>3, <2>1, <2>2 DEF Ids
<1> QED BY <1>3, <1>5, <1>6, <1>7, Zenon DEF IInv
----------------------------------------------------------------------------
(* Dropping a handle *)

\* Somebody who holds a reference.
LEMMA HolderHere ==
  ASSUME NEW h \in Handles, NEW p, Stands(h, p), handle[h].pc \in Counted
  PROVE  /\ NumW(p) = 0 /\ NumA(p) \in Nat /\ NumA(p) > 0 /\ NumB(p) \in Nat /\ NumC(p) \in Nat
         /\ slot[p].rc_a = NumA(p) + 1 /\ slot[p].rc_b = NumB(p)
         /\ NumC(p) > 0 => NumC(p) = 1 /\ NumB(p) = 0
         /\ slot[p].slot_a = slot[p].id
         /\ slot[p].slot_b = (IF NumB(p) + NumC(p) > 0 THEN slot[p].id ELSE None)
<1>1. IsA(handle[h], p)
  BY Zenon DEF Stands, IsA
<1>2. NumW(p) \in Nat /\ NumA(p) \in Nat /\ NumB(p) \in Nat /\ NumC(p) \in Nat /\ NumA(p) > 0
  BY <1>1, Tally, Zenon
<1> QED BY <1>2 DEF Stands, Counts, Values

LEMMA NoWriters ==
  ASSUME NEW h \in Handles, NEW p, MovesAt(h, p), NumW(p) = 0, ~IsWriter(handle'[h], p)
  PROVE  NumW(p)' = 0 /\ Writers(p)' = {}
<1>1. \A k \in Handles : ~IsWriter(handle[k], p)
  BY Tally
<1>2. Recount(h, p)
  BY Moved, Zenon
<1> QED BY <1>1, <1>2, Zenon DEF Recount, Steps, Writers

\* Nothing changes at the slot, and h counts for the same as before.
LEMMA GotoStays ==
  ASSUME IInv, NEW h \in Handles, NEW pc \in PCs, Goto(h, pc), UNCHANGED <<slot, tables, next_id>>,
         MayGoto(h, pc), pc \notin Fresh, SameAt(handle[h], [handle[h] EXCEPT !.pc = pc], Place(handle[h]))
  PROVE  IInv'
<1>1. PICK p \in Slots : Stands(h, p)
  BY Stand, Zenon
<1>2. MovesAt(h, p) /\ slot \in [Slots -> Descriptor] /\ handle'[h] = [handle[h] EXCEPT !.pc = pc]
  BY <1>1, Here, GotoMoves, Zenon DEF Stands, TypeOK, Goto
<1>3. \A k \in Handles : SameAt(handle[k], handle'[k], p)
  BY <1>1, <1>2, Zenon DEF MovesAt, OthersSame, Stands
<1>4. Counts(p)' /\ Values(p)'
  BY <1>1, <1>3, Unaffected, Zenon DEF Stands
<1> QED BY <1>1, <1>2, <1>4, GotoStep, Zenon DEF Stands

LEMMA DropHandleInv ==
  ASSUME IInv, NEW h \in Handles, DropHandle(h)
  PROVE  IInv'
<1>1. PICK pc : pc = IF handle[h].is_b THEN "drop_b" ELSE "drop_a"
  BY Zenon
<1>2. /\ handle[h].pc = "live" /\ pc \in PCs /\ Goto(h, pc) /\ ~Borrowed(h) /\ handle[h] \in Handle
      /\ UNCHANGED <<slot, tables, next_id>> /\ Owns(h) /\ Source(h)
  BY <1>1, Here, Zenon DEF DropHandle, At, PCs
<1>3. SameAt(handle[h], [handle[h] EXCEPT !.pc = pc], Place(handle[h]))
  BY <1>1, <1>2, PcFields DEF PcBecomes, SameAt, IsWriter, IsA, IsB, ClearsB, Alone, Counted
<1>4. MayGoto(h, pc) /\ pc \notin Fresh
  BY <1>1, <1>2, Zenon DEF MayGoto, Source, Settled, Initialising, Fresh
<1> QED BY <1>2, <1>3, <1>4, GotoStays, Zenon

LEMMA _decrement_rc_bInv ==
  ASSUME IInv, NEW h \in Handles, _decrement_rc_b(h)
  PROVE  IInv'
<1>1. PICK p \in Slots : Stands(h, p)
  BY Stand
<1>2. Puts(p, slot[p].rc_a, Dec(slot[p].rc_b), slot[p].id, slot[p].slot_a, slot[p].slot_b)
  BY <1>1, CountTypes, PutRcB, Zenon DEF _decrement_rc_b, Stands, Descriptor
<1>3. PICK pc : pc = IF slot[p].rc_b = 1 THEN "clear_b" ELSE "drop_a"
  BY Zenon
<1>4. /\ handle[h].pc = "drop_b" /\ pc \in PCs /\ Goto(h, pc) /\ UNCHANGED <<tables, next_id>>
      /\ MovesAt(h, p) /\ PcBecomes(handle[h], handle'[h], pc)
  BY <1>1, <1>3, GotoMoves, Zenon DEF _decrement_rc_b, At, PCs, Stands
<1>5. /\ ~IsWriter(handle'[h], p) /\ IsA(handle[h], p) /\ IsA(handle'[h], p) /\ IsB(handle[h], p) /\ ~IsB(handle'[h], p)
      /\ ~ClearsB(handle[h], p) /\ (ClearsB(handle'[h], p) <=> slot[p].rc_b = 1)
  BY <1>1, <1>3, <1>4, ZenonT(40) DEF Stands, PcBecomes, IsWriter, IsA, IsB, ClearsB, Alone, Counted
<1>6. /\ NumW(p) = 0 /\ NumA(p) \in Nat /\ NumA(p) > 0 /\ NumB(p) \in Nat /\ NumB(p) > 0 /\ NumC(p) = 0
      /\ slot[p].rc_a = NumA(p) + 1 /\ slot[p].rc_b = NumB(p) /\ NumB(p) < RC
      /\ slot[p].slot_a = slot[p].id /\ slot[p].slot_b = slot[p].id
  BY <1>1, <1>4, <1>5, HolderHere, Tally, CountTypes, SMTT(30) DEF Counted
<1>7. NumW(p)' = 0 /\ Writers(p)' = {} /\ NumA(p)' = NumA(p) /\ NumB(p)' = NumB(p) - 1
      /\ NumC(p)' = IF NumB(p) = 1 THEN 1 ELSE 0
  <2>1. Recount(h, p)
    BY <1>4, Moved, Zenon
  <2>2. NumW(p)' = 0 /\ Writers(p)' = {}
    BY <1>4, <1>5, <1>6, NoWriters, ZenonT(40)
  <2> QED BY <1>4, <1>5, <1>6, <2>1, <2>2 DEF Recount, Steps
<1>8. Dec(slot[p].rc_b) = NumB(p) - 1
  BY <1>6, CountTypes, UpDown, SMTT(30)
<1>9. Counts(p)' /\ Values(p)'
  BY <1>2, <1>6, <1>7, <1>8 DEF Puts, Counts, Values
<1>10. MayGoto(h, pc) /\ pc \notin Fresh
  BY <1>1, <1>3, <1>4, Zenon DEF MayGoto, Stands, Owns, Source, Settled, Initialising, Fresh
<1> QED BY <1>1, <1>2, <1>4, <1>9, <1>10, GotoStep, ZenonT(40) DEF Stands, Puts

LEMMA _clear_slot_bInv ==
  ASSUME IInv, NEW h \in Handles, _clear_slot_b(h)
  PROVE  IInv'
<1>1. PICK p \in Slots : Stands(h, p)
  BY Stand
<1>2. Puts(p, slot[p].rc_a, slot[p].rc_b, slot[p].id, slot[p].slot_a, None)
  BY <1>1, PutB, Zenon DEF _clear_slot_b
<1>3. /\ handle[h].pc = "clear_b" /\ "drop_a" \in PCs /\ Goto(h, "drop_a") /\ UNCHANGED <<tables, next_id>>
      /\ MovesAt(h, p) /\ PcBecomes(handle[h], handle'[h], "drop_a")
  BY <1>1, GotoMoves, Zenon DEF _clear_slot_b, At, PCs, Stands
<1>4. /\ ~IsWriter(handle'[h], p) /\ IsA(handle[h], p) /\ IsA(handle'[h], p) /\ ~IsB(handle[h], p) /\ ~IsB(handle'[h], p)
      /\ ClearsB(handle[h], p) /\ ~ClearsB(handle'[h], p)
  BY <1>1, <1>3, Zenon DEF Stands, PcBecomes, IsWriter, IsA, IsB, ClearsB, Alone, Counted
<1>5. /\ NumW(p) = 0 /\ NumA(p) \in Nat /\ NumA(p) > 0 /\ NumB(p) = 0 /\ NumC(p) = 1
      /\ slot[p].rc_a = NumA(p) + 1 /\ slot[p].rc_b = NumB(p) /\ slot[p].slot_a = slot[p].id
  BY <1>1, <1>3, <1>4, HolderHere, Tally, ZenonT(40) DEF Counted
<1>6. NumW(p)' = 0 /\ Writers(p)' = {} /\ NumA(p)' = NumA(p) /\ NumB(p)' = 0 /\ NumC(p)' = 0
  <2>1. Recount(h, p)
    BY <1>3, Moved, Zenon
  <2>2. NumW(p)' = 0 /\ Writers(p)' = {}
    BY <1>3, <1>4, <1>5, NoWriters, Zenon
  <2> QED BY <1>3, <1>4, <1>5, <2>1, <2>2 DEF Recount, Steps
<1>7. Counts(p)' /\ Values(p)'
  BY <1>2, <1>5, <1>6 DEF Puts, Counts, Values
<1>8. MayGoto(h, "drop_a")
  BY <1>1, <1>3, Zenon DEF MayGoto, Stands, Owns, Source, Settled, Initialising
<1> QED BY <1>1, <1>2, <1>3, <1>7, <1>8, GotoStep, ZenonT(40) DEF Stands, Puts, Fresh
----------------------------------------------------------------------------
(* Acquiring a handle *)

LEMMA BSlotNotAvailableInv ==
  ASSUME IInv, NEW h \in Handles, BSlotNotAvailable(h)
  PROVE  IInv'
<1>1. /\ handle[h].pc = "ref_b" /\ "drop_a" \in PCs /\ Goto(h, "drop_a") /\ handle[h] \in Handle
      /\ UNCHANGED <<slot, tables, next_id>> /\ Owns(h) /\ Source(h)
  BY Here, Zenon DEF BSlotNotAvailable, At, PCs
<1>2. SameAt(handle[h], [handle[h] EXCEPT !.pc = "drop_a"], Place(handle[h]))
  BY <1>1, PcFields, Zenon DEF PcBecomes, SameAt, IsWriter, IsA, IsB, ClearsB, Alone, Counted
<1>3. MayGoto(h, "drop_a") /\ "drop_a" \notin Fresh
  BY <1>1, Zenon DEF MayGoto, Source, Settled, Initialising, Fresh
<1> QED BY <1>1, <1>2, <1>3, GotoStays, Zenon

\* A count of at least 2 says that somebody holds a reference and nobody is alone there.
LEMMA acquire_ref_aInv ==
  ASSUME IInv, NEW h \in Handles, acquire_ref_a(h)
  PROVE  IInv'
<1>1. PICK p \in Slots : Stands(h, p)
  BY Stand
<1>2. PICK pc : pc = IF handle[h].is_b THEN "ref_b" ELSE "check"
  BY Zenon
<1>3. /\ handle[h].pc = "ref_a" /\ pc \in PCs /\ Goto(h, pc) /\ UNCHANGED <<tables, next_id>> /\ slot[p].rc_a >= 2
      /\ MovesAt(h, p) /\ PcBecomes(handle[h], handle'[h], pc)
  BY <1>1, <1>2, GotoMoves, Zenon DEF acquire_ref_a, Acquired, At, PCs, Stands, Source
<1>4. /\ ~IsWriter(handle'[h], p) /\ ~IsA(handle[h], p) /\ IsA(handle'[h], p) /\ ~IsB(handle[h], p) /\ ~IsB(handle'[h], p)
      /\ ~ClearsB(handle[h], p) /\ ~ClearsB(handle'[h], p)
  BY <1>1, <1>2, <1>3, ZenonT(40) DEF Stands, PcBecomes, IsWriter, IsA, IsB, ClearsB, Alone, Counted
<1>5. /\ NumW(p) = 0 /\ NumA(p) \in Nat /\ NumA(p) > 0 /\ NumB(p) \in Nat /\ NumC(p) \in Nat
      /\ slot[p].rc_a = NumA(p) + 1 /\ NumA(p) + 1 < RC - 1
  BY <1>1, <1>3, <1>4, Tally DEF Stands, Counts
<1>6. Puts(p, slot[p].rc_a + 1, slot[p].rc_b, slot[p].id, slot[p].slot_a, slot[p].slot_b)
  <2>1. slot[p].rc_a + 1 \in 0 .. RC - 1
    BY <1>5, CountTypes
  <2> QED BY <1>1, <2>1, PutRcA, Zenon DEF acquire_ref_a, Stands
<1>7. NumW(p)' = 0 /\ Writers(p)' = {} /\ NumA(p)' = NumA(p) + 1 /\ NumB(p)' = NumB(p) /\ NumC(p)' = NumC(p)
  <2>1. Recount(h, p)
    BY <1>3, Moved, Zenon
  <2>2. NumW(p)' = 0 /\ Writers(p)' = {}
    BY <1>3, <1>4, <1>5, NoWriters, ZenonT(40)
  <2> QED BY <1>3, <1>4, <1>5, <2>1, <2>2, Zenon DEF Recount, Steps
<1>8. Counts(p)' /\ Values(p)'
  BY <1>1, <1>5, <1>6, <1>7 DEF Stands, Puts, Counts, Values
<1>9. MayGoto(h, pc) /\ pc \notin Fresh
  BY <1>1, <1>2, <1>3, Zenon DEF MayGoto, Stands, Source, Settled, Initialising, Fresh
<1> QED BY <1>1, <1>3, <1>6, <1>8, <1>9, GotoStep, Zenon DEF Stands, Puts

\* A place to which nobody has come yet does not count.
LEMMA Appears ==
  ASSUME IInv, NEW h \in Handles, NEW y \in Handle, handle' = [handle EXCEPT ![h] = y], UNCHANGED slot,
         {handle[h].pc, y.pc} \cap (Alone \cup Counted \cup {"live", "moved"}) = {},
         tables \subseteq tables', tables' \subseteq Paths, next_id <= next_id', next_id' \in 1 .. MAX_ID + 1,
         y.src \in {NoHandle, handle[h].src} \/ (y.src \in Handles /\ handle[y.src].pc = "live"),
         Owns(h)', Source(h)', Reached(h)', Ids'
  PROVE  IInv'
<1>1. TypeOK' /\ handle'[h] = y /\ Only({h})
  BY Replaced, Here, Zenon DEF TypeOK
<1>2. \A s \in Slots : Counts(s)' /\ Values(s)'
  <2> SUFFICES ASSUME NEW s \in Slots PROVE Counts(s)' /\ Values(s)'
    BY Zenon
  <2>1. Away(handle[h], s) /\ Away(handle'[h], s)
    BY <1>1, Zenon DEF Away
  <2>2. \A k \in Handles : SameAt(handle[k], handle'[k], s)
    BY <1>1, <2>1, AwayFrom, Zenon DEF SameAt, Only
  <2> QED BY <2>2, Unaffected, Zenon DEF IInv
<1>3. Apart({h})
  BY <1>1, NotSource, Zenon DEF Apart
<1>4. \A k \in Handles \ {h} : mine(k)' = mine(k)
  BY <1>1, Zenon DEF Only, mine
<1>5. \A k \in Handles : Owns(k)' /\ Source(k)' /\ Reached(k)'
  BY <1>1, <1>3, <1>4, HandlesFrame, Zenon
<1> QED BY <1>1, <1>2, <1>5, Zenon DEF IInv

LEMMA create_new_descriptorInv ==
  ASSUME IInv, NEW h \in Handles, create_new_descriptor(h)
  PROVE  IInv'
<1>1. PICK y : y = [FreeHandle EXCEPT !.pc = "alloc", !.id = next_id, !.is_b = TRUE]
  BY Zenon
<1>2. /\ TypeOK /\ handle[h].pc = "free" /\ handle' = [handle EXCEPT ![h] = y] /\ next_id' = next_id + 1
      /\ next_id \in IDs /\ next_id' \in 1 .. MAX_ID + 1 /\ next_id \in Nat /\ UNCHANGED <<slot, tables>> /\ tables \subseteq Paths
  BY <1>1, Here, DescriptorsAssumption DEF create_new_descriptor, At, TypeOK, IDs
<1>3. /\ y \in Handle /\ y.pc = "alloc" /\ y.id = next_id /\ y.depth = 0 /\ y.index = 1 /\ y.is_b
      /\ y.src = NoHandle /\ ~y.consume
  BY <1>1, <1>2, FreeType, Zenon DEF FreeHandle, Handle, PCs
<1>4. handle'[h] = y /\ Only({h})
  BY <1>2, <1>3, Replaced, Zenon
<1>5. Owns(h)' /\ Source(h)'
  <2>1. next_id # None
    BY <1>2 DEF IDs, None
  <2> QED BY <1>3, <1>4, <2>1, Zenon DEF Owns, Source, Settled, Initialising
<1>6. Reached(h)'
  BY <1>2, <1>3, <1>4, Root, SMTT(30) DEF Reached
<1>7. Ids'
  <2>1. \A s \in Slots : slot[s].id < next_id /\ slot[s].id \in Nat
    BY <1>2, DescriptorsAssumption DEF IInv, Ids, TypeOK, Descriptor, IDs, None
  <2>2. \A k \in Handles : handle[k].id < next_id /\ handle[k].id \in Nat
    BY <1>2, DescriptorsAssumption DEF IInv, Reached, TypeOK, Handle, IDs, None
  <2>3. \A s \in Slots : slot'[s].id < next_id' /\ slot[s].id # next_id
    BY <1>2, <2>1
  <2>4. \A k \in Handles : k # h => handle'[k] = handle[k] /\ handle[k].id # next_id
    BY <1>2, <1>4, <2>2 DEF Only
  <2> QED BY <1>2, <1>3, <1>4, <2>3, <2>4, SMTT(30) DEF IInv, Ids
<1>8. {handle[h].pc, y.pc} \cap (Alone \cup Counted \cup {"live", "moved"}) = {}
  BY <1>2, <1>3, Zenon DEF Alone, Counted
<1>9. next_id <= next_id' /\ tables \subseteq tables' /\ tables' \subseteq Paths
  BY <1>2
<1> QED BY <1>2, <1>3, <1>5, <1>6, <1>7, <1>8, <1>9, Appears, ZenonT(40)

\* From x to y: the next slot, or the first one of the next sub-table.
NextSlot(x, y) == x.index < N /\ y.index = x.index + 1 /\ y.depth = x.depth
SubTable(x, y) == x.depth < MAX_DEPTH /\ y.index = 1 /\ y.depth = x.depth + 1 /\ TableOf(x.id, x.depth + 1) \in tables'
Along(x, y) ==
  /\ y.pc = x.pc /\ y.id = x.id /\ y.is_b = x.is_b /\ y.src = x.src /\ y.consume = x.consume
  /\ NextSlot(x, y) \/ SubTable(x, y)

LEMMA Moves ==
  ASSUME IInv, NEW h \in Handles,
         LET x == handle[h]
         IN \/ x.index < N /\ handle' = [handle EXCEPT ![h].index = @ + 1]
            \/ /\ x.index = N /\ x.depth < MAX_DEPTH /\ handle' = [handle EXCEPT ![h].index = 1, ![h].depth = @ + 1]
               /\ TableOf(x.id, x.depth + 1) \in tables'
  PROVE  \E y \in Handle : /\ handle' = [handle EXCEPT ![h] = y] /\ Along(handle[h], y)
                           /\ SubTable(handle[h], y) => handle[h].index = N
<1>1. PICK x \in Handle : x = handle[h] /\ handle \in [Handles -> Handle]
  BY Here, Zenon DEF TypeOK
<1>2. x.index \in 1 .. N /\ x.depth \in 0 .. MAX_DEPTH /\ N \in Nat \ {0} /\ MAX_DEPTH \in Nat
  BY DescriptorsAssumption, Zenon DEF Handle
<1>3. CASE x.index < N /\ handle' = [handle EXCEPT ![h].index = @ + 1]
  <2>1. PICK y : y = [x EXCEPT !.index = x.index + 1]
    BY Zenon
  <2>2. x.index + 1 \in 1 .. N
    BY <1>2, <1>3
  <2>3. /\ y \in Handle /\ y.pc = x.pc /\ y.id = x.id /\ y.is_b = x.is_b /\ y.src = x.src
        /\ y.consume = x.consume /\ y.index = x.index + 1 /\ y.depth = x.depth
    BY <2>1, <2>2, Zenon DEF Handle
  <2>4. ~SubTable(x, y) /\ Along(x, y)
    BY <1>2, <1>3, <2>3 DEF SubTable, NextSlot, Along
  <2>5. handle' = [handle EXCEPT ![h] = y]
    BY <1>1, <1>3, <2>1, Zenon
  <2> QED BY <1>1, <2>3, <2>4, <2>5, Zenon
<1>4. CASE /\ x.index = N /\ x.depth < MAX_DEPTH /\ handle' = [handle EXCEPT ![h].index = 1, ![h].depth = @ + 1]
           /\ TableOf(x.id, x.depth + 1) \in tables'
  <2>1. PICK y : y = [x EXCEPT !.index = 1, !.depth = x.depth + 1]
    BY Zenon
  <2>2. 1 \in 1 .. N /\ x.depth + 1 \in 0 .. MAX_DEPTH
    BY <1>2, <1>4
  <2>3. /\ y \in Handle /\ y.pc = x.pc /\ y.id = x.id /\ y.is_b = x.is_b /\ y.src = x.src
        /\ y.consume = x.consume /\ y.index = 1 /\ y.depth = x.depth + 1
    BY <2>1, <2>2, Zenon DEF Handle
  <2>4. handle' = [handle EXCEPT ![h] = y]
    BY <1>1, <1>4, <2>1, Zenon DEF Handle
  <2> QED BY <1>1, <1>4, <2>3, <2>4, Zenon DEF Along, SubTable
<1> QED BY <1>1, <1>3, <1>4, Zenon

LEMMA MovesInv ==
  ASSUME IInv, NEW h \in Handles, NEW y \in Handle, handle' = [handle EXCEPT ![h] = y], Along(handle[h], y),
         handle[h].pc \in {"alloc", "search"}, UNCHANGED <<slot, next_id>>, tables \subseteq tables',
         tables' \subseteq Paths, Source(h)'
  PROVE  IInv'
<1>1. /\ handle'[h] = y /\ Only({h}) /\ handle[h] \in Handle /\ Owns(h) /\ Reached(h)
      /\ next_id \in 1 .. MAX_ID + 1 /\ MAX_ID \in Nat
  BY Here, Replaced, DescriptorsAssumption, Zenon DEF TypeOK
<1>2. Owns(h)'
  BY <1>1, Zenon DEF Along, Owns, Settled, Initialising
<1>3. Reached(h)'
  <2>1. handle[h].depth \in Nat /\ y.depth \in Nat
    BY <1>1, DescriptorsAssumption DEF Handle
  <2>2. \A d \in 0 .. y.depth : d \in 0 .. handle[h].depth \/ (d = handle[h].depth + 1 /\ TableOf(handle[h].id, d) \in tables')
    BY <2>1 DEF Along, NextSlot, SubTable
  <2> QED BY <1>1, <2>2, Zenon DEF Reached, Along
<1>4. Ids'
  BY <1>1, KeepIds, Zenon DEF Along
<1>5. {handle[h].pc, y.pc} \cap (Alone \cup Counted \cup {"live", "moved"}) = {}
  BY Zenon DEF Along, Alone, Counted
<1>6. next_id <= next_id' /\ next_id' \in 1 .. MAX_ID + 1
  BY <1>1
<1> QED BY <1>2, <1>3, <1>4, <1>5, <1>6, Appears, ZenonT(40) DEF Along

LEMMA _allocate_emptyInv ==
  ASSUME IInv, NEW h \in Handles, _allocate_empty(h)
  PROVE  IInv'
<1>1. /\ TypeOK /\ handle[h] \in Handle /\ handle[h].pc = "alloc" /\ UNCHANGED <<slot, next_id>>
      /\ Owns(h) /\ Source(h)
  BY Here, Zenon DEF _allocate_empty, At
<1>2. PICK y \in Handle : handle' = [handle EXCEPT ![h] = y] /\ Along(handle[h], y)
  BY Moves, Zenon DEF _allocate_empty, _get_or_create_sub_table
<1>3. tables' \subseteq Paths /\ tables \subseteq tables'
  <2>1. CASE UNCHANGED tables
    BY <1>1, <2>1, Zenon DEF TypeOK
  <2>2. CASE handle[h].depth < MAX_DEPTH /\ _get_or_create_sub_table(handle[h])
    <3>1. handle[h].id \in Nat /\ handle[h].depth + 1 \in 0 .. MAX_DEPTH
      BY <1>1, <2>2, DescriptorsAssumption DEF Handle, IDs, None
    <3>2. TableOf(handle[h].id, handle[h].depth + 1) \in Paths
      BY <3>1, PlaceType, Zenon
    <3> QED BY <1>1, <2>2, <3>2, ZenonT(40) DEF TypeOK, _get_or_create_sub_table
  <2> QED BY <2>1, <2>2, Zenon DEF _allocate_empty
<1>4. Source(h)'
  BY <1>1, <1>2, Replaced, Zenon DEF Along, Owns, Source, Initialising
<1> QED BY <1>1, <1>2, <1>3, <1>4, MovesInv, Zenon

LEMMA acquireInv ==
  ASSUME IInv, NEW h \in Handles, NEW id \in IDs, NEW is_b \in BOOLEAN,
         NEW src \in Handles \cup {NoHandle}, acquire(h, id, is_b, src)
  PROVE  IInv'
<1>1. PICK y : y = [FreeHandle EXCEPT !.pc = "search", !.id = id, !.is_b = is_b, !.src = src]
  BY Zenon
<1>2. /\ TypeOK /\ handle[h].pc = "free" /\ handle' = [handle EXCEPT ![h] = y] /\ UNCHANGED <<slot, tables, next_id>>
      /\ id < next_id /\ id # None
      /\ src # NoHandle => handle[src].pc = "live" /\ handle[src].id = id /\ src # h
  BY <1>1, Here DEF acquire, At, IDs, None
<1>3. /\ y \in Handle /\ y.pc = "search" /\ y.id = id /\ y.depth = 0 /\ y.index = 1 /\ y.src = src /\ ~y.consume
  BY <1>1, FreeType, Zenon DEF FreeHandle, Handle, PCs
<1>4. handle'[h] = y /\ Only({h})
  BY <1>2, <1>3, Replaced, Zenon
<1>5. Owns(h)'
  BY <1>2, <1>3, <1>4, ZenonT(40) DEF Owns, Settled, Initialising
<1>6. Source(h)'
  <2>1. src # NoHandle => /\ handle'[src] = handle[src] /\ handle[src].depth \in Nat
                          /\ handle[src].index \in 1 .. N /\ N \in Nat
    BY <1>2, <1>4, DescriptorsAssumption DEF Only, TypeOK, Handle
  <2> QED BY <1>2, <1>3, <1>4, <2>1, SMTT(30) DEF Source
<1>7. Reached(h)'
  BY <1>2, <1>3, <1>4, Root DEF Reached
<1>8. Ids'
  BY <1>2, <1>3, <1>4, KeepIds, Zenon DEF Fresh
<1>9. {handle[h].pc, y.pc} \cap (Alone \cup Counted \cup {"live", "moved"}) = {}
  BY <1>2, <1>3, Zenon DEF Alone, Counted
<1>10. next_id <= next_id' /\ next_id' \in 1 .. MAX_ID + 1 /\ tables \subseteq tables' /\ tables' \subseteq Paths
  BY <1>2, DescriptorsAssumption DEF TypeOK
<1>11. y.src \in {NoHandle, handle[h].src} \/ (y.src \in Handles /\ handle[y.src].pc = "live")
  BY <1>2, <1>3, ZenonT(40)
<1> QED BY <1>2, <1>3, <1>5, <1>6, <1>7, <1>8, <1>9, <1>10, <1>11, Appears, ZenonT(40)

\* A search that has not met its id is before the handle it was called on; one that
\* has is at its place.
LEMMA SearchAt ==
  ASSUME IInv, NEW h \in Handles, handle[h].pc = "search", handle[h].src # NoHandle
  PROVE  LET x == handle[h]
             y == handle[x.src]
         IN /\ x.src \in Handles /\ y.pc = "live" /\ y.id = x.id
            /\ mine(h).id = x.id => x.depth = y.depth /\ x.index = y.index
            /\ mine(h).id # x.id => x.depth < y.depth \/ (x.depth = y.depth /\ x.index < y.index)
<1>1. PICK k \in Handles : k = handle[h].src
  BY Here, Zenon DEF Handle
<1>2. PICK x \in Handle, y \in Handle : x = handle[h] /\ y = handle[k]
  BY Here, Zenon
<1>3. /\ x.id # None /\ y.pc = "live" /\ y.id = x.id
      /\ x.depth < y.depth \/ (x.depth = y.depth /\ x.index <= y.index)
  BY <1>1, <1>2, Here, Zenon DEF Source, Owns
<1>4. x.depth \in Int /\ y.depth \in Int /\ x.index \in Int /\ y.index \in Int
  BY DEF Handle
<1>5. mine(h).id = x.id <=> Place(x) = Place(y)
  <2>1. slot[Place(y)].id = x.id /\ Place(x) \in Slots /\ Place(y) \in Slots
    BY <1>2, <1>3, Here, Zenon DEF Owns, Settled
  <2> QED BY <1>2, <1>3, <2>1, Zenon DEF IInv, Ids, mine
<1>6. mine(h).id = x.id <=> x.depth = y.depth /\ x.index = y.index
  BY <1>3, <1>5, SamePlace, Zenon
<1> QED BY <1>1, <1>2, <1>3, <1>4, <1>6, SMTT(30)

LEMMA _searchInv ==
  ASSUME IInv, NEW h \in Handles, _search(h)
  PROVE  IInv'
<1>1. /\ TypeOK /\ handle[h] \in Handle /\ handle[h].pc = "search" /\ UNCHANGED <<slot, tables, next_id>>
      /\ Owns(h) /\ Source(h) /\ NoHandle \notin Handles /\ ~handle[h].consume
      /\ handle[h].src # NoHandle => handle[h].src \in Handles /\ handle[h].src # h
  BY Here, DescriptorsAssumption, Zenon DEF _search, At, Handle, Source
<1>2. CASE mine(h).id = handle[h].id /\ Goto(h, "ref_a")
  <2>1. PICK y : y = [handle[h] EXCEPT !.pc = "ref_a"]
    BY Zenon
  <2>2. y \in Handle /\ PcBecomes(handle[h], y, "ref_a") /\ handle' = [handle EXCEPT ![h] = y]
    BY <1>1, <1>2, <2>1, PcFields, Zenon DEF PCs, Goto
  <2>3. handle'[h] = y /\ Only({h})
    BY <1>1, <2>2, Replaced, Zenon
  <2>4. Owns(h)'
    BY <1>1, <2>2, <2>3, ZenonT(40) DEF Owns, Settled, Initialising, PcBecomes
  <2>5. Source(h)'
    <3>1. handle[h].src # NoHandle => handle'[handle[h].src] = handle[handle[h].src]
      BY <1>1, <2>3, Zenon DEF Only
    <3>2. ASSUME handle[h].src # NoHandle
          PROVE  LET z == handle[handle[h].src]
                 IN z.pc = "live" /\ z.id = handle[h].id /\ handle[h].depth = z.depth /\ handle[h].index = z.index
      BY <1>1, <1>2, <3>2, SearchAt, Zenon
    <3>3. /\ y.pc = "ref_a" /\ y.id = handle[h].id /\ y.depth = handle[h].depth /\ y.index = handle[h].index
          /\ y.src = handle[h].src /\ ~y.consume
      BY <1>1, <2>2, Zenon DEF PcBecomes
    <3> QED BY <2>3, <3>1, <3>2, <3>3, Zenon DEF Source
  <2>6. Reached(h)' /\ Ids'
    BY <1>1, <2>2, <2>3, KeepReached, KeepIds, ZenonT(40) DEF PcBecomes, Fresh
  <2>7. {handle[h].pc, y.pc} \cap (Alone \cup Counted \cup {"live", "moved"}) = {}
    BY <1>1, <2>2, Zenon DEF Alone, Counted, PcBecomes
  <2>8. next_id <= next_id' /\ next_id' \in 1 .. MAX_ID + 1 /\ tables \subseteq tables' /\ tables' \subseteq Paths
    BY <1>1, DescriptorsAssumption DEF TypeOK
  <2> QED BY <1>1, <2>2, <2>4, <2>5, <2>6, <2>7, <2>8, Appears, ZenonT(40) DEF PcBecomes
<1>3. CASE /\ mine(h).id # handle[h].id
           /\ \/ /\ handle[h].index < N
                 /\ handle' = [handle EXCEPT ![h].index = @ + 1]
              \/ /\ handle[h].index = N /\ handle[h].depth < MAX_DEPTH
                 /\ TableOf(handle[h].id, handle[h].depth + 1) \in tables
                 /\ handle' = [handle EXCEPT ![h].index = 1, ![h].depth = @ + 1]
  <2>1. PICK y \in Handle : /\ handle' = [handle EXCEPT ![h] = y] /\ Along(handle[h], y)
                            /\ SubTable(handle[h], y) => handle[h].index = N
    BY <1>1, <1>3, Moves, Zenon
  <2>2. handle'[h] = y /\ Only({h})
    BY <1>1, <2>1, Replaced, Zenon
  <2>3. Source(h)'
    <3>1. CASE handle[h].src = NoHandle
      BY <1>1, <2>1, <2>2, <3>1, Zenon DEF Along, Source
    <3>2. CASE handle[h].src # NoHandle
      <4>1. PICK z \in Handle : z = handle[handle[h].src] /\ handle'[handle[h].src] = z
        BY <1>1, <2>2, <3>2, Zenon DEF Only, TypeOK
      <4>2. /\ z.pc = "live" /\ z.id = handle[h].id
            /\ handle[h].depth < z.depth \/ (handle[h].depth = z.depth /\ handle[h].index < z.index)
        BY <1>1, <1>3, <3>2, <4>1, SearchAt, ZenonT(40)
      <4>3. /\ handle[h].depth \in Int /\ z.depth \in Int /\ handle[h].index \in 1 .. N /\ z.index \in 1 .. N
            /\ N \in Nat
        BY <1>1, DescriptorsAssumption DEF Handle
      <4>4. y.depth < z.depth \/ (y.depth = z.depth /\ y.index <= z.index)
        BY <2>1, <4>2, <4>3 DEF Along, NextSlot, SubTable
      <4> QED BY <1>1, <2>1, <2>2, <4>1, <4>2, <4>4, ZenonT(40) DEF Along, Source
    <3> QED BY <3>1, <3>2, ZenonT(40)
  <2> QED BY <1>1, <2>1, <2>3, MovesInv, Zenon DEF TypeOK
<1> QED BY <1>2, <1>3, Zenon DEF _search
----------------------------------------------------------------------------
(* An operation ends *)

\* What becomes of h: it is gone, or it is a handle in the user's hands.
Ends(h, r) ==
  \/ r = FreeHandle
  \/ /\ r.pc = "live" /\ r.id = handle[h].id /\ r.depth = handle[h].depth /\ r.index = handle[h].index
     /\ r.is_b = handle[h].is_b /\ r.src = NoHandle /\ ~r.consume
     /\ mine(h).id = handle[h].id

\* What an operation consumed was an A-handle, and nobody else was called on it.
LEMMA FinishShape ==
  ASSUME IInv, NEW h \in Handles, NEW r \in Handle, Finish(h, r), r.src = NoHandle
  PROVE  /\ handle' \in [Handles -> Handle] /\ handle'[h] = r
         /\ \E C : /\ h \in C /\ C \subseteq Handles /\ Only(C)
                   /\ \A k \in C \ {h} : /\ handle[k].pc = "moved" /\ PcBecomes(handle[k], handle'[k], "drop_a")
                                         /\ \A i \in Handles \ C : handle[i].src # k
<1>1. PICK k : k = handle[h].src
  BY Zenon
<1>2. handle[h] \in Handle /\ Source(h) /\ handle \in [Handles -> Handle]
  BY Here, Zenon DEF TypeOK
<1>3. CASE ~handle[h].consume
  <2>1. handle' \in [Handles -> Handle] /\ handle'[h] = r /\ Only({h})
    BY <1>2, <1>3, Zenon DEF Finish, Only
  <2> QED BY <2>1
<1>4. CASE handle[h].consume
  <2>1. k \in Handles /\ k # h /\ handle[k].pc = "moved" /\ \A i \in Handles : handle[i].src = k => i = h
    BY <1>1, <1>2, <1>4, Zenon DEF Source, Handle
  <2>2. handle[k] \in Handle /\ ~handle[k].is_b /\ "drop_a" \in PCs
    BY <2>1, Here, Zenon DEF Owns, PCs
  <2>3. PICK y : y = [handle[k] EXCEPT !.pc = "drop_a"]
    BY Zenon
  <2>4. y \in Handle /\ PcBecomes(handle[k], y, "drop_a")
    BY <2>2, <2>3, PcFields, Zenon
  <2>5. handle' = [i \in Handles |-> IF i = h THEN r ELSE IF i = k THEN y ELSE handle[i]]
    BY <1>1, <1>4, <2>2, <2>3, Zenon DEF Finish
  <2>6. handle' \in [Handles -> Handle] /\ handle'[h] = r /\ handle'[k] = y /\ Only({h, k})
    BY <1>2, <2>1, <2>4, <2>5, ZenonT(40) DEF Only
  <2> QED BY <2>1, <2>4, <2>6
<1> QED BY <1>3, <1>4, Zenon

LEMMA EndType ==
  ASSUME NEW h \in Handles, NEW r \in Handle, Ends(h, r)
  PROVE  r.src = NoHandle /\ ~r.consume /\ r.pc \in {"free", "live"}
BY DEF Ends, FreeHandle

LEMMA FinishMoves ==
  ASSUME IInv, NEW h \in Handles, NEW r \in Handle, Finish(h, r), Ends(h, r)
  PROVE  MovesAt(h, Place(handle[h])) /\ handle'[h] = r
<1>1. PICK C : /\ handle'[h] = r /\ Only(C)
               /\ \A k \in C \ {h} : handle[k].pc = "moved" /\ PcBecomes(handle[k], handle'[k], "drop_a")
  BY EndType, FinishShape
<1>2. \A s : OthersSame(h, s)
  <2> SUFFICES ASSUME NEW s, NEW k \in Handles, k # h PROVE SameAt(handle[k], handle'[k], s)
    BY Zenon DEF OthersSame
  <2>1. CASE k \notin C
    BY <1>1, <2>1, ZenonT(40) DEF Only, SameAt
  <2>2. CASE k \in C
    BY <1>1, <2>2 DEF PcBecomes, SameAt, IsWriter, IsA, IsB, ClearsB, Alone, Counted
  <2> QED BY <2>1, <2>2, Zenon
<1>3. r.pc \in Alone \cup Counted => Place(r) = Place(handle[h])
  BY DEF Ends, FreeHandle, Alone, Counted, Place
<1> QED BY <1>1, <1>2, <1>3, ZenonT(40) DEF MovesAt, Away

LEMMA FinishStep ==
  ASSUME IInv, NEW h \in Handles, NEW p \in Slots, NEW r \in Handle, p = Place(handle[h]),
         slot' \in [Slots -> Descriptor], \A s \in Slots : s # p => slot'[s] = slot[s],
         slot'[p].id = slot[p].id, Finish(h, r), UNCHANGED <<tables, next_id>>, Ends(h, r),
         handle[h].pc \notin {"free", "live", "moved"}, Counts(p)', Values(p)'
  PROVE  IInv'
<1>0. r.src = NoHandle
  BY EndType, Zenon
<1>a. /\ handle' \in [Handles -> Handle] /\ handle'[h] = r
      /\ \E C : /\ h \in C /\ C \subseteq Handles /\ Only(C)
                /\ \A k \in C \ {h} : /\ handle[k].pc = "moved" /\ PcBecomes(handle[k], handle'[k], "drop_a")
                                      /\ \A i \in Handles \ C : handle[i].src # k
  BY <1>0, FinishShape, Zenon
<1>1. PICK C : /\ handle' \in [Handles -> Handle] /\ handle'[h] = r
               /\ h \in C /\ C \subseteq Handles /\ Only(C)
               /\ \A k \in C \ {h} : /\ handle[k].pc = "moved" /\ PcBecomes(handle[k], handle'[k], "drop_a")
                                     /\ \A i \in Handles \ C : handle[i].src # k
  BY <1>a, ZenonT(40)
<1>2. TypeOK /\ TypeOK' /\ next_id \in Nat \ {0} /\ r.src = NoHandle /\ ~r.consume /\ r.pc \in {"free", "live"}
  BY <1>1, Here, EndType, SMTT(30) DEF TypeOK
<1>3. \A s \in Slots : Counts(s)' /\ Values(s)'
  BY FinishMoves, SlotsFrame
<1>4. Owns(h)' /\ Source(h)' /\ Reached(h)'
  <2>1. CASE r = FreeHandle
    <3>1. Owns(h)' /\ Source(h)'
      BY <1>1, <2>1 DEF Owns, Source, FreeHandle, Settled, Initialising
    <3>2. r.id = 0 /\ r.depth = 0
      BY <2>1, ZenonT(40) DEF FreeHandle, None
    <3>3. Reached(h)'
      BY <1>1, <1>2, <3>2, Root, SMTT(30) DEF Reached
    <3> QED BY <3>1, <3>3, ZenonT(40)
  <2>2. CASE /\ r.pc = "live" /\ r.id = handle[h].id /\ r.depth = handle[h].depth /\ r.index = handle[h].index
             /\ mine(h).id = handle[h].id
    <3>1. mine(h)'.id = handle'[h].id /\ handle'[h].id # None
      <4>1. handle[h].id # None
        BY Here, Zenon DEF Owns
      <4>2. Place(handle[h])' = p
        BY <1>1, <2>2, Zenon DEF Place
      <4>3. mine(h)' = slot'[p] /\ mine(h) = slot[p]
        BY <4>2, Zenon DEF mine
      <4> QED BY <1>1, <2>2, <4>1, <4>3, Zenon
    <3>2. Owns(h)' /\ Source(h)'
      BY <1>1, <1>2, <2>2, <3>1, Zenon DEF Owns, Source, Initialising
    <3>3. Reached(h)'
      BY <1>1, <2>2, KeepReached, Zenon
    <3> QED BY <3>2, <3>3, Zenon
  <2> QED BY <2>1, <2>2, Zenon DEF Ends
<1>5. ASSUME NEW k \in C \ {h} PROVE Owns(k)' /\ Source(k)' /\ Reached(k)'
  <2>1. Owns(k) /\ Source(k) /\ handle[k].pc = "moved" /\ PcBecomes(handle[k], handle'[k], "drop_a")
    BY <1>1, Here, Zenon
  <2>2. Owns(k)' /\ Source(k)'
    BY <2>1, ZenonT(40) DEF Owns, Source, PcBecomes, Settled, Initialising
  <2>3. Reached(k)'
    BY <1>1, <2>1, KeepReached, ZenonT(40) DEF PcBecomes
  <2> QED BY <2>2, <2>3, Zenon
<1>6. Apart(C)
  BY <1>1, <1>2, NotSource DEF Apart, PcBecomes
<1>7. \A k \in Handles : Owns(k)' /\ Source(k)' /\ Reached(k)'
  <2>1. \A k \in Handles \ C : mine(k)'.id = mine(k).id
    BY <1>1, Here, ZenonT(40) DEF Only, mine
  <2>2. next_id <= next_id' /\ tables \subseteq tables'
    BY <1>2
  <2> QED BY <1>2, <1>4, <1>5, <1>6, <2>1, <2>2, HandlesFrame, ZenonT(40)
<1>8. Ids'
  BY <1>1, <1>2, KeepIds, ZenonT(40) DEF PcBecomes, Fresh
<1> QED BY <1>2, <1>3, <1>7, <1>8, ZenonT(40) DEF IInv

\* Nothing changes at the slot, and h counts for the same as before.
LEMMA FinishStays ==
  ASSUME IInv, NEW h \in Handles, NEW r \in Handle, Finish(h, r), UNCHANGED <<slot, tables, next_id>>,
         Ends(h, r), handle[h].pc \notin {"free", "live", "moved"}, SameAt(handle[h], r, Place(handle[h]))
  PROVE  IInv'
<1>1. PICK p \in Slots : Stands(h, p)
  BY Stand, Zenon
<1>2. MovesAt(h, p) /\ slot \in [Slots -> Descriptor] /\ handle'[h] = r
  BY <1>1, Here, FinishMoves, Zenon DEF Stands, TypeOK
<1>3. \A k \in Handles : SameAt(handle[k], handle'[k], p)
  BY <1>1, <1>2, Zenon DEF MovesAt, OthersSame, Stands
<1>4. Counts(p)' /\ Values(p)'
  BY <1>1, <1>3, Unaffected, Zenon DEF Stands
<1> QED BY <1>1, <1>2, <1>4, FinishStep, ZenonT(40) DEF Stands

LEMMA GoneEnds ==
  ASSUME NEW h \in Handles, Gone(h)
  PROVE  FreeHandle \in Handle /\ Finish(h, FreeHandle) /\ Ends(h, FreeHandle) /\ \A s : Away(FreeHandle, s)
BY FreeType, Zenon DEF Gone, Ends, Away, Alone, Counted

LEMMA LiveEnds ==
  ASSUME NEW h \in Handles, handle[h] \in Handle, Live(h), mine(h).id = handle[h].id
  PROVE  \E r \in Handle : Finish(h, r) /\ Ends(h, r) /\ r.pc = "live" /\ r.is_b = handle[h].is_b /\ Place(r) = Place(handle[h])
<1>1. PICK r : r = [handle[h] EXCEPT !.pc = "live", !.src = NoHandle, !.consume = FALSE]
  BY Zenon
<1>2. /\ r \in Handle /\ r.pc = "live" /\ r.src = NoHandle /\ ~r.consume /\ r.is_b = handle[h].is_b
      /\ r.id = handle[h].id /\ r.depth = handle[h].depth /\ r.index = handle[h].index
  BY <1>1, Zenon DEF Handle, PCs
<1> QED BY <1>1, <1>2, Zenon DEF Live, Ends, Place

LEMMA NotFoundInv ==
  ASSUME IInv, NEW h \in Handles, NotFound(h) \/ DescriptorReserved(h)
  PROVE  IInv'
<1>1. handle[h].pc \in {"search", "ref_a"} /\ Gone(h) /\ UNCHANGED <<slot, tables, next_id>>
  BY Zenon DEF NotFound, DescriptorReserved, At
<1>2. SameAt(handle[h], FreeHandle, Place(handle[h]))
  <2>1. Away(handle[h], Place(handle[h])) /\ Away(FreeHandle, Place(handle[h]))
    BY <1>1, GoneEnds, Zenon DEF Away, Alone, Counted
  <2> QED BY <2>1, AwayFrom, Zenon DEF SameAt
<1> QED BY <1>1, <1>2, GoneEnds, FinishStays, Zenon

LEMMA CheckIdInv ==
  ASSUME IInv, NEW h \in Handles, CheckId(h)
  PROVE  IInv'
<1>1. /\ handle[h].pc = "check" /\ UNCHANGED <<slot, tables, next_id>> /\ handle[h] \in Handle
      /\ Source(h) /\ ~handle[h].consume
  BY Here, Zenon DEF CheckId, At, Source
<1>2. CASE mine(h).id = handle[h].id /\ Live(h)
  <2>1. PICK r \in Handle : Finish(h, r) /\ Ends(h, r) /\ r.pc = "live" /\ r.is_b = handle[h].is_b /\ Place(r) = Place(handle[h])
    BY <1>1, <1>2, LiveEnds, Zenon
  <2>2. SameAt(handle[h], r, Place(handle[h]))
    BY <1>1, <2>1, Zenon DEF SameAt, IsWriter, IsA, IsB, ClearsB, Alone, Counted
  <2> QED BY <1>1, <2>1, <2>2, FinishStays, ZenonT(40)
<1>3. CASE Goto(h, IF handle[h].is_b THEN "drop_b" ELSE "drop_a")
  <2>1. PICK pc : pc = IF handle[h].is_b THEN "drop_b" ELSE "drop_a"
    BY Zenon
  <2>2. pc \in PCs /\ Goto(h, pc)
    BY <1>3, <2>1, Zenon DEF PCs
  <2>3. SameAt(handle[h], [handle[h] EXCEPT !.pc = pc], Place(handle[h]))
    BY <1>1, <2>1, <2>2, PcFields, SMTT(30) DEF PcBecomes, SameAt, IsWriter, IsA, IsB, ClearsB, Alone, Counted
  <2>4. MayGoto(h, pc) /\ pc \notin Fresh
    BY <1>1, <2>1, Zenon DEF MayGoto, Settled, Initialising, Fresh
  <2> QED BY <1>1, <2>2, <2>3, <2>4, GotoStays, ZenonT(40)
<1> QED BY <1>2, <1>3, Zenon DEF CheckId

\* What h was called on is at the same slot, has a reference, and has compared the id.
LEMMA SourceHere ==
  ASSUME IInv, NEW h \in Handles, NEW p \in Slots, Stands(h, p), handle[h].src # NoHandle, handle[h].pc # "search"
  PROVE  \E k \in Handles : /\ IsA(handle[k], p) /\ slot[p].id = handle[h].id
                            /\ handle[h].pc \notin {"live", "moved"} => k # h
                            /\ handle[h].pc = "clone_b" => IsB(handle[k], p)
<1>1. PICK k \in Handles : k = handle[h].src
  BY Zenon DEF Stands, Handle
<1>2. /\ handle[k].pc \in {"live", "moved"} /\ handle[k].id = handle[h].id
      /\ handle[h].depth = handle[k].depth /\ handle[h].index = handle[k].index
      /\ handle[h].pc = "clone_b" => handle[k].pc = "live" /\ handle[k].is_b
  BY <1>1, Zenon DEF Stands, Source
<1>3. Place(handle[k]) = p
  BY <1>2, Zenon DEF Stands, Place
<1>4. slot[p].id = handle[h].id
  BY <1>2, <1>3, Here, ZenonT(40) DEF Owns, Settled
<1> QED BY <1>2, <1>3, <1>4, Zenon DEF IsA, IsB, Counted

\* With a reference to slot A, another one to slot B is taken where there is one already.
LEMMA RoomB ==
  ASSUME NEW h \in Handles, NEW p, Stands(h, p), handle[h].pc \in {"ref_b", "clone_b"}
  PROVE  slot[p].rc_b = NumB(p) /\ NumB(p) \in Nat /\ NumB(p) + 1 \in 0 .. RC - 1
<1>1. NumB(p) \in Nat /\ slot[p].rc_b = NumB(p)
  BY HolderHere, Zenon DEF Counted
<1>2. NumB(p) + 1 < RC - 1
  BY Tally, ZenonT(40) DEF IsB
<1> QED BY <1>1, <1>2, CountTypes

LEMMA JoinsB ==
  ASSUME NEW h \in Handles, NEW p, Stands(h, p), handle[h].pc \in {"ref_b", "clone_b"}, NumB(p) > 0,
         MovesAt(h, p), handle'[h].pc \in {"check", "live"}, handle'[h].is_b, Place(handle'[h]) = p,
         Puts(p, slot[p].rc_a, slot[p].rc_b + 1, slot[p].id, slot[p].slot_a, slot[p].slot_b)
  PROVE  Counts(p)' /\ Values(p)'
<1>1. /\ ~IsWriter(handle'[h], p) /\ IsA(handle[h], p) /\ IsA(handle'[h], p) /\ ~IsB(handle[h], p) /\ IsB(handle'[h], p)
      /\ ~ClearsB(handle[h], p) /\ ~ClearsB(handle'[h], p)
  BY ZenonT(40) DEF Stands, IsWriter, IsA, IsB, ClearsB, Alone, Counted
<1>2. /\ NumW(p) = 0 /\ NumA(p) \in Nat /\ NumA(p) > 0 /\ NumB(p) \in Nat /\ NumC(p) = 0
      /\ slot[p].rc_a = NumA(p) + 1 /\ slot[p].rc_b = NumB(p)
      /\ slot[p].slot_a = slot[p].id /\ slot[p].slot_b = slot[p].id
  BY HolderHere DEF Counted
<1>3. NumW(p)' = 0 /\ Writers(p)' = {} /\ NumA(p)' = NumA(p) /\ NumB(p)' = NumB(p) + 1 /\ NumC(p)' = 0
  <2>1. Recount(h, p)
    BY Moved, ZenonT(40)
  <2>2. NumW(p)' = 0 /\ Writers(p)' = {}
    BY <1>1, <1>2, NoWriters, ZenonT(40)
  <2> QED BY <1>1, <1>2, <2>1, <2>2, ZenonT(40) DEF Recount, Steps
<1> QED BY <1>2, <1>3 DEF Puts, Counts, Values

LEMMA acquire_ref_bInv ==
  ASSUME IInv, NEW h \in Handles, acquire_ref_b(h)
  PROVE  IInv'
<1>1. PICK p \in Slots : Stands(h, p)
  BY Stand
<1>2. handle[h].pc = "ref_b" /\ slot[p].rc_b >= 1 /\ handle[h].is_b /\ Acquired(h) /\ UNCHANGED <<tables, next_id>>
  BY <1>1, Zenon DEF acquire_ref_b, At, Stands, Owns
<1>3. NumB(p) > 0 /\ slot[p].rc_b + 1 \in 0 .. RC - 1
  BY <1>1, <1>2, RoomB
<1>4. Puts(p, slot[p].rc_a, slot[p].rc_b + 1, slot[p].id, slot[p].slot_a, slot[p].slot_b)
  BY <1>1, <1>3, PutRcB, ZenonT(40) DEF acquire_ref_b, Stands
<1>5. CASE handle[h].consume
  <2>1. mine(h).id = handle[h].id /\ handle[h] \in Handle
    BY <1>1, <1>2, <1>5, SourceHere, ZenonT(40) DEF Stands, Source
  <2>2. PICK r \in Handle : Finish(h, r) /\ Ends(h, r) /\ r.pc = "live" /\ r.is_b = handle[h].is_b /\ Place(r) = p
    BY <1>1, <1>2, <1>5, <2>1, LiveEnds, Zenon DEF Acquired, Stands
  <2>3. MovesAt(h, p) /\ handle'[h] = r
    BY <1>1, <2>2, FinishMoves, Zenon DEF Stands
  <2>4. Counts(p)' /\ Values(p)'
    BY <1>1, <1>2, <1>3, <1>4, <2>2, <2>3, JoinsB, ZenonT(40)
  <2> QED BY <1>1, <1>2, <1>4, <2>2, <2>4, FinishStep, ZenonT(40) DEF Stands, Puts
<1>6. CASE ~handle[h].consume
  <2>1. /\ "check" \in PCs /\ Goto(h, "check") /\ MovesAt(h, p) /\ PcBecomes(handle[h], handle'[h], "check")
    BY <1>1, <1>2, <1>6, GotoMoves, Zenon DEF Acquired, PCs, Stands
  <2>2. Counts(p)' /\ Values(p)'
    BY <1>1, <1>2, <1>3, <1>4, <2>1, JoinsB, ZenonT(40) DEF PcBecomes, Stands
  <2>3. MayGoto(h, "check")
    BY <1>2, <1>6, ZenonT(40) DEF MayGoto, Settled, Initialising
  <2> QED BY <1>1, <1>2, <1>4, <2>1, <2>2, <2>3, GotoStep, ZenonT(40) DEF Stands, Puts, Fresh
<1> QED BY <1>5, <1>6, Zenon

LEMMA CloneBInv ==
  ASSUME IInv, NEW h \in Handles, CloneB(h)
  PROVE  IInv'
<1>1. PICK p \in Slots : Stands(h, p)
  BY Stand
<1>2. /\ handle[h].pc = "clone_b" /\ handle[h].is_b /\ Live(h) /\ UNCHANGED <<tables, next_id>>
      /\ mine(h).id = handle[h].id /\ handle[h] \in Handle /\ handle[h].src # NoHandle
  BY <1>1, Zenon DEF CloneB, At, Stands, Owns, Settled, Source
<1>3. NumB(p) > 0 /\ Inc(slot[p].rc_b) = slot[p].rc_b + 1 /\ slot[p].rc_b + 1 \in 0 .. RC - 1
  <2>1. NumB(p) > 0
    BY <1>1, <1>2, SourceHere, Tally, Zenon
  <2>2. slot[p].rc_b \in Nat /\ slot[p].rc_b + 1 \in 0 .. RC - 1 /\ RC \in Nat
    BY <1>1, <1>2, RoomB, CountTypes, Zenon
  <2> QED BY <2>1, <2>2 DEF Inc
<1>4. Puts(p, slot[p].rc_a, slot[p].rc_b + 1, slot[p].id, slot[p].slot_a, slot[p].slot_b)
  BY <1>1, <1>3, PutRcB, Zenon DEF CloneB, Stands
<1>5. PICK r \in Handle : Finish(h, r) /\ Ends(h, r) /\ r.pc = "live" /\ r.is_b = handle[h].is_b /\ Place(r) = p
  BY <1>1, <1>2, LiveEnds, ZenonT(40) DEF Stands
<1>6. MovesAt(h, p) /\ handle'[h] = r
  BY <1>1, <1>5, FinishMoves DEF Stands
<1>7. Counts(p)' /\ Values(p)'
  BY <1>1, <1>2, <1>3, <1>4, <1>5, <1>6, JoinsB, Zenon
<1> QED BY <1>1, <1>2, <1>4, <1>5, <1>7, FinishStep, ZenonT(40) DEF Stands, Puts

LEMMA _decrement_rc_aInv ==
  ASSUME IInv, NEW h \in Handles, _decrement_rc_a(h)
  PROVE  IInv'
<1>1. PICK p \in Slots : Stands(h, p)
  BY Stand
<1>2. Puts(p, Dec(slot[p].rc_a), slot[p].rc_b, slot[p].id, slot[p].slot_a, slot[p].slot_b)
  BY <1>1, CountTypes, PutRcA, Zenon DEF _decrement_rc_a, Stands, Descriptor
<1>3. handle[h].pc = "drop_a" /\ UNCHANGED <<tables, next_id>>
  BY Zenon DEF _decrement_rc_a, At
<1>4. ~IsWriter(handle[h], p) /\ IsA(handle[h], p) /\ ~IsB(handle[h], p) /\ ~ClearsB(handle[h], p)
  BY <1>1, <1>3, ZenonT(40) DEF Stands, IsWriter, IsA, IsB, ClearsB, Alone, Counted
<1>5. /\ NumW(p) = 0 /\ NumA(p) \in Nat /\ NumA(p) > 0 /\ NumB(p) \in Nat /\ NumC(p) \in Nat
      /\ slot[p].rc_a = NumA(p) + 1 /\ NumA(p) < RC - 1
  BY <1>1, <1>3, <1>4, HolderHere, Tally, ZenonT(40) DEF Counted
<1>6. Dec(slot[p].rc_a) = NumA(p)
  BY <1>5, CountTypes, UpDown
<1>7. CASE slot[p].rc_a = 2
  <2>1. /\ "clear_a" \in PCs /\ Goto(h, "clear_a") /\ MovesAt(h, p) /\ PcBecomes(handle[h], handle'[h], "clear_a")
    BY <1>1, <1>7, GotoMoves, Zenon DEF _decrement_rc_a, PCs, Stands
  <2>2. IsWriter(handle'[h], p) /\ ~IsA(handle'[h], p) /\ ~IsB(handle'[h], p) /\ ~ClearsB(handle'[h], p)
    BY <1>1, <2>1, Zenon DEF Stands, PcBecomes, IsWriter, IsA, IsB, ClearsB, Alone, Counted
  <2>3. NumW(p) + NumA(p) = 1
    BY <1>5, <1>7
  <2>4. NumB(p) = 0 /\ NumC(p) = 0 /\ \A k \in Handles : IsWriter(handle[k], p) \/ IsA(handle[k], p) => k = h
    BY <1>4, <2>3, Single, ZenonT(40)
  <2>5. NumW(p)' = 1 /\ NumA(p)' = 0 /\ NumB(p)' = 0 /\ NumC(p)' = 0 /\ \A k \in Writers(p)' : k = h
    <3>1. Recount(h, p)
      BY <2>1, Moved, Zenon
    <3>2. \A k \in Writers(p)' : k = h
      BY <2>4, <3>1, Zenon DEF Recount, Writers
    <3>3. NumW(p) = 0 /\ NumA(p) = 1
      BY <1>5, <2>3
    <3> QED BY <1>4, <2>2, <2>4, <3>1, <3>2, <3>3, SMTT(30) DEF Recount, Steps
  <2>6. Counts(p)' /\ Values(p)'
    <3>1. slot[p].rc_b = 0 /\ slot[p].slot_b = None
      <4>1. slot[p].rc_b = NumB(p) /\ slot[p].slot_b = (IF NumB(p) + NumC(p) > 0 THEN slot[p].id ELSE None)
        BY <1>1, <1>3, HolderHere, Zenon DEF Counted
      <4> QED BY <2>4, <4>1
    <3>2. slot'[p].rc_a = 1 /\ slot'[p].rc_b = 0 /\ slot'[p].slot_b = None
      BY <1>2, <1>5, <1>6, <2>3, <3>1 DEF Puts
    <3>3. \A k \in Writers(p)' : handle'[k].pc = "clear_a"
      BY <2>1, <2>5, Zenon DEF PcBecomes
    <3> QED BY <2>5, <3>2, <3>3, SMTT(30) DEF Counts, Values, WriterValues
  <2>7. handle[h].src = NoHandle
    BY <1>1, <1>3, <2>4, SourceHere, ZenonT(40)
  <2>8. MayGoto(h, "clear_a")
    BY <1>1, <1>3, <2>7, Zenon DEF MayGoto, Stands, Source, Settled, Initialising
  <2> QED BY <1>1, <1>2, <1>3, <2>1, <2>6, <2>8, GotoStep, ZenonT(40) DEF Stands, Puts, Fresh
<1>8. CASE slot[p].rc_a # 2
  <2>1. FreeHandle \in Handle /\ Finish(h, FreeHandle) /\ Ends(h, FreeHandle) /\ Away(FreeHandle, p)
    BY <1>1, <1>8, GoneEnds, Zenon DEF _decrement_rc_a, Stands
  <2>2. MovesAt(h, p) /\ handle'[h] = FreeHandle
    BY <1>1, <2>1, FinishMoves, Zenon DEF Stands
  <2>3. ~IsWriter(handle'[h], p) /\ ~IsA(handle'[h], p) /\ ~IsB(handle'[h], p) /\ ~ClearsB(handle'[h], p)
    BY <2>1, <2>2, AwayFrom, Zenon
  <2>4. NumW(p)' = 0 /\ Writers(p)' = {} /\ NumA(p)' = NumA(p) - 1 /\ NumB(p)' = NumB(p) /\ NumC(p)' = NumC(p)
    <3>1. Recount(h, p)
      BY <2>2, Moved, ZenonT(40)
    <3>2. NumW(p)' = 0 /\ Writers(p)' = {}
      BY <1>5, <2>2, <2>3, NoWriters, ZenonT(40)
    <3> QED BY <1>4, <1>5, <2>3, <3>1, <3>2, Zenon DEF Recount, Steps
  <2>5. Counts(p)' /\ Values(p)'
    <3>1. /\ slot[p].slot_a = slot[p].id /\ slot[p].rc_b = NumB(p)
          /\ slot[p].slot_b = (IF NumB(p) + NumC(p) > 0 THEN slot[p].id ELSE None)
          /\ NumC(p) > 0 => NumC(p) = 1 /\ NumB(p) = 0
      BY <1>1, <1>3, HolderHere, Zenon DEF Counted
    <3> QED BY <1>2, <1>5, <1>6, <1>8, <2>4, <3>1, SMTT(30) DEF Puts, Counts, Values
  <2> QED BY <1>1, <1>2, <1>3, <2>1, <2>5, FinishStep, ZenonT(40) DEF Stands, Puts
<1> QED BY <1>7, <1>8, Zenon

LEMMA ClearStoreInv ==
  ASSUME IInv, NEW h \in Handles, ClearStore(h)
  PROVE  IInv'
<1>1. PICK p \in Slots : Stands(h, p)
  BY Stand
<1>2. Puts(p, 0, slot[p].rc_b, slot[p].id, slot[p].slot_a, slot[p].slot_b)
  BY <1>1, CountTypes, PutRcA, Zenon DEF ClearStore
<1>3. /\ handle[h].pc = "free_slot" /\ UNCHANGED <<tables, next_id>> /\ FreeHandle \in Handle
      /\ Finish(h, FreeHandle) /\ Ends(h, FreeHandle) /\ Away(FreeHandle, p)
  BY GoneEnds, Zenon DEF ClearStore, At
<1>4. MovesAt(h, p) /\ handle'[h] = FreeHandle
  BY <1>1, <1>3, FinishMoves, ZenonT(40) DEF Stands
<1>5. /\ NumW(p) = 1 /\ NumA(p) = 0 /\ NumC(p) = 0 /\ NumB(p) = 0 /\ slot[p].rc_b = 0
      /\ slot[p].slot_a = None /\ slot[p].slot_b = None
      /\ \A k \in Handles : handle[k].pc \in Alone /\ Place(handle[k]) = p => k = h
  BY <1>1, <1>3, WriterAlone, ZenonT(40) DEF Alone, WriterValues
<1>6. /\ IsWriter(handle[h], p) /\ ~IsA(handle[h], p) /\ ~IsB(handle[h], p) /\ ~ClearsB(handle[h], p)
      /\ ~IsWriter(handle'[h], p) /\ ~IsA(handle'[h], p) /\ ~IsB(handle'[h], p) /\ ~ClearsB(handle'[h], p)
  <2>1. IsWriter(handle[h], p) /\ ~IsA(handle[h], p) /\ ~IsB(handle[h], p) /\ ~ClearsB(handle[h], p)
    BY <1>1, <1>3, ZenonT(40) DEF Stands, IsWriter, IsA, IsB, ClearsB, Alone, Counted
  <2> QED BY <1>3, <1>4, <2>1, AwayFrom, Zenon
<1>7. NumW(p)' = 0 /\ NumA(p)' = 0 /\ NumB(p)' = 0 /\ NumC(p)' = 0 /\ Writers(p)' = {}
  <2>1. Recount(h, p)
    BY <1>4, Moved, Zenon
  <2>2. Writers(p)' = {}
    BY <1>5, <1>6, <2>1, ZenonT(40) DEF Recount, Writers, IsWriter
  <2>3. NumW(p)' = NumW(p) - 1 /\ NumA(p)' = NumA(p) /\ NumB(p)' = NumB(p) /\ NumC(p)' = NumC(p)
    BY <1>6, <2>1, ZenonT(40) DEF Recount, Steps
  <2> QED BY <1>5, <2>2, <2>3, SMTT(30)
<1>8. Counts(p)' /\ Values(p)'
  BY <1>2, <1>5, <1>7 DEF Puts, Counts, Values
<1> QED BY <1>1, <1>2, <1>3, <1>8, FinishStep, ZenonT(40) DEF Stands, Puts
----------------------------------------------------------------------------
(* Copying a handle *)

\* The handle k, which was not in use, becomes a second one at the place of h.
Twin(h, y) == y \in Handle /\ y.id = handle[h].id /\ y.depth = handle[h].depth /\ y.index = handle[h].index

LEMMA JoinsA ==
  ASSUME IInv, NEW h \in Handles, NEW k \in Handles, NEW p \in Slots, Stands(h, p), handle[h].pc = "live",
         handle[k].pc = "free", Update(h, [mine(h) EXCEPT !.rc_a = Inc(@)]), \A s : OthersSame(k, s),
         Twin(h, handle'[k]), handle'[k].pc = "clone_b" \/ (handle'[k].pc = "live" /\ ~handle'[k].is_b)
  PROVE  /\ \A s \in Slots : Counts(s)' /\ Values(s)'
         /\ slot' \in [Slots -> Descriptor] /\ \A s \in Slots : slot'[s].id = slot[s].id
<1>1. Puts(p, Inc(slot[p].rc_a), slot[p].rc_b, slot[p].id, slot[p].slot_a, slot[p].slot_b)
  BY CountTypes, PutRcA, Zenon DEF Stands, Descriptor
<1>2. Place(handle'[k]) = p
  BY Zenon DEF Twin, Stands, Place
<1>3. /\ ~IsWriter(handle'[k], p) /\ ~IsA(handle[k], p) /\ IsA(handle'[k], p) /\ ~IsB(handle[k], p) /\ ~IsB(handle'[k], p)
      /\ ~ClearsB(handle[k], p) /\ ~ClearsB(handle'[k], p)
  BY <1>2, Zenon DEF IsWriter, IsA, IsB, ClearsB, Alone, Counted
<1>4. MovesAt(k, p)
  BY <1>2, Zenon DEF MovesAt, Away, Alone, Counted
<1>5. /\ NumW(p) = 0 /\ NumA(p) \in Nat /\ NumA(p) > 0 /\ NumB(p) \in Nat /\ NumC(p) \in Nat
      /\ slot[p].rc_a = NumA(p) + 1 /\ NumA(p) + 1 < RC - 1
  BY <1>3, HolderHere, Tally, Zenon DEF Counted
<1>6. Inc(slot[p].rc_a) = NumA(p) + 2
  BY <1>5, CountTypes, UpDown
<1>7. NumW(p)' = 0 /\ Writers(p)' = {} /\ NumA(p)' = NumA(p) + 1 /\ NumB(p)' = NumB(p) /\ NumC(p)' = NumC(p)
  <2>1. Recount(k, p)
    BY <1>4, Moved, Zenon
  <2>2. NumW(p)' = 0 /\ Writers(p)' = {}
    BY <1>3, <1>4, <1>5, NoWriters, Zenon
  <2> QED BY <1>3, <1>4, <1>5, <2>1, <2>2, ZenonT(40) DEF Recount, Steps
<1>8. Counts(p)' /\ Values(p)'
  BY <1>1, <1>5, <1>6, <1>7 DEF Stands, Puts, Counts, Values
<1> QED BY <1>1, <1>4, <1>8, SlotsFrame, Zenon DEF Puts

LEMMA CopyStep ==
  ASSUME IInv, NEW h \in Handles, NEW C, Apart(C), handle' \in [Handles -> Handle],
         slot' \in [Slots -> Descriptor], \A s \in Slots : slot'[s].id = slot[s].id,
         UNCHANGED <<tables, next_id>>, \A s \in Slots : Counts(s)' /\ Values(s)',
         \A i \in C : Twin(h, handle'[i]) /\ handle'[i].pc \notin Fresh /\ Owns(i)' /\ Source(i)'
  PROVE  IInv'
<1>1. TypeOK' /\ next_id <= next_id' /\ tables \subseteq tables'
  BY Here DEF TypeOK
<1>2. \A i \in C : Reached(i)'
  BY KeepReached, Zenon DEF Twin, Apart
<1>3. \A k \in Handles \ C : mine(k)'.id = mine(k).id
  BY Here, Zenon DEF Apart, Only, mine
<1>4. \A k \in Handles : Owns(k)' /\ Source(k)' /\ Reached(k)'
  BY <1>1, <1>2, <1>3, HandlesFrame, Zenon
<1>5. Ids'
  BY KeepIds, Zenon DEF Apart
<1> QED BY <1>1, <1>4, <1>5, Zenon DEF IInv

LEMMA CloneInv ==
  ASSUME IInv, NEW h \in Handles, NEW k \in Handles, clone_a_ref(h, k) \/ clone_b_ref(h, k)
  PROVE  IInv'
<1>1. PICK p \in Slots : Stands(h, p)
  BY Stand, Zenon
<1>2. PICK y : y = IF clone_a_ref(h, k) THEN [handle[h] EXCEPT !.is_b = FALSE] ELSE New(k, h, "clone_b", TRUE, FALSE)
  BY Zenon
<1>3. /\ handle[h].pc = "live" /\ handle[k].pc = "free" /\ UNCHANGED <<tables, next_id>>
      /\ Update(h, [mine(h) EXCEPT !.rc_a = Inc(@)]) /\ handle' = [handle EXCEPT ![k] = y]
  BY <1>2, Zenon DEF clone_a_ref, clone_b_ref, At
<1>4. /\ handle[h] \in Handle /\ handle[h].src = NoHandle /\ ~handle[h].consume /\ slot[p].id = handle[h].id
      /\ handle[h].id # None /\ NoHandle \notin Handles
  BY <1>1, <1>3, DescriptorsAssumption, Zenon DEF Stands, Owns, Source, Settled
<1>5. /\ Twin(h, y) /\ ~y.consume
      /\ \/ y.pc = "live" /\ ~y.is_b /\ y.src = NoHandle
         \/ y.pc = "clone_b" /\ y.is_b /\ y.src = h /\ handle[h].is_b
  <2>1. CASE clone_a_ref(h, k)
    <3>1. /\ y \in Handle /\ y.pc = "live" /\ y.is_b = FALSE /\ y.src = NoHandle /\ y.consume = handle[h].consume
          /\ y.id = handle[h].id /\ y.depth = handle[h].depth /\ y.index = handle[h].index
      BY <1>2, <1>3, <1>4, <2>1, ZenonT(40) DEF Handle
    <3> QED BY <1>4, <3>1, Zenon DEF Twin
  <2>2. CASE ~clone_a_ref(h, k) /\ clone_b_ref(h, k)
    <3>1. /\ y \in Handle /\ y.pc = "clone_b" /\ y.is_b = TRUE /\ y.src = h /\ y.consume = FALSE
          /\ y.id = handle[h].id /\ y.depth = handle[h].depth /\ y.index = handle[h].index
      BY <1>2, <1>4, <2>2, ZenonT(40) DEF Handle, New, PCs
    <3> QED BY <2>2, <3>1, Zenon DEF Twin, clone_b_ref
  <2> QED BY <2>1, <2>2, Zenon
<1>6. handle' \in [Handles -> Handle] /\ handle'[k] = y /\ handle'[h] = handle[h] /\ Only({k}) /\ \A s : OthersSame(k, s)
  <2>1. handle' \in [Handles -> Handle] /\ handle'[k] = y /\ Only({k})
    BY <1>3, <1>5, Here, Replaced, ZenonT(40) DEF Twin
  <2> QED BY <1>3, <2>1, Zenon DEF Only, OthersSame, SameAt
<1>7. /\ \A s \in Slots : Counts(s)' /\ Values(s)'
      /\ slot' \in [Slots -> Descriptor] /\ \A s \in Slots : slot'[s].id = slot[s].id
  BY <1>1, <1>3, <1>5, <1>6, JoinsA, ZenonT(40)
<1>8. Owns(k)'
  BY <1>1, <1>4, <1>5, <1>6, <1>7, ZenonT(40) DEF Owns, Twin, Settled, Initialising, mine, Place, Stands
<1>9. Source(k)'
  BY <1>3, <1>4, <1>5, <1>6, Zenon DEF Source, Twin
<1>10. Apart({k})
  BY <1>3, <1>5, <1>6, NotSource, ZenonT(40) DEF Apart
<1> QED BY <1>3, <1>5, <1>6, <1>7, <1>8, <1>9, <1>10, CopyStep, ZenonT(40) DEF Fresh

\* h, which nothing was called on, goes to pc when k appears.
LEMMA SplitShape ==
  ASSUME IInv, NEW h \in Handles, NEW k \in Handles, NEW y, Twin(h, y), NEW pc \in PCs, handle[h].pc = "live",
         handle[k].pc = "free", ~Borrowed(h), handle' = [handle EXCEPT ![k] = y, ![h].pc = pc], y.src \in {NoHandle, h}
  PROVE  /\ handle' \in [Handles -> Handle] /\ handle'[k] = y /\ PcBecomes(handle[h], handle'[h], pc)
         /\ Twin(h, handle'[h]) /\ Apart({h, k})
<1>1. handle \in [Handles -> Handle] /\ h # k
  BY Here, Zenon DEF TypeOK
<1>2. PICK z : z = [handle[h] EXCEPT !.pc = pc]
  BY Zenon
<1>3. z \in Handle /\ PcBecomes(handle[h], z, pc)
  BY <1>1, <1>2, PcFields, Zenon
<1>4. handle' = [handle EXCEPT ![k] = y, ![h] = z]
  BY <1>1, <1>2, Zenon
<1>5. handle' \in [Handles -> Handle] /\ Only({h, k}) /\ handle'[k] = y /\ handle'[h] = z
  BY <1>1, <1>3, <1>4, ZenonT(40) DEF Only, Twin
<1>6. \A i \in Handles : handle[i].src \notin {h, k}
  BY NotSource, Zenon
<1> QED BY <1>3, <1>5, <1>6, ZenonT(40) DEF Apart, PcBecomes, Twin

LEMMA downgradeInv ==
  ASSUME IInv, NEW h \in Handles, NEW k \in Handles, downgrade(h, k)
  PROVE  IInv'
<1>1. PICK p \in Slots : Stands(h, p)
  BY Stand, Zenon
<1>2. PICK y : y = [handle[h] EXCEPT !.is_b = FALSE]
  BY Zenon
<1>3. /\ handle[h].pc = "live" /\ handle[k].pc = "free" /\ handle[h].is_b /\ ~Borrowed(h) /\ UNCHANGED <<tables, next_id>>
      /\ Update(h, [mine(h) EXCEPT !.rc_a = Inc(@)]) /\ handle' = [handle EXCEPT ![k] = y, ![h].pc = "drop_b"]
      /\ "drop_b" \in PCs
  BY <1>2, Zenon DEF downgrade, At, PCs
<1>4. /\ handle[h] \in Handle /\ handle[h].src = NoHandle /\ ~handle[h].consume /\ slot[p].id = handle[h].id
      /\ handle[h].id # None
  BY <1>1, <1>3, Zenon DEF Stands, Owns, Source, Settled
<1>5. Twin(h, y) /\ y.pc = "live" /\ ~y.is_b /\ y.src = NoHandle /\ ~y.consume
  <2>1. /\ y \in Handle /\ y.pc = "live" /\ y.is_b = FALSE /\ y.src = NoHandle /\ y.consume = handle[h].consume
        /\ y.id = handle[h].id /\ y.depth = handle[h].depth /\ y.index = handle[h].index
    BY <1>2, <1>3, <1>4, ZenonT(40) DEF Handle
  <2> QED BY <1>4, <2>1, Zenon DEF Twin
<1>6. /\ handle' \in [Handles -> Handle] /\ handle'[k] = y /\ PcBecomes(handle[h], handle'[h], "drop_b")
      /\ Twin(h, handle'[h]) /\ Apart({h, k})
  BY <1>3, <1>5, SplitShape, Zenon
<1>7. \A s : OthersSame(k, s)
  <2>1. \A s : SameAt(handle[h], handle'[h], s)
    BY <1>3, <1>6, Zenon DEF PcBecomes, SameAt, IsWriter, IsA, IsB, ClearsB, Alone, Counted
  <2> QED BY <1>6, <2>1, Zenon DEF Apart, Only, OthersSame, SameAt
<1>8. /\ \A s \in Slots : Counts(s)' /\ Values(s)'
      /\ slot' \in [Slots -> Descriptor] /\ \A s \in Slots : slot'[s].id = slot[s].id
  BY <1>1, <1>3, <1>5, <1>6, <1>7, JoinsA, ZenonT(40)
<1>9. Owns(h)' /\ Source(h)'
  <2>1. Owns(h)'
    BY <1>3, <1>4, <1>6, ZenonT(40) DEF Owns, PcBecomes, Settled, Initialising
  <2>2. Source(h)'
    BY <1>3, <1>4, <1>6, ZenonT(40) DEF Source, PcBecomes
  <2> QED BY <2>1, <2>2, Zenon
<1>10. Owns(k)' /\ Source(k)'
  BY <1>1, <1>4, <1>5, <1>6, <1>8, ZenonT(40) DEF Owns, Source, Twin, Initialising, mine, Place, Stands
<1> QED BY <1>3, <1>5, <1>6, <1>8, <1>9, <1>10, CopyStep, SMTT(30) DEF Fresh, PcBecomes

LEMMA upgradeInv ==
  ASSUME IInv, NEW h \in Handles, NEW k \in Handles, upgrade(h, k)
  PROVE  IInv'
<1>1. PICK p \in Slots : Stands(h, p)
  BY Stand
<1>2. PICK y : y = New(k, h, "ref_a", TRUE, TRUE)
  BY Zenon
<1>3. /\ handle[h].pc = "live" /\ handle[k].pc = "free" /\ ~handle[h].is_b /\ ~Borrowed(h)
      /\ UNCHANGED <<slot, tables, next_id>> /\ handle' = [handle EXCEPT ![k] = y, ![h].pc = "moved"]
      /\ "moved" \in PCs
  BY <1>2, Zenon DEF upgrade, At, PCs
<1>4. /\ handle[h] \in Handle /\ handle[h].src = NoHandle /\ ~handle[h].consume /\ slot[p].id = handle[h].id
      /\ handle[h].id # None /\ slot \in [Slots -> Descriptor] /\ h # NoHandle /\ h # k
  BY <1>1, <1>3, Here, DescriptorsAssumption, ZenonT(40) DEF Stands, Owns, Source, Settled, TypeOK
<1>5. Twin(h, y) /\ y.pc = "ref_a" /\ y.is_b /\ y.src = h /\ y.consume
  <2>1. /\ y \in Handle /\ y.pc = "ref_a" /\ y.is_b = TRUE /\ y.src = h /\ y.consume = TRUE
        /\ y.id = handle[h].id /\ y.depth = handle[h].depth /\ y.index = handle[h].index
    BY <1>2, <1>4, Zenon DEF Handle, New, PCs
  <2> QED BY <2>1, Zenon DEF Twin
<1>6. /\ handle' \in [Handles -> Handle] /\ handle'[k] = y /\ PcBecomes(handle[h], handle'[h], "moved")
      /\ Twin(h, handle'[h]) /\ Apart({h, k})
  BY <1>3, <1>5, SplitShape, Zenon
<1>7. \A s \in Slots : Counts(s)' /\ Values(s)'
  <2> SUFFICES ASSUME NEW s \in Slots PROVE Counts(s)' /\ Values(s)'
    BY Zenon
  <2>1. SameAt(handle[h], handle'[h], s)
    BY <1>3, <1>6, Zenon DEF PcBecomes, SameAt, IsWriter, IsA, IsB, ClearsB, Alone, Counted
  <2>2. Away(handle[k], s) /\ Away(handle'[k], s)
    BY <1>3, <1>5, <1>6, ZenonT(40) DEF Away, Alone, Counted
  <2>3. \A i \in Handles : SameAt(handle[i], handle'[i], s)
    BY <1>6, <2>1, <2>2, AwayFrom, ZenonT(40) DEF Apart, Only, SameAt
  <2>4. slot'[s] = slot[s] /\ Counts(s) /\ Values(s)
    BY <1>3, Zenon DEF IInv
  <2> QED BY <2>3, <2>4, Unaffected, ZenonT(40)
<1>8. Owns(h)' /\ Source(h)'
  BY <1>1, <1>3, <1>4, <1>6, ZenonT(40) DEF Owns, Source, PcBecomes, Settled, Initialising, mine, Stands
<1>9. Owns(k)' /\ Source(k)'
  <2>1. \A i \in Handles : handle'[i].src = h => i = k
    BY <1>3, <1>4, <1>6, ZenonT(40) DEF Apart, Only, PcBecomes, Borrowed
  <2> QED BY <1>4, <1>5, <1>6, <2>1, ZenonT(40) DEF Owns, Source, Twin, PcBecomes, Settled, Initialising
<1> QED BY <1>3, <1>4, <1>5, <1>6, <1>7, <1>8, <1>9, CopyStep, SMTT(30) DEF Fresh, PcBecomes
----------------------------------------------------------------------------
(* The invariant *)

LEMMA InitInv ==
  ASSUME Init
  PROVE  IInv
<1>1. FreeHandle \in Handle /\ \A h \in Handles : handle[h] = FreeHandle
  BY FreeType, Zenon DEF Init
<1>2. /\ FreeHandle.pc = "free" /\ FreeHandle.id = 0 /\ FreeHandle.src = NoHandle /\ ~FreeHandle.consume
      /\ FreeHandle.depth = 0
  BY Zenon DEF FreeHandle, None
<1>3. new_empty \in Descriptor /\ \A s \in Slots : slot[s] = new_empty
  BY CountTypes, ZenonT(40) DEF Init, new_empty, Descriptor
<1>4. new_empty.rc_a = 0 /\ new_empty.rc_b = 0 /\ new_empty.id = 0 /\ new_empty.slot_a = None /\ new_empty.slot_b = None
  BY Zenon DEF new_empty, None
<1>5. TypeOK
  <2>1. <<>> \in Paths
    <3>1. <<>> \in [1 .. 0 -> 0 .. M - 1] /\ 0 \in 0 .. MAX_DEPTH
      BY DescriptorsAssumption
    <3> QED BY <3>1, Zenon DEF Paths
  <2>2. 1 \in 1 .. MAX_ID + 1
    BY DescriptorsAssumption, SMTT(30)
  <2> QED BY <1>1, <1>3, <2>1, <2>2, ZenonT(40) DEF TypeOK, Init
<1>6. ASSUME NEW s \in Slots PROVE Counts(s) /\ Values(s)
  <2>1. Writers(s) = {} /\ HoldersA(s) = {} /\ HoldersB(s) = {} /\ ClearersB(s) = {}
    BY <1>1, <1>2, Zenon DEF Writers, HoldersA, HoldersB, ClearersB, IsWriter, IsA, IsB, ClearsB, Alone, Counted
  <2>2. NumW(s) = 0 /\ NumA(s) = 0 /\ NumB(s) = 0 /\ NumC(s) = 0
    BY <2>1, FS_EmptySet, Zenon DEF NumW, NumA, NumB, NumC
  <2> QED BY <1>3, <1>4, <2>1, <2>2, SMTT(30) DEF Counts, Values
<1>7. ASSUME NEW h \in Handles PROVE Owns(h) /\ Source(h) /\ Reached(h)
  <2>1. Owns(h) /\ Source(h)
    BY <1>1, <1>2, Zenon DEF Owns, Source, Settled, Initialising
  <2>2. TableOf(handle[h].id, 0) = <<>>
    BY DEF TableOf
  <2>3. Reached(h)
    BY <1>1, <1>2, <2>2, SMTT(30) DEF Reached, Init
  <2> QED BY <2>1, <2>3, Zenon
<1>8. Ids
  BY <1>1, <1>2, <1>3, <1>4, SMTT(30) DEF Ids, Init, Fresh, None
<1> QED BY <1>5, <1>6, <1>7, <1>8, ZenonT(40) DEF IInv

LEMMA StutterInv ==
  ASSUME IInv, UNCHANGED vars
  PROVE  IInv'
<1>1. UNCHANGED <<slot, tables, next_id, handle>>
  BY Zenon DEF vars
<1>2. \A s \in Slots : Counts(s)' /\ Values(s)'
  BY <1>1, Unaffected, ZenonT(40) DEF IInv, SameAt
<1>3. TypeOK'
  BY <1>1, ZenonT(40) DEF IInv, TypeOK
<1>4. \A h \in Handles : Owns(h)' /\ Source(h)' /\ Reached(h)'
  BY <1>1, ZenonT(40) DEF IInv, Owns, Source, Reached, mine
<1>5. Ids'
  BY <1>1, Zenon DEF IInv, Ids
<1> QED BY <1>2, <1>3, <1>4, <1>5, ZenonT(40) DEF IInv

LEMMA NextInv ==
  ASSUME IInv, [Next]_vars
  PROVE  IInv'
<1>1. CASE UNCHANGED vars
  BY <1>1, StutterInv, Zenon
<1>2. ASSUME NEW h \in Handles, Creates(h) PROVE IInv'
  BY <1>2, create_new_descriptorInv, reserveInv, _allocate_emptyInv, ReserveClearBInv, ReserveIdInv,
     _init_slotsInv, CommitBInv, CommitAInv, DropInitialiserInv, ZenonT(40) DEF Creates
<1>3. ASSUME NEW h \in Handles, Acquires(h) PROVE IInv'
  BY <1>3, acquireInv, _searchInv, NotFoundInv, acquire_ref_aInv, acquire_ref_bInv, BSlotNotAvailableInv,
     CheckIdInv, ZenonT(40) DEF Acquires
<1>4. ASSUME NEW h \in Handles, Copies(h) PROVE IInv'
  BY <1>4, CloneInv, upgradeInv, downgradeInv, CloneBInv, ZenonT(40) DEF Copies
<1>5. ASSUME NEW h \in Handles, Drops(h) PROVE IInv'
  BY <1>5, DropHandleInv, _decrement_rc_bInv, _clear_slot_bInv, _decrement_rc_aInv, _clearInv,
     ClearStoreInv, ZenonT(40) DEF Drops
<1> QED BY <1>1, <1>2, <1>3, <1>4, <1>5, Zenon DEF Next

\* The counts, values, ids and places fit the program points of the handles in every
\* reachable state of the descriptor tables.
THEOREM Invariance == Spec => []IInv
<1>1. Init => IInv
  BY InitInv, Zenon
<1>2. IInv /\ [Next]_vars => IInv'
  BY NextInv, Zenon
<1> QED BY <1>1, <1>2, PTL DEF Spec
----------------------------------------------------------------------------
(* What follows *)

\* get_a and get_b of a handle in the user's hands find the values of the
\* descriptor that the handle is for.
THEOREM HandlesSeeTheirDescriptorHolds == Spec => []HandlesSeeTheirDescriptor
<1>1. ASSUME IInv PROVE HandlesSeeTheirDescriptor
  <2> SUFFICES ASSUME NEW h \in Handles, Usable(h)
               PROVE  /\ mine(h).id = handle[h].id /\ mine(h).slot_a = handle[h].id
                      /\ handle[h].is_b => mine(h).slot_b = handle[h].id
    BY Zenon DEF HandlesSeeTheirDescriptor
  <2>1. PICK p \in Slots : Stands(h, p)
    BY <1>1, Stand, Zenon
  <2>2. handle[h].pc \in {"live", "moved"} /\ mine(h) = slot[p] /\ slot[p].id = handle[h].id
    BY <2>1, Zenon DEF Usable, Stands, Owns, Settled
  <2>3. /\ NumB(p) \in Nat /\ NumC(p) \in Nat /\ slot[p].slot_a = slot[p].id
        /\ slot[p].slot_b = (IF NumB(p) + NumC(p) > 0 THEN slot[p].id ELSE None)
    BY <2>1, <2>2, HolderHere, ZenonT(40) DEF Counted
  <2>4. handle[h].is_b => NumB(p) > 0
    BY <2>1, <2>2, Tally, ZenonT(40) DEF Stands, IsB, Owns
  <2> QED BY <2>2, <2>3, <2>4
<1> QED BY <1>1, Invariance, PTL

\* Whoever writes to the values of a slot is alone with what it writes to.
THEOREM WritersAloneHolds == Spec => []WritersAlone
<1>1. ASSUME IInv PROVE WritersAlone
  <2> SUFFICES ASSUME NEW h \in Handles, NEW k \in Handles, h # k, Place(handle[h]) = Place(handle[k])
               PROVE  /\ handle[h].pc \in Alone =>
                           ~Usable(k) /\ handle[k].pc \notin Alone \cup {"clear_b"}
                      /\ handle[h].pc = "clear_b" => ~(Usable(k) /\ handle[k].is_b) /\ handle[k].pc # "clear_b"
    BY Zenon DEF WritersAlone, Alone
  <2>1. PICK p \in Slots : Stands(h, p)
    BY <1>1, Stand, Zenon
  <2>2. Owns(k) /\ Place(handle[h]) = p /\ Place(handle[k]) = p
    BY <1>1, <2>1, Here, ZenonT(40) DEF Stands
  <2>3. ASSUME handle[h].pc \in Alone PROVE ~Usable(k) /\ handle[k].pc \notin Alone \cup {"clear_b"}
    BY <2>1, <2>2, <2>3, WriterAlone, ZenonT(40) DEF Usable, Counted
  <2>4. ASSUME handle[h].pc = "clear_b" PROVE ~(Usable(k) /\ handle[k].is_b) /\ handle[k].pc # "clear_b"
    <3>1. ClearsB(handle[h], p) /\ (handle[k].pc = "clear_b" => ClearsB(handle[k], p))
      BY <2>2, <2>4, Zenon DEF ClearsB
    <3>2. NumC(p) = 1 /\ NumB(p) = 0
      BY <2>1, <2>4, <3>1, HolderHere, Tally, ZenonT(40) DEF Counted
    <3>3. ~IsB(handle[k], p)
      BY <3>2, Tally
    <3>4. ~(Usable(k) /\ handle[k].is_b)
      BY <2>2, <3>3, Zenon DEF IsB, Usable, Owns
    <3>5. handle[k].pc # "clear_b"
      <4> SUFFICES ASSUME ClearsB(handle[k], p) PROVE FALSE
        BY <3>1, Zenon
      <4>1. ClearersB(p) \in SUBSET Handles /\ h \in ClearersB(p) /\ k \in ClearersB(p) \ {h}
        BY <3>1, Zenon DEF ClearersB
      <4>2. Cardinality(ClearersB(p) \ {h}) = 0
        BY <3>2, <4>1, Sizes DEF NumC, Steps
      <4>3. ClearersB(p) \ {h} = {}
        BY <4>1, <4>2, Sizes, ZenonT(40)
      <4> QED BY <4>1, <4>3, Zenon
    <3> QED BY <3>4, <3>5, Zenon
  <2> QED BY <2>3, <2>4, Zenon
<1> QED BY <1>1, Invariance, PTL

\* A slot that no handle is using is free and has dropped both of its values.
THEOREM NothingLeaksHolds == Spec => []NothingLeaks
<1>1. ASSUME IInv PROVE NothingLeaks
  <2> SUFFICES ASSUME NEW s \in Slots,
                      \A h \in Handles : handle[h].pc \in {"free", "search", "ref_a", "alloc"} \/ Place(handle[h]) # s
               PROVE  slot[s].rc_a = 0 /\ slot[s].rc_b = 0 /\ slot[s].slot_a = None /\ slot[s].slot_b = None
    BY Zenon DEF NothingLeaks
  <2>1. Counts(s) /\ Values(s)
    BY <1>1, Zenon DEF IInv
  <2>2. Writers(s) = {} /\ HoldersA(s) = {} /\ HoldersB(s) = {}
    BY Zenon DEF Writers, HoldersA, HoldersB, IsWriter, IsA, IsB, Alone, Counted
  <2>3. NumW(s) = 0 /\ NumA(s) = 0 /\ NumB(s) = 0
    BY <2>2, FS_EmptySet, Zenon DEF NumW, NumA, NumB
  <2> QED BY <2>1, <2>3, Zenon DEF Counts, Values
<1> QED BY <1>1, Invariance, PTL

\* Acquiring by id, while a handle to the descriptor is held, finds the descriptor.
THEOREM HeldIsFoundHolds == Spec => HeldIsFound
<1>1. ASSUME IInv, NEW h \in Handles, handle[h].src # NoHandle
      PROVE  ~NotFound(h) /\ ~DescriptorReserved(h) /\ (At(h, "check") => mine(h).id = handle[h].id)
  <2>1. ASSUME NotFound(h) PROVE FALSE
    <3>1. /\ handle[h].pc = "search" /\ mine(h).id # handle[h].id /\ handle[h].index = N
          /\ handle[h].depth < MAX_DEPTH => TableOf(handle[h].id, handle[h].depth + 1) \notin tables
      BY <2>1, Zenon DEF NotFound, At
    <3>2. PICK k \in Handles : /\ handle[k].id = handle[h].id
                               /\ \/ handle[h].depth < handle[k].depth
                                  \/ handle[h].depth = handle[k].depth /\ handle[h].index < handle[k].index
      BY <1>1, <3>1, SearchAt, ZenonT(40)
    <3>3. /\ handle[h].depth \in 0 .. MAX_DEPTH /\ handle[k].depth \in 0 .. MAX_DEPTH /\ handle[k].index \in 1 .. N
          /\ N \in Nat /\ MAX_DEPTH \in Nat
      BY <1>1, DescriptorsAssumption, ZenonT(40) DEF IInv, TypeOK, Handle
    <3>4. handle[h].depth + 1 \in 0 .. handle[k].depth /\ handle[h].depth < MAX_DEPTH
      BY <3>1, <3>2, <3>3, SMTT(30)
    <3>5. TableOf(handle[k].id, handle[h].depth + 1) \in tables
      BY <1>1, <3>4, ZenonT(40) DEF IInv, Reached
    <3> QED BY <3>1, <3>2, <3>4, <3>5, ZenonT(40)
  <2>2. ASSUME handle[h].pc \in {"ref_a", "check"} PROVE mine(h).rc_a >= 2 /\ mine(h).id = handle[h].id
    <3>1. PICK p \in Slots : Stands(h, p)
      BY <1>1, Stand, Zenon
    <3>2. PICK k \in Handles : IsA(handle[k], p) /\ slot[p].id = handle[h].id
      BY <1>1, <2>2, <3>1, SourceHere, ZenonT(40)
    <3>3. NumW(p) \in Nat /\ NumA(p) \in Nat /\ NumA(p) > 0
      BY <3>2, Tally, ZenonT(40)
    <3> QED BY <3>1, <3>2, <3>3, SMTT(30) DEF Stands, Counts
  <2>3. mine(h).rc_a \in Nat
    BY <1>1, Here, CountTypes, SMTT(30) DEF Descriptor
  <2>4. ~DescriptorReserved(h)
    BY <2>2, <2>3 DEF DescriptorReserved, At
  <2> QED BY <2>1, <2>2, <2>4, ZenonT(40) DEF At
<1>2. IInv => \A h \in Handles :
        handle[h].src # NoHandle => ~NotFound(h) /\ ~DescriptorReserved(h)
                                    /\ (At(h, "check") => mine(h).id = handle[h].id)
  BY <1>1, Zenon
<1> QED BY <1>2, Invariance, PTL DEF HeldIsFound
=============================================================================
