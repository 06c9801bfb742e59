------------------------ MODULE PagingContextProofs -------------------------
(***************************************************************************)
(* Proofs, for any number of CPUs, threads, contexts and pages, that the   *)
(* activation counts are exact, that a writer that skips the invalidation  *)
(* writes no table in use, and that no CPU keeps a stale translation of    *)
(* what was not written by another CPU.                                    *)
(***************************************************************************)
EXTENDS PagingContext, FiniteSetTheorems, TLAPS

(* A thread past the lock of its table holds it; activate() is only called *)
(* on contexts and writes stay within the table's own pages.               *)
Disciplined(t) ==
  /\ op[t].pc \in Inside => lock[op[t].tab] = t
  /\ op[t].pc \in Activating => op[t].tab \in Contexts
  /\ op[t].pc \in Writing => op[t].tab \in Tables /\ op[t].page \in PagesOf(op[t].tab)
  /\ op[t].pc = "flush" => op[t].flush
Discipline == \A t \in Threads : Disciplined(t)

IInv == /\ TypeOK
        /\ Discipline
        /\ cr3 = current
        /\ active_count[Global] = 1
        /\ CountExact
        /\ UnawareWriterAlone

-----------------------------------------------------------------------------
(* Counting *)

In(e, S) == IF e \in S THEN 1 ELSE 0

LEMMA CardinalityMove ==
  ASSUME NEW A, NEW B, NEW e, IsFiniteSet(A), A \ {e} = B \ {e}
  PROVE  /\ IsFiniteSet(B)
         /\ Cardinality(A) \in Nat
         /\ Cardinality(B) = Cardinality(A) - In(e, A) + In(e, B)
<1> DEFINE D == A \ {e}
<1>1. /\ IsFiniteSet(D)
      /\ Cardinality(D) = IF e \in A THEN Cardinality(A) - 1 ELSE Cardinality(A)
  BY FS_RemoveElement, Zenon
<1>2. Cardinality(A) \in Nat /\ Cardinality(D) \in Nat
  BY <1>1, FS_CardinalityType, Zenon
<1>3. e \notin D
  BY Zenon
<1>4. /\ IsFiniteSet(D \cup {e})
      /\ Cardinality(D \cup {e}) = Cardinality(D) + 1
  BY <1>1, <1>3, FS_AddElement, Zenon
<1>5. CASE e \in B
  <2>1. B = D \cup {e}
    BY <1>5, Zenon
  <2> QED
    BY <1>1, <1>2, <1>4, <1>5, <2>1 DEF In
<1>6. CASE e \notin B
  <2>1. B = D
    BY <1>6, Zenon
  <2> QED
    BY <1>1, <1>2, <1>6, <2>1 DEF In
<1> QED
  BY <1>5, <1>6, Zenon

LEMMA SetsFinite ==
  ASSUME NEW x
  PROVE  /\ IsFiniteSet(Users(x)) /\ Cardinality(Users(x)) \in Nat
         /\ IsFiniteSet(Arriving(x)) /\ Cardinality(Arriving(x)) \in Nat
         /\ IsFiniteSet(Leaving(x)) /\ Cardinality(Leaving(x)) \in Nat
<1>1. Users(x) \subseteq CPUs /\ Arriving(x) \subseteq Threads /\ Leaving(x) \subseteq Threads
  BY Zenon DEF Users, Arriving, Leaving
<1>2. IsFiniteSet(Users(x)) /\ IsFiniteSet(Arriving(x)) /\ IsFiniteSet(Leaving(x))
  BY <1>1, FS_Subset, PagingAssumption, Zenon
<1> QED
  BY <1>2, FS_CardinalityType, Zenon

Total(x) == Cardinality(Users(x)) + Cardinality(Arriving(x)) + Cardinality(Leaving(x))

(* A step of one thread changes the three sets only in that thread and in  *)
(* its CPU.                                                                *)
LEMMA TotalMove ==
  ASSUME NEW t \in Threads, NEW x,
         \A u \in Threads \ {t} : op'[u] = op[u],
         \A c \in CPUs \ {On[t]} : current'[c] = current[c]
  PROVE  Total(x)' = Total(x) - In(On[t], Users(x)) + In(On[t], Users(x)')
                              - In(t, Arriving(x)) + In(t, Arriving(x)')
                              - In(t, Leaving(x)) + In(t, Leaving(x)')
<1> DEFINE c == On[t]
<1>1. Users(x) \ {c} = Users(x)' \ {c}
  BY Zenon DEF Users
<1>2. Arriving(x) \ {t} = Arriving(x)' \ {t}
  BY Zenon DEF Arriving
<1>3. Leaving(x) \ {t} = Leaving(x)' \ {t}
  BY Zenon DEF Leaving
<1>4. Cardinality(Users(x)') = Cardinality(Users(x)) - In(c, Users(x)) + In(c, Users(x)')
  BY <1>1, SetsFinite, CardinalityMove, Zenon
<1>5. Cardinality(Arriving(x)') = Cardinality(Arriving(x)) - In(t, Arriving(x)) + In(t, Arriving(x)')
  BY <1>2, SetsFinite, CardinalityMove, Zenon
<1>6. Cardinality(Leaving(x)') = Cardinality(Leaving(x)) - In(t, Leaving(x)) + In(t, Leaving(x)')
  BY <1>3, SetsFinite, CardinalityMove, Zenon
<1>7. /\ Cardinality(Users(x)) \in Nat /\ Cardinality(Arriving(x)) \in Nat
      /\ Cardinality(Leaving(x)) \in Nat
  BY SetsFinite, Zenon
<1>8. \A e, S : In(e, S) \in {0, 1}
  BY Zenon DEF In
<1>9. Total(x)' = Cardinality(Users(x)') + Cardinality(Arriving(x)') + Cardinality(Leaving(x)')
  BY Zenon DEF Total
<1> QED
  BY <1>4, <1>5, <1>6, <1>7, <1>8, <1>9 DEF Total

-----------------------------------------------------------------------------
(* What a step does to the thread that takes it *)

PCs == {"idle"} \cup Activating \cup Writing
Ops == [pc : PCs, tab : Tables \cup {None}, page : AllPages \cup {None},
        flush : BOOLEAN, old : Contexts \cup {None}]

LEMMA OpMove ==
  ASSUME TypeOK, NEW t \in Threads, NEW r \in Ops, op' = [op EXCEPT ![t] = r]
  PROVE  /\ op' \in [Threads -> Ops]
         /\ op'[t] = r
         /\ \A u \in Threads \ {t} : op'[u] = op[u]
BY Zenon DEF TypeOK, Ops, PCs

LEMMA StepMove ==
  ASSUME TypeOK, NEW t \in Threads, NEW from, NEW to \in PCs, Step(t, from, to)
  PROVE  /\ op' \in [Threads -> Ops]
         /\ op[t].pc = from /\ op'[t].pc = to
         /\ op'[t].tab = op[t].tab /\ op'[t].page = op[t].page
         /\ op'[t].flush = op[t].flush /\ op'[t].old = op[t].old
         /\ \A u \in Threads \ {t} : op'[u] = op[u]
<1> DEFINE r == [op[t] EXCEPT !.pc = to]
<1>1. op[t] \in Ops
  BY Zenon DEF TypeOK, Ops, PCs
<1>2. r \in Ops
  BY <1>1, Zenon DEF Ops
<1>3. op' = [op EXCEPT ![t] = r]
  BY Zenon DEF Step
<1>4. /\ r.pc = to /\ r.tab = op[t].tab /\ r.page = op[t].page
      /\ r.flush = op[t].flush /\ r.old = op[t].old
  BY <1>1, Zenon DEF Ops
<1> HIDE DEF r
<1>5. op' \in [Threads -> Ops] /\ op'[t] = r /\ \A u \in Threads \ {t} : op'[u] = op[u]
  BY <1>2, <1>3, OpMove, Zenon
<1> QED
  BY <1>4, <1>5, Zenon DEF Step

(* A thread in none of the counted parts of activate, before and after the *)
(* step, leaves the counts exact.                                          *)
LEMMA CountKept ==
  ASSUME CountExact, NEW t \in Threads,
         \A u \in Threads \ {t} : op'[u] = op[u],
         current' = current, active_count' = active_count,
         \/ /\ op[t].pc \notin {"counted", "locked", "switched"}
            /\ op'[t].pc \notin {"counted", "locked", "switched"}
         \/ /\ op[t].pc \in {"counted", "locked"} /\ op'[t].pc \in {"counted", "locked"}
            /\ op'[t].tab = op[t].tab
  PROVE  CountExact'
<1> SUFFICES ASSUME NEW x \in Contexts
             PROVE  active_count'[x] = Total(x)'
  BY Zenon DEF CountExact, Total
<1>1. In(On[t], Users(x)') = In(On[t], Users(x))
  BY Zenon DEF Users, In
<1>2. In(t, Arriving(x)') = In(t, Arriving(x))
  BY Zenon DEF Arriving, In
<1>3. In(t, Leaving(x)') = In(t, Leaving(x))
  BY Zenon DEF Leaving, In
<1>4. Total(x)' = Total(x) - In(On[t], Users(x)) + In(On[t], Users(x)')
                           - In(t, Arriving(x)) + In(t, Arriving(x)')
                           - In(t, Leaving(x)) + In(t, Leaving(x)')
  BY TotalMove, Zenon
<1>5. Total(x) \in Nat
  BY SetsFinite DEF Total
<1>6. \A e, S : In(e, S) \in {0, 1}
  BY Zenon DEF In
<1>7. Total(x)' = Total(x)
  BY <1>1, <1>2, <1>3, <1>4, <1>5, <1>6
<1> QED
  BY <1>7, Zenon DEF CountExact, Total

-----------------------------------------------------------------------------
(* The inductive invariant holds at first *)

LEMMA InitIInv == Init => IInv
<1> SUFFICES ASSUME Init
             PROVE  IInv
  BY Zenon
<1> USE PagingAssumption
<1>1. TypeOK
  BY Zenon DEF Init, TypeOK, Tables, Idle
<1>2. Discipline
  BY Zenon DEF Init, Discipline, Disciplined, Idle, Inside, Activating, Writing
<1>3. cr3 = current /\ active_count[Global] = 1
  BY Zenon DEF Init, Tables
<1>4. ASSUME NEW x \in Contexts
      PROVE  active_count[x] = Cardinality(Users(x)) + Cardinality(Arriving(x)) + Cardinality(Leaving(x))
  <2>1. Users(x) = {} /\ Arriving(x) = {} /\ Leaving(x) = {}
    BY Zenon DEF Init, Idle, Users, Arriving, Leaving
  <2>2. active_count[x] = 0
    BY Zenon DEF Init, Tables
  <2> QED
    BY <2>1, <2>2, FS_EmptySet
<1>5. UnawareWriterAlone
  BY Zenon DEF Init, UnawareWriterAlone, Idle
<1> QED
  BY <1>1, <1>2, <1>3, <1>4, <1>5, Zenon DEF IInv, CountExact

-----------------------------------------------------------------------------
(* It is preserved by each action *)

LEMMA BeginKeeps ==
  ASSUME IInv, NEW t \in Threads, NEW x \in Contexts, _begin_active(t, x)
  PROVE  IInv'
<1> USE PagingAssumption
<1> DEFINE r == [Idle EXCEPT !.pc = "counted", !.tab = x]
<1>1. r \in Ops /\ r.pc = "counted" /\ r.tab = x
  BY Zenon DEF Idle, Ops, PCs, Activating, Tables
<1>2. /\ op' \in [Threads -> Ops] /\ op'[t].pc = "counted" /\ op'[t].tab = x
      /\ \A u \in Threads \ {t} : op'[u] = op[u]
  <2> HIDE DEF r
  <2>1. op' = [op EXCEPT ![t] = r]
    BY Zenon DEF _begin_active, r
  <2> QED
    BY <1>1, <2>1, OpMove, Zenon DEF IInv
<1>3. /\ active_count' = [active_count EXCEPT ![x] = @ + 1]
      /\ op[t].pc = "idle"
      /\ UNCHANGED <<lock, table, cr3, current, tlb, missed>>
  BY Zenon DEF _begin_active
<1>4. TypeOK'
  BY <1>2, <1>3 DEF IInv, TypeOK, Ops, PCs
<1>5. Discipline'
  BY <1>2, <1>3 DEF IInv, Discipline, Disciplined, Inside, Activating, Writing
<1>6. cr3' = current' /\ active_count'[Global] = 1
  BY <1>3, Zenon DEF IInv, TypeOK, Tables
<1>7. CountExact'
  <2> SUFFICES ASSUME NEW y \in Contexts
               PROVE  active_count'[y] = Total(y)'
    BY Zenon DEF CountExact, Total
  <2>1. Total(y)' = Total(y) - In(On[t], Users(y)) + In(On[t], Users(y)')
                             - In(t, Arriving(y)) + In(t, Arriving(y)')
                             - In(t, Leaving(y)) + In(t, Leaving(y)')
    BY <1>2, <1>3, TotalMove, Zenon
  <2>2. In(On[t], Users(y)') = In(On[t], Users(y)) /\ In(On[t], Users(y)) \in {0, 1}
    BY <1>3, Zenon DEF Users, In
  <2>3. In(t, Leaving(y)') = 0 /\ In(t, Leaving(y)) = 0 /\ In(t, Arriving(y)) = 0
    BY <1>2, <1>3, Zenon DEF Leaving, Arriving, In
  <2>4. In(t, Arriving(y)') = IF y = x THEN 1 ELSE 0
    BY <1>2, Zenon DEF Arriving, In
  <2>5. active_count[y] = Total(y) /\ Total(y) \in Nat
    BY SetsFinite DEF IInv, CountExact, Total
  <2>6. active_count'[y] = active_count[y] + (IF y = x THEN 1 ELSE 0)
    BY <1>3, <2>5 DEF IInv, TypeOK, Tables
  <2> QED
    BY <2>1, <2>2, <2>3, <2>4, <2>5, <2>6
<1>8. UnawareWriterAlone'
  BY <1>2, <1>3 DEF IInv, UnawareWriterAlone
<1> QED
  BY <1>4, <1>5, <1>6, <1>7, <1>8, Zenon DEF IInv

LEMMA LockKeeps ==
  ASSUME IInv, NEW t \in Threads, LockActivated(t)
  PROVE  IInv'
<1> USE PagingAssumption
<1>1. Step(t, "counted", "locked") /\ "locked" \in PCs
  BY Zenon DEF LockActivated, PCs, Activating
<1>2. /\ op' \in [Threads -> Ops] /\ op[t].pc = "counted" /\ op'[t].pc = "locked"
      /\ op'[t].tab = op[t].tab
      /\ \A u \in Threads \ {t} : op'[u] = op[u]
  BY <1>1, StepMove DEF IInv
<1>3. /\ op[t].tab \in Contexts
      /\ lock[op[t].tab] = None
      /\ lock' = [lock EXCEPT ![op[t].tab] = t]
      /\ UNCHANGED <<active_count, table, cr3, current, tlb, missed>>
  BY <1>2, Zenon DEF LockActivated, IInv, Discipline, Disciplined, Activating
<1>4. TypeOK'
  BY <1>2, <1>3, Zenon DEF IInv, TypeOK, Ops, PCs, Tables
<1>5. Discipline'
  <2>1. /\ lock'[op[t].tab] = t
        /\ \A y \in Tables \ {op[t].tab} : lock'[y] = lock[y]
    BY <1>3, Zenon DEF IInv, TypeOK, Tables
  <2>2. ASSUME NEW u \in Threads, u # t, op[u].pc \in Inside
        PROVE  lock'[op[u].tab] = u
    <3>1. lock[op[u].tab] = u /\ op[u].tab \in Tables
      BY <2>2, Zenon DEF IInv, Discipline, Disciplined, Inside, Activating, Writing, Tables
    <3> QED
      BY <1>3, <2>1, <3>1, Zenon
  <2> QED
    BY <1>2, <1>3, <2>1, <2>2 DEF IInv, Discipline, Disciplined, Inside, Activating, Writing
<1>6. CountExact'
  BY <1>2, <1>3, CountKept, Zenon DEF IInv
<1>7. UnawareWriterAlone'
  BY <1>2, <1>3 DEF IInv, UnawareWriterAlone
<1> QED
  BY <1>3, <1>4, <1>5, <1>6, <1>7, Zenon DEF IInv

LEMMA SwitchKeeps ==
  ASSUME IInv, NEW t \in Threads, SwitchTable(t)
  PROVE  IInv'
<1> USE PagingAssumption
<1> DEFINE r == [op[t] EXCEPT !.pc = "switched", !.old = current[On[t]]]
           c == On[t]
           x == op[t].tab
<1>0. c \in CPUs /\ op[t] \in Ops /\ current[c] \in Contexts \cup {None}
  BY Zenon DEF IInv, TypeOK, Ops, PCs
<1>1. /\ r \in Ops /\ r.pc = "switched" /\ r.tab = x /\ r.old = current[c]
  BY <1>0, Zenon DEF Ops, PCs, Activating
<1>2. /\ op' \in [Threads -> Ops] /\ op'[t].pc = "switched" /\ op'[t].tab = x
      /\ op'[t].old = current[c]
      /\ \A u \in Threads \ {t} : op'[u] = op[u]
  <2>1. op' = [op EXCEPT ![t] = r]
    BY Zenon DEF SwitchTable
  <2> HIDE DEF r
  <2> QED
    BY <1>1, <2>1, OpMove, Zenon DEF IInv
<1>3. /\ op[t].pc = "locked" /\ x \in Contexts /\ lock[x] = t
      /\ cr3' = [cr3 EXCEPT ![c] = x] /\ current' = [current EXCEPT ![c] = x]
      /\ UNCHANGED <<active_count, lock, table>>
  BY Zenon DEF SwitchTable, IInv, Discipline, Disciplined, Inside, Activating
<1>4. TypeOK'
  <2>1. tlb' \in [CPUs -> [AllPages -> Frames \cup {Absent}]]
    BY <1>0, Zenon DEF SwitchTable, IInv, TypeOK
  <2>2. missed' \subseteq CPUs \X AllPages
    BY Zenon DEF SwitchTable, IInv, TypeOK
  <2> QED
    BY <1>2, <1>3, <2>1, <2>2, Zenon DEF IInv, TypeOK, Ops, PCs
<1>5. Discipline'
  BY <1>2, <1>3 DEF IInv, Discipline, Disciplined, Inside, Activating, Writing
<1>6. cr3' = current' /\ active_count'[Global] = 1
  BY <1>3, Zenon DEF IInv
<1>7. CountExact'
  <2> SUFFICES ASSUME NEW y \in Contexts
               PROVE  active_count'[y] = Total(y)'
    BY Zenon DEF CountExact, Total
  <2>0. current'[c] = x /\ \A d \in CPUs \ {c} : current'[d] = current[d]
    BY <1>0, <1>3, Zenon DEF IInv, TypeOK
  <2>1. Total(y)' = Total(y) - In(c, Users(y)) + In(c, Users(y)')
                             - In(t, Arriving(y)) + In(t, Arriving(y)')
                             - In(t, Leaving(y)) + In(t, Leaving(y)')
    BY <1>2, <2>0, TotalMove, Zenon
  <2>2. In(c, Users(y)) = (IF current[c] = y THEN 1 ELSE 0) /\ In(c, Users(y)') = (IF x = y THEN 1 ELSE 0)
    BY <1>0, <2>0, Zenon DEF Users, In
  <2>3. In(t, Arriving(y)) = (IF x = y THEN 1 ELSE 0) /\ In(t, Arriving(y)') = 0
    BY <1>2, <1>3, Zenon DEF Arriving, In
  <2>4. In(t, Leaving(y)) = 0 /\ In(t, Leaving(y)') = (IF current[c] = y THEN 1 ELSE 0)
    BY <1>2, <1>3, Zenon DEF Leaving, In
  <2>5. active_count'[y] = Total(y) /\ Total(y) \in Nat
    BY <1>3, SetsFinite DEF IInv, CountExact, Total
  <2> HIDE DEF c, x
  <2> QED
    BY <2>1, <2>2, <2>3, <2>4, <2>5
<1>8. UnawareWriterAlone'
  <2> SUFFICES ASSUME NEW u \in Threads, op'[u].pc \in {"write", "written"}, ~op'[u].flush
               PROVE  op'[u].tab # Global /\ \A d \in CPUs : cr3'[d] # op'[u].tab
    BY Zenon DEF UnawareWriterAlone
  <2>1. u # t /\ op'[u] = op[u]
    BY <1>2, Zenon
  <2>2. op[u].tab # Global /\ \A d \in CPUs : cr3[d] # op[u].tab
    BY <2>1, Zenon DEF IInv, UnawareWriterAlone
  <2>3. lock[op[u].tab] = u
    BY <2>1, Zenon DEF IInv, Discipline, Disciplined, Inside, Writing
  <2>4. op[u].tab # x
    BY <1>3, <2>1, <2>3, Zenon
  <2> QED
    BY <1>3, <2>1, <2>2, <2>4, Zenon DEF IInv, TypeOK
<1> QED
  BY <1>4, <1>5, <1>6, <1>7, <1>8, Zenon DEF IInv

LEMMA EndKeeps ==
  ASSUME IInv, NEW t \in Threads, _end_active(t)
  PROVE  IInv'
<1> USE PagingAssumption
<1> DEFINE o == op[t].old
<1>1. Step(t, "switched", "ended") /\ "ended" \in PCs
  BY Zenon DEF _end_active, PCs, Activating
<1>2. /\ op' \in [Threads -> Ops] /\ op[t].pc = "switched" /\ op'[t].pc = "ended"
      /\ op'[t].tab = op[t].tab
      /\ \A u \in Threads \ {t} : op'[u] = op[u]
  BY <1>1, StepMove DEF IInv
<1>3. /\ active_count' = IF o = None THEN active_count ELSE [active_count EXCEPT ![o] = @ - 1]
      /\ UNCHANGED <<lock, table, cr3, current, tlb, missed>>
      /\ o \in Contexts \cup {None}
  BY Zenon DEF _end_active, IInv, TypeOK
<1>4. CountExact' /\ \A y \in Contexts : active_count'[y] \in Nat
  <2> SUFFICES ASSUME NEW y \in Contexts
               PROVE  active_count'[y] = Total(y)' /\ active_count'[y] \in Nat
    BY Zenon DEF CountExact, Total
  <2>1. Total(y)' = Total(y) - In(On[t], Users(y)) + In(On[t], Users(y)')
                             - In(t, Arriving(y)) + In(t, Arriving(y)')
                             - In(t, Leaving(y)) + In(t, Leaving(y)')
    BY <1>2, <1>3, TotalMove, Zenon
  <2>2. In(On[t], Users(y)') = In(On[t], Users(y)) /\ In(On[t], Users(y)) \in {0, 1}
    BY <1>3, Zenon DEF Users, In
  <2>3. In(t, Arriving(y)') = 0 /\ In(t, Arriving(y)) = 0 /\ In(t, Leaving(y)') = 0
    BY <1>2, Zenon DEF Leaving, Arriving, In
  <2>4. In(t, Leaving(y)) = IF o = y THEN 1 ELSE 0
    BY <1>2, Zenon DEF Leaving, In
  <2>5. active_count[y] = Total(y) /\ Total(y) \in Nat
    BY SetsFinite DEF IInv, CountExact, Total
  <2>6. active_count'[y] = active_count[y] - (IF o = y THEN 1 ELSE 0)
    BY <1>3, <2>5 DEF IInv, TypeOK, Tables
  <2>7. Total(y)' \in Nat
    <3>1. Users(y)' \subseteq CPUs /\ Arriving(y)' \subseteq Threads /\ Leaving(y)' \subseteq Threads
      BY Zenon DEF Users, Arriving, Leaving
    <3>2. IsFiniteSet(Users(y)') /\ IsFiniteSet(Arriving(y)') /\ IsFiniteSet(Leaving(y)')
      BY <3>1, FS_Subset, Zenon
    <3>3. /\ Cardinality(Users(y)') \in Nat /\ Cardinality(Arriving(y)') \in Nat
          /\ Cardinality(Leaving(y)') \in Nat
      BY <3>2, FS_CardinalityType, Zenon
    <3> QED
      BY <3>3 DEF Total
  <2> HIDE DEF o
  <2> QED
    BY <2>1, <2>2, <2>3, <2>4, <2>5, <2>6, <2>7
<1>5. active_count'[Global] = 1
  BY <1>3, Zenon DEF IInv, TypeOK, Tables
<1>6. TypeOK'
  <2>1. active_count' = [y \in Tables |-> active_count'[y]]
    BY <1>3, Zenon DEF IInv, TypeOK
  <2>2. active_count' \in [Tables -> Nat]
    BY <1>4, <1>5, <2>1 DEF Tables
  <2> QED
    BY <1>2, <1>3, <2>2, Zenon DEF IInv, TypeOK, Ops, PCs
<1>7. Discipline'
  <2>1. ASSUME NEW u \in Threads, u # t
        PROVE  Disciplined(u)'
    <3>1. Disciplined(u) /\ op'[u] = op[u]
      BY <1>2, <2>1, Zenon DEF IInv, Discipline
    <3> QED
      BY ONLY <1>3, <3>1, Zenon DEF Disciplined
  <2>2. Disciplined(t)'
    <3>1. Disciplined(t)
      BY Zenon DEF IInv, Discipline
    <3> QED
      BY ONLY <1>2, <1>3, <3>1, Zenon DEF Disciplined, Inside, Activating, Writing
  <2> QED
    BY ONLY <2>1, <2>2, Zenon DEF Discipline
<1>8. UnawareWriterAlone'
  <2> SUFFICES ASSUME NEW u \in Threads, op'[u].pc \in {"write", "written"}, ~op'[u].flush
               PROVE  op'[u].tab # Global /\ \A c \in CPUs : cr3'[c] # op'[u].tab
    BY DEF UnawareWriterAlone
  <2>1. u # t /\ op'[u] = op[u]
    BY <1>2, Zenon
  <2> QED
    BY <1>3, <2>1, Zenon DEF IInv, UnawareWriterAlone
<1> QED
  BY <1>3, <1>4, <1>5, <1>6, <1>7, <1>8, Zenon DEF IInv

LEMMA ReleaseKeeps ==
  ASSUME IInv, NEW t \in Threads, Release(t)
  PROVE  IInv'
<1> USE PagingAssumption
<1>1. Idle \in Ops /\ Idle.pc = "idle"
  BY Zenon DEF Idle, Ops, PCs
<1>2. /\ op' \in [Threads -> Ops] /\ op'[t].pc = "idle"
      /\ \A u \in Threads \ {t} : op'[u] = op[u]
  BY <1>1, OpMove, Zenon DEF Release, IInv
<1>3. /\ op[t].pc \in {"ended", "written"} /\ lock[op[t].tab] = t
      /\ op[t].tab \in Tables
      /\ lock' = [lock EXCEPT ![op[t].tab] = None]
      /\ UNCHANGED <<active_count, table, cr3, current, tlb, missed>>
  BY Zenon DEF Release, IInv, Discipline, Disciplined, Inside, Activating, Writing, Tables
<1>4. TypeOK'
  BY <1>2, <1>3, Zenon DEF IInv, TypeOK, Ops, PCs
<1>5. Discipline'
  <2> SUFFICES ASSUME NEW u \in Threads, u # t
               PROVE  op[u].pc \in Inside => lock'[op[u].tab] = u
    BY <1>2 DEF IInv, Discipline, Disciplined, Inside, Activating, Writing
  <2>1. CASE op[u].pc \in Inside
    <3>1. lock[op[u].tab] = u /\ op[u].tab \in Tables
      BY <2>1, Zenon DEF IInv, Discipline, Disciplined, Inside, Activating, Writing, Tables
    <3> QED
      BY <1>3, <3>1, Zenon DEF IInv, TypeOK
  <2> QED
    BY <2>1, Zenon
<1>6. CountExact'
  BY <1>2, <1>3, CountKept, Zenon DEF IInv
<1>7. UnawareWriterAlone'
  BY <1>2, <1>3 DEF IInv, UnawareWriterAlone
<1> QED
  BY <1>3, <1>4, <1>5, <1>6, <1>7, Zenon DEF IInv

LEMMA WriterLockKeeps ==
  ASSUME IInv, NEW t \in Threads, NEW x \in Tables, NEW p \in PagesOf(x),
         write_when_active(t, x, p)
  PROVE  IInv'
<1> USE PagingAssumption
<1> DEFINE r == [Idle EXCEPT !.pc = "load", !.tab = x, !.page = p]
<1>0. p \in AllPages
  BY Zenon DEF PagesOf, AllPages
<1>1. r \in Ops /\ r.pc = "load" /\ r.tab = x /\ r.page = p
  BY <1>0, Zenon DEF Idle, Ops, PCs, Writing
<1>2. /\ op' \in [Threads -> Ops] /\ op'[t].pc = "load" /\ op'[t].tab = x /\ op'[t].page = p
      /\ \A u \in Threads \ {t} : op'[u] = op[u]
  <2>1. op' = [op EXCEPT ![t] = r]
    BY Zenon DEF write_when_active
  <2> HIDE DEF r
  <2> QED
    BY <1>1, <2>1, OpMove, Zenon DEF IInv
<1>3. /\ op[t].pc = "idle" /\ lock[x] = None
      /\ lock' = [lock EXCEPT ![x] = t]
      /\ UNCHANGED <<active_count, table, cr3, current, tlb, missed>>
  BY Zenon DEF write_when_active
<1>4. TypeOK'
  BY <1>2, <1>3, Zenon DEF IInv, TypeOK, Ops, PCs
<1>5. Discipline'
  <2>1. lock'[x] = t /\ \A y \in Tables \ {x} : lock'[y] = lock[y]
    BY SMTT(20), <1>3 DEF IInv, TypeOK
  <2>2. ASSUME NEW u \in Threads, u # t, op[u].pc \in Inside
        PROVE  lock'[op[u].tab] = u
    <3>1. lock[op[u].tab] = u /\ op[u].tab \in Tables
      <4>1. Disciplined(u)
        BY Zenon DEF IInv, Discipline
      <4> QED
        BY ONLY <2>2, <4>1, Zenon DEF Disciplined, Inside, Activating, Writing, Tables
    <3> QED
      BY <1>3, <2>1, <3>1, Zenon
  <2> QED
    BY <1>2, <2>1, <2>2 DEF IInv, Discipline, Disciplined, Inside, Activating, Writing
<1>6. CountExact'
  BY <1>2, <1>3, CountKept, Zenon DEF IInv
<1>7. UnawareWriterAlone'
  <2> SUFFICES ASSUME NEW u \in Threads, op'[u].pc \in {"write", "written"}, ~op'[u].flush
               PROVE  op'[u].tab # Global /\ \A c \in CPUs : cr3'[c] # op'[u].tab
    BY Zenon DEF UnawareWriterAlone
  <2>1. u # t /\ op'[u] = op[u]
    BY <1>2, Zenon
  <2> QED
    BY <1>3, <2>1, Zenon DEF IInv, UnawareWriterAlone
<1> QED
  BY <1>3, <1>4, <1>5, <1>6, <1>7, Zenon DEF IInv

(* The step that matters: a count of zero means that nobody walks the      *)
(* table.                                                                  *)
LEMMA LoadKeeps ==
  ASSUME IInv, NEW t \in Threads, LoadCount(t)
  PROVE  IInv'
<1> USE PagingAssumption
<1> DEFINE x == op[t].tab
           b == active_count[x] > 0
           r == [op[t] EXCEPT !.pc = "write", !.flush = b]
<1>0. op[t] \in Ops /\ op[t].pc = "load" /\ x \in Tables /\ active_count[x] \in Nat
  BY Zenon DEF LoadCount, IInv, TypeOK, Ops, PCs, Discipline, Disciplined, Writing
<1>b. b \in BOOLEAN
  OBVIOUS
<1>1. r \in Ops /\ r.pc = "write" /\ r.tab = x /\ r.page = op[t].page /\ r.flush = b
  <2> HIDE DEF b
  <2> QED
    BY <1>0, <1>b, Zenon DEF Ops, PCs, Writing
<1>2. /\ op' \in [Threads -> Ops] /\ op'[t].pc = "write" /\ op'[t].tab = x
      /\ op'[t].page = op[t].page /\ op'[t].flush = b
      /\ \A u \in Threads \ {t} : op'[u] = op[u]
  <2>1. op' = [op EXCEPT ![t] = r]
    BY Zenon DEF LoadCount
  <2> HIDE DEF r
  <2> QED
    BY <1>1, <2>1, OpMove, Zenon DEF IInv
<1>3. UNCHANGED <<active_count, lock, table, cr3, current, tlb, missed>>
  BY Zenon DEF LoadCount
<1>4. TypeOK'
  BY <1>2, <1>3, Zenon DEF IInv, TypeOK, Ops, PCs
<1>5. Discipline'
  <2>1. ASSUME NEW u \in Threads, u # t
        PROVE  Disciplined(u)'
    <3>1. Disciplined(u) /\ op'[u] = op[u]
      BY <1>2, <2>1, Zenon DEF IInv, Discipline
    <3> QED
      BY ONLY <1>3, <3>1, Zenon DEF Disciplined
  <2>2. Disciplined(t)'
    <3>1. Disciplined(t)
      BY DEF IInv, Discipline
    <3>2. lock[op[t].tab] = t /\ op[t].tab \in Tables /\ op[t].page \in PagesOf(op[t].tab)
      BY ONLY <1>0, <1>2, <3>1, Zenon DEF Disciplined, Inside, Writing
    <3> QED
      BY <1>0, <1>2, <1>3, <3>2, Zenon DEF Disciplined, Inside, Activating, Writing
  <2> QED
    BY ONLY <2>1, <2>2 DEF Discipline
<1>6. CountExact'
  BY <1>0, <1>2, <1>3, CountKept, Zenon DEF IInv
<1>7. UnawareWriterAlone'
  <2>1. ASSUME ~b
        PROVE  x # Global /\ \A c \in CPUs : cr3[c] # x
    <3>1. active_count[x] = 0
      BY <1>0, <2>1
    <3>2. x # Global /\ x \in Contexts
      BY <1>0, <3>1 DEF IInv, Tables
    <3>3. Cardinality(Users(x)) + Cardinality(Arriving(x)) + Cardinality(Leaving(x)) = 0
      BY <3>1, <3>2, Zenon DEF IInv, CountExact
    <3>4. Cardinality(Users(x)) = 0
      <4> HIDE DEF x
      <4> QED
        BY <3>3, SetsFinite
    <3>5. Users(x) = {}
      BY <3>4, SetsFinite, FS_EmptySet, Zenon
    <3> QED
      BY <3>2, <3>5, Zenon DEF IInv, Users
  <2> HIDE DEF b
  <2> QED
    BY <1>2, <1>3, <2>1 DEF IInv, UnawareWriterAlone
<1> QED
  BY <1>3, <1>4, <1>5, <1>6, <1>7, Zenon DEF IInv

LEMMA WriteKeeps ==
  ASSUME IInv, NEW t \in Threads, NEW f \in Frames \cup {Absent}, Write(t, f)
  PROVE  IInv'
<1> USE PagingAssumption
<1> DEFINE to == IF op[t].flush THEN "flush" ELSE "written"
<1>1. Step(t, "write", to) /\ to \in PCs
  BY Zenon DEF Write, PCs, Writing
<1>2. /\ op' \in [Threads -> Ops] /\ op[t].pc = "write" /\ op'[t].pc = to
      /\ op'[t].tab = op[t].tab /\ op'[t].page = op[t].page /\ op'[t].flush = op[t].flush
      /\ \A u \in Threads \ {t} : op'[u] = op[u]
  <2> HIDE DEF to
  <2> QED
    BY <1>1, StepMove DEF IInv
<1>3. UNCHANGED <<active_count, lock, cr3, current, tlb>>
  BY Zenon DEF Write
<1>4. TypeOK'
  <2>1. op[t].tab \in Tables /\ op[t].page \in AllPages
    BY <1>2, Zenon DEF IInv, Discipline, Disciplined, Writing, PagesOf, AllPages
  <2>2. table' \in [Tables -> [AllPages -> Frames \cup {Absent}]]
    BY <2>1, Zenon DEF Write, IInv, TypeOK
  <2>3. missed' \subseteq CPUs \X AllPages
    BY <2>1 DEF Write, IInv, TypeOK
  <2> QED
    BY <1>2, <1>3, <2>2, <2>3, Zenon DEF IInv, TypeOK, Ops, PCs
<1>5. Discipline'
  <2>1. ASSUME NEW u \in Threads, u # t
        PROVE  Disciplined(u)'
    <3>1. Disciplined(u) /\ op'[u] = op[u]
      BY <1>2, <2>1, Zenon DEF IInv, Discipline
    <3> QED
      BY ONLY <1>3, <3>1, Zenon DEF Disciplined
  <2>2. Disciplined(t)'
    <3>1. Disciplined(t)
      BY Zenon DEF IInv, Discipline
    <3>2. lock[op[t].tab] = t /\ op[t].tab \in Tables /\ op[t].page \in PagesOf(op[t].tab)
      BY ONLY <1>2, <3>1, Zenon DEF Disciplined, Inside, Writing
    <3> QED
      BY <1>2, <1>3, <3>2, Zenon DEF Disciplined, Inside, Activating, Writing
  <2> QED
    BY ONLY <2>1, <2>2, Zenon DEF Discipline
<1>6. CountExact'
  BY <1>2, <1>3, CountKept, Zenon DEF IInv
<1>7. UnawareWriterAlone'
  BY <1>2, <1>3 DEF IInv, UnawareWriterAlone
<1> QED
  BY <1>3, <1>4, <1>5, <1>6, <1>7, Zenon DEF IInv

LEMMA InvalidateKeeps ==
  ASSUME IInv, NEW t \in Threads, invalidate_tlb(t)
  PROVE  IInv'
<1> USE PagingAssumption
<1>1. Step(t, "flush", "written") /\ "written" \in PCs
  BY Zenon DEF invalidate_tlb, PCs, Writing
<1>2. /\ op' \in [Threads -> Ops] /\ op[t].pc = "flush" /\ op'[t].pc = "written"
      /\ op'[t].tab = op[t].tab /\ op'[t].page = op[t].page /\ op'[t].flush = op[t].flush
      /\ \A u \in Threads \ {t} : op'[u] = op[u]
  BY <1>1, StepMove DEF IInv
<1>3. UNCHANGED <<active_count, lock, table, cr3, current>>
  BY Zenon DEF invalidate_tlb
<1>4. TypeOK'
  <2>1. tlb' \in [CPUs -> [AllPages -> Frames \cup {Absent}]]
    BY Zenon DEF invalidate_tlb, IInv, TypeOK
  <2>2. missed' \subseteq CPUs \X AllPages
    BY Zenon DEF invalidate_tlb, IInv, TypeOK
  <2> QED
    BY <1>2, <1>3, <2>1, <2>2, Zenon DEF IInv, TypeOK, Ops, PCs
<1>5. Discipline'
  <2>1. ASSUME NEW u \in Threads, u # t
        PROVE  Disciplined(u)'
    <3>1. Disciplined(u) /\ op'[u] = op[u]
      BY <1>2, <2>1, Zenon DEF IInv, Discipline
    <3> QED
      BY ONLY <1>3, <3>1, Zenon DEF Disciplined
  <2>2. Disciplined(t)'
    <3>1. Disciplined(t)
      BY DEF IInv, Discipline
    <3>2. lock[op[t].tab] = t /\ op[t].tab \in Tables /\ op[t].page \in PagesOf(op[t].tab)
      BY ONLY <1>2, <3>1, Zenon DEF Disciplined, Inside, Writing
    <3> QED
      BY <1>2, <1>3, <3>2, Zenon DEF Disciplined, Inside, Activating, Writing
  <2> QED
    BY ONLY <2>1, <2>2 DEF Discipline
<1>6. CountExact'
  BY <1>2, <1>3, CountKept, Zenon DEF IInv
<1>7. op'[t].flush
  BY <1>2, Zenon DEF IInv, Discipline, Disciplined
<1>8. UnawareWriterAlone'
  <2> SUFFICES ASSUME NEW u \in Threads, op'[u].pc \in {"write", "written"}, ~op'[u].flush
               PROVE  op'[u].tab # Global /\ \A d \in CPUs : cr3'[d] # op'[u].tab
    BY DEF UnawareWriterAlone
  <2>1. u # t
    BY <1>7, Zenon
  <2>2. op'[u] = op[u]
    BY <1>2, <2>1, Zenon
  <2> QED
    BY <1>3, <2>2, Zenon DEF IInv, UnawareWriterAlone
<1> QED
  BY <1>3, <1>4, <1>5, <1>6, <1>8, Zenon DEF IInv

LEMMA NextIInv == IInv /\ [Next]_vars => IInv'
<1> SUFFICES ASSUME IInv, [Next]_vars
             PROVE  IInv'
  BY Zenon
<1>1. CASE \E t \in Threads : Activate(t)
  <2> PICK t \in Threads : Activate(t)
    BY <1>1, Zenon
  <2> QED
    BY BeginKeeps, LockKeeps, SwitchKeeps, EndKeeps, Zenon DEF Activate
<1>2. CASE \E t \in Threads : WriteTable(t)
  <2> PICK t \in Threads : WriteTable(t)
    BY <1>2
  <2> QED
    BY WriterLockKeeps, LoadKeeps, WriteKeeps, InvalidateKeeps, Zenon DEF WriteTable
<1>3. CASE \E t \in Threads : Release(t)
  BY SMTT(20), <1>3, ReleaseKeeps
<1>4. CASE \E c \in CPUs, p \in AllPages : Fill(c, p)
  <2> PICK c \in CPUs, p \in AllPages : Fill(c, p)
    BY <1>4, Zenon
  <2>1. UNCHANGED <<active_count, lock, table, cr3, current, op, missed>>
    BY Zenon DEF Fill
  <2>2. Walk(c, p) \in Frames \cup {Absent}
    BY PagingAssumption DEF Walk, Walked, IInv, TypeOK, Tables
  <2>3. TypeOK'
    BY <2>1, <2>2, Zenon DEF Fill, IInv, TypeOK
  <2> QED
    BY <2>1, <2>3, Zenon DEF IInv, Discipline, Disciplined, CountExact, Users, Arriving, Leaving, UnawareWriterAlone
<1>5. CASE UNCHANGED vars
  <2>1. /\ active_count' = active_count /\ lock' = lock /\ table' = table /\ cr3' = cr3
        /\ current' = current /\ tlb' = tlb /\ op' = op /\ missed' = missed
    BY <1>5, Zenon DEF vars
  <2>2. TypeOK'
    BY <2>1, Zenon DEF IInv, TypeOK
  <2> QED
    BY <2>1, <2>2, Zenon DEF IInv, Discipline, Disciplined, CountExact, Users, Arriving, Leaving, UnawareWriterAlone
<1> QED
  BY <1>1, <1>2, <1>3, <1>4, <1>5, Zenon DEF Next

(* The inductive invariant holds throughout.                               *)
THEOREM InductiveInvariant == Spec => []IInv
BY InitIInv, NextIInv, PTL DEF Spec

(* Type correctness: active_count never goes below zero, and every thread  *)
(* is at a program point of activate or of a write.                        *)
THEOREM TypeCorrect == Spec => []TypeOK
<1>1. IInv => TypeOK
  BY Zenon DEF IInv
<1> QED
  BY <1>1, InductiveInvariant, PTL

(* active_count[x] counts exactly the CPUs on which x is the active table  *)
(* and the activations under way.                                          *)
THEOREM CountExactHolds == Spec => []CountExact
<1>1. IInv => CountExact
  BY Zenon DEF IInv
<1> QED
  BY <1>1, InductiveInvariant, PTL

(* The promise of write_when_active: a writer that does not invalidate     *)
(* writes a table that no CPU walks.                                       *)
THEOREM UnawareWriterAloneHolds == Spec => []UnawareWriterAlone
<1>1. IInv => UnawareWriterAlone
  BY Zenon DEF IInv
<1> QED
  BY <1>1, InductiveInvariant, PTL

-----------------------------------------------------------------------------
(* Translations *)

Flushing(c, p) == \E t \in Threads : On[t] = c /\ op[t].pc = "flush" /\ op[t].page = p

(* A step that touches neither table nor TLB, by a thread that is not      *)
(* about to invalidate.                                                    *)
LEMMA FreshKept ==
  ASSUME NoStaleTranslation, NEW t \in Threads, op[t].pc # "flush",
         \A u \in Threads \ {t} : op'[u] = op[u],
         UNCHANGED <<table, cr3, tlb, missed>>
  PROVE  NoStaleTranslation'
<1> SUFFICES ASSUME NEW c \in CPUs, NEW p \in AllPages
             PROVE  \/ tlb'[c][p] \in {Absent, Walk(c, p)'}
                    \/ <<c, p>> \in missed'
                    \/ Flushing(c, p)'
  BY Zenon DEF NoStaleTranslation, Flushing
<1>1. Walk(c, p)' = Walk(c, p)
  BY Zenon DEF Walk, Walked
<1>2. Flushing(c, p) => Flushing(c, p)'
  BY Zenon DEF Flushing
<1>3. tlb[c][p] \in {Absent, Walk(c, p)} \/ <<c, p>> \in missed \/ Flushing(c, p)
  BY DEF NoStaleTranslation, Flushing
<1> QED
  BY <1>1, <1>2, <1>3, Zenon

LEMMA SwitchFresh ==
  ASSUME IInv, NoStaleTranslation, NEW t \in Threads, SwitchTable(t)
  PROVE  NoStaleTranslation'
<1> USE PagingAssumption
<1> SUFFICES ASSUME NEW c \in CPUs, NEW p \in AllPages
             PROVE  \/ tlb'[c][p] \in {Absent, Walk(c, p)'}
                    \/ <<c, p>> \in missed'
                    \/ Flushing(c, p)'
  BY Zenon DEF NoStaleTranslation, Flushing
<1>1. /\ tlb[c] \in [AllPages -> Frames \cup {Absent}]
      /\ tlb \in [CPUs -> [AllPages -> Frames \cup {Absent}]]
      /\ cr3 \in [CPUs -> Contexts \cup {None}] /\ op \in [Threads -> Ops]
  BY Zenon DEF IInv, TypeOK, Ops, PCs
<1>2. op[t].pc = "locked" /\ \A u \in Threads \ {t} : op'[u] = op[u]
  BY <1>1, Zenon DEF SwitchTable
<1>3. Flushing(c, p) => Flushing(c, p)'
  BY <1>2, Zenon DEF Flushing
<1>4. tlb[c][p] \in {Absent, Walk(c, p)} \/ <<c, p>> \in missed \/ Flushing(c, p)
  BY DEF NoStaleTranslation, Flushing
<1>5. CASE c = On[t] /\ p \in Pages
  <2>1. tlb'[c][p] = Absent
    BY <1>1, <1>5, Zenon DEF SwitchTable
  <2> QED
    BY <2>1, Zenon
<1>6. CASE c # On[t] \/ p \notin Pages
  <2>1. tlb'[c][p] = tlb[c][p]
    BY <1>1, <1>6, Zenon DEF SwitchTable
  <2>2. Walk(c, p)' = Walk(c, p)
    <3>1. Walked(c, p)' = Walked(c, p)
      BY <1>1, <1>6, Zenon DEF SwitchTable, Walked, AllPages
    <3> QED
      BY <3>1, Zenon DEF Walk, SwitchTable
  <2>3. <<c, p>> \in missed => <<c, p>> \in missed'
    BY <1>6, Zenon DEF SwitchTable
  <2> QED
    BY <1>3, <1>4, <2>1, <2>2, <2>3, Zenon
<1> QED
  BY <1>5, <1>6, Zenon

LEMMA WriteFresh ==
  ASSUME IInv, NoStaleTranslation, NEW t \in Threads, NEW f \in Frames \cup {Absent}, Write(t, f)
  PROVE  NoStaleTranslation'
<1> USE PagingAssumption
<1> SUFFICES ASSUME NEW c \in CPUs, NEW p \in AllPages
             PROVE  \/ tlb'[c][p] \in {Absent, Walk(c, p)'}
                    \/ <<c, p>> \in missed'
                    \/ Flushing(c, p)'
  BY Zenon DEF NoStaleTranslation, Flushing
<1> DEFINE x == op[t].tab
           q == op[t].page
           to == IF op[t].flush THEN "flush" ELSE "written"
<1>1. Step(t, "write", to) /\ to \in PCs
  BY Zenon DEF Write, PCs, Writing
<1>2. /\ op[t].pc = "write" /\ op'[t].pc = to /\ op'[t].page = q
      /\ \A u \in Threads \ {t} : op'[u] = op[u]
  <2> HIDE DEF to
  <2>1. TypeOK
    BY Zenon DEF IInv
  <2> QED
    BY ONLY <1>1, <2>1, t \in Threads, StepMove
<1>3. x \in Tables /\ q \in PagesOf(x) /\ table \in [Tables -> [AllPages -> Frames \cup {Absent}]]
  <2>1. Disciplined(t)
    BY Zenon DEF IInv, Discipline
  <2>2. x \in Tables /\ q \in PagesOf(x)
    BY ONLY <1>2, <2>1, Zenon DEF Disciplined, Writing
  <2> QED
    BY <2>2, Zenon DEF IInv, TypeOK
<1>4. Flushing(c, p) => Flushing(c, p)'
  BY <1>2, Zenon DEF Flushing
<1>5. tlb[c][p] \in {Absent, Walk(c, p)} \/ <<c, p>> \in missed \/ Flushing(c, p)
  BY DEF NoStaleTranslation, Flushing
<1>6. missed \subseteq missed' /\ cr3' = cr3 /\ tlb' = tlb
  BY Zenon DEF Write
<1>7. CASE ~(p = q /\ Walked(c, p) = x)
  <2>1. Walked(c, p)' = Walked(c, p)
    BY <1>6, Zenon DEF Walked
  <2>2. Walked(c, p) \in Tables \cup {None}
    BY SMTT(20) DEF Walked, IInv, TypeOK, Tables
  <2>3. Walk(c, p)' = Walk(c, p)
    BY <1>3, <1>7, <2>1, <2>2, Zenon DEF Walk, Write
  <2> QED
    BY <1>4, <1>5, <1>6, <2>3, Zenon
<1>8. CASE p = q /\ Walked(c, p) = x /\ c # On[t]
  BY <1>8, Zenon DEF Write
<1>9. CASE p = q /\ Walked(c, p) = x /\ c = On[t]
  <2>1. CASE op[t].flush
    BY <1>2, <1>9, <2>1, Zenon DEF Flushing
  <2>2. CASE ~op[t].flush
    <3>1. x # Global /\ cr3[c] # x
      BY <1>2, <2>2, Zenon DEF IInv, UnawareWriterAlone
    <3>2. p \notin GPages
      BY <1>3, <1>9, <3>1, Zenon DEF PagesOf
    <3> QED
      BY <1>9, <3>1, <3>2, Zenon DEF Walked
  <2> QED
    BY <2>1, <2>2, Zenon
<1> QED
  BY ONLY <1>7, <1>8, <1>9, Zenon

LEMMA InvalidateFresh ==
  ASSUME IInv, NoStaleTranslation, NEW t \in Threads, invalidate_tlb(t)
  PROVE  NoStaleTranslation'
<1> USE PagingAssumption
<1> SUFFICES ASSUME NEW c \in CPUs, NEW p \in AllPages
             PROVE  \/ tlb'[c][p] \in {Absent, Walk(c, p)'}
                    \/ <<c, p>> \in missed'
                    \/ Flushing(c, p)'
  BY Zenon DEF NoStaleTranslation, Flushing
<1>1. Step(t, "flush", "written") /\ "written" \in PCs
  BY Zenon DEF invalidate_tlb, PCs, Writing
<1>2. /\ op[t].pc = "flush" /\ \A u \in Threads \ {t} : op'[u] = op[u]
  BY <1>1, StepMove, Zenon DEF IInv
<1>3. tlb \in [CPUs -> [AllPages -> Frames \cup {Absent}]] /\ On[t] \in CPUs
  BY Zenon DEF IInv, TypeOK
<1>4. tlb[c][p] \in {Absent, Walk(c, p)} \/ <<c, p>> \in missed \/ Flushing(c, p)
  BY DEF NoStaleTranslation, Flushing
<1>5. Walk(c, p)' = Walk(c, p)
  BY Zenon DEF Walk, Walked, invalidate_tlb
<1>6. CASE c = On[t] /\ p = op[t].page
  BY <1>3, <1>6, Zenon DEF invalidate_tlb
<1>7. CASE ~(c = On[t] /\ p = op[t].page)
  <2>1. tlb'[c][p] = tlb[c][p]
    BY <1>3, <1>7, Zenon DEF invalidate_tlb
  <2>2. <<c, p>> \in missed => <<c, p>> \in missed'
    BY <1>7, Zenon DEF invalidate_tlb
  <2>3. Flushing(c, p) => Flushing(c, p)'
    BY <1>2, <1>7, Zenon DEF Flushing
  <2> QED
    BY <1>4, <1>5, <2>1, <2>2, <2>3, Zenon
<1> QED
  BY <1>6, <1>7, Zenon

LEMMA FillFresh ==
  ASSUME IInv, NoStaleTranslation, NEW d \in CPUs, NEW q \in AllPages, Fill(d, q)
  PROVE  NoStaleTranslation'
<1> SUFFICES ASSUME NEW c \in CPUs, NEW p \in AllPages
             PROVE  \/ tlb'[c][p] \in {Absent, Walk(c, p)'}
                    \/ <<c, p>> \in missed'
                    \/ Flushing(c, p)'
  BY Zenon DEF NoStaleTranslation, Flushing
<1>1. tlb \in [CPUs -> [AllPages -> Frames \cup {Absent}]]
  BY Zenon DEF IInv, TypeOK
<1>2. Walk(c, p)' = Walk(c, p) /\ UNCHANGED <<missed, op>>
  BY Zenon DEF Walk, Walked, Fill
<1>3. Flushing(c, p)' = Flushing(c, p)
  BY SMTT(20), <1>2 DEF Flushing
<1>4. tlb[c][p] \in {Absent, Walk(c, p)} \/ <<c, p>> \in missed \/ Flushing(c, p)
  BY DEF NoStaleTranslation, Flushing
<1>5. tlb'[c][p] = IF c = d /\ p = q THEN Walk(c, p) ELSE tlb[c][p]
  BY <1>1, Zenon DEF Fill
<1> QED
  BY <1>2, <1>3, <1>4, <1>5, Zenon

LEMMA NextFresh == IInv /\ NoStaleTranslation /\ [Next]_vars => NoStaleTranslation'
<1> SUFFICES ASSUME IInv, NoStaleTranslation, [Next]_vars
             PROVE  NoStaleTranslation'
  BY Zenon
<1>0. op \in [Threads -> Ops]
  BY Zenon DEF IInv, TypeOK, Ops, PCs
<1>1. ASSUME NEW t \in Threads, Activate(t)
      PROVE  NoStaleTranslation'
  <2>1. CASE \E x \in Contexts : _begin_active(t, x)
    BY <1>0, <2>1, FreshKept, Zenon DEF _begin_active
  <2>2. CASE LockActivated(t)
    BY <1>0, <2>2, FreshKept, Zenon DEF LockActivated, Step
  <2>3. CASE _end_active(t)
    BY <1>0, <2>3, FreshKept, Zenon DEF _end_active, Step
  <2> QED
    BY <1>1, <2>1, <2>2, <2>3, SwitchFresh, Zenon DEF Activate
<1>2. ASSUME NEW t \in Threads, WriteTable(t)
      PROVE  NoStaleTranslation'
  <2>1. CASE \E x \in Tables : \E p \in PagesOf(x) : write_when_active(t, x, p)
    BY <1>0, <2>1, FreshKept, Zenon DEF write_when_active
  <2>2. CASE LoadCount(t)
    BY <1>0, <2>2, FreshKept, Zenon DEF LoadCount
  <2> QED
    BY <1>2, <2>1, <2>2, WriteFresh, InvalidateFresh, Zenon DEF WriteTable
<1>3. ASSUME NEW t \in Threads, Release(t)
      PROVE  NoStaleTranslation'
  BY <1>0, <1>3, FreshKept, Zenon DEF Release
<1>4. ASSUME NEW c \in CPUs, NEW p \in AllPages, Fill(c, p)
      PROVE  NoStaleTranslation'
  BY <1>4, FillFresh, Zenon
<1>5. CASE UNCHANGED vars
  <2>1. table' = table /\ cr3' = cr3 /\ tlb' = tlb /\ op' = op /\ missed' = missed
    BY <1>5, Zenon DEF vars
  <2>2. \A c \in CPUs, p \in AllPages : Walk(c, p)' = Walk(c, p)
    BY <2>1, Zenon DEF Walk, Walked
  <2>3. \A c \in CPUs, p \in AllPages : Flushing(c, p)' = Flushing(c, p)
    BY <2>1, Zenon DEF Flushing
  <2>4. ASSUME NEW c \in CPUs, NEW p \in AllPages
        PROVE  tlb'[c][p] \in {Absent, Walk(c, p)'} \/ <<c, p>> \in missed' \/ Flushing(c, p)'
    BY <2>1, <2>2, <2>3 DEF NoStaleTranslation, Flushing
  <2> QED
    BY ZenonT(40), <2>4 DEF NoStaleTranslation, Flushing
<1> QED
  BY <1>1, <1>2, <1>3, <1>4, <1>5, Zenon DEF Next

(* No CPU keeps a translation that its page tables no longer have, except  *)
(* what it had cached when another CPU wrote the table.                    *)
THEOREM NoStaleTranslationHolds == Spec => []NoStaleTranslation
<1>1. Init => NoStaleTranslation
  BY DEF Init, NoStaleTranslation
<1> QED
  BY <1>1, NextFresh, InductiveInvariant, PTL DEF Spec
=============================================================================
