------------------------- MODULE BaseRwLockProofs ---------------------------
(***************************************************************************)
(* Proofs about BaseRwLock for every set of threads that fits the layout   *)
(* of the word.  The inductive invariant says what the word counts         *)
(* (WordCounts); mutual exclusion follows because a thread that finds the  *)
(* word below EXCLUSIVE_THRESHOLD, at 0 or at UPGRADER knows from it which *)
(* of the three counts are 0.                                              *)
(***************************************************************************)
EXTENDS BaseRwLock, FiniteSetTheorems, TLAPS

N == Cardinality(Threads)
Word(w, u, r) == WRITER * w + UPGRADER * u + r
Bound == WRITER + UPGRADER * N + N

\* The threads that function f puts at a point of S.
Bits(f, S) == {t \in Threads : f[t] \in S}
WPoints == {"writer"}
UPoints == UpgradableHeld \cup UpgradableUndo
RPoints == {"reader"} \cup SharedUndo

\* 1 for a point of S, 0 for the others.
One(p, S) == IF p \in S THEN 1 ELSE 0

\* What a thread at point p has added to the word.
Share(p) == IF p \in WPoints THEN WRITER
            ELSE IF p \in UPoints THEN UPGRADER
            ELSE IF p \in RPoints THEN 1 ELSE 0

IInv ==
  /\ pc \in [Threads -> PCs]
  /\ value \in Nat
  /\ WordCounts
  /\ MutualExclusion

----------------------------------------------------------------------------
(* Arithmetic of the word *)

LEMMA LayoutFacts ==
  /\ N \in Nat /\ WRITER \in Nat /\ UPGRADER \in Nat /\ USIZE \in Nat
  /\ EXCLUSIVE_THRESHOLD \in Nat /\ EXCLUSIVE_THRESHOLD > N + 1
  /\ UPGRADER >= EXCLUSIVE_THRESHOLD /\ WRITER > UPGRADER
  /\ Bound \in Nat /\ Bound < USIZE
<1>1. N \in Nat
  BY ThreadsAssumption, FS_CardinalityType DEF N
<1>2. UPGRADER * N \in Nat
  BY <1>1, LayoutAssumption
<1> QED
  BY <1>1, <1>2, LayoutAssumption DEF N, Bound

LEMMA Product ==
  ASSUME NEW a \in Nat, NEW n \in Nat
  PROVE  /\ a * n \in Nat
         /\ a * (n + 1) = a * n + a
         /\ n >= 1 => a * n >= a
         /\ n >= 1 => a * (n - 1) = a * n - a
         /\ n >= 2 => a * n >= a + a
         /\ a * 0 = 0 /\ a * 1 = a
         /\ \A m \in Nat : m <= n => a * m <= a * n
OBVIOUS

\* A word below the threshold counts no writer and no upgrader.
LEMMA WordBelow ==
  ASSUME NEW w \in Nat, NEW u \in Nat, NEW r \in Nat,
         Word(w, u, r) < EXCLUSIVE_THRESHOLD
  PROVE  w = 0 /\ u = 0
<1>1. /\ WRITER * w \in Nat /\ UPGRADER * u \in Nat
      /\ w >= 1 => WRITER * w >= WRITER
      /\ u >= 1 => UPGRADER * u >= UPGRADER
  BY LayoutFacts, Product
<1> QED
  BY <1>1, LayoutFacts DEF Word

LEMMA WordZero ==
  ASSUME NEW w \in Nat, NEW u \in Nat, NEW r \in Nat, Word(w, u, r) = 0
  PROVE  w = 0 /\ u = 0 /\ r = 0
<1>1. w = 0 /\ u = 0
  BY WordBelow, LayoutFacts
<1> QED
  BY <1>1, LayoutFacts, Product DEF Word

\* A word equal to UPGRADER counts one upgrader and nobody else.
LEMMA WordUpgrader ==
  ASSUME NEW w \in Nat, NEW u \in Nat, NEW r \in Nat,
         u >= 1, Word(w, u, r) = UPGRADER
  PROVE  w = 0 /\ u = 1 /\ r = 0
<1>1. /\ WRITER * w \in Nat /\ UPGRADER * u \in Nat
      /\ w >= 1 => WRITER * w >= WRITER
      /\ UPGRADER * u >= UPGRADER
      /\ u >= 2 => UPGRADER * u >= UPGRADER + UPGRADER
      /\ UPGRADER * 1 = UPGRADER
  BY LayoutFacts, Product
<1> QED
  BY <1>1, LayoutFacts DEF Word

LEMMA WordBound ==
  ASSUME NEW w \in Nat, NEW u \in Nat, NEW r \in Nat, w <= 1, u <= N, r <= N
  PROVE  Word(w, u, r) \in Nat /\ Word(w, u, r) <= Bound
<1>1. /\ WRITER * w \in Nat /\ WRITER * w <= WRITER * 1 /\ WRITER * 1 = WRITER
      /\ UPGRADER * u \in Nat /\ UPGRADER * u <= UPGRADER * N /\ UPGRADER * N \in Nat
  BY LayoutFacts, Product
<1> QED
  BY <1>1, LayoutFacts DEF Word, Bound

LEMMA ProductMove ==
  \A a, n \in Nat : \A d, e \in {0, 1} : d <= n =>
    /\ a * n \in Nat /\ a * d \in Nat /\ a * e \in Nat
    /\ a * d <= a * n
    /\ a * (n - d + e) = a * n - a * d + a * e
<1> TAKE a, n \in Nat
<1> TAKE d, e \in {0, 1}
<1> HAVE d <= n
<1>1. /\ a * n \in Nat /\ a * 0 = 0 /\ a * 1 = a
      /\ n >= 1 => a * n >= a
      /\ n >= 1 => a * (n - 1) = a * n - a
      /\ a * (n + 1) = a * n + a
  BY Product
<1>2. CASE d = 0 /\ e = 0
  BY <1>1, <1>2
<1>3. CASE d = 0 /\ e = 1
  BY <1>1, <1>3
<1>4. CASE d = 1 /\ e = 0
  BY <1>1, <1>4
<1>5. CASE d = 1 /\ e = 1
  BY <1>1, <1>5
<1> QED
  BY <1>2, <1>3, <1>4, <1>5

----------------------------------------------------------------------------
(* Counting threads *)

LEMMA BitsFinite ==
  ASSUME NEW f, NEW S
  PROVE  /\ IsFiniteSet(Bits(f, S))
         /\ Cardinality(Bits(f, S)) \in Nat
         /\ Cardinality(Bits(f, S)) <= N
         /\ Cardinality(Bits(f, S)) = 0 <=> Bits(f, S) = {}
<1>1. Bits(f, S) \in SUBSET Threads
  BY DEF Bits
<1>2. IsFiniteSet(Bits(f, S)) /\ Cardinality(Bits(f, S)) <= N
  BY <1>1, ThreadsAssumption, FS_Subset DEF N
<1> QED
  BY <1>2, FS_CardinalityType, FS_EmptySet

\* Moving one thread changes a count by what it was and what it becomes.
LEMMA CountMove ==
  \A f \in [Threads -> PCs], t \in Threads, p \in PCs : \A S :
    Cardinality(Bits([f EXCEPT ![t] = p], S))
      = Cardinality(Bits(f, S)) - One(f[t], S) + One(p, S)
<1> SUFFICES ASSUME NEW f \in [Threads -> PCs], NEW t \in Threads, NEW p \in PCs, NEW S
             PROVE  Cardinality(Bits([f EXCEPT ![t] = p], S))
                      = Cardinality(Bits(f, S)) - One(f[t], S) + One(p, S)
  BY Zenon
<1> DEFINE A == Bits(f, S)
           B == Bits([f EXCEPT ![t] = p], S)
<1>1. IsFiniteSet(A) /\ Cardinality(A) \in Nat
  BY BitsFinite
<1>2. IsFiniteSet(A \ {t}) /\ Cardinality(A \ {t}) \in Nat
      /\ Cardinality(A \ {t}) = Cardinality(A) - One(f[t], S)
  <2>1. t \in A <=> f[t] \in S
    BY DEF Bits
  <2> HIDE DEF A
  <2>2. IsFiniteSet(A \ {t})
        /\ Cardinality(A \ {t}) = IF t \in A THEN Cardinality(A) - 1 ELSE Cardinality(A)
    BY <1>1, FS_RemoveElement
  <2>3. Cardinality(A \ {t}) \in Nat
    BY <2>2, FS_CardinalityType
  <2> QED
    BY <1>1, <2>1, <2>2, <2>3 DEF One
<1>3. CASE p \in S
  <2>1. B = (A \ {t}) \cup {t}
    BY <1>3 DEF Bits
  <2> HIDE DEF A, B
  <2>2. Cardinality((A \ {t}) \cup {t}) = Cardinality(A \ {t}) + 1
    BY <1>2, FS_AddElement
  <2>3. Cardinality(B) = Cardinality(A \ {t}) + 1
    BY <2>1, <2>2
  <2>4. Cardinality(B) = Cardinality(A) - One(f[t], S) + One(p, S)
    BY <1>1, <1>2, <1>3, <2>3 DEF One
  <2> QED
    BY <2>4 DEF A, B
<1>4. CASE p \notin S
  <2>1. B = A \ {t}
    BY <1>4 DEF Bits
  <2> HIDE DEF A, B
  <2>2. Cardinality(B) = Cardinality(A) - One(f[t], S) + One(p, S)
    BY <1>1, <1>2, <1>4, <2>1 DEF One
  <2> QED
    BY <2>2 DEF A, B
<1> QED
  BY <1>3, <1>4

\* The three sets whose sizes the word adds up.
LEMMA BitsOfState ==
  /\ Writers = Bits(pc, WPoints)
  /\ UpgraderBits = Bits(pc, UPoints)
  /\ ReaderBits = Bits(pc, RPoints)
BY DEF Writers, UpgraderBits, ReaderBits, Bits, WPoints, UPoints, RPoints

LEMMA Counted ==
  ASSUME IInv
  PROVE  /\ Cardinality(Writers) \in Nat /\ Cardinality(Writers) <= 1
         /\ Cardinality(UpgraderBits) \in Nat /\ Cardinality(UpgraderBits) <= N
         /\ Cardinality(ReaderBits) \in Nat /\ Cardinality(ReaderBits) <= N
         /\ value = Word(Cardinality(Writers), Cardinality(UpgraderBits), Cardinality(ReaderBits))
         /\ Cardinality(Writers) = 0 <=> Writers = {}
         /\ Cardinality(UpgraderBits) = 0 <=> UpgraderBits = {}
         /\ Cardinality(ReaderBits) = 0 <=> ReaderBits = {}
<1>1. Cardinality(Writers) <= 1
  <2>1. CASE Writers = {}
    BY <2>1, FS_EmptySet
  <2>2. CASE Writers # {}
    <3>1. PICK t : t \in Writers
      BY <2>2
    <3>2. Writers \cup Upgradables \cup Readers = {t}
      BY <3>1 DEF IInv, MutualExclusion
    <3>3. Writers = {t}
      BY <3>1, <3>2
    <3> QED
      BY <3>3, FS_Singleton
  <2> QED
    BY <2>1, <2>2
<1> QED
  BY <1>1, BitsFinite, BitsOfState DEF IInv, WordCounts, Word

----------------------------------------------------------------------------
(* One thread moves *)

LEMMA BitsOfNextState ==
  /\ Writers' = Bits(pc', WPoints)
  /\ UpgraderBits' = Bits(pc', UPoints)
  /\ ReaderBits' = Bits(pc', RPoints)
BY DEF Writers, UpgraderBits, ReaderBits, Bits, WPoints, UPoints, RPoints

\* When a thread moves to p, the word that counts the threads afresh is the old
\* one without the thread's old share and with its new one.
LEMMA Moved ==
  ASSUME IInv, NEW t \in Threads, NEW p \in PCs, pc' = [pc EXCEPT ![t] = p]
  PROVE  /\ value + Share(p) - Share(pc[t])
               = Word(Cardinality(Writers)', Cardinality(UpgraderBits)', Cardinality(ReaderBits)')
         /\ value >= Share(pc[t])
         /\ p # "writer" => value + Share(p) - Share(pc[t]) <= Bound
<1> DEFINE w == Cardinality(Writers)       w2 == Cardinality(Writers')
           u == Cardinality(UpgraderBits)  u2 == Cardinality(UpgraderBits')
           r == Cardinality(ReaderBits)    r2 == Cardinality(ReaderBits')
           dw(q) == One(q, WPoints)  du(q) == One(q, UPoints)  dr(q) == One(q, RPoints)
<1>1. /\ w \in Nat /\ w <= 1 /\ u \in Nat /\ r \in Nat /\ value = Word(w, u, r)
  BY Counted
<1>2. /\ w2 \in Nat /\ u2 \in Nat /\ r2 \in Nat /\ u2 <= N /\ r2 <= N
  BY BitsFinite, BitsOfNextState
<1>3. /\ w2 = w - dw(pc[t]) + dw(p)
      /\ u2 = u - du(pc[t]) + du(p)
      /\ r2 = r - dr(pc[t]) + dr(p)
  <2>1. pc \in [Threads -> PCs]
    BY DEF IInv
  <2>2. ASSUME NEW S
        PROVE  Cardinality(Bits(pc', S)) = Cardinality(Bits(pc, S)) - One(pc[t], S) + One(p, S)
    BY <2>1, CountMove, Zenon
  <2> QED
    BY <2>2, BitsOfState, BitsOfNextState, Zenon
<1>4. pc[t] \in PCs
  BY DEF IInv
<1>5. dw(pc[t]) <= w /\ du(pc[t]) <= u /\ dr(pc[t]) <= r
  <2>1. /\ pc[t] \in WPoints => Writers # {}
        /\ pc[t] \in UPoints => UpgraderBits # {}
        /\ pc[t] \in RPoints => ReaderBits # {}
    BY DEF Writers, UpgraderBits, ReaderBits, WPoints, UPoints, RPoints
  <2> QED
    BY <2>1, <1>1, Counted DEF One
<1>6. \A q \in PCs : /\ dw(q) \in {0, 1} /\ du(q) \in {0, 1} /\ dr(q) \in {0, 1}
                     /\ Share(q) = WRITER * dw(q) + UPGRADER * du(q) + dr(q)
  BY LayoutFacts, Product
     DEF One, Share, WPoints, UPoints, RPoints, UpgradableHeld, UpgradableUndo, SharedUndo
<1>7. ASSUME p # "writer" PROVE w2 <= 1
  BY <1>1, <1>2, <1>3, <1>4, <1>6, <1>7 DEF One, WPoints
<1> HIDE DEF w, u, r, w2, u2, r2, dw, du, dr
<1> DEFINE ww == WRITER * w         uu == UPGRADER * u
           wa == WRITER * dw(pc[t]) ua == UPGRADER * du(pc[t])
           wd == WRITER * dw(p)     ud == UPGRADER * du(p)
<1>8. ww \in Nat /\ wa \in Nat /\ wd \in Nat /\ wa <= ww
      /\ WRITER * w2 = ww - wa + wd
  <2>1. WRITER \in Nat /\ w \in Nat /\ dw(pc[t]) \in {0, 1} /\ dw(p) \in {0, 1} /\ dw(pc[t]) <= w
    BY <1>1, <1>4, <1>5, <1>6, LayoutFacts
  <2>2. \A n \in Nat : \A a, b \in {0, 1} : a <= n =>
          /\ WRITER * n \in Nat /\ WRITER * a \in Nat /\ WRITER * b \in Nat
          /\ WRITER * a <= WRITER * n
          /\ WRITER * (n - a + b) = WRITER * n - WRITER * a + WRITER * b
    BY <2>1, ProductMove
  <2>3. \A a, b \in {0, 1} : a <= w =>
          /\ WRITER * w \in Nat /\ WRITER * a \in Nat /\ WRITER * b \in Nat
          /\ WRITER * a <= WRITER * w
          /\ WRITER * (w - a + b) = WRITER * w - WRITER * a + WRITER * b
    BY <2>1, <2>2
  <2>4. /\ WRITER * w \in Nat /\ WRITER * dw(pc[t]) \in Nat /\ WRITER * dw(p) \in Nat
        /\ WRITER * dw(pc[t]) <= WRITER * w
        /\ WRITER * (w - dw(pc[t]) + dw(p)) = WRITER * w - WRITER * dw(pc[t]) + WRITER * dw(p)
    BY <2>1, <2>3
  <2> QED
    BY <2>4, <1>3
<1>9. uu \in Nat /\ ua \in Nat /\ ud \in Nat /\ ua <= uu
      /\ UPGRADER * u2 = uu - ua + ud
  <2>1. UPGRADER \in Nat /\ u \in Nat /\ du(pc[t]) \in {0, 1} /\ du(p) \in {0, 1} /\ du(pc[t]) <= u
    BY <1>1, <1>4, <1>5, <1>6, LayoutFacts
  <2>2. \A n \in Nat : \A a, b \in {0, 1} : a <= n =>
          /\ UPGRADER * n \in Nat /\ UPGRADER * a \in Nat /\ UPGRADER * b \in Nat
          /\ UPGRADER * a <= UPGRADER * n
          /\ UPGRADER * (n - a + b) = UPGRADER * n - UPGRADER * a + UPGRADER * b
    BY <2>1, ProductMove
  <2>3. \A a, b \in {0, 1} : a <= u =>
          /\ UPGRADER * u \in Nat /\ UPGRADER * a \in Nat /\ UPGRADER * b \in Nat
          /\ UPGRADER * a <= UPGRADER * u
          /\ UPGRADER * (u - a + b) = UPGRADER * u - UPGRADER * a + UPGRADER * b
    BY <2>1, <2>2
  <2>4. /\ UPGRADER * u \in Nat /\ UPGRADER * du(pc[t]) \in Nat /\ UPGRADER * du(p) \in Nat
        /\ UPGRADER * du(pc[t]) <= UPGRADER * u
        /\ UPGRADER * (u - du(pc[t]) + du(p)) = UPGRADER * u - UPGRADER * du(pc[t]) + UPGRADER * du(p)
    BY <2>1, <2>3
  <2> QED
    BY <2>4, <1>3
<1>10. /\ value = ww + uu + r
       /\ Share(pc[t]) = wa + ua + dr(pc[t]) /\ dr(pc[t]) \in {0, 1} /\ dr(pc[t]) <= r
       /\ Share(p) = wd + ud + dr(p) /\ dr(p) \in {0, 1}
       /\ Word(w2, u2, r2) = (ww - wa + wd) + (uu - ua + ud) + r2
  BY <1>1, <1>4, <1>5, <1>6, <1>8, <1>9 DEF Word
<1> HIDE DEF ww, wa, wd, uu, ua, ud
<1>11. value + Share(p) - Share(pc[t]) = Word(w2, u2, r2) /\ value >= Share(pc[t])
  BY <1>1, <1>2, <1>3, <1>8, <1>9, <1>10
<1>12. ASSUME p # "writer" PROVE Word(w2, u2, r2) <= Bound
  BY <1>2, <1>7, <1>12, WordBound
<1> QED
  BY <1>11, <1>12 DEF w2, u2, r2

----------------------------------------------------------------------------
(* What a thread learns from the word *)

LEMMA ReadsOfTheWord ==
  ASSUME IInv
  PROVE  /\ ~is_locked_exclusively => Writers = {} /\ UpgraderBits = {}
         /\ value = 0 => Writers = {} /\ UpgraderBits = {} /\ ReaderBits = {}
         /\ \A t \in UpgraderBits :
              value = UPGRADER => Writers = {} /\ UpgraderBits = {t} /\ ReaderBits = {}
<1> DEFINE w == Cardinality(Writers)  u == Cardinality(UpgraderBits)  r == Cardinality(ReaderBits)
<1>1. /\ w \in Nat /\ u \in Nat /\ r \in Nat /\ value = Word(w, u, r) /\ value \in Nat
      /\ w = 0 <=> Writers = {}
      /\ u = 0 <=> UpgraderBits = {}
      /\ r = 0 <=> ReaderBits = {}
  BY Counted DEF IInv
<1>2. u = 1 => \E x : UpgraderBits = {x}
  BY FS_Singleton, BitsFinite, BitsOfState, Zenon
<1> HIDE DEF w, u, r
<1>3. ~is_locked_exclusively => w = 0 /\ u = 0
  BY <1>1, WordBelow, LayoutFacts DEF is_locked_exclusively
<1>4. value = 0 => w = 0 /\ u = 0 /\ r = 0
  BY <1>1, WordZero, Zenon
<1>5. u >= 1 /\ value = UPGRADER => w = 0 /\ u = 1 /\ r = 0
  BY <1>1, WordUpgrader, Zenon
<1> QED
  BY <1>1, <1>2, <1>3, <1>4, <1>5

----------------------------------------------------------------------------
(* Every step is a step of the abstract lock *)

\* Mutual exclusion, said of two threads at a time.
Exclusive(mode) ==
  \A t, u \in Threads : t # u =>
    /\ mode[t] = "write" => mode[u] = "none"
    /\ mode[t] = "upgradable" => mode[u] # "upgradable"

LEMMA ModePoints ==
  ASSUME NEW t \in Threads, pc[t] \in PCs
  PROVE  /\ pc[t] = "reader" <=> AbstractMode[t] = "read"
         /\ pc[t] = "writer" <=> AbstractMode[t] = "write"
         /\ pc[t] \in UpgradableHeld <=> AbstractMode[t] = "upgradable"
         /\ AbstractMode[t] \in {"none", "read", "write", "upgradable"}
BY DEF AbstractMode, ModeAt, UpgradableHeld

LEMMA ExclusiveModes ==
  ASSUME pc \in [Threads -> PCs]
  PROVE  MutualExclusion <=> Exclusive(AbstractMode)
<1>1. \A t \in Threads : /\ t \in Writers <=> AbstractMode[t] = "write"
                         /\ t \in Upgradables <=> AbstractMode[t] = "upgradable"
                         /\ t \in Readers <=> AbstractMode[t] = "read"
                         /\ AbstractMode[t] \in {"none", "read", "write", "upgradable"}
  BY ModePoints DEF Writers, Upgradables, Readers, HoldersOf
<1>2. Writers \subseteq Threads /\ Upgradables \subseteq Threads /\ Readers \subseteq Threads
  BY DEF Writers, Upgradables, Readers, HoldersOf
<1>3. ASSUME MutualExclusion PROVE Exclusive(AbstractMode)
  BY <1>1, <1>2, <1>3 DEF MutualExclusion, Exclusive
<1>4. ASSUME Exclusive(AbstractMode) PROVE MutualExclusion
  <2>1. ASSUME NEW t \in Writers PROVE Writers \cup Upgradables \cup Readers = {t}
    BY <1>1, <1>2, <1>4, <2>1 DEF Exclusive
  <2>2. \A t, u \in Upgradables : t = u
    BY <1>1, <1>2, <1>4 DEF Exclusive
  <2> QED
    BY <2>1, <2>2 DEF MutualExclusion
<1> QED
  BY <1>3, <1>4

LEMMA ModeMove ==
  ASSUME pc \in [Threads -> PCs], NEW t \in Threads, NEW p \in PCs,
         pc' = [pc EXCEPT ![t] = p]
  PROVE  AbstractMode' = [AbstractMode EXCEPT ![t] = ModeAt(p)]
BY Zenon DEF AbstractMode

\* A move between two points of the same mode is not seen by the abstract lock.
LEMMA Unseen ==
  ASSUME pc \in [Threads -> PCs], NEW t \in Threads, NEW p \in PCs,
         pc' = [pc EXCEPT ![t] = p], ModeAt(p) = ModeAt(pc[t])
  PROVE  UNCHANGED AbstractMode
BY DEF AbstractMode

LEMMA ModesOfPoints ==
  /\ ModeAt("reader") = "read" /\ ModeAt("writer") = "write" /\ ModeAt("idle") = "none"
  /\ \A p \in UpgradableHeld : ModeAt(p) = "upgradable"
  /\ \A p \in SharedUndo \cup UpgradableUndo \cup Waiting : ModeAt(p) = "none"
  /\ PCs = {"idle", "reader", "writer", "s_undo", "try_s_undo", "u_undo", "try_u_undo",
            "upgradable", "up_cas", "up_spin", "s_add", "s_spin", "x_cas", "x_spin", "u_add", "u_spin"}
BY DEF ModeAt, SharedUndo, UpgradableUndo, UpgradableHeld, Waiting, PCs

(***************************************************************************)
(* A step of one thread from its point to p: what it does to the word, and *)
(* which of the abstract steps it is.                                      *)
(***************************************************************************)
Kind(t, p) ==
  \/ ModeAt(p) = ModeAt(pc[t])
  \/ ~is_locked_exclusively /\ ModeAt(pc[t]) = "none" /\ p \in {"reader", "upgradable"}
  \/ value = 0 /\ ModeAt(pc[t]) = "none" /\ p = "writer"
  \/ value = UPGRADER /\ pc[t] \in UpgradableHeld /\ p = "writer"
  \/ pc[t] \in {"reader", "writer", "upgradable"} /\ p = "idle"
  \/ pc[t] = "writer" /\ p \in {"reader", "upgradable"}
  \/ pc[t] = "upgradable" /\ p = "reader"

Moves(t, p) ==
  /\ pc' = [pc EXCEPT ![t] = p]
  /\ value' = value + Share(p) - Share(pc[t])
  /\ Kind(t, p)

LEMMA Shares ==
  /\ \A p \in PCs : Share(p) \in Nat
  /\ Share("writer") = WRITER
  /\ \A p \in UpgradableHeld \cup UpgradableUndo : Share(p) = UPGRADER
  /\ \A p \in {"reader"} \cup SharedUndo : Share(p) = 1
  /\ \A p \in {"idle", "s_add", "s_spin", "x_cas", "x_spin", "u_add", "u_spin"} : Share(p) = 0
BY LayoutFacts
   DEF Share, WPoints, UPoints, RPoints, UpgradableHeld, UpgradableUndo, SharedUndo

\* Neither an addition nor a subtraction wraps around.
LEMMA NoWrap ==
  ASSUME IInv, NEW t \in Threads, NEW p \in PCs, pc' = [pc EXCEPT ![t] = p], p # "writer",
         NEW n \in Nat,
         \/ Share(p) = Share(pc[t]) + n /\ fetch_add(n)
         \/ Share(p) = Share(pc[t]) - n /\ fetch_sub(n)
  PROVE  value' = value + Share(p) - Share(pc[t])
<1>1. /\ value >= Share(pc[t]) /\ value + Share(p) - Share(pc[t]) <= Bound
  BY Moved, Zenon
<1>2. value \in Nat /\ Share(p) \in Nat /\ Share(pc[t]) \in Nat
  BY Shares DEF IInv
<1> QED
  BY <1>1, <1>2, LayoutFacts DEF fetch_add, fetch_sub

LEMMA EveryStepMoves ==
  ASSUME IInv, Next
  PROVE  \E t \in Threads, p \in PCs : Moves(t, p)
<1>1. PICK t \in Threads : Call(t) \/ LockStep(t) \/ Unlock(t) \/ ChangeMode(t)
  BY DEF Next
<1>2. pc \in [Threads -> PCs] /\ pc[t] \in PCs /\ value \in Nat
  BY DEF IInv
<1> SUFFICES \E p \in PCs : Moves(t, p)
  OBVIOUS
<1>3. ASSUME NEW p \in PCs, Goto(t, pc[t], p), UNCHANGED value,
             Share(p) = Share(pc[t]), ModeAt(p) = ModeAt(pc[t])
      PROVE  Moves(t, p)
  <2>1. Share(p) \in Nat
    BY Shares
  <2> QED
    BY <1>2, <1>3, <2>1 DEF Moves, Kind, Goto
<1>4. ASSUME NEW p \in PCs, NEW n \in Nat, Goto(t, pc[t], p), p # "writer",
             fetch_add(n), Share(pc[t]) = 0, Share(p) = n, Kind(t, p)
      PROVE  Moves(t, p)
  <2>1. Share(p) = Share(pc[t]) + n
    BY <1>4
  <2> QED
    BY <1>4, <2>1, NoWrap, Zenon DEF Moves, Goto
<1>5. ASSUME NEW p \in PCs, NEW n \in Nat, Goto(t, pc[t], p), p # "writer",
             fetch_sub(n), Share(p) = Share(pc[t]) - n, Kind(t, p)
      PROVE  Moves(t, p)
  BY <1>5, NoWrap, Zenon DEF Moves, Goto
<1>6. /\ UPGRADER \in Nat /\ WRITER \in Nat /\ WRITER - 1 \in Nat /\ UPGRADER - 1 \in Nat
      /\ WRITER - UPGRADER \in Nat /\ 1 \in Nat
  BY LayoutFacts
<1>7. CASE Call(t)
  <2>1. PICK p \in {"s_add", "x_cas", "u_add"} : Goto(t, "idle", p)
    BY <1>7 DEF Call
  <2>2. p \in PCs /\ Share(p) = Share(pc[t]) /\ ModeAt(p) = ModeAt(pc[t]) /\ Goto(t, pc[t], p)
    BY <2>1, Shares, ModesOfPoints DEF Goto, Waiting
  <2> QED
    BY <1>3, <1>7, <2>2 DEF Call
<1>8. CASE AddShared(t)
  <2>1. PICK p \in {"s_undo", "try_s_undo", "reader"} :
          /\ Goto(t, pc[t], p)
          /\ pc[t] \in {"s_add", "idle"}
          /\ p = "reader" => ~is_locked_exclusively
    BY <1>8 DEF AddShared, Goto
  <2>2. p \in PCs /\ Share(pc[t]) = 0 /\ Share(p) = 1 /\ Kind(t, p) /\ p # "writer"
    BY <2>1, Shares, ModesOfPoints DEF Kind, Waiting, SharedUndo
  <2> QED
    BY <1>4, <1>6, <1>8, <2>1, <2>2 DEF AddShared
<1>9. CASE UndoShared(t)
  <2>1. PICK p \in {"s_spin", "idle"} : Goto(t, pc[t], p) /\ pc[t] \in SharedUndo
    BY <1>9 DEF UndoShared, Goto, SharedUndo
  <2>2. p \in PCs /\ Share(pc[t]) = 1 /\ Share(p) = 0 /\ Kind(t, p) /\ p # "writer"
    BY <2>1, Shares, ModesOfPoints, Zenon DEF Kind, Waiting
  <2> QED
    BY <1>5, <1>6, <1>9, <2>1, <2>2 DEF UndoShared
<1>10. CASE SpinShared(t)
  <2>1. Goto(t, pc[t], "s_add") /\ "s_add" \in PCs /\ Share("s_add") = Share(pc[t])
        /\ ModeAt("s_add") = ModeAt(pc[t])
    BY <1>10, Shares, ModesOfPoints DEF SpinShared, Goto, Waiting
  <2> QED
    BY <1>3, <1>10, <2>1 DEF SpinShared
<1>11. CASE CasExclusive(t)
  <2>1. CASE value = 0
    <3>1. pc' = [pc EXCEPT ![t] = "writer"] /\ pc[t] \in {"x_cas", "idle"} /\ value' = WRITER
      BY <1>11, <2>1 DEF CasExclusive, Goto
    <3>2. "writer" \in PCs /\ Share(pc[t]) = 0 /\ Share("writer") = WRITER /\ Kind(t, "writer")
      BY <2>1, <3>1, Shares, ModesOfPoints DEF Kind, Waiting
    <3>3. value' = value + Share("writer") - Share(pc[t])
      BY <1>6, <2>1, <3>1, <3>2
    <3> QED
      BY <3>1, <3>2, <3>3, Zenon DEF Moves
  <2>2. CASE value # 0
    <3>1. Goto(t, pc[t], "x_spin") /\ "x_spin" \in PCs /\ Share("x_spin") = Share(pc[t])
          /\ ModeAt("x_spin") = ModeAt(pc[t]) /\ UNCHANGED value
      BY <1>11, <2>2, Shares, ModesOfPoints DEF CasExclusive, Goto, Waiting
    <3> QED
      BY <1>3, <3>1
  <2> QED
    BY <2>1, <2>2
<1>12. CASE SpinExclusive(t)
  <2>1. Goto(t, pc[t], "x_cas") /\ "x_cas" \in PCs /\ Share("x_cas") = Share(pc[t])
        /\ ModeAt("x_cas") = ModeAt(pc[t])
    BY <1>12, Shares, ModesOfPoints DEF SpinExclusive, Goto, Waiting
  <2> QED
    BY <1>3, <1>12, <2>1 DEF SpinExclusive
<1>13. CASE AddUpgradable(t)
  <2>1. PICK p \in {"u_undo", "try_u_undo", "upgradable"} :
          /\ Goto(t, pc[t], p)
          /\ pc[t] \in {"u_add", "idle"}
          /\ p = "upgradable" => ~is_locked_exclusively
    BY <1>13 DEF AddUpgradable, Goto
  <2>2. p \in PCs /\ Share(pc[t]) = 0 /\ Share(p) = UPGRADER /\ Kind(t, p) /\ p # "writer"
    BY <2>1, Shares, ModesOfPoints DEF Kind, Waiting, UpgradableUndo, UpgradableHeld
  <2> QED
    BY <1>4, <1>6, <1>13, <2>1, <2>2 DEF AddUpgradable
<1>14. CASE UndoUpgradable(t)
  <2>1. PICK p \in {"u_spin", "idle"} : Goto(t, pc[t], p) /\ pc[t] \in UpgradableUndo
    BY <1>14 DEF UndoUpgradable, Goto, UpgradableUndo
  <2>2. p \in PCs /\ Share(pc[t]) = UPGRADER /\ Share(p) = 0 /\ Kind(t, p) /\ p # "writer"
    BY <2>1, Shares, ModesOfPoints DEF Kind, Waiting
  <2> QED
    BY <1>5, <1>6, <1>14, <2>1, <2>2 DEF UndoUpgradable
<1>15. CASE SpinUpgradable(t)
  <2>1. Goto(t, pc[t], "u_add") /\ "u_add" \in PCs /\ Share("u_add") = Share(pc[t])
        /\ ModeAt("u_add") = ModeAt(pc[t])
    BY <1>15, Shares, ModesOfPoints DEF SpinUpgradable, Goto, Waiting
  <2> QED
    BY <1>3, <1>15, <2>1 DEF SpinUpgradable
<1>16. CASE CasUpgrade(t)
  <2>1. CASE value = UPGRADER
    <3>1. pc' = [pc EXCEPT ![t] = "writer"] /\ pc[t] \in UpgradableHeld /\ value' = WRITER
      BY <1>16, <2>1 DEF CasUpgrade, Goto, UpgradableHeld
    <3>2. "writer" \in PCs /\ Share(pc[t]) = UPGRADER /\ Share("writer") = WRITER /\ Kind(t, "writer")
      BY <2>1, <3>1, Shares, ModesOfPoints DEF Kind
    <3>3. value' = value + Share("writer") - Share(pc[t])
      BY <1>6, <2>1, <3>1, <3>2
    <3> QED
      BY <3>1, <3>2, <3>3, Zenon DEF Moves
  <2>2. CASE value # UPGRADER
    <3>1. Goto(t, pc[t], "up_spin") /\ "up_spin" \in PCs /\ Share("up_spin") = Share(pc[t])
          /\ ModeAt("up_spin") = ModeAt(pc[t]) /\ UNCHANGED value
      BY <1>16, <2>2, Shares, ModesOfPoints DEF CasUpgrade, Goto, UpgradableHeld
    <3> QED
      BY <1>3, <3>1
  <2> QED
    BY <2>1, <2>2
<1>17. CASE SpinUpgrade(t) \/ CallUpgrade(t)
  <2>1. Goto(t, pc[t], "up_cas") /\ "up_cas" \in PCs /\ Share("up_cas") = Share(pc[t])
        /\ ModeAt("up_cas") = ModeAt(pc[t]) /\ UNCHANGED value
    BY <1>17, Shares, ModesOfPoints DEF SpinUpgrade, CallUpgrade, Goto, UpgradableHeld
  <2> QED
    BY <1>3, <2>1
<1>18. CASE Unlock(t)
  <2>1. PICK n \in {1, WRITER, UPGRADER} :
          Goto(t, pc[t], "idle") /\ fetch_sub(n) /\ pc[t] \in {"reader", "writer", "upgradable"}
          /\ Share(pc[t]) = n
    BY <1>18, Shares DEF Unlock, unlock_shared, unlock_exclusive, unlock_upgradable, Goto, UpgradableHeld
  <2>2. "idle" \in PCs /\ Share("idle") = 0 /\ Kind(t, "idle") /\ n \in Nat /\ Share("idle") = Share(pc[t]) - n
    BY <2>1, <1>6, Shares, ModesOfPoints DEF Kind
  <2> QED
    BY <1>5, <2>1, <2>2
<1>19. CASE downgrade(t) \/ downgrade_upgradable(t)
  <2>1. PICK n \in {WRITER - 1, UPGRADER - 1} :
          Goto(t, pc[t], "reader") /\ fetch_sub(n) /\ pc[t] \in {"writer", "upgradable"}
          /\ Share(pc[t]) = n + 1
    BY <1>6, <1>19, Shares DEF downgrade, downgrade_upgradable, Goto, UpgradableHeld
  <2>2. "reader" \in PCs /\ Share("reader") = 1 /\ Kind(t, "reader") /\ n \in Nat
        /\ Share("reader") = Share(pc[t]) - n
    BY <2>1, <1>6, Shares, ModesOfPoints DEF Kind
  <2> QED
    BY <1>5, <2>1, <2>2
<1>20. CASE downgrade_to_upgradable(t)
  <2>1. Goto(t, pc[t], "upgradable") /\ fetch_sub(WRITER - UPGRADER) /\ pc[t] = "writer"
    BY <1>20 DEF downgrade_to_upgradable, Goto
  <2>2. "upgradable" \in PCs /\ Kind(t, "upgradable")
        /\ Share("upgradable") = Share(pc[t]) - (WRITER - UPGRADER)
    BY <2>1, <1>6, Shares, ModesOfPoints DEF Kind, UpgradableHeld
  <2> QED
    BY <1>5, <1>6, <2>1, <2>2
<1> QED
  BY <1>1, <1>7, <1>8, <1>9, <1>10, <1>11, <1>12, <1>13, <1>14, <1>15, <1>16, <1>17, <1>18, <1>19, <1>20
     DEF LockStep, ChangeMode

\* Every step is a step of the abstract lock, or one it does not see.
LEMMA StepSimulation ==
  ASSUME IInv, Next
  PROVE  Abstract!RNext \/ UNCHANGED AbstractMode
<1>1. PICK t \in Threads, p \in PCs : Moves(t, p)
  BY EveryStepMoves
<1>2. pc \in [Threads -> PCs] /\ pc[t] \in PCs
  BY DEF IInv
<1>3. AbstractMode' = [AbstractMode EXCEPT ![t] = ModeAt(p)]
  BY <1>1, <1>2, ModeMove, Zenon DEF Moves
<1>4. \A u \in Threads : AbstractMode[u] = ModeAt(pc[u]) /\ pc[u] \in PCs
  BY <1>2 DEF AbstractMode
<1>5. CASE ModeAt(p) = ModeAt(pc[t])
  BY <1>1, <1>2, <1>5, Unseen, Zenon DEF Moves
<1>6. CASE ~is_locked_exclusively /\ ModeAt(pc[t]) = "none" /\ p \in {"reader", "upgradable"}
  <2>1. \A u \in Threads : pc[u] # "writer" /\ pc[u] \notin UpgradableHeld
    BY <1>6, ReadsOfTheWord DEF Writers, UpgraderBits
  <2>2. \A u \in Threads : AbstractMode[u] # "write" /\ AbstractMode[u] # "upgradable"
    BY <2>1, <1>4, ModePoints
  <2>3. ModeAt(p) \in {"read", "upgradable"}
    BY <1>6, ModesOfPoints DEF UpgradableHeld
  <2>4. Abstract!AcquireRead(t) \/ Abstract!AcquireUpgradable(t)
    BY <1>3, <1>4, <1>6, <2>2, <2>3, Zenon
       DEF Abstract!AcquireRead, Abstract!AcquireUpgradable, Abstract!Move, Abstract!Free
  <2> QED
    BY <2>4 DEF Abstract!RNext
<1>7. CASE value = 0 /\ ModeAt(pc[t]) = "none" /\ p = "writer"
  <2>1. \A u \in Threads : pc[u] # "writer" /\ pc[u] \notin UpgradableHeld /\ pc[u] # "reader"
    BY <1>7, ReadsOfTheWord DEF Writers, UpgraderBits, ReaderBits
  <2>2. \A u \in Threads : AbstractMode[u] = "none"
    BY <2>1, <1>4, ModePoints
  <2>3. Abstract!AcquireWrite(t)
    BY <1>3, <1>7, <2>2, ModesOfPoints, Zenon
       DEF Abstract!AcquireWrite, Abstract!Move, Abstract!OthersHoldNothing
  <2> QED
    BY <2>3 DEF Abstract!RNext
<1>8. CASE value = UPGRADER /\ pc[t] \in UpgradableHeld /\ p = "writer"
  <2>1. t \in UpgraderBits
    BY <1>8 DEF UpgraderBits
  <2>2. Writers = {} /\ UpgraderBits = {t} /\ ReaderBits = {}
    BY <1>8, <2>1, ReadsOfTheWord
  <2>3. \A u \in Threads \ {t} :
          pc[u] # "writer" /\ pc[u] \notin UpgradableHeld /\ pc[u] # "reader"
    BY <2>2 DEF Writers, UpgraderBits, ReaderBits
  <2>4. \A u \in Threads \ {t} : AbstractMode[u] = "none"
    BY <2>3, <1>4, ModePoints
  <2>5. Abstract!Upgrade(t)
    BY <1>3, <1>4, <1>8, <2>4, ModesOfPoints, Zenon
       DEF Abstract!Upgrade, Abstract!Move, Abstract!OthersHoldNothing
  <2> QED
    BY <2>5 DEF Abstract!RNext
<1>9. CASE pc[t] \in {"reader", "writer", "upgradable"} /\ p = "idle"
  <2>1. AbstractMode[t] \in {"read", "write", "upgradable"} /\ ModeAt(p) = "none"
    BY <1>4, <1>9, ModesOfPoints DEF UpgradableHeld
  <2>2. Abstract!Release(t)
    BY <1>3, <2>1 DEF Abstract!Release, Abstract!Move, Abstract!Modes
  <2> QED
    BY <2>2 DEF Abstract!RNext
<1>10. CASE \/ pc[t] = "writer" /\ p \in {"reader", "upgradable"}
            \/ pc[t] = "upgradable" /\ p = "reader"
  <2>1. \/ AbstractMode[t] = "write" /\ ModeAt(p) \in {"read", "upgradable"}
        \/ AbstractMode[t] = "upgradable" /\ ModeAt(p) = "read"
    BY <1>4, <1>10, ModesOfPoints DEF UpgradableHeld
  <2>2. Abstract!Downgrade(t)
    BY <1>3, <2>1, Zenon DEF Abstract!Downgrade, Abstract!Move
  <2> QED
    BY <2>2 DEF Abstract!RNext
<1> QED
  BY <1>1, <1>5, <1>6, <1>7, <1>8, <1>9, <1>10 DEF Moves, Kind

----------------------------------------------------------------------------
(* The inductive invariant *)

\* A step of the abstract lock keeps the holders exclusive.
LEMMA AbstractStepExclusive ==
  ASSUME Exclusive(AbstractMode), Abstract!RNext \/ UNCHANGED AbstractMode,
         AbstractMode \in [Threads -> Abstract!Modes]
  PROVE  Exclusive(AbstractMode')
<1>1. CASE UNCHANGED AbstractMode
  BY <1>1
<1>2. CASE Abstract!RNext
  <2> DEFINE m == AbstractMode  n == AbstractMode'
  <2>1. PICK t \in Threads :
          \/ Abstract!AcquireRead(t) \/ Abstract!AcquireWrite(t) \/ Abstract!AcquireUpgradable(t)
          \/ Abstract!Upgrade(t) \/ Abstract!Release(t) \/ Abstract!Downgrade(t)
    BY <1>2 DEF Abstract!RNext
  <2>2. PICK to : n = [m EXCEPT ![t] = to] /\ to \in Abstract!Modes
    BY <2>1 DEF Abstract!AcquireRead, Abstract!AcquireWrite, Abstract!AcquireUpgradable,
                Abstract!Upgrade, Abstract!Release, Abstract!Downgrade, Abstract!Move, Abstract!Modes
  <2>3. n[t] = to /\ \A u \in Threads \ {t} : n[u] = m[u]
    BY <2>2
  <2>4. /\ to = "write" => \A u \in Threads \ {t} : m[u] = "none"
        /\ to = "upgradable" => \A u \in Threads \ {t} : m[u] # "upgradable"
        /\ to # "none" => \A u \in Threads \ {t} : m[u] # "write"
    BY <2>1, <2>3
       DEF Exclusive, Abstract!AcquireRead, Abstract!AcquireWrite, Abstract!AcquireUpgradable,
           Abstract!Upgrade, Abstract!Release, Abstract!Downgrade, Abstract!Move, Abstract!Free,
           Abstract!OthersHoldNothing, Abstract!Modes
  <2> QED
    BY <2>3, <2>4 DEF Exclusive
<1> QED
  BY <1>1, <1>2

LEMMA InitInvariant == Init => IInv
<1> SUFFICES ASSUME Init PROVE IInv
  OBVIOUS
<1>1. pc \in [Threads -> PCs] /\ value \in Nat
  BY DEF Init, PCs
<1>2. Writers = {} /\ UpgraderBits = {} /\ ReaderBits = {} /\ Upgradables = {} /\ Readers = {}
  BY DEF Init, Writers, UpgraderBits, ReaderBits, Upgradables, Readers, HoldersOf,
         UpgradableHeld, UpgradableUndo, SharedUndo
<1>3. WordCounts
  BY <1>2, FS_EmptySet, LayoutFacts, Product DEF Init, WordCounts
<1> QED
  BY <1>1, <1>2, <1>3 DEF IInv, MutualExclusion

LEMMA StepInvariant == IInv /\ [Next]_vars => IInv'
<1>1. ASSUME IInv, UNCHANGED vars PROVE IInv'
  BY <1>1 DEF IInv, vars, WordCounts, MutualExclusion, Writers, Upgradables, Readers, HoldersOf,
              UpgraderBits, ReaderBits
<1>2. ASSUME IInv, Next PROVE IInv'
  <2>1. PICK t \in Threads, p \in PCs : Moves(t, p)
    BY <1>2, EveryStepMoves
  <2>2. pc' \in [Threads -> PCs]
    BY <1>2, <2>1 DEF Moves, IInv
  <2>3. value' = Word(Cardinality(Writers)', Cardinality(UpgraderBits)', Cardinality(ReaderBits)')
        /\ value >= Share(pc[t])
    BY <1>2, <2>1, Moved, Zenon DEF Moves
  <2>4. WordCounts'
    BY <2>3 DEF WordCounts, Word
  <2>5. value' \in Nat
    <3>1. value \in Nat /\ Share(p) \in Nat /\ Share(pc[t]) \in Nat
      BY <1>2, Shares DEF IInv
    <3> QED
      BY <2>1, <2>3, <3>1 DEF Moves
  <2>6. MutualExclusion'
    <3>1. AbstractMode \in [Threads -> Abstract!Modes]
      BY <1>2, ModePoints DEF IInv, AbstractMode, Abstract!Modes
    <3>2. Exclusive(AbstractMode)
      BY <1>2, ExclusiveModes DEF IInv
    <3>3. Exclusive(AbstractMode')
      BY <1>2, <3>1, <3>2, StepSimulation, AbstractStepExclusive
    <3>4. (pc \in [Threads -> PCs])' => (MutualExclusion' <=> Exclusive(AbstractMode)')
      BY ExclusiveModes, PTL
    <3> QED
      BY <2>2, <3>3, <3>4 DEF Exclusive
  <2> QED
    BY <2>2, <2>4, <2>5, <2>6 DEF IInv
<1> QED
  BY <1>1, <1>2

LEMMA Invariant == Spec => []IInv
BY InitInvariant, StepInvariant, PTL DEF Spec

----------------------------------------------------------------------------
(* Theorems *)

\* For any number of threads that fits the layout, a writer is alone and there
\* is at most one upgradable holder, whatever the threads that add to the word
\* and take it back are doing meanwhile.
THEOREM MutualExclusionHolds == Spec => []MutualExclusion
<1>1. IInv => MutualExclusion
  BY DEF IInv
<1> QED
  BY <1>1, Invariant, PTL

\* The word always is the sum of the holders' and the undoing threads' shares.
THEOREM WordCountsHolds == Spec => []WordCounts
<1>1. IInv => WordCounts
  BY DEF IInv
<1> QED
  BY <1>1, Invariant, PTL

\* The threads stay at the program points of the code and no fetch_add or
\* fetch_sub ever wraps the word around.
THEOREM TypeCorrect == Spec => []TypeOK
<1>1. IInv => TypeOK
  <2> SUFFICES ASSUME IInv PROVE TypeOK
    OBVIOUS
  <2>1. value \in Nat /\ value <= Bound
    BY Counted, WordBound
  <2> QED
    BY <2>1, LayoutFacts DEF IInv, TypeOK, Bound, N
<1> QED
  BY <1>1, Invariant, PTL

\* The lock word implements the abstract reader-writer lock.
THEOREM LockRefinement == Spec => ImplementsRwLock
<1>1. Init => Abstract!RInit
  BY ModesOfPoints DEF Init, Abstract!RInit, AbstractMode
<1>2. IInv /\ [Next]_vars => [Abstract!RNext]_AbstractMode
  <2>1. ASSUME IInv, UNCHANGED vars PROVE UNCHANGED AbstractMode
    BY <2>1 DEF vars, AbstractMode
  <2> QED
    BY <2>1, StepSimulation
<1> QED
  BY <1>1, <1>2, Invariant, PTL DEF Spec, ImplementsRwLock, Abstract!RSpec
=============================================================================
