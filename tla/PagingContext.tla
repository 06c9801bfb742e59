--------------------------- MODULE PagingContext ----------------------------
(***************************************************************************)
(* Activation of paging contexts and writes to page tables that may be     *)
(* active (memory/paging/api.rs), with the processor's own part in it: the *)
(* table each CPU walks and its TLB.                                       *)
(*                                                                         *)
(* A writer takes the table's lock, reads active_count, and invalidates    *)
(* what it writes only if the count was not zero.  activate() adds to the  *)
(* count before it takes the lock.  The lock is an HMutex: its guard keeps *)
(* interruptions disabled, so no other thread of the CPU runs meanwhile,   *)
(* but a thread that waits for the lock may be switched away from.         *)
(*                                                                         *)
(* The Global table stands for the global tables, which are part of every  *)
(* context and counted as active once and for all.  A page here is an      *)
(* allocation; a write maps it to a frame or makes it absent.              *)
(***************************************************************************)
EXTENDS Integers, FiniteSets

CONSTANTS CPUs,
          Threads,
          On,         \* On[t]: the CPU thread t runs on
          Contexts,   \* the paging contexts
          Global,     \* the global tables
          Pages,      \* pages of the contexts' own part
          GPages,     \* pages of the global part
          Frames,
          Absent,     \* no frame (and in the TLB: no entry)
          None

ASSUME PagingAssumption ==
  /\ IsFiniteSet(CPUs) /\ IsFiniteSet(Threads)
  /\ On \in [Threads -> CPUs]
  /\ Global \notin Contexts /\ None \notin Contexts \cup Threads
  /\ Pages \cap GPages = {}
  /\ Absent \notin Frames

VARIABLES active_count,  \* active_count[x]
          lock,          \* lock[x]: the thread that holds the lock of table x, or None
          table,         \* table[x][p]: what the page tables of x say of its pages
          cr3,           \* cr3[c]: the context CPU c walks, None before the first
          current,       \* _ACTIVE_PAGE_TABLE of each CPU
          tlb,           \* tlb[c][p]: what CPU c has cached
          op,            \* op[t]: what thread t is doing
          missed         \* pairs of a CPU and a page it had cached when another CPU wrote it

vars == <<active_count, lock, table, cr3, current, tlb, op, missed>>

Tables == Contexts \cup {Global}
AllPages == Pages \cup GPages
PagesOf(x) == IF x = Global THEN GPages ELSE Pages

Idle == [pc |-> "idle", tab |-> None, page |-> None, flush |-> FALSE, old |-> None]

(* Program points: of activate, and of a write.                            *)
Activating == {"counted", "locked", "switched", "ended"}
Writing == {"load", "write", "flush", "written"}
Inside == {"locked", "switched", "ended"} \cup Writing   \* the lock is held

(* No thread of the CPU runs beside one that holds a guard.                *)
Runs(t) == \A u \in Threads \ {t} : On[u] = On[t] => op[u].pc \notin Inside

Step(t, from, to) == /\ op[t].pc = from
                     /\ Runs(t)
                     /\ op' = [op EXCEPT ![t].pc = to]

(* The table a CPU walks for a page, and what it finds.                    *)
Walked(c, p) == IF p \in GPages THEN Global ELSE cr3[c]
Walk(c, p) == IF Walked(c, p) = None THEN Absent ELSE table[Walked(c, p)][p]

-----------------------------------------------------------------------------
Init ==
  /\ active_count = [x \in Tables |-> IF x = Global THEN 1 ELSE 0]
  /\ lock = [x \in Tables |-> None]
  /\ table = [x \in Tables |-> [p \in AllPages |-> Absent]]
  /\ cr3 = [c \in CPUs |-> None]
  /\ current = [c \in CPUs |-> None]
  /\ tlb = [c \in CPUs |-> [p \in AllPages |-> Absent]]
  /\ op = [t \in Threads |-> Idle]
  /\ missed = {}

(* Faulty variants: an activation that does not wait for the writer; one   *)
(* that counts itself out instead of its predecessor; a page that is made  *)
(* absent and not invalidated.                                             *)
ActivateWithoutLock(t) ==
  /\ Step(t, "counted", "locked")
  /\ UNCHANGED <<active_count, lock, table, cr3, current, tlb, missed>>
CountOutTheNew(t) ==
  /\ Step(t, "switched", "ended")
  /\ active_count' = IF op[t].old = None THEN active_count
                     ELSE [active_count EXCEPT ![op[t].tab] = @ - 1]
  /\ UNCHANGED <<lock, table, cr3, current, tlb, missed>>
FlushPresentOnly(t, f) ==
  LET x == op[t].tab
      p == op[t].page
  IN  /\ Step(t, "write", IF op[t].flush /\ f # Absent THEN "flush" ELSE "written")
      /\ table' = [table EXCEPT ![x][p] = f]
      /\ missed' = missed \cup
           {<<c, p>> : c \in {d \in CPUs \ {On[t]} : Walked(d, p) = x /\ tlb[d][p] # Absent}}
      /\ UNCHANGED <<active_count, lock, cr3, current, tlb>>

(* activate: _begin_active counts first and then waits for the lock.       *)
_begin_active(t, x) ==
  /\ op[t].pc = "idle" /\ Runs(t)
  /\ op' = [op EXCEPT ![t] = [Idle EXCEPT !.pc = "counted", !.tab = x]]
  /\ active_count' = [active_count EXCEPT ![x] = @ + 1]
  /\ UNCHANGED <<lock, table, cr3, current, tlb, missed>>

LockActivated(t) ==
  /\ Step(t, "counted", "locked")
  /\ lock[op[t].tab] = None
  /\ lock' = [lock EXCEPT ![op[t].tab] = t]
  /\ UNCHANGED <<active_count, table, cr3, current, tlb, missed>>

(* With interruptions disabled: set_active_page_table, which drops the     *)
(* entries of the TLB that are not global, and the exchange of             *)
(* _ACTIVE_PAGE_TABLE.                                                     *)
SwitchTable(t) ==
  LET c == On[t]
  IN  /\ op[t].pc = "locked" /\ Runs(t)
      /\ op' = [op EXCEPT ![t] = [@ EXCEPT !.pc = "switched", !.old = current[c]]]
      /\ cr3' = [cr3 EXCEPT ![c] = op[t].tab]
      /\ current' = [current EXCEPT ![c] = op[t].tab]
      /\ tlb' = [tlb EXCEPT ![c] = [p \in AllPages |-> IF p \in Pages THEN Absent ELSE @[p]]]
      /\ missed' = missed \ ({c} \X Pages)
      /\ UNCHANGED <<active_count, lock, table>>

_end_active(t) ==
  LET old == op[t].old
  IN  /\ Step(t, "switched", "ended")
      /\ active_count' = IF old = None THEN active_count
                         ELSE [active_count EXCEPT ![old] = @ - 1]
      /\ UNCHANGED <<lock, table, cr3, current, tlb, missed>>

(* The end of activate, and of a write: the guard is dropped.              *)
Release(t) ==
  /\ op[t].pc \in {"ended", "written"} /\ Runs(t)
  /\ op' = [op EXCEPT ![t] = Idle]
  /\ lock' = [lock EXCEPT ![op[t].tab] = None]
  /\ UNCHANGED <<active_count, table, cr3, current, tlb, missed>>

(* write_when_active: the lock, and then the count.                        *)
write_when_active(t, x, p) ==
  /\ op[t].pc = "idle" /\ Runs(t)
  /\ lock[x] = None
  /\ lock' = [lock EXCEPT ![x] = t]
  /\ op' = [op EXCEPT ![t] = [Idle EXCEPT !.pc = "load", !.tab = x, !.page = p]]
  /\ UNCHANGED <<active_count, table, cr3, current, tlb, missed>>

LoadCount(t) ==
  /\ op[t].pc = "load" /\ Runs(t)
  /\ op' = [op EXCEPT ![t] = [@ EXCEPT !.pc = "write", !.flush = active_count[op[t].tab] > 0]]
  /\ UNCHANGED <<active_count, lock, table, cr3, current, tlb, missed>>

(* set_base_addr, set_absent and dealloc: the entry is written, ...        *)
Write(t, f) ==
  LET x == op[t].tab
      p == op[t].page
  IN  /\ Step(t, "write", IF op[t].flush THEN "flush" ELSE "written")
      /\ table' = [table EXCEPT ![x][p] = f]
      /\ missed' = missed \cup
           {<<c, p>> : c \in {d \in CPUs \ {On[t]} : Walked(d, p) = x /\ tlb[d][p] # Absent}}
      /\ UNCHANGED <<active_count, lock, cr3, current, tlb>>

(* ... and then invalidated, on this CPU only.                             *)
invalidate_tlb(t) ==
  LET c == On[t]
      p == op[t].page
  IN  /\ Step(t, "flush", "written")
      /\ tlb' = [tlb EXCEPT ![c][p] = Absent]
      /\ missed' = missed \ {<<c, p>>}
      /\ UNCHANGED <<active_count, lock, table, cr3, current>>

(* The processor caches a translation it walks, whenever it likes.         *)
Fill(c, p) ==
  /\ tlb[c][p] = Absent
  /\ Walk(c, p) # Absent
  /\ tlb' = [tlb EXCEPT ![c][p] = Walk(c, p)]
  /\ UNCHANGED <<active_count, lock, table, cr3, current, op, missed>>

Activate(t) ==
  \/ \E x \in Contexts : _begin_active(t, x)
  \/ LockActivated(t) \/ SwitchTable(t) \/ _end_active(t)

WriteTable(t) ==
  \/ \E x \in Tables : \E p \in PagesOf(x) : write_when_active(t, x, p)
  \/ LoadCount(t) \/ invalidate_tlb(t)
  \/ \E f \in Frames \cup {Absent} : Write(t, f)

Next ==
  \/ \E t \in Threads : Activate(t) \/ WriteTable(t) \/ Release(t)
  \/ \E c \in CPUs, p \in AllPages : Fill(c, p)

Spec == Init /\ [][Next]_vars
-----------------------------------------------------------------------------
TypeOK ==
  /\ active_count \in [Tables -> Nat]
  /\ lock \in [Tables -> Threads \cup {None}]
  /\ table \in [Tables -> [AllPages -> Frames \cup {Absent}]]
  /\ cr3 \in [CPUs -> Contexts \cup {None}]
  /\ current \in [CPUs -> Contexts \cup {None}]
  /\ tlb \in [CPUs -> [AllPages -> Frames \cup {Absent}]]
  /\ op \in [Threads -> [pc : {"idle"} \cup Activating \cup Writing,
                         tab : Tables \cup {None}, page : AllPages \cup {None},
                         flush : BOOLEAN, old : Contexts \cup {None}]]
  /\ missed \subseteq CPUs \X AllPages

(* Who an active_count counts: the CPUs whose _ACTIVE_PAGE_TABLE it is and *)
(* the calls of activate that have counted it in or not yet counted it out. *)
Users(x) == {c \in CPUs : current[c] = x}
Arriving(x) == {t \in Threads : op[t].pc \in {"counted", "locked"} /\ op[t].tab = x}
Leaving(x) == {t \in Threads : op[t].pc = "switched" /\ op[t].old = x}

(* active_count is exact, whatever activations of whatever threads are     *)
(* under way, a context activated again on its own CPU included: it        *)
(* neither underflows nor keeps a context counted that is no longer used.  *)
CountExact ==
  \A x \in Contexts :
    active_count[x] = Cardinality(Users(x)) + Cardinality(Arriving(x)) + Cardinality(Leaving(x))

(* What _begin_active and write_when_active promise each other: while a    *)
(* writer that will not invalidate holds its guard, no CPU walks the table *)
(* it writes, and it is never a global one.                                *)
UnawareWriterAlone ==
  \A t \in Threads :
    op[t].pc \in {"write", "written"} /\ ~op[t].flush
      => /\ op[t].tab # Global
         /\ \A c \in CPUs : cr3[c] # op[t].tab

(* A CPU that is not between a write and its invalidation has no stale     *)
(* translation, except those it had cached when another CPU wrote the      *)
(* table: not from its own writes, not from a switch of contexts, not for  *)
(* global pages, which survive the switch.                                 *)
NoStaleTranslation ==
  \A c \in CPUs, p \in AllPages :
    \/ tlb[c][p] \in {Absent, Walk(c, p)}
    \/ <<c, p>> \in missed
    \/ \E t \in Threads : On[t] = c /\ op[t].pc = "flush" /\ op[t].page = p
=============================================================================
