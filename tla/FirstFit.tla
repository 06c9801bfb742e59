------------------------------ MODULE FirstFit ------------------------------
(***************************************************************************)
(* The multi-level first-fit allocator of virtual addresses (MLFFAllocator *)
(* of memory/paging/allocators/firstfit.rs) together with the operations   *)
(* of the write guard that use it (memory/paging/api.rs): allocate,        *)
(* allocate_at, set_base_addr, set_absent, split and drop.                 *)
(*                                                                         *)
(* A table of level k has NPages[k] entries.  An entry of a table of level *)
(* 1 is one page, the unit of addresses here; an entry of a higher level   *)
(* is a sub-table or, where Huge[k], a huge page.  Every operation runs    *)
(* under the write lock of its table, so each one is a single action.      *)
(* Flags are left out.  The operators recurse over the levels.             *)
(***************************************************************************)
EXTENDS Integers, Sequences, FiniteSets, TLC, Functions, SequencesExt

CONSTANTS NPages,      \* entries of a table, by level (NPAGES)
          Huge,        \* HUGEPAGES, by level; SUBTABLES is "the level is above 1"
          GlobalIdx,   \* entries of the top table given to global tables
          Strategies,  \* the strategies callers pass to allocate
          Sizes,       \* the sizes callers ask for, none larger than the table
          MAX_ALLOCS   \* bound: allocations alive at once

Top == Len(NPages)

PAGE_SIZE[k \in 1..Top] == IF k = 1 THEN 1 ELSE PAGE_SIZE[k-1] * NPages[k-1]

ASSUME LevelsAssumption ==
  /\ Top > 1
  /\ DOMAIN Huge = 1..Top /\ Huge[1]
  /\ \A k \in 1..Top : NPages[k] \in Nat \ {0}
  /\ GlobalIdx \subseteq 0..(NPages[Top] - 1)
  /\ \A size \in Sizes : size <= NPages[Top] * PAGE_SIZE[Top]

VARIABLES tables,   \* the top table, with its sub-tables inside it
          allocs,   \* the PageAllocations alive
          panicked

vars == <<tables, allocs, panicked>>

Idx(k) == 0..(NPages[k] - 1)

(* Entries of a page table.  A reserved page is an absent one with data of *)
(* its own.                                                                *)
Unused == <<"unused">>
SubTable == <<"table">>
Global == <<"global">>
Absent(d) == <<"absent", d>>
Present(f) == <<"page", f>>
Reserved == Absent("reserved")

(* MLFFAllocator::new. `sub' holds the sub-allocators that exist.          *)
NewTable(k) == [entry |-> [i \in Idx(k) |-> Unused],
                sub   |-> <<>>,
                av    |-> [i \in Idx(k) |-> 0]]

get_num_pages_used(T) == Cardinality({i \in DOMAIN T.entry : T.entry[i] # Unused})
is_full(T) == \A i \in DOMAIN T.av : T.av[i] = 3

(* 0 empty, 1 a table, 2 a table more than half full, 3 full or a page.    *)
refresh_availability(k, T, i) ==
  LET n == get_num_pages_used(T.sub[i])
      Of == IF i \in DOMAIN T.sub
            THEN IF n >= NPages[k-1] /\ is_full(T.sub[i]) THEN 3
                 ELSE IF n > NPages[k-1] \div 2 THEN 2 ELSE 1
            ELSE IF T.entry[i] = Unused THEN 0 ELSE 3
  IN  [T EXCEPT !.av[i] = Of]

get_subtable_always(k, T, i) ==
  IF i \in DOMAIN T.sub THEN T
  ELSE [T EXCEPT !.sub = (i :> NewTable(k-1)) @@ @, !.entry[i] = SubTable]

(* PAllocItem and PartialPageAllocation: a sequence of items.              *)
Page(i, off) == [page |-> TRUE, index |-> i, offset |-> off, alloc |-> <<>>]
Inner(i, off, a) == [page |-> FALSE, index |-> i, offset |-> off, alloc |-> a]

(* What a call leaves and returns: the table, how it ended ("some", "none" *)
(* or "panic") and the allocation.                                         *)
Some(T, a) == [table |-> T, is |-> "some", alloc |-> a]
None(T) == [table |-> T, is |-> "none", alloc |-> <<>>]
Panic(T) == [table |-> T, is |-> "panic", alloc |-> <<>>]

Default == [reverse |-> FALSE, min_page |-> 0, max_page |-> 511, spread |-> FALSE]
pas_next_level_down(strat) == IF Len(strat) > 1 THEN Tail(strat) ELSE strat

(* What follows a call that succeeded; what is tried after a call that did *)
(* not; a None that is a panic.                                            *)
Then(r, F(_)) == IF r.is = "some" THEN F(r) ELSE r
OrElse(r, F(_)) == IF r.is = "none" THEN F(r.table) ELSE r
OrPanic(r) == IF r.is = "none" THEN [r EXCEPT !.is = "panic"] ELSE r

RECURSIVE allocate(_, _, _, _), allocate_at(_, _, _, _), deallocate(_, _, _)

(* A faulty variant: a sub-allocation after which the availability is not  *)
(* brought up to date.                                                     *)
WithoutRefresh(k, T, i, r) == [r EXCEPT !.table = [T EXCEPT !.sub[i] = r.table]]

(* Result r of a call on sub-table i, put back in place.                   *)
Within(k, T, i, r) ==
  LET U == [T EXCEPT !.sub[i] = r.table]
  IN  IF r.is = "some" THEN Some(refresh_availability(k, U, i), r.alloc)
      ELSE [r EXCEPT !.table = U]

(* Faulty variants: a remainder put where there may be a page; a split     *)
(* whose pages all map the first one.                                      *)
RemainderAnywhere(k, T, i, inner, size) ==
  LET U == get_subtable_always(k, T, i)
  IN  IF i \in Idx(k) THEN Within(k, U, i, allocate_at(k-1, U.sub[i], inner, size))
      ELSE None(T)
SplitToSameFrame(k, T, i) ==
  LET Put(new) ==
        LET sub == [new.table EXCEPT !.entry = [j \in Idx(k-1) |-> T.entry[i]]]
        IN  Some(refresh_availability(k,
                   [T EXCEPT !.sub = (i :> sub) @@ @, !.entry[i] = SubTable], i), new.alloc)
  IN  IF k = 1 \/ ~Huge[k] \/ T.av[i] # 3 \/ i \in DOMAIN T.sub
      THEN None(T)
      ELSE Put(allocate(k-1, NewTable(k-1), PAGE_SIZE[k], <<Default>>))

_alloc_rem(k, T, i, inner, size) ==
  LET required == IF size >= PAGE_SIZE[k] \div 2 THEN 1 ELSE 2
      U == get_subtable_always(k, T, i)
  IN  IF i \in Idx(k) /\ T.av[i] <= required
      THEN Within(k, U, i, allocate_at(k-1, U.sub[i], inner, size))
      ELSE None(T)

_alloc_inside(k, T, i, size, strat) ==
  LET U == get_subtable_always(k, T, i)
  IN  IF i \in Idx(k) /\ T.av[i] < 3
      THEN Within(k, U, i, allocate(k-1, U.sub[i], size, pas_next_level_down(strat)))
      ELSE None(T)

(* Entries [start, end), each of which has to be empty.                    *)
_alloc_contiguous(k, T, start, end) ==
  LET Take(r, i) ==
        LET off == (i - start) * PAGE_SIZE[k]
            U == get_subtable_always(k, r.table, i)
        IN  IF r.is = "panic" \/ r.table.av[i] # 0 THEN [r EXCEPT !.is = "panic"]
            ELSE IF Huge[k]
            THEN Some(refresh_availability(k, [r.table EXCEPT !.entry[i] = Reserved], i),
                      Append(r.alloc, Page(i, off)))
            ELSE Then(OrPanic(Within(k, U, i,
                                allocate(k-1, U.sub[i], PAGE_SIZE[k], <<Default>>))),
                      LAMBDA s : Some(s.table, Append(r.alloc, Inner(i, off, s.alloc))))
  IN  FoldLeft(Take, Some(T, <<>>), [n \in 1..(end - start) |-> start + n - 1])

Shift(items, by) == [n \in DOMAIN items |-> [items[n] EXCEPT !.offset = @ + by]]

(* The sizes a call divides into: whole entries and a remainder.           *)
Pages(k, size) == size \div PAGE_SIZE[k]
Remainder(k, size) == size % PAGE_SIZE[k]

(* A remainder of the range, if there is one, as a list of items.          *)
Part(k, T, i, inner, size, off) ==
  IF size = 0 THEN Some(T, <<>>)
  ELSE Then(_alloc_rem(k, T, i, inner, size),
            LAMBDA r : Some(r.table, <<Inner(i, off, r.alloc)>>))

(* One turn of the loop over the offsets that `allocate' tries.            *)
Try(k, T, i, pages, rem, strat) ==
  LET end == i + pages
  IN  IF k > 1 /\ pages < 1
      THEN IF Head(strat).spread /\ T.av[i] # 0 THEN None(T)
           ELSE Then(_alloc_inside(k, T, i, rem, strat),
                     LAMBDA r : Some(r.table, <<Inner(i, 0, r.alloc)>>))
      ELSE IF \E j \in i..(end - 1) : T.av[j] # 0 THEN None(T)
           ELSE Then(Part(k, T, end, 0, rem, pages * PAGE_SIZE[k]), LAMBDA tail :
                Then(_alloc_contiguous(k, tail.table, i, end), LAMBDA mid :
                  Some(mid.table, mid.alloc \o tail.alloc)))

(* Each try finds the table as the attempts that failed leave it.  In      *)
(* spread mode there are two passes, but both test `strategy.spread_mode'. *)
(* A request for more entries than there are, or than the strategy allows, *)
(* is not refused: the subtraction underflows, which panics in the default *)
(* build of the kernel.                                                    *)
allocate(k, T, size, strat) ==
  LET s == Head(strat)
      n == Pages(k, size) + (IF Remainder(k, size) > 0 THEN 1 ELSE 0)
      last == IF s.max_page < NPages[k] THEN s.max_page + 1 - n ELSE NPages[k] - n
      up == [m \in 1..(last + 1 - s.min_page) |-> s.min_page + m - 1]
      once == IF s.reverse THEN Reverse(up) ELSE up
      Turn(r, i) ==
        OrElse(r, LAMBDA U : Try(k, U, i, Pages(k, size), Remainder(k, size), strat))
  IN  IF n > NPages[k] \/ n > s.max_page + 1 THEN Panic(T)
      ELSE FoldLeft(Turn, None(T), IF s.spread THEN once \o once ELSE once)

(* The end remainder first, then the start remainder, then the middle. If  *)
(* the start fails the end is given back to its sub-table, and neither the *)
(* availability nor an empty sub-table is seen to.                         *)
allocate_at(k, T, addr, size) ==
  LET at == addr % PAGE_SIZE[k]
      room == PAGE_SIZE[k] - at
      first == IF at = 0 THEN 0 ELSE IF room < size THEN room ELSE size
      start == addr \div PAGE_SIZE[k] + (IF at = 0 THEN 0 ELSE 1)
      pages == Pages(k, size - first)
      rem == Remainder(k, size - first)
      end == start + pages
      GiveBack(U, item) ==
        [U EXCEPT !.sub[item.index] = deallocate(k-1, @, item.alloc)]
  IN  IF \E i \in start..(end - 1) : T.av[i] # 0 THEN None(T)
      ELSE Then(Part(k, T, end, 0, rem, first + pages * PAGE_SIZE[k]), LAMBDA tail :
           Then(OrElse(Part(k, tail.table, start - 1, at, first, 0),
                       LAMBDA U : None(FoldLeft(GiveBack, U, tail.alloc))), LAMBDA head :
           Then(_alloc_contiguous(k, head.table, start, end), LAMBDA mid :
             Some(mid.table, head.alloc \o Shift(mid.alloc, first) \o tail.alloc))))

deallocate(k, T, alloc) ==
  LET Free(U, item) ==
        LET i == item.index
            D == deallocate(k-1, U.sub[i], item.alloc)
            gone == [U EXCEPT !.entry[i] = Unused, !.sub = Restrict(@, DOMAIN @ \ {i})]
        IN  refresh_availability(k,
              IF item.page THEN [U EXCEPT !.entry[i] = Unused]
              ELSE IF get_num_pages_used(D) = 0 THEN gone
              ELSE [U EXCEPT !.sub[i] = D], i)
  IN  FoldLeft(Free, T, alloc)

-----------------------------------------------------------------------------
(* split_page: the huge page becomes a sub-table whose pages map the same. *)
At(e, off) == IF e[1] = "page" THEN Present(e[2] + off) ELSE e

split_page(k, T, i) ==
  LET Put(new) ==
        LET sub == [new.table EXCEPT !.entry =
                      [j \in Idx(k-1) |-> At(T.entry[i], j * PAGE_SIZE[k-1])]]
        IN  Some(refresh_availability(k,
                   [T EXCEPT !.sub = (i :> sub) @@ @, !.entry[i] = SubTable], i), new.alloc)
  IN  IF k = 1 \/ ~Huge[k] \/ T.av[i] # 3 \/ i \in DOMAIN T.sub
      THEN None(T)
      ELSE Put(allocate(k-1, NewTable(k-1), PAGE_SIZE[k], <<Default>>))

RECURSIVE _split_alloc_inner(_, _, _, _), SetEntries(_, _, _, _, _)

(* The items before the midpoint and those after it, and the one, if any,  *)
(* that has the midpoint inside: it is split in its sub-table, which is    *)
(* made first if the item is a huge page.  A page that cannot be split is  *)
(* a panic.                                                                *)
_split_alloc_inner(k, T, alloc, mid) ==
  LET lo == SelectSeq(alloc, LAMBDA item : item.offset < mid)
      hi == SelectSeq(alloc, LAMBDA item : item.offset >= mid)
      Rebased(s) == IF s = <<>> THEN s ELSE Shift(s, -s[1].offset)
      p == Last(lo)
      i == p.index
      Into(made) ==
        LET in == _split_alloc_inner(k-1, made.table.sub[i], made.alloc, mid - p.offset)
        IN  IF made.is = "none"
            THEN [table |-> T, is |-> "panic", lhs |-> <<>>, rhs |-> <<>>]
            ELSE [table |-> [made.table EXCEPT !.sub[i] = in.table], is |-> in.is,
                  lhs |-> Append(Front(lo), Inner(i, p.offset, in.lhs)),
                  rhs |-> Rebased(<<Inner(i, mid, in.rhs)>> \o hi)]
  IN  IF lo = <<>> \/ (hi # <<>> /\ hi[1].offset = mid)
      THEN [table |-> T, is |-> "some", lhs |-> lo, rhs |-> Rebased(hi)]
      ELSE Into(IF p.page THEN split_page(k, T, i) ELSE Some(T, p.alloc))

(* _set_addr_inner and _set_missing_inner: every page of the allocation,   *)
(* at its offset from the start.                                           *)
SetEntries(k, T, alloc, parentoffset, e) ==
  LET Set(U, item) ==
        LET off == parentoffset + item.offset
        IN  IF item.page THEN [U EXCEPT !.entry[item.index] = At(e, off)]
            ELSE [U EXCEPT !.sub[item.index] = SetEntries(k-1, @, item.alloc, off, e)]
  IN  FoldLeft(Set, T, alloc)

RECURSIVE start_addr(_, _), SizeOf(_, _)

start_addr(k, alloc) ==
  LET first == alloc[1]
  IN  first.index * PAGE_SIZE[k] + (IF first.page THEN 0 ELSE start_addr(k-1, first.alloc))

SizeOf(k, alloc) ==
  FoldLeft(LAMBDA n, item : n + (IF item.page THEN PAGE_SIZE[k] ELSE SizeOf(k-1, item.alloc)),
           0, alloc)

-----------------------------------------------------------------------------
(* A PageAllocation, with what its holder knows of it: where it starts, how *)
(* long it is and the entry its first page was last given.                 *)
PageAllocation(alloc, start, size, maps) ==
  [alloc |-> alloc, start |-> start, size |-> size, maps |-> maps]

Capacity == NPages[Top] * PAGE_SIZE[Top]

(* PagingContext::new puts the global tables in place (put_global_table).  *)
put_global_table(T, i) == [T EXCEPT !.entry[i] = Global, !.av[i] = 3]

Init == /\ tables = FoldLeft(put_global_table, NewTable(Top), SetToSeq(GlobalIdx))
        /\ allocs = {}
        /\ panicked = FALSE

Returns(r, start, size) ==
  /\ tables' = r.table
  /\ panicked' = (r.is = "panic")
  /\ allocs' = IF r.is # "some" THEN allocs
               ELSE allocs \cup {PageAllocation(r.alloc, start, size, Reserved)}

Allocate(size, strat) ==
  LET Start(r) == IF r.is = "some" THEN start_addr(Top, r.alloc) ELSE 0
      Ends(r) == Returns(r, Start(r), size)
  IN  /\ Cardinality(allocs) < MAX_ALLOCS
      /\ Ends(allocate(Top, tables, size, strat))

AllocateAt(addr, size) ==
  /\ Cardinality(allocs) < MAX_ALLOCS
  /\ Returns(allocate_at(Top, tables, addr, size), addr, size)

(* set_base_addr and set_absent of a PageAllocation.                       *)
SetMapping(x, e) ==
  /\ tables' = SetEntries(Top, tables, x.alloc, 0, e)
  /\ allocs' = (allocs \ {x}) \cup {[x EXCEPT !.maps = e]}
  /\ UNCHANGED panicked

Split(x, mid) ==
  LET Ends(r) ==
        /\ tables' = r.table
        /\ panicked' = (r.is = "panic")
        /\ allocs' = (allocs \ {x}) \cup
             {PageAllocation(r.lhs, x.start, mid, x.maps),
              PageAllocation(r.rhs, x.start + mid, x.size - mid, At(x.maps, mid))}
  IN  /\ Cardinality(allocs) < MAX_ALLOCS
      /\ Ends(_split_alloc_inner(Top, tables, x.alloc, mid))

Drop(x) ==
  /\ tables' = deallocate(Top, tables, x.alloc)
  /\ allocs' = allocs \ {x}
  /\ UNCHANGED panicked

(* A frame address apart from every virtual one.                           *)
Frame == Capacity

Next ==
  /\ ~panicked
  /\ \/ \E size \in Sizes, strat \in Strategies : Allocate(size, strat)
     \/ \E size \in Sizes : \E addr \in 0..(Capacity - size) : AllocateAt(addr, size)
     \/ \E x \in allocs :
          \/ \E e \in {Present(Frame), Absent("swapped")} :
               x.maps = Reserved /\ SetMapping(x, e)
          \/ \E mid \in 1..(x.size - 1) : Split(x, mid)
          \/ Drop(x)

Spec == Init /\ [][Next]_vars

-----------------------------------------------------------------------------
RECURSIVE Walk(_, _, _), Covered(_, _), Sound(_, _)

(* What the processor finds for an address, following the entries.         *)
Walk(k, T, a) ==
  LET i == a \div PAGE_SIZE[k]
  IN  IF T.entry[i] = SubTable THEN Walk(k-1, T.sub[i], a % PAGE_SIZE[k])
      ELSE At(T.entry[i], a % PAGE_SIZE[k])

(* The addresses an allocation's items name.                               *)
Covered(k, alloc) ==
  UNION {LET base == alloc[n].index * PAGE_SIZE[k]
         IN  IF alloc[n].page THEN base..(base + PAGE_SIZE[k] - 1)
             ELSE {base + a : a \in Covered(k-1, alloc[n].alloc)} : n \in DOMAIN alloc}

Sound(k, T) ==
  /\ \A i \in Idx(k) :
       /\ T.av[i] = 0 <=> T.entry[i] = Unused
       /\ i \in DOMAIN T.sub <=> T.entry[i] = SubTable
       /\ T.entry[i] \notin {Unused, SubTable} => T.av[i] = 3
  /\ \A i \in DOMAIN T.sub : Sound(k-1, T.sub[i])

(* Every address that the page tables say is in use belongs to exactly one *)
(* live allocation and no allocation has an address that is free or global: *)
(* whatever was allocated, failed, split and dropped in between, two       *)
(* holders never share a page and a dropped page is free again.            *)
EveryPageOwned ==
  \A a \in 0..(Capacity - 1) :
    Cardinality({x \in allocs : a \in Covered(Top, x.alloc)}) =
      IF Walk(Top, tables, a) \in {Unused, Global} THEN 0 ELSE 1

(* An allocation covers the addresses it was asked for, start() and size() *)
(* say so, and each of its pages still maps where set_base_addr or         *)
(* set_absent put it, at its distance from the start: the offsets that     *)
(* allocate_at and split compute are right at every level, and splitting a *)
(* huge page changes no translation.                                       *)
MappedAsAsked ==
  \A x \in allocs :
    /\ Covered(Top, x.alloc) = x.start..(x.start + x.size - 1)
    /\ start_addr(Top, x.alloc) = x.start
    /\ SizeOf(Top, x.alloc) = x.size
    /\ \A a \in 0..(x.size - 1) : Walk(Top, tables, x.start + a) = At(x.maps, a)

(* The availability bitmap never calls an entry empty that has a page or a *)
(* sub-table, nor in use one that is empty; a page or a global table is    *)
(* never offered for a sub-allocation; and so no assertion and no "This    *)
(* should never happen!" is ever reached.                                  *)
AvailabilitySound ==
  /\ ~panicked
  /\ Sound(Top, tables)
  /\ \A i \in GlobalIdx : tables.entry[i] = Global
=============================================================================
