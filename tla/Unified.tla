------------------------------ MODULE Unified -------------------------------
(***************************************************************************)
(* Unified allocations (memory/unified.rs): a backing of one or more       *)
(* sections of physical memory, or none for guard pages, and slots of      *)
(* virtual memory that are mapped to it; and the stacks made of them.      *)
(*                                                                         *)
(* The inner lock of an allocation is held throughout each operation, so   *)
(* an operation is one action.  Physical memory is Buddy's.  Virtual       *)
(* memory is one page table whose allocator hands out any free range, or   *)
(* none: FirstFit models how it finds one.  Sizes and offsets are in pages.*)
(***************************************************************************)
EXTENDS Buddy

CONSTANTS
  Clients,       \* the UnifiedAllocations that are used directly
  StackAllocs,   \* those that make up stacks
  NV,            \* the virtual pages are 0 .. NV - 1
  MapSizes,      \* bound: pages of virtual memory given to map_vmem
  ExpandSizes,   \* bound: pages of an expansion
  StackSizes,    \* bound: pages of a stack
  MAX_SLOTS,     \* bound: slots of an allocation
  MAX_SECTIONS,  \* bound: sections of a backing
  None

ASSUME UnifiedAssumption == NV \in Nat \ {0} /\ MAX_SLOTS \in Nat \ {0} /\ MAX_SECTIONS \in Nat \ {0}

VARIABLES
  inner,    \* inner[a]: the UnifiedAllocationInner, and whether a client holds a reference
  table,    \* table[p]: what virtual page p is mapped to
  taken,    \* the virtual pages that are allocated
  stacks,   \* the AllocatedStacks: pairs (stack_main, guard_page)
  resized,  \* what the last expansion returned
  failed    \* an unwrap(), expect() or unreachable!() of this file was reached

uvars == <<vars, inner, table, taken, stacks, resized, failed>>

VPages == 0 .. NV - 1
Allocs == Clients \cup StackAllocs

(***************************************************************************)
(* Virtual allocations                                                     *)
(***************************************************************************)
\* VirtualAllocation::new, with its entry in the table of absent pages.
Virt(start, size, a, idx, offset) ==
  [start |-> start, size |-> size, item |-> [alloc |-> a, slot |-> idx, offset |-> offset]]

Pages(v) == v.start .. v.start + v.size - 1
SizeOf(s) == FoldLeft(LAMBDA n, x : n + x.size, 0, s)

\* Virtual memory as a value: the table and the pages taken.  The drop of an
\* allocation clears its entries.
Released(vm, v) ==
  [table |-> [p \in VPages |-> IF p \in Pages(v) THEN None ELSE vm.table[p]],
   taken |-> vm.taken \ Pages(v)]
ReleasedAll(vm, virts) == FoldLeft(Released, vm, virts)

IsFree(vm, start, size) == start + size <= NV /\ (start .. start + size - 1) \cap vm.taken = {}

Allocated(vm, start, size) == [vm EXCEPT !.taken = @ \cup (start .. start + size - 1)]

get_phys_addr(section) == IF section.block = None THEN None ELSE section.block[2]

\* The first page of v is mapped addr_offset pages into the section.
_remap_page(vm, section, v, addr_offset) ==
  [vm EXCEPT !.table = [p \in VPages |->
     IF p \notin Pages(v) THEN @[p]
     ELSE IF get_phys_addr(section) = None THEN [absent |-> v.item]
     ELSE [frame |-> get_phys_addr(section) + (addr_offset + p - v.start) * MIN_SIZE]]]

(***************************************************************************)
(* _remap_pages, for one slot.  r is the VirtRemapState with the virtual   *)
(* memory: the allocations to process, prev_alloc_end, and those that      *)
(* stay.  RemapTurn is a turn of the loop, for a section and an allocation *)
(* v that was taken from the queue: prev_alloc_end is already v's end, and *)
(* stays so when v, or its halves, go back to the queue.                   *)
(***************************************************************************)
Back(r, virts) == [r EXCEPT !.to_process = virts \o @]

\* Faulty variants: what reaches past the section is mapped to it; what is after
\* the section is not put back.
RemapPastEnd(section, a, idx, v, r) ==
  IF r.prev_alloc_end - v.size >= section.end THEN [Back(r, <<v>>) EXCEPT !.break = TRUE]
  ELSE [r EXCEPT !.vm = _remap_page(@, section, v, r.prev_alloc_end - v.size - section.start),
                 !.kept = Append(@, v)]
RemapForgets(section, a, idx, v, r) ==
  IF r.prev_alloc_end - v.size >= section.end THEN [r EXCEPT !.break = TRUE]
  ELSE [r EXCEPT !.vm = _remap_page(@, section, v, r.prev_alloc_end - v.size - section.start),
                 !.kept = Append(@, v)]

RemapTurn(section, a, idx, v, r) ==
  LET end == r.prev_alloc_end
      start == end - v.size
  IN CASE end <= section.start ->
            IF section.first THEN [r EXCEPT !.vm = Released(@, v)] ELSE [r EXCEPT !.failed = TRUE]
       [] start >= section.end -> [Back(r, <<v>>) EXCEPT !.break = TRUE]
       [] start >= section.start /\ end > section.start /\ end <= section.end ->
            [r EXCEPT !.vm = _remap_page(@, section, v, start - section.start), !.kept = Append(@, v)]
       [] start < section.end /\ end > section.end ->
            Back(r, <<Virt(v.start, section.end - start, a, idx, start),
                      Virt(v.start + section.end - start, end - section.end, a, idx, section.end)>>)
       \* start - section.start is negative: its conversion to usize is unwrapped
       [] OTHER -> [r EXCEPT !.failed = TRUE]

RECURSIVE RemapSection(_, _, _, _)
RemapSection(section, a, idx, r) ==
  IF r.to_process = <<>> \/ r.break \/ r.failed THEN [r EXCEPT !.break = FALSE]
  ELSE RemapSection(section, a, idx,
         RemapTurn(section, a, idx, Head(r.to_process),
                   [r EXCEPT !.to_process = Tail(@), !.prev_alloc_end = @ + Head(r.to_process).size]))

Section(backing, k) ==
  LET start == backing.offset + SizeOf(SubSeq(backing.sections, 1, k - 1))
  IN [block |-> backing.sections[k].block, first |-> k = 1,
      start |-> start, end |-> start + backing.sections[k].size]

\* The slot after _remap_pages: what is left in the queue at the end is dropped.
RemapSlot(backing, slot, a, idx, vm) ==
  LET r == FoldLeft(LAMBDA r, k : RemapSection(Section(backing, k), a, idx, r),
                    [to_process |-> slot.allocations, prev_alloc_end |-> slot.offset,
                     kept |-> <<>>, vm |-> vm, break |-> FALSE, failed |-> FALSE],
                    [k \in DOMAIN backing.sections |-> k])
  IN [slot |-> [slot EXCEPT !.allocations = r.kept],
      vm |-> ReleasedAll(r.vm, r.to_process), failed |-> r.failed]

(***************************************************************************)
(* Operations on the slots: u is the state an operation builds, the inner  *)
(* value with the virtual memory, the slots reported as resized, failed.   *)
(***************************************************************************)
Remapped(u, a, idx) ==
  IF u.failed \/ u.inner.virt_slots[idx] = None THEN u
  ELSE LET r == RemapSlot(u.inner, u.inner.virt_slots[idx], a, idx, u.vm)
       IN [u EXCEPT !.inner.virt_slots[idx] = r.slot, !.vm = r.vm, !.failed = r.failed]

\* _remap_pages with virt_slot = None.
_remap_pages(u, a) ==
  FoldLeft(LAMBDA v, idx : Remapped(v, a, idx), u, [i \in DOMAIN u.inner.virt_slots |-> i])

\* One turn of the loop that expands the slots downwards.  An allocation below the
\* start of the table is a panic of allocate_at, which may also refuse a free range
\* (a sub-table that is more than half full): refused has the slots it does so for.
ExpandDown(u, a, idx, refused) ==
  LET slot == u.inner.virt_slots[idx]
      front == slot.allocations[1]
      missing == slot.offset - u.inner.offset
      below == front.start - missing
  IN IF u.failed \/ slot = None THEN u
     ELSE IF slot.allocations = <<>> THEN [u EXCEPT !.failed = TRUE]
     ELSE IF missing <= 0 THEN [u EXCEPT !.resized = @ \cup {idx}]
     ELSE IF below < 0 THEN [u EXCEPT !.failed = TRUE]
     ELSE IF idx \in refused \/ ~IsFree(u.vm, below, missing) THEN u
     ELSE [u EXCEPT !.resized = @ \cup {idx},
                    !.vm = Allocated(@, below, missing),
                    !.inner.virt_slots[idx].allocations =
                      <<Virt(below, missing, a, idx, u.inner.offset)>> \o @]

\* The loop upwards allocates nothing yet: it only strikes out the slots that end
\* below the top.
EndsBelowTop(inn, idx) ==
  /\ inn.virt_slots[idx] # None
  /\ inn.virt_slots[idx].offset + SizeOf(inn.virt_slots[idx].allocations) < inn.offset + SizeOf(inn.sections)

expand_vmem(u, a, refused) ==
  LET down == FoldLeft(LAMBDA v, idx : ExpandDown(v, a, idx, refused), u, [i \in DOMAIN u.inner.virt_slots |-> i])
  IN _remap_pages([down EXCEPT !.resized = {i \in @ : ~EndsBelowTop(down.inner, i)}], a)
----------------------------------------------------------------------------
UInit ==
  /\ Init
  /\ inner = [a \in Allocs |-> None]
  /\ table = [p \in VPages |-> None] /\ taken = {}
  /\ stacks = {} /\ resized = None /\ failed = FALSE

VM == [table |-> table, taken |-> taken]
Running == memory # {} /\ ~panicked /\ ~failed

\* The operation on a is over: u is the state it built.
Commit(a, u) ==
  /\ failed' = u.failed
  /\ inner' = [inner EXCEPT ![a] = u.inner]
  /\ table' = u.vm.table /\ taken' = u.vm.taken

CanPalloc(pages) ==
  \E order \in Orders : block_size(order) >= pages * MIN_SIZE /\ req_block(free_blocks, order) # <<>>

\* Physical memory is taken, if there is any; guard pages need none.
_allocate_new_backing(kind, pages) ==
  \/ kind = "mem" /\ palloc(pages)
  \/ kind = "mem" /\ ~CanPalloc(pages) /\ UNCHANGED vars
  \/ kind = "guard" /\ UNCHANGED vars
NewBlock == IF allocations' = allocations THEN None ELSE CHOOSE b \in allocations' : b \notin allocations
NoMemory(kind) == kind = "mem" /\ NewBlock = None

NewInner(kind, block, pages, held) ==
  [requested_type |-> kind, sections |-> <<[block |-> block, size |-> pages]>>, offset |-> 0,
   virt_slots |-> <<None>>, held |-> held]

\* UnifiedAllocation::alloc_new
alloc_new(a, kind, pages) ==
  /\ Running /\ inner[a] = None
  /\ _allocate_new_backing(kind, pages)
  /\ inner' = IF NoMemory(kind) THEN inner
              ELSE [inner EXCEPT ![a] = NewInner(kind, NewBlock, pages, TRUE)]
  /\ resized' = None /\ UNCHANGED <<table, taken, stacks, failed>>

\* The state an operation on inn starts from.
Start(inn, vm) == [inner |-> inn, vm |-> vm, resized |-> {}, failed |-> FALSE]

_new_virt_mapping(u, a, start, pages, offset) ==
  LET slots == u.inner.virt_slots
      idx == Min({Len(slots) + 1} \cup {i \in DOMAIN slots : slots[i] = None})
      at == u.inner.offset + offset
      slot == [allocations |-> <<Virt(start, pages, a, idx, at)>>, offset |-> at]
  IN Remapped([u EXCEPT !.inner.virt_slots =
                 [i \in 1 .. Max({Len(slots), idx}) |-> IF i = idx THEN slot ELSE slots[i]]], a, idx)

_clear_virt_mapping(u, idx) ==
  [u EXCEPT !.inner.virt_slots[idx] = None,
            !.vm = ReleasedAll(@, u.inner.virt_slots[idx].allocations)]

SlotsOf(inn) == {i \in DOMAIN inn.virt_slots : inn.virt_slots[i] # None}
Held(a) == Running /\ inner[a] # None /\ inner[a].held

\* Where an allocation of the page table may be: at any free range.
Starts(size) == {p \in VPages : IsFree(VM, p, size)}

\* UnifiedAllocation::map_vmem, with a range that the caller has just allocated.  The
\* offset is 0 if the range is as large as the allocation, and inside it otherwise.
map_vmem(a, start, pages, offset) ==
  /\ Held(a) /\ IsFree(VM, start, pages)
  /\ Cardinality(SlotsOf(inner[a])) < MAX_SLOTS
  /\ offset < SizeOf(inner[a].sections)
  /\ pages >= SizeOf(inner[a].sections) => offset = 0
  /\ Commit(a, _new_virt_mapping(Start(inner[a], Allocated(VM, start, pages)), a, start, pages, offset))
  /\ resized' = None /\ UNCHANGED <<vars, stacks>>

\* UnifiedVirtGuard::drop
drop_guard(a, idx) ==
  /\ Running /\ inner[a] # None /\ idx \in SlotsOf(inner[a])
  /\ Commit(a, _clear_virt_mapping(Start(inner[a], VM), idx))
  /\ resized' = None /\ UNCHANGED <<vars, stacks>>

\* The client drops its last UnifiedAllocation; the guards have theirs.
drop_alloc(a) ==
  /\ Held(a)
  /\ inner' = [inner EXCEPT ![a].held = FALSE]
  /\ resized' = None /\ UNCHANGED <<vars, table, taken, stacks, failed>>

\* Faulty variant: the other sections are forgotten.
DropFirstSection(a) ==
  /\ Running /\ inner[a] # None /\ ~inner[a].held /\ SlotsOf(inner[a]) = {}
  /\ LET block == Head(inner[a].sections).block
     IN IF block = None THEN UNCHANGED vars ELSE drop(block[1], block[2])
  /\ inner' = [inner EXCEPT ![a] = None]
  /\ resized' = None /\ UNCHANGED <<table, taken, stacks, failed>>

\* The last reference is gone: the backing is dropped, section by section, after
\* the inner lock was released.
DropSection(a) ==
  /\ Running /\ inner[a] # None /\ ~inner[a].held /\ SlotsOf(inner[a]) = {}
  /\ LET block == Head(inner[a].sections).block
     IN IF block = None THEN UNCHANGED vars ELSE drop(block[1], block[2])
  /\ inner' = [inner EXCEPT ![a] = IF Len(@.sections) = 1 THEN None
                                   ELSE [@ EXCEPT !.sections = Tail(@)]]
  /\ resized' = None /\ UNCHANGED <<table, taken, stacks, failed>>

expand_downwards(inn, s) == [inn EXCEPT !.sections = <<s>> \o @, !.offset = @ - s.size]
expand_upwards(inn, s) == [inn EXCEPT !.sections = Append(@, s)]

\* UnifiedAllocation::expand_downwards and expand_upwards.  Whether the backing
\* could grow is ignored.
expand(a, pages, down) ==
  /\ Held(a) /\ Len(inner[a].sections) < MAX_SECTIONS
  /\ _allocate_new_backing(inner[a].requested_type, pages)
  /\ LET s == [block |-> NewBlock, size |-> pages]
         inn == IF NoMemory(inner[a].requested_type) THEN inner[a]
                ELSE IF down THEN expand_downwards(inner[a], s) ELSE expand_upwards(inner[a], s)
     IN \E refused \in SUBSET SlotsOf(inner[a]) :
          LET u == expand_vmem(Start(inn, VM), a, refused)
          IN Commit(a, u) /\ resized' = [alloc |-> a, slots |-> u.resized]
  /\ UNCHANGED stacks

\* Faulty variant: the halves of the split are swapped.
StackBelowGuard(m, g, block, stack_pages, guard_pages, start) ==
  LET vm == Allocated(VM, start, stack_pages + guard_pages)
      um == _new_virt_mapping(Start(NewInner("mem", block, stack_pages, FALSE), vm), m, start, stack_pages, 0)
      ug == _new_virt_mapping(Start(NewInner("guard", None, guard_pages, FALSE), um.vm), g,
                              start + stack_pages, guard_pages, 0)
  IN /\ inner' = [inner EXCEPT ![m] = um.inner, ![g] = ug.inner]
     /\ table' = ug.vm.table /\ taken' = ug.vm.taken
     /\ failed' = (um.failed \/ ug.failed)
     /\ stacks' = stacks \cup {<<m, g>>}

\* AllocatedStack::alloc_new: the backing of the stack, a guard, virtual memory for
\* both, if there is any, with the guard below.  Without it the backing is dropped.
StackAt(m, g, block, stack_pages, guard_pages, start) ==
  LET vm == Allocated(VM, start, stack_pages + guard_pages)
      ug == _new_virt_mapping(Start(NewInner("guard", None, guard_pages, FALSE), vm), g, start, guard_pages, 0)
      um == _new_virt_mapping(Start(NewInner("mem", block, stack_pages, FALSE), ug.vm), m,
                              start + guard_pages, stack_pages, 0)
  IN /\ inner' = [inner EXCEPT ![m] = um.inner, ![g] = ug.inner]
     /\ table' = um.vm.table /\ taken' = um.vm.taken
     /\ failed' = (um.failed \/ ug.failed)
     /\ stacks' = stacks \cup {<<m, g>>}
stack_alloc_new(m, g, stack_pages, guard_pages) ==
  /\ Running /\ m # g /\ inner[m] = None /\ inner[g] = None
  /\ palloc(stack_pages)
  /\ \/ \E start \in Starts(stack_pages + guard_pages) :
          StackAt(m, g, NewBlock, stack_pages, guard_pages, start)
     \/ /\ inner' = [inner EXCEPT ![m] = NewInner("mem", NewBlock, stack_pages, FALSE)]
        /\ UNCHANGED <<table, taken, stacks, failed>>
  /\ resized' = None

\* The fields of an AllocatedStack are dropped in order: the stack, then the guard.
drop_stack(m, g) ==
  LET um == _clear_virt_mapping(Start(inner[m], VM), 1)
      ug == _clear_virt_mapping(Start(inner[g], um.vm), 1)
  IN /\ Running /\ <<m, g>> \in stacks
     /\ inner' = [inner EXCEPT ![m] = um.inner, ![g] = ug.inner]
     /\ table' = ug.vm.table /\ taken' = ug.vm.taken
     /\ stacks' = stacks \ {<<m, g>>}
     /\ resized' = None /\ UNCHANGED <<vars, failed>>

UNext ==
  \/ /\ \E mmap \in MemoryMaps : init_pmem(mmap)
     /\ UNCHANGED <<inner, table, taken, stacks, resized, failed>>
  \/ \E a \in Clients :
       \/ \E kind \in {"mem", "guard"}, pages \in 1 .. MAX_PAGES : alloc_new(a, kind, pages)
       \/ \E pages \in MapSizes, offset \in 0 .. MAX_PAGES :
            \E start \in Starts(pages) : map_vmem(a, start, pages, offset)
       \/ \E idx \in 1 .. MAX_SLOTS : drop_guard(a, idx)
       \/ drop_alloc(a)
       \/ \E pages \in ExpandSizes, down \in BOOLEAN : expand(a, pages, down)
  \/ \E m, g \in StackAllocs :
       (\E stack_pages \in StackSizes : stack_alloc_new(m, g, stack_pages, 1)) \/ drop_stack(m, g)
  \/ \E a \in Allocs : DropSection(a)

USpec == UInit /\ [][UNext]_uvars
----------------------------------------------------------------------------
(* Properties *)

Live == {a \in Allocs : inner[a] # None}
Virts(a, i) == LET s == inner[a].virt_slots[i].allocations IN {s[k] : k \in DOMAIN s}
VirtsOf(a) == UNION {Virts(a, i) : i \in SlotsOf(inner[a])}
SectionsOf(a) == {inner[a].sections[k] : k \in DOMAIN inner[a].sections}
Frames(section) ==
  IF section.block = None THEN {}
  ELSE {section.block[2] + k * MIN_SIZE : k \in 0 .. section.size - 1}

(***************************************************************************)
(* No mapping outlives or exceeds its memory: a page that is mapped to a   *)
(* frame belongs to a slot of a live allocation, and the frame to a        *)
(* section of that allocation whose block is not free, whichever way the   *)
(* sections, the slots and the references came and went.                   *)
(***************************************************************************)
NoDanglingMapping ==
  (~panicked /\ ~failed) =>
    \A p \in VPages : (table[p] # None /\ "frame" \in DOMAIN table[p]) =>
      \E a \in Live : \E v \in VirtsOf(a), s \in SectionsOf(a) :
        p \in Pages(v) /\ table[p].frame \in Frames(s) /\ s.block \in allocations

(***************************************************************************)
(* Virtual memory is neither lost nor held twice: the pages taken are      *)
(* exactly those of the slots' allocations, which are disjoint, through    *)
(* all the splits, drops and put-backs of _remap_pages; all of them are    *)
(* mapped, to memory or to an entry of the table of absent pages that is   *)
(* that of their own allocation, and no other page is.                     *)
(***************************************************************************)
VirtualConserved ==
  (~panicked /\ ~failed) =>
    LET own == UNION {{<<a, v>> : v \in VirtsOf(a)} : a \in Live}
    IN /\ taken = UNION {Pages(x[2]) : x \in own}
       /\ \A x, y \in own : x # y => Pages(x[2]) \cap Pages(y[2]) = {}
       /\ \A p \in VPages : table[p] # None <=> p \in taken
       /\ \A x \in own : \A p \in Pages(x[2]) :
            "absent" \in DOMAIN table[p] => table[p].absent = x[2].item /\ x[2].item.alloc = x[1]

(***************************************************************************)
(* Physical memory is neither leaked nor freed twice: the blocks that are  *)
(* handed out are exactly those of the sections of the allocations, each   *)
(* of which is large enough, also after a failed expansion or a stack that *)
(* got no virtual memory.                                                  *)
(***************************************************************************)
BackingConserved ==
  ~panicked =>
    LET own == UNION {{<<a, k>> : k \in DOMAIN inner[a].sections} : a \in Live}
        block(x) == inner[x[1]].sections[x[2]].block
    IN /\ allocations = {block(x) : x \in own} \ {None}
       /\ \A x, y \in own : (x # y /\ block(x) # None) => block(x) # block(y)
       /\ \A x \in own : block(x) # None =>
            block_size(block(x)[1]) >= inner[x[1]].sections[x[2]].size * MIN_SIZE

(***************************************************************************)
(* Every stack is mapped in full, in order, with its guard directly below: *)
(* the page below the lowest page of the stack is absent.                  *)
(***************************************************************************)
StackGuarded ==
  ~failed =>
    \A s \in stacks : \E v \in Virts(s[1], 1), w \in Virts(s[2], 1) :
      /\ Virts(s[1], 1) = {v} /\ v.size = SizeOf(inner[s[1]].sections)
      /\ \A p \in Pages(v) :
           table[p] = [frame |-> inner[s[1]].sections[1].block[2] + (p - v.start) * MIN_SIZE]
      /\ w.start + w.size = v.start
      /\ table[v.start - 1] = [absent |-> w.item]

(***************************************************************************)
(* A slot that an expansion returns is now large enough to fit the whole   *)
(* allocation, as the documentation of expand_vmem says.                   *)
(***************************************************************************)
ResizedHolds ==
  (resized # None /\ ~failed /\ ~panicked) =>
    \A i \in resized.slots :
      SizeOf(inner[resized.alloc].virt_slots[i].allocations) >= SizeOf(inner[resized.alloc].sections)
=============================================================================
