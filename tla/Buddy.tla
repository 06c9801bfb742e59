------------------------------- MODULE Buddy --------------------------------
(***************************************************************************)
(* The physical memory allocator (memory/physical.rs).                     *)
(*                                                                         *)
(* palloc, the drop of an allocation and init_pmem hold PHYSMEM_ALLOCATOR  *)
(* from beginning to end, so each is one action.                           *)
(***************************************************************************)
EXTENDS Integers, Sequences, FiniteSets, SequencesExt

CONSTANTS
  MAX_ORDER,   \* orders are 0 .. MAX_ORDER - 1
  MIN_SIZE,    \* the size of a page, and of a block of order 0
  MemoryMaps,  \* the memory maps to boot with: sequences of entries
  kend,        \* where the kernel ends
  MAX_PAGES    \* bound: pages asked of palloc

ASSUME BuddyAssumption ==
  MAX_ORDER \in Nat \ {0} /\ MIN_SIZE \in Nat \ {0} /\ kend \in Nat /\ MAX_PAGES \in Nat \ {0}

VARIABLES
  free_blocks,      \* free_blocks[order]: the addresses of the free blocks
  amount_free, amount_allocated,
  allocations,      \* the PhysicalMemoryAllocations: their (order, addr)
  boot_blocks,      \* the free blocks that init_pmem made
  memory,           \* the bytes of the memory map that are for general use, once booted
  panicked          \* an index was out of bounds, or an expect() failed

vars == <<free_blocks, amount_free, amount_allocated, allocations, boot_blocks, memory, panicked>>

Orders == 0 .. MAX_ORDER - 1
block_size(order) == MIN_SIZE * 2 ^ order
Bytes(order, addr) == addr .. addr + block_size(order) - 1

\* (lower buddy address, higher buddy address)
buddies(order, addr) ==
  LET parent_size == 2 * block_size(order)
      low_addr == (addr \div parent_size) * parent_size
  IN <<low_addr, low_addr + block_size(order)>>

position(s, x) == CHOOSE i \in DOMAIN s : s[i] = x /\ \A j \in 1 .. i - 1 : s[j] # x
swap_remove(s, i) == [k \in 1 .. Len(s) - 1 |-> IF k = i THEN s[Len(s)] ELSE s[k]]
remove(s, x) == swap_remove(s, position(s, x))

(* The free lists as values: fb is what free_blocks is becoming. *)

split(fb, order, addr) ==
  LET to == buddies(order - 1, addr)
  IN [fb EXCEPT ![order] = remove(@, addr), ![order - 1] = @ \o to]

Panic == "panic"

\* Faulty variants: the buddy need not be free; merging stops one order early.
MergeAlways(fb, order, addr) ==
  LET b == buddies(order, addr)
      other == IF addr = b[1] THEN b[2] ELSE b[1]
      left == IF Contains(fb[order], other) THEN remove(remove(fb[order], addr), other)
              ELSE remove(fb[order], addr)
  IN IF order + 1 = MAX_ORDER THEN <<>>
     ELSE <<[fb EXCEPT ![order] = left, ![order + 1] = Append(@, b[1])], b[1]>>
MergeStopsEarly(fb, order, addr) ==
  LET b == buddies(order, addr)
  IN IF order >= 1 \/ ~Contains(fb[order], b[1]) \/ ~Contains(fb[order], b[2]) THEN <<>>
     ELSE <<[fb EXCEPT ![order] = remove(remove(@, b[1]), b[2]), ![order + 1] = Append(@, b[1])], b[1]>>

\* Some (free lists, address of the merged block), None (<<>>) or a panic: the
\* array has no list of order MAX_ORDER, which passes the function's first test.
merge(fb, order, addr) ==
  LET to_order == order + 1
      b == buddies(order, addr)
      low_idx == position(fb[order], b[1])
      high_idx == position(fb[order], b[2])
      from == swap_remove(swap_remove(fb[order], Max({low_idx, high_idx})), Min({low_idx, high_idx}))
  IN CASE to_order > MAX_ORDER -> <<>>
       [] ~Contains(fb[order], b[1]) \/ ~Contains(fb[order], b[2]) -> <<>>
       [] to_order = MAX_ORDER -> <<Panic>>
       [] OTHER -> <<[fb EXCEPT ![order] = from, ![to_order] = Append(@, b[1])], b[1]>>

\* The loop of drop(): <<free lists, whether it panicked>>.
RECURSIVE MergeUp(_, _, _)
MergeUp(fb, order, addr) ==
  LET r == merge(fb, order, addr)
  IN CASE r = <<>> -> <<fb, FALSE>>
       [] r = <<Panic>> -> <<fb, TRUE>>
       [] OTHER -> MergeUp(r[1], order + 1, r[2])

\* Some (free lists, address) or None (<<>>).  The block stays in its free list.
RECURSIVE req_block(_, _)
req_block(fb, order) ==
  IF order >= MAX_ORDER THEN <<>>
  ELSE IF fb[order] # <<>> THEN <<fb, fb[order][1]>>
  ELSE LET up == req_block(fb, order + 1)
       IN IF up = <<>> THEN <<>>
          ELSE <<split(up[1], order + 1, up[2]), buddies(order, up[2])[1]>>

(***************************************************************************)
(* The blocks that add_memory(s, e) pushes, in order: pairs of an order    *)
(* and an address.  From takes the rest of the loop, from an order down.   *)
(***************************************************************************)
RECURSIVE AddFrom(_, _, _)
AddFrom(order, start_u, end_u) ==
  IF order < 1 THEN <<>>
  ELSE LET b == buddies(order - 1, start_u)
           block_end == b[2] + block_size(order - 1)
           head == IF start_u < b[1] THEN AddFrom(MAX_ORDER, start_u, b[1]) ELSE <<>>
           tail == IF end_u > block_end THEN AddFrom(MAX_ORDER, block_end, end_u) ELSE <<>>
           start2 == Max({start_u, b[1]})
           end2 == Min({end_u, block_end})
       IN head \o tail \o
          (IF b[1] < start2 \/ block_end > end2
           THEN AddFrom(order - 1, start2, end2)
           ELSE <<<<order, b[1]>>>>)
add_memory(s, e) == AddFrom(MAX_ORDER, s, e)
----------------------------------------------------------------------------
Init ==
  /\ free_blocks = [o \in Orders |-> <<>>]
  /\ amount_free = 0 /\ amount_allocated = 0
  /\ allocations = {} /\ boot_blocks = {} /\ memory = {}
  /\ panicked = FALSE

Sizes(blocks) == MapThenSumSet(LAMBDA b : block_size(b[1]), blocks)

\* What an entry of the memory map contributes: its part after the kernel.
EntryBlocks(entry) ==
  IF ~entry.general_use \/ entry.end <= kend THEN <<>>
  ELSE add_memory(IF entry.start >= kend THEN entry.start ELSE kend, entry.end)

init_pmem(mmap) ==
  LET added == FoldLeft(LAMBDA sofar, entry : sofar \o EntryBlocks(entry), <<>>, mmap)
      \* an order of MAX_ORDER is out of the array's bounds
      bad == \E i \in DOMAIN added : added[i][1] \notin Orders
      at(o) == SelectSeq(added, LAMBDA b : b[1] = o)
  IN /\ memory = {} /\ ~panicked
     /\ memory' = UNION {IF mmap[i].general_use THEN mmap[i].start .. mmap[i].end - 1 ELSE {} :
                           i \in DOMAIN mmap}
     /\ panicked' = bad
     /\ free_blocks' = IF bad THEN free_blocks
                       ELSE [o \in Orders |-> [i \in 1 .. Len(at(o)) |-> at(o)[i][2]]]
     /\ boot_blocks' = {added[i] : i \in DOMAIN added}
     /\ amount_free' = FoldLeft(LAMBDA sum, b : sum + block_size(b[1]), 0, added)
     /\ UNCHANGED <<amount_allocated, allocations>>

\* The smallest order that is large enough.  If there is none, or no block, the
\* result is None and nothing changes.
palloc(pages) ==
  \E order \in Orders :
    /\ memory # {} /\ ~panicked
    /\ block_size(order) >= pages * MIN_SIZE
    /\ \A o \in 0 .. order - 1 : block_size(o) < pages * MIN_SIZE
    /\ LET r == req_block(free_blocks, order)
       IN /\ r # <<>>
          /\ free_blocks' = [r[1] EXCEPT ![order] = remove(@, r[2])]
          /\ allocations' = allocations \cup {<<order, r[2]>>}
    /\ amount_free' = amount_free - block_size(order)
    /\ amount_allocated' = amount_allocated + block_size(order)
    /\ UNCHANGED <<boot_blocks, memory, panicked>>

\* PhysicalMemoryAllocation::drop
drop(order, addr) ==
  LET r == MergeUp([free_blocks EXCEPT ![order] = Append(@, addr)], order, addr)
  IN /\ ~panicked
     /\ allocations' = allocations \ {<<order, addr>>}
     /\ free_blocks' = r[1] /\ panicked' = r[2]
     /\ amount_free' = amount_free + block_size(order)
     /\ amount_allocated' = amount_allocated - block_size(order)
     /\ UNCHANGED <<boot_blocks, memory>>

Next ==
  \/ \E mmap \in MemoryMaps : init_pmem(mmap)
  \/ \E pages \in 1 .. MAX_PAGES : palloc(pages)
  \/ \E a \in allocations : drop(a[1], a[2])

Spec == Init /\ [][Next]_vars
----------------------------------------------------------------------------
(* Properties *)

Free == UNION {{<<o, free_blocks[o][i]>> : i \in DOMAIN free_blocks[o]} : o \in Orders}
Blocks == Free \cup allocations

\* Blocks are disjoint, and no free list holds an address twice.
BlocksDisjoint ==
  /\ \A o \in Orders : \A i, j \in DOMAIN free_blocks[o] : i # j => free_blocks[o][i] # free_blocks[o][j]
  /\ Free \cap allocations = {}
  /\ \A b, c \in Blocks : b # c => Bytes(b[1], b[2]) \cap Bytes(c[1], c[2]) = {}

(***************************************************************************)
(* No byte of memory is handed out twice, nor handed out and free; only    *)
(* general-use memory after the kernel is handed out, what is handed out   *)
(* or free together is always exactly what init_pmem added, and the        *)
(* statistics say how much is which, whatever palloc rounds a size up to   *)
(* and however blocks are split and merged.                                *)
(***************************************************************************)
MemoryConserved ==
  ~panicked =>
    /\ BlocksDisjoint
    /\ UNION {Bytes(b[1], b[2]) : b \in Blocks} = UNION {Bytes(b[1], b[2]) : b \in boot_blocks}
    /\ \A b \in Blocks : Bytes(b[1], b[2]) \subseteq memory /\ b[2] >= kend
    /\ amount_free = Sizes(Free) /\ amount_allocated = Sizes(allocations)

(***************************************************************************)
(* Splitting does not fragment memory for good: when all allocations have  *)
(* been dropped, in whatever order, each block of the boot is free again,  *)
(* as it was or inside a larger one.                                       *)
(***************************************************************************)
Coalesces ==
  (allocations = {} /\ ~panicked) =>
    \A b \in boot_blocks : \E f \in Free : Bytes(b[1], b[2]) \subseteq Bytes(f[1], f[2])
=============================================================================
