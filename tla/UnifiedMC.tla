----------------------------- MODULE UnifiedMC ------------------------------
(* Small instances of Unified for TLC. *)
EXTENDS Unified, TLC

Entry(s, e) == [start |-> s, end |-> e, general_use |-> TRUE]
Reserved(s, e) == [start |-> s, end |-> e, general_use |-> FALSE]

\* Pages of two bytes.  A map that the kernel cuts through, with a hole and an odd
\* end; one that begins before the kernel and inside a page; adjacent entries that
\* make up one block and go on past it, to an end inside a page.
SmallMaps == {
  <<Entry(0, 8), Reserved(8, 12), Entry(12, 17)>>,
  <<Entry(5, 16)>>,
  <<Entry(8, 14), Entry(14, 19)>>}

StackSymmetry == Permutations(StackAllocs)
=============================================================================
