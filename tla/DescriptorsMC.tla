--------------------------- MODULE DescriptorsMC ----------------------------
(* Small instances of Descriptors for TLC. *)
EXTENDS Descriptors, TLC

\* Handles are interchangeable.
HandleSymmetry == Permutations(Handles)
=============================================================================
