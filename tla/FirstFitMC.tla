----------------------------- MODULE FirstFitMC -----------------------------
(***************************************************************************)
(* Three levels: a table without huge pages over one with huge pages over  *)
(* one of pages, as the kernel's tables are.                               *)
(***************************************************************************)
EXTENDS FirstFit

Rev == [Default EXCEPT !.reverse = TRUE]
Spread == [Rev EXCEPT !.spread = TRUE]

MCNPages == <<2, 2, 3>>
MCHuge == <<TRUE, TRUE, FALSE>>

(* ALLOCATION_DEFAULT, KALLOCATION_KERNEL_STACK, KALLOCATION_KERNEL_GENERALDYN *)
(* and KALLOCATION_DYN_MMIO.                                               *)
MCStrategies == {<<Default>>, <<Rev, Spread, Rev>>, <<Rev>>, <<Rev, Default>>}
=============================================================================
