-------------------------- MODULE PagingContextMC ---------------------------
(* Two CPUs, the first with two threads.                                    *)
EXTENDS PagingContext, TLC

CONSTANTS c1, c2, t1, t2, t3

MCOn == (t1 :> c1) @@ (t2 :> c1) @@ (t3 :> c2)

PagingSymmetry == Permutations(Contexts)
=============================================================================
