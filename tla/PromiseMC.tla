----------------------------- MODULE PromiseMC ------------------------------
(* A promise between tasks on two CPUs, for TLC. *)
EXTENDS Promise, TLC

CONSTANTS c1, c2, g1, g2, o1, f1, f2

\* A getter and a fulfiller on each CPU, and a poller.
OrderBoth == (c1 :> <<g1, f1>>) @@ (c2 :> <<g2, f2, o1>>)
=============================================================================
