------------------------------ MODULE WQueueMC ------------------------------
(* A WQueue that tasks on two CPUs share, for TLC. *)
EXTENDS WQueue, TLC

CONSTANTS c1, c2, g1, g2, p1, p2, o1

\* A getter and a pusher on each CPU, and a poller.
OrderPolled == (c1 :> <<g1, p1>>) @@ (c2 :> <<g2, o1, p2>>)
=============================================================================
