---------------------------- MODULE KernelHeapMC ----------------------------
(***************************************************************************)
(* Two CPUs.  Other code pushes tasks on the boot CPU, and on the other    *)
(* one it logs, and the no-interruptions stack there grows once.           *)
(***************************************************************************)
EXTENDS KernelHeap, TLC

CONSTANTS b, a

Other == b :> {"push"} @@ a :> {"log"}
Growths == b :> 0 @@ a :> 1
=============================================================================
