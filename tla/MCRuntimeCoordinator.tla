------------------------ MODULE MCRuntimeCoordinator ------------------------
(* The model-checking instance of RuntimeCoordinator with an open           *)
(* persistence port: two sessions, one of them with two runs, want the      *)
(* slots of one Kernel.  MCExecutionHandoff adds the driver and successors. *)
EXTENDS RuntimeCoordinator, TLC

CONSTANTS s1, s2, r1, r2, r3, k1, gk, kernel

MCSessionOf == r1 :> s1 @@ r2 :> s1 @@ r3 :> s2
MCGenOf     == k1 :> gk
MCUnitOf    == gk :> kernel
MCKindOf    == kernel :> "kernel"
=============================================================================
