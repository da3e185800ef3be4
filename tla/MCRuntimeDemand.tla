--------------------------- MODULE MCRuntimeDemand ---------------------------
(* Model-checking instance of RuntimeDemand: the storage and a plugin that   *)
(* depends on it.                                                            *)
EXTENDS RuntimeDemand, TLC

CONSTANTS storage, plugin, c1, c2

ClosureDef == storage :> <<storage>> @@ plugin :> <<storage, plugin>>
TargetDef  == c1 :> plugin @@ c2 :> storage

\* One unit sleeps, wakes, fails and recovers; the other sleeps and wakes.
MaxOwnersDef == storage :> 3 @@ plugin :> 2
TwoOwners    == storage :> 2 @@ plugin :> 2
=============================================================================
