------------------------- MODULE MCExecutionHandoff -------------------------
(* Model-checking instances of ExecutionHandoff: one session with two runs, *)
(* a Kernel and a driver that fail, and their replacements.  The first run  *)
(* is bound to the driver, the second is not.                               *)
EXTENDS ExecutionHandoff, TLC

CONSTANTS s1, r1, r2, k1, k2, d1, d2, gk, gk2, gd, kernel, driver

MCSessionOf  == r1 :> s1 @@ r2 :> s1
MCUnitOf     == gk :> kernel @@ gk2 :> kernel @@ gd :> driver
MCKindOf     == kernel :> "kernel" @@ driver :> "driver"
MCBindingsOf == r1 :> {gd} @@ r2 :> {}

\* The second Kernel is the restart of the first, or the next generation of a
\* hot reload, which starts while the first still runs.
RestartGenOf == k1 :> gk @@ k2 :> gk @@ d1 :> gd @@ d2 :> gd
ReloadGenOf  == k1 :> gk @@ k2 :> gk2 @@ d1 :> gd @@ d2 :> gd
=============================================================================
