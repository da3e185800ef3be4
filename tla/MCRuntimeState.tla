--------------------------- MODULE MCRuntimeState ---------------------------
(* Model-checking instance of RuntimeState: two sessions, one of them with  *)
(* two runs, and drafts of two Hosts that reuse low fences.                 *)
EXTENDS RuntimeState

CONSTANTS s1, s2, r1, r2, r3, k1, k2, d1, gk, gd, kernel, driver

MCSessionOf == r1 :> s1 @@ r2 :> s1 @@ r3 :> s2
MCGenOf     == k1 :> gk @@ k2 :> gk @@ d1 :> gd
MCUnitOf    == gk :> kernel @@ gd :> driver
MCKindOf    == kernel :> "kernel" @@ driver :> "driver"

Draft(i, r, o, f) ==
    [id |-> i, run |-> r, owner |-> o, versions |-> {gk, gd}, fence |-> f]
MCDrafts ==
    {Draft(1, r1, k1, 1), Draft(2, r2, k1, 2), Draft(3, r3, k1, 3),
     Draft(4, r1, k2, 1), Draft(5, r2, k2, 1)}
=============================================================================
