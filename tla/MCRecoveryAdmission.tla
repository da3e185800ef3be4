------------------------ MODULE MCRecoveryAdmission ------------------------
(* A model-checking instance of RecoveryAdmission: one submitted run and    *)
(* the runs that may continue it.                                           *)
EXTENDS RecoveryAdmission, TLC

CONSTANTS r1, r2, r3, q1, q2, k1, k2

\* Archived or not, with and without automatic continuation.
MCSettings == {s \in [archived : BOOLEAN, unattended : BOOLEAN] : s.archived => s.unattended}

\* Each request is another user's.
MCAuthorOf == [q \in Requests |-> q]
MCSymmetry == Permutations(Kernels) \cup Permutations(Requests)
=============================================================================
