------------------------------ MODULE MCRegistry ------------------------------
(* Model values and symmetry for the runs of Registry. *)
EXTENDS Registry, TLC

CONSTANTS r1, r2, r3

\* The request slots do the same things, and every run here is of safety.
Interchangeable == Permutations(Requests)
=============================================================================
