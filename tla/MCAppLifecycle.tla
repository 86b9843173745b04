--------------------------- MODULE MCAppLifecycle ---------------------------
(***************************************************************************)
(* Instances of AppLifecycle for TLC.                                      *)
(***************************************************************************)
EXTENDS AppLifecycle, TLC

CONSTANTS a1, i1, i2, s1, s2, p1, p2, p3

\* No app's container name contains another's.
OwnName == {<<a, a>> : a \in Apps}
\* No definition tells one process, or one image, from another. The safety runs
\* check one state of each class; the liveness run checks them all.
Interchangeable == Permutations(Procs) \cup Permutations(Images)

=============================================================================
