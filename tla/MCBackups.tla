------------------------------ MODULE MCBackups ------------------------------
(* Model values for the runs of Backups. *)
EXTENDS Backups

CONSTANTS a1, b1, r1
=============================================================================
