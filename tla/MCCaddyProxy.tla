---------------------------- MODULE MCCaddyProxy ----------------------------
(* Model values for the runs of CaddyProxy. *)
EXTENDS CaddyProxy

CONSTANTS a1, a2, d1

OneApp == <<a1>>
TwoApps == <<a1, a2>>
=============================================================================
