---------------------------- MODULE MCServerLoops ----------------------------
(* Model values for the runs of ServerLoops. *)
EXTENDS ServerLoops

CONSTANTS a1
=============================================================================
