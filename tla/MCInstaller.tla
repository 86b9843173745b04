------------------------------ MODULE MCInstaller ------------------------------
(* The constants of the runs of Installer are numbers, set in their cfg files. *)
EXTENDS Installer
=============================================================================
