---------------------------- MODULE MCDashboard ----------------------------
(***************************************************************************)
(* A TLC instance of Dashboard.  No symmetry: the run checks liveness.     *)
(***************************************************************************)
EXTENDS Dashboard

CONSTANTS seed, edited

=============================================================================
