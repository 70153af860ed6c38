----------------------------- MODULE MCTakeover -----------------------------
(***************************************************************************)
(* A TLC instance of Takeover.  No symmetry: the run checks liveness.      *)
(***************************************************************************)
EXTENDS Takeover

CONSTANTS h1, h2, l1

=============================================================================
