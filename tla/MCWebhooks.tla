----------------------------- MODULE MCWebhooks -----------------------------
(***************************************************************************)
(* A TLC instance of Webhooks.  No symmetry: the run checks liveness.      *)
(***************************************************************************)
EXTENDS Webhooks

CONSTANTS i1, i2

=============================================================================
