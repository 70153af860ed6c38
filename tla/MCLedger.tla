------------------------------ MODULE MCLedger ------------------------------
(***************************************************************************)
(* A TLC instance of Ledger.  Instances, calls and topics are treated      *)
(* alike by every definition, so they are interchangeable.                 *)
(***************************************************************************)
EXTENDS Ledger, TLC

CONSTANTS a, b, c1, c2, u1, u2, offer, change

Symmetry == Permutations(Instances) \union Permutations(Calls) \union Permutations(Topics)

=============================================================================
