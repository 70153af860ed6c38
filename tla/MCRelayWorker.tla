--------------------------- MODULE MCRelayWorker ---------------------------
(***************************************************************************)
(* A TLC instance of RelayWorker: one call.  Every constant is a number.   *)
(***************************************************************************)
EXTENDS RelayWorker

=============================================================================
