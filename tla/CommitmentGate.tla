--------------------------- MODULE CommitmentGate ---------------------------
(***************************************************************************)
(* The commitment gate of docs/ARCHITECTURE.md as its users understand it: *)
(* a booking is committed at the instant the last of three independent     *)
(* proofs is in (the dispatcher's spoken yes, the written recap, the       *)
(* recorded audio), the spoken yes always first; and a booking that was    *)
(* retired never comes back.                                               *)
(***************************************************************************)
EXTENDS Naturals

VARIABLES booking,   \* how many bookings were ever opened; the last is current
          phase,     \* "none", "open", "committed" or "retired"
          proofs     \* the proofs held for the current booking

gateVars == <<booking, phase, proofs>>

Proofs == {"voice", "recap", "audio"}

GateInit ==
    /\ booking = 0
    /\ phase = "none"
    /\ proofs = {}

Open ==
    /\ phase \in {"none", "retired"}
    /\ booking' = booking + 1
    /\ phase' = "open"
    /\ proofs' = {}

\* A proof comes in; the last one commits the booking.
Prove(proof) ==
    /\ phase = "open"
    /\ proof \notin proofs
    /\ proof = "voice" \/ "voice" \in proofs
    /\ proofs' = proofs \cup {proof}
    /\ phase' = IF proofs' = Proofs THEN "committed" ELSE "open"
    /\ UNCHANGED booking

\* The agreement no longer matches the briefing; its audio no longer counts.
Retire ==
    /\ phase \in {"open", "committed"}
    /\ phase' = "retired"
    /\ proofs' = proofs \ {"audio"}
    /\ UNCHANGED booking

\* The operation is returned to its seed.
Clear ==
    /\ phase' = "none"
    /\ proofs' = {}
    /\ UNCHANGED booking

GateNext ==
    \/ Open
    \/ \E proof \in Proofs : Prove(proof)
    \/ Retire
    \/ Clear

GateSpec == GateInit /\ [][GateNext]_gateVars

=============================================================================
