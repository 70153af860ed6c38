---------------------------- MODULE MCBookingFlow ----------------------------
(***************************************************************************)
(* TLC instances of BookingFlow.                                           *)
(***************************************************************************)
EXTENDS BookingFlow, TLC

CONSTANTS h1, h2

Terms(amount) ==
    [currency |-> "MXN", amount |-> amount, pickupDate |-> "day",
     pickupTime |-> 10, conditions |-> FALSE]

\* A quote that meets the target.
OneTerm == {Terms(80)}

Briefing(maximumRate) ==
    [negotiateRate |-> TRUE, maximumCounters |-> 1, currency |-> "MXN",
     maximumRate |-> maximumRate, targetRate |-> 80, pickupDate |-> "day",
     pickupWindowStart |-> 8, pickupWindowEnd |-> 12, acceptAccessorials |-> FALSE]

Wide == Briefing(90)

\* The operator lowers the ceiling below every quote and raises it again.
TwoBriefings == {Briefing(70), Briefing(90)}

Symmetry == Permutations(Handlers)

==============================================================================
