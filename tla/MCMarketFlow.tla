---------------------------- MODULE MCMarketFlow ----------------------------
(***************************************************************************)
(* TLC instances of MarketFlow.                                            *)
(***************************************************************************)
EXTENDS MarketFlow

Terms(amount) ==
    [currency |-> "MXN", amount |-> amount, pickupDate |-> "day",
     pickupTime |-> 10, conditions |-> FALSE]

\* A quote the ceiling allows but the target does not, and one out of reach.
Affordable == {Terms(90)}
TwoTerms   == {Terms(90), Terms(100)}

Brief ==
    [negotiateRate |-> TRUE, maximumCounters |-> 1, currency |-> "MXN",
     maximumRate |-> 90, targetRate |-> 80, pickupDate |-> "day",
     pickupWindowStart |-> 8, pickupWindowEnd |-> 12, acceptAccessorials |-> FALSE]

OneBrief == {Brief}

=============================================================================
