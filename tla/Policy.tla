------------------------------- MODULE Policy -------------------------------
(***************************************************************************)
(* The deterministic mandate engine of lib/domain: what a quoted offer may *)
(* be (evaluateOffer), which offer is the market's winner (latestOffers,   *)
(* rankOffers, winner), what may be booked (assertOfferBookable), when a   *)
(* quote call may close the deal itself (mayCloseOnQuote), and how a       *)
(* commitment's status may move (commitment.ts).                           *)
(*                                                                         *)
(* Everything here is a pure operator.  A carrier is a number whose order  *)
(* is the order of the carriers' (distinct) names, the last tie-break of   *)
(* the ranking.  A briefing joins the fields of the operation and of the   *)
(* mandate that the engine reads.  Days and currencies are opaque values;  *)
(* clock times and amounts are numbers; the conditions of an offer are     *)
(* abstracted to whether there are any.                                    *)
(***************************************************************************)
EXTENDS Naturals, FiniteSets

CONSTANT Carriers      \* the carriers of the operation

ASSUME CarriersAssumption == Carriers \subseteq Nat /\ IsFiniteSet(Carriers)

(***************************************************************************)
(* Evaluating an offer.                                                    *)
(***************************************************************************)
\* How many counter-offers the operator authorised.
counterBudget(briefing) ==
    IF briefing.negotiateRate THEN briefing.maximumCounters ELSE 0

\* The violations an offer's terms commit, as the revision-th position of its
\* carrier, under a briefing.
evaluateOffer(briefing, terms, revision) ==
    LET broken ==
          [counter_limit_exhausted |->
              briefing.negotiateRate /\ revision - 1 > counterBudget(briefing),
           rate_negotiation_not_authorized |->
              ~briefing.negotiateRate /\ revision - 1 > counterBudget(briefing),
           currency_mismatch          |-> terms.currency # briefing.currency,
           rate_above_mandate         |-> terms.amount > briefing.maximumRate,
           pickup_day_outside_mandate |-> terms.pickupDate # briefing.pickupDate,
           pickup_time_outside_window |->
              \/ terms.pickupTime < briefing.pickupWindowStart
              \/ terms.pickupTime > briefing.pickupWindowEnd,
           unsupported_accessorial    |->
              ~briefing.acceptAccessorials /\ terms.conditions]
    IN  {v \in DOMAIN broken : broken[v]}

(***************************************************************************)
(* Ranking the market.  An offer is a record with at least the fields id,  *)
(* carrierId, terms, revision, eligible and superseded.                    *)
(***************************************************************************)
\* The standing offer of every carrier: the highest revision among those that
\* nothing superseded.
latestOffers(offers) ==
    {o \in offers :
        /\ ~o.superseded
        /\ \A other \in offers :
              (other.carrierId = o.carrierId /\ ~other.superseded)
                  => other.revision <= o.revision}

\* a ranks before b: lower amount, then earlier pickup, then carrier name.
ranksBefore(a, b) ==
    \/ a.terms.amount < b.terms.amount
    \/ /\ a.terms.amount = b.terms.amount
       /\ \/ a.terms.pickupTime < b.terms.pickupTime
          \/ /\ a.terms.pickupTime = b.terms.pickupTime
             /\ a.carrierId < b.carrierId

\* The offers the ranking lists, in the order ranksBefore gives them.
rankOffers(offers) == {o \in latestOffers(offers) : o.eligible}

\* The head of the ranking as a set: empty when the market has no winner.
winners(offers) ==
    {o \in rankOffers(offers) :
        \A other \in rankOffers(offers) : other = o \/ ranksBefore(o, other)}

isWinner(offers, offerId) == \E o \in winners(offers) : o.id = offerId

hasWinner(offers) == winners(offers) # {}

\* assertOfferBookable returns instead of throwing.
offerBookable(offers, offerId) ==
    \E o \in offers :
        /\ o.id = offerId
        /\ ~o.superseded
        /\ isWinner(offers, offerId)
        /\ o.eligible

(***************************************************************************)
(* Closing on a quote call.  settled is the set of carriers that have a    *)
(* quote call in a final status.                                           *)
(***************************************************************************)
mayCloseOnQuote(briefing, offers, settled, offerId) ==
    \E o \in offers :
        /\ o.id = offerId
        /\ o.eligible
        /\ isWinner(offers, offerId)
        /\ \/ o.terms.amount <= briefing.targetRate
           \/ Carriers \ {o.carrierId} \subseteq settled

(***************************************************************************)
(* The commitment's status machine.                                        *)
(***************************************************************************)
CommitmentStatus ==
    {"PROPOSED", "VERBALLY_CONFIRMED", "RECAP_SENT", "EVIDENCE_LINKED",
     "COMMITTED", "SUPERSEDED", "REJECTED", "VERIFICATION_FAILED", "ESCALATED"}

transitions ==
    [PROPOSED            |-> {"VERBALLY_CONFIRMED", "SUPERSEDED", "REJECTED", "ESCALATED"},
     VERBALLY_CONFIRMED  |-> {"RECAP_SENT", "SUPERSEDED", "REJECTED", "VERIFICATION_FAILED"},
     RECAP_SENT          |-> {"EVIDENCE_LINKED", "SUPERSEDED", "VERIFICATION_FAILED"},
     EVIDENCE_LINKED     |-> {"COMMITTED", "SUPERSEDED", "VERIFICATION_FAILED"},
     COMMITTED           |-> {"SUPERSEDED", "ESCALATED"},
     SUPERSEDED          |-> {},
     REJECTED            |-> {},
     VERIFICATION_FAILED |-> {"EVIDENCE_LINKED", "ESCALATED"},
     ESCALATED           |-> {}]

canTransitionCommitment(from, to) == to \in transitions[from]

\* The statuses stageBooking, autoBookIfSettled and startRenegotiation take for
\* a commitment that no longer stands.
Retired == {"SUPERSEDED", "REJECTED"}

=============================================================================
