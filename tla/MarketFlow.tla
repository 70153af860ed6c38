----------------------------- MODULE MarketFlow -----------------------------
(***************************************************************************)
(* The market worked end to end over the WhatsApp transport: the scan      *)
(* calls every carrier (lib/services/operations.ts), the voice service     *)
(* reports what becomes of each call (services/wacalls realtime_bridge.go  *)
(* to app/api/openai/realtime/relay-events), and the report that ends a    *)
(* call makes the server look whether the market is settled and book its   *)
(* winner, or call a human, without an operator.                           *)
(*                                                                         *)
(* Every report is posted by a goroutine of its own and handled by a       *)
(* request of its own, so the requests of several calls interleave at      *)
(* each await, and what a request read may be stale when it acts.          *)
(*                                                                         *)
(* Left out: briefs, events and decisions (no rule reads them), the        *)
(* operator's own bookings and renegotiations and the recordings (the      *)
(* subject of BookingFlow), and the races inside one MCP tool (also        *)
(* BookingFlow).  A booking simulated without telephony is the same        *)
(* mutations in sequence.                                                  *)
(***************************************************************************)
EXTENDS VoltaStore

CONSTANTS MaxInFlight,     \* how many reports of a call's end the server works
                           \* on at the same time
          MaxQuotes,       \* bound on the quote calls, the scan's included
          Faults           \* what may go wrong

FaultKind == {"refused",   \* the voice service refuses to place a call
              "error",     \* the realtime session reports an error
              "lost",      \* a report is never delivered
              "reorder"}   \* a report overtakes an earlier one

ASSUME MarketAssumption ==
    /\ MaxInFlight \in Nat \ {0}
    /\ MaxQuotes \in Nat
    /\ Faults \subseteq FaultKind

VARIABLES leg,             \* per call: the telephone line
          requests,        \* reports posted or being handled, calls being dialed
          escalation       \* the call a human was called in for; 0 for none

marketVars == <<snapshotVars, leg, requests, escalation>>

Leg == {"none", "ringing", "live", "over"}

\* What the server does for a call, in the order a call brings it about.
Event == {"dial", "call.active", "relay.error", "stream.stopped"}
rank == [e \in Event |-> CASE e = "dial" -> 0 [] e = "call.active" -> 1
                           [] e = "relay.error" -> 2 [] e = "stream.stopped" -> 3]

\* posted: not taken up yet; placed: the call was dialed, not yet written down;
\* the others: what a request handling the end of a call does next.
Step == {"posted", "placed", "settle", "book", "create", "escalate", "recap", "mark"}

\* arg: the carrier to call, the commitment to mark, or the call being dialed.
Request == [call : 1..MaxCalls, event : Event, step : Step, arg : Nat]

Posted(c, event) == [call |-> c, event |-> event, step |-> "posted", arg |-> 0]

\* Nothing is known of a call before it is created; a request is about a call
\* that exists, and no call has two requests of one kind.
MarketTypeOK ==
    /\ SnapshotTypeOK
    /\ leg \in [1..MaxCalls -> Leg]
    /\ requests \subseteq Request
    /\ \A r \in requests : r.call \in DOMAIN calls
    /\ \A r, q \in requests : (r.call = q.call /\ r.event = q.event) => r = q
    /\ escalation \in 0..minted.call

MarketInit ==
    /\ SnapshotInit
    /\ leg = [c \in 1..MaxCalls |-> "none"]
    /\ requests = {}
    /\ escalation = 0

Advance(r, step, arg) ==
    requests' = (requests \ {r}) \cup {[r EXCEPT !.step = step, !.arg = arg]}

Finish(r) == requests' = requests \ {r}

\* With nothing reordered a call's reports are taken up in the order posted.
InTurn(r) ==
    \/ "reorder" \in Faults
    \/ \A q \in requests : q.call = r.call => rank[q.event] >= rank[r.event]

(***************************************************************************)
(* Placing calls.                                                          *)
(***************************************************************************)
\* startMarketScan creates a quote call for every carrier ...
ScanCreates(k) ==
    /\ \A c \in DOMAIN calls : calls[c].carrierId # k
    /\ createCall("QUOTE", k)
    /\ UNCHANGED <<leg, requests, escalation>>

\* ... and then dials them all.
ScanDials ==
    /\ minted.call = Cardinality(Carriers)
    /\ requests = {}
    /\ \A c \in DOMAIN calls : calls[c].status = "QUEUED"
    /\ requests' = {Posted(c, "dial") : c \in DOMAIN calls}
    /\ UNCHANGED <<snapshotVars, leg, escalation>>

Scanned == \E c \in DOMAIN calls : calls[c].status # "QUEUED"

\* The operator calls one carrier again.
StartSingleQuoteCall(k) ==
    /\ Scanned
    /\ minted.call < MaxQuotes
    /\ createCall("QUOTE", k)
    /\ requests' = requests \cup {Posted(minted.call + 1, "dial")}
    /\ UNCHANGED <<leg, escalation>>

DialAccepted(r) ==
    /\ r.event = "dial" /\ r.step = "posted"
    /\ leg' = [leg EXCEPT ![r.call] = "ringing"]
    /\ Advance(r, "placed", 0)
    /\ UNCHANGED <<snapshotVars, escalation>>

\* A refused quote call is FAILED, and that is all; a refused booking call
\* throws, and nothing is written down.
DialRefused(r) ==
    /\ "refused" \in Faults
    /\ r.event = "dial" /\ r.step = "posted"
    /\ IF calls[r.call].mode = "QUOTE" THEN updateCall(r.call, "FAILED")
                                       ELSE UNCHANGED snapshotVars
    /\ Finish(r)
    /\ UNCHANGED <<leg, escalation>>

DialWritten(r) ==
    /\ r.event = "dial" /\ r.step = "placed"
    /\ updateCall(r.call, "RINGING")
    /\ Finish(r)
    /\ UNCHANGED <<leg, escalation>>

(***************************************************************************)
(* The line, and the agent on it.                                          *)
(***************************************************************************)
\* A report the voice service sends, or fails to.
Report(c, event) ==
    \/ requests' = requests \cup {Posted(c, event)}
    \/ "lost" \in Faults /\ UNCHANGED requests

Answer(c) ==
    /\ leg[c] = "ringing"
    /\ leg' = [leg EXCEPT ![c] = "live"]
    /\ Report(c, "call.active")
    /\ UNCHANGED <<snapshotVars, escalation>>

\* The realtime session complains; the call goes on.
SessionError(c) ==
    /\ "error" \in Faults
    /\ leg[c] = "live"
    /\ calls[c].status # "FAILED"
    /\ \A q \in requests : q.call = c => q.event # "relay.error"
    /\ Report(c, "relay.error")
    /\ UNCHANGED <<snapshotVars, leg, escalation>>

\* Declined, unanswered, or over: the agent's bridge closes, once.
HangUp(c) ==
    /\ leg[c] \in {"ringing", "live"}
    /\ leg' = [leg EXCEPT ![c] = "over"]
    /\ Report(c, "stream.stopped")
    /\ UNCHANGED <<snapshotVars, escalation>>

CarrierQuotes(c, terms) ==
    /\ leg[c] = "live"
    /\ calls[c].mode = "QUOTE"
    /\ recordOffer(calls[c].carrierId, terms)
    /\ UNCHANGED <<leg, requests, escalation>>

\* stage_booking, from a booking call or, when the market allows, a quote call.
AgentStages(c, offerId) ==
    /\ leg[c] = "live"
    /\ calls[c].mode = "QUOTE" =>
          mayCloseOnQuote(briefing, offers, settledCarriers, offerId)
    /\ stageBooking(offerId, c)
    /\ UNCHANGED <<leg, requests, escalation>>

DispatcherConfirms(c) ==
    /\ leg[c] = "live"
    /\ commitment # None
    /\ commitment.bookingCallId = c
    /\ confirmBooking(commitment.id, commitment.id)
    /\ UNCHANGED <<leg, requests, escalation>>

(***************************************************************************)
(* Handling a report: POST of relay-events.                                *)
(***************************************************************************)
reportedStatus ==
    [e \in {"call.active", "relay.error"} |->
        IF e = "call.active" THEN "IN_PROGRESS" ELSE "FAILED"]

ReportStatus(r) ==
    /\ r.event \in DOMAIN reportedStatus /\ r.step = "posted"
    /\ InTurn(r)
    /\ updateCall(r.call, reportedStatus[r.event])
    /\ Finish(r)
    /\ UNCHANGED <<leg, escalation>>

(***************************************************************************)
(* What autoBookIfSettled reads.                                           *)
(***************************************************************************)
BookingCalls == {c \in DOMAIN calls : calls[c].mode = "BOOKING"}

openBooking == \E c \in BookingCalls : calls[c].status # "FAILED"

quoteCalls == {c \in DOMAIN calls : calls[c].mode = "QUOTE"}

allQuotesFinal ==
    quoteCalls # {} /\ \A c \in quoteCalls : calls[c].status \in FinalCall

blocked == {o \in latestOffers(offers) : ~o.eligible}

\* What autoBookIfSettled decides on the snapshot it reads.
verdict ==
    IF Standing \/ openBooking \/ ~allQuotesFinal THEN "recap"
    ELSE IF hasWinner(offers) THEN "book"
    ELSE IF blocked # {} THEN "escalate" ELSE "recap"

(***************************************************************************)
(* The report that ends a call.                                            *)
(***************************************************************************)
InFlight == {r \in requests : r.event = "stream.stopped" /\ r.step # "posted"}

\* Mutant: the market is looked at before the call is written down as over.
ReportStoppedReadsFirst(r) ==
    /\ r.event = "stream.stopped" /\ r.step = "posted"
    /\ InTurn(r)
    /\ Cardinality(InFlight) < MaxInFlight
    /\ updateCall(r.call, "COMPLETED")
    /\ Advance(r, verdict, 0)
    /\ UNCHANGED <<leg, escalation>>

ReportStopped(r) ==
    /\ r.event = "stream.stopped" /\ r.step = "posted"
    /\ InTurn(r)
    /\ Cardinality(InFlight) < MaxInFlight
    /\ updateCall(r.call, "COMPLETED")
    /\ Advance(r, "settle", 0)
    /\ UNCHANGED <<leg, escalation>>

(***************************************************************************)
(* autoBookIfSettled, and bookWinningOffer under it.  What autoBookIfSettled *)
(* throws is caught: the request always goes on to the recap.              *)
(***************************************************************************)
\* Mutant: a booking call already placed is not looked for.
SettleAgain(r) ==
    /\ r.step = "settle"
    /\ Advance(r, IF Standing \/ ~allQuotesFinal THEN "recap"
                  ELSE IF hasWinner(offers) THEN "book"
                  ELSE IF blocked # {} THEN "escalate" ELSE "recap", 0)
    /\ UNCHANGED <<snapshotVars, leg, escalation>>

\* Mutant: the early return also skips the recap.
SettleReturns(r) ==
    /\ r.step = "settle"
    /\ IF verdict = "recap" THEN Finish(r) ELSE Advance(r, verdict, 0)
    /\ UNCHANGED <<snapshotVars, leg, escalation>>

Settle(r) ==
    /\ r.step = "settle"
    /\ Advance(r, verdict, 0)
    /\ UNCHANGED <<snapshotVars, leg, escalation>>

\* bookWinningOffer reads the snapshot again, and throws without a winner.
BookWinner(r) ==
    /\ r.step = "book"
    /\ \/ \E o \in winners(offers) : Advance(r, "create", o.carrierId)
       \/ ~hasWinner(offers) /\ Advance(r, "recap", 0)
    /\ UNCHANGED <<snapshotVars, leg, escalation>>

\* Mutant: the request dials a call id nobody minted.
PlaceBookingUnminted(r) ==
    /\ r.step = "create"
    /\ createCall("BOOKING", r.arg)
    /\ requests' = (requests \ {r}) \cup {[r EXCEPT !.step = "recap", !.arg = 0],
                                          Posted(minted.call, "dial")}
    /\ UNCHANGED <<leg, escalation>>

PlaceBooking(r) ==
    /\ r.step = "create"
    /\ createCall("BOOKING", r.arg)
    /\ LET c == minted.call + 1
       IN  requests' = (requests \ {r})
              \cup {[r EXCEPT !.step = "recap", !.arg = c], Posted(c, "dial")}
    /\ UNCHANGED <<leg, escalation>>

\* createEscalation for the last of the quote calls joins an escalation of the
\* same call.
Escalate(r) ==
    /\ r.step = "escalate"
    /\ \E c \in quoteCalls :
          /\ \A d \in quoteCalls : d <= c
          /\ IF escalation = c THEN UNCHANGED <<opStatus, escalation>>
             ELSE escalation' = c /\ opStatus' = "AT_RISK"
    /\ Advance(r, "recap", 0)
    /\ UNCHANGED <<briefing, calls, offers, commitment, evidence, minted, leg>>

\* sendCommitmentRecap, once the booking call it waits for is dialed.  Some
\* channel delivers.
SendRecap(r) ==
    /\ r.step = "recap"
    /\ \A q \in requests : ~(q.call = r.arg /\ q.event = "dial")
    /\ IF /\ commitment # None
          /\ commitment.bookingCallId = r.call
          /\ commitment.status = "VERBALLY_CONFIRMED"
       THEN Advance(r, "mark", commitment.id)
       ELSE Finish(r)
    /\ UNCHANGED <<snapshotVars, leg, escalation>>

MarkRecapSent(r) ==
    /\ r.step = "mark"
    /\ \/ markRecapSent(r.arg)
       \/ ~canMarkRecap(r.arg) /\ UNCHANGED snapshotVars
    /\ Finish(r)
    /\ UNCHANGED <<leg, escalation>>

Serve(r) ==
    \/ DialAccepted(r)
    \/ DialRefused(r)
    \/ DialWritten(r)
    \/ ReportStatus(r)
    \/ ReportStopped(r)
    \/ Settle(r)
    \/ BookWinner(r)
    \/ PlaceBooking(r)
    \/ Escalate(r)
    \/ SendRecap(r)
    \/ MarkRecapSent(r)

Server == \E r \in requests : Serve(r)

Talk(c) ==
    \/ Answer(c)
    \/ SessionError(c)
    \/ \E t \in OfferTerms : CarrierQuotes(c, t)
    \/ \E o \in offers : AgentStages(c, o.id)
    \/ DispatcherConfirms(c)

MarketNext ==
    \/ \E k \in Carriers : ScanCreates(k)
    \/ ScanDials
    \/ \E k \in Carriers : StartSingleQuoteCall(k)
    \/ Server
    \/ \E c \in DOMAIN calls : Talk(c)
    \/ \E c \in DOMAIN calls : HangUp(c)

\* A request the server took up is served to its end, and every call ends.
\* Nothing makes a carrier answer, quote or confirm.
MarketFairness ==
    /\ WF_marketVars(Server)
    /\ WF_marketVars(\E c \in DOMAIN calls : HangUp(c))

MarketSpec == MarketInit /\ [][MarketNext]_marketVars /\ MarketFairness

(***************************************************************************)
(* Properties.                                                             *)
(***************************************************************************)
\* However often the market settles again (a booking call that ends, a carrier
\* called once more, a report that comes late or twice over), the server has
\* at most one booking call that did not fail.
NoDoubleBooking ==
    Cardinality({c \in BookingCalls : calls[c].status # "FAILED"}) <= 1

MarketIsSettled == Scanned /\ allQuotesFinal /\ offers # {}

\* A carrier was called to book, a human was called, or a quote call closed.
Concluded == BookingCalls # {} \/ escalation # 0 \/ Standing

\* Once every quote call has settled and somebody quoted, the winner is booked
\* or a human is called, without an operator: of the requests that end the
\* last calls at the same time, one sees the whole market.
MarketIsWorked == MarketIsSettled ~> Concluded

\* What a dispatcher confirmed on the telephone is followed by its written
\* recap, whichever call it was confirmed on and whatever the end of that call
\* made the server do first.
ConfirmationIsRecapped ==
    (commitment # None /\ commitment.status = "VERBALLY_CONFIRMED")
        ~> (commitment # None /\ commitment.recapSentAt)

=============================================================================
