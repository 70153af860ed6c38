---------------------------- MODULE BookingFlow ----------------------------
(***************************************************************************)
(* The path of a booking from a quoted offer to a verified commitment: the *)
(* MCP tools the voice agent calls (lib/mcp/tools.ts), the recap and the   *)
(* recording services (lib/services/verification.ts) and the operator's    *)
(* booking and renegotiation (lib/services/operations.ts).                 *)
(*                                                                         *)
(* Each request runs in a handler.  A handler reads the snapshot, awaits   *)
(* something slow (a classifier, a message provider, a transcription, the  *)
(* store's queue) and then asks the store for a mutation, naming what it   *)
(* read before.  Between the two, anything else may happen.  A handler may *)
(* also end early: the classifier says no, nothing could be delivered, the *)
(* recording holds no confirmation, the function is killed.                *)
(***************************************************************************)
EXTENDS VoltaStore

CONSTANTS Handlers,        \* requests in flight at the same time
          Reports          \* the call statuses providers report

ASSUME ReportsAssumption == Reports \subseteq CallStatus

VARIABLES handler,         \* per handler: what it does next, and on what
          delivered        \* the commitments whose recap reached the carrier

flowVars == <<snapshotVars, handler, delivered>>

\* id: the offer or the commitment the handler acts on; ref: the call, the
\* carrier or the commitment it read beside it.
HandlerOp == {"idle", "stage", "confirm", "deliver", "mark", "link",
              "call_booking", "supersede", "call_renegotiation"}
HandlerState == [op : HandlerOp, id : Nat, ref : Nat]

Idle == [op |-> "idle", id |-> 0, ref |-> 0]

\* Commitments, in the eyes of a handler: 0 stands for none.
commitmentId == IF commitment = None THEN 0 ELSE commitment.id

FlowTypeOK ==
    /\ SnapshotTypeOK
    /\ handler \in [Handlers -> HandlerState]
    /\ delivered \subseteq Nat

FlowInit ==
    /\ SnapshotInit
    /\ handler = [h \in Handlers |-> Idle]
    /\ delivered = {}

Begin(h, op, id, ref) ==
    /\ handler[h] = Idle
    /\ handler' = [handler EXCEPT ![h] = [op |-> op, id |-> id, ref |-> ref]]
    /\ UNCHANGED <<snapshotVars, delivered>>

Continue(h, op) ==
    handler' = [handler EXCEPT ![h].op = op]

Return(h) ==
    handler' = [handler EXCEPT ![h] = Idle]

\* A mutation whose rule throws leaves the snapshot alone.
Throws(rule) == ~rule /\ UNCHANGED snapshotVars

(***************************************************************************)
(* Quotes and calls: single mutations.                                     *)
(***************************************************************************)
\* The record_offer tool, once some call was placed.
RecordOffer(carrierId, terms) ==
    /\ minted.call > 0
    /\ recordOffer(carrierId, terms)
    /\ UNCHANGED <<handler, delivered>>

\* The operator edits the briefing.
EditBriefing(b) ==
    /\ b # briefing
    /\ updateConfiguration(b)
    /\ UNCHANGED <<handler, delivered>>

\* A quote call is queued for a carrier.
StartQuoteCall(carrierId) ==
    /\ createCall("QUOTE", carrierId)
    /\ UNCHANGED <<handler, delivered>>

\* A provider or the voice service reports on a call, in any order.
ReportCall(c, status) ==
    /\ updateCall(c, status)
    /\ UNCHANGED <<handler, delivered>>

TokenExpires ==
    /\ expireToken
    /\ UNCHANGED <<handler, delivered>>

ResetOperation ==
    /\ resetSnapshot
    /\ UNCHANGED <<handler, delivered>>

(***************************************************************************)
(* stage_booking.                                                          *)
(***************************************************************************)
\* On a quote call the engine must say the market justifies closing.  The
\* agent's call may be one the snapshot lost in a reset.
StageBookingRead(h, offerId, callId) ==
    /\ callId \in 1..minted.call
    /\ (callId \in DOMAIN calls /\ calls[callId].mode = "QUOTE") =>
          mayCloseOnQuote(briefing, offers, settledCarriers, offerId)
    /\ Begin(h, "stage", offerId, callId)

StageBooking(h) ==
    /\ handler[h].op = "stage"
    /\ \/ stageBooking(handler[h].id, handler[h].ref)
       \/ Throws(canStage(handler[h].id))
    /\ Return(h)
    /\ UNCHANGED delivered

(***************************************************************************)
(* confirm_booking.                                                        *)
(***************************************************************************)
\* The agent names a commitment it staged; the answer is judged against the
\* terms of the commitment that stands at this moment, and found to confirm.
ConfirmBookingRead(h, id) ==
    /\ id \in 1..minted.commitment
    /\ Begin(h, "confirm", id, commitmentId)

ConfirmBooking(h, token) ==
    /\ handler[h].op = "confirm"
    /\ token \in 1..minted.commitment
    /\ \/ confirmBooking(handler[h].id, token)
       \/ Throws(canConfirm(handler[h].id, token))
    /\ Return(h)
    /\ UNCHANGED delivered

(***************************************************************************)
(* sendCommitmentRecap, when the call's provider reports its end.          *)
(***************************************************************************)
SendRecapRead(h, callId) ==
    /\ commitment # None
    /\ commitment.bookingCallId = callId
    /\ commitment.status = "VERBALLY_CONFIRMED"
    /\ Begin(h, "deliver", commitment.id, 0)

\* At least one written channel accepts the recap.
DeliverRecap(h) ==
    /\ handler[h].op = "deliver"
    /\ delivered' = delivered \cup {handler[h].id}
    /\ Continue(h, "mark")
    /\ UNCHANGED snapshotVars

MarkRecap(h) ==
    /\ handler[h].op = "mark"
    /\ \/ markRecapSent(handler[h].id)
       \/ Throws(canMarkRecap(handler[h].id))
    /\ Return(h)
    /\ UNCHANGED delivered

(***************************************************************************)
(* processRecording, when a recording of the call becomes available.       *)
(***************************************************************************)
ProcessRecordingRead(h, callId) ==
    /\ commitment # None
    /\ commitment.bookingCallId = callId
    /\ commitment.status # "PROPOSED"
    /\ Begin(h, "link", commitment.id, 0)

\* The transcription holds an unequivocal confirmation.
LinkRecording(h) ==
    /\ handler[h].op = "link"
    /\ \/ linkEvidence(handler[h].id)
       \/ Throws(canLink(handler[h].id))
    /\ Return(h)
    /\ UNCHANGED delivered

(***************************************************************************)
(* bookWinningOffer and startRenegotiation.                                *)
(***************************************************************************)
BookWinningOfferRead(h) ==
    \E o \in winners(offers) : Begin(h, "call_booking", o.id, o.carrierId)

RenegotiationRead(h) ==
    /\ Standing
    /\ Begin(h, "supersede", commitment.id, commitment.carrierId)

SupersedeStanding(h) ==
    /\ handler[h].op = "supersede"
    /\ \/ supersedeCommitment(handler[h].id) /\ Continue(h, "call_renegotiation")
       \/ Throws(canSupersede(handler[h].id)) /\ Return(h)
    /\ UNCHANGED delivered

PlaceCall(h) ==
    /\ \/ handler[h].op = "call_booking" /\ createCall("BOOKING", handler[h].ref)
       \/ handler[h].op = "call_renegotiation" /\ createCall("RENEGOTIATION", handler[h].ref)
    /\ Return(h)
    /\ UNCHANGED delivered

\* A handler ends without its mutation.
Abandon(h) ==
    /\ handler[h] # Idle
    /\ Return(h)
    /\ UNCHANGED <<snapshotVars, delivered>>

HandlerStep(h) ==
    \/ \E o \in offers, c \in 1..MaxCalls : StageBookingRead(h, o.id, c)
    \/ StageBooking(h)
    \/ \E id \in 1..MaxCommitments : ConfirmBookingRead(h, id)
    \/ \E token \in 1..MaxCommitments : ConfirmBooking(h, token)
    \/ \E c \in DOMAIN calls : SendRecapRead(h, c)
    \/ DeliverRecap(h)
    \/ MarkRecap(h)
    \/ \E c \in DOMAIN calls : ProcessRecordingRead(h, c)
    \/ LinkRecording(h)
    \/ BookWinningOfferRead(h)
    \/ RenegotiationRead(h)
    \/ SupersedeStanding(h)
    \/ PlaceCall(h)
    \/ Abandon(h)

FlowNext ==
    \/ \E k \in Carriers : StartQuoteCall(k)
    \/ \E k \in Carriers, t \in OfferTerms : RecordOffer(k, t)
    \/ \E b \in Briefings : EditBriefing(b)
    \/ \E c \in DOMAIN calls, s \in Reports : ReportCall(c, s)
    \/ TokenExpires
    \/ ResetOperation
    \/ \E h \in Handlers : HandlerStep(h)

FlowSpec == FlowInit /\ [][FlowNext]_flowVars

(***************************************************************************)
(* Properties.                                                             *)
(***************************************************************************)
\* A commitment becomes COMMITTED only with all three proofs of its own: the
\* dispatcher's verbal confirmation, a written recap that some channel really
\* delivered, and recorded evidence of this commitment and no other; in
\* whichever order recap and recording are processed, by whichever handlers.
CommittedIsProven ==
    (commitment # None /\ commitment.status = "COMMITTED") =>
        /\ commitment.verballyConfirmedAt
        /\ commitment.recapSentAt
        /\ commitment.committedAt
        /\ commitment.id \in delivered
        /\ evidence = commitment.id

\* The operation shows COMMITTED only while a commitment stands COMMITTED:
\* neither a renegotiation, nor a new booking, nor a reset leaves the board
\* claiming an agreement that is gone.
CommittedOperationHasCommitment ==
    opStatus = "COMMITTED" =>
        commitment # None /\ commitment.status = "COMMITTED"

\* The handler h confirms a booking in this step.
Confirms(h) ==
    /\ handler[h].op = "confirm"
    /\ handler'[h] = Idle
    /\ commitment # None
    /\ commitment.status = "PROPOSED"
    /\ commitment' # None
    /\ commitment'.status = "VERBALLY_CONFIRMED"

\* The commitment a handler confirms is the one whose terms the classifier
\* judged the dispatcher's answer against, although the snapshot was read
\* before the classifier was awaited.
JudgedIsConfirmed ==
    [][\A h \in Handlers : Confirms(h) => handler[h].ref = commitment'.id]_flowVars

(***************************************************************************)
(* The commitment gate.  A commitment that was superseded holds no audio,  *)
(* whatever a recording processed too late has left in the snapshot.       *)
(***************************************************************************)
gatePhase ==
    CASE commitment = None -> "none"
      [] commitment # None /\ commitment.status \in Retired -> "retired"
      [] commitment # None /\ commitment.status = "COMMITTED" -> "committed"
      [] commitment # None /\ commitment.status \notin Retired \cup {"COMMITTED"} -> "open"

gateProofs ==
    IF commitment = None THEN {}
    ELSE {p \in {"voice", "recap", "audio"} :
            \/ p = "voice" /\ commitment.verballyConfirmedAt
            \/ p = "recap" /\ commitment.recapSentAt
            \/ p = "audio" /\ evidence = commitment.id
                           /\ commitment.status \notin Retired}

Gate == INSTANCE CommitmentGate
          WITH booking <- minted.commitment, phase <- gatePhase, proofs <- gateProofs

\* Handlers, tools, recordings and renegotiations, interleaved at will, move
\* the commitment as the gate allows: the yes first, committed exactly when the
\* third proof comes in, and never again once retired.
ImplementsGate == Gate!GateSpec

=============================================================================
