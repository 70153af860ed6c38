----------------------------- MODULE VoltaStore -----------------------------
(***************************************************************************)
(* The operation snapshot and the mutations of BaseSnapshotStore that      *)
(* decide a booking (lib/store/base.ts).  SnapshotStore shows that         *)
(* mutations take effect one at a time, on the snapshot they checked their *)
(* rules against; so each mutation is one atomic step here.  A mutation    *)
(* whose rule throws changes nothing: its rule is a predicate of its own   *)
(* (canStage, canConfirm, ...), so that a caller can be modelled on both   *)
(* outcomes.                                                               *)
(*                                                                         *)
(* Fresh UUIDs are numbers that are never minted twice, not even across a  *)
(* reset.  Left out: timestamps other than the three the commitment        *)
(* carries (as flags), the call an offer was made on, escalations, call    *)
(* transcripts, decisions, briefs and the event ledger: no rule of these   *)
(* mutations reads them.                                                   *)
(***************************************************************************)
EXTENDS Policy

CONSTANTS Briefings,       \* the briefings an operator may set
          SeedBriefing,    \* the one an operation starts with
          OfferTerms,      \* the terms a carrier may quote
          None,            \* the null of the TypeScript records
          MaxCalls,        \* bounds on what is ever created
          MaxOffers,
          MaxCommitments

VARIABLES briefing,        \* snapshot.operation and snapshot.mandate
          opStatus,        \* snapshot.operation.status
          calls,           \* snapshot.calls, by id
          offers,          \* snapshot.offers
          commitment,      \* snapshot.commitment
          evidence,        \* snapshot.evidence: the commitment it proves
          minted           \* how many ids of each kind were handed out

snapshotVars == <<briefing, opStatus, calls, offers, commitment, evidence, minted>>

OperationStatus == {"DRAFT", "SCANNING", "QUOTED", "BOOKING", "COMMITTED", "AT_RISK"}
CallMode        == {"QUOTE", "BOOKING", "RENEGOTIATION"}
CallStatus      == {"QUEUED", "RINGING", "IN_PROGRESS", "COMPLETED", "FAILED"}
FinalCall       == {"COMPLETED", "FAILED"}

CallAttempt == [mode : CallMode, carrierId : Carriers, status : CallStatus]
Offer == [id : Nat, carrierId : Carriers, terms : OfferTerms, revision : Nat,
          eligible : BOOLEAN, superseded : BOOLEAN]
Commitment == [id : Nat, carrierId : Carriers, offerId : Nat, bookingCallId : Nat,
               status : CommitmentStatus, tokenExpired : BOOLEAN,
               verballyConfirmedAt : BOOLEAN, recapSentAt : BOOLEAN,
               committedAt : BOOLEAN]

ASSUME StoreConstants ==
    /\ SeedBriefing \in Briefings
    /\ MaxCalls \in Nat /\ MaxOffers \in Nat /\ MaxCommitments \in Nat
    /\ None \notin Nat
    /\ None \notin Commitment

\* Amounts and clock times are compared, and the ranking orders any two.
ASSUME TermsAssumption ==
    \A t \in OfferTerms : t.amount \in Nat /\ t.pickupTime \in Nat

SnapshotTypeOK ==
    /\ briefing \in Briefings
    /\ opStatus \in OperationStatus
    /\ minted \in [call : Nat, offer : Nat, commitment : Nat]
    /\ DOMAIN calls \subseteq 1..minted.call
    /\ \A c \in DOMAIN calls : calls[c] \in CallAttempt
    /\ offers \subseteq Offer
    /\ commitment \in Commitment \cup {None}
    /\ evidence \in Nat \cup {None}

\* createSeedSnapshot
SnapshotInit ==
    /\ briefing = SeedBriefing
    /\ opStatus = "DRAFT"
    /\ calls = <<>>
    /\ offers = {}
    /\ commitment = None
    /\ evidence = None
    /\ minted = [call |-> 0, offer |-> 0, commitment |-> 0]

(***************************************************************************)
(* Configuration and calls.                                                *)
(***************************************************************************)
\* The operator patches the briefing.  Offers keep the verdict they were given.
updateConfiguration(b) ==
    /\ briefing' = b
    /\ UNCHANGED <<opStatus, calls, offers, commitment, evidence, minted>>

\* Mutant: the id of a call is reused.
createCallReusesId(mode, carrierId) ==
    /\ minted.call < MaxCalls
    /\ calls' = [c \in DOMAIN calls \cup {minted.call + 1} |->
                   IF c \in DOMAIN calls THEN calls[c]
                   ELSE [mode |-> mode, carrierId |-> carrierId, status |-> "QUEUED"]]
    /\ UNCHANGED <<briefing, opStatus, offers, commitment, evidence, minted>>

createCall(mode, carrierId) ==
    /\ minted.call < MaxCalls
    /\ minted' = [minted EXCEPT !.call = @ + 1]
    /\ calls' = [c \in DOMAIN calls \cup {minted.call + 1} |->
                   IF c \in DOMAIN calls THEN calls[c]
                   ELSE [mode |-> mode, carrierId |-> carrierId, status |-> "QUEUED"]]
    /\ UNCHANGED <<briefing, opStatus, offers, commitment, evidence>>

\* Every carrier was called for a quote and all the quote calls are over.
quotesSettled(theCalls) ==
    LET quotes == {c \in DOMAIN theCalls : theCalls[c].mode = "QUOTE"}
    IN  /\ Cardinality(quotes) >= Cardinality(Carriers)
        /\ \A c \in quotes : theCalls[c].status \in FinalCall

\* The carriers that have answered the market, for mayCloseOnQuote.
settledCarriers ==
    {calls[c].carrierId : c \in {d \in DOMAIN calls :
        calls[d].mode = "QUOTE" /\ calls[d].status \in FinalCall}}

\* A report about a call overwrites its status, whatever it was.
updateCall(c, status) ==
    /\ c \in DOMAIN calls
    /\ calls' = [calls EXCEPT ![c].status = status]
    /\ opStatus' = IF /\ calls[c].mode = "QUOTE"
                      /\ status \in FinalCall
                      /\ quotesSettled(calls')
                   THEN "QUOTED" ELSE opStatus
    /\ UNCHANGED <<briefing, offers, commitment, evidence, minted>>

(***************************************************************************)
(* Offers.                                                                 *)
(***************************************************************************)
\* The carrier's offer of the highest revision, as a set of at most one.
previousOffer(carrierId) ==
    {o \in offers :
        /\ o.carrierId = carrierId
        /\ \A other \in offers :
              other.carrierId = carrierId => other.revision <= o.revision}

restatesOffer(standing, terms) == standing.terms = terms

\* Mutant: a new position leaves the one before it standing.
recordOfferKeepsPrevious(carrierId, terms) ==
    LET previous == previousOffer(carrierId)
        revision == IF previous = {} THEN 1
                    ELSE (CHOOSE o \in previous : TRUE).revision + 1
    IN  /\ minted.offer < MaxOffers
        /\ \A o \in previous : o.superseded \/ ~restatesOffer(o, terms)
        /\ minted' = [minted EXCEPT !.offer = @ + 1]
        /\ offers' = offers \cup
              {[id         |-> minted.offer + 1,
                carrierId  |-> carrierId,
                terms      |-> terms,
                revision   |-> revision,
                eligible   |-> evaluateOffer(briefing, terms, revision) = {},
                superseded |-> FALSE]}
        /\ opStatus' = IF quotesSettled(calls) THEN "QUOTED" ELSE "SCANNING"
        /\ UNCHANGED <<briefing, calls, commitment, evidence>>

\* Mutant: the offer is judged at the revision it replaces.
recordOfferJudgedEarly(carrierId, terms) ==
    LET previous == previousOffer(carrierId)
        revision == IF previous = {} THEN 1
                    ELSE (CHOOSE o \in previous : TRUE).revision + 1
    IN  /\ minted.offer < MaxOffers
        /\ \A o \in previous : o.superseded \/ ~restatesOffer(o, terms)
        /\ minted' = [minted EXCEPT !.offer = @ + 1]
        /\ offers' = (offers \ previous)
              \cup {[o EXCEPT !.superseded = TRUE] : o \in previous}
              \cup {[id         |-> minted.offer + 1,
                     carrierId  |-> carrierId,
                     terms      |-> terms,
                     revision   |-> revision,
                     eligible   |-> evaluateOffer(briefing, terms, revision - 1) = {},
                     superseded |-> FALSE]}
        /\ opStatus' = IF quotesSettled(calls) THEN "QUOTED" ELSE "SCANNING"
        /\ UNCHANGED <<briefing, calls, commitment, evidence>>

\* Restating the standing terms returns the standing offer; anything else
\* supersedes it and is evaluated, as the next revision, against the briefing.
recordOffer(carrierId, terms) ==
    LET previous == previousOffer(carrierId)
        revision == IF previous = {} THEN 1
                    ELSE (CHOOSE o \in previous : TRUE).revision + 1
        offer == [id         |-> minted.offer + 1,
                  carrierId  |-> carrierId,
                  terms      |-> terms,
                  revision   |-> revision,
                  eligible   |-> evaluateOffer(briefing, terms, revision) = {},
                  superseded |-> FALSE]
    IN  /\ minted.offer < MaxOffers
        /\ \A o \in previous : o.superseded \/ ~restatesOffer(o, terms)
        /\ minted' = [minted EXCEPT !.offer = @ + 1]
        /\ offers' = (offers \ previous)
                        \cup {[o EXCEPT !.superseded = TRUE] : o \in previous}
                        \cup {offer}
        /\ opStatus' = IF quotesSettled(calls) THEN "QUOTED" ELSE "SCANNING"
        /\ UNCHANGED <<briefing, calls, commitment, evidence>>

(***************************************************************************)
(* The commitment.                                                         *)
(***************************************************************************)
Standing == commitment # None /\ commitment.status \notin Retired

IsCurrent(id) == commitment # None /\ commitment.id = id

canStage(offerId) == offerBookable(offers, offerId) /\ ~Standing

stageBooking(offerId, callId) ==
    /\ canStage(offerId)
    /\ minted.commitment < MaxCommitments
    /\ minted' = [minted EXCEPT !.commitment = @ + 1]
    /\ \E o \in offers :
          /\ o.id = offerId
          /\ commitment' = [id                  |-> minted.commitment + 1,
                            carrierId           |-> o.carrierId,
                            offerId             |-> offerId,
                            bookingCallId       |-> callId,
                            status              |-> "PROPOSED",
                            tokenExpired        |-> FALSE,
                            verballyConfirmedAt |-> FALSE,
                            recapSentAt         |-> FALSE,
                            committedAt         |-> FALSE]
    /\ opStatus' = "BOOKING"
    /\ UNCHANGED <<briefing, calls, offers, evidence>>

\* Mutant: whatever stands is confirmed, whichever commitment was named.
canConfirmWhateverStands(id, token) ==
    /\ commitment # None
    /\ ~commitment.tokenExpired
    /\ token = commitment.id
    /\ offerBookable(offers, commitment.offerId)
    /\ canTransitionCommitment(commitment.status, "VERBALLY_CONFIRMED")

\* The token a commitment was staged with is the only one that hashes to its
\* hash; a token is named by that commitment's id.
canConfirm(id, token) ==
    /\ IsCurrent(id)
    /\ ~commitment.tokenExpired
    /\ token = id
    /\ offerBookable(offers, commitment.offerId)
    /\ canTransitionCommitment(commitment.status, "VERBALLY_CONFIRMED")

confirmBooking(id, token) ==
    /\ canConfirm(id, token)
    /\ commitment' = [commitment EXCEPT !.status = "VERBALLY_CONFIRMED",
                                        !.verballyConfirmedAt = TRUE]
    /\ UNCHANGED <<briefing, opStatus, calls, offers, evidence, minted>>

canMarkRecap(id) ==
    IsCurrent(id) /\ canTransitionCommitment(commitment.status, "RECAP_SENT")

\* Mutant: the evidence is not compared with the commitment it is for.
markRecapSentAnyEvidence(id) ==
    /\ canMarkRecap(id)
    /\ IF evidence # None
       THEN /\ commitment' = [commitment EXCEPT !.status = "COMMITTED",
                                                !.recapSentAt = TRUE,
                                                !.committedAt = TRUE]
            /\ opStatus' = "COMMITTED"
       ELSE /\ commitment' = [commitment EXCEPT !.status = "RECAP_SENT",
                                                !.recapSentAt = TRUE]
            /\ UNCHANGED opStatus
    /\ UNCHANGED <<briefing, calls, offers, evidence, minted>>

\* With the audio already linked the recap completes the commitment, through
\* EVIDENCE_LINKED to COMMITTED in the same mutation.
markRecapSent(id) ==
    /\ canMarkRecap(id)
    /\ IF evidence = id
       THEN /\ commitment' = [commitment EXCEPT !.status = "COMMITTED",
                                                !.recapSentAt = TRUE,
                                                !.committedAt = TRUE]
            /\ opStatus' = "COMMITTED"
       ELSE /\ commitment' = [commitment EXCEPT !.status = "RECAP_SENT",
                                                !.recapSentAt = TRUE]
            /\ UNCHANGED opStatus
    /\ UNCHANGED <<briefing, calls, offers, evidence, minted>>

canSupersede(id) ==
    IsCurrent(id) /\ canTransitionCommitment(commitment.status, "SUPERSEDED")

\* Mutant: the operation keeps the status the agreement gave it.
supersedeCommitmentKeepsStatus(id) ==
    /\ canSupersede(id)
    /\ commitment' = [commitment EXCEPT !.status = "SUPERSEDED"]
    /\ evidence' = None
    /\ UNCHANGED <<briefing, opStatus, calls, offers, minted>>

supersedeCommitment(id) ==
    /\ canSupersede(id)
    /\ commitment' = [commitment EXCEPT !.status = "SUPERSEDED"]
    /\ evidence' = None
    /\ opStatus' = "AT_RISK"
    /\ UNCHANGED <<briefing, calls, offers, minted>>

canLink(id) == IsCurrent(id) /\ commitment.status # "PROPOSED"

\* Mutant: the audio completes a commitment whose recap was not sent.
linkEvidenceWithoutRecap(id) ==
    /\ canLink(id)
    /\ evidence' = id
    /\ IF commitment.status \in {"VERBALLY_CONFIRMED", "RECAP_SENT"}
       THEN /\ commitment' = [commitment EXCEPT !.status = "COMMITTED",
                                                !.committedAt = TRUE]
            /\ opStatus' = "COMMITTED"
       ELSE UNCHANGED <<commitment, opStatus>>
    /\ UNCHANGED <<briefing, calls, offers, minted>>

\* Mutant: the timestamp of the recap is taken for the status it led to.
linkEvidenceOnTimestamp(id) ==
    /\ canLink(id)
    /\ evidence' = id
    /\ IF commitment.recapSentAt
       THEN /\ commitment' = [commitment EXCEPT !.status = "COMMITTED",
                                                !.committedAt = TRUE]
            /\ opStatus' = "COMMITTED"
       ELSE UNCHANGED <<commitment, opStatus>>
    /\ UNCHANGED <<briefing, calls, offers, minted>>

\* With the recap already sent the audio completes the commitment.
linkEvidence(id) ==
    /\ canLink(id)
    /\ evidence' = id
    /\ IF commitment.status = "RECAP_SENT"
       THEN /\ commitment' = [commitment EXCEPT !.status = "COMMITTED",
                                                !.committedAt = TRUE]
            /\ opStatus' = "COMMITTED"
       ELSE UNCHANGED <<commitment, opStatus>>
    /\ UNCHANGED <<briefing, calls, offers, minted>>

\* The twenty minutes of the staged token pass, as far as anybody looks: a
\* commitment that left PROPOSED never asks for its token again.
expireToken ==
    /\ commitment # None
    /\ commitment.status = "PROPOSED"
    /\ ~commitment.tokenExpired
    /\ commitment' = [commitment EXCEPT !.tokenExpired = TRUE]
    /\ UNCHANGED <<briefing, opStatus, calls, offers, evidence, minted>>

\* Back to the seed; ids already handed out stay handed out.
resetSnapshot ==
    /\ briefing' = SeedBriefing
    /\ opStatus' = "DRAFT"
    /\ calls' = <<>>
    /\ offers' = {}
    /\ commitment' = None
    /\ evidence' = None
    /\ UNCHANGED minted

(***************************************************************************)
(* Properties of the mutations, whoever interleaves them.                  *)
(***************************************************************************)
\* The offers of a carrier are its revisions 1 to n, and exactly the last of
\* them stands: whatever calls and tools race, no carrier has two live offers
\* to be ranked, and no revision of the counter budget is spent twice.
OneStandingOffer ==
    \A k \in Carriers :
        LET own == {o \in offers : o.carrierId = k}
        IN  /\ {o.revision : o \in own} = 1..Cardinality(own)
            /\ \A o \in own : o.superseded <=> o.revision < Cardinality(own)

\* At the moment a booking is confirmed its terms satisfy the briefing that is
\* in force, the counter budget included: the confirmation trusts the verdict
\* stored with the offer.  Holds while the briefing stays as it is.
ConfirmedWithinMandate ==
    [][(/\ commitment # None /\ commitment.status = "PROPOSED"
        /\ commitment' # None /\ commitment'.id = commitment.id
        /\ commitment'.status = "VERBALLY_CONFIRMED") =>
          \E o \in offers :
              /\ o.id = commitment.offerId
              /\ evaluateOffer(briefing, o.terms, o.revision) = {}]_snapshotVars

=============================================================================
