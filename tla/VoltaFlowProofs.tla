--------------------------- MODULE VoltaFlowProofs ---------------------------
(***************************************************************************)
(* Proofs about the two specifications that interleave the mutations of    *)
(* VoltaStore, for any carriers, briefings, offer terms and bounds:        *)
(* BookingFlow, where handlers book and verify, and MarketFlow, where      *)
(* reports of calls work the market.                                       *)
(*                                                                         *)
(* FlowInv is the inductive invariant of BookingFlow.  CommittedIsProven   *)
(* is not inductive by itself: what a status promises must be known for    *)
(* every status on the way (StatusEarned, ProposedIsBare), a recap about   *)
(* to be marked must have been delivered (MarkedIsDelivered), neither      *)
(* evidence nor a confirmation in flight may be of a commitment yet to be  *)
(* staged (IdsMinted, JudgedIsNamed), and a call about to be placed is to  *)
(* a carrier of the operation (CallsACarrier).                             *)
(*                                                                         *)
(* What both share comes first: the types of the mutations, and            *)
(* OffersNumbered, the numbering of a carrier's offers; and last, that the *)
(* ranking of numbered offers has one head.  MarketInv, the inductive      *)
(* invariant of MarketFlow, and BookedOnce are explained where they stand. *)
(***************************************************************************)
EXTENDS BookingFlow, MarketFlow, FiniteSetTheorems, TLAPS

\* The statuses some code of the system ever gives a commitment.
Reached == {"PROPOSED", "VERBALLY_CONFIRMED", "RECAP_SENT", "COMMITTED", "SUPERSEDED"}

StatusEarned ==
    commitment # None =>
        /\ commitment.status \in Reached
        /\ commitment.status \in {"VERBALLY_CONFIRMED", "RECAP_SENT", "COMMITTED"}
              => commitment.verballyConfirmedAt
        /\ commitment.status \in {"RECAP_SENT", "COMMITTED"}
              => commitment.recapSentAt /\ commitment.id \in delivered
        /\ commitment.status = "COMMITTED"
              => commitment.committedAt /\ evidence = commitment.id

\* What a commitment does not have yet.
ProposedIsBare ==
    commitment # None =>
        /\ commitment.status = "PROPOSED" =>
              /\ ~commitment.verballyConfirmedAt
              /\ evidence # commitment.id
        /\ commitment.status \in {"PROPOSED", "VERBALLY_CONFIRMED"}
              => ~commitment.recapSentAt
        /\ commitment.status = "RECAP_SENT" => evidence # commitment.id

IdsMinted ==
    /\ commitment # None => commitment.id <= minted.commitment
    /\ evidence # None => evidence <= minted.commitment

\* A recap is marked after it was delivered.
MarkedIsDelivered ==
    \A h \in Handlers : handler[h].op = "mark" => handler[h].id \in delivered

\* A confirming handler names a commitment already staged; and what it was
\* judged on is that commitment, as long as it is the current one.
JudgedIsNamed ==
    \A h \in Handlers :
        handler[h].op = "confirm" =>
            /\ handler[h].id <= minted.commitment
            /\ (commitment # None /\ commitment.id = handler[h].id)
                  => handler[h].ref = handler[h].id

\* A handler that is to place a call knows a carrier to call.
CallsACarrier ==
    \A h \in Handlers :
        handler[h].op \in {"call_booking", "supersede", "call_renegotiation"}
            => handler[h].ref \in Carriers

\* What the mutations of the store preserve, and what the handlers add.
SnapshotInv ==
    /\ SnapshotTypeOK
    /\ delivered \subseteq Nat
    /\ StatusEarned
    /\ ProposedIsBare
    /\ IdsMinted
    /\ CommittedOperationHasCommitment

HandlerInv ==
    /\ handler \in [Handlers -> HandlerState]
    /\ MarkedIsDelivered
    /\ JudgedIsNamed
    /\ CallsACarrier

FlowInv == SnapshotInv /\ HandlerInv

\* A step keeps the current commitment, drops it, or stages a fresh one.
Advances ==
    /\ minted.commitment <= minted'.commitment
    /\ commitment' # None =>
          \/ commitment # None /\ commitment'.id = commitment.id
          \/ commitment'.id > minted.commitment

(***************************************************************************)
(* The status table, read backwards.                                       *)
(***************************************************************************)
LEMMA TransitionSources ==
    ASSUME NEW from \in CommitmentStatus
    PROVE  /\ canTransitionCommitment(from, "VERBALLY_CONFIRMED") => from = "PROPOSED"
           /\ canTransitionCommitment(from, "RECAP_SENT") => from = "VERBALLY_CONFIRMED"
           /\ canTransitionCommitment(from, "SUPERSEDED") =>
                from \in {"PROPOSED", "VERBALLY_CONFIRMED", "RECAP_SENT",
                          "EVIDENCE_LINKED", "COMMITTED"}
  BY DEF CommitmentStatus, canTransitionCommitment, transitions

(***************************************************************************)
(* The mutations of the store keep the snapshot well typed.                *)
(***************************************************************************)
LEMMA CallsTyped ==
    ASSUME SnapshotTypeOK,
           \/ \E mode \in CallMode, k \in Carriers : createCall(mode, k)
           \/ \E c \in DOMAIN calls, s \in CallStatus : updateCall(c, s)
    PROVE  SnapshotTypeOK'
  <1>1. ASSUME NEW mode \in CallMode, NEW k \in Carriers, createCall(mode, k)
        PROVE  SnapshotTypeOK'
    <2>1. minted.call \in Nat /\ minted' \in [call : Nat, offer : Nat, commitment : Nat]
          /\ minted'.call = minted.call + 1
      BY <1>1 DEF createCall, SnapshotTypeOK
    <2>2. DOMAIN calls' = DOMAIN calls \cup {minted.call + 1}
      BY <1>1 DEF createCall
    <2>3. DOMAIN calls' \subseteq 1..minted'.call
      BY <2>1, <2>2 DEF SnapshotTypeOK
    <2>4. \A c \in DOMAIN calls' : calls'[c] \in CallAttempt
      BY <1>1 DEF createCall, SnapshotTypeOK, CallAttempt, CallStatus
    <2> QED
      BY <1>1, <2>1, <2>3, <2>4 DEF createCall, SnapshotTypeOK
  <1>2. ASSUME NEW c \in DOMAIN calls, NEW s \in CallStatus, updateCall(c, s)
        PROVE  SnapshotTypeOK'
    <2>1. DOMAIN calls' = DOMAIN calls
      BY <1>2 DEF updateCall
    <2>2. \A d \in DOMAIN calls' : calls'[d] \in CallAttempt
      BY <1>2 DEF updateCall, SnapshotTypeOK, CallAttempt
    <2>3. opStatus' \in OperationStatus
      BY <1>2 DEF updateCall, SnapshotTypeOK, OperationStatus
    <2> QED
      BY <1>2, <2>1, <2>2, <2>3 DEF updateCall, SnapshotTypeOK
  <1> QED
    BY <1>1, <1>2

LEMMA OffersTyped ==
    ASSUME SnapshotTypeOK, NEW k \in Carriers, NEW t \in OfferTerms, recordOffer(k, t)
    PROVE  SnapshotTypeOK'
  <1> DEFINE previous == previousOffer(k)
             revision == IF previous = {} THEN 1
                         ELSE (CHOOSE o \in previous : TRUE).revision + 1
  <1>1. previous \subseteq Offer
    BY DEF previousOffer, SnapshotTypeOK
  <1>2. revision \in Nat
    <2>1. CASE previous = {}
      BY <2>1
    <2>2. CASE previous # {}
      <3>1. (CHOOSE o \in previous : TRUE) \in Offer
        BY <1>1, <2>2
      <3> QED
        BY <2>2, <3>1 DEF Offer
    <2> QED
      BY <2>1, <2>2
  <1>3. {[o EXCEPT !.superseded = TRUE] : o \in previous} \subseteq Offer
    BY <1>1 DEF Offer
  <1>4. [id         |-> minted.offer + 1,
         carrierId  |-> k,
         terms      |-> t,
         revision   |-> revision,
         eligible   |-> evaluateOffer(briefing, t, revision) = {},
         superseded |-> FALSE] \in Offer
    BY <1>2 DEF Offer, SnapshotTypeOK
  <1>5. offers' \subseteq Offer
    BY <1>1, <1>3, <1>4 DEF recordOffer, SnapshotTypeOK
  <1>6. minted' \in [call : Nat, offer : Nat, commitment : Nat] /\ minted'.call = minted.call
    BY DEF recordOffer, SnapshotTypeOK
  <1>7. opStatus' \in OperationStatus
    BY DEF recordOffer, OperationStatus
  <1> QED
    BY <1>5, <1>6, <1>7 DEF recordOffer, SnapshotTypeOK

(***************************************************************************)
(* The offers of a carrier are numbered 1 to n, one to a number, and the   *)
(* last one stands.                                                        *)
(***************************************************************************)
OffersOf(k) == {o \in offers : o.carrierId = k}

OffersNumbered ==
    /\ IsFiniteSet(offers)
    /\ OneStandingOffer
    /\ \A o, p \in offers :
          (o.carrierId = p.carrierId /\ o.revision = p.revision) => o = p

\* A market nobody has quoted yet is numbered.
LEMMA NoOffersNumbered ==
    /\ IsFiniteSet({})
    /\ \A k : LET own == {o \in {} : o.carrierId = k}
             IN  /\ {o.revision : o \in own} = 1..Cardinality(own)
                 /\ \A o \in own : o.superseded <=> o.revision < Cardinality(own)
  <1>1. \A k : {o \in {} : o.carrierId = k} = {}
    OBVIOUS
  <1>2. {o.revision : o \in {}} = 1..0
    OBVIOUS
  <1> QED
    BY <1>1, <1>2, FS_EmptySet

\* A carrier's next position takes the next number and retires the one before.
LEMMA RecordOfferNumbers ==
    ASSUME SnapshotTypeOK, OffersNumbered,
           NEW k \in Carriers, NEW t \in OfferTerms, recordOffer(k, t)
    PROVE  OffersNumbered'
  <1> DEFINE own      == OffersOf(k)
             n        == Cardinality(own)
             previous == previousOffer(k)
  <1>1. /\ offers \subseteq Offer /\ minted.offer \in Nat
        /\ own \subseteq offers /\ IsFiniteSet(own) /\ n \in Nat
        /\ {o.revision : o \in own} = 1..n
        /\ \A o \in own : o.superseded <=> o.revision < n
    BY FS_Subset, FS_CardinalityType
    DEF OffersNumbered, OneStandingOffer, OffersOf, SnapshotTypeOK
  <1>2. PICK new :
           /\ new = [id         |-> minted.offer + 1,
                     carrierId  |-> k,
                     terms      |-> t,
                     revision   |-> IF previous = {} THEN 1
                                    ELSE (CHOOSE o \in previous : TRUE).revision + 1,
                     eligible   |-> evaluateOffer(briefing, t,
                                       IF previous = {} THEN 1
                                       ELSE (CHOOSE o \in previous : TRUE).revision + 1) = {},
                     superseded |-> FALSE]
           /\ offers' = (offers \ previous)
                           \cup {[o EXCEPT !.superseded = TRUE] : o \in previous}
                           \cup {new}
    BY DEF recordOffer
  <1>3. new.carrierId = k /\ ~new.superseded
    BY <1>2
  \* What the mutation does to the carrier's own offers.
  <1>4. PICK kept, old :
           /\ kept \subseteq own /\ old \subseteq Offer
           /\ offers' = (offers \ own) \cup kept \cup old \cup {new}
           /\ new.revision = n + 1
           /\ \A o \in kept : o.revision < n
           /\ \A o \in old : o.carrierId = k /\ o.revision = n /\ o.superseded
           /\ \A o, p \in old : o = p
           /\ {o.revision : o \in kept \cup old} = 1..n
           /\ IsFiniteSet(kept \cup old) /\ Cardinality(kept \cup old) = n
    <2>1. CASE own = {}
      <3>1. n = 0 /\ previous = {}
        BY <2>1, FS_EmptySet DEF OffersOf, previousOffer
      <3>2. new.revision = 1
        BY <1>2, <3>1
      <3>3. offers' = (offers \ own) \cup {} \cup {} \cup {new}
        BY <1>2, <2>1, <3>1
      <3>4. {o.revision : o \in {} \cup {}} = 1..n
        BY <3>1
      <3> WITNESS {}, {}
      <3> QED
        BY <2>1, <3>1, <3>2, <3>3, <3>4, FS_EmptySet
    <2>2. CASE own # {}
      <3>1. n # 0
        BY <1>1, <2>2, FS_EmptySet
      <3>2. PICK p \in own : p.revision = n
        BY <1>1, <3>1
      <3>3. \A o \in own : o.revision \in 1..n
        BY <1>1
      <3>4. p \in Offer /\ p \in offers /\ p.carrierId = k
        BY <1>1 DEF OffersOf
      <3>5. p \in previous
        BY <1>1, <3>2, <3>3, <3>4 DEF previousOffer, OffersOf
      <3>6. \A q \in previous : q = p
        <4> SUFFICES ASSUME NEW q \in previous PROVE q = p
          OBVIOUS
        <4>1. q \in own /\ q \in offers /\ p.revision <= q.revision
          BY <3>4 DEF previousOffer, OffersOf
        <4>2. q.revision = p.revision
          BY <1>1, <3>2, <3>3, <4>1
        <4> QED
          BY <3>4, <4>1, <4>2 DEF OffersNumbered, OffersOf
      <3>7. previous = {p} /\ (CHOOSE o \in previous : TRUE) = p
        BY <3>5, <3>6
      <3>8. new.revision = n + 1
        BY <1>2, <3>2, <3>7
      <3>9. PICK q : q = [p EXCEPT !.superseded = TRUE]
        OBVIOUS
      <3>10. q \in Offer /\ q.carrierId = k /\ q.revision = n /\ q.superseded
        BY <3>2, <3>4, <3>9 DEF Offer
      <3>11. offers' = (offers \ own) \cup (own \ {p}) \cup {q} \cup {new}
        BY <1>1, <1>2, <3>7, <3>9
      <3>12. \A o \in own \ {p} : o.revision < n
        <4> SUFFICES ASSUME NEW o \in own, o # p PROVE o.revision < n
          OBVIOUS
        <4>1. o.revision # n
          BY <3>2, <3>4 DEF OffersNumbered, OffersOf
        <4> QED
          BY <1>1, <3>3, <4>1
      <3>13. {o.revision : o \in (own \ {p}) \cup {q}} = 1..n
        BY <1>1, <3>2, <3>10
      <3>14. q \notin own \ {p}
        BY <1>1, <3>10, <3>12
      <3>15. IsFiniteSet(own \ {p}) /\ Cardinality(own \ {p}) = n - 1
        BY <1>1, FS_RemoveElement
      <3>16. /\ IsFiniteSet((own \ {p}) \cup {q})
             /\ Cardinality((own \ {p}) \cup {q}) = n - 1 + 1
        BY <3>14, <3>15, FS_AddElement
      <3>17. Cardinality((own \ {p}) \cup {q}) = n
        BY <1>1, <3>16
      <3> WITNESS own \ {p}, {q}
      <3> QED
        BY <3>8, <3>10, <3>11, <3>12, <3>13, <3>16, <3>17
    <2> QED
      BY <2>1, <2>2
  <1>5. \A o \in own : o.carrierId = k
    BY DEF OffersOf
  <1>6. \A o \in offers \ own : o.carrierId # k
    BY DEF OffersOf
  <1>7. OffersOf(k)' = kept \cup old \cup {new}
    BY <1>3, <1>4, <1>5, <1>6 DEF OffersOf
  <1>8. \A j \in Carriers : j # k => OffersOf(j)' = OffersOf(j)
    BY <1>3, <1>4, <1>5 DEF OffersOf
  <1>9. \A o \in kept \cup old : o.revision \in 1..n
    BY <1>4
  <1>10. new \notin kept \cup old
    BY <1>1, <1>4, <1>9
  <1>11. Cardinality(OffersOf(k)') = n + 1
    <2> DEFINE before == kept \cup old
    <2>1. IsFiniteSet(before) /\ Cardinality(before) = n /\ new \notin before
      BY <1>4, <1>10
    <2>2. OffersOf(k)' = before \cup {new}
      BY <1>7
    <2> HIDE DEF before, n
    <2> QED
      BY <2>1, <2>2, FS_AddElement
  <1>12. IsFiniteSet(offers')
    <2>1. IsFiniteSet(offers \ own)
      BY FS_Difference DEF OffersNumbered
    <2>2. IsFiniteSet((offers \ own) \cup (kept \cup old))
      BY <1>4, <2>1, FS_Union
    <2>3. offers' = ((offers \ own) \cup (kept \cup old)) \cup {new}
      BY <1>4
    <2> QED
      BY <2>2, <2>3, FS_AddElement
  <1>13. {o.revision : o \in OffersOf(k)'} = 1..(n + 1)
    BY <1>1, <1>4, <1>7
  <1>14. \A o \in OffersOf(k)' : o.superseded <=> o.revision < n + 1
    BY <1>1, <1>3, <1>4, <1>7
  <1>15. OneStandingOffer'
    <2> SUFFICES ASSUME NEW j \in Carriers
                 PROVE  /\ {o.revision : o \in OffersOf(j)'} = 1..Cardinality(OffersOf(j)')
                        /\ \A o \in OffersOf(j)' :
                              o.superseded <=> o.revision < Cardinality(OffersOf(j)')
      BY DEF OneStandingOffer, OffersOf
    <2>1. CASE j = k
      BY <1>11, <1>13, <1>14, <2>1
    <2>2. CASE j # k
      BY <1>8, <2>2 DEF OffersNumbered, OneStandingOffer, OffersOf
    <2> QED
      BY <2>1, <2>2
  <1>16. ASSUME NEW o \in offers', NEW p \in offers',
                o.carrierId = p.carrierId, o.revision = p.revision
         PROVE  o = p
    <2>1. CASE o \in offers \ own
      <3>1. p \in offers
        BY <1>3, <1>4, <1>5, <1>6, <1>16, <2>1
      <3> QED
        BY <1>16, <2>1, <3>1 DEF OffersNumbered
    <2>2. CASE o \in kept \cup old \cup {new}
      <3>1. p \in kept \cup old \cup {new}
        BY <1>3, <1>4, <1>5, <1>6, <1>16, <2>2
      <3>2. CASE o \in kept /\ p \in kept
        BY <1>1, <1>4, <1>16, <3>2 DEF OffersNumbered
      <3>3. CASE o \in old /\ p \in old
        BY <1>4, <3>3
      <3>4. \A q \in kept : q.revision \in Nat /\ q.revision < n
        BY <1>4, <1>9
      <3>5. \A q \in old : q.revision = n
        BY <1>4
      <3> QED
        BY <1>1, <1>4, <1>16, <2>2, <3>1, <3>2, <3>3, <3>4, <3>5
    <2> QED
      BY <1>4, <2>1, <2>2
  <1> QED
    BY <1>12, <1>15, <1>16 DEF OffersNumbered

(***************************************************************************)
(* Every mutation preserves SnapshotInv.                                   *)
(***************************************************************************)
LEMMA OtherMutationsPreserve ==
    ASSUME SnapshotInv, SnapshotTypeOK', delivered' = delivered,
           UNCHANGED <<commitment, evidence>>, minted'.commitment = minted.commitment,
           opStatus' = "COMMITTED" => opStatus = "COMMITTED"
    PROVE  SnapshotInv' /\ Advances
  <1>1. SnapshotTypeOK => minted.commitment \in Nat
    BY DEF SnapshotTypeOK
  <1> QED
    BY <1>1 DEF SnapshotInv, StatusEarned, ProposedIsBare, IdsMinted, Advances,
                CommittedOperationHasCommitment

LEMMA CallsPreserve ==
    ASSUME SnapshotInv, delivered' = delivered,
           \/ \E mode \in CallMode, k \in Carriers : createCall(mode, k)
           \/ \E c \in DOMAIN calls, s \in CallStatus : updateCall(c, s)
    PROVE  SnapshotInv' /\ Advances
  <1>1. SnapshotTypeOK'
    BY CallsTyped DEF SnapshotInv
  <1>2. /\ UNCHANGED <<commitment, evidence>>
        /\ minted'.commitment = minted.commitment
        /\ opStatus' = "COMMITTED" => opStatus = "COMMITTED"
    BY DEF createCall, updateCall, SnapshotInv, SnapshotTypeOK
  <1> QED
    BY <1>1, <1>2, OtherMutationsPreserve

LEMMA RecordOfferPreserves ==
    ASSUME SnapshotInv, delivered' = delivered,
           NEW k \in Carriers, NEW t \in OfferTerms, recordOffer(k, t)
    PROVE  SnapshotInv' /\ Advances
  <1>1. SnapshotTypeOK'
    BY OffersTyped DEF SnapshotInv
  <1>2. /\ UNCHANGED <<commitment, evidence>>
        /\ minted'.commitment = minted.commitment
        /\ opStatus' = "COMMITTED" => opStatus = "COMMITTED"
    BY DEF recordOffer, SnapshotInv, SnapshotTypeOK
  <1> QED
    BY <1>1, <1>2, OtherMutationsPreserve

LEMMA UpdateConfigurationPreserves ==
    ASSUME SnapshotInv, delivered' = delivered, NEW b \in Briefings, updateConfiguration(b)
    PROVE  SnapshotInv' /\ Advances
  <1>1. SnapshotTypeOK'
    BY DEF SnapshotInv, SnapshotTypeOK, updateConfiguration
  <1>2. /\ UNCHANGED <<commitment, evidence>>
        /\ minted'.commitment = minted.commitment
        /\ opStatus' = "COMMITTED" => opStatus = "COMMITTED"
    BY DEF updateConfiguration
  <1> QED
    BY <1>1, <1>2, OtherMutationsPreserve

LEMMA StagedCommitment ==
    ASSUME SnapshotInv, NEW offerId \in Nat, NEW callId \in Nat,
           stageBooking(offerId, callId)
    PROVE  /\ commitment' \in Commitment
           /\ commitment' # None
           /\ commitment'.id = minted.commitment + 1
           /\ commitment'.status = "PROPOSED"
           /\ ~commitment'.verballyConfirmedAt
           /\ ~commitment'.recapSentAt
  <1>1. PICK o \in offers :
           commitment' = [id                  |-> minted.commitment + 1,
                          carrierId           |-> o.carrierId,
                          offerId             |-> offerId,
                          bookingCallId       |-> callId,
                          status              |-> "PROPOSED",
                          tokenExpired        |-> FALSE,
                          verballyConfirmedAt |-> FALSE,
                          recapSentAt         |-> FALSE,
                          committedAt         |-> FALSE]
    BY DEF stageBooking
  <1>2. o.carrierId \in Carriers
    BY DEF SnapshotInv, SnapshotTypeOK, Offer
  <1>3. minted.commitment \in Nat
    BY DEF SnapshotInv, SnapshotTypeOK
  <1>4. commitment' \in Commitment
    BY <1>1, <1>2, <1>3 DEF Commitment, CommitmentStatus
  <1>5. commitment' # None
    BY <1>4, StoreConstants
  <1> QED
    BY <1>1, <1>4, <1>5

LEMMA StageBookingPreserves ==
    ASSUME SnapshotInv, delivered' = delivered,
           NEW offerId \in Nat, NEW callId \in Nat, stageBooking(offerId, callId)
    PROVE  SnapshotInv' /\ Advances
  <1>1. /\ commitment'.id = minted.commitment + 1
        /\ commitment'.status = "PROPOSED"
        /\ ~commitment'.verballyConfirmedAt
        /\ ~commitment'.recapSentAt
    BY StagedCommitment
  <1>3. minted.commitment \in Nat
    BY DEF SnapshotInv, SnapshotTypeOK
  <1>4. commitment' \in Commitment
    BY StagedCommitment
  <1>5. /\ minted' \in [call : Nat, offer : Nat, commitment : Nat]
        /\ minted'.commitment = minted.commitment + 1
        /\ minted'.call = minted.call
        /\ opStatus' = "BOOKING"
        /\ UNCHANGED <<briefing, calls, offers, evidence>>
    BY DEF stageBooking, SnapshotInv, SnapshotTypeOK
  <1>6. SnapshotTypeOK'
    BY <1>4, <1>5 DEF SnapshotInv, SnapshotTypeOK, OperationStatus
  <1>7. evidence \in Nat \cup {None} /\ None \notin Nat
    BY StoreConstants DEF SnapshotInv, SnapshotTypeOK
  <1>8. evidence' # commitment'.id
    BY <1>1, <1>3, <1>5, <1>7 DEF SnapshotInv, IdsMinted
  <1>9. StatusEarned' /\ ProposedIsBare' /\ CommittedOperationHasCommitment'
    BY <1>1, <1>5, <1>8
    DEF StatusEarned, ProposedIsBare, CommittedOperationHasCommitment, Reached
  <1>10. IdsMinted'
    BY <1>1, <1>3, <1>5, <1>7 DEF SnapshotInv, IdsMinted
  <1>11. Advances
    BY <1>1, <1>3, <1>5 DEF Advances
  <1> QED
    BY <1>6, <1>9, <1>10, <1>11 DEF SnapshotInv

\* The standing commitment as the mutations below find it.
LEMMA CommitmentTyped ==
    ASSUME SnapshotInv
    PROVE  /\ minted.commitment \in Nat
           /\ None \notin Nat
           /\ None \notin Commitment
           /\ commitment # None => /\ commitment \in Commitment
                                   /\ commitment.id \in Nat
                                   /\ commitment.status \in CommitmentStatus
  BY StoreConstants DEF SnapshotInv, SnapshotTypeOK, Commitment

LEMMA ConfirmBookingPreserves ==
    ASSUME SnapshotInv, delivered' = delivered, NEW id, NEW token, confirmBooking(id, token)
    PROVE  SnapshotInv' /\ Advances
  <1>1. commitment # None /\ commitment.status = "PROPOSED"
    BY CommitmentTyped, TransitionSources DEF confirmBooking, canConfirm, IsCurrent
  <1>2. /\ commitment' = [commitment EXCEPT !.status = "VERBALLY_CONFIRMED",
                                            !.verballyConfirmedAt = TRUE]
        /\ UNCHANGED <<briefing, opStatus, calls, offers, evidence, minted>>
    BY DEF confirmBooking
  <1>3. /\ commitment' \in Commitment
        /\ commitment'.id = commitment.id
        /\ commitment'.status = "VERBALLY_CONFIRMED"
        /\ commitment'.verballyConfirmedAt
        /\ commitment'.recapSentAt = commitment.recapSentAt
    BY <1>1, <1>2, CommitmentTyped DEF Commitment, CommitmentStatus
  <1>4. SnapshotTypeOK'
    BY <1>2, <1>3 DEF SnapshotInv, SnapshotTypeOK
  <1>5. StatusEarned' /\ ProposedIsBare' /\ IdsMinted' /\ CommittedOperationHasCommitment'
    BY <1>1, <1>2, <1>3
    DEF SnapshotInv, StatusEarned, ProposedIsBare, IdsMinted,
        CommittedOperationHasCommitment, Reached
  <1>6. Advances
    BY <1>1, <1>2, <1>3, CommitmentTyped DEF Advances
  <1> QED
    BY <1>4, <1>5, <1>6 DEF SnapshotInv

LEMMA MarkRecapSentPreserves ==
    ASSUME SnapshotInv, delivered' = delivered, NEW id \in delivered, markRecapSent(id)
    PROVE  SnapshotInv' /\ Advances
  <1>1. /\ commitment # None
        /\ commitment.id = id
        /\ commitment.status = "VERBALLY_CONFIRMED"
    BY CommitmentTyped, TransitionSources DEF markRecapSent, canMarkRecap, IsCurrent
  <1>2. commitment.verballyConfirmedAt
    BY <1>1 DEF SnapshotInv, StatusEarned
  <1>3. UNCHANGED <<briefing, calls, offers, evidence, minted>>
    BY DEF markRecapSent
  <1>4. CASE evidence = id
    <2>1. /\ commitment' = [commitment EXCEPT !.status = "COMMITTED",
                                              !.recapSentAt = TRUE,
                                              !.committedAt = TRUE]
          /\ opStatus' = "COMMITTED"
      BY <1>4 DEF markRecapSent
    <2>2. /\ commitment' \in Commitment
          /\ commitment'.id = commitment.id
          /\ commitment'.status = "COMMITTED"
          /\ commitment'.verballyConfirmedAt
          /\ commitment'.recapSentAt
          /\ commitment'.committedAt
      BY <1>1, <1>2, <2>1, CommitmentTyped DEF Commitment, CommitmentStatus
    <2>3. SnapshotTypeOK'
      BY <1>3, <2>1, <2>2 DEF SnapshotInv, SnapshotTypeOK, OperationStatus
    <2>4. commitment' # None
      BY <2>2, CommitmentTyped
    <2>5. StatusEarned' /\ ProposedIsBare' /\ IdsMinted' /\ CommittedOperationHasCommitment'
      BY <1>1, <1>3, <1>4, <2>1, <2>2, <2>4
      DEF SnapshotInv, StatusEarned, ProposedIsBare, IdsMinted,
          CommittedOperationHasCommitment, Reached
    <2>6. Advances
      BY <1>1, <1>3, <2>2, CommitmentTyped DEF Advances
    <2> QED
      BY <2>3, <2>5, <2>6 DEF SnapshotInv
  <1>5. CASE evidence # id
    <2>1. /\ commitment' = [commitment EXCEPT !.status = "RECAP_SENT",
                                              !.recapSentAt = TRUE]
          /\ opStatus' = opStatus
      BY <1>5 DEF markRecapSent
    <2>2. /\ commitment' \in Commitment
          /\ commitment'.id = commitment.id
          /\ commitment'.status = "RECAP_SENT"
          /\ commitment'.verballyConfirmedAt
          /\ commitment'.recapSentAt
      BY <1>1, <1>2, <2>1, CommitmentTyped DEF Commitment, CommitmentStatus
    <2>3. SnapshotTypeOK'
      BY <1>3, <2>1, <2>2 DEF SnapshotInv, SnapshotTypeOK
    <2>4. StatusEarned' /\ ProposedIsBare' /\ IdsMinted' /\ CommittedOperationHasCommitment'
      BY <1>1, <1>3, <1>5, <2>1, <2>2
      DEF SnapshotInv, StatusEarned, ProposedIsBare, IdsMinted,
          CommittedOperationHasCommitment, Reached
    <2>5. Advances
      BY <1>1, <1>3, <2>2, CommitmentTyped DEF Advances
    <2> QED
      BY <2>3, <2>4, <2>5 DEF SnapshotInv
  <1> QED
    BY <1>4, <1>5

LEMMA SupersedePreserves ==
    ASSUME SnapshotInv, delivered' = delivered, NEW id, supersedeCommitment(id)
    PROVE  SnapshotInv' /\ Advances
  <1>1. commitment # None
    BY DEF supersedeCommitment, canSupersede, IsCurrent
  <1>2. /\ commitment' = [commitment EXCEPT !.status = "SUPERSEDED"]
        /\ evidence' = None
        /\ opStatus' = "AT_RISK"
        /\ UNCHANGED <<briefing, calls, offers, minted>>
    BY DEF supersedeCommitment
  <1>3. /\ commitment' \in Commitment
        /\ commitment'.id = commitment.id
        /\ commitment'.status = "SUPERSEDED"
    BY <1>1, <1>2, CommitmentTyped DEF Commitment, CommitmentStatus
  <1>4. SnapshotTypeOK'
    BY <1>2, <1>3 DEF SnapshotInv, SnapshotTypeOK, OperationStatus
  <1>5. StatusEarned' /\ ProposedIsBare' /\ IdsMinted' /\ CommittedOperationHasCommitment'
    BY <1>1, <1>2, <1>3
    DEF SnapshotInv, StatusEarned, ProposedIsBare, IdsMinted,
        CommittedOperationHasCommitment, Reached
  <1>6. Advances
    BY <1>1, <1>2, <1>3, CommitmentTyped DEF Advances
  <1> QED
    BY <1>4, <1>5, <1>6 DEF SnapshotInv

LEMMA LinkEvidencePreserves ==
    ASSUME SnapshotInv, delivered' = delivered, NEW id \in Nat, linkEvidence(id)
    PROVE  SnapshotInv' /\ Advances
  <1>1. commitment # None /\ commitment.id = id /\ commitment.status # "PROPOSED"
    BY DEF linkEvidence, canLink, IsCurrent
  <1>2. evidence' = id /\ UNCHANGED <<briefing, calls, offers, minted>>
    BY DEF linkEvidence
  <1>3. CASE commitment.status = "RECAP_SENT"
    <2>1. /\ commitment' = [commitment EXCEPT !.status = "COMMITTED", !.committedAt = TRUE]
          /\ opStatus' = "COMMITTED"
      BY <1>3 DEF linkEvidence
    <2>2. /\ commitment' \in Commitment
          /\ commitment'.id = commitment.id
          /\ commitment'.status = "COMMITTED"
          /\ commitment'.verballyConfirmedAt = commitment.verballyConfirmedAt
          /\ commitment'.recapSentAt = commitment.recapSentAt
          /\ commitment'.committedAt
      BY <1>1, <2>1, CommitmentTyped DEF Commitment, CommitmentStatus
    <2>3. SnapshotTypeOK'
      BY <1>2, <2>1, <2>2 DEF SnapshotInv, SnapshotTypeOK, OperationStatus
    <2>4. commitment' # None
      BY <2>2, CommitmentTyped
    <2>5. StatusEarned' /\ ProposedIsBare' /\ IdsMinted' /\ CommittedOperationHasCommitment'
      BY <1>1, <1>2, <1>3, <2>1, <2>2, <2>4
      DEF SnapshotInv, StatusEarned, ProposedIsBare, IdsMinted,
          CommittedOperationHasCommitment, Reached
    <2>6. Advances
      BY <1>1, <1>2, <2>2, CommitmentTyped DEF Advances
    <2> QED
      BY <2>3, <2>5, <2>6 DEF SnapshotInv
  <1>4. CASE commitment.status # "RECAP_SENT"
    <2>1. UNCHANGED <<commitment, opStatus>>
      BY <1>4 DEF linkEvidence
    <2>2. SnapshotTypeOK'
      BY <1>2, <2>1 DEF SnapshotInv, SnapshotTypeOK
    <2>3. StatusEarned' /\ ProposedIsBare' /\ IdsMinted' /\ CommittedOperationHasCommitment'
      BY <1>1, <1>2, <1>4, <2>1
      DEF SnapshotInv, StatusEarned, ProposedIsBare, IdsMinted,
          CommittedOperationHasCommitment, Reached
    <2>4. Advances
      BY <1>1, <1>2, <2>1, CommitmentTyped DEF Advances
    <2> QED
      BY <2>2, <2>3, <2>4 DEF SnapshotInv
  <1> QED
    BY <1>3, <1>4

LEMMA ExpireTokenPreserves ==
    ASSUME SnapshotInv, delivered' = delivered, expireToken
    PROVE  SnapshotInv' /\ Advances
  <1>1. /\ commitment # None
        /\ commitment' = [commitment EXCEPT !.tokenExpired = TRUE]
        /\ UNCHANGED <<briefing, opStatus, calls, offers, evidence, minted>>
    BY DEF expireToken
  <1>2. /\ commitment' \in Commitment
        /\ commitment'.id = commitment.id
        /\ commitment'.status = commitment.status
        /\ commitment'.verballyConfirmedAt = commitment.verballyConfirmedAt
        /\ commitment'.recapSentAt = commitment.recapSentAt
        /\ commitment'.committedAt = commitment.committedAt
    BY <1>1, CommitmentTyped DEF Commitment
  <1>3. SnapshotTypeOK'
    BY <1>1, <1>2 DEF SnapshotInv, SnapshotTypeOK
  <1>4. commitment' # None
    BY <1>2, CommitmentTyped
  <1>5. StatusEarned' /\ ProposedIsBare' /\ IdsMinted' /\ CommittedOperationHasCommitment'
    BY <1>1, <1>2, <1>4
    DEF SnapshotInv, StatusEarned, ProposedIsBare, IdsMinted,
        CommittedOperationHasCommitment
  <1>6. Advances
    BY <1>1, <1>2, CommitmentTyped DEF Advances
  <1> QED
    BY <1>3, <1>5, <1>6 DEF SnapshotInv

LEMMA ResetSnapshotPreserves ==
    ASSUME SnapshotInv, delivered' = delivered, resetSnapshot
    PROVE  SnapshotInv' /\ Advances
  <1>1. /\ briefing' = SeedBriefing
        /\ opStatus' = "DRAFT"
        /\ calls' = <<>>
        /\ offers' = {}
        /\ commitment' = None
        /\ evidence' = None
        /\ minted' = minted
    BY DEF resetSnapshot
  <1>2. SnapshotTypeOK'
    BY <1>1, StoreConstants DEF SnapshotInv, SnapshotTypeOK, OperationStatus
  <1>3. StatusEarned' /\ ProposedIsBare' /\ IdsMinted' /\ CommittedOperationHasCommitment'
    BY <1>1 DEF StatusEarned, ProposedIsBare, IdsMinted, CommittedOperationHasCommitment
  <1>4. Advances
    BY <1>1, CommitmentTyped DEF Advances
  <1> QED
    BY <1>2, <1>3, <1>4 DEF SnapshotInv

(***************************************************************************)
(* The handlers.  A step of the store leaves what a handler knows true; a  *)
(* step of a handler may put that handler in any state that says the truth.*)
(***************************************************************************)
LEMMA OthersKeepTheirWord ==
    ASSUME SnapshotInv, HandlerInv, Advances, delivered \subseteq delivered',
           minted'.commitment \in Nat,
           NEW h \in Handlers, handler'[h] = handler[h]
    PROVE  /\ handler'[h].op = "mark" => handler'[h].id \in delivered'
           /\ handler'[h].op = "confirm" =>
                 /\ handler'[h].id <= minted'.commitment
                 /\ (commitment' # None /\ commitment'.id = handler'[h].id)
                       => handler'[h].ref = handler'[h].id
  <1>1. handler[h].id \in Nat
    BY DEF HandlerInv, HandlerState
  <1>2. handler'[h].op = "mark" => handler'[h].id \in delivered'
    BY DEF HandlerInv, MarkedIsDelivered
  <1>3. ASSUME handler[h].op = "confirm"
        PROVE  /\ handler[h].id <= minted'.commitment
               /\ (commitment' # None /\ commitment'.id = handler[h].id)
                     => handler[h].ref = handler[h].id
    BY <1>1, <1>3, CommitmentTyped DEF HandlerInv, JudgedIsNamed, Advances
  <1> QED
    BY <1>2, <1>3

LEMMA StoreStepKeepsHandlers ==
    ASSUME SnapshotInv, HandlerInv, Advances, UNCHANGED <<handler, delivered>>,
           minted'.commitment \in Nat
    PROVE  HandlerInv'
  <1>1. handler' \in [Handlers -> HandlerState]
    BY DEF HandlerInv
  <1>2. \A h \in Handlers : handler'[h] = handler[h]
    OBVIOUS
  <1>3. delivered \subseteq delivered'
    OBVIOUS
  <1>4. MarkedIsDelivered' /\ JudgedIsNamed'
    BY <1>2, <1>3, OthersKeepTheirWord DEF MarkedIsDelivered, JudgedIsNamed
  <1>5. CallsACarrier'
    BY DEF HandlerInv, CallsACarrier
  <1> QED
    BY <1>1, <1>4, <1>5 DEF HandlerInv

LEMMA HandlerMoves ==
    ASSUME SnapshotInv, HandlerInv, Advances, delivered \subseteq delivered',
           minted'.commitment \in Nat,
           NEW h \in Handlers, NEW x \in HandlerState,
           handler' = [handler EXCEPT ![h] = x],
           x.op \in {"call_booking", "supersede", "call_renegotiation"}
              => x.ref \in Carriers,
           x.op = "mark" => x.id \in delivered',
           x.op = "confirm" =>
                 /\ x.id <= minted'.commitment
                 /\ (commitment' # None /\ commitment'.id = x.id) => x.ref = x.id
    PROVE  HandlerInv'
  <1>1. handler' \in [Handlers -> HandlerState] /\ handler'[h] = x
    BY DEF HandlerInv
  <1>2. \A g \in Handlers : g # h => handler'[g] = handler[g]
    BY DEF HandlerInv
  <1>3. ASSUME NEW g \in Handlers
        PROVE  /\ handler'[g].op = "mark" => handler'[g].id \in delivered'
               /\ handler'[g].op = "confirm" =>
                     /\ handler'[g].id <= minted'.commitment
                     /\ (commitment' # None /\ commitment'.id = handler'[g].id)
                           => handler'[g].ref = handler'[g].id
    <2>1. CASE g = h
      BY <1>1, <2>1
    <2>2. CASE g # h
      BY <1>2, <2>2, OthersKeepTheirWord
    <2> QED
      BY <2>1, <2>2
  <1>4. MarkedIsDelivered' /\ JudgedIsNamed'
    BY <1>3 DEF MarkedIsDelivered, JudgedIsNamed
  <1>5. CallsACarrier'
    BY <1>1, <1>2 DEF HandlerInv, CallsACarrier
  <1> QED
    BY <1>1, <1>4, <1>5 DEF HandlerInv

LEMMA IdleTyped == Idle \in HandlerState /\ Idle.op = "idle"
  BY DEF Idle, HandlerState, HandlerOp

\* A handler that returns, with or without a mutation.
LEMMA ReturnKeepsHandlers ==
    ASSUME SnapshotInv, HandlerInv, Advances, delivered' = delivered,
           minted'.commitment \in Nat, NEW h \in Handlers, Return(h)
    PROVE  HandlerInv'
  BY IdleTyped, HandlerMoves DEF Return

LEMMA SnapshotUntouched ==
    ASSUME SnapshotInv, UNCHANGED snapshotVars,
           delivered \subseteq delivered', delivered' \subseteq Nat
    PROVE  SnapshotInv' /\ Advances
  <1>1. SnapshotTypeOK'
    BY DEF snapshotVars, SnapshotInv, SnapshotTypeOK
  <1>2. StatusEarned' /\ ProposedIsBare' /\ IdsMinted' /\ CommittedOperationHasCommitment'
    BY DEF snapshotVars, SnapshotInv, StatusEarned, ProposedIsBare, IdsMinted,
           CommittedOperationHasCommitment
  <1>3. Advances
    BY CommitmentTyped DEF snapshotVars, Advances
  <1> QED
    BY <1>1, <1>2, <1>3 DEF SnapshotInv

\* A store mutation, with the handlers and the deliveries left alone.
LEMMA StoreStep ==
    ASSUME FlowInv, SnapshotInv', Advances, UNCHANGED <<handler, delivered>>
    PROVE  FlowInv'
  <1>1. minted'.commitment \in Nat
    BY DEF SnapshotInv, SnapshotTypeOK
  <1> QED
    BY <1>1, StoreStepKeepsHandlers DEF FlowInv

\* A store mutation by a handler that returns.
LEMMA ReturnStep ==
    ASSUME FlowInv, SnapshotInv', Advances, delivered' = delivered,
           NEW h \in Handlers, Return(h)
    PROVE  FlowInv'
  <1>1. minted'.commitment \in Nat
    BY DEF SnapshotInv, SnapshotTypeOK
  <1> QED
    BY <1>1, ReturnKeepsHandlers DEF FlowInv

\* A handler starts.
LEMMA BeginStep ==
    ASSUME FlowInv, NEW h \in Handlers,
           NEW op \in HandlerOp \ {"mark"}, NEW id \in Nat, NEW ref \in Nat,
           Begin(h, op, id, ref),
           op \in {"call_booking", "supersede", "call_renegotiation"} => ref \in Carriers,
           op = "confirm" => /\ id <= minted.commitment
                             /\ (commitment # None /\ commitment.id = id) => ref = id
    PROVE  FlowInv'
  <1>1. /\ handler' = [handler EXCEPT ![h] = [op |-> op, id |-> id, ref |-> ref]]
        /\ UNCHANGED snapshotVars
        /\ delivered' = delivered
    BY DEF Begin
  <1>2. SnapshotInv' /\ Advances
    BY <1>1, SnapshotUntouched DEF FlowInv, SnapshotInv
  <1>3. [op |-> op, id |-> id, ref |-> ref] \in HandlerState
    BY DEF HandlerState
  <1>4. minted' = minted /\ commitment' = commitment /\ minted'.commitment \in Nat
    BY <1>1, CommitmentTyped DEF snapshotVars, FlowInv
  <1>5. HandlerInv'
    <2> DEFINE x == [op |-> op, id |-> id, ref |-> ref]
    <2>1. x.op = op /\ x.id = id /\ x.ref = ref
      OBVIOUS
    <2>2. x \in HandlerState /\ handler' = [handler EXCEPT ![h] = x]
      BY <1>1, <1>3
    <2> HIDE DEF x
    <2> QED
      BY <1>1, <1>2, <1>4, <2>1, <2>2, HandlerMoves DEF FlowInv
  <1> QED
    BY <1>2, <1>5 DEF FlowInv

\* A handler goes on to its next await, after a mutation or none.
LEMMA ContinueStep ==
    ASSUME FlowInv, SnapshotInv', Advances, delivered \subseteq delivered',
           NEW h \in Handlers, NEW op \in HandlerOp \ {"confirm"}, Continue(h, op),
           op = "mark" => handler[h].id \in delivered',
           op = "call_renegotiation" => handler[h].op = "supersede",
           op \notin {"call_booking", "supersede"}
    PROVE  FlowInv'
  <1>1. handler \in [Handlers -> HandlerState]
    BY DEF FlowInv, HandlerInv
  <1> DEFINE x == [handler[h] EXCEPT !.op = op]
  <1>2. /\ x \in HandlerState
        /\ x.op = op
        /\ x.id = handler[h].id
        /\ x.ref = handler[h].ref
    BY <1>1 DEF HandlerState
  <1>3. handler' = [handler EXCEPT ![h] = x]
    BY DEF Continue
  <1>4. minted'.commitment \in Nat
    BY DEF SnapshotInv, SnapshotTypeOK
  <1>5. op = "call_renegotiation" => x.ref \in Carriers
    BY <1>2 DEF FlowInv, HandlerInv, CallsACarrier
  <1> HIDE DEF x
  <1> QED
    BY <1>2, <1>3, <1>4, <1>5, HandlerMoves DEF FlowInv

(***************************************************************************)
(* FlowInv is inductive.                                                   *)
(***************************************************************************)
LEMMA FlowInvHolds == FlowInit => FlowInv
  <1> SUFFICES ASSUME FlowInit PROVE FlowInv
    OBVIOUS
  <1>1. SnapshotTypeOK
    BY StoreConstants DEF FlowInit, SnapshotInit, SnapshotTypeOK, OperationStatus
  <1>2. StatusEarned /\ ProposedIsBare /\ IdsMinted /\ CommittedOperationHasCommitment
    BY DEF FlowInit, SnapshotInit, StatusEarned, ProposedIsBare, IdsMinted,
           CommittedOperationHasCommitment
  <1>3. \A h \in Handlers : handler[h] = Idle
    BY DEF FlowInit
  <1>4. handler \in [Handlers -> HandlerState]
    BY IdleTyped DEF FlowInit
  <1>5. MarkedIsDelivered /\ JudgedIsNamed
    BY <1>3, IdleTyped DEF MarkedIsDelivered, JudgedIsNamed
  <1>6. CallsACarrier
    BY <1>3, IdleTyped DEF CallsACarrier
  <1> QED
    BY <1>1, <1>2, <1>4, <1>5, <1>6 DEF FlowInit, FlowInv, SnapshotInv, HandlerInv

\* A mutation that throws, or that some rule forbids, changes nothing.
LEMMA ThrowKeepsSnapshot ==
    ASSUME FlowInv, UNCHANGED snapshotVars, delivered' = delivered
    PROVE  SnapshotInv' /\ Advances
  BY SnapshotUntouched DEF FlowInv, SnapshotInv

LEMMA HandlerStepKeepsFlowInv ==
    ASSUME FlowInv, NEW h \in Handlers, HandlerStep(h)
    PROVE  FlowInv'
  <1> SnapshotInv /\ HandlerInv
    BY DEF FlowInv
  <1>0. /\ handler[h] \in HandlerState
        /\ handler[h].id \in Nat
        /\ handler[h].ref \in Nat
    BY DEF HandlerInv, HandlerState
  <1>1. ASSUME NEW o \in offers, NEW c \in 1..MaxCalls, StageBookingRead(h, o.id, c)
        PROVE  FlowInv'
    <2>1. o.id \in Nat /\ c \in Nat
      BY StoreConstants DEF SnapshotInv, SnapshotTypeOK, Offer
    <2> QED
      BY <1>1, <2>1, BeginStep DEF StageBookingRead, HandlerOp
  <1>2. CASE StageBooking(h)
    <2>1. SnapshotInv' /\ Advances
      BY <1>0, <1>2, StageBookingPreserves, ThrowKeepsSnapshot DEF StageBooking, Throws
    <2> QED
      BY <1>2, <2>1, ReturnStep DEF StageBooking
  <1>3. ASSUME NEW id \in 1..MaxCommitments, ConfirmBookingRead(h, id)
        PROVE  FlowInv'
    <2>1. id \in Nat /\ id <= minted.commitment /\ minted.commitment \in Nat
      BY <1>3, StoreConstants, CommitmentTyped DEF ConfirmBookingRead
    <2>2. commitmentId \in Nat
      BY CommitmentTyped DEF commitmentId
    <2>3. (commitment # None /\ commitment.id = id) => commitmentId = id
      BY DEF commitmentId
    <2> QED
      BY <1>3, <2>1, <2>2, <2>3, BeginStep DEF ConfirmBookingRead, HandlerOp
  <1>4. ASSUME NEW token \in 1..MaxCommitments, ConfirmBooking(h, token)
        PROVE  FlowInv'
    <2>1. SnapshotInv' /\ Advances
      BY <1>4, ConfirmBookingPreserves, ThrowKeepsSnapshot DEF ConfirmBooking, Throws
    <2> QED
      BY <1>4, <2>1, ReturnStep DEF ConfirmBooking
  <1>5. ASSUME NEW c \in DOMAIN calls, SendRecapRead(h, c)
        PROVE  FlowInv'
    <2>1. commitment.id \in Nat
      BY <1>5, CommitmentTyped DEF SendRecapRead
    <2> QED
      BY <1>5, <2>1, BeginStep DEF SendRecapRead, HandlerOp
  <1>6. CASE DeliverRecap(h)
    <2>1. /\ delivered \subseteq delivered'
          /\ delivered' \subseteq Nat
          /\ handler[h].id \in delivered'
          /\ UNCHANGED snapshotVars
      BY <1>0, <1>6 DEF DeliverRecap, SnapshotInv
    <2>2. SnapshotInv' /\ Advances
      BY <2>1, SnapshotUntouched
    <2> QED
      BY <1>6, <2>1, <2>2, ContinueStep DEF DeliverRecap, HandlerOp
  <1>7. CASE MarkRecap(h)
    <2>1. handler[h].id \in delivered
      BY <1>7 DEF MarkRecap, HandlerInv, MarkedIsDelivered
    <2>2. SnapshotInv' /\ Advances
      BY <1>7, <2>1, MarkRecapSentPreserves, ThrowKeepsSnapshot DEF MarkRecap, Throws
    <2> QED
      BY <1>7, <2>2, ReturnStep DEF MarkRecap
  <1>8. ASSUME NEW c \in DOMAIN calls, ProcessRecordingRead(h, c)
        PROVE  FlowInv'
    <2>1. commitment.id \in Nat
      BY <1>8, CommitmentTyped DEF ProcessRecordingRead
    <2> QED
      BY <1>8, <2>1, BeginStep DEF ProcessRecordingRead, HandlerOp
  <1>9. CASE LinkRecording(h)
    <2>1. SnapshotInv' /\ Advances
      BY <1>0, <1>9, LinkEvidencePreserves, ThrowKeepsSnapshot DEF LinkRecording, Throws
    <2> QED
      BY <1>9, <2>1, ReturnStep DEF LinkRecording
  <1>10. CASE BookWinningOfferRead(h)
    <2>1. PICK o \in winners(offers) : Begin(h, "call_booking", o.id, o.carrierId)
      BY <1>10 DEF BookWinningOfferRead
    <2>2. o \in Offer
      BY DEF winners, rankOffers, latestOffers, SnapshotInv, SnapshotTypeOK
    <2>3. o.id \in Nat /\ o.carrierId \in Nat /\ o.carrierId \in Carriers
      BY <2>2, CarriersAssumption DEF Offer
    <2> QED
      BY <2>1, <2>3, BeginStep DEF HandlerOp
  <1>11. CASE RenegotiationRead(h)
    <2>1. /\ commitment.id \in Nat
          /\ commitment.carrierId \in Nat
          /\ commitment.carrierId \in Carriers
      BY <1>11, CommitmentTyped, CarriersAssumption DEF RenegotiationRead, Standing, Commitment
    <2> QED
      BY <1>11, <2>1, BeginStep DEF RenegotiationRead, HandlerOp
  <1>12. CASE SupersedeStanding(h)
    <2>1. SnapshotInv' /\ Advances
      BY <1>12, SupersedePreserves, ThrowKeepsSnapshot DEF SupersedeStanding, Throws
    <2> QED
      BY <1>12, <2>1, ReturnStep, ContinueStep DEF SupersedeStanding, HandlerOp
  <1>13. CASE PlaceCall(h)
    <2>1. \E mode \in CallMode : createCall(mode, handler[h].ref)
      BY <1>13 DEF PlaceCall, CallMode
    <2>2. handler[h].ref \in Carriers
      BY <1>13 DEF PlaceCall, HandlerInv, CallsACarrier
    <2>3. delivered' = delivered /\ Return(h)
      BY <1>13 DEF PlaceCall
    <2>4. SnapshotInv' /\ Advances
      BY <2>1, <2>2, <2>3, CallsPreserve
    <2> QED
      BY <2>3, <2>4, ReturnStep
  <1>14. CASE Abandon(h)
    <2>1. SnapshotInv' /\ Advances
      BY <1>14, ThrowKeepsSnapshot DEF Abandon
    <2> QED
      BY <1>14, <2>1, ReturnStep DEF Abandon
  <1> QED
    BY <1>1, <1>2, <1>3, <1>4, <1>5, <1>6, <1>7, <1>8, <1>9, <1>10, <1>11, <1>12,
       <1>13, <1>14 DEF HandlerStep

LEMMA StepKeepsFlowInv == FlowInv /\ [FlowNext]_flowVars => FlowInv'
  <1> SUFFICES ASSUME FlowInv, [FlowNext]_flowVars PROVE FlowInv'
    OBVIOUS
  <1> SnapshotInv /\ HandlerInv
    BY DEF FlowInv
  <1>1. ASSUME NEW k \in Carriers, StartQuoteCall(k) PROVE FlowInv'
    BY <1>1, CallsPreserve, StoreStep DEF StartQuoteCall, CallMode
  <1>2. ASSUME NEW k \in Carriers, NEW t \in OfferTerms, RecordOffer(k, t) PROVE FlowInv'
    BY <1>2, RecordOfferPreserves, StoreStep DEF RecordOffer
  <1>3. ASSUME NEW b \in Briefings, EditBriefing(b) PROVE FlowInv'
    BY <1>3, UpdateConfigurationPreserves, StoreStep DEF EditBriefing
  <1>4. ASSUME NEW c \in DOMAIN calls, NEW s \in Reports, ReportCall(c, s) PROVE FlowInv'
    BY <1>4, ReportsAssumption, CallsPreserve, StoreStep DEF ReportCall
  <1>5. CASE TokenExpires
    BY <1>5, ExpireTokenPreserves, StoreStep DEF TokenExpires
  <1>6. CASE ResetOperation
    BY <1>6, ResetSnapshotPreserves, StoreStep DEF ResetOperation
  <1>7. ASSUME NEW h \in Handlers, HandlerStep(h) PROVE FlowInv'
    BY <1>7, HandlerStepKeepsFlowInv
  <1>8. CASE UNCHANGED flowVars
    <2>1. UNCHANGED <<snapshotVars, handler, delivered>>
      BY <1>8 DEF flowVars
    <2> QED
      BY <2>1, ThrowKeepsSnapshot, StoreStep
  <1> QED
    BY <1>1, <1>2, <1>3, <1>4, <1>5, <1>6, <1>7, <1>8 DEF FlowNext

\* The inductive invariant: what every status of the commitment has earned, and
\* what the handlers between their reads and writes may still believe.
THEOREM FlowInvariant == FlowSpec => []FlowInv
  BY FlowInvHolds, StepKeepsFlowInv, PTL DEF FlowSpec

(***************************************************************************)
(* What follows.                                                           *)
(***************************************************************************)
\* The snapshot and the handlers are well typed, whatever is interleaved.
THEOREM FlowTyped == FlowSpec => []FlowTypeOK
  <1>1. FlowInv => FlowTypeOK
    BY DEF FlowInv, SnapshotInv, HandlerInv, FlowTypeOK
  <1> QED
    BY <1>1, FlowInvariant, PTL

\* A COMMITTED commitment has its own verbal confirmation, a recap that was
\* really delivered, and its own evidence.
THEOREM FlowCommitsOnProof == FlowSpec => []CommittedIsProven
  <1>1. FlowInv => CommittedIsProven
    BY DEF FlowInv, SnapshotInv, StatusEarned, CommittedIsProven
  <1> QED
    BY <1>1, FlowInvariant, PTL

\* The board shows COMMITTED only over a commitment that stands COMMITTED.
THEOREM FlowBoardIsHonest == FlowSpec => []CommittedOperationHasCommitment
  <1>1. FlowInv => CommittedOperationHasCommitment
    BY DEF FlowInv, SnapshotInv
  <1> QED
    BY <1>1, FlowInvariant, PTL

\* The commitment a handler confirms is the one the answer was judged against.
THEOREM FlowConfirmsWhatWasJudged == FlowSpec => JudgedIsConfirmed
  <1>1. ASSUME FlowInv, [FlowNext]_flowVars, NEW h \in Handlers, Confirms(h)
        PROVE  handler[h].ref = commitment'.id
    <2>1. /\ handler[h].op = "confirm"
          /\ handler'[h].op = "idle"
          /\ handler \in [Handlers -> HandlerState]
          /\ commitment' # commitment
      BY <1>1, IdleTyped DEF Confirms, FlowInv, HandlerInv
    <2>2. handler' # handler
      BY <2>1
    <2>3. PICK g \in Handlers : HandlerStep(g)
      BY <1>1, <2>1, <2>2
      DEF FlowNext, flowVars, StartQuoteCall, RecordOffer, EditBriefing, ReportCall,
          TokenExpires, ResetOperation
    <2>4. g = h
      BY <2>1, <2>3
      DEF HandlerStep, StageBookingRead, StageBooking, ConfirmBookingRead, ConfirmBooking,
          SendRecapRead, DeliverRecap, MarkRecap, ProcessRecordingRead, LinkRecording,
          BookWinningOfferRead, RenegotiationRead, SupersedeStanding, PlaceCall, Abandon,
          Begin, Continue, Return
    <2>5. \E token \in 1..MaxCommitments : ConfirmBooking(h, token)
      BY <2>1, <2>3, <2>4, IdleTyped
      DEF HandlerStep, StageBookingRead, StageBooking, ConfirmBookingRead,
          SendRecapRead, DeliverRecap, MarkRecap, ProcessRecordingRead, LinkRecording,
          BookWinningOfferRead, RenegotiationRead, SupersedeStanding, PlaceCall, Abandon,
          Begin, snapshotVars
    <2>6. PICK token \in 1..MaxCommitments : confirmBooking(handler[h].id, token)
      BY <2>1, <2>5 DEF ConfirmBooking, Throws, snapshotVars
    <2>7. commitment # None /\ commitment.id = handler[h].id
      BY <2>6 DEF confirmBooking, canConfirm, IsCurrent
    <2>8. commitment'.id = commitment.id
      BY <2>6, <2>7, CommitmentTyped DEF confirmBooking, Commitment, FlowInv
    <2>9. handler[h].ref = handler[h].id
      BY <2>1, <2>7, <1>1 DEF FlowInv, HandlerInv, JudgedIsNamed
    <2> QED
      BY <2>7, <2>8, <2>9
  <1>2. FlowInv /\ [FlowNext]_flowVars =>
          [\A h \in Handlers : Confirms(h) => handler[h].ref = commitment'.id]_flowVars
    BY <1>1
  <1> QED
    BY <1>2, FlowInvariant, PTL DEF FlowSpec, JudgedIsConfirmed

\* The mutations that touch the offers are recordOffer and the reset.
LEMMA StepKeepsNumbers ==
    SnapshotTypeOK /\ OffersNumbered /\ [FlowNext]_flowVars => OffersNumbered'
  <1> SUFFICES ASSUME SnapshotTypeOK, OffersNumbered, [FlowNext]_flowVars
               PROVE  OffersNumbered'
    OBVIOUS
  <1>1. CASE UNCHANGED offers
    BY <1>1 DEF OffersNumbered, OneStandingOffer
  <1>2. ASSUME NEW k \in Carriers, NEW t \in OfferTerms, recordOffer(k, t)
        PROVE  OffersNumbered'
    BY <1>2, RecordOfferNumbers
  <1>3. CASE offers' = {}
    BY <1>3, NoOffersNumbered DEF OffersNumbered, OneStandingOffer
  <1>4. ASSUME NEW h \in Handlers, HandlerStep(h) PROVE UNCHANGED offers
    BY <1>4
    DEF HandlerStep, StageBookingRead, StageBooking, ConfirmBookingRead, ConfirmBooking,
        SendRecapRead, DeliverRecap, MarkRecap, ProcessRecordingRead, LinkRecording,
        BookWinningOfferRead, RenegotiationRead, SupersedeStanding, PlaceCall, Abandon,
        Begin, Throws, snapshotVars, stageBooking, confirmBooking, markRecapSent,
        linkEvidence, supersedeCommitment, createCall
  <1>5. CASE FlowNext
    BY <1>1, <1>2, <1>3, <1>4, <1>5
    DEF FlowNext, StartQuoteCall, RecordOffer, EditBriefing, ReportCall, TokenExpires,
        ResetOperation, createCall, updateConfiguration, updateCall, expireToken,
        resetSnapshot
  <1> QED
    BY <1>1, <1>5 DEF flowVars, snapshotVars

\* Whatever calls, tools and requests race, no carrier has two live offers and
\* no revision of its counter budget is spent twice.
THEOREM FlowOneStandingOffer == FlowSpec => []OneStandingOffer
  <1>1. FlowInit => OffersNumbered
    BY NoOffersNumbered DEF FlowInit, SnapshotInit, OffersNumbered, OneStandingOffer
  <1>2. FlowInv => SnapshotTypeOK
    BY DEF FlowInv, SnapshotInv
  <1>3. OffersNumbered => OneStandingOffer
    BY DEF OffersNumbered
  <1> QED
    BY <1>1, <1>2, <1>3, FlowInvariant, StepKeepsNumbers, PTL DEF FlowSpec

(***************************************************************************)
(* The flow implements the commitment gate.  The mapping, read once.       *)
(***************************************************************************)
LEMMA GateMapping ==
    /\ commitment = None => gatePhase = "none" /\ gateProofs = {}
    /\ commitment # None =>
         /\ commitment.status \in Retired => gatePhase = "retired"
         /\ commitment.status = "COMMITTED" => gatePhase = "committed"
         /\ commitment.status \notin Retired \cup {"COMMITTED"} => gatePhase = "open"
         /\ gateProofs \subseteq {"voice", "recap", "audio"}
         /\ "voice" \in gateProofs <=> commitment.verballyConfirmedAt
         /\ "recap" \in gateProofs <=> commitment.recapSentAt
         /\ "audio" \in gateProofs <=>
               evidence = commitment.id /\ commitment.status \notin Retired
  BY DEF gatePhase, gateProofs, Retired

LEMMA GateMappingPrimed ==
    /\ commitment' = None => gatePhase' = "none" /\ gateProofs' = {}
    /\ commitment' # None =>
         /\ commitment'.status \in Retired => gatePhase' = "retired"
         /\ commitment'.status = "COMMITTED" => gatePhase' = "committed"
         /\ commitment'.status \notin Retired \cup {"COMMITTED"} => gatePhase' = "open"
         /\ gateProofs' \subseteq {"voice", "recap", "audio"}
         /\ "voice" \in gateProofs' <=> commitment'.verballyConfirmedAt
         /\ "recap" \in gateProofs' <=> commitment'.recapSentAt
         /\ "audio" \in gateProofs' <=>
               evidence' = commitment'.id /\ commitment'.status \notin Retired
  BY DEF gatePhase, gateProofs, Retired

LEMMA GateUntouched ==
    ASSUME UNCHANGED <<commitment, evidence>>, minted'.commitment = minted.commitment
    PROVE  UNCHANGED Gate!gateVars
  BY DEF Gate!gateVars, gatePhase, gateProofs

LEMMA StageOpensGate ==
    ASSUME FlowInv, FlowInv', NEW offerId \in Nat, NEW callId \in Nat,
           stageBooking(offerId, callId)
    PROVE  Gate!Open
  <1>1. gatePhase \in {"none", "retired"}
    BY GateMapping DEF stageBooking, canStage, Standing
  <1>2. minted'.commitment = minted.commitment + 1
    BY DEF stageBooking, FlowInv, SnapshotInv, SnapshotTypeOK
  <1>3. /\ commitment' # None
        /\ commitment'.status = "PROPOSED"
        /\ ~commitment'.verballyConfirmedAt
        /\ ~commitment'.recapSentAt
    BY StagedCommitment DEF FlowInv
  <1>4. evidence' # commitment'.id
    BY <1>3 DEF FlowInv, SnapshotInv, ProposedIsBare
  <1>5. gatePhase' = "open" /\ gateProofs' = {}
    BY <1>3, <1>4, GateMappingPrimed DEF Retired
  <1> QED
    BY <1>1, <1>2, <1>5 DEF Gate!Open

\* A proof comes in, seen through the mapping.
LEMMA ConfirmProvesVoice ==
    ASSUME FlowInv, NEW id, NEW token, confirmBooking(id, token)
    PROVE  Gate!Prove("voice")
  <1> SnapshotInv
    BY DEF FlowInv
  <1>1. /\ commitment # None
        /\ commitment.status = "PROPOSED"
        /\ commitment \in Commitment
    BY CommitmentTyped, TransitionSources DEF confirmBooking, canConfirm, IsCurrent
  <1>2. /\ commitment' = [commitment EXCEPT !.status = "VERBALLY_CONFIRMED",
                                            !.verballyConfirmedAt = TRUE]
        /\ evidence' = evidence
        /\ minted' = minted
    BY DEF confirmBooking
  <1>3. /\ commitment' \in Commitment
        /\ commitment' # None
        /\ commitment'.id = commitment.id
        /\ commitment'.status = "VERBALLY_CONFIRMED"
        /\ commitment'.verballyConfirmedAt
        /\ commitment'.recapSentAt = commitment.recapSentAt
    BY <1>1, <1>2, StoreConstants DEF Commitment, CommitmentStatus
  <1>4. /\ ~commitment.verballyConfirmedAt
        /\ ~commitment.recapSentAt
        /\ evidence # commitment.id
    BY <1>1 DEF SnapshotInv, ProposedIsBare
  <1>5. gatePhase = "open" /\ gateProofs = {}
    BY <1>1, <1>4, GateMapping DEF Retired
  <1>6. gatePhase' = "open" /\ gateProofs' = {"voice"}
    BY <1>2, <1>3, <1>4, GateMappingPrimed DEF Retired
  <1> QED
    BY <1>2, <1>5, <1>6 DEF Gate!Prove, Gate!Proofs

LEMMA MarkProvesRecap ==
    ASSUME FlowInv, NEW id, markRecapSent(id)
    PROVE  Gate!Prove("recap")
  <1> SnapshotInv
    BY DEF FlowInv
  <1>1. /\ commitment # None
        /\ commitment.id = id
        /\ commitment.status = "VERBALLY_CONFIRMED"
        /\ commitment \in Commitment
    BY CommitmentTyped, TransitionSources DEF markRecapSent, canMarkRecap, IsCurrent
  <1>2. evidence' = evidence /\ minted' = minted
    BY DEF markRecapSent
  <1>3. commitment.verballyConfirmedAt /\ ~commitment.recapSentAt
    BY <1>1 DEF SnapshotInv, StatusEarned, ProposedIsBare
  <1>4. /\ gatePhase = "open"
        /\ gateProofs \subseteq {"voice", "audio"}
        /\ "voice" \in gateProofs
        /\ "audio" \in gateProofs <=> evidence = id
    BY <1>1, <1>3, GateMapping DEF Retired
  <1>5. /\ commitment' \in Commitment
        /\ commitment'.id = id
        /\ commitment'.status = IF evidence = id THEN "COMMITTED" ELSE "RECAP_SENT"
        /\ commitment'.verballyConfirmedAt
        /\ commitment'.recapSentAt
    <2>1. CASE evidence = id
      BY <1>1, <1>3, <2>1 DEF markRecapSent, Commitment, CommitmentStatus
    <2>2. CASE evidence # id
      BY <1>1, <1>3, <2>2 DEF markRecapSent, Commitment, CommitmentStatus
    <2> QED
      BY <2>1, <2>2
  <1>6. commitment' # None
    BY <1>5, StoreConstants
  <1>7. /\ gateProofs' = gateProofs \cup {"recap"}
        /\ gatePhase' = IF evidence = id THEN "committed" ELSE "open"
    BY <1>2, <1>4, <1>5, <1>6, GateMappingPrimed DEF Retired
  <1> QED
    BY <1>2, <1>4, <1>7 DEF Gate!Prove, Gate!Proofs

LEMMA LinkProvesAudio ==
    ASSUME FlowInv, NEW id, linkEvidence(id)
    PROVE  Gate!Prove("audio") \/ UNCHANGED Gate!gateVars
  <1> SnapshotInv
    BY DEF FlowInv
  <1>1. /\ commitment # None
        /\ commitment.id = id
        /\ commitment.status \in Reached \ {"PROPOSED"}
        /\ commitment \in Commitment
    BY CommitmentTyped DEF linkEvidence, canLink, IsCurrent, SnapshotInv, StatusEarned
  <1>2. evidence' = id /\ minted' = minted
    BY DEF linkEvidence
  <1>3. CASE commitment.status = "RECAP_SENT"
    <2>1. /\ commitment.verballyConfirmedAt
          /\ commitment.recapSentAt
          /\ evidence # id
      BY <1>1, <1>3 DEF SnapshotInv, StatusEarned, ProposedIsBare
    <2>2. /\ commitment' \in Commitment
          /\ commitment'.id = id
          /\ commitment'.status = "COMMITTED"
          /\ commitment'.verballyConfirmedAt
          /\ commitment'.recapSentAt
      BY <1>1, <1>3, <2>1 DEF linkEvidence, Commitment, CommitmentStatus
    <2>3. commitment' # None
      BY <2>2, StoreConstants
    <2>4. gatePhase = "open" /\ gateProofs = {"voice", "recap"}
      BY <1>1, <1>3, <2>1, GateMapping DEF Retired
    <2>5. gatePhase' = "committed" /\ gateProofs' = {"voice", "recap", "audio"}
      BY <1>2, <2>2, <2>3, GateMappingPrimed DEF Retired
    <2> QED
      BY <1>2, <2>4, <2>5 DEF Gate!Prove, Gate!Proofs
  <1>4. CASE commitment.status = "VERBALLY_CONFIRMED"
    <2>1. commitment' = commitment
      BY <1>4 DEF linkEvidence
    <2>2. commitment.verballyConfirmedAt /\ ~commitment.recapSentAt
      BY <1>1, <1>4 DEF SnapshotInv, StatusEarned, ProposedIsBare
    <2>3. gatePhase = "open" /\ gatePhase' = "open" /\ gateProofs' = {"voice", "audio"}
      BY <1>1, <1>2, <1>4, <2>1, <2>2, GateMapping, GateMappingPrimed DEF Retired
    <2>4. CASE evidence = id
      BY <1>2, <2>1, <2>4, GateUntouched
    <2>5. CASE evidence # id
      <3>1. gateProofs = {"voice"}
        BY <1>1, <1>4, <2>2, <2>5, GateMapping DEF Retired
      <3> QED
        BY <1>2, <2>3, <3>1 DEF Gate!Prove, Gate!Proofs
    <2> QED
      BY <2>4, <2>5
  <1>5. CASE commitment.status = "COMMITTED"
    <2>1. commitment' = commitment
      BY <1>5 DEF linkEvidence
    <2>2. evidence = id
      BY <1>1, <1>5 DEF SnapshotInv, StatusEarned
    <2> QED
      BY <1>2, <2>1, <2>2, GateUntouched
  <1>6. CASE commitment.status = "SUPERSEDED"
    <2>1. commitment' = commitment
      BY <1>6 DEF linkEvidence
    <2>2. gatePhase' = gatePhase /\ gateProofs' = gateProofs
      BY <1>1, <1>6, <2>1, GateMapping, GateMappingPrimed DEF Retired
    <2> QED
      BY <1>2, <2>2 DEF Gate!gateVars
  <1> QED
    BY <1>1, <1>3, <1>4, <1>5, <1>6 DEF Reached

LEMMA SupersedeRetires ==
    ASSUME FlowInv, NEW id, supersedeCommitment(id)
    PROVE  Gate!Retire
  <1> SnapshotInv
    BY DEF FlowInv
  <1>1. /\ commitment # None
        /\ commitment \in Commitment
        /\ commitment.status \in {"PROPOSED", "VERBALLY_CONFIRMED", "RECAP_SENT",
                                  "EVIDENCE_LINKED", "COMMITTED"}
    BY CommitmentTyped, TransitionSources DEF supersedeCommitment, canSupersede, IsCurrent
  <1>2. /\ commitment' = [commitment EXCEPT !.status = "SUPERSEDED"]
        /\ minted' = minted
    BY DEF supersedeCommitment
  <1>3. /\ commitment' \in Commitment
        /\ commitment'.status = "SUPERSEDED"
        /\ commitment'.verballyConfirmedAt = commitment.verballyConfirmedAt
        /\ commitment'.recapSentAt = commitment.recapSentAt
    BY <1>1, <1>2 DEF Commitment, CommitmentStatus
  <1>4. commitment' # None
    BY <1>3, StoreConstants
  <1>5. gatePhase \in {"open", "committed"} /\ gatePhase' = "retired"
    BY <1>1, <1>3, <1>4, GateMapping, GateMappingPrimed DEF Retired
  <1>6. gateProofs' = gateProofs \ {"audio"}
    BY <1>1, <1>3, <1>4, GateMapping, GateMappingPrimed DEF Retired
  <1> QED
    BY <1>2, <1>5, <1>6 DEF Gate!Retire

LEMMA ExpiryIsUnseen ==
    ASSUME FlowInv, expireToken
    PROVE  UNCHANGED Gate!gateVars
  <1> SnapshotInv
    BY DEF FlowInv
  <1>1. /\ commitment # None
        /\ commitment \in Commitment
        /\ commitment' = [commitment EXCEPT !.tokenExpired = TRUE]
        /\ evidence' = evidence
        /\ minted' = minted
    BY CommitmentTyped DEF expireToken
  <1>2. /\ commitment' \in Commitment
        /\ commitment'.id = commitment.id
        /\ commitment'.status = commitment.status
        /\ commitment'.verballyConfirmedAt = commitment.verballyConfirmedAt
        /\ commitment'.recapSentAt = commitment.recapSentAt
    BY <1>1 DEF Commitment
  <1>3. commitment' # None
    BY <1>2, StoreConstants
  <1>4. gatePhase' = gatePhase /\ gateProofs' = gateProofs
    BY <1>1, <1>2, <1>3 DEF gatePhase, gateProofs
  <1> QED
    BY <1>1, <1>4 DEF Gate!gateVars

LEMMA ResetClears ==
    ASSUME resetSnapshot
    PROVE  Gate!Clear
  <1>1. commitment' = None /\ minted' = minted
    BY DEF resetSnapshot
  <1> QED
    BY <1>1, GateMappingPrimed DEF Gate!Clear

LEMMA HandlerStepImplementsGate ==
    ASSUME FlowInv, FlowInv', NEW h \in Handlers, HandlerStep(h)
    PROVE  [Gate!GateNext]_Gate!gateVars
  <1> USE DEF Gate!GateNext, Gate!Proofs
  <1> SnapshotInv
    BY DEF FlowInv
  <1>0. handler[h].id \in Nat /\ handler[h].ref \in Nat
    BY DEF FlowInv, HandlerInv, HandlerState
  <1>1. ASSUME UNCHANGED snapshotVars PROVE UNCHANGED Gate!gateVars
    BY <1>1, GateUntouched DEF snapshotVars
  <1>2. CASE StageBooking(h)
    BY <1>0, <1>1, <1>2, StageOpensGate DEF StageBooking, Throws
  <1>3. ASSUME NEW token, ConfirmBooking(h, token) PROVE [Gate!GateNext]_Gate!gateVars
    BY <1>1, <1>3, ConfirmProvesVoice DEF ConfirmBooking, Throws
  <1>4. CASE MarkRecap(h)
    BY <1>1, <1>4, MarkProvesRecap DEF MarkRecap, Throws
  <1>5. CASE LinkRecording(h)
    BY <1>1, <1>5, LinkProvesAudio DEF LinkRecording, Throws
  <1>6. CASE SupersedeStanding(h)
    BY <1>1, <1>6, SupersedeRetires DEF SupersedeStanding, Throws
  <1>7. CASE PlaceCall(h)
    <2>1. UNCHANGED <<commitment, evidence>> /\ minted'.commitment = minted.commitment
      BY <1>7 DEF PlaceCall, createCall, SnapshotInv, SnapshotTypeOK
    <2> QED
      BY <2>1, GateUntouched
  <1>8. \/ StageBooking(h) \/ (\E token \in 1..MaxCommitments : ConfirmBooking(h, token))
        \/ MarkRecap(h) \/ LinkRecording(h) \/ SupersedeStanding(h) \/ PlaceCall(h)
        \/ UNCHANGED snapshotVars
    BY DEF HandlerStep, StageBookingRead, ConfirmBookingRead, SendRecapRead, DeliverRecap,
           ProcessRecordingRead, BookWinningOfferRead, RenegotiationRead, Abandon, Begin
  <1> QED
    BY <1>1, <1>2, <1>3, <1>4, <1>5, <1>6, <1>7, <1>8

LEMMA StepImplementsGate ==
    FlowInv /\ FlowInv' /\ [FlowNext]_flowVars => [Gate!GateNext]_Gate!gateVars
  <1> SUFFICES ASSUME FlowInv, FlowInv', [FlowNext]_flowVars
               PROVE  [Gate!GateNext]_Gate!gateVars
    OBVIOUS
  <1> SnapshotInv
    BY DEF FlowInv
  <1>1. CASE TokenExpires
    BY <1>1, ExpiryIsUnseen DEF TokenExpires
  <1>2. CASE ResetOperation
    BY <1>2, ResetClears DEF ResetOperation, Gate!GateNext
  <1>3. ASSUME NEW h \in Handlers, HandlerStep(h) PROVE [Gate!GateNext]_Gate!gateVars
    BY <1>3, HandlerStepImplementsGate
  <1>4. CASE \/ \E k \in Carriers : StartQuoteCall(k)
             \/ \E k \in Carriers, t \in OfferTerms : RecordOffer(k, t)
             \/ \E b \in Briefings : EditBriefing(b)
             \/ \E c \in DOMAIN calls, s \in Reports : ReportCall(c, s)
             \/ UNCHANGED flowVars
    <2>1. UNCHANGED <<commitment, evidence>> /\ minted'.commitment = minted.commitment
      BY <1>4
      DEF StartQuoteCall, createCall, RecordOffer, recordOffer, EditBriefing,
          updateConfiguration, ReportCall, updateCall, flowVars, snapshotVars,
          SnapshotInv, SnapshotTypeOK
    <2> QED
      BY <2>1, GateUntouched
  <1> QED
    BY <1>1, <1>2, <1>3, <1>4 DEF FlowNext

\* The whole flow, handlers and all, implements the commitment gate.
THEOREM FlowImplementsGate == FlowSpec => ImplementsGate
  <1>1. FlowInit => Gate!GateInit
    BY GateMapping DEF FlowInit, SnapshotInit, Gate!GateInit
  <1> QED
    BY <1>1, StepImplementsGate, FlowInvariant, PTL
    DEF FlowSpec, ImplementsGate, Gate!GateSpec

(***************************************************************************)
(* The market.  MarketInv is the inductive invariant of MarketFlow.  That  *)
(* no call has two requests of one kind is not inductive by itself: what   *)
(* the requests about a call say must agree with its telephone line        *)
(* (RequestsFollowLegs), and the line with its status (LegsAreDialed).     *)
(* The verdicts of the offers stand because nothing edits the briefing     *)
(* here (VerdictsStand).                                                   *)
(***************************************************************************)
FollowsLeg(r) ==
    /\ r.event = "dial" => r.step \in {"posted", "placed"}
    /\ (r.event = "dial" /\ r.step = "posted") => leg[r.call] = "none"
    /\ r.event \in {"call.active", "relay.error"} => r.step = "posted"
    /\ r.event = "call.active" => leg[r.call] \in {"live", "over"}
    /\ r.event = "stream.stopped" => r.step # "placed" /\ leg[r.call] = "over"
    /\ r.step = "create" => r.arg \in Carriers

RequestsFollowLegs == \A r \in requests : FollowsLeg(r)

LegsAreDialed ==
    \A c \in 1..MaxCalls :
        leg[c] # "none" =>
            /\ c \in DOMAIN calls
            /\ \/ calls[c].status # "QUEUED"
               \/ \E r \in requests : r.call = c /\ r.event = "dial" /\ r.step = "placed"

VerdictsStand ==
    \A o \in offers : o.eligible => evaluateOffer(briefing, o.terms, o.revision) = {}

MarketInv ==
    /\ MarketTypeOK
    /\ minted.call <= MaxCalls
    /\ IsFiniteSet(requests)
    /\ RequestsFollowLegs
    /\ LegsAreDialed
    /\ OffersNumbered
    /\ VerdictsStand

\* The mutations of the commitment keep the snapshot well typed.
LEMMA CommitmentMutationsTyped ==
    ASSUME SnapshotTypeOK,
           \/ \E offerId, callId \in Nat : stageBooking(offerId, callId)
           \/ \E id, token : confirmBooking(id, token)
           \/ \E id : markRecapSent(id)
    PROVE  SnapshotTypeOK'
  <1>1. ASSUME NEW offerId \in Nat, NEW callId \in Nat, stageBooking(offerId, callId)
        PROVE  SnapshotTypeOK'
    <2>1. PICK o \in offers :
             commitment' = [id                  |-> minted.commitment + 1,
                            carrierId           |-> o.carrierId,
                            offerId             |-> offerId,
                            bookingCallId       |-> callId,
                            status              |-> "PROPOSED",
                            tokenExpired        |-> FALSE,
                            verballyConfirmedAt |-> FALSE,
                            recapSentAt         |-> FALSE,
                            committedAt         |-> FALSE]
      BY <1>1 DEF stageBooking
    <2>2. o.carrierId \in Carriers /\ minted.commitment + 1 \in Nat
      BY DEF SnapshotTypeOK, Offer
    <2>3. commitment' \in Commitment
      BY <2>1, <2>2 DEF Commitment, CommitmentStatus
    <2>4. /\ minted' \in [call : Nat, offer : Nat, commitment : Nat]
          /\ minted'.call = minted.call
      BY <1>1, <2>2 DEF stageBooking, SnapshotTypeOK
    <2> QED
      BY <1>1, <2>3, <2>4 DEF stageBooking, SnapshotTypeOK, OperationStatus
  <1>2. commitment # None => commitment \in Commitment
    BY DEF SnapshotTypeOK
  <1>3. ASSUME NEW id, NEW token, confirmBooking(id, token) PROVE SnapshotTypeOK'
    <2>1. commitment' \in Commitment
      BY <1>2, <1>3 DEF confirmBooking, canConfirm, IsCurrent, Commitment, CommitmentStatus
    <2> QED
      BY <1>3, <2>1 DEF confirmBooking, SnapshotTypeOK
  <1>4. ASSUME NEW id, markRecapSent(id) PROVE SnapshotTypeOK'
    <2>0. commitment \in Commitment
      BY <1>2, <1>4 DEF markRecapSent, canMarkRecap, IsCurrent
    <2>1. commitment' \in Commitment
      <3>1. CASE evidence = id
        BY <1>4, <2>0, <3>1 DEF markRecapSent, Commitment, CommitmentStatus
      <3>2. CASE evidence # id
        BY <1>4, <2>0, <3>2 DEF markRecapSent, Commitment, CommitmentStatus
      <3> QED
        BY <3>1, <3>2
    <2>2. opStatus' \in OperationStatus
      BY <1>4 DEF markRecapSent, SnapshotTypeOK, OperationStatus
    <2>3. UNCHANGED <<briefing, calls, offers, evidence, minted>>
      BY <1>4 DEF markRecapSent
    <2> QED
      BY <2>1, <2>2, <2>3 DEF SnapshotTypeOK
  <1> QED
    BY <1>1, <1>3, <1>4

\* What a mutation of the offers or of the commitment does in the market.
LEMMA OffersStep ==
    ASSUME MarketInv,
           \/ \E k \in Carriers, t \in OfferTerms : recordOffer(k, t)
           \/ \E offerId, callId \in Nat : stageBooking(offerId, callId)
           \/ \E id, token : confirmBooking(id, token)
           \/ \E id : markRecapSent(id)
    PROVE  /\ SnapshotTypeOK'
           /\ UNCHANGED <<calls, briefing>> /\ minted'.call = minted.call
           /\ OffersNumbered'
           /\ VerdictsStand'
  <1>0. SnapshotTypeOK /\ OffersNumbered /\ VerdictsStand
    BY DEF MarketInv, MarketTypeOK
  <1>1. ASSUME NEW k \in Carriers, NEW t \in OfferTerms, recordOffer(k, t)
        PROVE  /\ SnapshotTypeOK'
               /\ UNCHANGED <<calls, briefing>> /\ minted'.call = minted.call
               /\ OffersNumbered'
               /\ VerdictsStand'
    <2>1. SnapshotTypeOK'
      BY <1>0, <1>1, OffersTyped
    <2>2. OffersNumbered'
      BY <1>0, <1>1, RecordOfferNumbers
    <2>3. UNCHANGED <<calls, briefing>> /\ minted'.call = minted.call
      BY <1>0, <1>1 DEF recordOffer, SnapshotTypeOK
    <2>4. PICK revision :
             /\ revision = IF previousOffer(k) = {} THEN 1
                           ELSE (CHOOSE o \in previousOffer(k) : TRUE).revision + 1
             /\ offers' = (offers \ previousOffer(k))
                   \cup {[o EXCEPT !.superseded = TRUE] : o \in previousOffer(k)}
                   \cup {[id         |-> minted.offer + 1,
                          carrierId  |-> k,
                          terms      |-> t,
                          revision   |-> revision,
                          eligible   |-> evaluateOffer(briefing, t, revision) = {},
                          superseded |-> FALSE]}
      BY <1>1 DEF recordOffer
    <2>5. previousOffer(k) \subseteq offers /\ offers \subseteq Offer
      BY <1>0 DEF previousOffer, SnapshotTypeOK
    <2>6. ASSUME NEW o \in offers', o.eligible
          PROVE  evaluateOffer(briefing, o.terms, o.revision) = {}
      <3>1. CASE o \in offers
        BY <1>0, <2>6, <3>1 DEF VerdictsStand
      <3>2. CASE o \in {[p EXCEPT !.superseded = TRUE] : p \in previousOffer(k)}
        <4>1. PICK p \in offers : o = [p EXCEPT !.superseded = TRUE]
          BY <2>5, <3>2
        <4>2. /\ o.eligible = p.eligible
              /\ o.terms = p.terms /\ o.revision = p.revision
          BY <2>5, <4>1 DEF Offer
        <4> QED
          BY <1>0, <2>6, <4>2 DEF VerdictsStand
      <3>3. CASE o = [id         |-> minted.offer + 1,
                      carrierId  |-> k,
                      terms      |-> t,
                      revision   |-> revision,
                      eligible   |-> evaluateOffer(briefing, t, revision) = {},
                      superseded |-> FALSE]
        BY <2>6, <3>3
      <3> QED
        BY <2>4, <3>1, <3>2, <3>3
    <2>7. VerdictsStand'
      BY <2>3, <2>6 DEF VerdictsStand
    <2> QED
      BY <2>1, <2>2, <2>3, <2>7
  <1>2. ASSUME \/ \E offerId, callId \in Nat : stageBooking(offerId, callId)
               \/ \E id, token : confirmBooking(id, token)
               \/ \E id : markRecapSent(id)
        PROVE  /\ SnapshotTypeOK'
               /\ UNCHANGED <<calls, briefing>> /\ minted'.call = minted.call
               /\ OffersNumbered'
               /\ VerdictsStand'
    <2>1. SnapshotTypeOK'
      BY <1>0, <1>2, CommitmentMutationsTyped
    <2>2. UNCHANGED <<calls, offers, briefing>> /\ minted'.call = minted.call
      BY <1>0, <1>2 DEF stageBooking, confirmBooking, markRecapSent, SnapshotTypeOK
    <2> QED
      BY <1>0, <2>1, <2>2 DEF OffersNumbered, OneStandingOffer, VerdictsStand
  <1> QED
    BY <1>1, <1>2

\* What a mutation of the calls does in the market.
LEMMA CreateStep ==
    ASSUME MarketInv, NEW mode \in CallMode, NEW k \in Carriers, createCall(mode, k)
    PROVE  /\ SnapshotTypeOK'
           /\ minted.call \in Nat /\ minted'.call = minted.call + 1 /\ minted'.call <= MaxCalls
           /\ minted.call + 1 \in 1..MaxCalls
           /\ minted.call + 1 \notin DOMAIN calls
           /\ DOMAIN calls' = DOMAIN calls \cup {minted.call + 1}
           /\ \A c \in DOMAIN calls : calls'[c] = calls[c]
           /\ calls'[minted.call + 1] = [mode |-> mode, carrierId |-> k, status |-> "QUEUED"]
           /\ OffersNumbered' /\ VerdictsStand'
  <1>0. SnapshotTypeOK
    BY DEF MarketInv, MarketTypeOK
  <1>1. SnapshotTypeOK'
    BY <1>0, CallsTyped
  <1>2. /\ minted.call \in Nat /\ minted'.call = minted.call + 1
        /\ minted.call < MaxCalls /\ MaxCalls \in Nat
    BY <1>0, StoreConstants DEF createCall, SnapshotTypeOK
  <1>3. minted.call + 1 \notin DOMAIN calls
    BY <1>0, <1>2 DEF SnapshotTypeOK
  <1>4. /\ DOMAIN calls' = DOMAIN calls \cup {minted.call + 1}
        /\ \A c \in DOMAIN calls : calls'[c] = calls[c]
        /\ calls'[minted.call + 1] = [mode |-> mode, carrierId |-> k, status |-> "QUEUED"]
    BY <1>3 DEF createCall
  <1>5. UNCHANGED <<offers, briefing>>
    BY DEF createCall
  <1>6. OffersNumbered' /\ VerdictsStand'
    BY <1>5 DEF MarketInv, OffersNumbered, OneStandingOffer, VerdictsStand
  <1> QED
    BY <1>1, <1>2, <1>3, <1>4, <1>6

LEMMA UpdateStep ==
    ASSUME MarketInv, NEW c, NEW s \in CallStatus, updateCall(c, s)
    PROVE  /\ SnapshotTypeOK'
           /\ c \in DOMAIN calls
           /\ minted' = minted
           /\ DOMAIN calls' = DOMAIN calls
           /\ \A d \in DOMAIN calls : /\ calls'[d].mode = calls[d].mode
                                      /\ calls'[d].status = IF d = c THEN s ELSE calls[d].status
           /\ OffersNumbered' /\ VerdictsStand'
  <1>0. SnapshotTypeOK
    BY DEF MarketInv, MarketTypeOK
  <1>1. c \in DOMAIN calls
    BY DEF updateCall
  <1>2. SnapshotTypeOK'
    BY <1>0, <1>1, CallsTyped
  <1>3. /\ DOMAIN calls' = DOMAIN calls
        /\ \A d \in DOMAIN calls : /\ calls'[d].mode = calls[d].mode
                                   /\ calls'[d].status = IF d = c THEN s ELSE calls[d].status
    BY <1>0, <1>1 DEF updateCall, SnapshotTypeOK, CallAttempt
  <1>4. UNCHANGED <<offers, briefing, minted>>
    BY DEF updateCall
  <1>5. OffersNumbered' /\ VerdictsStand'
    BY <1>4 DEF MarketInv, OffersNumbered, OneStandingOffer, VerdictsStand
  <1> QED
    BY <1>1, <1>2, <1>3, <1>4, <1>5

(***************************************************************************)
(* The requests.                                                           *)
(***************************************************************************)
RequestsTyped ==
    /\ requests \subseteq Request
    /\ IsFiniteSet(requests)
    /\ \A r \in requests : r.call \in DOMAIN calls
    /\ \A r, q \in requests : (r.call = q.call /\ r.event = q.event) => r = q

\* Requests that go and requests that come, none of them of a kind that stays.
LEMMA RequestsChange ==
    ASSUME MarketInv, DOMAIN calls \subseteq DOMAIN calls',
           NEW gone, NEW new \in SUBSET Request, IsFiniteSet(new),
           requests' = (requests \ gone) \cup new,
           \A q \in new : q.call \in DOMAIN calls',
           \A q \in new : \A p \in (requests \ gone) \cup new :
              (p.call = q.call /\ p.event = q.event) => p = q
    PROVE  RequestsTyped'
  <1>1. /\ requests \subseteq Request /\ IsFiniteSet(requests)
        /\ \A r \in requests : r.call \in DOMAIN calls
        /\ \A r, q \in requests : (r.call = q.call /\ r.event = q.event) => r = q
    BY DEF MarketInv, MarketTypeOK
  <1>2. IsFiniteSet(requests')
    <2>1. IsFiniteSet(requests \ gone)
      BY <1>1, FS_Difference
    <2> QED
      BY <2>1, FS_Union
  <1>3. ASSUME NEW p \in requests', NEW q \in requests', p.call = q.call, p.event = q.event
        PROVE  p = q
    <2>1. CASE q \in new
      BY <1>3, <2>1
    <2>2. CASE p \in new
      <3>1. q.call = p.call /\ q.event = p.event
        BY <1>3
      <3> QED
        BY <2>2, <3>1
    <2>3. CASE p \in requests /\ q \in requests
      BY <1>1, <1>3, <2>3
    <2> QED
      BY <2>1, <2>2, <2>3
  <1> QED
    BY <1>1, <1>2, <1>3 DEF RequestsTyped

\* A request moves on to its next step.
LEMMA AdvanceEffect ==
    ASSUME MarketInv, DOMAIN calls' = DOMAIN calls, NEW r \in requests,
           NEW step \in Step, NEW arg \in Nat, Advance(r, step, arg)
    PROVE  /\ RequestsTyped'
           /\ \E q \in Request :
                 /\ q.call = r.call /\ q.event = r.event /\ q.step = step /\ q.arg = arg
                 /\ requests' = (requests \ {r}) \cup {q}
  <1>1. r \in Request
    BY DEF MarketInv, MarketTypeOK
  <1>2. PICK q : q = [r EXCEPT !.step = step, !.arg = arg]
    OBVIOUS
  <1>3. q \in Request /\ q.call = r.call /\ q.event = r.event /\ q.step = step /\ q.arg = arg
    BY <1>1, <1>2 DEF Request
  <1>4. requests' = (requests \ {r}) \cup {q}
    BY <1>2 DEF Advance
  <1>5. \A x \in {q} : \A p \in (requests \ {r}) \cup {q} :
           (p.call = x.call /\ p.event = x.event) => p = x
    BY <1>3 DEF MarketInv, MarketTypeOK
  <1>6. \A x \in {q} : x.call \in DOMAIN calls'
    BY <1>3 DEF MarketInv, MarketTypeOK
  <1>7. IsFiniteSet({q}) /\ {q} \in SUBSET Request /\ DOMAIN calls \subseteq DOMAIN calls'
    BY <1>3, FS_Singleton
  <1>8. RequestsTyped'
    <2> DEFINE gone == {r}
               new  == {q}
    <2>1. /\ new \in SUBSET Request /\ IsFiniteSet(new) /\ DOMAIN calls \subseteq DOMAIN calls'
          /\ requests' = (requests \ gone) \cup new
          /\ \A x \in new : x.call \in DOMAIN calls'
          /\ \A x \in new : \A p \in (requests \ gone) \cup new :
                (p.call = x.call /\ p.event = x.event) => p = x
      BY <1>4, <1>5, <1>6, <1>7
    <2> HIDE DEF gone, new
    <2> QED
      BY <2>1, RequestsChange
  <1> QED
    BY <1>3, <1>4, <1>8

LEMMA FinishEffect ==
    ASSUME MarketInv, DOMAIN calls' = DOMAIN calls, NEW r \in requests, Finish(r)
    PROVE  RequestsTyped' /\ requests' \subseteq requests
  BY FS_RemoveElement DEF MarketInv, MarketTypeOK, Finish, RequestsTyped

\* A report or a dial of a call that has none of its kind yet.
LEMMA PostedEffect ==
    ASSUME MarketInv, DOMAIN calls \subseteq DOMAIN calls',
           NEW c \in DOMAIN calls', c \in 1..MaxCalls, NEW event \in Event,
           requests' = requests \cup {Posted(c, event)},
           \A p \in requests : ~(p.call = c /\ p.event = event)
    PROVE  /\ RequestsTyped'
           /\ \E q \in Request :
                 /\ q.call = c /\ q.event = event /\ q.step = "posted" /\ q.arg = 0
                 /\ requests' = requests \cup {q}
  <1>1. PICK q : q = Posted(c, event)
    OBVIOUS
  <1>2. q \in Request /\ q.call = c /\ q.event = event /\ q.step = "posted" /\ q.arg = 0
    BY <1>1 DEF Posted, Request, Step
  <1>3. requests' = (requests \ {}) \cup {q}
    BY <1>1
  <1>4. \A x \in {q} : \A p \in (requests \ {}) \cup {q} :
           (p.call = x.call /\ p.event = x.event) => p = x
    BY <1>2
  <1>5. RequestsTyped'
    <2>1. IsFiniteSet({q}) /\ {q} \in SUBSET Request /\ \A x \in {q} : x.call \in DOMAIN calls'
      BY <1>2, FS_Singleton
    <2> QED
      BY <1>3, <1>4, <2>1, RequestsChange
  <1> QED
    BY <1>2, <1>3, <1>5

\* The invariant after a step, from its parts.
LEMMA MarketAssembled ==
    ASSUME SnapshotTypeOK', RequestsTyped', leg' \in [1..MaxCalls -> Leg],
           escalation' \in 0..minted'.call, minted'.call <= MaxCalls,
           RequestsFollowLegs', LegsAreDialed', OffersNumbered', VerdictsStand'
    PROVE  MarketInv'
  BY DEF MarketInv, MarketTypeOK, RequestsTyped

LEMMA MarketParts ==
    ASSUME MarketInv
    PROVE  /\ SnapshotTypeOK /\ RequestsTyped /\ leg \in [1..MaxCalls -> Leg]
           /\ escalation \in 0..minted.call /\ minted.call <= MaxCalls
           /\ minted.call \in Nat /\ MaxCalls \in Nat
           /\ RequestsFollowLegs /\ LegsAreDialed /\ OffersNumbered /\ VerdictsStand
           /\ DOMAIN calls \subseteq 1..MaxCalls
  <1>1. minted.call \in Nat /\ DOMAIN calls \subseteq 1..minted.call /\ minted.call <= MaxCalls
    BY DEF MarketInv, MarketTypeOK, SnapshotTypeOK
  <1>2. MaxCalls \in Nat
    BY StoreConstants
  <1> QED
    BY <1>1, <1>2 DEF MarketInv, MarketTypeOK, RequestsTyped

\* A step that leaves the snapshot, or all of it but the operation's status.
LEMMA SnapshotStays ==
    ASSUME MarketInv, UNCHANGED <<briefing, calls, offers, commitment, evidence, minted>>,
           opStatus' \in OperationStatus
    PROVE  SnapshotTypeOK' /\ OffersNumbered' /\ VerdictsStand'
  BY DEF MarketInv, MarketTypeOK, SnapshotTypeOK, OffersNumbered, OneStandingOffer,
         VerdictsStand

\* A step that moves no telephone line: the requests that come agree with the
\* lines, and a dial is dropped only when its call is written down.
LEMMA LinesStay ==
    ASSUME MarketInv, leg' = leg, DOMAIN calls \subseteq DOMAIN calls',
           NEW gone, NEW new, requests' = (requests \ gone) \cup new,
           \A q \in new : FollowsLeg(q),
           \A c \in DOMAIN calls : calls'[c].status = "QUEUED" =>
              /\ calls[c].status = "QUEUED"
              /\ \A p \in gone : ~(p.call = c /\ p.event = "dial" /\ p.step = "placed")
    PROVE  RequestsFollowLegs' /\ LegsAreDialed'
  <1>1. RequestsFollowLegs'
    <2>1. \A q : FollowsLeg(q)' <=> FollowsLeg(q)
      BY DEF FollowsLeg
    <2>2. \A q \in requests' : FollowsLeg(q)
      BY MarketParts DEF RequestsFollowLegs
    <2> QED
      BY <2>1, <2>2 DEF RequestsFollowLegs
  <1>2. ASSUME NEW c \in 1..MaxCalls, leg'[c] # "none"
        PROVE  /\ c \in DOMAIN calls'
               /\ \/ calls'[c].status # "QUEUED"
                  \/ \E p \in requests' : p.call = c /\ p.event = "dial" /\ p.step = "placed"
    <2>1. c \in DOMAIN calls
      BY <1>2, MarketParts DEF LegsAreDialed
    <2>2. CASE calls'[c].status = "QUEUED"
      <3>1. PICK p \in requests : p.call = c /\ p.event = "dial" /\ p.step = "placed"
        BY <1>2, <2>1, <2>2, MarketParts DEF LegsAreDialed
      <3>2. p \in requests'
        BY <2>1, <2>2, <3>1
      <3> QED
        BY <2>1, <3>1, <3>2
    <2> QED
      BY <2>1, <2>2
  <1>3. LegsAreDialed'
    BY <1>2 DEF LegsAreDialed
  <1> QED
    BY <1>1, <1>3

(***************************************************************************)
(* One lemma per action, or per kind of action.                            *)
(***************************************************************************)
LEMMA ScanCreatesKeeps ==
    ASSUME MarketInv, NEW k \in Carriers, ScanCreates(k)
    PROVE  MarketInv'
  <1>1. createCall("QUOTE", k) /\ "QUOTE" \in CallMode
    BY DEF ScanCreates, CallMode
  <1>2. /\ SnapshotTypeOK' /\ OffersNumbered' /\ VerdictsStand'
        /\ minted.call \in Nat /\ minted'.call = minted.call + 1 /\ minted'.call <= MaxCalls
        /\ DOMAIN calls \subseteq DOMAIN calls'
        /\ \A c \in DOMAIN calls : calls'[c] = calls[c]
    BY <1>1, CreateStep
  <1>3. /\ requests' = (requests \ {}) \cup {}
        /\ leg' = leg /\ escalation' = escalation
    BY DEF ScanCreates
  <1>4. RequestsTyped'
    BY <1>2, <1>3, MarketParts DEF RequestsTyped
  <1>5. RequestsFollowLegs' /\ LegsAreDialed'
    <2>1. \A c \in DOMAIN calls : calls'[c].status = calls[c].status
      BY <1>2
    <2> DEFINE none == {}
    <2>2. /\ requests' = (requests \ none) \cup none
          /\ \A q \in none : FollowsLeg(q)
          /\ \A c \in DOMAIN calls : \A p \in none :
                ~(p.call = c /\ p.event = "dial" /\ p.step = "placed")
      BY <1>3
    <2> HIDE DEF none
    <2> QED
      BY <1>2, <1>3, <2>1, <2>2, LinesStay
  <1>6. escalation' \in 0..minted'.call /\ leg' \in [1..MaxCalls -> Leg]
    BY <1>2, <1>3, MarketParts
  <1> QED
    BY <1>2, <1>4, <1>5, <1>6, MarketAssembled

LEMMA ScanDialsKeeps == ASSUME MarketInv, ScanDials PROVE MarketInv'
  <1> DEFINE dialed == {Posted(c, "dial") : c \in DOMAIN calls}
  <1>1. /\ requests = {} /\ requests' = dialed
        /\ \A c \in DOMAIN calls : calls[c].status = "QUEUED"
        /\ UNCHANGED <<snapshotVars, leg, escalation>>
    BY DEF ScanDials
  <1>2. SnapshotTypeOK' /\ OffersNumbered' /\ VerdictsStand'
    BY <1>1, SnapshotStays DEF snapshotVars, MarketInv, MarketTypeOK, SnapshotTypeOK
  <1>3. IsFiniteSet(dialed)
    <2> DEFINE f == [c \in DOMAIN calls |-> Posted(c, "dial")]
    <2>1. IsFiniteSet(DOMAIN calls)
      <3>1. IsFiniteSet(1..MaxCalls)
        BY MarketParts, FS_Interval
      <3> QED
        BY <3>1, MarketParts, FS_Subset
    <2>2. f \in Surjection(DOMAIN calls, dialed)
      BY DEF Surjection
    <2> QED
      BY <2>1, <2>2, FS_Surjection
  <1>4. \A q \in dialed : /\ q.call \in DOMAIN calls /\ q.call \in 1..MaxCalls
                          /\ q.event = "dial" /\ q.step = "posted" /\ q.arg = 0
                          /\ q \in Request
                          /\ q = Posted(q.call, "dial")
    BY MarketParts DEF Posted, Request, Event, Step
  <1>5. RequestsTyped'
    BY <1>1, <1>3, <1>4 DEF RequestsTyped, snapshotVars
  <1>6. \A c \in 1..MaxCalls : leg[c] = "none"
    BY <1>1, MarketParts DEF LegsAreDialed
  <1>7. RequestsFollowLegs'
    BY <1>1, <1>4, <1>6 DEF RequestsFollowLegs, FollowsLeg
  <1>8. LegsAreDialed'
    BY <1>1, <1>6 DEF LegsAreDialed
  <1> QED
    BY <1>1, <1>2, <1>5, <1>7, <1>8, MarketParts, MarketAssembled DEF snapshotVars

\* The call a request was made for, and the requests beside it.
LEMMA DialIsFirst ==
    ASSUME MarketInv, NEW r \in requests, r.event = "dial"
    PROVE  /\ r.call \in DOMAIN calls /\ r.call \in 1..MaxCalls
           /\ r.step \in {"posted", "placed"}
           /\ r.step = "posted" => leg[r.call] = "none"
           /\ \A p \in requests : (p.call = r.call /\ p.event = "dial") => p = r
  BY MarketParts DEF RequestsTyped, RequestsFollowLegs, FollowsLeg

LEMMA StartSingleQuoteCallKeeps ==
    ASSUME MarketInv, NEW k \in Carriers, StartSingleQuoteCall(k)
    PROVE  MarketInv'
  <1> DEFINE c == minted.call + 1
  <1>1. createCall("QUOTE", k) /\ "QUOTE" \in CallMode
    BY DEF StartSingleQuoteCall, CallMode
  <1>2. /\ SnapshotTypeOK' /\ OffersNumbered' /\ VerdictsStand'
        /\ minted.call \in Nat /\ minted'.call = minted.call + 1 /\ minted'.call <= MaxCalls
        /\ c \in 1..MaxCalls /\ c \notin DOMAIN calls /\ c \in DOMAIN calls'
        /\ DOMAIN calls \subseteq DOMAIN calls'
        /\ \A d \in DOMAIN calls : calls'[d] = calls[d]
    BY <1>1, CreateStep
  <1>3. /\ requests' = requests \cup {Posted(c, "dial")}
        /\ leg' = leg /\ escalation' = escalation
    BY DEF StartSingleQuoteCall
  <1>4. \A p \in requests : ~(p.call = c /\ p.event = "dial")
    BY <1>2, MarketParts DEF RequestsTyped
  <1>5. PICK q \in Request :
           /\ q.call = c /\ q.event = "dial" /\ q.step = "posted" /\ q.arg = 0
           /\ requests' = requests \cup {q} /\ RequestsTyped'
    <2>1. "dial" \in Event
      BY DEF Event
    <2> HIDE DEF c
    <2> QED
      BY <1>2, <1>3, <1>4, <2>1, PostedEffect
  <1>6. leg[c] = "none"
    BY <1>2, MarketParts DEF LegsAreDialed
  <1>7. RequestsFollowLegs' /\ LegsAreDialed'
    <2> DEFINE new  == {q}
               gone == {}
    <2>1. \A x \in new : FollowsLeg(x)
      BY <1>5, <1>6 DEF FollowsLeg
    <2>2. /\ requests' = (requests \ gone) \cup new
          /\ \A d \in DOMAIN calls : calls'[d].status = "QUEUED" =>
                /\ calls[d].status = "QUEUED"
                /\ \A p \in gone : ~(p.call = d /\ p.event = "dial" /\ p.step = "placed")
      BY <1>2, <1>5
    <2> HIDE DEF new, gone
    <2> QED
      BY <1>2, <1>3, <2>1, <2>2, LinesStay
  <1>8. escalation' \in 0..minted'.call /\ leg' \in [1..MaxCalls -> Leg]
    BY <1>2, <1>3, MarketParts
  <1> QED
    BY <1>2, <1>5, <1>7, <1>8, MarketAssembled

LEMMA DialAcceptedKeeps ==
    ASSUME MarketInv, NEW r \in requests, DialAccepted(r)
    PROVE  MarketInv'
  <1>1. /\ r.event = "dial" /\ r.step = "posted"
        /\ leg' = [leg EXCEPT ![r.call] = "ringing"]
        /\ Advance(r, "placed", 0)
        /\ UNCHANGED <<snapshotVars, escalation>>
    BY DEF DialAccepted
  <1>2. SnapshotTypeOK' /\ OffersNumbered' /\ VerdictsStand'
    BY <1>1, SnapshotStays DEF snapshotVars, MarketInv, MarketTypeOK, SnapshotTypeOK
  <1>3. /\ r.call \in DOMAIN calls /\ r.call \in 1..MaxCalls /\ leg[r.call] = "none"
        /\ \A p \in requests : (p.call = r.call /\ p.event = "dial") => p = r
    BY <1>1, DialIsFirst
  <1>4. PICK q \in Request :
           /\ q.call = r.call /\ q.event = r.event /\ q.step = "placed" /\ q.arg = 0
           /\ requests' = (requests \ {r}) \cup {q}
           /\ RequestsTyped'
    <2>1. "placed" \in Step /\ 0 \in Nat /\ DOMAIN calls' = DOMAIN calls
      BY <1>1 DEF Step, snapshotVars
    <2> QED
      BY <1>1, <2>1, AdvanceEffect
  <1>5. leg' \in [1..MaxCalls -> Leg]
    BY <1>1, MarketParts DEF Leg
  <1>6. /\ leg'[r.call] = "ringing"
        /\ \A c \in 1..MaxCalls : c # r.call => leg'[c] = leg[c]
    BY <1>1, <1>3, MarketParts
  <1>7. \A p \in requests : p \in Request /\ p.call \in 1..MaxCalls /\ FollowsLeg(p)
    BY MarketParts DEF RequestsTyped, RequestsFollowLegs, Request
  <1>8. RequestsFollowLegs'
    <2> SUFFICES ASSUME NEW p \in requests' PROVE FollowsLeg(p)'
      BY DEF RequestsFollowLegs
    <2>1. CASE p = q
      BY <1>1, <1>4, <2>1 DEF FollowsLeg
    <2>2. CASE p \in requests \ {r}
      <3>1. FollowsLeg(p) /\ p.call \in 1..MaxCalls /\ (p.call = r.call => p.event # "dial")
        BY <1>3, <1>7, <2>2
      <3>2. CASE p.call # r.call
        BY <1>6, <3>1, <3>2 DEF FollowsLeg
      <3>3. CASE p.call = r.call
        BY <1>3, <1>6, <3>1, <3>3 DEF FollowsLeg
      <3> QED
        BY <3>2, <3>3
    <2> QED
      BY <1>4, <2>1, <2>2
  <1>9. LegsAreDialed'
    <2> SUFFICES ASSUME NEW c \in 1..MaxCalls, leg'[c] # "none"
                 PROVE  /\ c \in DOMAIN calls'
                        /\ \/ calls'[c].status # "QUEUED"
                           \/ \E p \in requests' :
                                 p.call = c /\ p.event = "dial" /\ p.step = "placed"
      BY DEF LegsAreDialed
    <2>1. calls' = calls
      BY <1>1 DEF snapshotVars
    <2>2. CASE c = r.call
      BY <1>1, <1>3, <1>4, <2>1, <2>2
    <2>3. CASE c # r.call
      <3>1. leg[c] # "none"
        BY <1>6, <2>3
      <3> QED
        BY <1>4, <2>1, <2>3, <3>1, MarketParts DEF LegsAreDialed
    <2> QED
      BY <2>2, <2>3
  <1> QED
    BY <1>1, <1>2, <1>4, <1>5, <1>8, <1>9, MarketParts, MarketAssembled DEF snapshotVars

\* A request that ends, on a step that moves no line.
LEMMA FinishKeeps ==
    ASSUME MarketInv, NEW r \in requests, Finish(r),
           leg' = leg, escalation' = escalation, minted'.call = minted.call,
           SnapshotTypeOK', OffersNumbered', VerdictsStand', DOMAIN calls' = DOMAIN calls,
           \A c \in DOMAIN calls : calls'[c].status = "QUEUED" =>
              /\ calls[c].status = "QUEUED"
              /\ ~(r.call = c /\ r.event = "dial" /\ r.step = "placed")
    PROVE  MarketInv'
  <1>1. RequestsTyped'
    BY FinishEffect
  <1>2. RequestsFollowLegs' /\ LegsAreDialed'
    <2> DEFINE gone == {r}
               new  == {}
    <2>1. /\ requests' = (requests \ gone) \cup new
          /\ \A q \in new : FollowsLeg(q)
          /\ \A c \in DOMAIN calls : calls'[c].status = "QUEUED" =>
                /\ calls[c].status = "QUEUED"
                /\ \A p \in gone : ~(p.call = c /\ p.event = "dial" /\ p.step = "placed")
      BY DEF Finish
    <2> HIDE DEF gone, new
    <2> QED
      BY <2>1, LinesStay
  <1> QED
    BY <1>1, <1>2, MarketParts, MarketAssembled

\* The request that ends a call moves on to its next step.
LEMMA AdvanceKeeps ==
    ASSUME MarketInv, NEW r \in requests, r.event = "stream.stopped",
           NEW step \in Step, NEW arg \in Nat, Advance(r, step, arg),
           step # "placed", step = "create" => arg \in Carriers,
           leg' = leg, escalation' \in 0..minted.call, minted'.call = minted.call,
           SnapshotTypeOK', OffersNumbered', VerdictsStand', DOMAIN calls' = DOMAIN calls,
           \A c \in DOMAIN calls :
              calls'[c].status = "QUEUED" => calls[c].status = "QUEUED"
    PROVE  MarketInv'
  <1>1. PICK q \in Request :
           /\ q.call = r.call /\ q.event = r.event /\ q.step = step /\ q.arg = arg
           /\ requests' = (requests \ {r}) \cup {q}
           /\ RequestsTyped'
    BY AdvanceEffect
  <1>2. RequestsFollowLegs' /\ LegsAreDialed'
    <2> DEFINE gone == {r}
               new  == {q}
    <2>1. FollowsLeg(r)
      BY MarketParts DEF RequestsFollowLegs
    <2>2. \A p \in new : FollowsLeg(p)
      BY <1>1, <2>1 DEF FollowsLeg
    <2>3. /\ requests' = (requests \ gone) \cup new
          /\ \A c \in DOMAIN calls : \A p \in gone :
                ~(p.call = c /\ p.event = "dial" /\ p.step = "placed")
      BY <1>1
    <2> HIDE DEF gone, new
    <2> QED
      BY <2>2, <2>3, LinesStay
  <1> QED
    BY <1>1, <1>2, MarketParts, MarketAssembled

\* Requests about a call the mutation of which is written down.
LEMMA CallRequestsKeep ==
    ASSUME MarketInv, NEW r \in requests,
           DialRefused(r) \/ DialWritten(r) \/ ReportStatus(r) \/ ReportStopped(r)
    PROVE  MarketInv'
  <1>1. ASSUME NEW s \in CallStatus, s # "QUEUED", updateCall(r.call, s)
        PROVE  /\ SnapshotTypeOK' /\ OffersNumbered' /\ VerdictsStand'
               /\ DOMAIN calls' = DOMAIN calls /\ minted' = minted
               /\ \A c \in DOMAIN calls : calls'[c].status = "QUEUED" =>
                     calls[c].status = "QUEUED" /\ c # r.call
    BY <1>1, UpdateStep
  <1>2. CASE DialRefused(r)
    <2>1. /\ r.event = "dial" /\ r.step = "posted" /\ Finish(r)
          /\ UNCHANGED <<leg, escalation>>
          /\ updateCall(r.call, "FAILED") \/ UNCHANGED snapshotVars
      BY <1>2 DEF DialRefused
    <2>2. CASE updateCall(r.call, "FAILED")
      BY <1>1, <2>1, <2>2, FinishKeeps DEF CallStatus
    <2>3. CASE UNCHANGED snapshotVars
      <3>1. SnapshotTypeOK' /\ OffersNumbered' /\ VerdictsStand'
        BY <2>3, SnapshotStays DEF snapshotVars, MarketInv, MarketTypeOK, SnapshotTypeOK
      <3> QED
        BY <2>1, <2>3, <3>1, FinishKeeps DEF snapshotVars
    <2> QED
      BY <2>1, <2>2, <2>3
  <1>3. CASE DialWritten(r)
    <2>1. /\ updateCall(r.call, "RINGING") /\ Finish(r) /\ UNCHANGED <<leg, escalation>>
      BY <1>3 DEF DialWritten
    <2>2. "RINGING" \in CallStatus
      BY DEF CallStatus
    <2> QED
      BY <1>1, <2>1, <2>2, FinishKeeps
  <1>4. CASE ReportStatus(r)
    <2>1. PICK s : s = reportedStatus[r.event]
      OBVIOUS
    <2>2. s \in CallStatus /\ s # "QUEUED"
      BY <1>4, <2>1 DEF ReportStatus, reportedStatus, CallStatus
    <2>3. updateCall(r.call, s) /\ Finish(r) /\ UNCHANGED <<leg, escalation>>
      BY <1>4, <2>1 DEF ReportStatus
    <2> QED
      BY <1>1, <2>2, <2>3, FinishKeeps
  <1>5. CASE ReportStopped(r)
    <2>1. /\ r.event = "stream.stopped" /\ updateCall(r.call, "COMPLETED")
          /\ Advance(r, "settle", 0) /\ UNCHANGED <<leg, escalation>>
      BY <1>5 DEF ReportStopped
    <2>2. "COMPLETED" \in CallStatus /\ "settle" \in Step /\ 0 \in Nat
      BY DEF CallStatus, Step
    <2> QED
      BY <1>1, <2>1, <2>2, MarketParts, AdvanceKeeps
  <1> QED
    BY <1>2, <1>3, <1>4, <1>5

\* A request past the report it handles is about the end of a call.
LEMMA PastTheReport ==
    ASSUME MarketInv, NEW r \in requests, r.step \notin {"posted", "placed"}
    PROVE  r.event = "stream.stopped" /\ r.call \in DOMAIN calls
  BY MarketParts DEF RequestsTyped, RequestsFollowLegs, FollowsLeg, Request, Event

LEMMA SettlingKeeps ==
    ASSUME MarketInv, NEW r \in requests,
           Settle(r) \/ BookWinner(r) \/ Escalate(r) \/ SendRecap(r) \/ MarkRecapSent(r)
    PROVE  MarketInv'
  <1>1. r.event = "stream.stopped"
    BY PastTheReport DEF Settle, BookWinner, Escalate, SendRecap, MarkRecapSent
  <1>2. ASSUME UNCHANGED <<briefing, calls, offers, commitment, evidence, minted, leg>>,
               opStatus' \in OperationStatus, escalation' \in 0..minted.call,
               NEW step \in Step, NEW arg \in Nat, Advance(r, step, arg),
               step # "placed", step = "create" => arg \in Carriers
        PROVE  MarketInv'
    <2>1. SnapshotTypeOK' /\ OffersNumbered' /\ VerdictsStand'
      BY <1>2, SnapshotStays
    <2> QED
      BY <1>1, <1>2, <2>1, AdvanceKeeps
  <1>3. ASSUME UNCHANGED <<snapshotVars, leg, escalation>>, Finish(r)
        PROVE  MarketInv'
    <2>1. SnapshotTypeOK' /\ OffersNumbered' /\ VerdictsStand'
      BY <1>3, SnapshotStays DEF snapshotVars, MarketInv, MarketTypeOK, SnapshotTypeOK
    <2> QED
      BY <1>1, <1>3, <2>1, FinishKeeps DEF snapshotVars
  <1>4. UNCHANGED <<snapshotVars, leg, escalation>> =>
          /\ UNCHANGED <<briefing, calls, offers, commitment, evidence, minted, leg>>
          /\ opStatus' \in OperationStatus /\ escalation' \in 0..minted.call
    BY MarketParts DEF snapshotVars, SnapshotTypeOK
  <1>5. CASE Settle(r)
    <2>1. PICK step : step = verdict
      OBVIOUS
    <2>2. step \in Step /\ step \notin {"placed", "create"} /\ 0 \in Nat
      BY <2>1 DEF verdict, Step
    <2>3. Advance(r, step, 0) /\ UNCHANGED <<snapshotVars, leg, escalation>>
      BY <1>5, <2>1 DEF Settle
    <2> QED
      BY <1>2, <1>4, <2>2, <2>3
  <1>6. CASE BookWinner(r)
    <2>1. UNCHANGED <<snapshotVars, leg, escalation>>
      BY <1>6 DEF BookWinner
    <2>2. CASE Advance(r, "recap", 0)
      <3>1. "recap" \in Step /\ 0 \in Nat
        BY DEF Step
      <3> QED
        BY <1>2, <1>4, <2>1, <2>2, <3>1
    <2>3. ASSUME NEW o \in winners(offers), Advance(r, "create", o.carrierId)
          PROVE  MarketInv'
      <3>1. o \in offers
        BY DEF winners, rankOffers, latestOffers
      <3>2. o.carrierId \in Carriers /\ o.carrierId \in Nat /\ "create" \in Step
        BY <3>1, MarketParts, CarriersAssumption DEF SnapshotTypeOK, Offer, Step
      <3> QED
        BY <1>2, <1>4, <2>1, <2>3, <3>2
    <2> QED
      BY <1>6, <2>2, <2>3 DEF BookWinner
  <1>7. CASE Escalate(r)
    <2>1. /\ UNCHANGED <<briefing, calls, offers, commitment, evidence, minted, leg>>
          /\ Advance(r, "recap", 0)
          /\ "recap" \in Step /\ 0 \in Nat
      BY <1>7 DEF Escalate, Step
    <2>2. opStatus' \in OperationStatus /\ escalation' \in 0..minted.call
      BY <1>7, MarketParts DEF Escalate, quoteCalls, SnapshotTypeOK, OperationStatus
    <2> QED
      BY <1>2, <2>1, <2>2
  <1>8. CASE SendRecap(r)
    <2>1. UNCHANGED <<snapshotVars, leg, escalation>>
      BY <1>8 DEF SendRecap
    <2>2. CASE Finish(r)
      BY <1>3, <2>1, <2>2
    <2>3. CASE commitment # None /\ Advance(r, "mark", commitment.id)
      <3>1. commitment.id \in Nat /\ "mark" \in Step
        BY <2>3, MarketParts DEF SnapshotTypeOK, Commitment, Step
      <3> QED
        BY <1>2, <1>4, <2>1, <2>3, <3>1
    <2> QED
      BY <1>8, <2>2, <2>3 DEF SendRecap
  <1>9. CASE MarkRecapSent(r)
    <2>1. Finish(r) /\ UNCHANGED <<leg, escalation>>
      BY <1>9 DEF MarkRecapSent
    <2>2. CASE UNCHANGED snapshotVars
      BY <1>3, <2>1, <2>2
    <2>3. CASE markRecapSent(r.arg)
      <3>1. SnapshotTypeOK' /\ OffersNumbered' /\ VerdictsStand'
            /\ calls' = calls /\ minted'.call = minted.call
        BY <2>3, OffersStep
      <3> QED
        BY <1>1, <2>1, <3>1, FinishKeeps
    <2> QED
      BY <1>9, <2>2, <2>3 DEF MarkRecapSent
  <1> QED
    BY <1>5, <1>6, <1>7, <1>8, <1>9

LEMMA PlaceBookingKeeps ==
    ASSUME MarketInv, NEW r \in requests, PlaceBooking(r)
    PROVE  MarketInv'
  <1> DEFINE c == minted.call + 1
  <1>1. /\ r.step = "create" /\ createCall("BOOKING", r.arg)
        /\ requests' = (requests \ {r}) \cup {[r EXCEPT !.step = "recap", !.arg = c],
                                              Posted(c, "dial")}
        /\ leg' = leg /\ escalation' = escalation
    BY DEF PlaceBooking
  <1>2. r \in Request /\ FollowsLeg(r) /\ r.call \in DOMAIN calls /\ r.event = "stream.stopped"
    BY <1>1, PastTheReport, MarketParts DEF RequestsTyped, RequestsFollowLegs
  <1>3. r.arg \in Carriers /\ "BOOKING" \in CallMode
    BY <1>1, <1>2 DEF FollowsLeg, CallMode
  <1>4. /\ SnapshotTypeOK' /\ OffersNumbered' /\ VerdictsStand'
        /\ minted.call \in Nat /\ minted'.call = minted.call + 1 /\ minted'.call <= MaxCalls
        /\ c \in 1..MaxCalls /\ c \notin DOMAIN calls /\ c \in DOMAIN calls'
        /\ DOMAIN calls \subseteq DOMAIN calls'
        /\ \A d \in DOMAIN calls : calls'[d] = calls[d]
    BY <1>1, <1>3, CreateStep
  <1>5. PICK q, d :
           /\ q = [r EXCEPT !.step = "recap", !.arg = c] /\ d = Posted(c, "dial")
           /\ requests' = (requests \ {r}) \cup {q, d}
    BY <1>1
  <1>6. /\ q \in Request /\ q.call = r.call /\ q.event = r.event
        /\ q.step = "recap" /\ q.arg = c
    <2>1. c \in Nat
      BY <1>4
    <2> HIDE DEF c
    <2> QED
      BY <1>2, <1>5, <2>1 DEF Request, Step
  <1>7. /\ d \in Request /\ d.call = c /\ d.event = "dial" /\ d.step = "posted" /\ d.arg = 0
    BY <1>4, <1>5 DEF Posted, Request, Event, Step
  <1>8. \A p \in requests : p.call # c
    BY <1>4, MarketParts DEF RequestsTyped
  <1> HIDE DEF c
  <1>9. RequestsTyped'
    <2> DEFINE gone == {r}
               new  == {q, d}
    <2>1. /\ new \in SUBSET Request
          /\ requests' = (requests \ gone) \cup new
          /\ \A x \in new : x.call \in DOMAIN calls'
      BY <1>2, <1>4, <1>5, <1>6, <1>7
    <2>2. IsFiniteSet(new)
      <3>1. IsFiniteSet({q}) /\ new = {q} \cup {d}
        BY FS_Singleton
      <3> QED
        BY <3>1, FS_AddElement
    <2>3. \A x \in new : \A p \in (requests \ gone) \cup new :
             (p.call = x.call /\ p.event = x.event) => p = x
      <3>1. \A p \in requests : (p.call = r.call /\ p.event = r.event) => p = r
        BY MarketParts DEF RequestsTyped
      <3>2. q.event # d.event
        BY <1>2, <1>6, <1>7
      <3> QED
        BY <1>6, <1>7, <1>8, <3>1, <3>2
    <2> HIDE DEF gone, new
    <2> QED
      BY <1>4, <2>1, <2>2, <2>3, RequestsChange
  <1>10. leg[c] = "none"
    BY <1>4, MarketParts DEF LegsAreDialed
  <1>11. RequestsFollowLegs' /\ LegsAreDialed'
    <2> DEFINE gone == {r}
               new  == {q, d}
    <2>1. FollowsLeg(q)
      BY <1>2, <1>6 DEF FollowsLeg
    <2>2. FollowsLeg(d)
      BY <1>7, <1>10 DEF FollowsLeg
    <2>3. \A x \in new : FollowsLeg(x)
      BY <2>1, <2>2
    <2>4. /\ requests' = (requests \ gone) \cup new
          /\ \A x \in DOMAIN calls : \A p \in gone :
                ~(p.call = x /\ p.event = "dial" /\ p.step = "placed")
      BY <1>2, <1>5
    <2>5. \A x \in DOMAIN calls : calls'[x].status = calls[x].status
      BY <1>4
    <2> HIDE DEF gone, new
    <2> QED
      BY <1>1, <1>4, <2>3, <2>4, <2>5, LinesStay
  <1>12. escalation' \in 0..minted'.call /\ leg' \in [1..MaxCalls -> Leg]
    BY <1>1, <1>4, MarketParts
  <1> QED
    BY <1>4, <1>9, <1>11, <1>12, MarketAssembled

\* A report that is posted, or lost, when a line changes.
LEMMA ReportKeeps ==
    ASSUME MarketInv, NEW c \in DOMAIN calls,
           NEW event \in {"call.active", "relay.error", "stream.stopped"},
           Report(c, event), UNCHANGED <<snapshotVars, escalation>>,
           NEW to \in Leg, leg' = [leg EXCEPT ![c] = to], leg[c] \in {"ringing", "live"},
           to \in {"live", "over"}, leg[c] = "live" \/ event # "relay.error",
           event = "stream.stopped" => to = "over",
           \A p \in requests : ~(p.call = c /\ p.event = event)
    PROVE  MarketInv'
  <1>1. SnapshotTypeOK' /\ OffersNumbered' /\ VerdictsStand'
    BY SnapshotStays DEF snapshotVars, MarketInv, MarketTypeOK, SnapshotTypeOK
  <1>2. c \in 1..MaxCalls /\ calls' = calls /\ minted' = minted
    BY MarketParts DEF snapshotVars
  <1>3. /\ leg' \in [1..MaxCalls -> Leg] /\ leg'[c] = to
        /\ \A d \in 1..MaxCalls : d # c => leg'[d] = leg[d]
    BY <1>2, MarketParts
  <1>4. PICK new \in SUBSET Request :
           /\ requests' = requests \cup new
           /\ \A q \in new : q.call = c /\ q.event = event /\ q.step = "posted"
           /\ RequestsTyped'
    <2>1. CASE requests' = requests \cup {Posted(c, event)}
      <3>1. event \in Event /\ c \in DOMAIN calls' /\ DOMAIN calls \subseteq DOMAIN calls'
        BY <1>2 DEF Event
      <3>2. PICK q \in Request :
               /\ q.call = c /\ q.event = event /\ q.step = "posted" /\ q.arg = 0
               /\ requests' = requests \cup {q} /\ RequestsTyped'
        BY <1>2, <2>1, <3>1, PostedEffect
      <3> WITNESS {q} \in SUBSET Request
      <3> QED
        BY <3>2
    <2>2. CASE UNCHANGED requests
      <3>1. RequestsTyped'
        BY <1>2, <2>2, MarketParts DEF RequestsTyped
      <3> WITNESS {} \in SUBSET Request
      <3> QED
        BY <2>2, <3>1
    <2> QED
      BY <2>1, <2>2 DEF Report
  <1>5. \A p \in requests : p \in Request /\ p.call \in 1..MaxCalls /\ FollowsLeg(p)
    BY MarketParts DEF RequestsTyped, RequestsFollowLegs, Request
  <1>6. RequestsFollowLegs'
    <2> SUFFICES ASSUME NEW p \in requests' PROVE FollowsLeg(p)'
      BY DEF RequestsFollowLegs
    <2>1. CASE p \in new
      BY <1>3, <1>4, <2>1 DEF FollowsLeg
    <2>2. CASE p \in requests
      <3>1. CASE p.call # c
        BY <1>3, <1>5, <2>2, <3>1 DEF FollowsLeg
      <3>2. CASE p.call = c
        <4>1. p.event # "stream.stopped" /\ ~(p.event = "dial" /\ p.step = "posted")
          BY <1>5, <2>2, <3>2 DEF FollowsLeg
        <4> QED
          BY <1>3, <1>5, <2>2, <3>2, <4>1 DEF FollowsLeg
      <3> QED
        BY <3>1, <3>2
    <2> QED
      BY <1>4, <2>1, <2>2
  <1>7. LegsAreDialed'
    <2> SUFFICES ASSUME NEW d \in 1..MaxCalls, leg'[d] # "none"
                 PROVE  /\ d \in DOMAIN calls'
                        /\ \/ calls'[d].status # "QUEUED"
                           \/ \E p \in requests' :
                                 p.call = d /\ p.event = "dial" /\ p.step = "placed"
      BY DEF LegsAreDialed
    <2>1. leg[d] # "none"
      BY <1>3
    <2> QED
      BY <1>2, <1>4, <2>1, MarketParts DEF LegsAreDialed
  <1> QED
    BY <1>1, <1>2, <1>3, <1>4, <1>6, <1>7, MarketParts, MarketAssembled

LEMMA LineKeeps ==
    ASSUME MarketInv, NEW c \in DOMAIN calls, Answer(c) \/ SessionError(c) \/ HangUp(c)
    PROVE  MarketInv'
  <1>1. c \in 1..MaxCalls /\ leg \in [1..MaxCalls -> Leg]
    BY MarketParts
  <1>2. \A p \in requests : FollowsLeg(p)
    BY MarketParts DEF RequestsFollowLegs
  <1>3. CASE Answer(c)
    <2>1. /\ leg[c] = "ringing" /\ leg' = [leg EXCEPT ![c] = "live"]
          /\ Report(c, "call.active") /\ UNCHANGED <<snapshotVars, escalation>>
      BY <1>3 DEF Answer
    <2>2. \A p \in requests : ~(p.call = c /\ p.event = "call.active")
      BY <1>2, <2>1 DEF FollowsLeg
    <2>3. "live" \in Leg
      BY DEF Leg
    <2> QED
      BY <2>1, <2>2, <2>3, ReportKeeps
  <1>4. CASE SessionError(c)
    <2>1. /\ leg[c] = "live" /\ leg' = [leg EXCEPT ![c] = "live"]
          /\ Report(c, "relay.error") /\ UNCHANGED <<snapshotVars, escalation>>
          /\ \A p \in requests : ~(p.call = c /\ p.event = "relay.error")
      BY <1>1, <1>4 DEF SessionError
    <2>2. "live" \in Leg
      BY DEF Leg
    <2> QED
      BY <2>1, <2>2, ReportKeeps
  <1>5. CASE HangUp(c)
    <2>1. /\ leg[c] \in {"ringing", "live"} /\ leg' = [leg EXCEPT ![c] = "over"]
          /\ Report(c, "stream.stopped") /\ UNCHANGED <<snapshotVars, escalation>>
      BY <1>5 DEF HangUp
    <2>2. \A p \in requests : ~(p.call = c /\ p.event = "stream.stopped")
      BY <1>2, <2>1 DEF FollowsLeg
    <2>3. "over" \in Leg
      BY DEF Leg
    <2> QED
      BY <2>1, <2>2, <2>3, ReportKeeps
  <1> QED
    BY <1>3, <1>4, <1>5

\* What is said on a line: offers and commitments.
LEMMA TalkKeeps ==
    ASSUME MarketInv, NEW c \in DOMAIN calls,
           \/ \E t \in OfferTerms : CarrierQuotes(c, t)
           \/ \E o \in offers : AgentStages(c, o.id)
           \/ DispatcherConfirms(c)
    PROVE  MarketInv'
  <1>1. UNCHANGED <<leg, requests, escalation>>
    BY DEF CarrierQuotes, AgentStages, DispatcherConfirms
  <1>2. calls[c].carrierId \in Carriers /\ c \in Nat /\ \A o \in offers : o.id \in Nat
    BY MarketParts DEF SnapshotTypeOK, CallAttempt, Offer
  <1>3. \/ \E k \in Carriers, t \in OfferTerms : recordOffer(k, t)
        \/ \E offerId, callId \in Nat : stageBooking(offerId, callId)
        \/ \E id, token : confirmBooking(id, token)
    BY <1>2 DEF CarrierQuotes, AgentStages, DispatcherConfirms
  <1>4. /\ SnapshotTypeOK' /\ OffersNumbered' /\ VerdictsStand'
        /\ calls' = calls /\ minted'.call = minted.call
    BY <1>3, OffersStep
  <1>5. RequestsTyped' /\ RequestsFollowLegs' /\ LegsAreDialed'
    BY <1>1, <1>4, MarketParts
    DEF RequestsTyped, RequestsFollowLegs, FollowsLeg, LegsAreDialed
  <1> QED
    BY <1>1, <1>4, <1>5, MarketParts, MarketAssembled

LEMMA MarketInvHolds == MarketInit => MarketInv
  <1> SUFFICES ASSUME MarketInit PROVE MarketInv
    OBVIOUS
  <1>1. SnapshotTypeOK
    BY StoreConstants
    DEF MarketInit, SnapshotInit, SnapshotTypeOK, OperationStatus
  <1>2. OffersNumbered /\ VerdictsStand
    BY NoOffersNumbered
    DEF MarketInit, SnapshotInit, OffersNumbered, OneStandingOffer, VerdictsStand
  <1>3. leg \in [1..MaxCalls -> Leg] /\ minted.call <= MaxCalls /\ escalation \in 0..minted.call
    BY StoreConstants DEF MarketInit, SnapshotInit, Leg
  <1> QED
    BY <1>1, <1>2, <1>3, FS_EmptySet
    DEF MarketInit, MarketInv, MarketTypeOK, RequestsFollowLegs, LegsAreDialed

LEMMA StepKeepsMarketInv == MarketInv /\ [MarketNext]_marketVars => MarketInv'
  <1> SUFFICES ASSUME MarketInv, [MarketNext]_marketVars PROVE MarketInv'
    OBVIOUS
  <1>1. ASSUME NEW r \in requests, Serve(r) PROVE MarketInv'
    BY <1>1, DialAcceptedKeeps, CallRequestsKeep, SettlingKeeps, PlaceBookingKeeps DEF Serve
  <1>2. ASSUME NEW c \in DOMAIN calls, Talk(c) \/ HangUp(c) PROVE MarketInv'
    BY <1>2, LineKeeps, TalkKeeps DEF Talk
  <1>3. CASE UNCHANGED marketVars
    <2>1. UNCHANGED <<snapshotVars, leg, requests, escalation>>
      BY <1>3 DEF marketVars
    <2>2. SnapshotTypeOK' /\ OffersNumbered' /\ VerdictsStand'
      BY <2>1, SnapshotStays DEF snapshotVars, MarketInv, MarketTypeOK, SnapshotTypeOK
    <2>3. RequestsTyped' /\ RequestsFollowLegs' /\ LegsAreDialed'
      BY <2>1, MarketParts
      DEF snapshotVars, RequestsTyped, RequestsFollowLegs, FollowsLeg, LegsAreDialed
    <2> QED
      BY <2>1, <2>2, <2>3, MarketParts, MarketAssembled DEF snapshotVars
  <1> QED
    BY <1>1, <1>2, <1>3, ScanCreatesKeeps, ScanDialsKeeps, StartSingleQuoteCallKeeps
    DEF MarketNext, Server

\* The inductive invariant: requests follow the telephone lines, lines the
\* status of their calls, and offers are numbered and judged.
THEOREM MarketInvariant == MarketSpec => []MarketInv
  BY MarketInvHolds, StepKeepsMarketInv, PTL DEF MarketSpec

\* A request is about a call that exists, and no call has two requests of one
\* kind: it is dialed once, answered once and ended once.
THEOREM MarketTyped == MarketSpec => []MarketTypeOK
  <1>1. MarketInv => MarketTypeOK
    BY DEF MarketInv
  <1> QED
    BY <1>1, MarketInvariant, PTL

\* However calls, requests and reports race, no carrier has two live offers.
THEOREM MarketOneStandingOffer == MarketSpec => []OneStandingOffer
  <1>1. MarketInv => OneStandingOffer
    BY DEF MarketInv, OffersNumbered
  <1> QED
    BY <1>1, MarketInvariant, PTL

(***************************************************************************)
(* What is confirmed is within the mandate: the dispatcher confirms an     *)
(* offer that wins, and its stored verdict still stands.                   *)
(***************************************************************************)
LEMMA OnlyConfirmingConfirms ==
    ASSUME MarketInv, [MarketNext]_marketVars,
           commitment # None, commitment.status = "PROPOSED",
           commitment' # None, commitment'.status = "VERBALLY_CONFIRMED"
    PROVE  confirmBooking(commitment.id, commitment.id)
  <1>1. commitment' # commitment
    OBVIOUS
  <1>2. \A offerId, callId : ~stageBooking(offerId, callId)
    BY DEF stageBooking, canStage, Standing, Retired
  <1>3. \A id : ~markRecapSent(id)
    <2>1. "PROPOSED" \in CommitmentStatus
      BY DEF CommitmentStatus
    <2>2. ~canTransitionCommitment("PROPOSED", "RECAP_SENT")
      BY <2>1, TransitionSources
    <2> QED
      BY <2>2 DEF markRecapSent, canMarkRecap
  <1>4. ASSUME NEW r \in requests PROVE ~Serve(r)
    BY <1>1, <1>3
    DEF Serve, DialAccepted, DialRefused, DialWritten, ReportStatus, ReportStopped, Settle,
        BookWinner, PlaceBooking, Escalate, SendRecap, MarkRecapSent, snapshotVars,
        updateCall, createCall
  <1>5. ASSUME NEW c \in DOMAIN calls, Talk(c) \/ HangUp(c)
        PROVE  DispatcherConfirms(c)
    BY <1>1, <1>2, <1>5
    DEF Talk, HangUp, Answer, SessionError, CarrierQuotes, AgentStages, snapshotVars,
        recordOffer
  <1>6. \E c \in DOMAIN calls : DispatcherConfirms(c)
    BY <1>1, <1>4, <1>5
    DEF MarketNext, Server, ScanCreates, ScanDials, StartSingleQuoteCall, createCall,
        marketVars, snapshotVars
  <1> QED
    BY <1>6 DEF DispatcherConfirms

\* At the moment a booking is confirmed its terms satisfy the briefing in
\* force, the counter budget included, whatever was quoted since it was staged.
THEOREM MarketConfirmsWithinMandate == MarketSpec => ConfirmedWithinMandate
  <1> DEFINE A == (/\ commitment # None /\ commitment.status = "PROPOSED"
                   /\ commitment' # None /\ commitment'.id = commitment.id
                   /\ commitment'.status = "VERBALLY_CONFIRMED") =>
                     \E o \in offers :
                         /\ o.id = commitment.offerId
                         /\ evaluateOffer(briefing, o.terms, o.revision) = {}
  <1>1. ASSUME MarketInv, [MarketNext]_marketVars PROVE A
    <2> SUFFICES ASSUME commitment # None, commitment.status = "PROPOSED",
                        commitment' # None, commitment'.status = "VERBALLY_CONFIRMED"
                 PROVE  \E o \in offers :
                            /\ o.id = commitment.offerId
                            /\ evaluateOffer(briefing, o.terms, o.revision) = {}
      OBVIOUS
    <2>1. offerBookable(offers, commitment.offerId)
      BY <1>1, OnlyConfirmingConfirms DEF confirmBooking, canConfirm
    <2>2. PICK o \in offers : o.id = commitment.offerId /\ o.eligible
      BY <2>1 DEF offerBookable
    <2>3. evaluateOffer(briefing, o.terms, o.revision) = {}
      BY <1>1, <2>2, MarketParts DEF VerdictsStand
    <2> QED
      BY <2>2, <2>3
  <1>2. MarketInv /\ [MarketNext]_marketVars => [A]_snapshotVars
    BY <1>1
  <1> QED
    BY <1>2, MarketInvariant, PTL DEF MarketSpec, ConfirmedWithinMandate

(***************************************************************************)
(* One booking.  With one report of a call's end worked on at a time, and  *)
(* no session that complains, the market is booked once: the request that  *)
(* is to book has seen that nobody was called to book, and nobody else     *)
(* can be.  BookedOnce is inductive beside MarketInv.                      *)
(***************************************************************************)
OneAtATime == MaxInFlight = 1 /\ "error" \notin Faults

BookedOnce ==
    /\ \A r \in requests : r.event # "relay.error"
    /\ \A c \in BookingCalls : calls[c].status # "FAILED"
    /\ \A c, d \in BookingCalls : c = d
    /\ \A r, q \in InFlight : r = q
    /\ \A r \in InFlight : r.step \in {"book", "create"} => BookingCalls = {}

\* Calls change, but not which of them are to book, nor do these fail.
LEMMA SameBookings ==
    ASSUME MarketInv, BookedOnce, DOMAIN calls \subseteq DOMAIN calls',
           \A c \in DOMAIN calls' :
              /\ c \in DOMAIN calls => calls'[c].mode = calls[c].mode
              /\ c \notin DOMAIN calls => calls'[c].mode = "QUOTE",
           \A c \in BookingCalls : calls'[c].status = "FAILED" => calls[c].status = "FAILED"
    PROVE  /\ BookingCalls' = BookingCalls
           /\ \A c \in BookingCalls' : calls'[c].status # "FAILED"
           /\ \A c, d \in BookingCalls' : c = d
  <1>1. \A c \in DOMAIN calls' : (c \in BookingCalls' <=> c \in BookingCalls)
    BY DEF BookingCalls
  <1>2. BookingCalls' = BookingCalls
    BY <1>1 DEF BookingCalls
  <1> QED
    BY <1>2 DEF BookedOnce

\* Requests come and go, none of them in flight anew, on a step of that kind.
LEMMA NobodyTakesUp ==
    ASSUME MarketInv, BookedOnce, BookingCalls' = BookingCalls,
           \A c \in BookingCalls' : calls'[c].status # "FAILED",
           \A c, d \in BookingCalls' : c = d,
           \A q \in requests' :
              \/ q \in requests
              \/ q.event # "relay.error" /\ q \notin InFlight'
    PROVE  BookedOnce'
  <1>1. \A q \in InFlight' : q \in InFlight
    BY DEF InFlight
  <1> QED
    BY <1>1 DEF BookedOnce

\* The request in flight moves on.
LEMMA InFlightMovesOn ==
    ASSUME MarketInv, BookedOnce, calls' = calls,
           NEW r \in InFlight, NEW step \in Step, NEW arg \in Nat, Advance(r, step, arg),
           step \in {"book", "create"} => BookingCalls = {}
    PROVE  BookedOnce'
  <1>1. r \in requests /\ r.event = "stream.stopped"
    BY DEF InFlight
  <1>2. PICK q \in Request :
           /\ q.call = r.call /\ q.event = r.event /\ q.step = step /\ q.arg = arg
           /\ requests' = (requests \ {r}) \cup {q}
    BY <1>1, AdvanceEffect
  <1>3. \A p \in InFlight' : p = q
    BY <1>2 DEF InFlight, BookedOnce
  <1>4. BookingCalls' = BookingCalls
    BY DEF BookingCalls
  <1>5. \A p \in requests' : p.event # "relay.error"
    BY <1>1, <1>2 DEF BookedOnce
  <1> QED
    BY <1>2, <1>3, <1>4, <1>5 DEF BookedOnce

\* Reports that are posted, and requests that end, on a step that places no
\* booking call and lets none fail.
LEMMA OthersKeepBookedOnce ==
    ASSUME MarketInv, BookedOnce, OneAtATime,
           \/ \E k \in Carriers : ScanCreates(k) \/ StartSingleQuoteCall(k)
           \/ ScanDials
           \/ \E c \in DOMAIN calls : Talk(c) \/ HangUp(c)
           \/ \E r \in requests : DialAccepted(r) \/ DialRefused(r) \/ DialWritten(r)
                                     \/ ReportStatus(r) \/ MarkRecapSent(r)
    PROVE  BookedOnce'
  <1>1. ASSUME calls' = calls,
               \A q \in requests' :
                  \/ q \in requests
                  \/ q.event # "relay.error" /\ q \notin InFlight'
        PROVE  BookedOnce'
    <2>1. /\ BookingCalls' = BookingCalls
          /\ \A c \in BookingCalls' : calls'[c].status # "FAILED"
          /\ \A c, d \in BookingCalls' : c = d
      BY <1>1 DEF BookingCalls, BookedOnce
    <2> QED
      BY <1>1, <2>1, NobodyTakesUp
  <1>2. ASSUME NEW k \in Carriers, createCall("QUOTE", k),
               \A q \in requests' :
                  \/ q \in requests
                  \/ q.event # "relay.error" /\ q \notin InFlight'
        PROVE  BookedOnce'
    <2>1. /\ DOMAIN calls' = DOMAIN calls \cup {minted.call + 1}
          /\ minted.call + 1 \notin DOMAIN calls
          /\ \A c \in DOMAIN calls : calls'[c] = calls[c]
          /\ calls'[minted.call + 1] = [mode |-> "QUOTE", carrierId |-> k, status |-> "QUEUED"]
      BY <1>2, CreateStep DEF CallMode
    <2>2. /\ BookingCalls' = BookingCalls
          /\ \A c \in BookingCalls' : calls'[c].status # "FAILED"
          /\ \A c, d \in BookingCalls' : c = d
      <3>1. \A c \in DOMAIN calls' :
              /\ c \in DOMAIN calls => calls'[c].mode = calls[c].mode
              /\ c \notin DOMAIN calls => calls'[c].mode = "QUOTE"
        BY <2>1
      <3>2. \A c \in BookingCalls : calls'[c].status = "FAILED" => calls[c].status = "FAILED"
        BY <2>1 DEF BookingCalls
      <3> QED
        BY <2>1, <3>1, <3>2, SameBookings
    <2> QED
      BY <1>2, <2>2, NobodyTakesUp
  <1>3. ASSUME NEW c, NEW s \in CallStatus, updateCall(c, s),
               s = "FAILED" => c \notin BookingCalls, requests' \subseteq requests
        PROVE  BookedOnce'
    <2>1. /\ DOMAIN calls' = DOMAIN calls
          /\ \A d \in DOMAIN calls : /\ calls'[d].mode = calls[d].mode
                                     /\ calls'[d].status = IF d = c THEN s ELSE calls[d].status
      BY <1>3, UpdateStep
    <2>2. \A d \in BookingCalls : d \in DOMAIN calls /\
             (calls'[d].status = "FAILED" => calls[d].status = "FAILED")
      BY <1>3, <2>1 DEF BookingCalls
    <2>3. /\ BookingCalls' = BookingCalls
          /\ \A d \in BookingCalls' : calls'[d].status # "FAILED"
          /\ \A d, e \in BookingCalls' : d = e
      BY <2>1, <2>2, SameBookings
    <2> QED
      BY <1>3, <2>3, NobodyTakesUp
  <1>4. ASSUME NEW k \in Carriers, ScanCreates(k) PROVE BookedOnce'
    BY <1>2, <1>4 DEF ScanCreates
  <1>5. \A c, event : /\ Posted(c, event).event = event
                      /\ Posted(c, event).step = "posted"
    BY DEF Posted
  <1>6. \A c, event : Posted(c, event) \notin InFlight'
    BY <1>5 DEF InFlight
  <1>7. ASSUME NEW k \in Carriers, StartSingleQuoteCall(k) PROVE BookedOnce'
    BY <1>2, <1>5, <1>6, <1>7 DEF StartSingleQuoteCall
  <1>8. CASE ScanDials
    BY <1>1, <1>5, <1>6, <1>8 DEF ScanDials, snapshotVars
  <1>9. ASSUME NEW c \in DOMAIN calls, Talk(c) \/ HangUp(c) PROVE BookedOnce'
    <2>1. calls' = calls
      BY <1>9
      DEF Talk, HangUp, Answer, SessionError, CarrierQuotes, AgentStages, DispatcherConfirms,
          snapshotVars, recordOffer, stageBooking, confirmBooking
    <2>2. ~SessionError(c)
      BY DEF OneAtATime, SessionError
    <2>3. \/ UNCHANGED requests
          \/ \E event \in {"call.active", "stream.stopped"} :
                requests' = requests \cup {Posted(c, event)}
      BY <1>9, <2>2
      DEF Talk, HangUp, Answer, CarrierQuotes, AgentStages, DispatcherConfirms, Report
    <2> QED
      BY <1>1, <1>5, <1>6, <2>1, <2>3
  <1>10. ASSUME NEW r \in requests, DialAccepted(r) PROVE BookedOnce'
    <2>1. /\ r.event = "dial" /\ Advance(r, "placed", 0) /\ calls' = calls
          /\ "placed" \in Step /\ 0 \in Nat
      BY <1>10 DEF DialAccepted, snapshotVars, Step
    <2>2. PICK q \in Request : /\ q.event = "dial" /\ requests' = (requests \ {r}) \cup {q}
      BY <2>1, AdvanceEffect
    <2>3. q \notin InFlight'
      BY <2>2 DEF InFlight
    <2> QED
      BY <1>1, <2>1, <2>2, <2>3
  <1>11. ASSUME NEW r \in requests, DialRefused(r) PROVE BookedOnce'
    <2>1. requests' \subseteq requests
      BY <1>11 DEF DialRefused, Finish
    <2>2. CASE calls[r.call].mode = "QUOTE" /\ updateCall(r.call, "FAILED")
      <3>1. r.call \notin BookingCalls /\ "FAILED" \in CallStatus
        BY <2>2 DEF BookingCalls, CallStatus
      <3> QED
        BY <1>3, <2>1, <2>2, <3>1
    <2>3. CASE UNCHANGED snapshotVars
      BY <1>1, <2>1, <2>3 DEF snapshotVars
    <2> QED
      BY <1>11, <2>2, <2>3 DEF DialRefused
  <1>12. ASSUME NEW r \in requests, DialWritten(r) PROVE BookedOnce'
    BY <1>3, <1>12 DEF DialWritten, Finish, CallStatus
  <1>13. ASSUME NEW r \in requests, ReportStatus(r) PROVE BookedOnce'
    <2>1. r.event = "call.active"
      BY <1>13 DEF ReportStatus, reportedStatus, BookedOnce
    <2>2. updateCall(r.call, "IN_PROGRESS") /\ requests' \subseteq requests
      BY <1>13, <2>1 DEF ReportStatus, reportedStatus, Finish
    <2> QED
      BY <1>3, <2>2 DEF CallStatus
  <1>14. ASSUME NEW r \in requests, MarkRecapSent(r) PROVE BookedOnce'
    <2>1. requests' \subseteq requests /\ calls' = calls
      BY <1>14 DEF MarkRecapSent, Finish, markRecapSent, snapshotVars
    <2> QED
      BY <1>1, <2>1
  <1> QED
    BY <1>4, <1>7, <1>8, <1>9, <1>10, <1>11, <1>12, <1>13, <1>14

\* The end of a call is taken up when no other is being worked on.
LEMMA ReportStoppedKeepsBookedOnce ==
    ASSUME MarketInv, BookedOnce, OneAtATime, NEW r \in requests, ReportStopped(r)
    PROVE  BookedOnce'
  <1>1. /\ r.event = "stream.stopped" /\ updateCall(r.call, "COMPLETED")
        /\ Cardinality(InFlight) < 1 /\ Advance(r, "settle", 0)
    BY DEF ReportStopped, OneAtATime
  <1>2. InFlight = {}
    <2>1. IsFiniteSet(requests) /\ InFlight \in SUBSET requests
      BY MarketParts DEF RequestsTyped, InFlight
    <2>2. IsFiniteSet(InFlight)
      BY <2>1, FS_Subset
    <2>3. Cardinality(InFlight) \in Nat
      BY <2>2, FS_CardinalityType
    <2>4. Cardinality(InFlight) = 0
      BY <1>1, <2>3
    <2> QED
      BY <2>2, <2>4, FS_EmptySet
  <1>3. /\ DOMAIN calls' = DOMAIN calls
        /\ \A d \in DOMAIN calls :
              /\ calls'[d].mode = calls[d].mode
              /\ calls'[d].status = IF d = r.call THEN "COMPLETED" ELSE calls[d].status
    BY <1>1, UpdateStep DEF CallStatus
  <1>4. \A d \in BookingCalls : d \in DOMAIN calls /\
           (calls'[d].status = "FAILED" => calls[d].status = "FAILED")
    BY <1>3 DEF BookingCalls
  <1>5. /\ BookingCalls' = BookingCalls
        /\ \A d \in BookingCalls' : calls'[d].status # "FAILED"
        /\ \A d, e \in BookingCalls' : d = e
    BY <1>3, <1>4, SameBookings
  <1>6. PICK q \in Request :
           /\ q.event = r.event /\ q.step = "settle"
           /\ requests' = (requests \ {r}) \cup {q}
    BY <1>1, <1>3, AdvanceEffect DEF Step
  <1>7. \A p \in InFlight' : p = q
    BY <1>2, <1>6 DEF InFlight
  <1>8. \A p \in requests' : p.event # "relay.error"
    BY <1>1, <1>6 DEF BookedOnce
  <1> QED
    BY <1>5, <1>6, <1>7, <1>8 DEF BookedOnce

LEMMA SettlingKeepsBookedOnce ==
    ASSUME MarketInv, BookedOnce, NEW r \in requests,
           Settle(r) \/ BookWinner(r) \/ Escalate(r) \/ SendRecap(r)
    PROVE  BookedOnce'
  <1>1. r \in InFlight
    BY PastTheReport DEF Settle, BookWinner, Escalate, SendRecap, InFlight
  <1>2. calls' = calls
    BY DEF Settle, BookWinner, Escalate, SendRecap, snapshotVars
  <1>3. CASE Settle(r)
    <2>1. PICK step : step = verdict
      OBVIOUS
    <2>2. step \in Step /\ step # "create" /\ 0 \in Nat /\ Advance(r, step, 0)
      BY <1>3, <2>1 DEF Settle, verdict, Step
    <2>3. step = "book" => BookingCalls = {}
      BY <2>1 DEF verdict, openBooking, BookedOnce
    <2> QED
      BY <1>1, <1>2, <2>2, <2>3, InFlightMovesOn
  <1>4. CASE BookWinner(r)
    <2>1. BookingCalls = {}
      BY <1>1, <1>4 DEF BookWinner, BookedOnce
    <2>2. \A o \in winners(offers) : o.carrierId \in Nat
      BY MarketParts, CarriersAssumption
      DEF winners, rankOffers, latestOffers, SnapshotTypeOK, Offer
    <2>3. "create" \in Step /\ "recap" \in Step /\ 0 \in Nat
      BY DEF Step
    <2>4. PICK step \in Step, arg \in Nat : Advance(r, step, arg)
      BY <1>4, <2>2, <2>3 DEF BookWinner
    <2> QED
      BY <1>1, <1>2, <2>1, <2>4, InFlightMovesOn
  <1>5. CASE Escalate(r)
    BY <1>1, <1>2, <1>5, InFlightMovesOn DEF Escalate, Step
  <1>6. CASE SendRecap(r)
    <2>1. CASE Finish(r)
      <3>1. /\ BookingCalls' = BookingCalls
            /\ \A c \in BookingCalls' : calls'[c].status # "FAILED"
            /\ \A c, d \in BookingCalls' : c = d
        BY <1>2 DEF BookingCalls, BookedOnce
      <3>2. requests' \subseteq requests
        BY <2>1 DEF Finish
      <3> QED
        BY <3>1, <3>2, NobodyTakesUp
    <2>2. CASE commitment # None /\ Advance(r, "mark", commitment.id)
      <3>1. commitment.id \in Nat /\ "mark" \in Step
        BY <2>2, MarketParts DEF SnapshotTypeOK, Commitment, Step
      <3> QED
        BY <1>1, <1>2, <2>2, <3>1, InFlightMovesOn
    <2> QED
      BY <1>6, <2>1, <2>2 DEF SendRecap
  <1> QED
    BY <1>3, <1>4, <1>5, <1>6

\* The request that places the booking call is the one in flight, and no
\* booking call was placed before it.
LEMMA PlaceBookingKeepsBookedOnce ==
    ASSUME MarketInv, BookedOnce, NEW r \in requests, PlaceBooking(r)
    PROVE  BookedOnce'
  <1>1. /\ r.step = "create" /\ createCall("BOOKING", r.arg)
    BY DEF PlaceBooking
  <1>2. r \in InFlight /\ r.event = "stream.stopped"
    BY <1>1, PastTheReport DEF InFlight
  <1>3. BookingCalls = {}
    BY <1>1, <1>2 DEF BookedOnce
  <1>4. r.arg \in Carriers /\ r \in Request
    BY <1>1, MarketParts DEF RequestsTyped, RequestsFollowLegs, FollowsLeg
  <1>5. PICK c : c = minted.call + 1
    OBVIOUS
  <1>6. /\ DOMAIN calls' = DOMAIN calls \cup {c}
        /\ \A d \in DOMAIN calls : calls'[d] = calls[d]
        /\ calls'[c].status = "QUEUED"
    <2>1. "BOOKING" \in CallMode
      BY DEF CallMode
    <2>2. /\ DOMAIN calls' = DOMAIN calls \cup {minted.call + 1}
          /\ \A d \in DOMAIN calls : calls'[d] = calls[d]
          /\ calls'[minted.call + 1] =
                [mode |-> "BOOKING", carrierId |-> r.arg, status |-> "QUEUED"]
      BY <1>1, <1>4, <2>1, CreateStep
    <2> QED
      BY <1>5, <2>2
  <1>7. BookingCalls' \subseteq {c}
    BY <1>3, <1>6 DEF BookingCalls
  <1>8. PICK q, d :
           /\ q = [r EXCEPT !.step = "recap", !.arg = c] /\ d = Posted(c, "dial")
           /\ requests' = (requests \ {r}) \cup {q, d}
    BY <1>5 DEF PlaceBooking
  <1>9. /\ q.event = "stream.stopped" /\ q.step = "recap"
        /\ d.event = "dial"
    BY <1>2, <1>4, <1>8 DEF Request, Posted
  <1>10. \A p \in InFlight' : p = q
    BY <1>2, <1>8, <1>9 DEF InFlight, BookedOnce
  <1>11. \A p \in requests' : p.event # "relay.error"
    BY <1>8, <1>9 DEF BookedOnce
  <1>12. \A e \in BookingCalls' : calls'[e].status # "FAILED"
    BY <1>6, <1>7
  <1> QED
    BY <1>7, <1>9, <1>10, <1>11, <1>12 DEF BookedOnce

LEMMA StepKeepsBookedOnce ==
    ASSUME OneAtATime
    PROVE  MarketInv /\ BookedOnce /\ [MarketNext]_marketVars => BookedOnce'
  <1> SUFFICES ASSUME MarketInv, BookedOnce, [MarketNext]_marketVars PROVE BookedOnce'
    OBVIOUS
  <1>1. ASSUME NEW r \in requests, Serve(r) PROVE BookedOnce'
    BY <1>1, OthersKeepBookedOnce, ReportStoppedKeepsBookedOnce, SettlingKeepsBookedOnce,
       PlaceBookingKeepsBookedOnce DEF Serve
  <1>2. CASE UNCHANGED marketVars
    BY <1>2 DEF marketVars, snapshotVars, BookedOnce, BookingCalls, InFlight
  <1> QED
    BY <1>1, <1>2, OthersKeepBookedOnce DEF MarketNext, Server

\* With one report of a call's end worked on at a time, and no session that
\* complains, the server has at most one booking call that did not fail,
\* whatever is refused, lost, reordered or called again.
THEOREM MarketBooksOnce ==
    ASSUME OneAtATime
    PROVE  MarketSpec => []NoDoubleBooking
  <1>1. MarketInit => BookedOnce
    BY DEF MarketInit, SnapshotInit, BookedOnce, BookingCalls, InFlight
  <1>2. BookedOnce => NoDoubleBooking
    <2> SUFFICES ASSUME BookedOnce PROVE NoDoubleBooking
      OBVIOUS
    <2> DEFINE working == {c \in BookingCalls : calls[c].status # "FAILED"}
    <2>1. CASE working = {}
      BY <2>1, FS_EmptySet DEF NoDoubleBooking
    <2>2. CASE working # {}
      <3>1. PICK c \in working : TRUE
        BY <2>2
      <3>2. working = {c}
        BY <3>1 DEF BookedOnce
      <3>3. Cardinality(working) = 1
        BY <3>2, FS_Singleton
      <3> QED
        BY <3>3 DEF NoDoubleBooking
    <2> QED
      BY <2>1, <2>2
  <1> QED
    BY <1>1, <1>2, MarketInvariant, StepKeepsBookedOnce, PTL DEF MarketSpec


(***************************************************************************)
(* The ranking.  Standing offers are of different carriers, so ranksBefore *)
(* orders them strictly and totally, and a finite market with anything to  *)
(* rank has one head: the offer with the fewest before it.                 *)
(***************************************************************************)
LEMMA RanksBeforeOrders ==
    /\ \A a \in Offer : ~ranksBefore(a, a)
    /\ \A a, b, c \in Offer : ranksBefore(a, b) /\ ranksBefore(b, c) => ranksBefore(a, c)
    /\ \A a, b \in Offer :
          a.carrierId # b.carrierId => ranksBefore(a, b) \/ ranksBefore(b, a)
  <1>1. ASSUME NEW a \in Offer
        PROVE  a.terms.amount \in Nat /\ a.terms.pickupTime \in Nat /\ a.carrierId \in Nat
    BY CarriersAssumption, TermsAssumption DEF Offer
  <1> QED
    BY <1>1 DEF ranksBefore

LEMMA RankingHasOneHead ==
    ASSUME NEW quoted \in SUBSET Offer, IsFiniteSet(quoted),
           \A o, p \in rankOffers(quoted) : o.carrierId = p.carrierId => o = p,
           rankOffers(quoted) # {}
    PROVE  \E w \in rankOffers(quoted) : winners(quoted) = {w}
  <1> DEFINE ranking   == rankOffers(quoted)
             before(o) == {p \in ranking : ranksBefore(p, o)}
             sets      == {before(o) : o \in ranking}
  <1>1. ranking \subseteq quoted /\ IsFiniteSet(ranking) /\ ranking \subseteq Offer
    <2>1. ranking \subseteq quoted
      BY DEF rankOffers, latestOffers
    <2> QED
      BY <2>1, FS_Subset
  <1>2. /\ \A o \in ranking : ~ranksBefore(o, o)
        /\ \A o, p, q \in ranking : ranksBefore(o, p) /\ ranksBefore(p, q) => ranksBefore(o, q)
        /\ \A o, p \in ranking : o # p => ranksBefore(o, p) \/ ranksBefore(p, o)
    BY <1>1, RanksBeforeOrders
  <1>3. ranking # {}
    OBVIOUS
  <1>4. winners(quoted) = {o \in ranking : \A p \in ranking : p = o \/ ranksBefore(o, p)}
    BY DEF winners
  <1> HIDE DEF ranking
  <1>5. IsWellFoundedOn(StrictSubsetOrdering(ranking), SUBSET ranking)
    BY <1>1, FS_StrictSubsetOrderingWellFounded, FS_FiniteSubsetsOfFinite
  <1>6. PICK least \in sets : \A s \in sets : ~(<<s, least>> \in StrictSubsetOrdering(ranking))
    <2>1. \A o \in ranking : before(o) \in SUBSET ranking
      OBVIOUS
    <2> HIDE DEF before
    <2>2. sets \subseteq SUBSET ranking
      BY <2>1
    <2>3. sets # {}
      BY <1>3
    <2> HIDE DEF sets
    <2> QED
      BY <1>5, <2>2, <2>3, WFMin
  <1>7. PICK w \in ranking : least = before(w)
    BY <1>6
  <1>8. ASSUME NEW p \in before(w) PROVE FALSE
    <2>1. p \in ranking /\ ranksBefore(p, w)
      BY <1>8
    <2>2. before(p) \subseteq before(w) /\ p \notin before(p)
      BY <1>2, <2>1
    <2>3. before(p) # before(w) /\ before(p) \in sets /\ before(w) \in sets
      BY <1>8, <2>1, <2>2
    <2>4. <<before(p), before(w)>> \in StrictSubsetOrdering(ranking)
      <3>1. before(p) \in SUBSET ranking /\ before(w) \in SUBSET ranking
        OBVIOUS
      <3> HIDE DEF before
      <3> QED
        BY <2>2, <2>3, <3>1 DEF StrictSubsetOrdering
    <2> QED
      BY <1>6, <1>7, <2>3, <2>4
  <1>9. \A p \in ranking : p = w \/ ranksBefore(w, p)
    BY <1>2, <1>8
  <1>10. \A o \in winners(quoted) : o = w
    BY <1>2, <1>4, <1>9
  <1> QED
    BY <1>4, <1>9, <1>10 DEF ranking

\* There is one offer stageBooking takes, if there is any to rank.
OneIsBookable ==
    /\ rankOffers(offers) # {} =>
          \E w \in rankOffers(offers) :
              \A id \in Nat : offerBookable(offers, id) <=> id = w.id
    /\ rankOffers(offers) = {} => \A id \in Nat : ~offerBookable(offers, id)

LEMMA NumberedMarketHasOneWinner ==
    ASSUME SnapshotTypeOK, OffersNumbered
    PROVE  OneIsBookable
  <1>1. offers \in SUBSET Offer /\ IsFiniteSet(offers)
    BY DEF SnapshotTypeOK, OffersNumbered
  <1>2. \A o, p \in rankOffers(offers) : o.carrierId = p.carrierId => o = p
    <2> SUFFICES ASSUME NEW o \in rankOffers(offers), NEW p \in rankOffers(offers),
                        o.carrierId = p.carrierId
                 PROVE  o = p
      OBVIOUS
    <2>1. o \in offers /\ p \in offers /\ o.revision <= p.revision /\ p.revision <= o.revision
      BY DEF rankOffers, latestOffers
    <2>2. o.revision = p.revision
      BY <1>1, <2>1 DEF Offer
    <2> QED
      BY <2>1, <2>2 DEF OffersNumbered
  <1>3. ASSUME rankOffers(offers) # {}
        PROVE  \E w \in rankOffers(offers) :
                  \A id \in Nat : offerBookable(offers, id) <=> id = w.id
    <2>1. PICK w \in rankOffers(offers) : winners(offers) = {w}
      BY <1>1, <1>2, <1>3, RankingHasOneHead
    <2>2. w \in offers /\ w.eligible /\ ~w.superseded
      BY DEF rankOffers, latestOffers
    <2> QED
      BY <2>1, <2>2 DEF offerBookable, isWinner
  <1>4. ASSUME rankOffers(offers) = {} PROVE \A id \in Nat : ~offerBookable(offers, id)
    BY <1>4 DEF offerBookable, isWinner, winners
  <1> QED
    BY <1>3, <1>4 DEF OneIsBookable

\* Whatever calls, tools and requests race, a market with an eligible offer
\* has one winner, and assertOfferBookable takes that offer and no other.
THEOREM FlowHasOneWinner == FlowSpec => []OneIsBookable
  <1>1. FlowInit => OffersNumbered
    BY NoOffersNumbered DEF FlowInit, SnapshotInit, OffersNumbered, OneStandingOffer
  <1>2. FlowTypeOK => SnapshotTypeOK
    BY DEF FlowTypeOK
  <1>3. SnapshotTypeOK /\ OffersNumbered => OneIsBookable
    BY NumberedMarketHasOneWinner
  <1> QED
    BY <1>1, <1>2, <1>3, FlowTyped, StepKeepsNumbers, PTL DEF FlowSpec

\* The same of the automated market: autoBookIfSettled and closing on a quote
\* call find one winner, whatever races.
THEOREM MarketHasOneWinner == MarketSpec => []OneIsBookable
  <1>1. MarketInv => SnapshotTypeOK /\ OffersNumbered
    BY DEF MarketInv, MarketTypeOK
  <1>2. SnapshotTypeOK /\ OffersNumbered => OneIsBookable
    BY NumberedMarketHasOneWinner
  <1> QED
    BY <1>1, <1>2, MarketInvariant, PTL


(***************************************************************************)
(* The automated market implements the commitment gate as well.  It links  *)
(* no audio, so nothing in it commits: MarketGateInv says which proofs the *)
(* commitment has by its status.                                           *)
(***************************************************************************)
MarketGateInv ==
    /\ evidence = None
    /\ commitment # None =>
         /\ commitment.status \in {"PROPOSED", "VERBALLY_CONFIRMED", "RECAP_SENT"}
         /\ commitment.verballyConfirmedAt <=> commitment.status # "PROPOSED"
         /\ commitment.recapSentAt <=> commitment.status = "RECAP_SENT"

\* What the gate sees of a commitment in the market.
LEMMA MarketGateMapping ==
    ASSUME MarketInv, MarketGateInv
    PROVE  /\ commitment = None => gatePhase = "none" /\ gateProofs = {}
           /\ commitment # None =>
                /\ gatePhase = "open"
                /\ commitment.status = "PROPOSED" => gateProofs = {}
                /\ commitment.status = "VERBALLY_CONFIRMED" => gateProofs = {"voice"}
                /\ commitment.status = "RECAP_SENT" => gateProofs = {"voice", "recap"}
  <1>1. commitment # None => commitment \in Commitment /\ commitment.id # None
    BY MarketParts, StoreConstants DEF SnapshotTypeOK, Commitment
  <1> QED
    BY <1>1, GateMapping DEF MarketGateInv, Retired

LEMMA MarketGateMappingPrimed ==
    ASSUME MarketInv', MarketGateInv'
    PROVE  /\ commitment' = None => gatePhase' = "none" /\ gateProofs' = {}
           /\ commitment' # None =>
                /\ gatePhase' = "open"
                /\ commitment'.status = "PROPOSED" => gateProofs' = {}
                /\ commitment'.status = "VERBALLY_CONFIRMED" => gateProofs' = {"voice"}
                /\ commitment'.status = "RECAP_SENT" => gateProofs' = {"voice", "recap"}
  <1>1. commitment' # None => commitment' \in Commitment /\ commitment'.id # None
    BY StoreConstants DEF MarketInv, MarketTypeOK, SnapshotTypeOK, Commitment
  <1> QED
    BY <1>1, GateMappingPrimed DEF MarketGateInv, Retired

\* The steps that touch the commitment.
LEMMA MarketCommitmentSteps ==
    ASSUME MarketInv, [MarketNext]_marketVars
    PROVE  \/ \E offerId, callId \in Nat : stageBooking(offerId, callId)
           \/ \E id, token : confirmBooking(id, token)
           \/ \E id : markRecapSent(id)
           \/ /\ UNCHANGED <<commitment, evidence>>
              /\ minted'.commitment = minted.commitment
  <1> DEFINE Untouched == /\ UNCHANGED <<commitment, evidence>>
                          /\ minted'.commitment = minted.commitment
  <1>1. /\ minted \in [call : Nat, offer : Nat, commitment : Nat]
        /\ \A o \in offers : o.id \in Nat
        /\ \A c \in DOMAIN calls : c \in Nat
    BY MarketParts DEF SnapshotTypeOK, Offer
  <1>2. ASSUME NEW mode, NEW k, createCall(mode, k) PROVE Untouched
    BY <1>1, <1>2 DEF createCall
  <1>3. ASSUME NEW r \in requests, Serve(r) PROVE (\E id : markRecapSent(id)) \/ Untouched
    BY <1>2, <1>3
    DEF Serve, DialAccepted, DialRefused, DialWritten, ReportStatus, ReportStopped, Settle,
        BookWinner, PlaceBooking, Escalate, SendRecap, MarkRecapSent, snapshotVars, updateCall
  <1>4. ASSUME NEW c \in DOMAIN calls, Talk(c) \/ HangUp(c)
        PROVE  \/ \E offerId, callId \in Nat : stageBooking(offerId, callId)
               \/ \E id, token : confirmBooking(id, token)
               \/ Untouched
    <2>1. ASSUME NEW t \in OfferTerms, CarrierQuotes(c, t) PROVE Untouched
      BY <1>1, <2>1 DEF CarrierQuotes, recordOffer
    <2>2. ASSUME NEW o \in offers, AgentStages(c, o.id)
          PROVE  \E offerId, callId \in Nat : stageBooking(offerId, callId)
      BY <1>1, <2>2 DEF AgentStages
    <2>3. CASE DispatcherConfirms(c)
      BY <2>3 DEF DispatcherConfirms
    <2>4. CASE Answer(c) \/ SessionError(c) \/ HangUp(c)
      BY <2>4 DEF Answer, SessionError, HangUp, snapshotVars
    <2> QED
      BY <1>4, <2>1, <2>2, <2>3, <2>4 DEF Talk
  <1>5. CASE \/ \E k \in Carriers : ScanCreates(k) \/ StartSingleQuoteCall(k)
             \/ ScanDials
             \/ UNCHANGED marketVars
    BY <1>2, <1>5 DEF ScanCreates, StartSingleQuoteCall, ScanDials, marketVars, snapshotVars
  <1> QED
    BY <1>3, <1>4, <1>5 DEF MarketNext, Server

LEMMA StepKeepsMarketGate ==
    ASSUME MarketInv, MarketInv', MarketGateInv, [MarketNext]_marketVars
    PROVE  MarketGateInv' /\ [Gate!GateNext]_Gate!gateVars
  <1> USE DEF Gate!GateNext
  <1>0. /\ minted \in [call : Nat, offer : Nat, commitment : Nat]
        /\ commitment # None => /\ commitment \in Commitment
                                /\ commitment.status \in CommitmentStatus
    BY MarketParts DEF SnapshotTypeOK, Commitment
  <1>1. ASSUME NEW offerId \in Nat, NEW callId \in Nat, stageBooking(offerId, callId)
        PROVE  MarketGateInv' /\ Gate!Open
    <2>1. commitment = None
      BY <1>1 DEF stageBooking, canStage, Standing, MarketGateInv, Retired
    <2>2. /\ commitment'.status = "PROPOSED"
          /\ ~commitment'.verballyConfirmedAt /\ ~commitment'.recapSentAt
          /\ commitment' # None /\ evidence' = None
          /\ minted'.commitment = minted.commitment + 1
      <3>1. PICK o \in offers :
               commitment' = [id                  |-> minted.commitment + 1,
                              carrierId           |-> o.carrierId,
                              offerId             |-> offerId,
                              bookingCallId       |-> callId,
                              status              |-> "PROPOSED",
                              tokenExpired        |-> FALSE,
                              verballyConfirmedAt |-> FALSE,
                              recapSentAt         |-> FALSE,
                              committedAt         |-> FALSE]
        BY <1>1 DEF stageBooking
      <3>2. o.carrierId \in Carriers
        BY MarketParts DEF SnapshotTypeOK, Offer
      <3>3. commitment' \in Commitment
        BY <1>0, <3>1, <3>2 DEF Commitment, CommitmentStatus
      <3> QED
        BY <1>0, <1>1, <3>1, <3>3, StoreConstants DEF stageBooking, MarketGateInv
    <2>3. MarketGateInv'
      BY <2>2 DEF MarketGateInv
    <2>4. gatePhase = "none" /\ gatePhase' = "open" /\ gateProofs' = {}
      BY <2>1, <2>2, <2>3, MarketGateMapping, MarketGateMappingPrimed
    <2> QED
      BY <2>2, <2>3, <2>4 DEF Gate!Open
  <1>2. ASSUME NEW id, NEW token, confirmBooking(id, token)
        PROVE  MarketGateInv' /\ Gate!Prove("voice")
    <2>1. commitment # None /\ commitment.status = "PROPOSED"
      BY <1>0, <1>2, TransitionSources DEF confirmBooking, canConfirm, IsCurrent
    <2>2. /\ commitment' = [commitment EXCEPT !.status = "VERBALLY_CONFIRMED",
                                              !.verballyConfirmedAt = TRUE]
          /\ evidence' = evidence /\ minted' = minted
      BY <1>2 DEF confirmBooking
    <2>3. /\ commitment' # None /\ commitment'.status = "VERBALLY_CONFIRMED"
          /\ commitment'.verballyConfirmedAt
          /\ commitment'.recapSentAt = commitment.recapSentAt
      BY <1>0, <2>1, <2>2, StoreConstants DEF Commitment, CommitmentStatus
    <2>4. MarketGateInv'
      BY <2>1, <2>2, <2>3 DEF MarketGateInv
    <2>5. /\ gatePhase = "open" /\ gateProofs = {}
          /\ gatePhase' = "open" /\ gateProofs' = {"voice"}
      BY <2>1, <2>3, <2>4, MarketGateMapping, MarketGateMappingPrimed
    <2> QED
      BY <2>2, <2>4, <2>5 DEF Gate!Prove, Gate!Proofs
  <1>3. ASSUME NEW id, markRecapSent(id)
        PROVE  MarketGateInv' /\ Gate!Prove("recap")
    <2>1. /\ commitment # None /\ commitment.status = "VERBALLY_CONFIRMED"
          /\ commitment.id = id
      BY <1>0, <1>3, TransitionSources DEF markRecapSent, canMarkRecap, IsCurrent
    <2>2. evidence # id
      BY <1>0, <2>1, StoreConstants DEF Commitment, MarketGateInv
    <2>3. /\ commitment' = [commitment EXCEPT !.status = "RECAP_SENT", !.recapSentAt = TRUE]
          /\ evidence' = evidence /\ minted' = minted
      BY <1>3, <2>2 DEF markRecapSent
    <2>4. /\ commitment' # None /\ commitment'.status = "RECAP_SENT"
          /\ commitment'.verballyConfirmedAt = commitment.verballyConfirmedAt
          /\ commitment'.recapSentAt
      BY <1>0, <2>1, <2>3, StoreConstants DEF Commitment, CommitmentStatus
    <2>5. MarketGateInv'
      BY <2>1, <2>3, <2>4 DEF MarketGateInv
    <2>6. /\ gatePhase = "open" /\ gateProofs = {"voice"}
          /\ gatePhase' = "open" /\ gateProofs' = {"voice", "recap"}
      BY <2>1, <2>4, <2>5, MarketGateMapping, MarketGateMappingPrimed
    <2> QED
      BY <2>3, <2>5, <2>6 DEF Gate!Prove, Gate!Proofs
  <1>4. ASSUME UNCHANGED <<commitment, evidence>>, minted'.commitment = minted.commitment
        PROVE  MarketGateInv' /\ UNCHANGED Gate!gateVars
    BY <1>4, GateUntouched DEF MarketGateInv
  <1>5. "voice" \in Gate!Proofs /\ "recap" \in Gate!Proofs
    BY DEF Gate!Proofs
  <1> QED
    BY <1>1, <1>2, <1>3, <1>4, <1>5, MarketCommitmentSteps

\* However calls, reports and the requests they start interleave, the market
\* moves a commitment as the gate allows: the spoken yes first, the recap next,
\* and never back.
THEOREM MarketImplementsGate == MarketSpec => ImplementsGate
  <1>1. MarketInit => MarketGateInv /\ Gate!GateInit
    BY GateMapping DEF MarketInit, SnapshotInit, MarketGateInv, Gate!GateInit
  <1>2. MarketInv /\ MarketInv' /\ MarketGateInv /\ [MarketNext]_marketVars
            => MarketGateInv' /\ [Gate!GateNext]_Gate!gateVars
    BY StepKeepsMarketGate
  <1> QED
    BY <1>1, <1>2, MarketInvariant, PTL DEF MarketSpec, ImplementsGate, Gate!GateSpec

=============================================================================
