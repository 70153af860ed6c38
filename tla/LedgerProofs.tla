---------------------------- MODULE LedgerProofs ----------------------------
(***************************************************************************)
(* That the ledger loses an event only in an outage as long as the         *)
(* snapshot's memory, that evidence stays where it was linked, and that    *)
(* utterances, decisions and briefs are kept once, for any capacities, any *)
(* number of instances and of events to a mutation.                        *)
(*                                                                         *)
(* The first is a count.  A mutation pushes MaxPush events at most and     *)
(* writes every event it keeps, so an event that is n events old was       *)
(* written n \div MaxPush times at least; each of these writes has missed  *)
(* the table, or is on its way there (TriedOften).  An event leaves the    *)
(* snapshot when it is EventCap old.                                       *)
(*                                                                         *)
(* A segment evidences one decision because it is linked when it is first  *)
(* said, and what evidences a decision was said before (KeptInv).          *)
(***************************************************************************)
EXTENDS Ledger, SequenceTheorems, FiniteSetTheorems, TLAPS

Upserting(e) == {i \in Instances : e \in mirroring[i]}
Tries(e) == misses[e] + Cardinality(Upserting(e))

LedgerTyped ==
    /\ pushed \in 0..MaxEvents
    /\ mirroring \in [Instances -> SUBSET (1..pushed)]
    /\ misses \in [EventId -> 0..Memory]

RecentEvents ==
    /\ events \in Seq(EventId)
    /\ Len(events) = IF pushed < EventCap THEN pushed ELSE EventCap
    /\ \A k \in 1..Len(events) : events[k] = pushed + 1 - k

TriedOften ==
    \A e \in 1..pushed :
       e \notin ledger => \/ Tries(e) >= Memory
                          \/ pushed - e < Tries(e) * MaxPush

EventsInv == LedgerTyped /\ RecentEvents /\ TriedOften

(***************************************************************************)
(* Numbers.                                                                *)
(***************************************************************************)
LEMMA Numbers ==
    /\ EventCap \in Nat /\ EventCap > 0 /\ DecisionCap \in Nat /\ DecisionCap > 0
    /\ MaxPush \in Nat /\ MaxPush > 0 /\ MaxPush <= EventCap /\ MaxEvents \in Nat
    /\ Memory \in Nat
    /\ Memory * MaxPush <= EventCap
  <1>1. /\ EventCap \in Nat /\ EventCap > 0 /\ DecisionCap \in Nat /\ DecisionCap > 0
        /\ MaxPush \in Nat /\ MaxPush > 0 /\ MaxPush <= EventCap /\ MaxEvents \in Nat
    BY LedgerAssumption
  <1>2. EventCap \div MaxPush \in Int /\ EventCap \div MaxPush >= 0
    BY <1>1
  <1>3. MaxPush * (EventCap \div MaxPush) <= EventCap
    BY <1>1
  <1>. QED BY <1>1, <1>2, <1>3 DEF Memory

LEMMA OneMoreTry ==
    ASSUME NEW tries \in Nat, NEW n \in 0..MaxPush, NEW old \in Int, old < tries * MaxPush
    PROVE  old + n < (tries + 1) * MaxPush
  <1>1. (tries + 1) * MaxPush = tries * MaxPush + MaxPush /\ tries * MaxPush \in Int
    BY Numbers
  <1>. QED BY <1>1, Numbers

LEMMA OldIsTried ==
    ASSUME NEW tries \in Nat, NEW old \in Int, old >= EventCap, old < (tries + 1) * MaxPush
    PROVE  tries >= Memory
  <1>. SUFFICES ASSUME tries + 1 <= Memory PROVE FALSE
    BY Numbers
  <1>1. (tries + 1) * MaxPush <= Memory * MaxPush
    BY Numbers
  <1>. QED BY <1>1, Numbers

LEMMA TriesTyped ==
    ASSUME NEW e, NEW m \in 0..Memory, NEW f
    PROVE  LET up == {i \in Instances : e \in f[i]}
           IN  /\ IsFiniteSet(up) /\ m + Cardinality(up) \in Nat
               /\ Cardinality(up) \in Nat
  <1>. DEFINE up == {i \in Instances : e \in f[i]}
  <1>1. IsFiniteSet(up)
    BY FS_Subset, LedgerAssumption
  <1>2. Cardinality(up) \in Nat
    BY <1>1, FS_CardinalityType
  <1>. QED BY <1>1, <1>2, Numbers

(***************************************************************************)
(* Mutations.                                                              *)
(***************************************************************************)
LEMMA PushKeepsRecent ==
    ASSUME pushed \in 0..MaxEvents, RecentEvents, NEW n \in 0..MaxPush, pushEvents(n)
    PROVE  /\ RecentEvents' /\ pushed' \in 0..MaxEvents /\ pushed' = pushed + n
           /\ ToSet(events)' = {e \in 1..pushed' : pushed' - e < EventCap}
  <1>0. n \in Nat /\ pushed \in Nat /\ pushed + n <= MaxEvents /\ pushed' = pushed + n
    BY Numbers DEF pushEvents
  <1>. DEFINE new == [k \in 1..n |-> pushed + n + 1 - k]
              all == new \o events
              len == IF Len(all) < EventCap THEN Len(all) ELSE EventCap
  <1>1. new \in Seq(EventId) /\ Len(new) = n /\ \A k \in 1..n : new[k] = pushed + n + 1 - k
    <2>1. new \in [1..n -> EventId]
      BY <1>0, Numbers DEF EventId
    <2>2. new \in Seq(EventId)
      BY <1>0, <2>1, SeqDef
    <2>3. Len(new) = n
      BY <1>0, <2>1, <2>2, LenProperties
    <2>. QED BY <2>1, <2>2, <2>3
  <1>2. events \in Seq(EventId)
    BY DEF RecentEvents
  <1>3. /\ all \in Seq(EventId) /\ Len(all) = n + Len(events)
        /\ \A k \in 1..(n + Len(events)) : all[k] = IF k <= n THEN new[k] ELSE events[k - n]
    <2>. HIDE DEF new
    <2>. QED BY <1>1, <1>2, ConcatProperties
  <1>4. Len(events) \in Nat
    BY <1>2, LenProperties
  <1>5. \A k \in 1..Len(all) : all[k] = pushed + n + 1 - k
    <2>. SUFFICES ASSUME NEW k \in 1..Len(all) PROVE all[k] = pushed + n + 1 - k
      OBVIOUS
    <2>. HIDE DEF new, all
    <2>1. CASE k <= n
      BY <2>1, <1>0, <1>1, <1>3, <1>4
    <2>2. CASE k > n
      <3>1. k - n \in 1..Len(events) /\ all[k] = events[k - n]
        BY <2>2, <1>0, <1>3, <1>4
      <3>2. events[k - n] = pushed + 1 - (k - n)
        BY <3>1 DEF RecentEvents
      <3>3. k \in Nat
        BY <1>0, <1>3, <1>4
      <3>. QED BY <3>1, <3>2, <3>3, <1>0
    <2>. QED BY <2>1, <2>2, <1>0, <1>3, <1>4
  <1>6. events' = SubSeq(all, 1, len)
    BY DEF pushEvents, Newest
  <1>. HIDE DEF new, all
  <1>7. len \in Nat /\ len <= Len(all) /\ \A k \in 1..len : all[k] \in EventId
    BY <1>0, <1>3, <1>4, Numbers, ElementOfSeq
  <1>. HIDE DEF len
  <1>8. /\ events' \in Seq(EventId) /\ Len(events') = len
        /\ \A k \in 1..len : events'[k] = pushed' + 1 - k
    <2>1. /\ SubSeq(all, 1, len) \in Seq(EventId)
          /\ Len(SubSeq(all, 1, len)) = IF 1 <= len THEN len - 1 + 1 ELSE 0
          /\ \A k \in 1..(len - 1 + 1) : SubSeq(all, 1, len)[k] = all[1 + k - 1]
      BY <1>7, SubSeqProperties
    <2>2. \A k \in 1..len : k \in 1..Len(all) /\ 1 + k - 1 = k
      BY <1>3, <1>4, <1>0, <1>7
    <2>. QED BY <1>0, <1>5, <1>6, <1>7, <2>1, <2>2
  <1>9. len = IF pushed' < EventCap THEN pushed' ELSE EventCap
    BY <1>0, <1>3, Numbers DEF len, RecentEvents
  <1>10. RecentEvents'
    BY <1>8, <1>9 DEF RecentEvents
  <1>11. DOMAIN events' = 1..len
    BY <1>8, LenProperties
  <1>12. ToSet(events') = {e \in 1..pushed' : pushed' - e < EventCap}
    <2>1. ASSUME NEW e \in ToSet(events') PROVE e \in 1..pushed' /\ pushed' - e < EventCap
      <3>1. PICK k \in 1..len : e = events'[k]
        BY <1>11, <2>1 DEF ToSet
      <3>. QED BY <3>1, <1>0, <1>7, <1>8, <1>9, Numbers
    <2>2. ASSUME NEW e \in 1..pushed', pushed' - e < EventCap PROVE e \in ToSet(events')
      <3>1. pushed' + 1 - e \in 1..len /\ events'[pushed' + 1 - e] = e
        BY <2>2, <1>0, <1>8, <1>9, Numbers
      <3>. QED BY <3>1, <1>11 DEF ToSet
    <2>. QED BY <2>1, <2>2
  <1>. QED BY <1>0, <1>10, <1>12

LEMMA MutationKeepsEvents ==
    ASSUME EventsInv, NEW i \in Instances, NEW n \in 0..MaxPush, Mutate(i, n)
    PROVE  EventsInv'
  <1>. USE DEF EventsInv
  <1>1. /\ RecentEvents' /\ pushed' \in 0..MaxEvents /\ pushed' = pushed + n
        /\ ToSet(events') = {e \in 1..pushed' : pushed' - e < EventCap}
    BY PushKeepsRecent DEF Mutate, LedgerTyped
  <1>2. /\ mirroring[i] = {} /\ mirroring' = [mirroring EXCEPT ![i] = ToSet(events')]
        /\ UNCHANGED <<ledger, misses>>
    BY DEF Mutate, written
  <1>3. n \in Nat /\ pushed \in Nat /\ pushed' \in Nat
    BY <1>1, Numbers DEF LedgerTyped
  <1>4. LedgerTyped'
    <2>1. ToSet(events') \subseteq 1..pushed' /\ 1..pushed \subseteq 1..pushed'
      BY <1>1, <1>3
    <2>2. mirroring' \in [Instances -> SUBSET (1..pushed')]
      BY <1>2, <2>1 DEF LedgerTyped
    <2>. QED BY <1>1, <1>2, <2>2 DEF LedgerTyped
  <1>5. ASSUME NEW e \in 1..pushed', e \notin ledger'
        PROVE  \/ Tries(e)' >= Memory
               \/ pushed' - e < Tries(e)' * MaxPush
    <2>. DEFINE up == Cardinality(Upserting(e))
                upAfter == Cardinality(Upserting(e)')
    <2>0. e \in EventId /\ misses'[e] = misses[e] /\ misses[e] \in 0..Memory
      BY <1>1, <1>2, <1>3, Numbers DEF LedgerTyped, EventId
    <2>1. IsFiniteSet(Upserting(e)) /\ up \in Nat /\ upAfter \in Nat
      BY <2>0, TriesTyped DEF Upserting
    <2>2. CASE pushed' - e < EventCap
      <3>1. Upserting(e)' = Upserting(e) \union {i} /\ i \notin Upserting(e)
        BY <1>1, <1>2, <2>2 DEF Upserting, LedgerTyped
      <3>2. upAfter = up + 1
        BY <2>1, <3>1, FS_AddElement
      <3>. DEFINE tries == misses[e] + up
      <3>3. tries \in Nat /\ Tries(e)' = tries + 1 /\ Tries(e) = tries
        BY <2>0, <2>1, <3>2, Numbers DEF Tries
      <3>. HIDE DEF tries, up, upAfter
      <3>4. CASE e > pushed
        <4>1. pushed' - e < MaxPush
          BY <3>4, <1>1, <1>3, Numbers
        <4>2. MaxPush <= (tries + 1) * MaxPush
          BY <3>3, Numbers
        <4>3. (tries + 1) * MaxPush \in Int
          BY <3>3, Numbers
        <4>4. pushed' - e \in Int /\ MaxPush \in Int
          BY <1>3, Numbers
        <4>5. pushed' - e < (tries + 1) * MaxPush
          BY <4>1, <4>2, <4>3, <4>4
        <4>. QED BY <4>5, <3>3
      <3>5. CASE e <= pushed
        <4>1. tries >= Memory \/ pushed - e < tries * MaxPush
          BY <3>3, <3>5, <1>2, <1>3, <1>5 DEF TriedOften
        <4>2. CASE tries >= Memory
          BY <4>2, <3>3, Numbers
        <4>3. CASE pushed - e < tries * MaxPush
          <5>1. pushed - e + n < (tries + 1) * MaxPush
            BY <4>3, <3>3, <1>3, OneMoreTry
          <5>2. pushed - e + n = pushed' - e
            BY <1>1, <1>3
          <5>. QED BY <5>1, <5>2, <3>3
        <4>. QED BY <4>1, <4>2, <4>3
      <3>. QED BY <3>4, <3>5, <1>3
    <2>3. CASE pushed' - e >= EventCap
      <3>1. Upserting(e)' = Upserting(e) /\ e <= pushed
        BY <1>1, <1>2, <1>3, <2>3, Numbers DEF Upserting, LedgerTyped
      <3>. DEFINE tries == misses[e] + up
      <3>2. tries \in Nat /\ Tries(e)' = tries /\ Tries(e) = tries
        BY <2>0, <2>1, <3>1, Numbers DEF Tries
      <3>. HIDE DEF tries, up, upAfter
      <3>3. tries >= Memory \/ pushed - e < tries * MaxPush
        BY <3>1, <3>2, <1>2, <1>3, <1>5 DEF TriedOften
      <3>4. CASE pushed - e < tries * MaxPush
        <4>1. pushed - e + n < (tries + 1) * MaxPush
          BY <3>4, <3>2, <1>3, OneMoreTry
        <4>2. pushed - e + n >= EventCap /\ pushed - e + n \in Int
          BY <1>1, <1>3, <2>3
        <4>. QED BY <4>1, <4>2, <3>2, OldIsTried
      <3>. QED BY <3>2, <3>3, <3>4
    <2>4. pushed' - e < EventCap \/ pushed' - e >= EventCap
      <3>1. pushed' - e \in Int /\ EventCap \in Int
        BY <1>3, <2>0, Numbers DEF EventId
      <3>. QED BY <3>1
    <2>. QED BY <2>2, <2>3, <2>4
  <1>6. TriedOften'
    BY <1>5 DEF TriedOften
  <1>. QED BY <1>1, <1>4, <1>6

(***************************************************************************)
(* The other steps.                                                        *)
(***************************************************************************)
\* A mutation of any kind is a Mutate, which is all the events know of it.
LEMMA StepsMutate ==
    ASSUME NEW i \in Instances,
           \/ addEvent(i)
           \/ \E s \in TranscriptSegment : recordTranscript(i, s)
           \/ \E key \in Key, n \in 0..(MaxPush - 1) : pushDecision(i, key, n)
           \/ \E c \in Calls : finalizeCallBrief(i, c)
    PROVE  \E n \in 0..MaxPush : Mutate(i, n)
  <1>n. 0 \in 0..MaxPush /\ 1 \in 0..MaxPush
    BY Numbers
  <1>1. CASE addEvent(i)
    BY <1>1, <1>n DEF addEvent
  <1>2. ASSUME NEW s \in TranscriptSegment, recordTranscript(i, s)
        PROVE  \E n \in 0..MaxPush : Mutate(i, n)
    BY <1>2, <1>n DEF recordTranscript
  <1>3. ASSUME NEW key \in Key, NEW n \in 0..(MaxPush - 1), pushDecision(i, key, n)
        PROVE  \E m \in 0..MaxPush : Mutate(i, m)
    <2>1. n \in 0..MaxPush /\ n + 1 \in 0..MaxPush
      BY Numbers
    <2>2. Mutate(i, n) \/ Mutate(i, n + 1)
      BY <1>3 DEF pushDecision
    <2>. QED BY <2>1, <2>2
  <1>4. ASSUME NEW c \in Calls, finalizeCallBrief(i, c)
        PROVE  \E n \in 0..MaxPush : Mutate(i, n)
    BY <1>4, <1>n DEF finalizeCallBrief
  <1>. QED BY <1>1, <1>2, <1>3, <1>4

LEMMA MirrorKeepsEvents ==
    ASSUME EventsInv, NEW i \in Instances, MirrorLands(i) \/ MirrorFails(i)
    PROVE  EventsInv'
  <1>. USE DEF EventsInv
  <1>1. /\ UNCHANGED <<events, pushed>>
        /\ mirroring' = [mirroring EXCEPT ![i] = {}]
    BY DEF MirrorLands, MirrorFails, snapshot
  <1>2. RecentEvents'
    BY <1>1 DEF RecentEvents
  <1>3. \A e \in EventId : /\ misses[e] \in 0..Memory
                           /\ misses'[e] = IF MirrorFails(i) /\ e \in mirroring[i] \ ledger /\ misses[e] < Memory
                                           THEN misses[e] + 1 ELSE misses[e]
    BY DEF MirrorLands, MirrorFails, LedgerTyped
  <1>4. misses' \in [EventId -> 0..Memory]
    <2>1. CASE MirrorFails(i)
      BY <2>1, Numbers DEF MirrorFails, LedgerTyped
    <2>2. CASE MirrorLands(i)
      BY <2>2 DEF MirrorLands, LedgerTyped
    <2>. QED BY <2>1, <2>2
  <1>5. LedgerTyped'
    BY <1>1, <1>4 DEF LedgerTyped
  <1>6. ASSUME NEW e \in 1..pushed, e \notin ledger'
        PROVE  Tries(e)' = Tries(e) \/ Tries(e)' >= Memory
    <2>. DEFINE up == Cardinality(Upserting(e))
                upAfter == Cardinality(Upserting(e)')
    <2>0. e \in EventId /\ e \notin ledger
      BY <1>6, Numbers DEF LedgerTyped, EventId, MirrorLands, MirrorFails
    <2>1. /\ misses[e] \in 0..Memory /\ misses'[e] \in 0..Memory
          /\ IsFiniteSet(Upserting(e)) /\ up \in Nat /\ upAfter \in Nat
      BY <1>3, <1>4, <2>0, TriesTyped DEF Upserting
    <2>2. Upserting(e)' = Upserting(e) \ {i}
      BY <1>1 DEF Upserting, LedgerTyped
    <2>3. CASE e \notin mirroring[i]
      <3>1. Upserting(e)' = Upserting(e) /\ misses'[e] = misses[e]
        BY <1>3, <2>0, <2>2, <2>3 DEF Upserting
      <3>. QED BY <3>1 DEF Tries
    <2>4. CASE e \in mirroring[i]
      <3>1. MirrorFails(i)
        BY <1>6, <2>4 DEF MirrorLands
      <3>2. upAfter = up - 1
        BY <2>1, <2>2, <2>4, FS_RemoveElement DEF Upserting
      <3>3. misses'[e] = IF misses[e] < Memory THEN misses[e] + 1 ELSE misses[e]
        BY <1>3, <2>0, <2>4, <3>1
      <3>4. Tries(e) = misses[e] + up /\ Tries(e)' = misses'[e] + upAfter
        BY DEF Tries
      <3>. HIDE DEF up, upAfter
      <3>. QED BY <2>1, <3>2, <3>3, <3>4, Numbers
    <2>. QED BY <2>3, <2>4
  <1>7. TriedOften'
    <2>1. ledger \subseteq ledger'
      BY DEF MirrorLands, MirrorFails
    <2>2. ASSUME NEW e \in 1..pushed, e \notin ledger'
          PROVE  \/ Tries(e)' >= Memory
                 \/ pushed - e < Tries(e)' * MaxPush
      BY <1>6, <2>1, <2>2 DEF TriedOften
    <2>. QED BY <1>1, <2>2 DEF TriedOften
  <1>. QED BY <1>2, <1>5, <1>7

LEMMA StepEvents == EventsInv /\ [Next]_vars => EventsInv'
  <1>. SUFFICES ASSUME EventsInv, [Next]_vars PROVE EventsInv'
    OBVIOUS
  <1>1. CASE UNCHANGED vars
    BY <1>1 DEF vars, snapshot, EventsInv, LedgerTyped, RecentEvents, TriedOften, Tries, Upserting
  <1>2. ASSUME NEW i \in Instances, MirrorLands(i) \/ MirrorFails(i) PROVE EventsInv'
    BY <1>2, MirrorKeepsEvents
  <1>3. ASSUME NEW i \in Instances, \E n \in 0..MaxPush : Mutate(i, n) PROVE EventsInv'
    BY <1>3, MutationKeepsEvents
  <1>. QED BY <1>1, <1>2, <1>3, StepsMutate DEF Next

LEMMA InitEvents == Init => EventsInv
  <1>. SUFFICES ASSUME Init PROVE EventsInv
    OBVIOUS
  <1>1. pushed = 0 /\ events = <<>> /\ 1..pushed = {}
    BY DEF Init
  <1>2. LedgerTyped
    BY Numbers DEF Init, LedgerTyped
  <1>3. RecentEvents
    BY <1>1, Numbers, EmptySeq DEF RecentEvents
  <1>. QED BY <1>1, <1>2, <1>3 DEF EventsInv, TriedOften

LEMMA EventsSuffice == EventsInv => LostOnlyInLongOutage
  <1>. SUFFICES ASSUME EventsInv, NEW e \in 1..pushed, e \notin ledger, e \notin ToSet(events),
                       \A i \in Instances : e \notin mirroring[i]
                PROVE  misses[e] = Memory
    BY DEF LostOnlyInLongOutage
  <1>. USE DEF EventsInv
  <1>1. pushed \in Nat /\ e \in EventId /\ misses[e] \in 0..Memory
    BY Numbers DEF LedgerTyped, EventId
  <1>2. Upserting(e) = {}
    BY DEF Upserting
  <1>3. Tries(e) = misses[e]
    BY <1>1, <1>2, FS_EmptySet, Numbers DEF Tries
  <1>4. pushed - e >= EventCap
    <2>. SUFFICES ASSUME pushed - e < EventCap PROVE e \in ToSet(events)
      BY <1>1, Numbers
    <2>1. pushed + 1 - e \in 1..Len(events)
      BY <1>1, Numbers DEF RecentEvents
    <2>2. events[pushed + 1 - e] = e
      BY <2>1, <1>1 DEF RecentEvents
    <2>3. DOMAIN events = 1..Len(events)
      BY LenProperties DEF RecentEvents
    <2>. QED BY <2>1, <2>2, <2>3 DEF ToSet
  <1>5. CASE misses[e] >= Memory
    BY <1>1, <1>5, Numbers
  <1>6. CASE pushed - e < misses[e] * MaxPush
    <2>1. misses[e] \in Nat /\ pushed - e \in Int
      BY <1>1, Numbers
    <2>2. pushed - e + 0 < (misses[e] + 1) * MaxPush
      BY <1>6, <2>1, OneMoreTry, Numbers
    <2>3. misses[e] >= Memory
      BY <1>4, <2>1, <2>2, OldIsTried
    <2>. QED BY <1>1, <2>3, Numbers
  <1>. QED BY <1>3, <1>5, <1>6 DEF TriedOften

(***************************************************************************)
(* Decisions and their evidence.                                           *)
(***************************************************************************)
DecisionsInv ==
    /\ decisions \in Seq(OperationalDecision)
    /\ \A j, k \in 1..Len(decisions) : decisions[j].key = decisions[k].key => j = k
    /\ \A k \in 1..Len(decisions) :
          \A s \in decisions[k].evidence : s.call = decisions[k].key.call

EvidenceStays ==
    \A j \in 1..Len(decisions), k \in 1..Len(decisions') :
       (decisions'[k].key = decisions[j].key /\ decisions[j].evidence # {})
          => /\ decisions'[k].evidence = decisions[j].evidence
             /\ \A s \in decisions[j].evidence : s.call = decisions[j].key.call

\* What a step may do to the decisions: nothing, link, or add one.
LinkedTo(s) ==
    /\ Len(decisions') = Len(decisions)
    /\ \A k \in 1..Len(decisions) :
          \/ decisions'[k] = decisions[k]
          \/ /\ decisions[k].evidence = {} /\ decisions[k].key.call = s.call
             /\ decisions'[k] = [decisions[k] EXCEPT !.evidence = {s}]

AddedFor(key) ==
    /\ \A k \in 1..Len(decisions) : decisions[k].key # key
    /\ Len(decisions') <= Len(decisions) + 1
    /\ \A k \in 1..Len(decisions') :
          decisions'[k] = IF k = 1 THEN [key |-> key, evidence |-> {}] ELSE decisions[k - 1]

LEMMA PushAdds ==
    ASSUME DecisionsInv, NEW i \in Instances, NEW key \in Key, NEW n \in 0..(MaxPush - 1),
           pushDecision(i, key, n), ~UNCHANGED decisions
    PROVE  decisions' \in Seq(OperationalDecision) /\ AddedFor(key)
  <1>t. decisions \in Seq(OperationalDecision) /\ Len(decisions) \in Nat
    BY LenProperties DEF DecisionsInv
  <1>. DEFINE new == <<[key |-> key, evidence |-> {}]>>
              all == new \o decisions
              len == IF Len(all) < DecisionCap THEN Len(all) ELSE DecisionCap
  <1>1. new \in Seq(OperationalDecision) /\ Len(new) = 1 /\ new[1] = [key |-> key, evidence |-> {}]
    BY DEF OperationalDecision
  <1>2. /\ all \in Seq(OperationalDecision) /\ Len(all) = 1 + Len(decisions)
        /\ \A k \in 1..(1 + Len(decisions)) : all[k] = IF k <= 1 THEN new[k] ELSE decisions[k - 1]
    <2>. HIDE DEF new
    <2>1. /\ all \in Seq(OperationalDecision) /\ Len(all) = Len(new) + Len(decisions)
          /\ \A k \in 1..(Len(new) + Len(decisions)) :
                all[k] = IF k <= Len(new) THEN new[k] ELSE decisions[k - Len(new)]
      BY <1>t, <1>1, ConcatProperties
    <2>2. Len(new) = 1
      BY <1>1
    <2>. HIDE DEF all
    <2>. QED BY <2>1, <2>2
  <1>3. /\ decisions' = SubSeq(all, 1, len)
        /\ \A k \in 1..Len(decisions) : decisions[k].key # key
    BY DEF pushDecision, Newest
  <1>. HIDE DEF all
  <1>4. len \in Nat /\ len <= Len(all) /\ \A k \in 1..len : all[k] \in OperationalDecision
    BY <1>t, <1>2, Numbers, ElementOfSeq
  <1>. HIDE DEF len
  <1>5. /\ decisions' \in Seq(OperationalDecision)
        /\ Len(decisions') = IF 1 <= len THEN len - 1 + 1 ELSE 0
        /\ \A k \in 1..(len - 1 + 1) : decisions'[k] = all[1 + k - 1]
    BY <1>3, <1>4, SubSeqProperties
  <1>6. Len(decisions') = len
    BY <1>4, <1>5
  <1>7. \A k \in 1..len : decisions'[k] = IF k = 1 THEN [key |-> key, evidence |-> {}]
                                         ELSE decisions[k - 1]
    <2>. SUFFICES ASSUME NEW k \in 1..len
                  PROVE  decisions'[k] = IF k = 1 THEN [key |-> key, evidence |-> {}]
                                         ELSE decisions[k - 1]
      OBVIOUS
    <2>1. decisions'[k] = all[k] /\ k \in 1..(1 + Len(decisions))
      BY <1>t, <1>2, <1>4, <1>5
    <2>2. all[k] = IF k <= 1 THEN new[k] ELSE decisions[k - 1]
      BY <1>2, <2>1
    <2>. HIDE DEF new
    <2>3. CASE k = 1
      BY <1>1, <2>1, <2>2, <2>3
    <2>4. CASE k # 1
      <3>1. ~(k <= 1)
        BY <1>4, <2>4
      <3>. QED BY <2>1, <2>2, <2>4, <3>1
    <2>. QED BY <2>3, <2>4
  <1>8. Len(decisions') <= Len(decisions) + 1
    BY <1>t, <1>2, <1>4, <1>6
  <1>9. \A k \in 1..Len(decisions') :
           decisions'[k] = IF k = 1 THEN [key |-> key, evidence |-> {}] ELSE decisions[k - 1]
    BY <1>6, <1>7
  <1>10. \A k \in 1..Len(decisions) : decisions[k].key # key
    BY <1>3
  <1>. HIDE DEF new
  <1>. QED BY <1>5, <1>8, <1>9, <1>10 DEF AddedFor

LEMMA DecisionSteps ==
    ASSUME DecisionsInv, [Next]_vars
    PROVE  /\ decisions' \in Seq(OperationalDecision)
           /\ \/ UNCHANGED decisions
              \/ \E s \in TranscriptSegment : LinkedTo(s)
              \/ \E key \in Key : AddedFor(key)
  <1>t. /\ decisions \in Seq(OperationalDecision) /\ Len(decisions) \in Nat
        /\ DOMAIN decisions = 1..Len(decisions)
        /\ \A k \in 1..Len(decisions) : decisions[k] \in OperationalDecision
    BY LenProperties, ElementOfSeq DEF DecisionsInv
  <1>1. ASSUME NEW s \in TranscriptSegment, decisions' = link(s.call, s)
        PROVE  decisions' \in Seq(OperationalDecision) /\ LinkedTo(s)
    <2>1. \A k \in 1..Len(decisions) :
             /\ [decisions[k] EXCEPT !.evidence = {s}] \in OperationalDecision
             /\ \/ link(s.call, s)[k] = decisions[k]
                \/ /\ decisions[k].evidence = {} /\ decisions[k].key.call = s.call
                   /\ link(s.call, s)[k] = [decisions[k] EXCEPT !.evidence = {s}]
      BY <1>t DEF link, Unlinked, OperationalDecision
    <2>2. link(s.call, s) \in [1..Len(decisions) -> OperationalDecision]
      BY <1>t, <2>1 DEF link
    <2>3. link(s.call, s) \in Seq(OperationalDecision)
      BY <1>t, <2>2, SeqDef
    <2>4. Len(link(s.call, s)) = Len(decisions)
      BY <1>t, <2>2, <2>3, LenProperties
    <2>. QED BY <1>1, <2>1, <2>3, <2>4 DEF LinkedTo
  <1>2. ASSUME NEW i \in Instances, NEW s \in TranscriptSegment, recordTranscript(i, s)
        PROVE  UNCHANGED decisions \/ decisions' = link(s.call, s)
    BY <1>2 DEF recordTranscript
  <1>3. ASSUME NEW i \in Instances, NEW key \in Key, NEW n \in 0..(MaxPush - 1),
               pushDecision(i, key, n), ~UNCHANGED decisions
        PROVE  decisions' \in Seq(OperationalDecision) /\ AddedFor(key)
    BY <1>3, PushAdds
  <1>4. ASSUME NEW i \in Instances,
               \/ MirrorLands(i) \/ MirrorFails(i) \/ addEvent(i)
               \/ \E c \in Calls : finalizeCallBrief(i, c)
        PROVE  UNCHANGED decisions
    BY <1>4 DEF MirrorLands, MirrorFails, snapshot, addEvent, finalizeCallBrief
  <1>5. UNCHANGED vars => UNCHANGED decisions
    BY DEF vars, snapshot
  <1>. QED BY <1>t, <1>1, <1>2, <1>3, <1>4, <1>5 DEF Next

LEMMA StepDecisions == DecisionsInv /\ [Next]_vars => DecisionsInv' /\ EvidenceStays
  <1>. SUFFICES ASSUME DecisionsInv, [Next]_vars PROVE DecisionsInv' /\ EvidenceStays
    OBVIOUS
  <1>t. /\ decisions' \in Seq(OperationalDecision)
        /\ Len(decisions) \in Nat /\ Len(decisions') \in Nat
        /\ \A k \in 1..Len(decisions) : decisions[k] \in OperationalDecision
    BY DecisionSteps, LenProperties, ElementOfSeq DEF DecisionsInv
  <1>1. CASE UNCHANGED decisions
    BY <1>1 DEF DecisionsInv, EvidenceStays
  <1>2. ASSUME NEW s \in TranscriptSegment, LinkedTo(s) PROVE DecisionsInv' /\ EvidenceStays
    <2>1. \A k \in 1..Len(decisions) :
             /\ decisions'[k].key = decisions[k].key
             /\ \/ decisions'[k].evidence = decisions[k].evidence
                \/ /\ decisions[k].evidence = {} /\ decisions[k].key.call = s.call
                   /\ decisions'[k].evidence = {s}
      BY <1>2, <1>t DEF LinkedTo, OperationalDecision
    <2>2. Len(decisions') = Len(decisions)
      BY <1>2 DEF LinkedTo
    <2>3. DecisionsInv'
      BY <1>t, <2>1, <2>2 DEF DecisionsInv
    <2>4. EvidenceStays
      BY <2>1, <2>2 DEF DecisionsInv, EvidenceStays
    <2>. QED BY <2>3, <2>4
  <1>3. ASSUME NEW key \in Key, AddedFor(key) PROVE DecisionsInv' /\ EvidenceStays
    <2>1. \A k \in 1..Len(decisions') :
             \/ k = 1 /\ decisions'[k].key = key /\ decisions'[k].evidence = {}
             \/ k # 1 /\ k - 1 \in 1..Len(decisions) /\ decisions'[k] = decisions[k - 1]
      BY <1>3, <1>t DEF AddedFor
    <2>2. \A k \in 1..Len(decisions) : decisions[k].key # key
      BY <1>3 DEF AddedFor
    <2>3. ASSUME NEW j \in 1..Len(decisions'), NEW k \in 1..Len(decisions'),
                 decisions'[j].key = decisions'[k].key
          PROVE  j = k
      <3>1. CASE j = 1 \/ k = 1
        BY <2>1, <2>2, <2>3, <3>1
      <3>2. CASE j # 1 /\ k # 1
        <4>1. /\ j - 1 \in 1..Len(decisions) /\ decisions'[j] = decisions[j - 1]
              /\ k - 1 \in 1..Len(decisions) /\ decisions'[k] = decisions[k - 1]
          BY <2>1, <3>2
        <4>2. j - 1 = k - 1
          BY <2>3, <4>1 DEF DecisionsInv
        <4>. QED BY <4>2, <1>t
      <3>. QED BY <3>1, <3>2
    <2>4. ASSUME NEW k \in 1..Len(decisions'), NEW s \in decisions'[k].evidence
          PROVE  s.call = decisions'[k].key.call
      BY <2>1, <2>4 DEF DecisionsInv
    <2>5. DecisionsInv'
      BY <1>t, <2>3, <2>4 DEF DecisionsInv
    <2>6. ASSUME NEW j \in 1..Len(decisions), NEW k \in 1..Len(decisions'),
                 decisions'[k].key = decisions[j].key, decisions[j].evidence # {}
          PROVE  /\ decisions'[k].evidence = decisions[j].evidence
                 /\ \A s \in decisions[j].evidence : s.call = decisions[j].key.call
      <3>1. k # 1 /\ k - 1 \in 1..Len(decisions) /\ decisions'[k] = decisions[k - 1]
        BY <2>1, <2>2, <2>6
      <3>2. k - 1 = j
        BY <2>6, <3>1 DEF DecisionsInv
      <3>. QED BY <3>1, <3>2 DEF DecisionsInv
    <2>7. EvidenceStays
      BY <2>6 DEF EvidenceStays
    <2>. QED BY <2>5, <2>7
  <1>. QED BY <1>1, <1>2, <1>3, DecisionSteps

LEMMA InitDecisions == Init => DecisionsInv
  BY EmptySeq DEF Init, DecisionsInv

(***************************************************************************)
(* What is kept once.                                                      *)
(***************************************************************************)
Evidenced ==
    /\ \A k \in 1..Len(decisions) : decisions[k].evidence \subseteq ToSet(segments)
    /\ \A j, k \in 1..Len(decisions) :
          j # k => decisions[j].evidence \intersect decisions[k].evidence = {}

\* A brief, once written, says what the transcript said at some point.
Briefed(c) ==
    \/ briefs[c] = NoBrief
    \/ \E n \in 0..Len(segments) :
          briefs[c].relevantMentions = OfCall(SubSeq(segments, 1, n), c)

KeptInv ==
    /\ segments \in Seq(TranscriptSegment)
    /\ IsInjective(segments)
    /\ Evidenced
    /\ briefs = [c \in Calls |-> briefs[c]]
    /\ \A c \in Calls : Briefed(c)

\* What is newly said keeps what was said before, in its place.
LEMMA SaidOnce ==
    ASSUME KeptInv, NEW s \in TranscriptSegment, s \notin ToSet(segments),
           segments' = Append(segments, s)
    PROVE  /\ segments' \in Seq(TranscriptSegment) /\ IsInjective(segments')
           /\ ToSet(segments') = ToSet(segments) \cup {s}
           /\ \A n \in 0..Len(segments) : /\ n \in 0..Len(segments')
                                          /\ SubSeq(segments', 1, n) = SubSeq(segments, 1, n)
  <1>1. /\ segments \in Seq(TranscriptSegment) /\ Len(segments) \in Nat
        /\ DOMAIN segments = 1..Len(segments)
    BY LenProperties DEF KeptInv
  <1>2. /\ segments' \in Seq(TranscriptSegment) /\ Len(segments') = Len(segments) + 1
        /\ \A k \in 1..Len(segments) : segments'[k] = segments[k]
        /\ segments'[Len(segments) + 1] = s
    BY <1>1, AppendProperties
  <1>3. DOMAIN segments' = 1..(Len(segments) + 1)
    BY <1>2, LenProperties
  <1>4. \A k \in 1..Len(segments) : segments[k] # s
    BY <1>1 DEF ToSet
  <1>5. IsInjective(segments')
    <2>. SUFFICES ASSUME NEW j \in DOMAIN segments', NEW k \in DOMAIN segments',
                         segments'[j] = segments'[k]
                  PROVE  j = k
      BY DEF IsInjective
    <2>1. CASE j \in 1..Len(segments) /\ k \in 1..Len(segments)
      BY <1>1, <1>2, <2>1 DEF KeptInv, IsInjective
    <2>2. CASE j = Len(segments) + 1 \/ k = Len(segments) + 1
      BY <1>1, <1>2, <1>3, <1>4, <2>2
    <2>. QED BY <1>1, <1>3, <2>1, <2>2
  <1>6. ToSet(segments') = ToSet(segments) \cup {s}
    <2>1. \A x : x \in ToSet(segments') <=> \E k \in 1..(Len(segments) + 1) : segments'[k] = x
      BY <1>3 DEF ToSet
    <2>2. \A x : x \in ToSet(segments) <=> \E k \in 1..Len(segments) : segments[k] = x
      BY <1>1 DEF ToSet
    <2>3. \A k \in 1..(Len(segments) + 1) : k \in 1..Len(segments) \/ k = Len(segments) + 1
      BY <1>1
    <2>4. /\ Len(segments) + 1 \in 1..(Len(segments) + 1)
          /\ \A k \in 1..Len(segments) : k \in 1..(Len(segments) + 1)
      BY <1>1
    <2>. QED BY <1>2, <2>1, <2>2, <2>3, <2>4
  <1>7. ASSUME NEW n \in 0..Len(segments)
        PROVE  /\ n \in 0..Len(segments')
               /\ SubSeq(segments', 1, n) = SubSeq(segments, 1, n)
    <2>1. /\ \A k \in 1..n : segments[k] \in TranscriptSegment
          /\ \A k \in 1..n : segments'[k] = segments[k]
      BY <1>1, <1>2, ElementOfSeq
    <2>2. /\ SubSeq(segments, 1, n) \in Seq(TranscriptSegment)
          /\ Len(SubSeq(segments, 1, n)) = IF 1 <= n THEN n - 1 + 1 ELSE 0
          /\ \A k \in 1..(n - 1 + 1) : SubSeq(segments, 1, n)[k] = segments[1 + k - 1]
      BY <1>1, <2>1, SubSeqProperties
    <2>3. \A k \in 1..n : segments'[k] \in TranscriptSegment
      BY <2>1
    <2>4. /\ SubSeq(segments', 1, n) \in Seq(TranscriptSegment)
          /\ Len(SubSeq(segments', 1, n)) = IF 1 <= n THEN n - 1 + 1 ELSE 0
          /\ \A k \in 1..(n - 1 + 1) : SubSeq(segments', 1, n)[k] = segments'[1 + k - 1]
      BY <1>1, <2>3, SubSeqProperties
    <2>5. /\ Len(SubSeq(segments, 1, n)) = n /\ Len(SubSeq(segments', 1, n)) = n
          /\ \A k \in 1..n : SubSeq(segments', 1, n)[k] = SubSeq(segments, 1, n)[k]
      BY <1>1, <2>1, <2>2, <2>4
    <2>6. SubSeq(segments', 1, n) = SubSeq(segments, 1, n)
      <3>. DEFINE before == SubSeq(segments, 1, n)
                  after  == SubSeq(segments', 1, n)
      <3>1. /\ before \in Seq(TranscriptSegment) /\ after \in Seq(TranscriptSegment)
            /\ Len(before) = n /\ Len(after) = n /\ \A k \in 1..n : after[k] = before[k]
        BY <2>2, <2>4, <2>5
      <3>. HIDE DEF before, after
      <3>2. after = before
        BY <3>1, SeqEqual
      <3>. QED BY <3>2 DEF before, after
    <2>. QED BY <1>1, <1>2, <2>6
  <1>. QED BY <1>2, <1>5, <1>6, <1>7

\* At most one decision is linked to what is said.
LEMMA LinkedOnce ==
    ASSUME DecisionsInv, Evidenced, NEW s \in TranscriptSegment, s \notin ToSet(segments),
           decisions' = link(s.call, s), ToSet(segments') = ToSet(segments) \cup {s}
    PROVE  Evidenced'
  <1>1. Len(decisions) \in Nat /\ \A k \in 1..Len(decisions) : decisions[k] \in OperationalDecision
    BY LenProperties, ElementOfSeq DEF DecisionsInv
  <1>. DEFINE Chosen(k) == k \in Unlinked(s.call) /\ \A other \in Unlinked(s.call) : k <= other
  <1>2. \A j, k \in 1..Len(decisions) : (Chosen(j) /\ Chosen(k)) => j = k
    BY <1>1
  <1>3. Len(decisions') = Len(decisions)
    <2>1. \A k \in 1..Len(decisions) : link(s.call, s)[k] \in OperationalDecision
      BY <1>1 DEF link, OperationalDecision
    <2>2. link(s.call, s) \in [1..Len(decisions) -> OperationalDecision]
      BY <2>1 DEF link
    <2>3. link(s.call, s) \in Seq(OperationalDecision)
      BY <1>1, <2>2, SeqDef
    <2>. QED BY <1>1, <2>2, <2>3, LenProperties
  <1>4. \A k \in 1..Len(decisions) :
           decisions'[k].evidence = IF Chosen(k) THEN {s} ELSE decisions[k].evidence
    BY <1>1 DEF link, OperationalDecision
  <1>. HIDE DEF Chosen
  <1>5. \A k \in 1..Len(decisions) :
           decisions'[k].evidence \subseteq ToSet(segments')
    BY <1>4 DEF Evidenced
  <1>6. ASSUME NEW j \in 1..Len(decisions), NEW k \in 1..Len(decisions), j # k
        PROVE  decisions'[j].evidence \intersect decisions'[k].evidence = {}
    <2>1. ~Chosen(j) \/ ~Chosen(k)
      BY <1>2, <1>6
    <2>2. /\ s \notin decisions[j].evidence /\ s \notin decisions[k].evidence
          /\ decisions[j].evidence \intersect decisions[k].evidence = {}
      BY <1>6 DEF Evidenced
    <2>. QED BY <1>4, <2>1, <2>2
  <1>. QED BY <1>3, <1>5, <1>6 DEF Evidenced

LEMMA StepKept == DecisionsInv /\ KeptInv /\ [Next]_vars => KeptInv'
  <1>. SUFFICES ASSUME DecisionsInv, KeptInv, [Next]_vars PROVE KeptInv'
    OBVIOUS
  <1>1. CASE UNCHANGED <<segments, decisions, briefs>>
    BY <1>1 DEF KeptInv, Evidenced, Briefed
  <1>2. ASSUME NEW i \in Instances, NEW s \in TranscriptSegment, recordTranscript(i, s),
               s \notin ToSet(segments)
        PROVE  KeptInv'
    <2>1. /\ segments' = Append(segments, s) /\ decisions' = link(s.call, s)
          /\ UNCHANGED briefs
      BY <1>2 DEF recordTranscript
    <2>2. /\ segments' \in Seq(TranscriptSegment) /\ IsInjective(segments')
          /\ ToSet(segments') = ToSet(segments) \cup {s}
          /\ \A n \in 0..Len(segments) : /\ n \in 0..Len(segments')
                                         /\ SubSeq(segments', 1, n) = SubSeq(segments, 1, n)
      BY <1>2, <2>1, SaidOnce
    <2>3. Evidenced'
      BY <1>2, <2>1, <2>2, LinkedOnce DEF KeptInv
    <2>4. ASSUME NEW c \in Calls PROVE Briefed(c)'
      <3>1. CASE briefs[c] = NoBrief
        BY <2>1, <3>1 DEF Briefed
      <3>2. CASE briefs[c] # NoBrief
        <4>1. PICK n \in 0..Len(segments) :
                 briefs[c].relevantMentions = OfCall(SubSeq(segments, 1, n), c)
          BY <3>2 DEF KeptInv, Briefed
        <4>2. n \in 0..Len(segments') /\ SubSeq(segments', 1, n) = SubSeq(segments, 1, n)
          BY <2>2
        <4>. QED BY <2>1, <4>1, <4>2 DEF Briefed
      <3>. QED BY <3>1, <3>2
    <2>5. briefs' = [c \in Calls |-> briefs'[c]]
      BY <2>1 DEF KeptInv
    <2>. QED BY <2>2, <2>3, <2>4, <2>5 DEF KeptInv
  <1>3. ASSUME NEW i \in Instances, NEW key \in Key, NEW n \in 0..(MaxPush - 1),
               pushDecision(i, key, n)
        PROVE  KeptInv'
    <2>1. UNCHANGED <<segments, briefs>>
      BY <1>3 DEF pushDecision
    <2>2. CASE UNCHANGED decisions
      BY <1>1, <2>1, <2>2
    <2>3. CASE ~UNCHANGED decisions
      <3>1. AddedFor(key) /\ decisions' \in Seq(OperationalDecision)
        BY <1>3, <2>3, PushAdds
      <3>2. Len(decisions) \in Nat /\ Len(decisions') \in Nat
        BY <3>1, LenProperties DEF DecisionsInv
      <3>3. \A k \in 1..Len(decisions') :
               \/ k = 1 /\ decisions'[k].evidence = {}
               \/ k - 1 \in 1..Len(decisions) /\ decisions'[k] = decisions[k - 1]
        BY <3>1, <3>2 DEF AddedFor
      <3>4. ASSUME NEW j \in 1..Len(decisions'), NEW k \in 1..Len(decisions'), j # k
            PROVE  decisions'[j].evidence \intersect decisions'[k].evidence = {}
        <4>1. CASE decisions'[j].evidence = {} \/ decisions'[k].evidence = {}
          BY <4>1
        <4>2. CASE decisions'[j].evidence # {} /\ decisions'[k].evidence # {}
          <5>1. /\ j - 1 \in 1..Len(decisions) /\ decisions'[j] = decisions[j - 1]
                /\ k - 1 \in 1..Len(decisions) /\ decisions'[k] = decisions[k - 1]
            BY <3>3, <4>2
          <5>2. j - 1 # k - 1
            BY <3>2, <3>4
          <5>. QED BY <5>1, <5>2 DEF KeptInv, Evidenced
        <4>. QED BY <4>1, <4>2
      <3>5. \A k \in 1..Len(decisions') : decisions'[k].evidence \subseteq ToSet(segments)
        BY <3>3 DEF KeptInv, Evidenced
      <3>. QED BY <2>1, <3>4, <3>5 DEF KeptInv, Evidenced, Briefed
    <2>. QED BY <2>2, <2>3
  <1>4. ASSUME NEW i \in Instances, NEW c \in Calls, finalizeCallBrief(i, c) PROVE KeptInv'
    <2>1. /\ UNCHANGED <<segments, decisions>>
          /\ briefs' = [briefs EXCEPT ![c] = [actions |-> OfCall(Decided, c),
                                              relevantMentions |-> OfCall(segments, c)]]
      BY <1>4 DEF finalizeCallBrief
    <2>2. /\ briefs' = [d \in Calls |-> briefs'[d]]
          /\ briefs'[c].relevantMentions = OfCall(segments, c)
          /\ \A d \in Calls : d # c => briefs'[d] = briefs[d]
      BY <2>1 DEF KeptInv
    <2>3. SubSeq(segments, 1, Len(segments)) = segments /\ Len(segments) \in 0..Len(segments)
      BY SubSeqFull, LenProperties DEF KeptInv
    <2>4. Briefed(c)'
      BY <2>1, <2>2, <2>3 DEF Briefed
    <2>5. ASSUME NEW d \in Calls, d # c PROVE Briefed(d)'
      BY <2>1, <2>2, <2>5 DEF KeptInv, Briefed
    <2>6. Evidenced'
      BY <2>1 DEF KeptInv, Evidenced
    <2>. QED BY <2>1, <2>2, <2>4, <2>5, <2>6 DEF KeptInv
  <1>. QED BY <1>1, <1>2, <1>3, <1>4
       DEF Next, vars, snapshot, MirrorLands, MirrorFails, addEvent, recordTranscript

LEMMA InitKept == Init => KeptInv
  <1>. SUFFICES ASSUME Init PROVE KeptInv
    OBVIOUS
  <1>1. segments = <<>> /\ decisions = <<>> /\ briefs = [c \in Calls |-> NoBrief]
    BY DEF Init
  <1>2. segments \in Seq(TranscriptSegment) /\ DOMAIN segments = {} /\ 1..Len(decisions) = {}
    BY <1>1, EmptySeq
  <1>. QED BY <1>1, <1>2 DEF KeptInv, IsInjective, Evidenced, Briefed

LEMMA KeptSuffices == DecisionsInv /\ KeptInv => EachIsKeptOnce
  <1>. SUFFICES ASSUME DecisionsInv, KeptInv PROVE EachIsKeptOnce
    OBVIOUS
  <1>1. IsInjective(Decided)
    BY DEF DecisionsInv, IsInjective, Decided
  <1>. QED BY <1>1 DEF KeptInv, Evidenced, Briefed, EachIsKeptOnce

(***************************************************************************)
(* The theorems.                                                           *)
(***************************************************************************)
\* An event that is missing in the ledger, and that the snapshot no longer holds,
\* failed to be mirrored in as many writes as the snapshot's memory is long.
THEOREM LedgerHeals == Spec => []LostOnlyInLongOutage
  <1>. QED BY InitEvents, StepEvents, EventsSuffice, PTL DEF Spec

\* The segment that evidences a decision stays its evidence: no later speech, no
\* later decision and no loss of old ones moves it to another.
THEOREM LedgerKeepsEvidence == Spec => EvidenceIsKept
  <1>1. DecisionsInv /\ [Next]_vars => [EvidenceStays]_vars
    BY StepDecisions
  <1>2. DecisionsInv /\ [Next]_vars => DecisionsInv'
    BY StepDecisions
  <1>. QED BY InitDecisions, <1>1, <1>2, PTL DEF Spec, EvidenceIsKept, EvidenceStays

\* However often and in whatever order utterances are reported, what was said
\* and what was decided is there once, a segment evidences one decision, and
\* the brief of a call says what its transcript said at some point.
THEOREM LedgerKeepsOnce == Spec => []EachIsKeptOnce
  <1>1. DecisionsInv /\ [Next]_vars => DecisionsInv'
    BY StepDecisions
  <1>. QED BY InitDecisions, InitKept, <1>1, StepKept, KeptSuffices, PTL DEF Spec

=============================================================================
