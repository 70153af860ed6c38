------------------------------- MODULE Ledger -------------------------------
(***************************************************************************)
(* What the snapshot remembers of a call for a reader afterwards: the      *)
(* transcript segments, the decisions and the segments that evidence them, *)
(* the call briefs, and the events with their mirror in the table          *)
(* volta_ledger_events (lib/store/base.ts, lib/store/supabase.ts).         *)
(*                                                                         *)
(* A mutation of the snapshot is one step, which SnapshotStore justifies.  *)
(* The mirror is not part of it: the instance that wrote the row upserts   *)
(* the events it wrote afterwards, before it takes its next mutation; an   *)
(* error is only logged.  The snapshot keeps EventCap events, so an event  *)
(* has a limited number of chances to reach the table.                     *)
(*                                                                         *)
(* Utterances are reported in any order, and more than once.  Left out:    *)
(* texts and rates, and the reset, which clears everything but the table.  *)
(***************************************************************************)
EXTENDS Integers, FiniteSets, SequencesExt

CONSTANTS Instances,    \* processes that write the snapshot
          Calls,        \* the calls of the operation
          Items,        \* provider items; each is an utterance per speaker
          Echoes,       \* items that repeat the transcription prompt
          Topics,       \* what a decision is about; with the call, its key
          EventCap, DecisionCap,   \* how many the snapshot keeps (100)
          MaxPush,      \* most events one mutation pushes
          MaxEvents

ASSUME LedgerAssumption ==
    /\ EventCap \in Nat \ {0} /\ DecisionCap \in Nat \ {0}
    /\ MaxPush \in 1..EventCap /\ MaxEvents \in Nat
    /\ Echoes \subseteq Items
    /\ IsFiniteSet(Instances)

VARIABLES segments,     \* snapshot.transcripts, oldest first
          decisions,    \* snapshot.decisions, newest first
          briefs,       \* snapshot.callBriefs, by call
          events,       \* snapshot.events, newest first
          pushed,       \* how many events were ever pushed; the newest one's id
          ledger,       \* volta_ledger_events
          mirroring,    \* the events an instance is upserting
          misses        \* history: failed upserts of a missing event, to Memory

snapshot == <<segments, decisions, briefs, events, pushed>>
vars == <<snapshot, ledger, mirroring, misses>>

TranscriptSpeaker == {"AGENT", "COUNTERPARTY"}
TranscriptSegment == [call : Calls, speaker : TranscriptSpeaker, item : Items]
Key == [call : Calls, topic : Topics]

\* transcriptSegmentIds holds at most one segment: no caller gives any.
OperationalDecision == [key : Key, evidence : SUBSET TranscriptSegment]
CallBrief == [actions : Seq(Key), relevantMentions : Seq(TranscriptSegment)]
NoBrief == [actions |-> <<>>, relevantMentions |-> <<>>]

EventId == 1..MaxEvents

\* The fewest rows an event is written in before it leaves the snapshot.
Memory == EventCap \div MaxPush

LedgerTypeOK ==
    /\ segments \in Seq(TranscriptSegment)
    /\ decisions \in Seq(OperationalDecision) /\ Len(decisions) <= DecisionCap
    /\ briefs \in [Calls -> CallBrief]
    /\ events \in Seq(EventId) /\ Len(events) <= EventCap
    /\ pushed \in 0..MaxEvents
    /\ ledger \subseteq EventId
    /\ mirroring \in [Instances -> SUBSET EventId]
    /\ misses \in [EventId -> 0..Memory]

Init ==
    /\ segments = <<>> /\ decisions = <<>> /\ events = <<>>
    /\ briefs = [c \in Calls |-> NoBrief]
    /\ pushed = 0
    /\ ledger = {}
    /\ mirroring = [i \in Instances |-> {}]
    /\ misses = [e \in EventId |-> 0]

(***************************************************************************)
(* Events and their mirror.                                                *)
(***************************************************************************)
Newest(seq, cap) == SubSeq(seq, 1, IF Len(seq) < cap THEN Len(seq) ELSE cap)

\* n calls of pushEvent in one mutation.
pushEvents(n) ==
    /\ pushed + n <= MaxEvents
    /\ pushed' = pushed + n
    /\ events' = Newest([k \in 1..n |-> pushed + n + 1 - k] \o events, EventCap)

\* Mutant: only the events of this mutation are mirrored.
writtenAnew(i) == mirroring' = [mirroring EXCEPT ![i] = ToSet(events') \ ToSet(events)]

\* A write of the row, whose events its instance mirrors next.
written(i) == mirroring' = [mirroring EXCEPT ![i] = ToSet(events')]

Mutate(i, n) ==
    /\ mirroring[i] = {}
    /\ pushEvents(n)
    /\ written(i)
    /\ UNCHANGED <<ledger, misses>>

MirrorLands(i) ==
    /\ mirroring[i] # {}
    /\ ledger' = ledger \union mirroring[i]
    /\ mirroring' = [mirroring EXCEPT ![i] = {}]
    /\ UNCHANGED <<snapshot, misses>>

\* The upsert fails, or the function is killed before it.
MirrorFails(i) ==
    /\ mirroring[i] # {}
    /\ misses' = [e \in EventId |-> IF e \in mirroring[i] \ ledger /\ misses[e] < Memory
                                   THEN misses[e] + 1 ELSE misses[e]]
    /\ mirroring' = [mirroring EXCEPT ![i] = {}]
    /\ UNCHANGED <<snapshot, ledger>>

(***************************************************************************)
(* The mutations.                                                          *)
(***************************************************************************)
addEvent(i) == Mutate(i, 1) /\ UNCHANGED <<segments, decisions, briefs>>

Unlinked(c) == {k \in 1..Len(decisions) :
                   decisions[k].key.call = c /\ decisions[k].evidence = {}}

\* Mutant: every decision without evidence is linked.
linkAll(c, s) ==
    [k \in 1..Len(decisions) |->
        IF k \in Unlinked(c) THEN [decisions[k] EXCEPT !.evidence = {s}] ELSE decisions[k]]

\* Mutant: the newest decision of the call is linked, linked already or not.
linkNewest(c, s) ==
    [k \in 1..Len(decisions) |->
        IF decisions[k].key.call = c /\ \A n \in 1..(k - 1) : decisions[n].key.call # c
        THEN [decisions[k] EXCEPT !.evidence = {s}] ELSE decisions[k]]

\* The newest decision of the call without evidence is evidenced by what is
\* said next.
link(c, s) ==
    [k \in 1..Len(decisions) |->
        IF k \in Unlinked(c) /\ \A other \in Unlinked(c) : k <= other
        THEN [decisions[k] EXCEPT !.evidence = {s}] ELSE decisions[k]]

isTranscriptionContextEcho(s) == s.item \in Echoes

\* A segment that is there is returned; the row is written all the same.
recordTranscript(i, s) ==
    /\ ~isTranscriptionContextEcho(s)
    /\ IF s \in ToSet(segments)
       THEN Mutate(i, 0) /\ UNCHANGED <<segments, decisions>>
       ELSE /\ segments' = Append(segments, s)
            /\ decisions' = link(s.call, s)
            /\ Mutate(i, 1)
    /\ UNCHANGED briefs

\* Mutant: the key is not looked up.
pushDecisionAgain(i, key, n) ==
    /\ decisions' = Newest(<<[key |-> key, evidence |-> {}]>> \o decisions, DecisionCap)
    /\ Mutate(i, n + 1)
    /\ UNCHANGED <<segments, briefs>>

\* pushDecision inside a mutation that pushes n further events: none for
\* recordDecision, the offer's or the commitment's own for those operations.
\* The second decision recordOffer may make, on the winner, is a step of its own.
pushDecision(i, key, n) ==
    /\ IF \E k \in 1..Len(decisions) : decisions[k].key = key
       THEN Mutate(i, n) /\ UNCHANGED decisions
       ELSE /\ decisions' = Newest(<<[key |-> key, evidence |-> {}]>> \o decisions, DecisionCap)
            /\ Mutate(i, n + 1)
    /\ UNCHANGED <<segments, briefs>>

OfCall(seq, c) == SelectSeq(seq, LAMBDA s : s.call = c)
Decided == [k \in 1..Len(decisions) |-> decisions[k].key]

\* A brief is written anew from what the snapshot holds, and keeps its id.
finalizeCallBrief(i, c) ==
    /\ briefs' = [briefs EXCEPT ![c] = [actions |-> OfCall(Decided, c),
                                        relevantMentions |-> OfCall(segments, c)]]
    /\ Mutate(i, 1)
    /\ UNCHANGED <<segments, decisions>>

Next ==
    \E i \in Instances :
       \/ MirrorLands(i) \/ MirrorFails(i)
       \/ addEvent(i)
       \/ \E s \in TranscriptSegment : recordTranscript(i, s)
       \/ \E key \in Key, n \in 0..(MaxPush - 1) : pushDecision(i, key, n)
       \/ \E c \in Calls : finalizeCallBrief(i, c)

Spec == Init /\ [][Next]_vars

(***************************************************************************)
(* Properties.                                                             *)
(***************************************************************************)
\* What was said is kept once however often it is reported, what was decided
\* is listed once, a segment evidences one decision, and the brief of a call
\* says what its transcript says up to some point: nothing of another call,
\* nothing twice, no gap.
EachIsKeptOnce ==
    /\ IsInjective(segments)
    /\ IsInjective(Decided)
    /\ \A j, k \in 1..Len(decisions) :
          j # k => decisions[j].evidence \intersect decisions[k].evidence = {}
    /\ \A c \in Calls :
          \/ briefs[c] = NoBrief
          \/ \E n \in 0..Len(segments) :
                briefs[c].relevantMentions = OfCall(SubSeq(segments, 1, n), c)

\* An event the snapshot no longer holds, which nobody is mirroring, is missing
\* in the ledger only if every upsert of an outage as long as the snapshot's
\* memory failed: one upsert that lands heals all that failed before it.
LostOnlyInLongOutage ==
    \A e \in 1..pushed :
       (e \notin ledger /\ e \notin ToSet(events) /\ \A i \in Instances : e \notin mirroring[i])
          => misses[e] = Memory

\* The segment that evidences a decision, once linked, stays, and is of the
\* decision's call: later speech and later decisions never move it.
EvidenceIsKept ==
    [][\A j \in 1..Len(decisions), k \in 1..Len(decisions') :
          (decisions'[k].key = decisions[j].key /\ decisions[j].evidence # {})
             => /\ decisions'[k].evidence = decisions[j].evidence
                /\ \A s \in decisions[j].evidence : s.call = decisions[j].key.call]_vars

=============================================================================
