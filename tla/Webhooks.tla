------------------------------ MODULE Webhooks ------------------------------
(***************************************************************************)
(* What the telephone provider's webhooks bring about for a booking: the   *)
(* written recap when the call is over, the evidence when its recording is *)
(* there.  The booking itself is the commitment gate, which BookingFlow    *)
(* implements; this module adds the invocations of serverless functions    *)
(* that work on it, and what they keep: webhook receipts                   *)
(* (lib/webhooks/idempotency.ts) and recording jobs (lib/jobs/recordings.ts).*)
(*                                                                         *)
(* With Telnyx a recording is processed by the webhook itself, behind a    *)
(* receipt; with Twilio and WhatsApp it is a job, processed at once and,   *)
(* if that fails, by the nightly cron.  Providers deliver an event more    *)
(* than once, functions throw, functions are killed, and the result of a   *)
(* job's database update is never looked at.                               *)
(*                                                                         *)
(* The n-th booking is staged on the call n.  Left out: the address and    *)
(* the storage of a recording, and the text of a last error.               *)
(***************************************************************************)
EXTENDS CommitmentGate

CONSTANTS Invocations,     \* function invocations that run at the same time
          Transports,      \* the voice transports a deployment may use
          MaxBookings,
          MaxDeliveries,   \* how often a provider delivers one event
          MaxAttempts,     \* after how many failures a job is given up
          Faults           \* what may go wrong

ASSUME WebhooksAssumption ==
    /\ Transports \subseteq {"telnyx", "twilio"}
    /\ MaxBookings \in Nat /\ MaxDeliveries \in Nat /\ MaxAttempts \in Nat \ {0}
    /\ Faults \subseteq {"throws", "killed", "unwritten"}

VARIABLES transport,       \* voiceTransport(), fixed by the deployment
          deliveries,      \* how often each event was delivered
          receipts,        \* volta_webhook_receipts: the events taken up
          job,             \* volta_jobs: the recording job of each call
          invocation,      \* per invocation: what it does next, for which call
          recaps,          \* history: how many recaps of a call were delivered
          claims,          \* history: attempts at its job begun, up to MaxAttempts
          processed,       \* history: calls a recording of which was processed
          broken           \* history: calls an invocation failed for good

vars == <<gateVars, transport, deliveries, receipts, job, invocation,
          recaps, claims, processed, broken>>

history == <<recaps, claims, processed, broken>>

Calls == 1..MaxBookings
Event == {"ended", "recorded"} \X Calls

JobStatus == {"NONE", "PENDING", "PROCESSING", "DONE", "FAILED"}
Job == [status : JobStatus, attempts : Nat, due : BOOLEAN]
NoJob == [status |-> "NONE", attempts |-> 0, due |-> FALSE]

Op == {"idle", "ended", "recorded",          \* a receipt to register
       "recap", "deliver", "mark",           \* sendCommitmentRecap
       "look", "claim", "done", "fail",      \* processRecordingJob
       "process", "link"}                    \* processRecording
Idle == [op |-> "idle", call |-> 0, seen |-> 0]

WebhooksTypeOK ==
    /\ booking \in 0..MaxBookings
    /\ phase \in {"none", "open", "committed", "retired"}
    /\ proofs \subseteq Proofs
    /\ transport \in Transports
    /\ deliveries \in [Event -> 0..MaxDeliveries]
    /\ receipts \subseteq {e \in Event : deliveries[e] > 0}
    /\ job \in [Calls -> Job]
    /\ invocation \in [Invocations -> [op : Op, call : 0..MaxBookings, seen : Nat]]
    /\ recaps \in [Calls -> Nat] /\ claims \in [Calls -> 0..MaxAttempts]
    /\ processed \subseteq Calls /\ broken \subseteq Calls

Init ==
    /\ GateInit
    /\ transport \in Transports
    /\ deliveries = [e \in Event |-> 0]
    /\ receipts = {}
    /\ job = [c \in Calls |-> NoJob]
    /\ invocation = [i \in Invocations |-> Idle]
    /\ recaps = [c \in Calls |-> 0]
    /\ claims = [c \in Calls |-> 0]
    /\ processed = {}
    /\ broken = {}

Begin(i, op, c) ==
    /\ invocation[i] = Idle
    /\ invocation' = [invocation EXCEPT ![i] = [op |-> op, call |-> c, seen |-> 0]]

Go(i, op) == invocation' = [invocation EXCEPT ![i].op = op]
Return(i) == invocation' = [invocation EXCEPT ![i] = Idle]

(***************************************************************************)
(* Deliveries, and the receipt that makes a duplicate harmless.            *)
(***************************************************************************)
Deliver(kind, c) ==
    /\ c \in 1..booking
    /\ deliveries[<<kind, c>>] < MaxDeliveries
    /\ deliveries' = [deliveries EXCEPT ![<<kind, c>>] = @ + 1]

\* The status webhook reports the call COMPLETED.
CallEnded(i, c) ==
    /\ Deliver("ended", c)
    /\ Begin(i, "ended", c)
    /\ UNCHANGED <<gateVars, transport, receipts, job, history>>

\* enqueueRecordingJob upserts on the call: a job that exists becomes PENDING
\* again and keeps its attempts.
enqueueRecordingJob(c) ==
    job' = [job EXCEPT ![c] = [@ EXCEPT !.status = "PENDING", !.due = TRUE]]

RecordingReady(i, c) ==
    /\ Deliver("recorded", c)
    /\ IF transport = "telnyx" THEN Begin(i, "recorded", c) /\ UNCHANGED job
                               ELSE Begin(i, "look", c) /\ enqueueRecordingJob(c)
    /\ UNCHANGED <<gateVars, transport, receipts, history>>

\* Mutant: a receipt that exists is no error.
registerUnlessWorked(i, kind) ==
    LET e == <<kind, invocation[i].call>>
    IN  /\ invocation[i].op = kind
        /\ receipts' = receipts \cup {e}
        /\ Go(i, IF kind = "ended" THEN "recap" ELSE "process")
        /\ UNCHANGED <<gateVars, transport, deliveries, job, history>>

\* The insert of a receipt that exists violates the primary key.
registerWebhookReceipt(i, kind) ==
    LET e == <<kind, invocation[i].call>>
    IN  /\ invocation[i].op = kind
        /\ IF e \in receipts THEN Return(i)
           ELSE Go(i, IF kind = "ended" THEN "recap" ELSE "process")
        /\ receipts' = receipts \cup {e}
        /\ UNCHANGED <<gateVars, transport, deliveries, job, history>>

(***************************************************************************)
(* sendCommitmentRecap.                                                    *)
(***************************************************************************)
\* The commitment staged on this call is VERBALLY_CONFIRMED.
Confirmed(c) ==
    /\ booking = c /\ phase = "open"
    /\ "voice" \in proofs /\ "recap" \notin proofs

\* Mutant: only Twilio's webhook goes on to the recap.
ReadForRecapTwilioOnly(i) ==
    /\ invocation[i].op = "recap"
    /\ IF Confirmed(invocation[i].call) /\ transport = "twilio"
       THEN Go(i, "deliver") ELSE Return(i)
    /\ UNCHANGED <<gateVars, transport, deliveries, receipts, job, history>>

ReadForRecap(i) ==
    /\ invocation[i].op = "recap"
    /\ IF Confirmed(invocation[i].call) THEN Go(i, "deliver") ELSE Return(i)
    /\ UNCHANGED <<gateVars, transport, deliveries, receipts, job, history>>

DeliverRecap(i) ==
    /\ invocation[i].op = "deliver"
    /\ recaps' = [recaps EXCEPT ![invocation[i].call] = @ + 1]
    /\ Go(i, "mark")
    /\ UNCHANGED <<gateVars, transport, deliveries, receipts, job,
                   claims, processed, broken>>

\* markRecapSent, of the commitment that was read.
MarkRecap(i) ==
    /\ invocation[i].op = "mark"
    /\ Confirmed(invocation[i].call)
    /\ Prove("recap")
    /\ Return(i)
    /\ UNCHANGED <<transport, deliveries, receipts, job, history>>

(***************************************************************************)
(* processRecordingJob.                                                    *)
(***************************************************************************)
\* processPendingRecordingJobs picks a job that is due.
CronPicks(i, c) ==
    /\ job[c].status = "PENDING" /\ job[c].due
    /\ Begin(i, "look", c)
    /\ UNCHANGED <<gateVars, transport, deliveries, receipts, job, history>>

\* The row is read ...
LookAtJob(i) ==
    LET j == job[invocation[i].call]
    IN  /\ invocation[i].op = "look"
        /\ IF j.status = "DONE" THEN Return(i)
           ELSE invocation' = [invocation EXCEPT ![i].op = "claim", ![i].seen = j.attempts]
        /\ UNCHANGED <<gateVars, transport, deliveries, receipts, job, history>>

Attempt(c) == claims' = [claims EXCEPT ![c] = IF @ < MaxAttempts THEN @ + 1 ELSE @]

\* Mutant: the attempt is not counted.
ClaimJobUncounted(i) ==
    LET c == invocation[i].call
    IN  /\ invocation[i].op = "claim"
        /\ job' = [job EXCEPT ![c].status = "PROCESSING"]
        /\ Attempt(c)
        /\ Go(i, "process")
        /\ UNCHANGED <<gateVars, transport, deliveries, receipts, recaps, processed, broken>>

\* ... and then written, with one more attempt than was read.
ClaimJob(i) ==
    LET c == invocation[i].call
    IN  /\ invocation[i].op = "claim"
        /\ job' = [job EXCEPT ![c] = [@ EXCEPT !.status = "PROCESSING",
                                               !.attempts = invocation[i].seen + 1]]
        /\ Attempt(c)
        /\ Go(i, "process")
        /\ UNCHANGED <<gateVars, transport, deliveries, receipts, recaps, processed, broken>>

\* processRecording came back without throwing.
Processed(i) ==
    /\ processed' = processed \cup {invocation[i].call}
    /\ IF transport = "telnyx" THEN Return(i) ELSE Go(i, "done")
    /\ UNCHANGED <<recaps, claims, broken>>

MarkDone(i) ==
    /\ invocation[i].op = "done"
    /\ job' = [job EXCEPT ![invocation[i].call].status = "DONE"]
    /\ Return(i)
    /\ UNCHANGED <<gateVars, transport, deliveries, receipts, history>>

\* Mutant: a job that failed stays claimed until its next delivery.
MarkFailedKeepsClaim(i) ==
    LET attempts == invocation[i].seen + 1
    IN  /\ invocation[i].op = "fail"
        /\ job' = [job EXCEPT ![invocation[i].call] =
                     [@ EXCEPT !.status = IF attempts >= MaxAttempts THEN "FAILED" ELSE @,
                               !.due = FALSE]]
        /\ Return(i)
        /\ UNCHANGED <<gateVars, transport, deliveries, receipts, history>>

\* Mutant: given up one attempt early.
MarkFailedEarly(i) ==
    LET attempts == invocation[i].seen + 1
    IN  /\ invocation[i].op = "fail"
        /\ job' = [job EXCEPT ![invocation[i].call] =
                     [@ EXCEPT !.status = IF attempts >= MaxAttempts - 1
                                          THEN "FAILED" ELSE "PENDING",
                               !.due = FALSE]]
        /\ Return(i)
        /\ UNCHANGED <<gateVars, transport, deliveries, receipts, history>>

MarkFailed(i) ==
    LET attempts == invocation[i].seen + 1
    IN  /\ invocation[i].op = "fail"
        /\ job' = [job EXCEPT ![invocation[i].call] =
                     [@ EXCEPT !.status = IF attempts >= MaxAttempts
                                          THEN "FAILED" ELSE "PENDING",
                               !.due = FALSE]]
        /\ Return(i)
        /\ UNCHANGED <<gateVars, transport, deliveries, receipts, history>>

\* The exponential backoff of a failed attempt passes.
BackoffPasses(c) ==
    /\ job[c].status = "PENDING" /\ ~job[c].due
    /\ job' = [job EXCEPT ![c].due = TRUE]
    /\ UNCHANGED <<gateVars, transport, deliveries, receipts, invocation, history>>

(***************************************************************************)
(* processRecording.                                                       *)
(***************************************************************************)
\* The recording is of another call than the booking's, or of terms nobody
\* confirmed, or holds no unequivocal confirmation: nothing to do.
NothingToLink(i) ==
    /\ invocation[i].op = "process"
    /\ Processed(i)
    /\ UNCHANGED <<gateVars, transport, deliveries, receipts, job>>

\* The confirmation is found in the transcript.
FindConfirmation(i) ==
    /\ invocation[i].op = "process"
    /\ booking = invocation[i].call
    /\ phase # "none" /\ "voice" \in proofs
    /\ Go(i, "link")
    /\ UNCHANGED <<gateVars, transport, deliveries, receipts, job, history>>

\* linkEvidence: a first proof counts, another one replaces it, and on a
\* commitment that was retired it counts for nothing.
LinkEvidence(i) ==
    /\ invocation[i].op = "link"
    /\ booking = invocation[i].call /\ phase # "none"
    /\ IF phase = "open" /\ "audio" \notin proofs THEN Prove("audio")
                                                  ELSE UNCHANGED gateVars
    /\ Processed(i)
    /\ UNCHANGED <<transport, deliveries, receipts, job>>

(***************************************************************************)
(* What goes wrong.                                                        *)
(***************************************************************************)
\* The store refuses the commitment that was read before the await.
Refused(i) ==
    \/ invocation[i].op = "mark" /\ ~Confirmed(invocation[i].call)
    \/ invocation[i].op = "link" /\ (booking # invocation[i].call \/ phase = "none")

\* Of a throw a job makes an attempt that failed.  A webhook answers and is
\* done: its receipt stays.
Throw(i) ==
    /\ \/ Refused(i)
       \/ "throws" \in Faults /\ invocation[i].op \in {"deliver", "process"}
    /\ IF invocation[i].op \in {"process", "link"} /\ transport # "telnyx"
       THEN Go(i, "fail") /\ UNCHANGED broken
       ELSE Return(i) /\ broken' = broken \cup {invocation[i].call}
    /\ UNCHANGED <<gateVars, transport, deliveries, receipts, job, recaps, claims, processed>>

\* An update of the job's row fails, and nobody looks at the error.
JobUnwritten(i) ==
    /\ "unwritten" \in Faults
    /\ \/ /\ invocation[i].op = "claim"
          /\ Attempt(invocation[i].call)
          /\ Go(i, "process")
       \/ /\ invocation[i].op \in {"done", "fail"}
          /\ Return(i)
          /\ UNCHANGED claims
    /\ broken' = broken \cup {invocation[i].call}
    /\ UNCHANGED <<gateVars, transport, deliveries, receipts, job, recaps, processed>>

Killed(i) ==
    /\ "killed" \in Faults
    /\ invocation[i].op # "idle"
    /\ Return(i)
    /\ broken' = broken \cup {invocation[i].call}
    /\ UNCHANGED <<gateVars, transport, deliveries, receipts, job, recaps, claims, processed>>

(***************************************************************************)
(* The specification.                                                      *)
(***************************************************************************)
\* The booking's own life, as the gate allows it.
BookingMoves ==
    /\ \/ booking < MaxBookings /\ Open
       \/ Prove("voice")
       \/ Retire
       \/ phase # "none" /\ Clear
    /\ UNCHANGED <<transport, deliveries, receipts, job, invocation, history>>

Serve(i) ==
    \/ registerWebhookReceipt(i, "ended")
    \/ registerWebhookReceipt(i, "recorded")
    \/ ReadForRecap(i)
    \/ DeliverRecap(i)
    \/ MarkRecap(i)
    \/ LookAtJob(i)
    \/ ClaimJob(i)
    \/ MarkDone(i)
    \/ MarkFailed(i)
    \/ NothingToLink(i)
    \/ FindConfirmation(i)
    \/ LinkEvidence(i)
    \/ Throw(i)
    \/ JobUnwritten(i)

Next ==
    \/ BookingMoves
    \/ \E i \in Invocations, c \in Calls :
          CallEnded(i, c) \/ RecordingReady(i, c) \/ CronPicks(i, c)
    \/ \E i \in Invocations : Serve(i) \/ Killed(i)
    \/ \E c \in Calls : BackoffPasses(c)

\* An invocation that is not killed runs on, time passes, and the cron gets to
\* every job that is due again and again: it takes up to five at a time, and a
\* job it took is not due until its backoff has passed.  Nothing makes a
\* provider deliver.
Fairness ==
    /\ \A i \in Invocations : WF_vars(Serve(i))
    /\ \A c \in Calls : WF_vars(BackoffPasses(c))
    /\ \A c \in Calls : SF_vars(\E i \in Invocations : CronPicks(i, c))

Spec == Init /\ [][Next]_vars /\ Fairness

(***************************************************************************)
(* Properties.                                                             *)
(***************************************************************************)
\* What is recorded as done was done, and no oftener: the carrier gets at most
\* one recap of a call, however often its end is reported and whichever of the
\* deliveries are handled at the same time; a job is DONE only if some invocation
\* did process a recording of its call, and given up only after MaxAttempts
\* attempts, though invocations that overtake each other may lose count.
WorkIsRecorded ==
    \A c \in Calls :
        /\ recaps[c] <= 1
        /\ job[c].status = "DONE" => c \in processed
        /\ job[c].status = "FAILED" => claims[c] >= MaxAttempts

\* Every job settles, whatever invocations of it overlap, unless one of them
\* was killed or one of its writes was lost: the cron never looks at a job that
\* is PROCESSING, so no failure may leave it so.
JobSettles ==
    \A c \in Calls :
        job[c].status # "NONE" ~>
            job[c].status \in {"DONE", "FAILED"} \/ c \in broken

\* A call whose terms are confirmed when its end is taken up gets its recap on
\* record, unless the handler failed or the agreement was given up meanwhile;
\* the receipt lets no second delivery make good for it.
ConfirmedCallIsRecapped ==
    \A c \in Calls :
        (Confirmed(c) /\ \E i \in Invocations :
            invocation[i].call = c /\ invocation[i].op = "recap")
        ~> ("recap" \in proofs \/ booking # c \/ phase # "open" \/ c \in broken)

=============================================================================
