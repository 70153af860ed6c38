--------------------------- MODULE WebhooksProofs ---------------------------
(***************************************************************************)
(* The types of the webhooks, and that what is recorded as done was done   *)
(* and no oftener, for any number of invocations, deliveries, bookings and *)
(* attempts, and whatever fails.                                           *)
(*                                                                         *)
(* The three parts of WorkIsRecorded have an argument each.  A recap is    *)
(* delivered once because the invocation that delivers it is the only one  *)
(* that passed the receipt (OneRecaps).  A job is DONE by an invocation    *)
(* that processed it (DoneWasProcessed).  And a job is given up on the     *)
(* attempts an invocation saw, not those there are: but the ones it saw    *)
(* were begun, and its own was (FailedWasTried).                           *)
(***************************************************************************)
EXTENDS Webhooks, TLAPS

WorksOnCall ==
    \A i \in Invocations :
        /\ invocation[i].op # "idle" => invocation[i].call \in Calls
        /\ invocation[i].op \in {"ended", "recorded"} =>
              deliveries[<<invocation[i].op, invocation[i].call>>] > 0

Recapping(c) == {i \in Invocations : invocation[i].op \in {"recap", "deliver"}
                                     /\ invocation[i].call = c}

OneRecaps ==
    \A c \in Calls :
        /\ recaps[c] \in {0, 1}
        /\ <<"ended", c>> \notin receipts => recaps[c] = 0 /\ Recapping(c) = {}
        /\ Recapping(c) # {} => recaps[c] = 0
        /\ \A i, j \in Recapping(c) : i = j

DoneWasProcessed ==
    /\ \A i \in Invocations : invocation[i].op = "done" => invocation[i].call \in processed
    /\ \A c \in Calls : job[c].status = "DONE" => c \in processed

\* So many attempts at the call's job were begun, as far as they are counted.
Begun(c, attempts) == attempts <= claims[c] \/ claims[c] >= MaxAttempts

FailedWasTried ==
    /\ \A c \in Calls : /\ Begun(c, job[c].attempts)
                        /\ job[c].status = "FAILED" => claims[c] >= MaxAttempts
    /\ \A i \in Invocations :
          /\ invocation[i].op = "recorded" => transport = "telnyx"
          /\ invocation[i].op = "claim" => Begun(invocation[i].call, invocation[i].seen)
          /\ \/ invocation[i].op \in {"done", "fail"}
             \/ invocation[i].op \in {"process", "link"} /\ transport # "telnyx"
             => Begun(invocation[i].call, invocation[i].seen + 1)

WebhooksInv ==
    /\ WebhooksTypeOK
    /\ WorksOnCall
    /\ OneRecaps
    /\ DoneWasProcessed
    /\ FailedWasTried

(***************************************************************************)
(* Invocations.                                                            *)
(***************************************************************************)
InvocationType == [op : Op, call : 0..MaxBookings, seen : Nat]

LEMMA IdleTyped == Idle \in InvocationType /\ Idle.op = "idle"
  BY WebhooksAssumption DEF Idle, InvocationType, Op

LEMMA GoEffect ==
    ASSUME WebhooksTypeOK, NEW i \in Invocations, NEW op \in Op, Go(i, op)
    PROVE  /\ invocation' \in [Invocations -> InvocationType]
           /\ invocation'[i].op = op
           /\ invocation'[i].call = invocation[i].call
           /\ invocation'[i].seen = invocation[i].seen
           /\ \A j \in Invocations : j # i => invocation'[j] = invocation[j]
  BY DEF WebhooksTypeOK, Go, InvocationType

LEMMA ReturnEffect ==
    ASSUME WebhooksTypeOK, NEW i \in Invocations, Return(i)
    PROVE  /\ invocation' \in [Invocations -> InvocationType]
           /\ invocation'[i].op = "idle"
           /\ \A j \in Invocations : j # i => invocation'[j] = invocation[j]
  BY IdleTyped DEF WebhooksTypeOK, Return, InvocationType

LEMMA BeginEffect ==
    ASSUME WebhooksTypeOK, NEW i \in Invocations, NEW op \in Op, NEW c \in Calls, Begin(i, op, c)
    PROVE  /\ invocation' \in [Invocations -> InvocationType]
           /\ invocation[i].op = "idle"
           /\ invocation'[i].op = op /\ invocation'[i].call = c
           /\ \A j \in Invocations : j # i => invocation'[j] = invocation[j]
  <1>. DEFINE new == [op |-> op, call |-> c, seen |-> 0]
  <1>1. new \in InvocationType /\ new.op = op /\ new.call = c
    BY WebhooksAssumption DEF InvocationType, Calls
  <1>2. invocation' = [invocation EXCEPT ![i] = new] /\ invocation[i] = Idle
    BY DEF Begin
  <1>3. invocation \in [Invocations -> InvocationType]
    BY DEF WebhooksTypeOK, InvocationType
  <1>. HIDE DEF new
  <1>. QED BY <1>1, <1>2, <1>3, IdleTyped

LEMMA InitInv == Init => WebhooksInv
  <1>. SUFFICES ASSUME Init PROVE WebhooksInv
    OBVIOUS
  <1>i. \A i \in Invocations : invocation[i].op = "idle"
    BY IdleTyped DEF Init
  <1>0. booking = 0 /\ phase = "none" /\ proofs = {}
    BY DEF Init, GateInit
  <1>j. NoJob \in Job /\ NoJob.status = "NONE" /\ NoJob.attempts = 0
    BY DEF NoJob, Job, JobStatus
  <1>1. WebhooksTypeOK
    <2>1. /\ invocation \in [Invocations -> [op : Op, call : 0..MaxBookings, seen : Nat]]
          /\ job \in [Calls -> Job]
      BY <1>j, IdleTyped DEF Init, InvocationType
    <2>2. /\ recaps \in [Calls -> Nat] /\ claims \in [Calls -> 0..MaxAttempts]
          /\ deliveries \in [Event -> 0..MaxDeliveries]
      BY WebhooksAssumption DEF Init
    <2>. QED BY <1>0, <2>1, <2>2, WebhooksAssumption DEF Init, WebhooksTypeOK
  <1>2. WorksOnCall /\ OneRecaps
    BY <1>i DEF Init, WorksOnCall, OneRecaps, Recapping
  <1>3. DoneWasProcessed /\ FailedWasTried
    BY <1>i, <1>j DEF Init, DoneWasProcessed, FailedWasTried, Begun
  <1>. QED BY <1>1, <1>2, <1>3 DEF WebhooksInv

(***************************************************************************)
(* Types, step by step.                                                    *)
(***************************************************************************)
LEMMA GateTyped ==
    ASSUME WebhooksTypeOK,
           \/ UNCHANGED gateVars
           \/ booking < MaxBookings /\ Open
           \/ \E proof \in Proofs : Prove(proof)
           \/ Retire
           \/ Clear
    PROVE  /\ booking' \in 0..MaxBookings
           /\ phase' \in {"none", "open", "committed", "retired"}
           /\ proofs' \subseteq Proofs
  <1>. booking \in 0..MaxBookings /\ MaxBookings \in Nat
    BY WebhooksAssumption DEF WebhooksTypeOK
  <1>1. CASE UNCHANGED gateVars
    BY <1>1 DEF gateVars, WebhooksTypeOK
  <1>2. CASE booking < MaxBookings /\ Open
    BY <1>2 DEF Open
  <1>3. ASSUME NEW proof \in Proofs, Prove(proof)
        PROVE  /\ booking' \in 0..MaxBookings
               /\ phase' \in {"none", "open", "committed", "retired"}
               /\ proofs' \subseteq Proofs
    BY <1>3 DEF Prove, WebhooksTypeOK
  <1>4. CASE Retire
    BY <1>4 DEF Retire, WebhooksTypeOK
  <1>5. CASE Clear
    BY <1>5 DEF Clear, WebhooksTypeOK
  <1>. QED BY <1>1, <1>2, <1>3, <1>4, <1>5

LEMMA StepTyped == WebhooksTypeOK /\ WorksOnCall /\ [Next]_vars => WebhooksTypeOK'
  <1>. SUFFICES ASSUME WebhooksTypeOK, WorksOnCall, [Next]_vars PROVE WebhooksTypeOK'
    OBVIOUS
  <1>. USE WebhooksAssumption
  <1>op. Op = {"idle", "ended", "recorded", "recap", "deliver", "mark", "look", "claim",
               "done", "fail", "process", "link"}
    BY DEF Op
  <1>p. Proofs = {"voice", "recap", "audio"}
    BY DEF Proofs
  <1>g. UNCHANGED gateVars => /\ booking' \in 0..MaxBookings
                              /\ phase' \in {"none", "open", "committed", "retired"}
                              /\ proofs' \subseteq Proofs
    BY GateTyped
  <1>v. ASSUME NEW i \in Invocations, Return(i) \/ \E op \in Op : Go(i, op)
        PROVE  invocation' \in [Invocations -> [op : Op, call : 0..MaxBookings, seen : Nat]]
    BY <1>v, GoEffect, ReturnEffect DEF InvocationType
  <1>d. ASSUME NEW kind \in {"ended", "recorded"}, NEW c \in Calls, Deliver(kind, c)
        PROVE  /\ deliveries' \in [Event -> 0..MaxDeliveries]
               /\ \A e \in Event : deliveries[e] > 0 => deliveries'[e] > 0
    <2>1. <<kind, c>> \in Event
      BY DEF Event
    <2>2. deliveries \in [Event -> 0..MaxDeliveries]
      BY DEF WebhooksTypeOK
    <2>. QED BY <1>d, <2>1, <2>2 DEF Deliver
  <1>a. ASSUME NEW c \in Calls, Attempt(c) PROVE claims' \in [Calls -> 0..MaxAttempts]
    <2>1. claims \in [Calls -> 0..MaxAttempts]
      BY DEF WebhooksTypeOK
    <2>. QED BY <1>a, <2>1 DEF Attempt
  <1>w. \A i \in Invocations : invocation[i].op # "idle" => invocation[i].call \in Calls
    BY DEF WorksOnCall
  <1>s. \A i \in Invocations : invocation[i].seen \in Nat
    BY DEF WebhooksTypeOK
  <1>r. \A c \in Calls : /\ job[c].status \in JobStatus /\ job[c].attempts \in Nat
                         /\ job[c].due \in BOOLEAN
    BY DEF WebhooksTypeOK, Job
  <1>st. JobStatus = {"NONE", "PENDING", "PROCESSING", "DONE", "FAILED"}
    BY DEF JobStatus
  <1>1. CASE BookingMoves
    BY <1>1, <1>p, GateTyped DEF BookingMoves, WebhooksTypeOK, history
  <1>2. ASSUME NEW i \in Invocations, NEW c \in Calls, CallEnded(i, c) PROVE WebhooksTypeOK'
    <2>1. invocation' \in [Invocations -> InvocationType]
      BY <1>2, <1>op, BeginEffect DEF CallEnded
    <2>. QED BY <1>2, <1>d, <1>g, <2>1 DEF CallEnded, WebhooksTypeOK, InvocationType, history
  <1>3. ASSUME NEW i \in Invocations, NEW c \in Calls, RecordingReady(i, c) PROVE WebhooksTypeOK'
    <2>1. invocation' \in [Invocations -> InvocationType]
      BY <1>3, <1>op, BeginEffect DEF RecordingReady
    <2>2. job' \in [Calls -> Job]
      <3>1. CASE UNCHANGED job
        BY <3>1 DEF WebhooksTypeOK
      <3>2. CASE enqueueRecordingJob(c)
        BY <3>2, <1>st DEF enqueueRecordingJob, WebhooksTypeOK, Job
      <3>. QED BY <1>3, <3>1, <3>2 DEF RecordingReady
    <2>. QED BY <1>3, <1>d, <1>g, <2>1, <2>2 DEF RecordingReady, WebhooksTypeOK, InvocationType, history
  <1>4. ASSUME NEW i \in Invocations, NEW c \in Calls, CronPicks(i, c) PROVE WebhooksTypeOK'
    <2>1. invocation' \in [Invocations -> InvocationType]
      BY <1>4, <1>op, BeginEffect DEF CronPicks
    <2>. QED BY <1>4, <1>g, <2>1 DEF CronPicks, WebhooksTypeOK, InvocationType, history
  <1>5. ASSUME NEW i \in Invocations, NEW kind \in {"ended", "recorded"},
               registerWebhookReceipt(i, kind)
        PROVE  WebhooksTypeOK'
    <2>1. invocation' \in [Invocations -> [op : Op, call : 0..MaxBookings, seen : Nat]]
      BY <1>5, <1>op, <1>v DEF registerWebhookReceipt
    <2>2. <<kind, invocation[i].call>> \in Event /\ deliveries[<<kind, invocation[i].call>>] > 0
      BY <1>5 DEF registerWebhookReceipt, WorksOnCall, Event
    <2>3. receipts' \subseteq {e \in Event : deliveries'[e] > 0}
      BY <1>5, <2>2 DEF registerWebhookReceipt, WebhooksTypeOK
    <2>. QED BY <1>5, <1>g, <2>1, <2>3 DEF registerWebhookReceipt, WebhooksTypeOK, history
  <1>6. ASSUME NEW i \in Invocations, ReadForRecap(i) PROVE WebhooksTypeOK'
    BY <1>6, <1>op, <1>g, <1>v DEF ReadForRecap, WebhooksTypeOK, history
  <1>7. ASSUME NEW i \in Invocations, DeliverRecap(i) PROVE WebhooksTypeOK'
    <2>1. recaps' \in [Calls -> Nat]
      <3>1. invocation[i].call \in Calls /\ recaps \in [Calls -> Nat]
        BY <1>7, <1>w DEF DeliverRecap, WebhooksTypeOK
      <3>. QED BY <1>7, <3>1 DEF DeliverRecap
    <2>. QED BY <1>7, <1>op, <1>g, <1>v, <2>1 DEF DeliverRecap, WebhooksTypeOK
  <1>8. ASSUME NEW i \in Invocations, MarkRecap(i) PROVE WebhooksTypeOK'
    BY <1>8, <1>p, <1>v, GateTyped DEF MarkRecap, WebhooksTypeOK, history
  <1>9. ASSUME NEW i \in Invocations, LookAtJob(i) PROVE WebhooksTypeOK'
    <2>1. invocation' \in [Invocations -> [op : Op, call : 0..MaxBookings, seen : Nat]]
      <3>1. CASE Return(i)
        BY <3>1, <1>v
      <3>2. CASE invocation' = [invocation EXCEPT ![i].op = "claim",
                                  ![i].seen = job[invocation[i].call].attempts]
        <4>1. job[invocation[i].call].attempts \in Nat
          BY <1>9, <1>w, <1>r DEF LookAtJob
        <4>. QED BY <3>2, <4>1, <1>op DEF WebhooksTypeOK
      <3>. QED BY <1>9, <3>1, <3>2 DEF LookAtJob
    <2>. QED BY <1>9, <1>g, <2>1 DEF LookAtJob, WebhooksTypeOK, history
  <1>10. ASSUME NEW i \in Invocations, ClaimJob(i) PROVE WebhooksTypeOK'
    <2>. DEFINE c == invocation[i].call
    <2>1. c \in Calls
      BY <1>10, <1>w DEF ClaimJob
    <2>2. job[c] \in Job /\ "PROCESSING" \in JobStatus /\ invocation[i].seen + 1 \in Nat
      BY <2>1, <1>s, <1>st DEF WebhooksTypeOK
    <2>. DEFINE new == [job[c] EXCEPT !.status = "PROCESSING", !.attempts = invocation[i].seen + 1]
    <2>n. new \in Job
      BY <2>2 DEF Job
    <2>e. job' = [job EXCEPT ![c] = new]
      BY <1>10 DEF ClaimJob
    <2>3. job' \in [Calls -> Job]
      <3>. HIDE DEF new
      <3>. QED BY <2>n, <2>e DEF WebhooksTypeOK
    <2>4. claims' \in [Calls -> 0..MaxAttempts]
      BY <1>10, <2>1, <1>a DEF ClaimJob
    <2>. QED BY <1>10, <1>op, <1>g, <1>v, <2>3, <2>4 DEF ClaimJob, WebhooksTypeOK
  <1>11. ASSUME NEW i \in Invocations, MarkDone(i) PROVE WebhooksTypeOK'
    <2>1. job' \in [Calls -> Job]
      <3>1. invocation[i].call \in Calls /\ job \in [Calls -> Job] /\ "DONE" \in JobStatus
        BY <1>11, <1>w, <1>st DEF MarkDone, WebhooksTypeOK
      <3>. QED BY <1>11, <3>1 DEF MarkDone, Job
    <2>. QED BY <1>11, <1>g, <1>v, <2>1 DEF MarkDone, WebhooksTypeOK, history
  <1>12. ASSUME NEW i \in Invocations, MarkFailed(i) PROVE WebhooksTypeOK'
    <2>1. job' \in [Calls -> Job]
      <3>. DEFINE c == invocation[i].call
                  status == IF invocation[i].seen + 1 >= MaxAttempts THEN "FAILED" ELSE "PENDING"
                  new == [job[c] EXCEPT !.status = status, !.due = FALSE]
      <3>1. c \in Calls /\ job \in [Calls -> Job] /\ status \in JobStatus
        BY <1>12, <1>w, <1>st DEF MarkFailed, WebhooksTypeOK
      <3>2. new \in Job
        <4>. HIDE DEF status
        <4>. QED BY <3>1 DEF Job
      <3>3. job' = [job EXCEPT ![c] = new]
        BY <1>12 DEF MarkFailed
      <3>. HIDE DEF new
      <3>. QED BY <3>1, <3>2, <3>3
    <2>. QED BY <1>12, <1>g, <1>v, <2>1 DEF MarkFailed, WebhooksTypeOK, history
  <1>pr. ASSUME NEW i \in Invocations, invocation[i].op # "idle", Processed(i)
         PROVE  /\ invocation' \in [Invocations -> [op : Op, call : 0..MaxBookings, seen : Nat]]
                /\ processed' \subseteq Calls
                /\ UNCHANGED <<recaps, claims, broken>>
    BY <1>pr, <1>op, <1>v, <1>w DEF Processed, WebhooksTypeOK
  <1>13. ASSUME NEW i \in Invocations, NothingToLink(i) PROVE WebhooksTypeOK'
    BY <1>13, <1>g, <1>pr DEF NothingToLink, WebhooksTypeOK
  <1>14. ASSUME NEW i \in Invocations, FindConfirmation(i) PROVE WebhooksTypeOK'
    BY <1>14, <1>op, <1>g, <1>v DEF FindConfirmation, WebhooksTypeOK, history
  <1>15. ASSUME NEW i \in Invocations, LinkEvidence(i) PROVE WebhooksTypeOK'
    BY <1>15, <1>p, <1>pr, GateTyped DEF LinkEvidence, WebhooksTypeOK
  <1>16. ASSUME NEW i \in Invocations, Throw(i) \/ Killed(i) PROVE WebhooksTypeOK'
    <2>1. invocation[i].call \in Calls
      BY <1>16, <1>w DEF Throw, Refused, Killed
    <2>2. invocation' \in [Invocations -> [op : Op, call : 0..MaxBookings, seen : Nat]]
      BY <1>16, <1>op, <1>v DEF Throw, Killed
    <2>. QED BY <1>16, <1>g, <2>1, <2>2 DEF Throw, Killed, WebhooksTypeOK
  <1>17. ASSUME NEW i \in Invocations, JobUnwritten(i) PROVE WebhooksTypeOK'
    <2>1. invocation' \in [Invocations -> [op : Op, call : 0..MaxBookings, seen : Nat]]
      BY <1>17, <1>op, <1>v DEF JobUnwritten
    <2>2. invocation[i].call \in Calls
      BY <1>17, <1>w DEF JobUnwritten
    <2>3. claims' \in [Calls -> 0..MaxAttempts]
      BY <1>17, <2>2, <1>a DEF JobUnwritten, WebhooksTypeOK
    <2>. QED BY <1>17, <1>g, <2>1, <2>2, <2>3 DEF JobUnwritten, WebhooksTypeOK
  <1>18. ASSUME NEW c \in Calls, BackoffPasses(c) PROVE WebhooksTypeOK'
    <2>1. job' \in [Calls -> Job]
      BY <1>18 DEF BackoffPasses, WebhooksTypeOK, Job
    <2>. QED BY <1>18, <1>g, <2>1 DEF BackoffPasses, WebhooksTypeOK, history
  <1>19. CASE UNCHANGED vars
    BY <1>19, <1>g DEF vars, WebhooksTypeOK
  <1>. QED
    BY <1>1, <1>2, <1>3, <1>4, <1>5, <1>6, <1>7, <1>8, <1>9, <1>10, <1>11, <1>12, <1>13,
       <1>14, <1>15, <1>16, <1>17, <1>18, <1>19 DEF Next, Serve

(***************************************************************************)
(* What a step does to the invocation that makes it.                       *)
(***************************************************************************)
\* One invocation goes from an operation to another, on the same call.
Moves(i, from, to) ==
    /\ invocation[i].op \in from
    /\ invocation'[i].op \in to
    /\ invocation'[i].op # "idle" => invocation'[i].call = invocation[i].call
    /\ \A j \in Invocations : j # i => invocation'[j] = invocation[j]

LEMMA OpsTyped ==
    /\ Op = {"idle", "ended", "recorded", "recap", "deliver", "mark", "look", "claim",
             "done", "fail", "process", "link"}
    /\ WebhooksTypeOK => \A i \in Invocations : invocation[i].op \in Op
  BY DEF Op, WebhooksTypeOK

LEMMA Movements ==
    ASSUME WebhooksTypeOK, NEW i \in Invocations
    PROVE  /\ \A kind \in {"ended", "recorded"} : registerWebhookReceipt(i, kind) =>
                 Moves(i, {kind}, IF <<kind, invocation[i].call>> \in receipts THEN {"idle"}
                                  ELSE IF kind = "ended" THEN {"recap"} ELSE {"process"})
           /\ ReadForRecap(i) => Moves(i, {"recap"}, {"idle", "deliver"})
           /\ DeliverRecap(i) => Moves(i, {"deliver"}, {"mark"})
           /\ MarkRecap(i) => Moves(i, {"mark"}, {"idle"})
           /\ LookAtJob(i) => Moves(i, {"look"}, {"idle", "claim"})
           /\ ClaimJob(i) => Moves(i, {"claim"}, {"process"})
           /\ MarkDone(i) => Moves(i, {"done"}, {"idle"})
           /\ MarkFailed(i) => Moves(i, {"fail"}, {"idle"})
           /\ NothingToLink(i) => Moves(i, {"process"}, {"idle", "done"})
           /\ FindConfirmation(i) => Moves(i, {"process"}, {"link"})
           /\ LinkEvidence(i) => Moves(i, {"link"}, {"idle", "done"})
           /\ Throw(i) => Moves(i, {"mark", "link", "deliver", "process"}, {"idle", "fail"})
           /\ JobUnwritten(i) => \/ Moves(i, {"claim"}, {"process"})
                                 \/ Moves(i, {"done", "fail"}, {"idle"})
           /\ Killed(i) => Moves(i, Op \ {"idle"}, {"idle"})
  <1>o. invocation[i].op \in Op
    BY OpsTyped
  <1>g. ASSUME NEW op \in Op, NEW from, invocation[i].op \in from, Go(i, op) PROVE Moves(i, from, {op})
    BY <1>g, GoEffect DEF Moves
  <1>r. ASSUME NEW from, invocation[i].op \in from, Return(i) PROVE Moves(i, from, {"idle"})
    BY <1>r, ReturnEffect DEF Moves
  <1>m. ASSUME NEW from, NEW to, NEW most, to \subseteq most, Moves(i, from, to) PROVE Moves(i, from, most)
    BY <1>m DEF Moves
  <1>1. ASSUME NEW kind \in {"ended", "recorded"}, registerWebhookReceipt(i, kind)
        PROVE  Moves(i, {kind}, IF <<kind, invocation[i].call>> \in receipts THEN {"idle"}
                                ELSE IF kind = "ended" THEN {"recap"} ELSE {"process"})
    BY <1>1, <1>g, <1>r, OpsTyped DEF registerWebhookReceipt
  <1>2. ASSUME ReadForRecap(i) PROVE Moves(i, {"recap"}, {"idle", "deliver"})
    <2>1. CASE Return(i)
      BY <1>2, <2>1, <1>r, <1>m DEF ReadForRecap
    <2>2. CASE Go(i, "deliver")
      BY <1>2, <2>2, <1>g, <1>m, OpsTyped DEF ReadForRecap
    <2>. QED BY <1>2, <2>1, <2>2 DEF ReadForRecap
  <1>3. ASSUME LookAtJob(i) PROVE Moves(i, {"look"}, {"idle", "claim"})
    <2>1. CASE Return(i)
      BY <1>3, <2>1, <1>r, <1>m DEF LookAtJob
    <2>2. CASE invocation' = [invocation EXCEPT ![i].op = "claim",
                                ![i].seen = job[invocation[i].call].attempts]
      BY <1>3, <2>2 DEF LookAtJob, Moves, WebhooksTypeOK
    <2>. QED BY <1>3, <2>1, <2>2 DEF LookAtJob
  <1>4. ASSUME NEW from, invocation[i].op \in from, Processed(i) PROVE Moves(i, from, {"idle", "done"})
    <2>1. CASE Return(i)
      BY <1>4, <2>1, <1>r, <1>m
    <2>2. CASE Go(i, "done")
      BY <1>4, <2>2, <1>g, <1>m, OpsTyped
    <2>. QED BY <1>4, <2>1, <2>2 DEF Processed
  <1>5. ASSUME Throw(i) PROVE Moves(i, {"mark", "link", "deliver", "process"}, {"idle", "fail"})
    <2>0. invocation[i].op \in {"mark", "link", "deliver", "process"}
      BY <1>5 DEF Throw, Refused
    <2>1. CASE Return(i)
      BY <2>0, <2>1, <1>r, <1>m
    <2>2. CASE Go(i, "fail")
      BY <2>0, <2>2, <1>g, <1>m, OpsTyped
    <2>. QED BY <1>5, <2>1, <2>2 DEF Throw
  <1>6. DeliverRecap(i) => Moves(i, {"deliver"}, {"mark"})
    BY <1>g, OpsTyped DEF DeliverRecap
  <1>7. MarkRecap(i) => Moves(i, {"mark"}, {"idle"})
    BY <1>r DEF MarkRecap
  <1>8. ClaimJob(i) => Moves(i, {"claim"}, {"process"})
    BY <1>g, OpsTyped DEF ClaimJob
  <1>9. MarkDone(i) => Moves(i, {"done"}, {"idle"})
    BY <1>r DEF MarkDone
  <1>10. MarkFailed(i) => Moves(i, {"fail"}, {"idle"})
    BY <1>r DEF MarkFailed
  <1>11. FindConfirmation(i) => Moves(i, {"process"}, {"link"})
    BY <1>g, OpsTyped DEF FindConfirmation
  <1>12. JobUnwritten(i) => \/ Moves(i, {"claim"}, {"process"})
                            \/ Moves(i, {"done", "fail"}, {"idle"})
    BY <1>g, <1>r, OpsTyped DEF JobUnwritten
  <1>13. Killed(i) => Moves(i, Op \ {"idle"}, {"idle"})
    BY <1>r, <1>o DEF Killed
  <1>14. /\ NothingToLink(i) => Moves(i, {"process"}, {"idle", "done"})
         /\ LinkEvidence(i) => Moves(i, {"link"}, {"idle", "done"})
    BY <1>4 DEF NothingToLink, LinkEvidence
  <1>. QED BY <1>1, <1>2, <1>3, <1>5, <1>6, <1>7, <1>8, <1>9, <1>10, <1>11, <1>12, <1>13, <1>14

\* What the steps that start an invocation do, and those that touch none.
LEMMA Beginnings ==
    ASSUME WebhooksTypeOK, NEW i \in Invocations, NEW c \in Calls,
           CallEnded(i, c) \/ RecordingReady(i, c) \/ CronPicks(i, c)
    PROVE  /\ invocation[i].op = "idle"
           /\ invocation'[i].op \in {"ended", "recorded", "look"} /\ invocation'[i].call = c
           /\ invocation'[i].op \in {"ended", "recorded"} => Deliver(invocation'[i].op, c)
           /\ \A j \in Invocations : j # i => invocation'[j] = invocation[j]
           /\ UNCHANGED <<receipts, history>>
           /\ \/ UNCHANGED job
              \/ job' = [job EXCEPT ![c] = [@ EXCEPT !.status = "PENDING", !.due = TRUE]]
  BY BeginEffect, OpsTyped DEF CallEnded, RecordingReady, CronPicks, enqueueRecordingJob

LEMMA Standing ==
    ASSUME BookingMoves \/ (\E c \in Calls : BackoffPasses(c)) \/ UNCHANGED vars
    PROVE  UNCHANGED <<transport, deliveries, receipts, invocation, recaps, claims, processed>>
  BY DEF BookingMoves, BackoffPasses, vars, history

LEMMA StepWorks == WebhooksTypeOK /\ WorksOnCall /\ [Next]_vars => WorksOnCall'
  <1>. SUFFICES ASSUME WebhooksTypeOK, WorksOnCall, [Next]_vars PROVE WorksOnCall'
    OBVIOUS
  <1>d. ASSUME NEW kind \in {"ended", "recorded"}, NEW c \in Calls, Deliver(kind, c)
        PROVE  /\ \A e \in Event : deliveries[e] > 0 => deliveries'[e] > 0
               /\ deliveries'[<<kind, c>>] > 0
    <2>1. <<kind, c>> \in Event /\ deliveries \in [Event -> 0..MaxDeliveries] /\ MaxDeliveries \in Nat
      BY WebhooksAssumption DEF Event, WebhooksTypeOK
    <2>. QED BY <1>d, <2>1 DEF Deliver
  <1>e. \A i \in Invocations : invocation[i].op \in {"ended", "recorded"} =>
           <<invocation[i].op, invocation[i].call>> \in Event
    BY DEF WorksOnCall, Event
  <1>1. ASSUME NEW i \in Invocations, NEW c \in Calls,
               CallEnded(i, c) \/ RecordingReady(i, c) \/ CronPicks(i, c)
        PROVE  WorksOnCall'
    <2>1. \A e \in Event : deliveries[e] > 0 => deliveries'[e] > 0
      BY <1>1, <1>d DEF CallEnded, RecordingReady, CronPicks
    <2>2. /\ invocation'[i].call = c
          /\ invocation'[i].op \in {"ended", "recorded"} => Deliver(invocation'[i].op, c)
          /\ \A j \in Invocations : j # i => invocation'[j] = invocation[j]
      BY <1>1, Beginnings
    <2>. QED BY <2>1, <2>2, <1>d, <1>e DEF WorksOnCall
  <1>2. ASSUME NEW i \in Invocations, NEW from, NEW to, Moves(i, from, to),
               "idle" \notin from, "ended" \notin to, "recorded" \notin to, UNCHANGED deliveries
        PROVE  WorksOnCall'
    BY <1>2 DEF Moves, WorksOnCall
  <1>3. ASSUME NEW i \in Invocations, Serve(i) \/ Killed(i)
        PROVE  UNCHANGED deliveries
    BY <1>3 DEF Serve, registerWebhookReceipt, ReadForRecap, DeliverRecap, MarkRecap, LookAtJob,
       ClaimJob, MarkDone, MarkFailed, NothingToLink, FindConfirmation, LinkEvidence, Throw,
       JobUnwritten, Killed
  <1>4. ASSUME NEW i \in Invocations, Serve(i) \/ Killed(i) PROVE WorksOnCall'
    BY <1>2, <1>3, <1>4, Movements DEF Serve
  <1>5. UNCHANGED <<invocation, deliveries>> => WorksOnCall'
    BY DEF WorksOnCall
  <1>. QED BY <1>1, <1>4, <1>5, Standing DEF Next

LEMMA StepRecaps == WebhooksTypeOK /\ WorksOnCall /\ OneRecaps /\ [Next]_vars => OneRecaps'
  <1>. SUFFICES ASSUME WebhooksTypeOK, WorksOnCall, OneRecaps, [Next]_vars PROVE OneRecaps'
    OBVIOUS
  <1>r. recaps \in [Calls -> Nat]
    BY DEF WebhooksTypeOK
  <1>w. \A i \in Invocations : invocation[i].op # "idle" => invocation[i].call \in Calls
    BY DEF WorksOnCall
  <1>q. ASSUME UNCHANGED recaps, \A c \in Calls : Recapping(c)' \subseteq Recapping(c),
               \A c \in Calls : <<"ended", c>> \in receipts => <<"ended", c>> \in receipts'
        PROVE  OneRecaps'
    BY <1>q DEF OneRecaps
  <1>m. ASSUME NEW i \in Invocations, NEW from, NEW to, Moves(i, from, to),
               to \intersect {"recap", "deliver"} = {} \/ from \subseteq {"recap", "deliver"}
        PROVE  \A c \in Calls : Recapping(c)' \subseteq Recapping(c)
    BY <1>m DEF Moves, Recapping
  <1>1. ASSUME NEW i \in Invocations, NEW c \in Calls,
               CallEnded(i, c) \/ RecordingReady(i, c) \/ CronPicks(i, c)
        PROVE  OneRecaps'
    <2>1. \A d \in Calls : Recapping(d)' \subseteq Recapping(d)
      BY <1>1, Beginnings DEF Recapping
    <2>. QED BY <1>1, <2>1, <1>q, Beginnings DEF history
  <1>2. ASSUME NEW i \in Invocations, registerWebhookReceipt(i, "ended") PROVE OneRecaps'
    <2>c. PICK c \in Calls : c = invocation[i].call
      BY <1>2, <1>w DEF registerWebhookReceipt
    <2>0. receipts' = receipts \union {<<"ended", c>>} /\ UNCHANGED recaps
      BY <1>2, <2>c DEF registerWebhookReceipt, history
    <2>1. CASE <<"ended", c>> \in receipts
      <3>1. Moves(i, {"ended"}, {"idle"})
        BY <1>2, <2>c, <2>1, Movements
      <3>. QED BY <2>0, <3>1, <1>m, <1>q
    <2>2. CASE <<"ended", c>> \notin receipts
      <3>1. Moves(i, {"ended"}, {"recap"})
        BY <1>2, <2>c, <2>2, Movements
      <3>2. recaps[c] = 0 /\ Recapping(c) = {}
        BY <2>0, <2>2 DEF OneRecaps
      <3>3. Recapping(c)' \subseteq {i}
        BY <2>c, <3>1, <3>2 DEF Moves, Recapping
      <3>4. \A d \in Calls : d # c => Recapping(d)' \subseteq Recapping(d)
        BY <2>c, <3>1 DEF Moves, Recapping
      <3>5. ASSUME NEW d \in Calls
            PROVE  /\ recaps'[d] \in {0, 1}
                   /\ <<"ended", d>> \notin receipts' => recaps'[d] = 0 /\ Recapping(d)' = {}
                   /\ Recapping(d)' # {} => recaps'[d] = 0
                   /\ \A j, k \in Recapping(d)' : j = k
        <4>1. CASE d = c
          BY <4>1, <2>0, <3>2, <3>3
        <4>2. CASE d # c
          BY <4>2, <2>0, <3>4 DEF OneRecaps
        <4>. QED BY <4>1, <4>2
      <3>. QED BY <3>5 DEF OneRecaps
    <2>. QED BY <2>1, <2>2
  <1>3. ASSUME NEW i \in Invocations, registerWebhookReceipt(i, "recorded") PROVE OneRecaps'
    <2>1. \A c \in Calls : Recapping(c)' \subseteq Recapping(c)
      BY <1>3, <1>m, Movements
    <2>2. receipts \subseteq receipts' /\ UNCHANGED recaps
      BY <1>3 DEF registerWebhookReceipt, history
    <2>. QED BY <2>1, <2>2, <1>q
  <1>4. ASSUME NEW i \in Invocations, DeliverRecap(i) PROVE OneRecaps'
    <2>c. PICK c \in Calls : c = invocation[i].call
      BY <1>4, <1>w DEF DeliverRecap
    <2>1. Moves(i, {"deliver"}, {"mark"})
      BY <1>4, Movements
    <2>2. /\ i \in Recapping(c)
          /\ recaps' = [recaps EXCEPT ![c] = @ + 1] /\ UNCHANGED receipts
      BY <1>4, <2>c DEF DeliverRecap, Recapping
    <2>3. recaps[c] = 0 /\ <<"ended", c>> \in receipts /\ \A j \in Recapping(c) : j = i
      BY <2>2 DEF OneRecaps
    <2>4. recaps'[c] = 1 /\ \A d \in Calls : d # c => recaps'[d] = recaps[d]
      BY <2>2, <2>3, <1>r
    <2>5. Recapping(c)' = {}
      BY <2>1, <2>3 DEF Moves, Recapping
    <2>6. \A d \in Calls : Recapping(d)' \subseteq Recapping(d)
      BY <2>1, <1>m
    <2>. QED BY <2>2, <2>3, <2>4, <2>5, <2>6 DEF OneRecaps
  <1>5. ASSUME NEW i \in Invocations,
               Killed(i) \/ (Serve(i) /\ ~DeliverRecap(i) /\ ~registerWebhookReceipt(i, "ended")
                                      /\ ~registerWebhookReceipt(i, "recorded"))
        PROVE  OneRecaps'
    <2>1. UNCHANGED <<recaps, receipts>>
      BY <1>5 DEF Serve, ReadForRecap, MarkRecap, LookAtJob, ClaimJob, MarkDone, MarkFailed,
         NothingToLink, FindConfirmation, LinkEvidence, Processed, Throw, JobUnwritten, Killed, history
    <2>2. \A c \in Calls : Recapping(c)' \subseteq Recapping(c)
      BY <1>5, <1>m, Movements DEF Serve
    <2>. QED BY <2>1, <2>2, <1>q
  <1>6. UNCHANGED <<invocation, recaps, receipts>> => OneRecaps'
    BY <1>q DEF Recapping
  <1>. QED BY <1>1, <1>2, <1>3, <1>4, <1>5, <1>6, Standing DEF Next, Serve

\* A step leaves the calls an invocation processed, and the attempts begun,
\* where they are or adds to them.
LEMMA Monotone ==
    ASSUME WebhooksTypeOK, WorksOnCall, [Next]_vars
    PROVE  /\ processed \subseteq processed'
           /\ \A c \in Calls : claims[c] <= claims'[c]
           /\ UNCHANGED transport
  <1>t. claims \in [Calls -> 0..MaxAttempts] /\ MaxAttempts \in Nat
    BY WebhooksAssumption DEF WebhooksTypeOK
  <1>a. ASSUME NEW c \in Calls, Attempt(c) PROVE \A d \in Calls : claims[d] <= claims'[d]
    BY <1>a, <1>t DEF Attempt
  <1>w. \A i \in Invocations : invocation[i].op # "idle" => invocation[i].call \in Calls
    BY DEF WorksOnCall
  <1>n. UNCHANGED claims => \A c \in Calls : claims[c] <= claims'[c]
    BY <1>t
  <1>1. ASSUME NEW i \in Invocations, ClaimJob(i) \/ JobUnwritten(i)
        PROVE  \A c \in Calls : claims[c] <= claims'[c]
    <2>1. invocation[i].call \in Calls
      BY <1>1, <1>w DEF ClaimJob, JobUnwritten
    <2>2. UNCHANGED claims \/ Attempt(invocation[i].call)
      BY <1>1 DEF ClaimJob, JobUnwritten
    <2>. QED BY <2>1, <2>2, <1>a, <1>n
  <1>2. ASSUME NEW i \in Invocations, Serve(i) \/ Killed(i)
        PROVE  /\ processed \subseteq processed' /\ UNCHANGED transport
               /\ ~ClaimJob(i) /\ ~JobUnwritten(i) => UNCHANGED claims
    BY <1>2 DEF Serve, registerWebhookReceipt, ReadForRecap, DeliverRecap, MarkRecap, LookAtJob,
       ClaimJob, MarkDone, MarkFailed, NothingToLink, FindConfirmation, LinkEvidence, Processed,
       Throw, JobUnwritten, Killed, history
  <1>3. ASSUME NEW i \in Invocations, NEW c \in Calls,
               CallEnded(i, c) \/ RecordingReady(i, c) \/ CronPicks(i, c)
        PROVE  UNCHANGED <<transport, claims, processed>>
    BY <1>3 DEF CallEnded, RecordingReady, CronPicks, history
  <1>. QED BY <1>1, <1>2, <1>3, <1>n, Standing DEF Next

\* A step either gives no job a status it did not have, but PENDING or
\* PROCESSING, or is one of the two that record how an attempt ended.
LEMMA JobSteps ==
    ASSUME WebhooksTypeOK, WorksOnCall, [Next]_vars
    PROVE  \/ \A c \in Calls : /\ job'[c].status \in {job[c].status, "PENDING", "PROCESSING"}
                               /\ \/ job'[c].attempts = job[c].attempts
                                  \/ \E i \in Invocations : /\ ClaimJob(i) /\ c = invocation[i].call
                                                           /\ job'[c].attempts = invocation[i].seen + 1
           \/ \E i \in Invocations : MarkDone(i) \/ MarkFailed(i)
  <1>t. \A c \in Calls : job[c] \in Job
    BY DEF WebhooksTypeOK
  <1>j. job \in [Calls -> Job]
    BY DEF WebhooksTypeOK
  <1>w. \A i \in Invocations : invocation[i].op # "idle" => invocation[i].call \in Calls
    BY DEF WorksOnCall
  <1>1. ASSUME NEW i \in Invocations, ClaimJob(i)
        PROVE  \A c \in Calls : /\ job'[c].status \in {job[c].status, "PROCESSING"}
                               /\ \/ job'[c].attempts = job[c].attempts
                                  \/ /\ c = invocation[i].call
                                     /\ job'[c].attempts = invocation[i].seen + 1
    BY <1>1, <1>j DEF ClaimJob, Job
  <1>2. ASSUME NEW i \in Invocations,
               Killed(i) \/ (Serve(i) /\ ~ClaimJob(i) /\ ~MarkDone(i) /\ ~MarkFailed(i))
        PROVE  UNCHANGED job
    BY <1>2 DEF Serve, registerWebhookReceipt, ReadForRecap, DeliverRecap, MarkRecap, LookAtJob,
       NothingToLink, FindConfirmation, LinkEvidence, Throw, JobUnwritten, Killed
  <1>3. ASSUME NEW i \in Invocations, NEW c \in Calls,
               CallEnded(i, c) \/ RecordingReady(i, c) \/ CronPicks(i, c)
        PROVE  \A d \in Calls : /\ job'[d].status \in {job[d].status, "PENDING"}
                               /\ job'[d].attempts = job[d].attempts
    <2>1. CASE UNCHANGED job
      BY <2>1
    <2>2. CASE job' = [job EXCEPT ![c] = [@ EXCEPT !.status = "PENDING", !.due = TRUE]]
      BY <2>2, <1>j DEF Job
    <2>. QED BY <1>3, <2>1, <2>2, Beginnings
  <1>4. ASSUME NEW c \in Calls, BackoffPasses(c)
        PROVE  \A d \in Calls : job'[d].status = job[d].status /\ job'[d].attempts = job[d].attempts
    BY <1>4, <1>j DEF BackoffPasses, Job
  <1>5. BookingMoves \/ UNCHANGED vars => UNCHANGED job
    BY DEF BookingMoves, vars
  <1>. QED BY <1>1, <1>2, <1>3, <1>4, <1>5 DEF Next, Serve

LEMMA StepDone == WebhooksTypeOK /\ WorksOnCall /\ DoneWasProcessed /\ [Next]_vars => DoneWasProcessed'
  <1>. SUFFICES ASSUME WebhooksTypeOK, WorksOnCall, DoneWasProcessed, [Next]_vars
                PROVE  DoneWasProcessed'
    OBVIOUS
  <1>j. job \in [Calls -> Job]
    BY DEF WebhooksTypeOK
  <1>p. processed \subseteq processed'
    BY Monotone
  <1>1. ASSUME NEW c \in Calls, job'[c].status = "DONE" PROVE c \in processed'
    <2>1. ASSUME NEW i \in Invocations, MarkDone(i) PROVE c \in processed'
      <3>1. c = invocation[i].call \/ job'[c] = job[c]
        BY <2>1, <1>j DEF MarkDone
      <3>. QED BY <1>1, <1>p, <2>1, <3>1 DEF MarkDone, DoneWasProcessed
    <2>2. ASSUME NEW i \in Invocations, MarkFailed(i) PROVE c \in processed'
      <3>1. job'[c] = job[c] \/ job'[c].status \in {"FAILED", "PENDING"}
        BY <2>2, <1>j DEF MarkFailed, Job
      <3>. QED BY <1>1, <1>p, <3>1 DEF DoneWasProcessed
    <2>. QED BY <1>1, <1>p, <2>1, <2>2, JobSteps DEF DoneWasProcessed
  <1>m. ASSUME NEW i \in Invocations, NEW from, NEW to, Moves(i, from, to),
               "done" \notin to \/ invocation[i].call \in processed'
        PROVE  \A j \in Invocations : invocation'[j].op = "done" => invocation'[j].call \in processed'
    BY <1>m, <1>p DEF Moves, DoneWasProcessed
  <1>2. ASSUME NEW i \in Invocations, Serve(i) \/ Killed(i)
        PROVE  \A j \in Invocations : invocation'[j].op = "done" => invocation'[j].call \in processed'
    <2>1. ASSUME NothingToLink(i) \/ LinkEvidence(i) PROVE invocation[i].call \in processed'
      BY <2>1 DEF NothingToLink, LinkEvidence, Processed
    <2>. QED BY <1>2, <2>1, <1>m, Movements DEF Serve
  <1>3. ASSUME NEW i \in Invocations, NEW c \in Calls,
               CallEnded(i, c) \/ RecordingReady(i, c) \/ CronPicks(i, c)
        PROVE  \A j \in Invocations : invocation'[j].op = "done" => invocation'[j].call \in processed'
    BY <1>3, <1>p, Beginnings DEF DoneWasProcessed
  <1>4. UNCHANGED invocation =>
          \A j \in Invocations : invocation'[j].op = "done" => invocation'[j].call \in processed'
    BY <1>p DEF DoneWasProcessed
  <1>5. \A j \in Invocations : invocation'[j].op = "done" => invocation'[j].call \in processed'
    BY <1>2, <1>3, <1>4, Standing DEF Next
  <1>. QED BY <1>1, <1>5 DEF DoneWasProcessed

\* Only a look at the job changes what an invocation saw of it.
LEMMA SeenStays ==
    ASSUME WebhooksTypeOK, NEW i \in Invocations, Serve(i) \/ Killed(i), ~LookAtJob(i),
           invocation'[i].op # "idle"
    PROVE  invocation'[i].seen = invocation[i].seen
  <1>1. Return(i) \/ \E op \in Op : Go(i, op)
    BY OpsTyped DEF Serve, registerWebhookReceipt, ReadForRecap, DeliverRecap, MarkRecap, ClaimJob,
       MarkDone, MarkFailed, NothingToLink, FindConfirmation, LinkEvidence, Processed, Throw,
       JobUnwritten, Killed
  <1>. QED BY <1>1, ReturnEffect, GoEffect

LEMMA AttemptBegins ==
    ASSUME WebhooksTypeOK, NEW c \in Calls, NEW n \in Nat, Attempt(c), Begun(c, n)
    PROVE  Begun(c, n + 1)'
  <1>1. claims \in [Calls -> 0..MaxAttempts] /\ MaxAttempts \in Nat
    BY WebhooksAssumption DEF WebhooksTypeOK
  <1>2. claims'[c] = IF claims[c] < MaxAttempts THEN claims[c] + 1 ELSE claims[c]
    BY <1>1 DEF Attempt
  <1>. QED BY <1>1, <1>2 DEF Begun

LEMMA BegunStays ==
    ASSUME WebhooksTypeOK, WorksOnCall, [Next]_vars, NEW c \in Calls, NEW n \in Nat, Begun(c, n)
    PROVE  Begun(c, n)'
  <1>1. claims \in [Calls -> 0..MaxAttempts] /\ MaxAttempts \in Nat
    BY WebhooksAssumption DEF WebhooksTypeOK
  <1>2. WebhooksTypeOK'
    BY StepTyped
  <1>3. claims' \in [Calls -> 0..MaxAttempts]
    BY <1>2 DEF WebhooksTypeOK
  <1>. QED BY <1>1, <1>3, Monotone DEF Begun

LEMMA StepFailed == WebhooksTypeOK /\ WorksOnCall /\ FailedWasTried /\ [Next]_vars => FailedWasTried'
  <1>. SUFFICES ASSUME WebhooksTypeOK, WorksOnCall, FailedWasTried, [Next]_vars
                PROVE  FailedWasTried'
    OBVIOUS
  <1>t. /\ job \in [Calls -> Job] /\ claims \in [Calls -> 0..MaxAttempts]
        /\ MaxAttempts \in Nat
        /\ \A i \in Invocations : invocation[i].seen \in Nat
        /\ \A c \in Calls : job[c].attempts \in Nat
    BY WebhooksAssumption DEF WebhooksTypeOK, Job
  <1>t2. claims' \in [Calls -> 0..MaxAttempts]
    <2>1. WebhooksTypeOK'
      BY StepTyped
    <2>. QED BY <2>1 DEF WebhooksTypeOK
  <1>w. \A i \in Invocations : invocation[i].op # "idle" => invocation[i].call \in Calls
    BY DEF WorksOnCall
  <1>gu. \A c \in Calls : claims[c] >= MaxAttempts => claims'[c] >= MaxAttempts
    BY <1>t, <1>t2, Monotone
  <1>1. ASSUME NEW c \in Calls PROVE Begun(c, job[c].attempts)'
    <2>0. Begun(c, job[c].attempts)
      BY DEF FailedWasTried
    <2>1. CASE job'[c].attempts = job[c].attempts
      <3>1. PICK n \in Nat : n = job[c].attempts
        BY <1>t
      <3>2. Begun(c, n)'
        BY <2>0, <3>1, BegunStays
      <3>. QED BY <2>1, <3>1, <3>2 DEF Begun
    <2>2. ASSUME NEW i \in Invocations, ClaimJob(i), c = invocation[i].call,
                 job'[c].attempts = invocation[i].seen + 1
          PROVE  Begun(c, job[c].attempts)'
      <3>1. PICK n \in Nat : n = invocation[i].seen
        BY <1>t
      <3>2. Begun(c, n) /\ Attempt(c)
        BY <2>2, <3>1 DEF ClaimJob, FailedWasTried
      <3>3. Begun(c, n + 1)'
        BY <3>2, AttemptBegins
      <3>. QED BY <2>2, <3>1, <3>3 DEF Begun
    <2>3. ASSUME NEW i \in Invocations, MarkDone(i) \/ MarkFailed(i)
          PROVE  job'[c].attempts = job[c].attempts
      <3>1. CASE MarkDone(i)
        BY <3>1, <1>t DEF MarkDone, Job
      <3>2. CASE MarkFailed(i)
        <4>. DEFINE status == IF invocation[i].seen + 1 >= MaxAttempts THEN "FAILED" ELSE "PENDING"
        <4>1. job' = [job EXCEPT ![invocation[i].call] =
                        [@ EXCEPT !.status = status, !.due = FALSE]]
          BY <3>2 DEF MarkFailed
        <4>. HIDE DEF status
        <4>. QED BY <4>1, <1>t DEF Job
      <3>. QED BY <2>3, <3>1, <3>2
    <2>. QED BY <2>1, <2>2, <2>3, JobSteps
  <1>2. ASSUME NEW c \in Calls, job'[c].status = "FAILED" PROVE claims'[c] >= MaxAttempts
    <2>1. CASE job[c].status = "FAILED"
      BY <2>1, <1>gu DEF FailedWasTried
    <2>2. ASSUME NEW i \in Invocations, MarkFailed(i), job[c].status # "FAILED"
          PROVE  claims'[c] >= MaxAttempts
      <3>1. c = invocation[i].call /\ invocation[i].seen + 1 >= MaxAttempts
        BY <1>2, <2>2, <1>t DEF MarkFailed, Job
      <3>2. Begun(c, invocation[i].seen + 1)
        BY <2>2, <3>1 DEF MarkFailed, FailedWasTried
      <3>3. claims[c] >= MaxAttempts
        BY <1>t, <3>1, <3>2 DEF Begun
      <3>. QED BY <3>3, <1>gu
    <2>3. ASSUME NEW i \in Invocations, MarkDone(i) PROVE job[c].status = "FAILED"
      BY <1>2, <2>3, <1>t DEF MarkDone, Job
    <2>. QED BY <1>2, <2>1, <2>2, <2>3, JobSteps
  <1>. DEFINE Tried(i) ==
           /\ invocation[i].op = "recorded" => transport = "telnyx"
           /\ invocation[i].op = "claim" => Begun(invocation[i].call, invocation[i].seen)
           /\ \/ invocation[i].op \in {"done", "fail"}
              \/ invocation[i].op \in {"process", "link"} /\ transport # "telnyx"
              => Begun(invocation[i].call, invocation[i].seen + 1)
  <1>i. \A i \in Invocations : Tried(i)
    BY DEF FailedWasTried
  <1>u. UNCHANGED transport
    BY Monotone
  <1>3. ASSUME NEW i \in Invocations, invocation'[i] = invocation[i] PROVE Tried(i)'
    <2>1. CASE invocation[i].op = "idle"
      BY <1>3, <2>1
    <2>2. CASE invocation[i].op # "idle"
      <3>1. PICK c \in Calls, n \in Nat : c = invocation[i].call /\ n = invocation[i].seen
        BY <2>2, <1>w, <1>t
      <3>2. n + 1 \in Nat /\ (Begun(c, n) => Begun(c, n)') /\ (Begun(c, n + 1) => Begun(c, n + 1)')
        BY BegunStays
      <3>. QED BY <1>3, <3>1, <3>2, <1>i, <1>u DEF Begun
    <2>. QED BY <2>1, <2>2
  <1>4. ASSUME NEW i \in Invocations, invocation'[i].op \notin {"recorded", "claim", "done", "fail", "process", "link"}
        PROVE  Tried(i)'
    BY <1>4
  <1>5. ASSUME NEW i \in Invocations, Serve(i) \/ Killed(i) PROVE Tried(i)'
    <2>0. invocation[i].op # "idle" /\ invocation[i].call \in Calls
      BY <1>5, <1>w DEF Serve, registerWebhookReceipt, ReadForRecap, DeliverRecap, MarkRecap,
         LookAtJob, ClaimJob, MarkDone, MarkFailed, NothingToLink, FindConfirmation, LinkEvidence,
         Throw, Refused, JobUnwritten, Killed
    <2>1. PICK c \in Calls, n \in Nat : c = invocation[i].call /\ n = invocation[i].seen
      BY <2>0, <1>t
    <2>2. /\ n + 1 \in Nat /\ (Begun(c, n + 1) => Begun(c, n + 1)')
          /\ Attempt(c) /\ Begun(c, n) => Begun(c, n + 1)'
      BY BegunStays, AttemptBegins
    <2>3. CASE LookAtJob(i)
      <3>1. CASE invocation'[i].op = "idle"
        BY <3>1
      <3>2. CASE invocation'[i].op # "idle"
        <4>1. /\ invocation'[i].op = "claim" /\ invocation'[i].call = c
              /\ invocation'[i].seen = job[c].attempts
          BY <2>1, <2>3, <3>2, ReturnEffect DEF LookAtJob, WebhooksTypeOK
        <4>2. PICK m \in Nat : m = job[c].attempts
          BY <1>t
        <4>3. Begun(c, m)'
          BY <4>2, BegunStays DEF FailedWasTried
        <4>. QED BY <4>1, <4>2, <4>3 DEF Begun
      <3>. QED BY <3>1, <3>2
    <2>4. CASE ~LookAtJob(i) /\ invocation'[i].op # "idle"
      <3>1. invocation'[i].seen = n
        BY <1>5, <2>1, <2>4, SeenStays
      <3>2. invocation'[i].call = c /\ invocation'[i].op \notin {"recorded", "claim"}
        BY <1>5, <2>1, <2>4, Movements DEF Moves, Serve
      <3>3. CASE ClaimJob(i) \/ (JobUnwritten(i) /\ invocation[i].op = "claim")
        <4>1. invocation[i].op = "claim" /\ Attempt(c)
          BY <2>1, <3>3 DEF ClaimJob, JobUnwritten
        <4>2. Begun(c, n + 1)'
          BY <2>1, <2>2, <4>1, <1>i
        <4>. QED BY <3>1, <3>2, <4>2 DEF Begun
      <3>4. CASE registerWebhookReceipt(i, "recorded") \/ registerWebhookReceipt(i, "ended")
        <4>1. \/ invocation[i].op = "recorded" /\ invocation'[i].op = "process"
              \/ invocation'[i].op = "recap"
          BY <3>4, <2>4, Movements DEF Moves
        <4>. QED BY <4>1, <1>i, <1>u
      <3>5. CASE ReadForRecap(i) \/ DeliverRecap(i) \/ MarkRecap(i) \/ MarkDone(i) \/ MarkFailed(i)
                 \/ (JobUnwritten(i) /\ invocation[i].op # "claim") \/ Killed(i)
        <4>1. invocation'[i].op \in {"idle", "deliver", "mark"}
          BY <3>5, Movements DEF Moves
        <4>. QED BY <4>1
      <3>6. CASE NothingToLink(i) \/ FindConfirmation(i) \/ LinkEvidence(i) \/ Throw(i)
        <4>1. invocation[i].op \in {"process", "link"} \/ invocation'[i].op \in {"idle", "fail"}
          BY <3>6, Movements DEF Moves
        <4>2. CASE transport # "telnyx" /\ invocation[i].op \in {"process", "link"}
          <5>1. Begun(c, n + 1)'
            BY <2>1, <2>2, <4>2, <1>i
          <5>. QED BY <3>1, <3>2, <5>1 DEF Begun
        <4>3. CASE transport = "telnyx" \/ invocation[i].op \notin {"process", "link"}
          <5>1. invocation'[i].op \in {"idle", "link"} /\ (invocation'[i].op = "link" => transport = "telnyx")
            BY <3>6, <4>3, <2>4, ReturnEffect, GoEffect, OpsTyped
               DEF NothingToLink, FindConfirmation, LinkEvidence, Processed, Throw
          <5>. QED BY <5>1, <1>u
        <4>. QED BY <4>2, <4>3
      <3>. QED BY <1>5, <2>4, <3>3, <3>4, <3>5, <3>6 DEF Serve
    <2>5. CASE invocation'[i].op = "idle"
      BY <2>5
    <2>. QED BY <2>3, <2>4, <2>5
  <1>6. ASSUME NEW i \in Invocations, NEW c \in Calls,
               CallEnded(i, c) \/ RecordingReady(i, c) \/ CronPicks(i, c)
        PROVE  Tried(i)'
    <2>1. invocation'[i].op = "recorded" => transport = "telnyx"
      BY <1>6, BeginEffect, OpsTyped DEF CallEnded, RecordingReady, CronPicks
    <2>. QED BY <1>6, <2>1, <1>u, Beginnings
  <1>7. ASSUME NEW i \in Invocations, Serve(i) \/ Killed(i)
        PROVE  \A j \in Invocations : j # i => invocation'[j] = invocation[j]
    BY <1>7, Movements DEF Moves, Serve
  <1>8. \A i \in Invocations : Tried(i)'
    <2>. SUFFICES ASSUME NEW j \in Invocations PROVE Tried(j)'
      OBVIOUS
    <2>. HIDE DEF Tried
    <2>1. ASSUME NEW i \in Invocations, Serve(i) \/ Killed(i) PROVE Tried(j)'
      BY <2>1, <1>3, <1>5, <1>7
    <2>2. ASSUME NEW i \in Invocations, NEW c \in Calls,
                 CallEnded(i, c) \/ RecordingReady(i, c) \/ CronPicks(i, c)
          PROVE  Tried(j)'
      BY <2>2, <1>3, <1>6, Beginnings
    <2>3. UNCHANGED invocation => Tried(j)'
      BY <1>3
    <2>. QED BY <2>1, <2>2, <2>3, Standing DEF Next
  <1>. QED BY <1>1, <1>2, <1>8 DEF FailedWasTried

(***************************************************************************)
(* The theorems.                                                           *)
(***************************************************************************)
\* The invariant of the webhooks and the recording jobs holds in every state.
THEOREM WebhooksInvariant == Spec => []WebhooksInv
  <1>1. WebhooksInv /\ [Next]_vars => WebhooksInv'
    BY StepTyped, StepWorks, StepRecaps, StepDone, StepFailed DEF WebhooksInv
  <1>. QED BY InitInv, <1>1, PTL DEF Spec

\* Receipts, jobs and invocations keep their types: no attempt is counted and
\* no status written that the job's row does not have.
THEOREM WebhooksTyped == Spec => []WebhooksTypeOK
  <1>1. WebhooksInv => WebhooksTypeOK
    BY DEF WebhooksInv
  <1>. QED BY WebhooksInvariant, <1>1, PTL

\* A call gets one recap at most, a job is DONE only if its call's recording was
\* processed, and given up only after MaxAttempts attempts: however often the
\* provider delivers, whatever overlaps, fails or is killed.
THEOREM WebhooksRecorded == Spec => []WorkIsRecorded
  <1>1. WebhooksInv => WorkIsRecorded
    <2>. SUFFICES ASSUME WebhooksInv, NEW c \in Calls
                  PROVE  /\ recaps[c] <= 1
                         /\ job[c].status = "DONE" => c \in processed
                         /\ job[c].status = "FAILED" => claims[c] >= MaxAttempts
      BY DEF WorkIsRecorded
    <2>1. recaps[c] \in {0, 1}
      BY DEF WebhooksInv, OneRecaps
    <2>2. job[c].status = "DONE" => c \in processed
      BY DEF WebhooksInv, DoneWasProcessed
    <2>3. job[c].status = "FAILED" => claims[c] >= MaxAttempts
      BY DEF WebhooksInv, FailedWasTried
    <2>. QED BY <2>1, <2>2, <2>3
  <1>. QED BY WebhooksInvariant, <1>1, PTL

=============================================================================
