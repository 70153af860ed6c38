----------------------------- MODULE Dashboard -----------------------------
(***************************************************************************)
(* The control room in an operator's browser (components/dashboard.tsx)    *)
(* and the routes it calls: what the page shows, what is typed into it,    *)
(* and the requests under way between it and the store.                    *)
(*                                                                         *)
(* The page keeps a copy of the snapshot and a form.  It polls every two   *)
(* seconds whether or not the last poll was answered; a press sends one    *)
(* request, or a save and then a scan.  A request is given up after        *)
(* seventy seconds or when the connection drops, and the server may still  *)
(* carry it out: it then is a write from elsewhere, like those of other    *)
(* pages and of the calls.  A press is a task of the page; two tasks are   *)
(* enough for the one overlap the buttons allow.                           *)
(*                                                                         *)
(* A briefing is one value.  Left out: the viewer's page, which only       *)
(* polls, the WhatsApp panel, and what is drawn.                           *)
(***************************************************************************)
EXTENDS Integers, FiniteSets

CONSTANTS Tasks,        \* presses under way at the same time
          Briefings,
          Seed,         \* the briefing a reset restores
          Invalid,      \* briefings the form and the route's schema turn down
          MaxVersion,
          MaxPolls      \* unanswered polls

ASSUME DashboardAssumption ==
    /\ Tasks \subseteq Nat
    /\ Seed \in Briefings /\ Invalid \subseteq Briefings \ {Seed}
    /\ MaxVersion \in Nat /\ MaxPolls \in Nat \ {0}

VARIABLES server,       \* the snapshot in the store
          view,         \* the page's snapshot
          form, editing, busy,
          polls,        \* answers on their way to the page
          bodies,       \* answers the page has taken, their bodies not read yet
          task,         \* each press: its step, its form, the server's answer
          typed,        \* history: what the operator last left and typed
          scans,        \* history: this page's scans carried out, none excused
          excused,      \* history: a press failed or overlapped another, or a
                        \* poll took the page back in time
          inHand        \* history: a body was unread when the editing began

page == <<view, form, editing, busy, polls, bodies>>
history == <<typed, scans, excused, inHand>>
vars == <<server, page, task, history>>

Snapshot == [version : 0..MaxVersion, briefing : Briefings, quoting : BOOLEAN]
First == [version |-> 0, briefing |-> Seed, quoting |-> FALSE]

\* "delegate" is a save that goes on to a scan; "disturbed" is history: another
\* briefing reached the server since the delegation's save.
Action == {"save", "scan", "book", "reset"}
Task == [step : Action \union {"idle", "delegate"}, payload : Briefings,
         answered : BOOLEAN, data : Snapshot, disturbed : BOOLEAN]
Idle == [step |-> "idle", payload |-> Seed, answered |-> FALSE, data |-> First,
         disturbed |-> FALSE]

DashboardTypeOK ==
    /\ server \in Snapshot /\ view \in Snapshot
    /\ form \in Briefings /\ typed \in Briefings
    /\ editing \in BOOLEAN /\ excused \in BOOLEAN /\ inHand \in BOOLEAN
    /\ busy \in {"null", "save", "delegate", "book", "reset"}
    /\ polls \subseteq Snapshot /\ bodies \subseteq Snapshot
    /\ IsFiniteSet(polls) /\ IsFiniteSet(bodies)
    /\ Cardinality(polls) + Cardinality(bodies) <= MaxPolls
    /\ task \in [Tasks -> Task]
    /\ scans \in 0..2

Init ==
    /\ server = First /\ view = First
    /\ form = Seed /\ typed = Seed /\ editing = FALSE
    /\ busy = "null" /\ polls = {} /\ bodies = {}
    /\ task = [n \in Tasks |-> Idle]
    /\ scans = 0 /\ excused = FALSE /\ inHand = FALSE

\* What the page cannot know excuses the scans that follow, and none is counted.
Excuse(reason) ==
    /\ excused' = (excused \/ reason)
    /\ scans' = IF excused' THEN 0 ELSE scans

(***************************************************************************)
(* The polling effect: it runs while the page is not editing and shows     *)
(* quote calls.  When either changes, answers on their way are ignored.    *)
(***************************************************************************)
hasQuoteCalls == view.quoting
Polling == ~editing /\ hasQuoteCalls

\* Mutant: the effect's cleanup does not cancel.
EffectUncancelled == UNCHANGED polls

\* Ends every step that sets the page's editing or snapshot.
Effect == polls' = IF Polling /\ Polling' THEN polls ELSE {}

\* Mutant: the page polls only until a call has moved the snapshot.
PollAtFirst ==
    /\ Polling /\ view.version < 2
    /\ Cardinality(polls) + Cardinality(bodies) < MaxPolls
    /\ polls' = polls \union {server}
    /\ UNCHANGED <<server, view, form, editing, busy, bodies, task, history>>

\* The interval ticks; the answer is what the store holds when it reads.
Poll ==
    /\ Polling
    /\ Cardinality(polls) + Cardinality(bodies) < MaxPolls
    /\ polls' = polls \union {server}
    /\ UNCHANGED <<server, view, form, editing, busy, bodies, task, history>>

\* Answers arrive in any order.  One that is not ignored by then is taken ...
PollAnswered(data) ==
    /\ data \in polls
    /\ polls' = polls \ {data}
    /\ bodies' = bodies \union {data}
    /\ UNCHANGED <<server, view, form, editing, busy, task, history>>

\* ... and its body, once read, written into the page, whatever the operator
\* has begun meanwhile.
BodyRead(data) ==
    /\ data \in bodies
    /\ bodies' = bodies \ {data}
    /\ view' = data
    /\ form' = data.briefing
    /\ UNCHANGED editing /\ Effect
    /\ Excuse(data.version < view.version)
    /\ UNCHANGED <<server, busy, task, typed, inHand>>

PollFails ==
    /\ \/ \E data \in polls : polls' = polls \ {data} /\ UNCHANGED bodies
       \/ \E data \in bodies : bodies' = bodies \ {data} /\ UNCHANGED polls
    /\ UNCHANGED <<server, view, form, editing, busy, task, history>>

(***************************************************************************)
(* The form.                                                               *)
(***************************************************************************)
\* "Edit briefing", and "Cancel" in its place.
ToggleEditing ==
    /\ busy = "null"
    /\ editing' = ~editing
    /\ form' = IF editing THEN view.briefing ELSE form
    /\ typed' = IF editing' THEN form' ELSE Seed
    /\ inHand' = (editing' /\ bodies # {})
    /\ UNCHANGED view /\ Effect
    /\ UNCHANGED <<server, busy, bodies, task, scans, excused>>

updateBriefing(b) ==
    /\ editing /\ form # b
    /\ form' = b /\ typed' = b
    /\ UNCHANGED <<server, view, editing, busy, polls, bodies, task, scans, excused, inHand>>

validateBriefing(b) == b \notin Invalid

(***************************************************************************)
(* Presses.                                                                *)
(***************************************************************************)
Idling == {n \in Tasks : task[n].step = "idle"}

Press(step) ==
    \E n \in Idling :
       /\ \A m \in Idling : n <= m
       /\ task' = [task EXCEPT ![n] = [Idle EXCEPT !.step = step,
               !.payload = IF step \in {"save", "delegate"} THEN form ELSE Seed]]
       /\ busy' = step
       /\ Excuse(Idling # Tasks)
       /\ UNCHANGED <<server, view, form, editing, polls, bodies, typed, inHand>>

\* The save button is disabled by a save only: it can be pressed while the
\* page delegates, books or resets.
PressSave == editing /\ busy # "save" /\ validateBriefing(form) /\ Press("save")

\* Mutant: the button stays when quote calls are shown.
PressDelegateAgain == busy = "null" /\ validateBriefing(form) /\ Press("delegate")

PressDelegate ==
    busy = "null" /\ ~hasQuoteCalls /\ validateBriefing(form) /\ Press("delegate")

PressReset == busy = "null" /\ Press("reset")

\* Booking, and the like: renegotiating, an inbound exception, a takeover.
PressBook == busy = "null" /\ hasQuoteCalls /\ Press("book")

(***************************************************************************)
(* The server carries requests out, each in one write of the store.        *)
(***************************************************************************)
CarryOut(action, payload) ==
    /\ server.version < MaxVersion
    /\ server' = [version  |-> server.version + 1,
                  briefing |-> CASE action = "save" -> payload
                                 [] action = "reset" -> Seed
                                 [] OTHER -> server.briefing,
                  quoting  |-> CASE action = "scan" -> TRUE
                                 [] action = "reset" -> FALSE
                                 [] OTHER -> server.quoting]

Disturbed(action) ==
    [n \in Tasks |-> [task[n] EXCEPT !.disturbed =
        @ \/ (action \in {"save", "reset"} /\ task[n].step \in {"delegate", "scan"})]]

Serve(n) ==
    LET t == task[n]  action == IF t.step = "delegate" THEN "save" ELSE t.step
    IN  /\ t.step # "idle" /\ ~t.answered
        /\ CarryOut(action, t.payload)
        /\ task' = [Disturbed(action) EXCEPT
                      ![n] = [t EXCEPT !.answered = TRUE, !.data = server',
                                       !.disturbed = @ /\ t.step # "delegate"]]
        /\ scans' = CASE action = "scan" /\ ~excused /\ scans < 2 -> scans + 1
                      [] action = "reset" -> 0
                      [] OTHER -> scans
        /\ UNCHANGED <<page, typed, excused, inHand>>

\* Another page, a request given up, or a call that moves the snapshot on.
Elsewhere(action, payload) ==
    /\ action = "book" => server.quoting
    /\ CarryOut(action, payload)
    /\ task' = Disturbed(action)
    /\ scans' = IF action = "reset" THEN 0 ELSE scans
    /\ UNCHANGED <<page, typed, excused, inHand>>

(***************************************************************************)
(* What a press comes to.                                                  *)
(***************************************************************************)
Finish(n) == busy' = "null" /\ task' = [task EXCEPT ![n] = Idle]

\* Mutant: the scan is asked for whatever the save's answer.
SavedThenScanAnyway(n) ==
    /\ task[n].step = "delegate"
    /\ view' = IF task[n].answered THEN task[n].data ELSE view
    /\ task' = [task EXCEPT ![n].step = "scan", ![n].answered = FALSE, ![n].data = First]
    /\ UNCHANGED editing /\ Effect
    /\ UNCHANGED <<server, form, busy, bodies, history>>

\* saveBriefing(true): the save is answered, the scan is asked for.
SavedThenScan(n) ==
    /\ task[n].step = "delegate" /\ task[n].answered
    /\ view' = task[n].data
    /\ task' = [task EXCEPT ![n].step = "scan", ![n].answered = FALSE, ![n].data = First]
    /\ UNCHANGED editing /\ Effect
    /\ UNCHANGED <<server, form, busy, bodies, history>>

\* The last answer: a save or a scan ends the editing, a reset fills the form.
Answered(n) ==
    LET t == task[n]
    IN  /\ t.step \notin {"idle", "delegate"} /\ t.answered
        /\ view' = t.data
        /\ editing' = (editing /\ t.step \notin {"save", "scan"})
        /\ form' = IF t.step = "reset" THEN t.data.briefing ELSE form
        /\ typed' = CASE ~editing' -> Seed
                      [] t.step = "reset" -> form'
                      [] OTHER -> typed
        /\ inHand' = (inHand /\ editing')
        /\ Finish(n) /\ Effect
        /\ UNCHANGED <<server, bodies, scans, excused>>

\* An error is shown: the server's, a time-out, or a connection lost before or
\* after the server had the request.
Fails(n) ==
    /\ task[n].step # "idle"
    /\ Finish(n)
    /\ Excuse(TRUE)
    /\ UNCHANGED <<server, view, form, editing, polls, bodies, typed, inHand>>

Next ==
    \/ Poll \/ PollFails
    \/ \E data \in polls : PollAnswered(data)
    \/ \E data \in bodies : BodyRead(data)
    \/ ToggleEditing
    \/ \E b \in Briefings : updateBriefing(b)
    \/ PressSave \/ PressDelegate \/ PressReset \/ PressBook
    \/ \E n \in Tasks : Serve(n) \/ SavedThenScan(n) \/ Answered(n) \/ Fails(n)
    \/ \E action \in Action, b \in Briefings \ Invalid : Elsewhere(action, b)

\* A request is answered or given up; polls get through again and again.
Fairness ==
    /\ \A n \in Tasks : WF_vars(SavedThenScan(n) \/ Answered(n) \/ Fails(n))
    /\ WF_vars(Poll)
    /\ WF_vars(PollFails \/ (\E data \in polls : PollAnswered(data))
                        \/ (\E data \in bodies : BodyRead(data)))
    /\ SF_vars(PollAnswered(server)) /\ SF_vars(BodyRead(server))

Spec == Init /\ [][Next]_vars /\ Fairness

(***************************************************************************)
(* Properties.                                                             *)
(***************************************************************************)
\* While the operator edits, the form is what the operator left and typed: no
\* poll writes into it, but one whose body was being read as the editing began.
TypingIsKept == editing => form = typed \/ inHand

\* The calls of a delegation are placed on the briefing saved for it, unless
\* another write reached the server in between.
CallsFollowTheSavedBriefing ==
    [][\A n \in Tasks :
          (task[n].step = "scan" /\ ~task[n].answered /\ task'[n].answered)
             => server.briefing = task[n].payload \/ task[n].disturbed]_vars

\* A page scans the market once between resets, unless a press of it failed or
\* was made while another was under way, or a late answer to a poll took the
\* page back to before the scan.
OneScan == scans <= 1

\* A page that keeps polling ends up showing what the store holds, however its
\* answers were reordered, once the store is at rest.
WatcherConverges == <>[]Polling => <>[](view = server)

=============================================================================
