------------------------------ MODULE Takeover ------------------------------
(***************************************************************************)
(* A human takes over: calls come in and are answered by the agent, the    *)
(* agent or the server asks for a human, the operator takes the escalation *)
(* over, and somebody joins the line the agent then leaves                 *)
(* (services/operations.ts, the takeover, inbound and conference routes,   *)
(* providers/twilio.ts, providers/telnyx.ts, lib/mcp/tools.ts).            *)
(*                                                                         *)
(* Every request runs in a handler, mutation by mutation; handlers         *)
(* interleave, and any of them may fail between two mutations.             *)
(*                                                                         *)
(* Left out: the events and the decisions these handlers also record       *)
(* (Ledger), the status and the end of a call, which no takeover looks at, *)
(* a reset, and what the voice service does inside a transfer or a browser *)
(* bridge (Handoff).  Nothing in the code resolves an escalation.          *)
(***************************************************************************)
EXTENDS Naturals, FiniteSets

CONSTANTS Handlers,        \* requests in flight at the same time
          Lines,           \* incoming calls, as the provider knows them
          Transports,      \* the voice transports a deployment may use
          MaxCalls,        \* bounds on what is ever created
          MaxEscalations

ASSUME TakeoverAssumption ==
    /\ Transports \subseteq {"whatsapp", "telnyx", "twilio", "simulated"}
    /\ Lines # {}
    /\ MaxCalls \in Nat /\ MaxEscalations \in Nat

VARIABLES transport,       \* voiceTransport(), or "simulated" in demo mode
          calls,           \* snapshot.calls, and who is on the line of each
          escalation,      \* snapshot.escalation; id 0 for none
          handler,         \* per handler: what it does next, and on what
          overlapped,      \* history: lines two of whose deliveries overlapped
          failed           \* history: calls a handler failed for

vars == <<transport, calls, escalation, handler, overlapped, failed>>

\* named: the call carries the provider's id of its line.
Call == [line : Lines, named : BOOLEAN,
         agent : {"none", "on", "left"}, human : {"none", "ringing", "on"}]

Escalation == [id : 0..MaxEscalations, call : 0..MaxCalls,
               status : {"OPEN", "DIALING", "CONNECTED"}]
NoEscalation == [id |-> 0, call |-> 0, status |-> "OPEN"]

Op == {"idle", "create", "name", "raise",        \* an incoming call
       "dialing", "place", "bridge", "connect",  \* a takeover
       "joined", "end_agent"}                    \* a human joined the conference
Handler == [op : Op, call : 0..MaxCalls, id : 0..MaxEscalations, line : Lines]

TakeoverTypeOK ==
    /\ transport \in Transports
    /\ \E n \in 0..MaxCalls : calls \in [1..n -> Call]
    /\ escalation \in Escalation
    /\ escalation.call \in DOMAIN calls \cup {0}
    /\ handler \in [Handlers -> Handler]
    /\ overlapped \subseteq Lines
    /\ failed \subseteq 1..MaxCalls

Idle == [op |-> "idle", call |-> 0, id |-> 0, line |-> CHOOSE l \in Lines : TRUE]

Init ==
    /\ transport \in Transports
    /\ calls = <<>>
    /\ escalation = NoEscalation
    /\ handler = [h \in Handlers |-> Idle]
    /\ overlapped = {}
    /\ failed = {}

Begin(h, state) ==
    /\ handler[h] = Idle
    /\ handler' = [handler EXCEPT ![h] = state]

Go(h, op) == handler' = [handler EXCEPT ![h].op = op]
Return(h) == handler' = [handler EXCEPT ![h] = Idle]

(***************************************************************************)
(* Escalations.                                                            *)
(***************************************************************************)
\* A second request for the same call joins the escalation that is live; one
\* for another call takes its place.
createEscalation(c) ==
    IF escalation.call = c THEN UNCHANGED escalation
    ELSE /\ escalation.id < MaxEscalations
         /\ escalation' = [id |-> escalation.id + 1, call |-> c, status |-> "OPEN"]

updateEscalation(id, status) ==
    /\ escalation.id = id
    /\ escalation' = [escalation EXCEPT !.status = status]

\* A handler ends early: the store refuses an escalation that was replaced, a
\* provider refuses, a request times out.
Fail(h) ==
    /\ handler[h] # Idle
    /\ failed' = IF handler[h].call = 0 THEN failed ELSE failed \cup {handler[h].call}
    /\ Return(h)
    /\ UNCHANGED <<transport, calls, escalation, overlapped>>

(***************************************************************************)
(* Incoming calls.                                                         *)
(***************************************************************************)
NamedCalls(l) == {c \in DOMAIN calls : calls[c].line = l /\ calls[c].named}

Answering(l) == {h \in Handlers : handler[h].op \in {"create", "name"} /\ handler[h].line = l}

\* Mutant: a call that a human took over is not found again.
deliveredBeforeByAgent(l) ==
    transport = "whatsapp" /\ \E c \in NamedCalls(l) : calls[c].human = "none"

\* The WhatsApp webhook looks for the call; the others create one regardless.
deliveredBefore(l) == transport = "whatsapp" /\ NamedCalls(l) # {}

InboundRead(h, l) ==
    /\ ~deliveredBefore(l)
    /\ Begin(h, [Idle EXCEPT !.op = "create", !.line = l])
    /\ overlapped' = IF Answering(l) = {} THEN overlapped ELSE overlapped \cup {l}
    /\ UNCHANGED <<transport, calls, escalation, failed>>

CreateInbound(h) ==
    LET c == Cardinality(DOMAIN calls) + 1
    IN  /\ handler[h].op = "create"
        /\ c <= MaxCalls
        /\ calls' = [d \in 1..c |->
              IF d < c THEN calls[d]
              ELSE [line |-> handler[h].line, named |-> FALSE,
                    agent |-> "none", human |-> "none"]]
        /\ handler' = [handler EXCEPT ![h].op = "name", ![h].call = c]
        /\ UNCHANGED <<transport, escalation, overlapped, failed>>

\* The provider's id is written down.  A caller on WhatsApp nobody knows
\* is escalated at once, and so is the demo's simulated exception.
NameInbound(h) ==
    /\ handler[h].op = "name"
    /\ calls' = [calls EXCEPT ![handler[h].call].named = TRUE]
    /\ \/ transport \in {"simulated", "whatsapp"} /\ Go(h, "raise")
       \/ transport # "simulated" /\ Return(h)
    /\ UNCHANGED <<transport, escalation, overlapped, failed>>

Raise(h) ==
    /\ handler[h].op = "raise"
    /\ createEscalation(handler[h].call)
    /\ Return(h)
    /\ UNCHANGED <<transport, calls, overlapped, failed>>

\* The realtime session of the call is accepted, once.
AgentJoins(c) ==
    /\ calls[c].named /\ calls[c].agent = "none" /\ calls[c].human = "none"
    /\ calls' = [calls EXCEPT ![c].agent = "on"]
    /\ UNCHANGED <<transport, escalation, handler, overlapped, failed>>

(***************************************************************************)
(* The agent asks for a human.                                             *)
(***************************************************************************)
\* report_operational_change: the engine blocks the change, writes that down,
\* and escalates (Raise).
ReportBlockedChange(h, c) ==
    /\ calls[c].agent = "on"
    /\ Begin(h, [Idle EXCEPT !.op = "raise", !.call = c])
    /\ UNCHANGED <<transport, calls, escalation, overlapped, failed>>

RequestHandoff(c) ==
    /\ calls[c].agent = "on"
    /\ createEscalation(c)
    /\ UNCHANGED <<transport, calls, handler, overlapped, failed>>

(***************************************************************************)
(* The operator takes over.                                                *)
(***************************************************************************)
TakeOverRead(h) ==
    /\ escalation.id # 0
    /\ Begin(h, [Idle EXCEPT !.op = "dialing", !.call = escalation.call, !.id = escalation.id])
    /\ UNCHANGED <<transport, calls, escalation, overlapped, failed>>

\* takeOver goes on to place a call, the browser's POST to bridge its audio.
MarkDialing(h, next) ==
    /\ handler[h].op = "dialing"
    /\ next = "place" \/ (next = "bridge" /\ transport = "whatsapp")
    /\ updateEscalation(handler[h].id, "DIALING")
    /\ Go(h, next)
    /\ UNCHANGED <<transport, calls, overlapped, failed>>

Ring(c) == calls' = [calls EXCEPT ![c].human = IF @ = "none" THEN "ringing" ELSE @]

\* Twilio rings the operator, who joins the conference; the WhatsApp relay
\* rings the operator and joins the lines when somebody answers.
PlaceCall(h) ==
    /\ handler[h].op = "place"
    /\ transport \in {"twilio", "whatsapp"}
    /\ Ring(handler[h].call)
    /\ Return(h)
    /\ UNCHANGED <<transport, escalation, overlapped, failed>>

\* Telnyx: the agent's live leg is referred to the operator.
ReferCall(h) ==
    LET c == handler[h].call
    IN  /\ handler[h].op = "place"
        /\ transport = "telnyx"
        /\ calls[c].agent = "on"
        /\ calls' = [calls EXCEPT ![c].agent = "left", ![c].human = "ringing"]
        /\ Return(h)
        /\ UNCHANGED <<transport, escalation, overlapped, failed>>

\* Nobody to dial: the handoff stays in the dashboard.
StayInDashboard(h) ==
    /\ handler[h].op = "place"
    /\ transport \in {"whatsapp", "simulated"}
    /\ Go(h, "connect")
    /\ UNCHANGED <<transport, calls, escalation, overlapped, failed>>

\* The voice service joins the browser to the line, in the agent's place.
BridgeBrowser(h) ==
    LET c == handler[h].call
    IN  /\ handler[h].op = "bridge"
        /\ calls' = [calls EXCEPT ![c].human = "on",
                                  ![c].agent = IF @ = "on" THEN "left" ELSE @]
        /\ Return(h)
        /\ UNCHANGED <<transport, escalation, overlapped, failed>>

\* The browser's PATCH, once its audio is up.
ConfirmBrowser(h) ==
    /\ transport = "whatsapp"
    /\ escalation.status = "DIALING"
    /\ Begin(h, [Idle EXCEPT !.op = "connect", !.call = escalation.call, !.id = escalation.id])
    /\ UNCHANGED <<transport, calls, escalation, overlapped, failed>>

Connect(h) ==
    /\ handler[h].op = "connect"
    /\ updateEscalation(handler[h].id, "CONNECTED")
    /\ Return(h)
    /\ UNCHANGED <<transport, calls, overlapped, failed>>

(***************************************************************************)
(* Somebody answers.                                                       *)
(***************************************************************************)
\* A transfer takes the agent off the line as it joins the two legs.
HumanAnswers(c) ==
    /\ transport \in {"whatsapp", "telnyx"}
    /\ calls[c].human = "ringing"
    /\ calls' = [calls EXCEPT ![c].human = "on",
                              ![c].agent = IF @ = "on" THEN "left" ELSE @]
    /\ UNCHANGED <<transport, escalation, handler, overlapped, failed>>

\* The conference reports, once, that a human joined the call.
HumanJoins(h, c) ==
    /\ transport = "twilio"
    /\ calls[c].human = "ringing"
    /\ calls' = [calls EXCEPT ![c].human = "on"]
    /\ Begin(h, [Idle EXCEPT !.op = "joined", !.call = c, !.id = escalation.id])
    /\ UNCHANGED <<transport, escalation, overlapped, failed>>

\* Mutant: with the escalation connected the work is taken for done.
MarkJoinedReturns(h) ==
    /\ handler[h].op = "joined"
    /\ updateEscalation(handler[h].id, "CONNECTED")
    /\ Return(h)
    /\ UNCHANGED <<transport, calls, overlapped, failed>>

\* The escalation that was read is connected, whichever call it is for.
MarkJoined(h) ==
    /\ handler[h].op = "joined"
    /\ updateEscalation(handler[h].id, "CONNECTED")
    /\ Go(h, "end_agent")
    /\ UNCHANGED <<transport, calls, overlapped, failed>>

\* Mutant: the agent of the escalated call leaves.
EndAgentOfEscalation(h) ==
    LET c == escalation.call
    IN  /\ handler[h].op = "end_agent"
        /\ calls' = [calls EXCEPT ![c].agent = IF @ = "on" THEN "left" ELSE @]
        /\ Return(h)
        /\ UNCHANGED <<transport, escalation, overlapped, failed>>

\* The agent of the call the human joined leaves.
EndAgent(h) ==
    LET c == handler[h].call
    IN  /\ handler[h].op = "end_agent"
        /\ calls' = [calls EXCEPT ![c].agent = IF @ = "on" THEN "left" ELSE @]
        /\ Return(h)
        /\ UNCHANGED <<transport, escalation, overlapped, failed>>

(***************************************************************************)
(* The specification.                                                      *)
(***************************************************************************)
Serve(h) ==
    \/ CreateInbound(h)
    \/ NameInbound(h)
    \/ Raise(h)
    \/ \E next \in {"place", "bridge"} : MarkDialing(h, next)
    \/ PlaceCall(h)
    \/ ReferCall(h)
    \/ StayInDashboard(h)
    \/ BridgeBrowser(h)
    \/ Connect(h)
    \/ MarkJoined(h)
    \/ EndAgent(h)
    \/ Fail(h)

Next ==
    \/ \E h \in Handlers, l \in Lines : InboundRead(h, l)
    \/ \E h \in Handlers, c \in DOMAIN calls : ReportBlockedChange(h, c) \/ HumanJoins(h, c)
    \/ \E c \in DOMAIN calls : AgentJoins(c) \/ RequestHandoff(c) \/ HumanAnswers(c)
    \/ \E h \in Handlers : TakeOverRead(h) \/ ConfirmBrowser(h) \/ Serve(h)

\* A request that was taken up comes to an end, if only by its timeout.
Spec == Init /\ [][Next]_vars /\ \A h \in Handlers : WF_vars(Serve(h))

(***************************************************************************)
(* Properties.                                                             *)
(***************************************************************************)
\* The agent leaves a line only for a human who was called to that very line,
\* whichever call is escalated by the time somebody joins: the counterparty is
\* not left with nobody.
AgentLeavesForHuman ==
    \A c \in DOMAIN calls : calls[c].agent = "left" => calls[c].human # "none"

AgentOn(c) == c \in DOMAIN calls /\ calls[c].agent = "on"

\* When a human has joined the conference the agent leaves it, unless the
\* webhook failed, as it does when the escalation was replaced meanwhile.
HumanRelievesAgent ==
    \A c \in 1..MaxCalls :
        (\E h \in Handlers : handler[h].op = "joined" /\ handler[h].call = c)
        ~> (~AgentOn(c) \/ c \in failed)

\* An incoming WhatsApp call is one call of the operation, however often it is
\* delivered, unless two deliveries overlap.
InboundOnce ==
    transport = "whatsapp" =>
        \A l \in Lines : Cardinality(NamedCalls(l)) <= 1 \/ l \in overlapped

=============================================================================
