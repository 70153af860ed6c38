--------------------------- MODULE TakeoverProofs ---------------------------
(***************************************************************************)
(* The types of the takeover, that the agent leaves a line only for a      *)
(* human, and that a WhatsApp call is one call however often it is         *)
(* delivered, for any number of handlers, lines, calls and escalations.    *)
(*                                                                         *)
(* A handler keeps the call it works on across its mutations, so the proof *)
(* is about what stays true of that call: it exists (HandlersKnowCalls),   *)
(* it is of the line the handler answers (HandlersNameTheirLine), and once *)
(* a human joined its conference nobody takes the human off it (JoinedIsOn).*)
(* InboundOnce rests on OneAnswers: as long as no two deliveries of a line *)
(* overlapped, the one that answers it is alone and found no call.         *)
(***************************************************************************)
EXTENDS Takeover, FiniteSetTheorems, TLAPS

HandlersKnowCalls ==
    /\ \A h \in Handlers :
          handler[h].op \notin {"idle", "create", "connect"} => handler[h].call \in DOMAIN calls
    /\ escalation.id # 0 => escalation.call \in DOMAIN calls

HandlersNameTheirLine ==
    \A h \in Handlers :
        handler[h].op = "name" => calls[handler[h].call].line = handler[h].line

JoinedIsOn ==
    \A h \in Handlers :
        handler[h].op \in {"joined", "end_agent"} =>
            transport = "twilio" /\ calls[handler[h].call].human = "on"

OneAnswers ==
    transport = "whatsapp" => \A l \in Lines \ overlapped :
        /\ \A h, g \in Answering(l) : h = g
        /\ Answering(l) # {} => NamedCalls(l) = {}
        /\ \A c, d \in NamedCalls(l) : c = d

TakeoverInv ==
    /\ TakeoverTypeOK
    /\ HandlersKnowCalls
    /\ HandlersNameTheirLine
    /\ JoinedIsOn
    /\ AgentLeavesForHuman
    /\ OneAnswers

LEMMA IdleTyped == Idle \in Handler /\ Idle.op = "idle"
  BY TakeoverAssumption DEF Idle, Handler, Op

LEMMA InitInv == Init => TakeoverInv
  <1>. SUFFICES ASSUME Init PROVE TakeoverInv
    OBVIOUS
  <1>1. TakeoverTypeOK
    <2>1. calls \in [1..0 -> Call] /\ 0 \in 0..MaxCalls
      BY TakeoverAssumption DEF Init
    <2>2. NoEscalation \in Escalation
      BY TakeoverAssumption DEF NoEscalation, Escalation
    <2>. QED BY <2>1, <2>2, IdleTyped DEF Init, TakeoverTypeOK, NoEscalation
  <1>2. DOMAIN calls = {} /\ \A h \in Handlers : handler[h].op = "idle"
    BY IdleTyped DEF Init
  <1>3. HandlersKnowCalls /\ HandlersNameTheirLine /\ JoinedIsOn /\ AgentLeavesForHuman
    BY <1>2 DEF Init, NoEscalation, HandlersKnowCalls, HandlersNameTheirLine, JoinedIsOn,
       AgentLeavesForHuman
  <1>4. OneAnswers
    BY <1>2 DEF OneAnswers, Answering, NamedCalls
  <1>. QED BY <1>1, <1>3, <1>4 DEF TakeoverInv

(***************************************************************************)
(* The steps.                                                              *)
(***************************************************************************)
\* A new call has the next number.
LEMMA CallsCounted ==
    ASSUME NEW n \in Nat, calls \in [1..n -> Call]
    PROVE  Cardinality(DOMAIN calls) = n
  <1>1. DOMAIN calls = 1..n
    OBVIOUS
  <1>. QED BY <1>1, FS_Interval

LEMMA CreateEffect ==
    ASSUME TakeoverTypeOK, NEW h \in Handlers, CreateInbound(h)
    PROVE  \E n \in Nat : /\ calls \in [1..n -> Call] /\ n + 1 <= MaxCalls
                          /\ calls' \in [1..(n + 1) -> Call]
                          /\ \A c \in 1..n : calls'[c] = calls[c]
                          /\ calls'[n + 1] = [line |-> handler[h].line, named |-> FALSE,
                                              agent |-> "none", human |-> "none"]
                          /\ handler' = [handler EXCEPT ![h].op = "name", ![h].call = n + 1]
  <1>1. PICK n \in 0..MaxCalls : calls \in [1..n -> Call]
    BY DEF TakeoverTypeOK
  <1>2. n \in Nat /\ Cardinality(DOMAIN calls) = n
    BY <1>1, CallsCounted, TakeoverAssumption
  <1>3. handler[h].line \in Lines
    BY DEF TakeoverTypeOK, Handler
  <1>4. [line |-> handler[h].line, named |-> FALSE, agent |-> "none", human |-> "none"] \in Call
    BY <1>3 DEF Call
  <1>. DEFINE new == [line |-> handler[h].line, named |-> FALSE, agent |-> "none", human |-> "none"]
  <1>5. /\ n + 1 <= MaxCalls
        /\ calls' = [c \in 1..(n + 1) |-> IF c < n + 1 THEN calls[c] ELSE new]
        /\ handler' = [handler EXCEPT ![h].op = "name", ![h].call = n + 1]
    BY <1>2 DEF CreateInbound
  <1>6. \A c \in 1..(n + 1) : (IF c < n + 1 THEN calls[c] ELSE new) \in Call
    BY <1>1, <1>2, <1>4
  <1>7. calls' \in [1..(n + 1) -> Call]
    BY <1>5, <1>6
  <1>8. \A c \in 1..n : calls'[c] = calls[c]
    BY <1>2, <1>5
  <1>9. calls'[n + 1] = new
    BY <1>2, <1>5
  <1>. QED BY <1>1, <1>2, <1>5, <1>7, <1>8, <1>9

\* Types, step by step.
LEMMA StepTyped == TakeoverTypeOK /\ HandlersKnowCalls /\ [Next]_vars => TakeoverTypeOK'
  <1>. SUFFICES ASSUME TakeoverTypeOK, HandlersKnowCalls, [Next]_vars PROVE TakeoverTypeOK'
    OBVIOUS
  <1>. USE TakeoverAssumption
  <1>n. PICK n \in 0..MaxCalls : calls \in [1..n -> Call]
    BY DEF TakeoverTypeOK
  <1>h. ASSUME NEW h \in Handlers, NEW state \in Handler
        PROVE  [handler EXCEPT ![h] = state] \in [Handlers -> Handler]
    BY DEF TakeoverTypeOK
  <1>r. ASSUME NEW h \in Handlers, Return(h) PROVE handler' \in [Handlers -> Handler]
    BY <1>r, <1>h, IdleTyped DEF Return
  <1>g. ASSUME NEW h \in Handlers, NEW op \in Op, Go(h, op) PROVE handler' \in [Handlers -> Handler]
    BY <1>g DEF Go, TakeoverTypeOK, Handler
  <1>b. ASSUME NEW h \in Handlers, NEW state \in Handler, Begin(h, state)
        PROVE  handler' \in [Handlers -> Handler]
    BY <1>b, <1>h DEF Begin
  <1>e. ASSUME NEW c \in DOMAIN calls, createEscalation(c)
        PROVE  escalation' \in Escalation /\ escalation'.call \in DOMAIN calls \union {0}
    BY <1>e, <1>n DEF createEscalation, TakeoverTypeOK, Escalation
  <1>u. ASSUME NEW id, NEW status \in {"OPEN", "DIALING", "CONNECTED"}, updateEscalation(id, status)
        PROVE  escalation' \in Escalation /\ escalation'.call = escalation.call
    BY <1>u DEF updateEscalation, TakeoverTypeOK, Escalation
  <1>c. \A c \in DOMAIN calls : c \in 0..MaxCalls /\ calls[c] \in Call
    BY <1>n
  <1>op. Op = {"idle", "create", "name", "raise", "dialing", "place", "bridge", "connect",
               "joined", "end_agent"}
    BY DEF Op
  <1>1. ASSUME NEW h \in Handlers, NEW l \in Lines, InboundRead(h, l) PROVE TakeoverTypeOK'
    <2>1. [Idle EXCEPT !.op = "create", !.line = l] \in Handler
      BY IdleTyped, <1>op DEF Handler
    <2>. QED BY <1>1, <2>1, <1>b DEF InboundRead, TakeoverTypeOK
  <1>2. ASSUME NEW h \in Handlers, NEW c \in DOMAIN calls, ReportBlockedChange(h, c) PROVE TakeoverTypeOK'
    <2>1. [Idle EXCEPT !.op = "raise", !.call = c] \in Handler
      BY IdleTyped, <1>op, <1>c DEF Handler
    <2>. QED BY <1>2, <2>1, <1>b DEF ReportBlockedChange, TakeoverTypeOK
  <1>3. ASSUME NEW h \in Handlers, NEW c \in DOMAIN calls, HumanJoins(h, c) PROVE TakeoverTypeOK'
    <2>1. [Idle EXCEPT !.op = "joined", !.call = c, !.id = escalation.id] \in Handler
      BY IdleTyped, <1>op, <1>c DEF Handler, TakeoverTypeOK, Escalation
    <2>2. calls' \in [1..n -> Call]
      BY <1>3, <1>n DEF HumanJoins, Call
    <2>. QED BY <1>3, <1>n, <2>1, <2>2, <1>b DEF HumanJoins, TakeoverTypeOK
  <1>4. ASSUME NEW c \in DOMAIN calls, AgentJoins(c) \/ HumanAnswers(c) PROVE TakeoverTypeOK'
    <2>1. calls' \in [1..n -> Call]
      <3>1. CASE AgentJoins(c)
        BY <3>1, <1>n DEF AgentJoins, Call
      <3>2. CASE HumanAnswers(c)
        BY <3>2, <1>n DEF HumanAnswers, Call
      <3>. QED BY <1>4, <3>1, <3>2
    <2>. QED BY <1>4, <1>n, <2>1 DEF AgentJoins, HumanAnswers, TakeoverTypeOK
  <1>5. ASSUME NEW c \in DOMAIN calls, RequestHandoff(c) PROVE TakeoverTypeOK'
    BY <1>5, <1>e DEF RequestHandoff, TakeoverTypeOK
  <1>6. ASSUME NEW h \in Handlers, TakeOverRead(h) PROVE TakeoverTypeOK'
    <2>1. [Idle EXCEPT !.op = "dialing", !.call = escalation.call, !.id = escalation.id] \in Handler
      BY IdleTyped, <1>op DEF Handler, TakeoverTypeOK, Escalation
    <2>. QED BY <1>6, <2>1, <1>b DEF TakeOverRead, TakeoverTypeOK
  <1>7. ASSUME NEW h \in Handlers, ConfirmBrowser(h) PROVE TakeoverTypeOK'
    <2>1. [Idle EXCEPT !.op = "connect", !.call = escalation.call, !.id = escalation.id] \in Handler
      BY IdleTyped, <1>op DEF Handler, TakeoverTypeOK, Escalation
    <2>. QED BY <1>7, <2>1, <1>b DEF ConfirmBrowser, TakeoverTypeOK
  <1>8. ASSUME NEW h \in Handlers, Serve(h) PROVE TakeoverTypeOK'
    <2>1. CASE CreateInbound(h)
      <3>1. PICK m \in Nat : /\ m + 1 <= MaxCalls
                             /\ calls \in [1..m -> Call]
                             /\ calls' \in [1..(m + 1) -> Call]
                             /\ handler' = [handler EXCEPT ![h].op = "name", ![h].call = m + 1]
        BY <2>1, CreateEffect
      <3>2. handler' \in [Handlers -> Handler]
        <4>1. m + 1 \in 0..MaxCalls /\ "name" \in Op
          BY <3>1, <1>op
        <4>. QED BY <3>1, <4>1 DEF TakeoverTypeOK, Handler
      <3>3. \E k \in 0..MaxCalls : calls' \in [1..k -> Call]
        BY <3>1
      <3>4. escalation.call \in DOMAIN calls' \union {0}
        BY <3>1 DEF TakeoverTypeOK
      <3>. QED BY <2>1, <3>2, <3>3, <3>4 DEF CreateInbound, TakeoverTypeOK
    <2>2. CASE NameInbound(h)
      <3>1. calls' \in [1..n -> Call]
        BY <2>2, <1>n DEF NameInbound, Call
      <3>2. handler' \in [Handlers -> Handler]
        BY <2>2, <1>r, <1>g, <1>op DEF NameInbound
      <3>. QED BY <2>2, <1>n, <3>1, <3>2 DEF NameInbound, TakeoverTypeOK
    <2>3. CASE Raise(h)
      <3>1. handler[h].call \in DOMAIN calls
        BY <2>3 DEF Raise, HandlersKnowCalls
      <3>. QED BY <2>3, <3>1, <1>e, <1>r DEF Raise, TakeoverTypeOK
    <2>4. CASE \E next \in {"place", "bridge"} : MarkDialing(h, next)
      BY <2>4, <1>u, <1>g, <1>op DEF MarkDialing, TakeoverTypeOK
    <2>5. CASE PlaceCall(h) \/ ReferCall(h) \/ BridgeBrowser(h) \/ EndAgent(h)
      <3>1. calls' \in [1..n -> Call]
        BY <2>5, <1>n DEF PlaceCall, Ring, ReferCall, BridgeBrowser, EndAgent, Call
      <3>. QED BY <2>5, <1>n, <3>1, <1>r DEF PlaceCall, ReferCall, BridgeBrowser, EndAgent, TakeoverTypeOK
    <2>6. CASE StayInDashboard(h)
      BY <2>6, <1>g, <1>op DEF StayInDashboard, TakeoverTypeOK
    <2>7. CASE Connect(h)
      BY <2>7, <1>u, <1>r DEF Connect, TakeoverTypeOK
    <2>8. CASE MarkJoined(h)
      BY <2>8, <1>u, <1>g, <1>op DEF MarkJoined, TakeoverTypeOK
    <2>9. CASE Fail(h)
      <3>1. failed' \subseteq 1..MaxCalls
        <4>1. handler[h].call \in 0..MaxCalls
          BY DEF TakeoverTypeOK, Handler
        <4>2. failed' \subseteq failed \union ({handler[h].call} \ {0})
          BY <2>9 DEF Fail
        <4>. QED BY <4>1, <4>2 DEF TakeoverTypeOK
      <3>. QED BY <2>9, <3>1, <1>r DEF Fail, TakeoverTypeOK
    <2>. QED
      BY <1>8, <2>1, <2>2, <2>3, <2>4, <2>5, <2>6, <2>7, <2>8, <2>9 DEF Serve
  <1>9. CASE UNCHANGED vars
    BY <1>9 DEF vars, TakeoverTypeOK
  <1>. QED
    BY <1>1, <1>2, <1>3, <1>4, <1>5, <1>6, <1>7, <1>8, <1>9 DEF Next

\* What a step leaves of the calls there are, and of the handlers.
LEMMA StepKnows ==
    TakeoverTypeOK /\ HandlersKnowCalls /\ HandlersNameTheirLine /\ JoinedIsOn /\ [Next]_vars
        => HandlersKnowCalls' /\ HandlersNameTheirLine' /\ JoinedIsOn'
  <1>. SUFFICES ASSUME TakeoverTypeOK, HandlersKnowCalls, HandlersNameTheirLine, JoinedIsOn,
                       [Next]_vars
                PROVE  HandlersKnowCalls' /\ HandlersNameTheirLine' /\ JoinedIsOn'
    OBVIOUS
  <1>. USE DEF HandlersKnowCalls, HandlersNameTheirLine, JoinedIsOn
  <1>n. PICK n \in 0..MaxCalls : calls \in [1..n -> Call]
    BY DEF TakeoverTypeOK
  <1>c. \A c \in DOMAIN calls : calls[c] \in Call /\ c # 0
    BY <1>n
  <1>h. \A h \in Handlers : handler[h] \in Handler
    BY DEF TakeoverTypeOK
  <1>d. DOMAIN handler = Handlers
    BY DEF TakeoverTypeOK
  <1>t. UNCHANGED transport
    BY DEF Next, InboundRead, ReportBlockedChange, HumanJoins, AgentJoins, RequestHandoff,
       HumanAnswers, TakeOverRead, ConfirmBrowser, Serve, CreateInbound, NameInbound, Raise,
       MarkDialing, PlaceCall, ReferCall, StayInDashboard, BridgeBrowser, Connect, MarkJoined,
       EndAgent, Fail, vars
  <1>i. Idle.op = "idle"
    BY IdleTyped
  <1>k. ASSUME NEW h \in Handlers, handler' = [handler EXCEPT ![h] = handler'[h]],
               UNCHANGED escalation \/ escalation'.call \in DOMAIN calls,
               DOMAIN calls' = DOMAIN calls,
               \A c \in DOMAIN calls : /\ calls'[c].line = calls[c].line
                                       /\ (calls[c].human = "on" /\ transport = "twilio") => calls'[c].human = "on",
               \/ handler'[h].op \in {"idle", "create", "connect"}
               \/ /\ handler'[h].call \in DOMAIN calls
                  /\ handler'[h].op # "name"
                  /\ handler'[h].op \in {"joined", "end_agent"} =>
                        transport = "twilio" /\ calls'[handler'[h].call].human = "on"
        PROVE  HandlersKnowCalls' /\ HandlersNameTheirLine' /\ JoinedIsOn'
    <2>1. \A g \in Handlers : g # h => handler'[g] = handler[g]
      BY <1>k, <1>d
    <2>. QED BY <1>k, <1>t, <2>1
  <1>1. ASSUME NEW h \in Handlers, NEW l \in Lines, InboundRead(h, l)
        PROVE  HandlersKnowCalls' /\ HandlersNameTheirLine' /\ JoinedIsOn'
    BY <1>1, <1>k, <1>d, IdleTyped DEF InboundRead, Begin, Handler
  <1>2. ASSUME NEW h \in Handlers, NEW c \in DOMAIN calls, ReportBlockedChange(h, c)
        PROVE  HandlersKnowCalls' /\ HandlersNameTheirLine' /\ JoinedIsOn'
    BY <1>2, <1>k, <1>d, IdleTyped DEF ReportBlockedChange, Begin, Handler
  <1>3. ASSUME NEW h \in Handlers, NEW c \in DOMAIN calls, HumanJoins(h, c)
        PROVE  HandlersKnowCalls' /\ HandlersNameTheirLine' /\ JoinedIsOn'
    <2>1. /\ DOMAIN calls' = DOMAIN calls /\ calls'[c].human = "on"
          /\ \A d \in DOMAIN calls : /\ calls'[d].line = calls[d].line
                                     /\ (calls[d].human = "on" /\ transport = "twilio") => calls'[d].human = "on"
      BY <1>3, <1>c DEF HumanJoins, Call
    <2>2. handler' = [handler EXCEPT ![h] = handler'[h]] /\ handler'[h].op = "joined" /\ handler'[h].call = c
      BY <1>3, <1>d, IdleTyped DEF HumanJoins, Begin, Handler
    <2>. QED BY <1>3, <1>k, <2>1, <2>2 DEF HumanJoins
  <1>4. ASSUME NEW c \in DOMAIN calls, AgentJoins(c) \/ HumanAnswers(c) \/ RequestHandoff(c)
        PROVE  HandlersKnowCalls' /\ HandlersNameTheirLine' /\ JoinedIsOn'
    <2>1. /\ DOMAIN calls' = DOMAIN calls
          /\ \A d \in DOMAIN calls : /\ calls'[d].line = calls[d].line
                                     /\ (calls[d].human = "on" /\ transport = "twilio") => calls'[d].human = "on"
      <3>1. CASE AgentJoins(c)
        BY <3>1, <1>c DEF AgentJoins, Call
      <3>2. CASE HumanAnswers(c)
        BY <3>2, <1>c DEF HumanAnswers, Call
      <3>3. CASE RequestHandoff(c)
        BY <3>3 DEF RequestHandoff
      <3>. QED BY <1>4, <3>1, <3>2, <3>3
    <2>2. UNCHANGED handler /\ (UNCHANGED escalation \/ escalation'.call \in DOMAIN calls)
      BY <1>4 DEF AgentJoins, HumanAnswers, RequestHandoff, createEscalation
    <2>. QED BY <2>1, <2>2, <1>t
  <1>5. ASSUME NEW h \in Handlers, TakeOverRead(h)
        PROVE  HandlersKnowCalls' /\ HandlersNameTheirLine' /\ JoinedIsOn'
    BY <1>5, <1>k, <1>d, IdleTyped DEF TakeOverRead, Begin, Handler
  <1>6. ASSUME NEW h \in Handlers, ConfirmBrowser(h)
        PROVE  HandlersKnowCalls' /\ HandlersNameTheirLine' /\ JoinedIsOn'
    BY <1>6, <1>k, <1>d, IdleTyped DEF ConfirmBrowser, Begin, Handler
  <1>7. ASSUME NEW h \in Handlers, Serve(h)
        PROVE  HandlersKnowCalls' /\ HandlersNameTheirLine' /\ JoinedIsOn'
    <2>r. Return(h) => /\ handler' = [handler EXCEPT ![h] = handler'[h]]
                       /\ handler'[h].op = "idle"
      BY <1>d, <1>i DEF Return
    <2>g. ASSUME NEW op, Go(h, op)
          PROVE  /\ handler' = [handler EXCEPT ![h] = handler'[h]]
                 /\ handler'[h].op = op /\ handler'[h].call = handler[h].call
      BY <2>g, <1>d, <1>h DEF Go, Handler
    <2>e. ASSUME NEW id, NEW status, updateEscalation(id, status)
          PROVE  escalation'.id = escalation.id /\ escalation'.call = escalation.call
      BY <2>e DEF updateEscalation, TakeoverTypeOK, Escalation
    <2>1. CASE CreateInbound(h)
      <3>1. PICK m \in Nat : /\ calls \in [1..m -> Call]
                             /\ calls' \in [1..(m + 1) -> Call]
                             /\ \A c \in 1..m : calls'[c] = calls[c]
                             /\ calls'[m + 1] = [line |-> handler[h].line, named |-> FALSE,
                                                 agent |-> "none", human |-> "none"]
                             /\ handler' = [handler EXCEPT ![h].op = "name", ![h].call = m + 1]
        BY <2>1, CreateEffect
      <3>2. /\ handler'[h].op = "name" /\ handler'[h].call = m + 1
            /\ handler'[h].line = handler[h].line
            /\ \A g \in Handlers : g # h => handler'[g] = handler[g]
        BY <3>1, <1>d, <1>h DEF Handler
      <3>3. \A c \in DOMAIN calls : c \in DOMAIN calls' /\ calls'[c] = calls[c]
        BY <3>1
      <3>4. m + 1 \in DOMAIN calls'
        BY <3>1
      <3>5. UNCHANGED escalation
        BY <2>1 DEF CreateInbound
      <3>6. HandlersKnowCalls'
        BY <3>2, <3>3, <3>4, <3>5
      <3>7. HandlersNameTheirLine'
        <4>1. calls'[m + 1].line = handler[h].line
          BY <3>1
        <4>2. ASSUME NEW g \in Handlers, g # h, handler[g].op = "name"
              PROVE  calls'[handler[g].call].line = handler[g].line
          BY <4>2, <3>3
        <4>. QED BY <3>2, <4>1, <4>2
      <3>8. JoinedIsOn'
        BY <3>2, <3>3, <1>t
      <3>. QED BY <3>6, <3>7, <3>8, <1>t
    <2>2. CASE NameInbound(h)
      <3>1. /\ DOMAIN calls' = DOMAIN calls
            /\ \A d \in DOMAIN calls : /\ calls'[d].line = calls[d].line
                                       /\ calls'[d].human = calls[d].human
        BY <2>2, <1>c DEF NameInbound, Call
      <3>2. handler[h].call \in DOMAIN calls /\ UNCHANGED escalation /\ (Return(h) \/ Go(h, "raise"))
        BY <2>2 DEF NameInbound
      <3>. QED BY <3>1, <3>2, <1>k, <2>r, <2>g
    <2>3. CASE Raise(h)
      <3>1. UNCHANGED escalation \/ escalation'.call \in DOMAIN calls
        BY <2>3 DEF Raise, createEscalation
      <3>. QED BY <2>3, <3>1, <1>k, <2>r DEF Raise
    <2>4. CASE \E next \in {"place", "bridge"} : MarkDialing(h, next)
      <3>1. PICK next \in {"place", "bridge"} : MarkDialing(h, next)
        BY <2>4
      <3>2. handler[h].call \in DOMAIN calls /\ UNCHANGED calls
        BY <3>1 DEF MarkDialing
      <3>3. escalation'.id = escalation.id /\ escalation'.call = escalation.call
        BY <3>1, <2>e DEF MarkDialing
      <3>4. /\ handler' = [handler EXCEPT ![h] = handler'[h]]
            /\ handler'[h].op = next /\ handler'[h].call = handler[h].call
        BY <3>1, <2>g DEF MarkDialing
      <3>5. \A g \in Handlers : g # h => handler'[g] = handler[g]
        BY <3>4, <1>d
      <3>. QED BY <3>2, <3>3, <3>4, <3>5, <1>t
    <2>5. CASE PlaceCall(h) \/ ReferCall(h) \/ BridgeBrowser(h) \/ EndAgent(h)
      <3>1. /\ DOMAIN calls' = DOMAIN calls
            /\ \A d \in DOMAIN calls : /\ calls'[d].line = calls[d].line
                                       /\ (calls[d].human = "on" /\ transport = "twilio") => calls'[d].human = "on"
        <4>1. CASE PlaceCall(h)
          BY <4>1, <1>c DEF PlaceCall, Ring, Call
        <4>2. CASE ReferCall(h)
          BY <4>2, <1>c DEF ReferCall, Call
        <4>3. CASE BridgeBrowser(h)
          BY <4>3, <1>c DEF BridgeBrowser, Call
        <4>4. CASE EndAgent(h)
          BY <4>4, <1>c DEF EndAgent, Call
        <4>. QED BY <2>5, <4>1, <4>2, <4>3, <4>4
      <3>2. Return(h) /\ UNCHANGED escalation
        BY <2>5 DEF PlaceCall, ReferCall, BridgeBrowser, EndAgent
      <3>. QED BY <3>1, <3>2, <1>k, <2>r
    <2>6. CASE StayInDashboard(h)
      BY <2>6, <1>k, <2>g DEF StayInDashboard
    <2>7. CASE Connect(h)
      <3>1. escalation'.id = escalation.id /\ escalation'.call = escalation.call
        BY <2>7, <2>e DEF Connect
      <3>2. /\ UNCHANGED calls /\ handler'[h].op = "idle"
            /\ \A g \in Handlers : g # h => handler'[g] = handler[g]
        BY <2>7, <2>r, <1>d DEF Connect
      <3>. QED BY <3>1, <3>2, <1>t
    <2>8. CASE MarkJoined(h)
      <3>1. escalation'.id = escalation.id /\ escalation'.call = escalation.call
        BY <2>8, <2>e DEF MarkJoined
      <3>2. handler[h].op = "joined" /\ UNCHANGED calls
        BY <2>8 DEF MarkJoined
      <3>3. /\ handler'[h].op = "end_agent" /\ handler'[h].call = handler[h].call
            /\ \A g \in Handlers : g # h => handler'[g] = handler[g]
        BY <2>8, <2>g, <1>d DEF MarkJoined
      <3>. QED BY <3>1, <3>2, <3>3, <1>t
    <2>9. CASE Fail(h)
      BY <2>9, <1>k, <2>r DEF Fail
    <2>. QED
      BY <1>7, <2>1, <2>2, <2>3, <2>4, <2>5, <2>6, <2>7, <2>8, <2>9 DEF Serve
  <1>8. CASE UNCHANGED vars
    BY <1>8, <1>t DEF vars
  <1>. QED
    BY <1>1, <1>2, <1>3, <1>4, <1>5, <1>6, <1>7, <1>8 DEF Next

\* The agent leaves only a line a human was called to.
LEMMA StepLeaves ==
    TakeoverTypeOK /\ HandlersKnowCalls /\ JoinedIsOn /\ AgentLeavesForHuman /\ [Next]_vars
        => AgentLeavesForHuman'
  <1>. SUFFICES ASSUME TakeoverTypeOK, HandlersKnowCalls, JoinedIsOn, AgentLeavesForHuman,
                       [Next]_vars
                PROVE  AgentLeavesForHuman'
    OBVIOUS
  <1>. USE DEF AgentLeavesForHuman
  <1>n. PICK n \in 0..MaxCalls : calls \in [1..n -> Call]
    BY DEF TakeoverTypeOK
  <1>c. \A c \in DOMAIN calls : calls[c] \in Call
    BY <1>n
  <1>q. ASSUME UNCHANGED calls PROVE AgentLeavesForHuman'
    BY <1>q
  <1>1. ASSUME NEW h \in Handlers, NEW l \in Lines, InboundRead(h, l) PROVE AgentLeavesForHuman'
    BY <1>1, <1>q DEF InboundRead
  <1>2. ASSUME NEW h \in Handlers, NEW c \in DOMAIN calls, ReportBlockedChange(h, c)
        PROVE  AgentLeavesForHuman'
    BY <1>2, <1>q DEF ReportBlockedChange
  <1>3. ASSUME NEW h \in Handlers, NEW c \in DOMAIN calls, HumanJoins(h, c)
        PROVE  AgentLeavesForHuman'
    BY <1>3, <1>c DEF HumanJoins, Call
  <1>4. ASSUME NEW c \in DOMAIN calls, AgentJoins(c) \/ HumanAnswers(c) \/ RequestHandoff(c)
        PROVE  AgentLeavesForHuman'
    <2>1. CASE AgentJoins(c)
      BY <2>1, <1>c DEF AgentJoins, Call
    <2>2. CASE HumanAnswers(c)
      BY <2>2, <1>c DEF HumanAnswers, Call
    <2>3. CASE RequestHandoff(c)
      BY <2>3, <1>q DEF RequestHandoff
    <2>. QED BY <1>4, <2>1, <2>2, <2>3
  <1>5. ASSUME NEW h \in Handlers, TakeOverRead(h) \/ ConfirmBrowser(h) PROVE AgentLeavesForHuman'
    BY <1>5, <1>q DEF TakeOverRead, ConfirmBrowser
  <1>6. ASSUME NEW h \in Handlers, Serve(h) PROVE AgentLeavesForHuman'
    <2>1. CASE CreateInbound(h)
      <3>1. PICK m \in Nat : /\ calls \in [1..m -> Call]
                             /\ calls' \in [1..(m + 1) -> Call]
                             /\ \A c \in 1..m : calls'[c] = calls[c]
                             /\ calls'[m + 1] = [line |-> handler[h].line, named |-> FALSE,
                                                 agent |-> "none", human |-> "none"]
        BY <2>1, CreateEffect
      <3>2. calls'[m + 1].agent = "none"
        BY <3>1
      <3>3. ASSUME NEW c \in DOMAIN calls' PROVE c \in DOMAIN calls \/ c = m + 1
        BY <3>1
      <3>4. \A c \in DOMAIN calls : calls'[c] = calls[c]
        BY <3>1
      <3>. QED BY <3>2, <3>3, <3>4
    <2>2. CASE NameInbound(h)
      BY <2>2, <1>c DEF NameInbound, Call
    <2>3. CASE PlaceCall(h)
      BY <2>3, <1>c DEF PlaceCall, Ring, Call
    <2>4. CASE ReferCall(h)
      BY <2>4, <1>c DEF ReferCall, Call
    <2>5. CASE BridgeBrowser(h)
      BY <2>5, <1>c DEF BridgeBrowser, Call
    <2>6. CASE EndAgent(h)
      <3>1. calls[handler[h].call].human = "on"
        BY <2>6 DEF EndAgent, JoinedIsOn
      <3>. QED BY <2>6, <3>1, <1>c DEF EndAgent, Call
    <2>7. CASE UNCHANGED calls
      BY <2>7, <1>q
    <2>. QED
      BY <1>6, <2>1, <2>2, <2>3, <2>4, <2>5, <2>6, <2>7
         DEF Serve, Raise, MarkDialing, StayInDashboard, Connect, MarkJoined, Fail
  <1>7. CASE UNCHANGED vars
    BY <1>7, <1>q DEF vars
  <1>. QED
    BY <1>1, <1>2, <1>3, <1>4, <1>5, <1>6, <1>7 DEF Next

\* Who answers a line, and the calls there are of it.
LEMMA StepOneAnswers ==
    TakeoverTypeOK /\ HandlersKnowCalls /\ HandlersNameTheirLine /\ OneAnswers /\ [Next]_vars
        => OneAnswers'
  <1>. SUFFICES ASSUME TakeoverTypeOK, HandlersKnowCalls, HandlersNameTheirLine, OneAnswers,
                       [Next]_vars, transport' = "whatsapp", NEW l \in Lines \ overlapped'
                PROVE  /\ \A h, g \in Answering(l)' : h = g
                       /\ Answering(l)' # {} => NamedCalls(l)' = {}
                       /\ \A c, d \in NamedCalls(l)' : c = d
    BY DEF OneAnswers
  <1>n. PICK n \in 0..MaxCalls : calls \in [1..n -> Call]
    BY DEF TakeoverTypeOK
  <1>c. \A c \in DOMAIN calls : calls[c] \in Call
    BY <1>n
  <1>h. DOMAIN handler = Handlers /\ \A h \in Handlers : handler[h] \in Handler
    BY DEF TakeoverTypeOK
  <1>t. /\ UNCHANGED transport
        /\ overlapped \subseteq overlapped'
    BY DEF Next, InboundRead, ReportBlockedChange, HumanJoins, AgentJoins, RequestHandoff,
       HumanAnswers, TakeOverRead, ConfirmBrowser, Serve, CreateInbound, NameInbound, Raise,
       MarkDialing, PlaceCall, ReferCall, StayInDashboard, BridgeBrowser, Connect, MarkJoined,
       EndAgent, Fail, vars
  <1>o. /\ \A h, g \in Answering(l) : h = g
        /\ Answering(l) # {} => NamedCalls(l) = {}
        /\ \A c, d \in NamedCalls(l) : c = d
    BY <1>t DEF OneAnswers
  \* Nobody begins to answer, and no call is named.
  <1>q. ASSUME Answering(l)' \subseteq Answering(l), NamedCalls(l)' \subseteq NamedCalls(l)
        PROVE  /\ \A h, g \in Answering(l)' : h = g
               /\ Answering(l)' # {} => NamedCalls(l)' = {}
               /\ \A c, d \in NamedCalls(l)' : c = d
    BY <1>o, <1>q
  <1>s. ASSUME DOMAIN calls' = DOMAIN calls,
               \A c \in DOMAIN calls : /\ calls'[c].line = calls[c].line
                                       /\ calls'[c].named = calls[c].named
        PROVE  NamedCalls(l)' \subseteq NamedCalls(l)
    BY <1>s DEF NamedCalls
  <1>b. ASSUME NEW h \in Handlers, handler' = [handler EXCEPT ![h] = handler'[h]],
               handler'[h].op \notin {"create", "name"}
        PROVE  Answering(l)' \subseteq Answering(l) \ {h}
    BY <1>b, <1>h DEF Answering
  <1>g. ASSUME NEW h \in Handlers, NEW op, Go(h, op)
        PROVE  /\ handler' = [handler EXCEPT ![h] = handler'[h]]
               /\ handler'[h].op = op
    BY <1>g, <1>h DEF Go, Handler
  <1>r. ASSUME NEW h \in Handlers, Return(h)
        PROVE  /\ handler' = [handler EXCEPT ![h] = handler'[h]]
               /\ handler'[h].op = "idle"
    BY <1>r, <1>h, IdleTyped DEF Return
  <1>1. ASSUME NEW h \in Handlers, NEW k \in Lines, InboundRead(h, k)
        PROVE  /\ \A j, g \in Answering(l)' : j = g
               /\ Answering(l)' # {} => NamedCalls(l)' = {}
               /\ \A c, d \in NamedCalls(l)' : c = d
    <2>0. /\ handler'[h].op = "create" /\ handler'[h].line = k
          /\ \A g \in Handlers : g # h => handler'[g] = handler[g]
          /\ UNCHANGED calls
      BY <1>1, <1>h, IdleTyped DEF InboundRead, Begin, Handler
    <2>1. CASE l = k
      <3>1. Answering(l) = {}
        BY <1>1, <2>1 DEF InboundRead
      <3>2. NamedCalls(l) = {} /\ NamedCalls(l)' = NamedCalls(l)
        BY <1>1, <1>t, <2>0, <2>1 DEF InboundRead, deliveredBefore, NamedCalls
      <3>3. Answering(l)' \subseteq {h}
        BY <2>0, <3>1 DEF Answering
      <3>. QED BY <3>2, <3>3
    <2>2. CASE l # k
      <3>1. Answering(l)' \subseteq Answering(l)
        BY <2>0, <2>2 DEF Answering
      <3>2. NamedCalls(l)' = NamedCalls(l)
        BY <2>0 DEF NamedCalls
      <3>. QED BY <3>1, <3>2, <1>q
    <2>. QED BY <2>1, <2>2
  <1>2. ASSUME NEW h \in Handlers, NEW c \in DOMAIN calls, ReportBlockedChange(h, c) \/ HumanJoins(h, c)
        PROVE  /\ \A j, g \in Answering(l)' : j = g
               /\ Answering(l)' # {} => NamedCalls(l)' = {}
               /\ \A b, d \in NamedCalls(l)' : b = d
    <2>1. NamedCalls(l)' \subseteq NamedCalls(l)
      BY <1>2, <1>s, <1>c DEF ReportBlockedChange, HumanJoins, Call
    <2>2. /\ handler' = [handler EXCEPT ![h] = handler'[h]]
          /\ handler'[h].op \in {"raise", "joined"}
      BY <1>2, <1>h, IdleTyped DEF ReportBlockedChange, HumanJoins, Begin, Handler
    <2>. QED BY <2>1, <2>2, <1>b, <1>q
  <1>3. ASSUME NEW c \in DOMAIN calls, AgentJoins(c) \/ HumanAnswers(c) \/ RequestHandoff(c)
        PROVE  /\ \A j, g \in Answering(l)' : j = g
               /\ Answering(l)' # {} => NamedCalls(l)' = {}
               /\ \A b, d \in NamedCalls(l)' : b = d
    <2>1. NamedCalls(l)' \subseteq NamedCalls(l)
      <3>1. CASE AgentJoins(c)
        BY <3>1, <1>s, <1>c DEF AgentJoins, Call
      <3>2. CASE HumanAnswers(c)
        BY <3>2, <1>s, <1>c DEF HumanAnswers, Call
      <3>3. CASE RequestHandoff(c)
        BY <3>3, <1>s DEF RequestHandoff
      <3>. QED BY <1>3, <3>1, <3>2, <3>3
    <2>2. UNCHANGED handler
      BY <1>3 DEF AgentJoins, HumanAnswers, RequestHandoff
    <2>. QED BY <2>1, <2>2, <1>q DEF Answering
  <1>4. ASSUME NEW h \in Handlers, TakeOverRead(h) \/ ConfirmBrowser(h)
        PROVE  /\ \A j, g \in Answering(l)' : j = g
               /\ Answering(l)' # {} => NamedCalls(l)' = {}
               /\ \A b, d \in NamedCalls(l)' : b = d
    <2>1. NamedCalls(l)' \subseteq NamedCalls(l)
      BY <1>4, <1>s DEF TakeOverRead, ConfirmBrowser
    <2>2. /\ handler' = [handler EXCEPT ![h] = handler'[h]]
          /\ handler'[h].op \in {"dialing", "connect"}
      BY <1>4, <1>h, IdleTyped DEF TakeOverRead, ConfirmBrowser, Begin, Handler
    <2>. QED BY <2>1, <2>2, <1>b, <1>q
  <1>5. ASSUME NEW h \in Handlers, Serve(h)
        PROVE  /\ \A j, g \in Answering(l)' : j = g
               /\ Answering(l)' # {} => NamedCalls(l)' = {}
               /\ \A b, d \in NamedCalls(l)' : b = d
    <2>1. CASE CreateInbound(h)
      <3>1. PICK m \in Nat : /\ calls \in [1..m -> Call]
                             /\ calls' \in [1..(m + 1) -> Call]
                             /\ \A c \in 1..m : calls'[c] = calls[c]
                             /\ calls'[m + 1] = [line |-> handler[h].line, named |-> FALSE,
                                                 agent |-> "none", human |-> "none"]
                             /\ handler' = [handler EXCEPT ![h].op = "name", ![h].call = m + 1]
        BY <2>1, CreateEffect
      <3>2. /\ handler[h].op = "create" /\ handler'[h].line = handler[h].line
            /\ \A g \in Handlers : g # h => handler'[g] = handler[g]
        BY <2>1, <3>1, <1>h DEF CreateInbound, Handler
      <3>3. Answering(l)' \subseteq Answering(l)
        BY <3>2 DEF Answering
      <3>4. ASSUME NEW c \in NamedCalls(l)' PROVE c \in NamedCalls(l)
        <4>1. ~calls'[m + 1].named
          BY <3>1
        <4>2. c \in 1..m
          BY <3>1, <4>1 DEF NamedCalls
        <4>. QED BY <3>1, <4>2 DEF NamedCalls
      <3>. QED BY <3>3, <3>4, <1>q
    <2>2. CASE NameInbound(h)
      <3>1. /\ handler' = [handler EXCEPT ![h] = handler'[h]]
            /\ handler'[h].op \in {"idle", "raise"}
        BY <2>2, <1>g, <1>r DEF NameInbound
      <3>2. Answering(l)' \subseteq Answering(l) \ {h}
        BY <3>1, <1>b
      <3>3. /\ handler[h].op = "name" /\ handler[h].call \in DOMAIN calls
            /\ calls[handler[h].call].line = handler[h].line
        BY <2>2 DEF NameInbound, HandlersKnowCalls, HandlersNameTheirLine
      <3>4. /\ DOMAIN calls' = DOMAIN calls
            /\ \A c \in DOMAIN calls : /\ calls'[c].line = calls[c].line
                                       /\ c # handler[h].call => calls'[c] = calls[c]
        BY <2>2, <1>c DEF NameInbound, Call
      <3>5. CASE handler[h].line = l
        <4>1. h \in Answering(l)
          BY <3>3, <3>5 DEF Answering
        <4>2. NamedCalls(l) = {} /\ Answering(l)' = {}
          BY <4>1, <3>2, <1>o
        <4>3. NamedCalls(l)' \subseteq {handler[h].call}
          BY <4>2, <3>4 DEF NamedCalls
        <4>. QED BY <4>2, <4>3
      <3>6. CASE handler[h].line # l
        <4>1. NamedCalls(l)' \subseteq NamedCalls(l)
          BY <3>3, <3>4, <3>6 DEF NamedCalls
        <4>. QED BY <4>1, <3>2, <1>q
      <3>. QED BY <3>5, <3>6
    <2>3. CASE \E next \in {"place", "bridge"} : MarkDialing(h, next)
      <3>1. PICK next \in {"place", "bridge"} : MarkDialing(h, next)
        BY <2>3
      <3>2. Answering(l)' \subseteq Answering(l)
        BY <3>1, <1>g, <1>b DEF MarkDialing
      <3>3. NamedCalls(l)' \subseteq NamedCalls(l)
        BY <3>1, <1>s DEF MarkDialing
      <3>. QED BY <3>2, <3>3, <1>q
    <2>4. CASE PlaceCall(h) \/ ReferCall(h) \/ BridgeBrowser(h) \/ EndAgent(h)
      <3>1. NamedCalls(l)' \subseteq NamedCalls(l)
        <4>1. CASE PlaceCall(h)
          BY <4>1, <1>s, <1>c DEF PlaceCall, Ring, Call
        <4>2. CASE ReferCall(h)
          BY <4>2, <1>s, <1>c DEF ReferCall, Call
        <4>3. CASE BridgeBrowser(h)
          BY <4>3, <1>s, <1>c DEF BridgeBrowser, Call
        <4>4. CASE EndAgent(h)
          BY <4>4, <1>s, <1>c DEF EndAgent, Call
        <4>. QED BY <2>4, <4>1, <4>2, <4>3, <4>4
      <3>2. Answering(l)' \subseteq Answering(l)
        BY <2>4, <1>r, <1>b DEF PlaceCall, ReferCall, BridgeBrowser, EndAgent
      <3>. QED BY <3>1, <3>2, <1>q
    <2>5. CASE StayInDashboard(h) \/ MarkJoined(h)
      <3>1. NamedCalls(l)' \subseteq NamedCalls(l)
        BY <2>5, <1>s DEF StayInDashboard, MarkJoined
      <3>2. Answering(l)' \subseteq Answering(l)
        BY <2>5, <1>g, <1>b DEF StayInDashboard, MarkJoined
      <3>. QED BY <3>1, <3>2, <1>q
    <2>6. CASE Raise(h) \/ Connect(h) \/ Fail(h)
      <3>1. NamedCalls(l)' \subseteq NamedCalls(l)
        BY <2>6, <1>s DEF Raise, Connect, Fail
      <3>2. Answering(l)' \subseteq Answering(l)
        BY <2>6, <1>r, <1>b DEF Raise, Connect, Fail
      <3>. QED BY <3>1, <3>2, <1>q
    <2>. QED BY <1>5, <2>1, <2>2, <2>3, <2>4, <2>5, <2>6 DEF Serve
  <1>6. CASE UNCHANGED vars
    BY <1>6, <1>q DEF vars, Answering, NamedCalls
  <1>. QED
    BY <1>1, <1>2, <1>3, <1>4, <1>5, <1>6 DEF Next

(***************************************************************************)
(* The theorems.                                                           *)
(***************************************************************************)
\* The inductive invariant of the takeover.
THEOREM TakeoverInvariant == Spec => []TakeoverInv
  <1>1. Init => TakeoverInv
    BY InitInv
  <1>2. TakeoverInv /\ [Next]_vars => TakeoverInv'
    BY StepTyped, StepKnows, StepLeaves, StepOneAnswers DEF TakeoverInv
  <1>. QED BY <1>1, <1>2, PTL DEF Spec

\* Type correctness of the calls, the escalation and the handlers.
THEOREM TakeoverTyped == Spec => []TakeoverTypeOK
  <1>1. TakeoverInv => TakeoverTypeOK
    BY DEF TakeoverInv
  <1>. QED BY <1>1, TakeoverInvariant, PTL

\* The agent leaves a line only for a human who was called to that line.
THEOREM TakeoverLeavesForHuman == Spec => []AgentLeavesForHuman
  <1>1. TakeoverInv => AgentLeavesForHuman
    BY DEF TakeoverInv
  <1>. QED BY <1>1, TakeoverInvariant, PTL

\* An incoming WhatsApp call is one call of the operation, unless two of its
\* deliveries overlapped.
THEOREM TakeoverInboundOnce == Spec => []InboundOnce
  <1>1. TakeoverInv => InboundOnce
    <2>. SUFFICES ASSUME TakeoverInv, transport = "whatsapp", NEW l \in Lines, l \notin overlapped
                  PROVE  Cardinality(NamedCalls(l)) <= 1
      BY DEF InboundOnce
    <2>1. \A c, d \in NamedCalls(l) : c = d
      BY DEF TakeoverInv, OneAnswers
    <2>2. CASE NamedCalls(l) = {}
      BY <2>2, FS_EmptySet
    <2>3. ASSUME NEW c \in NamedCalls(l) PROVE Cardinality(NamedCalls(l)) <= 1
      <3>1. NamedCalls(l) = {c}
        BY <2>1
      <3>2. Cardinality({c}) = 1
        BY FS_Singleton
      <3>. QED BY <3>1, <3>2
    <2>. QED BY <2>2, <2>3
  <1>. QED BY <1>1, TakeoverInvariant, PTL

=============================================================================
