------------------------------ MODULE Handoff ------------------------------
(***************************************************************************)
(* The call registry of the voice service (services/wacalls/cmd/server):   *)
(* calls placed for an agent, the agent on the line, a browser that takes  *)
(* the line over, and transfers, where a third party is dialed and, on     *)
(* answering, its audio is crossed with the original call's.               *)
(*                                                                         *)
(* HTTP handlers and the handlers of signalling events are goroutines; the *)
(* registry is locked for each of its operations and a call's manager for  *)
(* each of its state changes, including the OnStateChange callback it      *)
(* makes.  OnEnded is called after the manager is unlocked, so it is a     *)
(* step of its own.                                                        *)
(*                                                                         *)
(* Left out: incoming calls, the broker's records, reports (MarketFlow),   *)
(* media, several WhatsApp sessions.                                       *)
(***************************************************************************)
EXTENDS Naturals, FiniteSets

CONSTANTS Calls,           \* provider ids of calls
          Transfers,       \* transfer requests
          None

Leg == Calls \cup {None}
\* activeCall: whether an agent and a browser bridge are attached, peerCallID
\* and bridgeTarget.
Entry == [agent : BOOLEAN, bridge : BOOLEAN, peer : Leg, target : Leg]

ASSUME HandoffAssumption == None \notin Calls /\ None \notin Entry

VARIABLES state,           \* CallInfo.StateData.State, by call
          registry,        \* callRegistry.calls: an entry, or None
          agent,           \* the RealtimeBridge made for the call
          start,           \* what doStartAgentCall does next for the call
          ending,          \* the calls whose OnEnded is still to be called
          transfer         \* what each doTransferCall does next

handoffVars == <<state, registry, agent, start, ending, transfer>>

CallState == {"unused", "Initiating", "Ringing", "Connecting", "Active", "Ended"}
AgentState == {"none", "made", "live", "stopped", "handed_off"}
TransferState == [step : {"idle", "offer", "mark", "dialing", "failed"},
                  original : Leg, dialed : Leg]

NewEntry == [agent |-> FALSE, bridge |-> FALSE, peer |-> None, target |-> None]

registered == {c \in Calls : registry[c] # None}

\* The types, and that a call is registered only while it is one.
HandoffTypeOK ==
    /\ \A c \in registered : state[c] \notin {"unused", "Ended"}
    /\ state \in [Calls -> CallState]
    /\ registry \in [Calls -> Entry \cup {None}]
    /\ agent \in [Calls -> AgentState]
    /\ start \in [Calls -> {"none", "offer", "attach", "connect"}]
    /\ ending \subseteq Calls
    /\ transfer \in [Transfers -> TransferState]

HandoffInit ==
    /\ state = [c \in Calls |-> "unused"]
    /\ registry = [c \in Calls |-> None]
    /\ agent = [c \in Calls |-> "none"]
    /\ start = [c \in Calls |-> "none"]
    /\ ending = {}
    /\ transfer = [t \in Transfers |-> [step |-> "idle", original |-> None, dialed |-> None]]

(***************************************************************************)
(* Pieces of a step.                                                       *)
(***************************************************************************)
\* RealtimeBridge.close: the first of Close and StopForHandoff counts.
Shut(agents, c, how) ==
    [agents EXCEPT ![c] = IF @ \in {"made", "live"} THEN how ELSE @]

\* Mutant: the entry is dropped and the agent forgotten.
removeCallKeepsAgent(c) ==
    /\ registry' = [registry EXCEPT ![c] = None]
    /\ UNCHANGED agent

\* The entry leaves the registry, and closes the agent attached to it.
removeCall(c) ==
    /\ registry' = [registry EXCEPT ![c] = None]
    /\ agent' = IF registry[c] # None /\ registry[c].agent
                THEN Shut(agent, c, "stopped") ELSE agent

\* One leg of a bridged pair: the agent off, the peer on, nothing pending.
joined(entry, peer) ==
    [agent |-> FALSE, bridge |-> entry.bridge, peer |-> peer, target |-> None]

\* Mutant: the pairing is written on the dialed leg only.
linkOneWay(dialed, original) ==
    /\ registry' = [registry EXCEPT
          ![dialed] = joined(@, original),
          ![original] = joined(@, None)]
    /\ agent' = [c \in Calls |->
          IF c \in {dialed, original} /\ registry[c].agent
          THEN Shut(agent, c, "handed_off")[c] ELSE agent[c]]

\* Mutant: the agent is taken off the dialed leg only.
linkDetachesDialed(dialed, original) ==
    /\ registry' = [registry EXCEPT
          ![dialed] = joined(@, original),
          ![original] = [@ EXCEPT !.peer = dialed, !.target = None]]
    /\ agent' = IF registry[dialed].agent THEN Shut(agent, dialed, "handed_off") ELSE agent

\* link, and StopForHandoff on the agents it detached.
link(dialed, original) ==
    /\ registry' = [registry EXCEPT
          ![dialed] = joined(@, original),
          ![original] = joined(@, dialed)]
    /\ agent' = [c \in Calls |->
          IF c \in {dialed, original} /\ registry[c].agent
          THEN Shut(agent, c, "handed_off")[c] ELSE agent[c]]

\* Mutant: an ended call is left to OnEnded.
OnStateChangeKeepsEnded(c, newState) ==
    IF /\ newState = "Active"
       /\ registry[c] # None
       /\ registry[c].target # None
       /\ registry[registry[c].target] # None
    THEN link(c, registry[c].target)
    ELSE UNCHANGED <<registry, agent>>

\* OnStateChange: an ended call leaves the registry; an active one is joined to
\* the call it was dialed for, if that is still there.
OnStateChange(c, newState) ==
    CASE newState = "Ended" -> removeCall(c)
      [] newState = "Active" ->
            IF /\ registry[c] # None
               /\ registry[c].target # None
               /\ registry[registry[c].target] # None
            THEN link(c, registry[c].target)
            ELSE UNCHANGED <<registry, agent>>
      [] OTHER -> UNCHANGED <<registry, agent>>

(***************************************************************************)
(* A call's own life.                                                      *)
(***************************************************************************)
\* The peer accepts; repeated by another of the peer's devices, the accept
\* changes nothing but announces the state again.
RemoteAccepted(c) ==
    /\ c \in registered
    /\ state[c] \in {"Ringing", "Connecting", "Active"}
    /\ state' = [state EXCEPT ![c] = IF @ = "Ringing" THEN "Connecting" ELSE @]
    /\ OnStateChange(c, state'[c])
    /\ UNCHANGED <<start, ending, transfer>>

\* The media relay connects.
MediaConnected(c) ==
    /\ state[c] = "Connecting"
    /\ state' = [state EXCEPT ![c] = "Active"]
    /\ OnStateChange(c, "Active")
    /\ UNCHANGED <<start, ending, transfer>>

\* The peer hangs up or declines (HandleCallTerminate), or somebody here ends
\* the call (EndCall).
Terminate(c) ==
    /\ c \in registered
    /\ state[c] \notin {"unused", "Ended"}
    /\ state' = [state EXCEPT ![c] = "Ended"]
    /\ OnStateChange(c, "Ended")
    /\ ending' = ending \cup {c}
    /\ UNCHANGED <<start, transfer>>

\* OnEnded: unlink, end the peer leg that unlink names, removeCall.
OnEnded(c) ==
    /\ c \in ending
    /\ LET peer == IF registry[c] = None THEN None ELSE registry[c].peer
           others == {p \in {peer} \cap registered : state[p] # "Ended"}
       IN  /\ state' = [p \in Calls |-> IF p \in others THEN "Ended" ELSE state[p]]
           /\ registry' = [p \in Calls |-> IF p \in {c} \cup others THEN None ELSE registry[p]]
           /\ agent' = [p \in Calls |->
                 IF p \in {c} \cup others /\ registry[p] # None /\ registry[p].agent
                 THEN Shut(agent, p, "stopped")[p] ELSE agent[p]]
           /\ ending' = (ending \ {c}) \cup others
    /\ UNCHANGED <<start, transfer>>

(***************************************************************************)
(* doStartAgentCall.                                                       *)
(***************************************************************************)
\* startOutgoing: createCall registers the call and StartCall sends the offer.
StartOutgoing(c) ==
    /\ state[c] = "unused"
    /\ state' = [state EXCEPT ![c] = "Initiating"]
    /\ registry' = [registry EXCEPT ![c] = NewEntry]

\* The offer is acknowledged, unless the call ended while it was under way.
OfferSent(c) ==
    /\ state' = [state EXCEPT ![c] = IF @ = "Initiating" THEN "Ringing" ELSE @]
    /\ OnStateChange(c, state'[c])

OfferFailed(c) ==
    /\ removeCall(c)
    /\ UNCHANGED state

StartAgentCall(c) ==
    /\ StartOutgoing(c)
    /\ start' = [start EXCEPT ![c] = "offer"]
    /\ UNCHANGED <<agent, ending, transfer>>

AgentCallOffered(c) ==
    /\ start[c] = "offer"
    /\ \/ OfferSent(c) /\ start' = [start EXCEPT ![c] = "attach"]
       \/ OfferFailed(c) /\ start' = [start EXCEPT ![c] = "none"]
    /\ UNCHANGED <<ending, transfer>>

\* setAgent; a call that is gone by now gets no agent.
AttachAgent(c) ==
    /\ start[c] = "attach"
    /\ IF c \in registered
       THEN /\ registry' = [registry EXCEPT ![c].agent = TRUE]
            /\ agent' = [agent EXCEPT ![c] = "made"]
            /\ start' = [start EXCEPT ![c] = "connect"]
       ELSE /\ start' = [start EXCEPT ![c] = "none"]
            /\ UNCHANGED <<registry, agent>>
    /\ UNCHANGED <<state, ending, transfer>>

\* agent.Start connects the realtime session, if the agent was not closed
\* meanwhile ...
AgentStarted(c) ==
    /\ start[c] = "connect"
    /\ agent[c] = "made"
    /\ agent' = [agent EXCEPT ![c] = "live"]
    /\ start' = [start EXCEPT ![c] = "none"]
    /\ UNCHANGED <<state, registry, ending, transfer>>

\* ... or fails, and the call is ended (nothing happens to one that has).
AgentFailed(c) ==
    /\ start[c] = "connect"
    /\ start' = [start EXCEPT ![c] = "none"]
    /\ IF state[c] = "Ended" THEN UNCHANGED <<state, ending>>
       ELSE state' = [state EXCEPT ![c] = "Ended"] /\ ending' = ending \cup {c}
    /\ removeCall(c)
    /\ UNCHANGED transfer

(***************************************************************************)
(* Taking a call over.                                                     *)
(***************************************************************************)
\* handoffToBridge, when the operator's browser opens its data channel.
BrowserTakeover(c) ==
    /\ c \in registered
    /\ agent[c] = "live"
    /\ registry' = [registry EXCEPT ![c].agent = FALSE, ![c].bridge = TRUE]
    /\ agent' = IF registry[c].agent THEN Shut(agent, c, "handed_off") ELSE agent
    /\ UNCHANGED <<state, start, ending, transfer>>

\* doTransferCall on a call whose agent was started, so that its id is known
\* to whoever asks; the third party is dialed.
TransferRequest(t, original, dialed) ==
    /\ transfer[t].step = "idle"
    /\ original \in registered
    /\ agent[original] \in {"live", "handed_off"}
    /\ registry[original].peer = None
    /\ StartOutgoing(dialed)
    /\ transfer' = [transfer EXCEPT ![t] =
          [step |-> "offer", original |-> original, dialed |-> dialed]]
    /\ UNCHANGED <<agent, start, ending>>

TransferOffered(t) ==
    LET dialed == transfer[t].dialed
    IN  /\ transfer[t].step = "offer"
        /\ \/ OfferSent(dialed) /\ transfer' = [transfer EXCEPT ![t].step = "mark"]
           \/ OfferFailed(dialed) /\ transfer' = [transfer EXCEPT ![t].step = "failed"]
        /\ UNCHANGED <<start, ending>>

\* markForBridge, once the dialing has returned.
TransferMarked(t) ==
    LET dialed == transfer[t].dialed
    IN  /\ transfer[t].step = "mark"
        /\ IF dialed \in registered
           THEN /\ registry' = [registry EXCEPT ![dialed].target = transfer[t].original]
                /\ transfer' = [transfer EXCEPT ![t].step = "dialing"]
           ELSE /\ transfer' = [transfer EXCEPT ![t].step = "failed"]
                /\ UNCHANGED registry
        /\ UNCHANGED <<state, agent, start, ending>>

CallStep(c) ==
    \/ RemoteAccepted(c)
    \/ MediaConnected(c)
    \/ Terminate(c)
    \/ OnEnded(c)
    \/ StartAgentCall(c)
    \/ AgentCallOffered(c)
    \/ AttachAgent(c)
    \/ AgentStarted(c)
    \/ AgentFailed(c)
    \/ BrowserTakeover(c)

TransferStep(t) ==
    \/ \E original, dialed \in Calls : TransferRequest(t, original, dialed)
    \/ TransferOffered(t)
    \/ TransferMarked(t)

HandoffNext ==
    \/ \E c \in Calls : CallStep(c)
    \/ \E t \in Transfers : TransferStep(t)

HandoffSpec == HandoffInit /\ [][HandoffNext]_handoffVars

(***************************************************************************)
(* Properties.                                                             *)
(***************************************************************************)
bridged == {c \in registered : registry[c].peer # None}

\* Two voices on one line is worse than none: no agent talks on a call whose
\* audio is crossed with another's, or that a browser has taken over.
OneVoice ==
    \A c \in registered :
        (registry[c].peer # None \/ registry[c].bridge) =>
            ~registry[c].agent /\ agent[c] \notin {"made", "live"}

\* A realtime session lives no longer than its call: whichever of the hang-up,
\* a failed start, a takeover or a transfer comes first, the session of a call
\* that left the registry is closed.
NoOrphanSession ==
    \A c \in Calls : agent[c] = "live" => c \in registered /\ registry[c].agent

\* The two legs of a transfer hear each other: a pairing is symmetric as long
\* as both legs are there (link).
PairedBothWays ==
    \A c \in bridged :
        LET p == registry[c].peer
        IN  p \in registered => registry[p].peer = c

\* Whoever hangs up ends the conversation for both: once a call's OnEnded is
\* through, no leg is left on the line paired with it.
WhoeverHangsUpEndsBoth ==
    \A c \in bridged : state[registry[c].peer] = "Ended" => registry[c].peer \in ending

=============================================================================
