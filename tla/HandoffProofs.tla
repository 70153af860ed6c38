--------------------------- MODULE HandoffProofs ---------------------------
(***************************************************************************)
(* Proofs about Handoff, for any number of calls and transfers: its types, *)
(* that no agent talks over a person, that no realtime session outlives    *)
(* its call, and when the legs of transfers are paired with each other.    *)
(*                                                                         *)
(* HandoffInv is the inductive invariant.  The registry and the agents     *)
(* agree on who is attached (AgentIsAttached); the rest says that a call   *)
(* still being started is neither joined nor about to be, so that the      *)
(* agent it is given last does not speak over anybody.                     *)
(***************************************************************************)
EXTENDS Handoff, TLAPS

\* The calls that were placed and that no doStartAgentCall still works on.
Placed == {c \in Calls : state[c] # "unused" /\ start[c] = "none"}

\* An entry holds an agent exactly while the agent is open.
AgentIsAttached ==
    \A c \in Calls :
        (registry[c] # None /\ registry[c].agent) <=> agent[c] \in {"made", "live"}

\* A call not placed yet has no agent; one being started has none yet, or one
\* that has not spoken.
StartIsSilent ==
    \A c \in Calls :
        /\ state[c] = "unused" => start[c] = "none" /\ agent[c] = "none"
        /\ start[c] \in {"offer", "attach"} => agent[c] = "none"
        /\ start[c] = "connect" => agent[c] \in {"made", "stopped"}

TransfersArePlaced ==
    \A t \in Transfers :
        transfer[t].step # "idle" =>
            transfer[t].original \in Placed /\ transfer[t].dialed \in Placed

TargetsArePlaced ==
    \A c \in registered :
        registry[c].target # None => c \in Placed /\ registry[c].target \in Placed

\* A call joined with another, or with a browser, was placed and is silent.
JoinedIsSilent ==
    \A c \in registered :
        (registry[c].peer # None \/ registry[c].bridge) =>
            c \in Placed /\ ~registry[c].agent

HandoffInv ==
    /\ HandoffTypeOK
    /\ AgentIsAttached
    /\ StartIsSilent
    /\ TransfersArePlaced
    /\ TargetsArePlaced
    /\ JoinedIsSilent

LEMMA HandoffInitInv == HandoffInit => HandoffInv
  <1> SUFFICES ASSUME HandoffInit PROVE HandoffInv
    OBVIOUS
  <1> USE HandoffAssumption DEF HandoffInit
  <1>1. HandoffTypeOK
    BY DEF HandoffTypeOK, registered, CallState, AgentState, TransferState, Leg
  <1>2. AgentIsAttached /\ StartIsSilent
    BY DEF AgentIsAttached, StartIsSilent
  <1>3. TransfersArePlaced /\ TargetsArePlaced /\ JoinedIsSilent
    BY DEF TransfersArePlaced, TargetsArePlaced, JoinedIsSilent, registered
  <1> QED BY <1>1, <1>2, <1>3 DEF HandoffInv

LEMMA RemoveCall ==
    ASSUME HandoffInv, NEW c \in Calls, removeCall(c)
    PROVE  /\ registry' \in [Calls -> Entry \cup {None}]
           /\ agent' \in [Calls -> AgentState]
           /\ registry'[c] = None
           /\ \A p \in Calls : p # c => registry'[p] = registry[p] /\ agent'[p] = agent[p]
           /\ AgentIsAttached'
           /\ agent'[c] = agent[c] \/ (agent[c] \in {"made", "live"} /\ agent'[c] = "stopped")
  <1>1. /\ registry \in [Calls -> Entry \cup {None}] /\ agent \in [Calls -> AgentState]
        /\ AgentIsAttached
    BY DEF HandoffInv, HandoffTypeOK
  <1> QED BY <1>1 DEF removeCall, Shut, AgentIsAttached, AgentState

LEMMA Link ==
    ASSUME HandoffInv, NEW d \in registered, NEW o \in registered, link(d, o)
    PROVE  /\ registry' \in [Calls -> Entry \cup {None}]
           /\ agent' \in [Calls -> AgentState]
           /\ registered' = registered
           /\ \A p \in Calls \ {d, o} : registry'[p] = registry[p] /\ agent'[p] = agent[p]
           /\ \A p \in {d, o} : ~registry'[p].agent /\ registry'[p].target = None
           /\ \A p \in {d, o} : registry'[p].bridge = registry[p].bridge
           /\ AgentIsAttached'
           /\ \A p \in Calls : \/ agent'[p] = agent[p]
                               \/ p \in {d, o} /\ agent[p] \in {"made", "live"}
                                               /\ agent'[p] = "handed_off"
  <1>1. /\ registry \in [Calls -> Entry \cup {None}] /\ agent \in [Calls -> AgentState]
        /\ AgentIsAttached
    BY DEF HandoffInv, HandoffTypeOK
  <1>2. d \in Calls /\ o \in Calls /\ registry[d] \in Entry /\ registry[o] \in Entry
    BY <1>1 DEF registered
  <1>3. /\ registry' \in [Calls -> Entry \cup {None}]
        /\ \A p \in {d, o} : /\ registry'[p] \in Entry /\ ~registry'[p].agent
                             /\ registry'[p].target = None
                             /\ registry'[p].bridge = registry[p].bridge
        /\ \A p \in Calls \ {d, o} : registry'[p] = registry[p]
    BY <1>1, <1>2 DEF link, joined, Entry, Leg
  <1>5. agent' = [c \in Calls |->
          IF c \in {d, o} /\ registry[c].agent
          THEN (IF agent[c] \in {"made", "live"} THEN "handed_off" ELSE agent[c])
          ELSE agent[c]]
    BY <1>1 DEF link, Shut
  <1>6. agent' \in [Calls -> AgentState]
    BY <1>1, <1>5 DEF AgentState
  <1>7. registered' = registered
    BY <1>2, <1>3, HandoffAssumption DEF registered
  <1>8. \A p \in Calls : \/ agent'[p] = agent[p]
                         \/ p \in {d, o} /\ agent[p] \in {"made", "live"}
                                         /\ agent'[p] = "handed_off"
    BY <1>5
  <1>9. \A p \in Calls \ {d, o} : agent'[p] = agent[p]
    BY <1>5
  <1>10. \A p \in {d, o} : agent'[p] \notin {"made", "live"}
    BY <1>1, <1>2, <1>5, HandoffAssumption DEF AgentIsAttached
  <1>11. AgentIsAttached'
    BY <1>1, <1>2, <1>3, <1>9, <1>10 DEF AgentIsAttached
  <1> QED BY <1>3, <1>6, <1>7, <1>8, <1>9, <1>11

\* The part of the invariant that is about entries and agents.
EntriesInv ==
    /\ registry \in [Calls -> Entry \cup {None}]
    /\ agent \in [Calls -> AgentState]
    /\ \A c \in registered : state[c] \notin {"unused", "Ended"}
    /\ AgentIsAttached
    /\ StartIsSilent
    /\ TargetsArePlaced
    /\ JoinedIsSilent

\* A call leaves the registry, and its agent is closed.
LEMMA RemovalKeepsEntries ==
    ASSUME HandoffInv, NEW c \in Calls, removeCall(c),
           state' \in [Calls -> CallState],
           \A p \in Calls \ {c} : state'[p] = state[p],
           state[c] # "unused" => state'[c] # "unused",
           UNCHANGED start \/ start' = [start EXCEPT ![c] = "none"]
    PROVE  EntriesInv'
  <1>1. /\ registry' \in [Calls -> Entry \cup {None}]
        /\ agent' \in [Calls -> AgentState]
        /\ registry'[c] = None
        /\ \A p \in Calls : p # c => registry'[p] = registry[p] /\ agent'[p] = agent[p]
        /\ AgentIsAttached'
        /\ agent'[c] = agent[c] \/ (agent[c] \in {"made", "live"} /\ agent'[c] = "stopped")
    BY RemoveCall
  <1>2. start \in [Calls -> {"none", "offer", "attach", "connect"}]
    BY DEF HandoffInv, HandoffTypeOK
  <1>3. registered' = registered \ {c}
    BY <1>1 DEF registered
  <1>4. \A p \in registered' : state'[p] \notin {"unused", "Ended"}
    BY <1>3 DEF HandoffInv, HandoffTypeOK, registered
  <1>5. StartIsSilent'
    BY <1>1, <1>2 DEF StartIsSilent, HandoffInv
  <1>6. Placed \subseteq Placed'
    BY <1>2 DEF Placed
  <1>7. TargetsArePlaced' /\ JoinedIsSilent'
    BY <1>1, <1>3, <1>6 DEF TargetsArePlaced, JoinedIsSilent, HandoffInv, registered
  <1> QED BY <1>1, <1>4, <1>5, <1>7 DEF EntriesInv

\* The registry is left alone by a call that moves on.
LEMMA UntouchedKeepsEntries ==
    ASSUME HandoffInv, UNCHANGED <<registry, agent>>,
           \A p \in Calls : state[p] # "unused" => state'[p] # "unused",
           \A p \in registered : state'[p] # "Ended",
           \A p \in Calls : \/ start'[p] = start[p]
                            \/ start'[p] = "none"
                            \/ start[p] = "offer" /\ start'[p] = "attach"
    PROVE  EntriesInv'
  <1>1. registered' = registered /\ AgentIsAttached'
    BY DEF registered, AgentIsAttached, HandoffInv
  <1>2. Placed \subseteq Placed'
    BY DEF Placed
  <1>3. StartIsSilent'
    BY DEF StartIsSilent, HandoffInv
  <1>4. TargetsArePlaced' /\ JoinedIsSilent'
    BY <1>1, <1>2 DEF TargetsArePlaced, JoinedIsSilent, HandoffInv
  <1>5. \A p \in registered' : state'[p] \notin {"unused", "Ended"}
    BY <1>1 DEF HandoffInv, HandoffTypeOK, registered
  <1>6. /\ registry' \in [Calls -> Entry \cup {None}]
        /\ agent' \in [Calls -> AgentState]
    BY DEF HandoffInv, HandoffTypeOK
  <1> QED BY <1>1, <1>3, <1>4, <1>5, <1>6 DEF EntriesInv

\* Two calls are joined: both were placed, so neither awaits an agent.
LEMMA LinkKeepsEntries ==
    ASSUME HandoffInv, NEW d \in registered, NEW o \in registered, link(d, o),
           d \in Placed, o \in Placed,
           \A p \in Calls : state[p] # "unused" => state'[p] # "unused",
           \A p \in registered : state'[p] # "Ended",
           UNCHANGED start
    PROVE  EntriesInv'
  <1>1. /\ registry' \in [Calls -> Entry \cup {None}]
        /\ agent' \in [Calls -> AgentState]
        /\ registered' = registered
        /\ \A p \in Calls \ {d, o} : registry'[p] = registry[p] /\ agent'[p] = agent[p]
        /\ \A p \in {d, o} : ~registry'[p].agent /\ registry'[p].target = None
        /\ \A p \in {d, o} : registry'[p].bridge = registry[p].bridge
        /\ AgentIsAttached'
        /\ \A p \in Calls : \/ agent'[p] = agent[p]
                            \/ p \in {d, o} /\ agent[p] \in {"made", "live"}
                                            /\ agent'[p] = "handed_off"
    BY Link
  <1>2. Placed \subseteq Placed'
    BY DEF Placed
  <1>3. StartIsSilent'
    BY <1>1 DEF StartIsSilent, HandoffInv, Placed
  <1>4. TargetsArePlaced' /\ JoinedIsSilent'
    BY <1>1, <1>2 DEF TargetsArePlaced, JoinedIsSilent, HandoffInv, registered
  <1>5. \A p \in registered' : state'[p] \notin {"unused", "Ended"}
    BY <1>1 DEF HandoffInv, HandoffTypeOK, registered
  <1> QED BY <1>1, <1>3, <1>4, <1>5 DEF EntriesInv

\* The state of a call changes and the registry reacts; calls being started
\* hold their place, or c's offer was acknowledged.
LEMMA StateChangeKeepsEntries ==
    ASSUME HandoffInv, NEW c \in Calls, NEW s \in CallState \ {"unused"},
           state' = [state EXCEPT ![c] = s], OnStateChange(c, s),
           \/ UNCHANGED start
           \/ start[c] = "offer" /\ start' = [start EXCEPT ![c] = "attach"]
    PROVE  EntriesInv'
  <1>1. /\ state \in [Calls -> CallState]
        /\ registry \in [Calls -> Entry \cup {None}]
        /\ start \in [Calls -> {"none", "offer", "attach", "connect"}]
    BY DEF HandoffInv, HandoffTypeOK
  <1>2. state' \in [Calls -> CallState] /\ (\A p \in Calls \ {c} : state'[p] = state[p])
    BY <1>1
  <1>3. \A p \in Calls : state[p] # "unused" => state'[p] # "unused"
    BY <1>1
  <1>4. CASE s = "Ended"
    <2>1. removeCall(c)
      BY <1>4 DEF OnStateChange
    <2>2. CASE UNCHANGED start
      BY <1>2, <1>3, <2>1, <2>2, RemovalKeepsEntries
    <2>3. CASE start[c] = "offer" /\ start' = [start EXCEPT ![c] = "attach"]
      <3>1. /\ registry' \in [Calls -> Entry \cup {None}]
            /\ agent' \in [Calls -> AgentState]
            /\ registry'[c] = None
            /\ \A p \in Calls : p # c => registry'[p] = registry[p] /\ agent'[p] = agent[p]
            /\ AgentIsAttached'
            /\ agent'[c] = agent[c]
        BY <2>1, <2>3, RemoveCall DEF HandoffInv, StartIsSilent
      <3>2. registered' = registered \ {c}
        BY <3>1 DEF registered
      <3>3. \A p \in registered' : state'[p] \notin {"unused", "Ended"}
        BY <1>2, <3>2 DEF HandoffInv, HandoffTypeOK, registered
      <3>4. StartIsSilent'
        BY <1>1, <1>3, <2>3, <3>1 DEF StartIsSilent, HandoffInv
      <3>5. Placed \subseteq Placed'
        BY <1>1, <1>3, <2>3 DEF Placed
      <3>6. TargetsArePlaced' /\ JoinedIsSilent'
        BY <3>1, <3>2, <3>5 DEF TargetsArePlaced, JoinedIsSilent, HandoffInv, registered
      <3> QED BY <3>1, <3>3, <3>4, <3>6 DEF EntriesInv
    <2> QED BY <2>2, <2>3
  <1>5. CASE /\ s = "Active"
             /\ registry[c] # None
             /\ registry[c].target # None
             /\ registry[registry[c].target] # None
    <2>1. link(c, registry[c].target)
      BY <1>5 DEF OnStateChange
    <2>2. c \in registered /\ c \in Placed /\ registry[c].target \in Placed
      BY <1>5 DEF HandoffInv, TargetsArePlaced, registered
    <2>3. registry[c].target \in registered
      BY <1>5, <2>2 DEF registered, Placed
    <2>4. UNCHANGED start
      BY <2>2 DEF Placed
    <2>5. \A p \in registered : state'[p] # "Ended"
      BY <1>1, <1>5 DEF HandoffInv, HandoffTypeOK, registered
    <2> QED BY <1>3, <2>1, <2>2, <2>3, <2>4, <2>5, LinkKeepsEntries
  <1>6. CASE /\ s # "Ended"
             /\ ~ /\ s = "Active"
                  /\ registry[c] # None
                  /\ registry[c].target # None
                  /\ registry[registry[c].target] # None
    <2>1. UNCHANGED <<registry, agent>>
      BY <1>6 DEF OnStateChange
    <2>2. \A p \in registered : state'[p] # "Ended"
      BY <1>1, <1>6 DEF HandoffInv, HandoffTypeOK, registered
    <2>3. \A p \in Calls : \/ start'[p] = start[p]
                           \/ start'[p] = "none"
                           \/ start[p] = "offer" /\ start'[p] = "attach"
      BY <1>1
    <2> QED BY <1>3, <2>1, <2>2, <2>3, UntouchedKeepsEntries
  <1> QED BY <1>4, <1>5, <1>6

\* What is left to show of a step: the types of the other variables, and that
\* its transfers are of placed calls.
LEMMA Assemble ==
    ASSUME HandoffInv, EntriesInv',
           state' \in [Calls -> CallState],
           start' \in [Calls -> {"none", "offer", "attach", "connect"}],
           ending' \subseteq Calls,
           transfer' \in [Transfers -> TransferState],
           TransfersArePlaced'
    PROVE  HandoffInv'
  BY DEF HandoffInv, HandoffTypeOK, EntriesInv

\* A step of a call leaves the transfers as they are.
LEMMA AssembleCallStep ==
    ASSUME HandoffInv, EntriesInv',
           state' \in [Calls -> CallState],
           \A p \in Calls : state[p] # "unused" => state'[p] # "unused",
           start' \in [Calls -> {"none", "offer", "attach", "connect"}],
           \A p \in Calls : start[p] = "none" /\ state[p] # "unused" => start'[p] = "none",
           ending' \subseteq Calls,
           UNCHANGED transfer
    PROVE  HandoffInv'
  <1>1. Placed \subseteq Placed'
    BY DEF Placed
  <1>2. TransfersArePlaced'
    BY <1>1 DEF TransfersArePlaced, HandoffInv
  <1>3. transfer' \in [Transfers -> TransferState]
    BY DEF HandoffInv, HandoffTypeOK
  <1> QED BY <1>2, <1>3, Assemble

(***************************************************************************)
(* One lemma for each group of actions.                                    *)
(***************************************************************************)
LEMMA StateChangeStep ==
    ASSUME HandoffInv, NEW c \in Calls, NEW s \in CallState \ {"unused"},
           state' = [state EXCEPT ![c] = s], OnStateChange(c, s),
           ending' \subseteq Calls, UNCHANGED <<start, transfer>>
    PROVE  HandoffInv'
  <1>1. /\ state \in [Calls -> CallState]
        /\ start \in [Calls -> {"none", "offer", "attach", "connect"}]
    BY DEF HandoffInv, HandoffTypeOK
  <1>2. EntriesInv'
    BY StateChangeKeepsEntries
  <1> QED BY <1>1, <1>2, AssembleCallStep

LEMMA OnEndedStep ==
    ASSUME HandoffInv, NEW c \in Calls, OnEnded(c)
    PROVE  HandoffInv'
  <1> DEFINE peer == IF registry[c] = None THEN None ELSE registry[c].peer
  <1> DEFINE others == {p \in {peer} \cap registered : state[p] # "Ended"}
  <1> DEFINE gone == {c} \cup others
  <1>1. /\ state \in [Calls -> CallState]
        /\ registry \in [Calls -> Entry \cup {None}]
        /\ agent \in [Calls -> AgentState]
        /\ start \in [Calls -> {"none", "offer", "attach", "connect"}]
        /\ ending \subseteq Calls
    BY DEF HandoffInv, HandoffTypeOK
  <1>2. gone \subseteq Calls
    BY DEF registered
  <1>3. /\ state' = [p \in Calls |-> IF p \in others THEN "Ended" ELSE state[p]]
        /\ registry' = [p \in Calls |-> IF p \in gone THEN None ELSE registry[p]]
        /\ agent' = [p \in Calls |->
              IF p \in gone /\ registry[p] # None /\ registry[p].agent
              THEN Shut(agent, p, "stopped")[p] ELSE agent[p]]
        /\ ending' = (ending \ {c}) \cup others
        /\ UNCHANGED <<start, transfer>>
    BY DEF OnEnded
  <1> HIDE DEF others
  <1>4. agent' = [p \in Calls |->
              IF p \in gone /\ registry[p] # None /\ registry[p].agent /\ agent[p] \in {"made", "live"}
              THEN "stopped" ELSE agent[p]]
    BY <1>1, <1>3 DEF Shut
  <1> HIDE DEF gone
  <1>5. registered' = registered \ gone
    BY <1>3 DEF registered
  <1>6. AgentIsAttached'
    BY <1>1, <1>3, <1>4 DEF AgentIsAttached, HandoffInv
  <1>7. StartIsSilent'
    BY <1>1, <1>3, <1>4 DEF StartIsSilent, HandoffInv
  <1>8. /\ registry' \in [Calls -> Entry \cup {None}]
        /\ agent' \in [Calls -> AgentState]
        /\ state' \in [Calls -> CallState]
    BY <1>1, <1>3, <1>4 DEF AgentState, CallState
  <1>9. \A p \in registered' : state'[p] \notin {"unused", "Ended"}
    BY <1>1, <1>3, <1>5 DEF HandoffInv, HandoffTypeOK, registered, gone
  <1>10. \A p \in Calls : state[p] # "unused" => state'[p] # "unused"
    BY <1>3
  <1>11. Placed \subseteq Placed'
    BY <1>3, <1>10 DEF Placed
  <1>12. TargetsArePlaced' /\ JoinedIsSilent'
    BY <1>3, <1>5, <1>11 DEF TargetsArePlaced, JoinedIsSilent, HandoffInv, registered
  <1>13. EntriesInv'
    BY <1>6, <1>7, <1>8, <1>9, <1>12 DEF EntriesInv
  <1>14. ending' \subseteq Calls
    BY <1>1, <1>2, <1>3 DEF gone
  <1> QED BY <1>1, <1>3, <1>8, <1>10, <1>13, <1>14, AssembleCallStep

\* createCall, for an agent's call or for a transfer's leg: the new entry is
\* empty, so its call has neither agent nor peer.
LEMMA StartOutgoingKeepsEntries ==
    ASSUME HandoffInv, NEW c \in Calls, StartOutgoing(c), UNCHANGED agent,
           UNCHANGED start \/ start' = [start EXCEPT ![c] = "offer"]
    PROVE  EntriesInv' /\ state' \in [Calls -> CallState] /\ Placed \subseteq Placed'
  <1>1. /\ state \in [Calls -> CallState]
        /\ registry \in [Calls -> Entry \cup {None}]
        /\ agent \in [Calls -> AgentState]
        /\ start \in [Calls -> {"none", "offer", "attach", "connect"}]
    BY DEF HandoffInv, HandoffTypeOK
  <1>2. /\ state[c] = "unused"
        /\ state' = [state EXCEPT ![c] = "Initiating"]
        /\ registry' = [registry EXCEPT ![c] = NewEntry]
    BY DEF StartOutgoing
  <1>3. c \notin registered /\ agent[c] = "none" /\ start[c] = "none"
    BY <1>2 DEF HandoffInv, HandoffTypeOK, StartIsSilent
  <1>4. NewEntry \in Entry /\ NewEntry # None
    <2>1. NewEntry \in Entry
      BY DEF NewEntry, Entry, Leg
    <2> QED BY <2>1, HandoffAssumption
  <1>5. state' \in [Calls -> CallState] /\ registry' \in [Calls -> Entry \cup {None}]
    BY <1>1, <1>2, <1>4 DEF CallState
  <1>6. registered' = registered \cup {c}
    BY <1>1, <1>2, <1>4 DEF registered
  <1>7. AgentIsAttached'
    BY <1>1, <1>2, <1>3 DEF AgentIsAttached, HandoffInv, NewEntry
  <1>8. Placed \subseteq Placed'
    BY <1>1, <1>2 DEF Placed
  <1>10. StartIsSilent'
    BY <1>1, <1>2, <1>3 DEF StartIsSilent, HandoffInv
  <1>11. TargetsArePlaced' /\ JoinedIsSilent'
    BY <1>1, <1>2, <1>3, <1>6, <1>8 DEF TargetsArePlaced, JoinedIsSilent, HandoffInv, registered, NewEntry
  <1>12. \A p \in registered' : state'[p] \notin {"unused", "Ended"}
    BY <1>1, <1>2, <1>6 DEF HandoffInv, HandoffTypeOK, registered
  <1> QED BY <1>1, <1>5, <1>7, <1>8, <1>10, <1>11, <1>12 DEF EntriesInv

LEMMA AgentCallStep ==
    ASSUME HandoffInv, NEW c \in Calls,
           \/ StartAgentCall(c)
           \/ AgentCallOffered(c)
           \/ AttachAgent(c)
           \/ AgentStarted(c)
           \/ AgentFailed(c)
    PROVE  HandoffInv'
  <1>1. /\ state \in [Calls -> CallState]
        /\ registry \in [Calls -> Entry \cup {None}]
        /\ agent \in [Calls -> AgentState]
        /\ start \in [Calls -> {"none", "offer", "attach", "connect"}]
        /\ ending \subseteq Calls
        /\ registered \subseteq Calls
    BY DEF HandoffInv, HandoffTypeOK, registered
  <1>2. CASE StartAgentCall(c)
    <2>1. /\ StartOutgoing(c) /\ start' = [start EXCEPT ![c] = "offer"]
          /\ UNCHANGED <<agent, ending, transfer>> /\ state[c] = "unused"
      BY <1>2 DEF StartAgentCall, StartOutgoing
    <2>2. EntriesInv' /\ state' \in [Calls -> CallState]
      BY <2>1, StartOutgoingKeepsEntries
    <2>3. \A p \in Calls : state[p] # "unused" => state'[p] # "unused"
      BY <1>1, <2>1 DEF StartOutgoing
    <2> QED BY <1>1, <2>1, <2>2, <2>3, AssembleCallStep
  <1>3. CASE AgentCallOffered(c)
    <2>1. start[c] = "offer" /\ state[c] # "unused" /\ UNCHANGED <<ending, transfer>>
      BY <1>3 DEF AgentCallOffered, HandoffInv, StartIsSilent
    <2>2. CASE OfferSent(c) /\ start' = [start EXCEPT ![c] = "attach"]
      <3> DEFINE s == IF state[c] = "Initiating" THEN "Ringing" ELSE state[c]
      <3>1. s \in CallState \ {"unused"}
        BY <1>1, <2>1 DEF CallState
      <3>2. state' = [state EXCEPT ![c] = s] /\ state'[c] = s
        BY <1>1, <2>2 DEF OfferSent
      <3>3. OnStateChange(c, s)
        BY <2>2, <3>2 DEF OfferSent
      <3> HIDE DEF s
      <3>4. EntriesInv'
        BY <2>1, <2>2, <3>1, <3>2, <3>3, StateChangeKeepsEntries
      <3> QED BY <1>1, <2>1, <2>2, <3>1, <3>2, <3>4, AssembleCallStep
    <2>3. CASE OfferFailed(c) /\ start' = [start EXCEPT ![c] = "none"]
      <3>1. removeCall(c) /\ UNCHANGED state
        BY <2>3 DEF OfferFailed
      <3>2. EntriesInv'
        BY <1>1, <2>3, <3>1, RemovalKeepsEntries
      <3> QED BY <1>1, <2>1, <2>3, <3>1, <3>2, AssembleCallStep
    <2> QED BY <1>3, <2>2, <2>3 DEF AgentCallOffered
  <1>4. CASE AttachAgent(c)
    <2>1. /\ start[c] = "attach" /\ state[c] # "unused" /\ agent[c] = "none" /\ c \notin Placed
          /\ UNCHANGED <<state, ending, transfer>>
      BY <1>4 DEF AttachAgent, HandoffInv, StartIsSilent, Placed
    <2>2. CASE c \in registered
      <3>1. /\ registry' = [registry EXCEPT ![c].agent = TRUE]
            /\ agent' = [agent EXCEPT ![c] = "made"]
            /\ start' = [start EXCEPT ![c] = "connect"]
        BY <1>4, <2>2 DEF AttachAgent
      <3>2. registry[c] \in Entry
        BY <1>1, <2>2 DEF registered
      <3>3. /\ registry' \in [Calls -> Entry \cup {None}] /\ registry'[c] \in Entry
            /\ registry'[c].agent
            /\ registry'[c].peer = registry[c].peer /\ registry'[c].bridge = registry[c].bridge
            /\ registry'[c].target = registry[c].target
            /\ \A p \in Calls \ {c} : registry'[p] = registry[p]
        BY <1>1, <3>1, <3>2 DEF Entry
      <3>4. registry'[c] # None
        BY <3>3, HandoffAssumption
      <3>5. registered' = registered
        BY <2>2, <3>3, <3>4 DEF registered
      <3>6. agent' \in [Calls -> AgentState]
        BY <1>1, <3>1 DEF AgentState
      <3>7. AgentIsAttached'
        BY <1>1, <3>1, <3>3, <3>4 DEF AgentIsAttached, HandoffInv
      <3>8. StartIsSilent'
        BY <1>1, <2>1, <3>1 DEF StartIsSilent, HandoffInv
      <3>9. Placed \subseteq Placed'
        BY <1>1, <2>1, <3>1 DEF Placed
      <3>10. TargetsArePlaced' /\ JoinedIsSilent'
        BY <2>1, <3>3, <3>5, <3>9 DEF TargetsArePlaced, JoinedIsSilent, HandoffInv, registered
      <3>11. EntriesInv'
        BY <2>1, <3>3, <3>5, <3>6, <3>7, <3>8, <3>10 DEF EntriesInv, HandoffInv, HandoffTypeOK
      <3> QED BY <1>1, <2>1, <3>1, <3>11, AssembleCallStep
    <2>3. CASE c \notin registered
      <3>1. start' = [start EXCEPT ![c] = "none"] /\ UNCHANGED <<registry, agent>>
        BY <1>4, <2>3 DEF AttachAgent
      <3>2. \A p \in registered : state'[p] # "Ended"
        BY <2>1 DEF HandoffInv, HandoffTypeOK
      <3>3. EntriesInv'
        BY <1>1, <2>1, <3>1, <3>2, UntouchedKeepsEntries
      <3> QED BY <1>1, <2>1, <3>1, <3>3, AssembleCallStep
    <2> QED BY <2>2, <2>3
  <1>5. CASE AgentStarted(c)
    <2>1. /\ start[c] = "connect" /\ agent[c] = "made"
          /\ agent' = [agent EXCEPT ![c] = "live"]
          /\ start' = [start EXCEPT ![c] = "none"]
          /\ UNCHANGED <<state, registry, ending, transfer>>
      BY <1>5 DEF AgentStarted
    <2>2. registered' = registered /\ Placed \subseteq Placed'
      BY <1>1, <2>1 DEF registered, Placed
    <2>3. AgentIsAttached' /\ agent' \in [Calls -> AgentState]
      BY <1>1, <2>1 DEF AgentIsAttached, AgentState, HandoffInv
    <2>4. StartIsSilent'
      BY <1>1, <2>1 DEF StartIsSilent, HandoffInv
    <2>5. TargetsArePlaced' /\ JoinedIsSilent'
      BY <2>1, <2>2 DEF TargetsArePlaced, JoinedIsSilent, HandoffInv
    <2>6. EntriesInv'
      BY <1>1, <2>1, <2>2, <2>3, <2>4, <2>5 DEF EntriesInv, HandoffInv, HandoffTypeOK
    <2> QED BY <1>1, <2>1, <2>6, AssembleCallStep
  <1>6. CASE AgentFailed(c)
    <2>1. /\ start[c] = "connect" /\ state[c] # "unused"
          /\ start' = [start EXCEPT ![c] = "none"]
          /\ removeCall(c) /\ UNCHANGED transfer
      BY <1>6 DEF AgentFailed, HandoffInv, StartIsSilent
    <2>2. /\ state' = [state EXCEPT ![c] = "Ended"] \/ UNCHANGED state
          /\ ending' \subseteq Calls
      BY <1>1, <1>6 DEF AgentFailed
    <2>3. /\ state' \in [Calls -> CallState]
          /\ \A p \in Calls \ {c} : state'[p] = state[p]
          /\ state'[c] # "unused"
      BY <1>1, <2>1, <2>2 DEF CallState
    <2>4. EntriesInv'
      BY <2>1, <2>3, RemovalKeepsEntries
    <2> QED BY <1>1, <2>1, <2>2, <2>3, <2>4, AssembleCallStep
  <1> QED BY <1>2, <1>3, <1>4, <1>5, <1>6

LEMMA BrowserTakeoverStep ==
    ASSUME HandoffInv, NEW c \in Calls, BrowserTakeover(c)
    PROVE  HandoffInv'
  <1>1. /\ state \in [Calls -> CallState]
        /\ registry \in [Calls -> Entry \cup {None}]
        /\ agent \in [Calls -> AgentState]
        /\ start \in [Calls -> {"none", "offer", "attach", "connect"}]
        /\ ending \subseteq Calls
    BY DEF HandoffInv, HandoffTypeOK
  <1>2. c \in registered /\ agent[c] = "live" /\ UNCHANGED <<state, start, ending, transfer>>
    BY DEF BrowserTakeover
  <1>3. registry[c] # None /\ registry[c] \in Entry /\ registry[c].agent
    BY <1>1, <1>2 DEF registered, AgentIsAttached, HandoffInv
  <1>4. /\ registry' \in [Calls -> Entry \cup {None}] /\ registry'[c] \in Entry
        /\ ~registry'[c].agent
        /\ registry'[c].target = registry[c].target
        /\ \A p \in Calls \ {c} : registry'[p] = registry[p]
    BY <1>1, <1>3 DEF BrowserTakeover, Entry
  <1>5. agent' = [agent EXCEPT ![c] = "handed_off"]
    BY <1>2, <1>3 DEF BrowserTakeover, Shut
  <1>6. registered' = registered
    BY <1>2, <1>4, HandoffAssumption DEF registered
  <1>7. c \in Placed /\ Placed' = Placed
    BY <1>1, <1>2 DEF Placed, HandoffInv, StartIsSilent
  <1>8. AgentIsAttached' /\ agent' \in [Calls -> AgentState]
    BY <1>1, <1>4, <1>5 DEF AgentIsAttached, AgentState, HandoffInv
  <1>9. StartIsSilent'
    BY <1>1, <1>2, <1>5 DEF StartIsSilent, HandoffInv
  <1>10. TargetsArePlaced' /\ JoinedIsSilent'
    BY <1>4, <1>6, <1>7 DEF TargetsArePlaced, JoinedIsSilent, HandoffInv, registered
  <1>11. EntriesInv'
    BY <1>2, <1>4, <1>6, <1>8, <1>9, <1>10 DEF EntriesInv, HandoffInv, HandoffTypeOK
  <1> QED BY <1>1, <1>2, <1>11, AssembleCallStep

LEMMA TransferStepKeepsInv ==
    ASSUME HandoffInv, NEW t \in Transfers, TransferStep(t)
    PROVE  HandoffInv'
  <1>1. /\ state \in [Calls -> CallState]
        /\ registry \in [Calls -> Entry \cup {None}]
        /\ agent \in [Calls -> AgentState]
        /\ start \in [Calls -> {"none", "offer", "attach", "connect"}]
        /\ ending \subseteq Calls
        /\ transfer \in [Transfers -> TransferState]
        /\ TransfersArePlaced
    BY DEF HandoffInv, HandoffTypeOK
  <1> DEFINE dialed == transfer[t].dialed
  <1>2. ASSUME NEW original \in Calls, NEW leg \in Calls, TransferRequest(t, original, leg)
        PROVE  HandoffInv'
    <2>1. /\ StartOutgoing(leg) /\ UNCHANGED <<agent, start, ending>>
          /\ original \in registered /\ agent[original] \in {"live", "handed_off"}
          /\ transfer' = [transfer EXCEPT ![t] =
                            [step |-> "offer", original |-> original, dialed |-> leg]]
      BY <1>2 DEF TransferRequest
    <2>2. EntriesInv' /\ state' \in [Calls -> CallState] /\ Placed \subseteq Placed'
      BY <2>1, StartOutgoingKeepsEntries
    <2>3. original \in Placed /\ start[leg] = "none"
      BY <1>1, <2>1 DEF Placed, HandoffInv, StartIsSilent, StartOutgoing
    <2>4. leg \in Placed'
      BY <1>1, <2>1, <2>3 DEF Placed, StartOutgoing
    <2>5. transfer' \in [Transfers -> TransferState]
      BY <1>1, <2>1 DEF TransferState, Leg
    <2>6. TransfersArePlaced'
      BY <1>1, <2>1, <2>2, <2>3, <2>4 DEF TransfersArePlaced
    <2> QED BY <1>1, <2>1, <2>2, <2>5, <2>6, Assemble
  <1>3. CASE TransferOffered(t)
    <2>1. /\ transfer[t].step = "offer" /\ UNCHANGED <<start, ending>>
          /\ dialed \in Placed
          /\ \/ OfferSent(dialed) /\ transfer' = [transfer EXCEPT ![t].step = "mark"]
             \/ OfferFailed(dialed) /\ transfer' = [transfer EXCEPT ![t].step = "failed"]
      BY <1>1, <1>3 DEF TransferOffered, TransfersArePlaced
    <2>2. dialed \in Calls /\ state[dialed] # "unused"
      BY <2>1 DEF Placed
    <2> HIDE DEF dialed
    <2>3. EntriesInv' /\ state' \in [Calls -> CallState]
          /\ \A p \in Calls : state[p] # "unused" => state'[p] # "unused"
      <3>1. CASE OfferSent(dialed)
        <4> DEFINE s == IF state[dialed] = "Initiating" THEN "Ringing" ELSE state[dialed]
        <4>1. s \in CallState \ {"unused"}
          BY <1>1, <2>2 DEF CallState
        <4>2. state' = [state EXCEPT ![dialed] = s] /\ state'[dialed] = s
          BY <1>1, <2>2, <3>1 DEF OfferSent
        <4>3. OnStateChange(dialed, s)
          BY <3>1, <4>2 DEF OfferSent
        <4> HIDE DEF s
        <4>4. EntriesInv'
          BY <2>1, <2>2, <4>1, <4>2, <4>3, StateChangeKeepsEntries
        <4> QED BY <1>1, <2>2, <4>1, <4>2, <4>4
      <3>2. CASE OfferFailed(dialed)
        <4>1. removeCall(dialed) /\ UNCHANGED state
          BY <3>2 DEF OfferFailed
        <4>2. EntriesInv'
          BY <1>1, <2>1, <2>2, <4>1, RemovalKeepsEntries
        <4> QED BY <1>1, <4>1, <4>2
      <3> QED BY <2>1, <3>1, <3>2
    <2>4. Placed \subseteq Placed'
      BY <2>1, <2>3 DEF Placed
    <2>5. transfer' \in [Transfers -> TransferState]
      BY <1>1, <2>1 DEF TransferState
    <2>6. /\ transfer'[t].original = transfer[t].original
          /\ transfer'[t].dialed = transfer[t].dialed
          /\ \A u \in Transfers \ {t} : transfer'[u] = transfer[u]
      BY <1>1, <2>1 DEF TransferState
    <2>7. TransfersArePlaced'
      BY <1>1, <2>1, <2>4, <2>6 DEF TransfersArePlaced
    <2> QED BY <1>1, <2>1, <2>3, <2>5, <2>7, Assemble
  <1>4. CASE TransferMarked(t)
    <2>1. /\ transfer[t].step = "mark" /\ UNCHANGED <<state, agent, start, ending>>
          /\ dialed \in Placed /\ transfer[t].original \in Placed
          /\ transfer[t].original \in Leg
      BY <1>1, <1>4 DEF TransferMarked, TransfersArePlaced, TransferState
    <2>2. Placed' = Placed
      BY <2>1 DEF Placed
    <2>3. \/ transfer' = [transfer EXCEPT ![t].step = "dialing"]
          \/ transfer' = [transfer EXCEPT ![t].step = "failed"]
      BY <1>4 DEF TransferMarked
    <2>4. transfer' \in [Transfers -> TransferState]
      BY <1>1, <2>3 DEF TransferState
    <2>5. /\ transfer'[t].original = transfer[t].original
          /\ transfer'[t].dialed = transfer[t].dialed
          /\ \A u \in Transfers \ {t} : transfer'[u] = transfer[u]
      BY <1>1, <2>3 DEF TransferState
    <2>6. TransfersArePlaced'
      BY <1>1, <2>1, <2>2, <2>5 DEF TransfersArePlaced
    <2>7. CASE dialed \in registered
      <3>1. registry' = [registry EXCEPT ![dialed].target = transfer[t].original]
        BY <1>4, <2>7 DEF TransferMarked
      <3>2. dialed \in Calls /\ registry[dialed] \in Entry
        BY <1>1, <2>7 DEF registered
      <3> HIDE DEF dialed
      <3>3. /\ registry' \in [Calls -> Entry \cup {None}] /\ registry'[dialed] \in Entry
            /\ registry'[dialed].agent = registry[dialed].agent
            /\ registry'[dialed].peer = registry[dialed].peer
            /\ registry'[dialed].bridge = registry[dialed].bridge
            /\ registry'[dialed].target = transfer[t].original
            /\ \A p \in Calls \ {dialed} : registry'[p] = registry[p]
        BY <1>1, <2>1, <3>1, <3>2 DEF Entry
      <3>4. registered' = registered /\ registry[dialed] # None /\ registry'[dialed] # None
        BY <2>7, <3>3, HandoffAssumption DEF registered
      <3>5. AgentIsAttached'
        BY <2>1, <3>3, <3>4 DEF AgentIsAttached, HandoffInv
      <3>6. StartIsSilent'
        BY <2>1 DEF StartIsSilent, HandoffInv
      <3>7. TargetsArePlaced' /\ JoinedIsSilent'
        BY <2>1, <2>2, <2>7, <3>3, <3>4 DEF TargetsArePlaced, JoinedIsSilent, HandoffInv, registered
      <3>8. EntriesInv'
        BY <1>1, <2>1, <3>3, <3>4, <3>5, <3>6, <3>7 DEF EntriesInv, HandoffInv, HandoffTypeOK
      <3> QED BY <1>1, <2>1, <2>4, <2>6, <3>8, Assemble
    <2>8. CASE dialed \notin registered
      <3>1. UNCHANGED registry
        BY <1>4, <2>8 DEF TransferMarked
      <3>2. \A p \in registered : state'[p] # "Ended"
        BY <2>1 DEF HandoffInv, HandoffTypeOK
      <3>3. EntriesInv'
        BY <2>1, <3>1, <3>2, UntouchedKeepsEntries
      <3> QED BY <1>1, <2>1, <2>4, <2>6, <3>3, Assemble
    <2> QED BY <2>7, <2>8
  <1> QED BY <1>2, <1>3, <1>4 DEF TransferStep

LEMMA CallStepKeepsInv ==
    ASSUME HandoffInv, NEW c \in Calls, CallStep(c)
    PROVE  HandoffInv'
  <1>1. state \in [Calls -> CallState] /\ ending \subseteq Calls
    BY DEF HandoffInv, HandoffTypeOK
  <1>2. CASE RemoteAccepted(c)
    <2> DEFINE s == IF state[c] = "Ringing" THEN "Connecting" ELSE state[c]
    <2>1. s \in CallState \ {"unused"}
      BY <1>1, <1>2 DEF CallState, RemoteAccepted
    <2>2. /\ state' = [state EXCEPT ![c] = s] /\ state'[c] = s
          /\ UNCHANGED <<start, ending, transfer>>
      BY <1>1, <1>2 DEF RemoteAccepted
    <2>3. OnStateChange(c, s)
      BY <1>2, <2>2 DEF RemoteAccepted
    <2> HIDE DEF s
    <2> QED BY <1>1, <2>1, <2>2, <2>3, StateChangeStep
  <1>3. CASE MediaConnected(c)
    <2>1. /\ state' = [state EXCEPT ![c] = "Active"] /\ OnStateChange(c, "Active")
          /\ UNCHANGED <<start, ending, transfer>> /\ "Active" \in CallState \ {"unused"}
      BY <1>3 DEF MediaConnected, CallState
    <2> QED BY <1>1, <2>1, StateChangeStep
  <1>4. CASE Terminate(c)
    <2>1. /\ state' = [state EXCEPT ![c] = "Ended"] /\ OnStateChange(c, "Ended")
          /\ UNCHANGED <<start, transfer>> /\ "Ended" \in CallState \ {"unused"}
          /\ ending' \subseteq Calls
      BY <1>1, <1>4 DEF Terminate, CallState
    <2> QED BY <2>1, StateChangeStep
  <1> QED BY <1>2, <1>3, <1>4, OnEndedStep, AgentCallStep, BrowserTakeoverStep DEF CallStep

LEMMA StepKeepsHandoffInv == HandoffInv /\ [HandoffNext]_handoffVars => HandoffInv'
  <1> SUFFICES ASSUME HandoffInv, [HandoffNext]_handoffVars PROVE HandoffInv'
    OBVIOUS
  <1>1. CASE HandoffNext
    BY <1>1, CallStepKeepsInv, TransferStepKeepsInv DEF HandoffNext
  <1>2. CASE UNCHANGED handoffVars
    BY <1>2 DEF handoffVars, HandoffInv, HandoffTypeOK, AgentIsAttached, StartIsSilent,
                TransfersArePlaced, TargetsArePlaced, JoinedIsSilent, Placed, registered
  <1> QED BY <1>1, <1>2

(***************************************************************************)
(* The theorems.                                                           *)
(***************************************************************************)
\* The inductive invariant: the registry and the agents agree, and a call being
\* started is not joined to anything, for any number of calls and transfers.
THEOREM HandoffInvariant == HandoffSpec => []HandoffInv
  <1> QED BY HandoffInitInv, StepKeepsHandoffInv, PTL DEF HandoffSpec

\* Type correctness; a call is registered only between its creation and its
\* end.
THEOREM HandoffTyped == HandoffSpec => []HandoffTypeOK
  <1>1. HandoffInv => HandoffTypeOK
    BY DEF HandoffInv
  <1> QED BY <1>1, HandoffInvariant, PTL

\* However starts, hang-ups, takeovers and any number of transfers interleave,
\* no agent talks on a line a person has been given (callRegistry.link,
\* handoffToBridge).
THEOREM HandoffOneVoice == HandoffSpec => []OneVoice
  <1>1. HandoffInv => OneVoice
    BY DEF HandoffInv, OneVoice, JoinedIsSilent, AgentIsAttached, registered
  <1> QED BY <1>1, HandoffInvariant, PTL

\* No realtime session outlives its call, at whatever point of its start the
\* call is lost (removeCall, RealtimeBridge.close).
THEOREM HandoffNoOrphan == HandoffSpec => []NoOrphanSession
  <1>1. HandoffInv => NoOrphanSession
    BY DEF HandoffInv, NoOrphanSession, AgentIsAttached, registered
  <1> QED BY <1>1, HandoffInvariant, PTL

(***************************************************************************)
(* Pairing.  Whether a call is paired is looked at when a transfer is      *)
(* asked for, so two transfers of one call may both be answered, and the   *)
(* second takes the call away from the first.  The pairing is symmetric as *)
(* long as no call is dialed for while another dialed for it is on the     *)
(* line.  PairInv says where pairings come from: a call is joined only     *)
(* with the other leg of its transfer, a call transferred is none that was *)
(* dialed (it has had an agent), and two transfers dial two calls.         *)
(***************************************************************************)
OneDialedEach ==
    \A t, u \in Transfers :
        /\ transfer[t].dialed \in registered
        /\ transfer[u].dialed \in registered
        /\ transfer[t].original = transfer[u].original
        => t = u

asked == {t \in Transfers : transfer[t].step # "idle"}

LegsDiffer ==
    /\ \A t \in asked :
          agent[transfer[t].original] # "none" /\ agent[transfer[t].dialed] = "none"
    /\ \A t, u \in asked : transfer[t].dialed = transfer[u].dialed => t = u

TargetsAreAsked ==
    \A c \in registered :
        registry[c].target # None =>
            \E t \in asked : transfer[t].dialed = c /\ transfer[t].original = registry[c].target

PeersAreLegs ==
    \A c \in registered :
        registry[c].peer # None =>
            \E t \in asked :
                \/ c = transfer[t].original /\ registry[c].peer = transfer[t].dialed
                \/ c = transfer[t].dialed /\ registry[c].peer = transfer[t].original

PairInv ==
    /\ LegsDiffer
    /\ TargetsAreAsked
    /\ PeersAreLegs
    /\ PairedBothWays

\* What a step that asks for no transfer leaves of the transfers.
SameLegs ==
    /\ asked' = asked
    /\ \A t \in asked : /\ transfer'[t].original = transfer[t].original
                        /\ transfer'[t].dialed = transfer[t].dialed

\* Placed calls neither get a first agent nor lose having had one.
SameAgents == \A c \in Placed : agent'[c] = "none" <=> agent[c] = "none"

LEMMA LegsStayDifferent ==
    ASSUME HandoffInv, PairInv, SameLegs, SameAgents
    PROVE  LegsDiffer'
  <1>1. \A t \in asked : transfer[t].original \in Placed /\ transfer[t].dialed \in Placed
    BY DEF asked, HandoffInv, TransfersArePlaced
  <1>2. \A t \in asked' : /\ t \in asked
                          /\ transfer'[t].original = transfer[t].original
                          /\ transfer'[t].dialed = transfer[t].dialed
    BY DEF SameLegs
  <1>3. /\ \A t \in asked :
              agent[transfer[t].original] # "none" /\ agent[transfer[t].dialed] = "none"
        /\ \A t, u \in asked : transfer[t].dialed = transfer[u].dialed => t = u
    BY DEF PairInv, LegsDiffer
  <1>4. /\ \A t \in asked' :
              agent'[transfer'[t].original] # "none" /\ agent'[transfer'[t].dialed] = "none"
        /\ \A t, u \in asked' : transfer'[t].dialed = transfer'[u].dialed => t = u
    BY <1>1, <1>2, <1>3 DEF SameAgents
  <1> QED BY <1>4 DEF LegsDiffer

\* Calls leave the registry, enter it unpaired, or are dialed for the original
\* of their transfer; nobody is joined.
LEMMA UnjoinedKeepsPairs ==
    ASSUME HandoffInv, PairInv,
           \A t \in asked : /\ t \in asked'
                            /\ transfer'[t].original = transfer[t].original
                            /\ transfer'[t].dialed = transfer[t].dialed,
           \A c \in registered' :
               \/ /\ c \in registered
                  /\ registry'[c].peer = registry[c].peer
                  /\ \/ registry'[c].target = registry[c].target
                     \/ \E t \in asked : /\ transfer[t].dialed = c
                                         /\ transfer[t].original = registry'[c].target
               \/ /\ state[c] = "unused"
                  /\ registry'[c].peer = None /\ registry'[c].target = None
    PROVE  TargetsAreAsked' /\ PeersAreLegs' /\ PairedBothWays'
  <1>1. TargetsAreAsked'
    <2>1. ASSUME NEW c \in registered', registry'[c].target # None
          PROVE  \E t \in asked' : /\ transfer'[t].dialed = c
                                   /\ transfer'[t].original = registry'[c].target
      <3>1. PICK t \in asked : /\ transfer[t].dialed = c
                               /\ transfer[t].original = registry'[c].target
        BY <2>1 DEF PairInv, TargetsAreAsked
      <3> QED BY <3>1
    <2> QED BY <2>1 DEF TargetsAreAsked
  <1>2. ASSUME NEW c \in registered', registry'[c].peer # None
        PROVE  /\ c \in registered /\ registry'[c].peer = registry[c].peer
               /\ \E t \in asked :
                    \/ c = transfer[t].original /\ registry[c].peer = transfer[t].dialed
                    \/ c = transfer[t].dialed /\ registry[c].peer = transfer[t].original
    BY <1>2 DEF PairInv, PeersAreLegs
  <1>3. PeersAreLegs'
    <2>1. ASSUME NEW c \in registered', registry'[c].peer # None
          PROVE  \E t \in asked' :
                    \/ c = transfer'[t].original /\ registry'[c].peer = transfer'[t].dialed
                    \/ c = transfer'[t].dialed /\ registry'[c].peer = transfer'[t].original
      BY <1>2, <2>1
    <2> QED BY <2>1 DEF PeersAreLegs
  <1>4. ASSUME NEW c \in registered', registry'[c].peer # None, registry'[c].peer \in registered'
        PROVE  registry'[registry'[c].peer].peer = c
    <2>1. PICK p : p = registry[c].peer
      OBVIOUS
    <2>2. c \in registered /\ registry[c].peer # None /\ registry'[c].peer = p
      BY <1>2, <1>4, <2>1
    <2>3. p \in Placed
      BY <1>2, <1>4, <2>1 DEF HandoffInv, TransfersArePlaced, asked
    <2>4. state[p] # "unused"
      BY <2>3 DEF Placed
    <2>5. p \in registered /\ registry'[p].peer = registry[p].peer
      BY <1>4, <2>2, <2>4
    <2>6. registry[p].peer = c
      BY <2>1, <2>2, <2>5 DEF PairInv, PairedBothWays, bridged
    <2> QED BY <2>2, <2>5, <2>6
  <1>5. PairedBothWays'
    BY <1>4 DEF PairedBothWays, bridged
  <1> QED BY <1>1, <1>3, <1>5

\* A call dialed is joined with the original of its transfer.  Nobody else on
\* the line is paired with either: whoever is paired with the dialed call is the
\* original, and whoever is paired with the original was dialed for it.
LEMMA LinkKeepsPairs ==
    ASSUME HandoffInv, PairInv, OneDialedEach, SameLegs,
           NEW d \in registered, registry[d].target # None,
           registry[d].target \in registered,
           link(d, registry[d].target)
    PROVE  PairInv'
  <1>1. PICK o : o = registry[d].target
    OBVIOUS
  <1>2. o \in registered /\ link(d, o)
    BY <1>1
  <1>3. /\ registered' = registered
        /\ \A p \in Calls \ {d, o} : registry'[p] = registry[p] /\ agent'[p] = agent[p]
        /\ \A p \in {d, o} : registry'[p].target = None
        /\ \A p \in Calls : \/ agent'[p] = agent[p]
                            \/ p \in {d, o} /\ agent[p] \in {"made", "live"}
                                            /\ agent'[p] = "handed_off"
    BY <1>2, Link
  <1>4. PICK t \in asked : transfer[t].dialed = d /\ transfer[t].original = o
    BY <1>1 DEF PairInv, TargetsAreAsked
  <1>5. /\ agent[o] # "none" /\ agent[d] = "none" /\ d # o
        /\ \A u \in asked : agent[transfer[u].original] # "none"
        /\ \A u \in asked : agent[transfer[u].dialed] = "none"
        /\ \A u \in asked : transfer[u].dialed = d => u = t
    BY <1>4 DEF PairInv, LegsDiffer
  <1>6. d \in Calls /\ o \in Calls /\ t \in Transfers /\ o # None /\ d # None
    BY <1>2, <1>4, HandoffAssumption DEF registered, asked
  <1>7. registry'[d].peer = o /\ registry'[o].peer = d
    <2>1. registry \in [Calls -> Entry \cup {None}]
      BY DEF HandoffInv, HandoffTypeOK
    <2> QED BY <1>2, <1>5, <1>6, <2>1 DEF link, joined
  <1>8. LegsDiffer'
    <2>1. SameAgents
      BY <1>3 DEF SameAgents, Placed
    <2> QED BY <2>1, LegsStayDifferent
  <1>9. \A c \in registered' : c \in registered /\ (c \notin {d, o} => registry'[c] = registry[c])
    BY <1>3 DEF registered
  <1>10. TargetsAreAsked'
    <2>1. ASSUME NEW c \in registered', registry'[c].target # None
          PROVE  \E u \in asked' : /\ transfer'[u].dialed = c
                                   /\ transfer'[u].original = registry'[c].target
      <3>1. c \in registered /\ registry'[c] = registry[c]
        BY <1>3, <1>9, <2>1
      <3>2. PICK u \in asked : /\ transfer[u].dialed = c
                               /\ transfer[u].original = registry[c].target
        BY <2>1, <3>1 DEF PairInv, TargetsAreAsked
      <3> QED BY <3>1, <3>2 DEF SameLegs
    <2> QED BY <2>1 DEF TargetsAreAsked
  <1>11. PeersAreLegs'
    <2>1. ASSUME NEW c \in registered', registry'[c].peer # None
          PROVE  \E u \in asked' :
                    \/ c = transfer'[u].original /\ registry'[c].peer = transfer'[u].dialed
                    \/ c = transfer'[u].dialed /\ registry'[c].peer = transfer'[u].original
      <3>1. CASE c \in {d, o}
        BY <1>4, <1>7, <3>1 DEF SameLegs
      <3>2. CASE c \notin {d, o}
        <4>1. PICK u \in asked :
                    \/ c = transfer[u].original /\ registry[c].peer = transfer[u].dialed
                    \/ c = transfer[u].dialed /\ registry[c].peer = transfer[u].original
          BY <1>9, <2>1, <3>2 DEF PairInv, PeersAreLegs
        <4> QED BY <1>9, <3>2, <4>1 DEF SameLegs
      <3> QED BY <3>1, <3>2
    <2> QED BY <2>1 DEF PeersAreLegs
  <1>12. ASSUME NEW c \in registered, c \notin {d, o}, registry[c].peer # None
         PROVE  registry[c].peer \notin {d, o}
    <2>1. PICK u \in asked :
                    \/ c = transfer[u].original /\ registry[c].peer = transfer[u].dialed
                    \/ c = transfer[u].dialed /\ registry[c].peer = transfer[u].original
      BY <1>12 DEF PairInv, PeersAreLegs
    <2>2. registry[c].peer # d
      BY <1>4, <1>5, <1>12, <2>1
    <2>3. CASE registry[c].peer = o
      <3>1. c = transfer[u].dialed /\ transfer[u].original = o
        BY <1>5, <2>1, <2>3
      <3>2. u = t
        BY <1>4, <1>6, <3>1 DEF OneDialedEach, asked
      <3> QED BY <1>4, <1>12, <3>1, <3>2
    <2> QED BY <2>2, <2>3
  <1>13. ASSUME NEW c \in registered', registry'[c].peer # None, registry'[c].peer \in registered'
         PROVE  registry'[registry'[c].peer].peer = c
    <2>1. CASE c \in {d, o}
      BY <1>7, <2>1
    <2>2. CASE c \notin {d, o}
      <3>1. PICK p : p = registry[c].peer
        OBVIOUS
      <3>2. c \in registered /\ registry'[c].peer = p /\ p # None /\ p \in registered
        BY <1>3, <1>9, <1>13, <2>2, <3>1
      <3>3. p \notin {d, o}
        BY <1>12, <2>2, <3>1, <3>2
      <3>4. registry[p].peer = c
        BY <3>1, <3>2 DEF PairInv, PairedBothWays, bridged
      <3> QED BY <1>3, <1>9, <3>2, <3>3, <3>4
    <2> QED BY <2>1, <2>2
  <1>14. PairedBothWays'
    BY <1>13 DEF PairedBothWays, bridged
  <1> QED BY <1>8, <1>10, <1>11, <1>14 DEF PairInv

LEMMA RemovalKeepsPairs ==
    ASSUME HandoffInv, PairInv, SameLegs, NEW c \in Calls, removeCall(c)
    PROVE  PairInv'
  <1>1. /\ registry'[c] = None
        /\ \A p \in Calls : p # c => registry'[p] = registry[p] /\ agent'[p] = agent[p]
        /\ agent'[c] = agent[c] \/ (agent[c] \in {"made", "live"} /\ agent'[c] = "stopped")
    BY RemoveCall
  <1>2. SameAgents
    BY <1>1 DEF SameAgents, Placed
  <1>3. \A p \in registered' : p \in registered /\ registry'[p] = registry[p]
    BY <1>1 DEF registered
  <1>4. TargetsAreAsked' /\ PeersAreLegs' /\ PairedBothWays'
    BY <1>3, UnjoinedKeepsPairs DEF SameLegs
  <1> QED BY <1>2, <1>4, LegsStayDifferent DEF PairInv

LEMMA UntouchedKeepsPairs ==
    ASSUME HandoffInv, PairInv, SameLegs, SameAgents, UNCHANGED registry
    PROVE  PairInv'
  <1>1. \A p \in registered' : p \in registered /\ registry'[p] = registry[p]
    BY DEF registered
  <1>2. TargetsAreAsked' /\ PeersAreLegs' /\ PairedBothWays'
    BY <1>1, UnjoinedKeepsPairs DEF SameLegs
  <1> QED BY <1>2, LegsStayDifferent DEF PairInv

LEMMA StateChangeKeepsPairs ==
    ASSUME HandoffInv, PairInv, OneDialedEach, SameLegs,
           NEW c \in Calls, NEW s, OnStateChange(c, s)
    PROVE  PairInv'
  <1>1. CASE s = "Ended"
    BY <1>1, RemovalKeepsPairs DEF OnStateChange
  <1>2. CASE /\ s = "Active"
             /\ registry[c] # None
             /\ registry[c].target # None
             /\ registry[registry[c].target] # None
    <2>1. link(c, registry[c].target) /\ c \in registered
      BY <1>2 DEF OnStateChange, registered
    <2>2. registry[c].target \in registered
      BY <1>2, <2>1 DEF registered, HandoffInv, TargetsArePlaced, Placed
    <2> QED BY <1>2, <2>1, <2>2, LinkKeepsPairs
  <1>3. CASE /\ s # "Ended"
             /\ ~ /\ s = "Active"
                  /\ registry[c] # None
                  /\ registry[c].target # None
                  /\ registry[registry[c].target] # None
    <2>1. UNCHANGED <<registry, agent>>
      BY <1>3 DEF OnStateChange
    <2> QED BY <2>1, UntouchedKeepsPairs DEF SameAgents
  <1> QED BY <1>1, <1>2, <1>3

\* A step of a call asks for no transfer.
LEMMA CallStepKeepsPairs ==
    ASSUME HandoffInv, PairInv, OneDialedEach, NEW c \in Calls, CallStep(c)
    PROVE  PairInv'
  <1>1. /\ state \in [Calls -> CallState]
        /\ registry \in [Calls -> Entry \cup {None}]
        /\ agent \in [Calls -> AgentState]
        /\ start \in [Calls -> {"none", "offer", "attach", "connect"}]
    BY DEF HandoffInv, HandoffTypeOK
  <1>2. SameLegs
    BY DEF CallStep, SameLegs, asked, RemoteAccepted, MediaConnected, Terminate, OnEnded,
           StartAgentCall, AgentCallOffered, AttachAgent, AgentStarted, AgentFailed,
           BrowserTakeover
  <1>3. CASE RemoteAccepted(c)
    BY <1>2, <1>3, StateChangeKeepsPairs DEF RemoteAccepted
  <1>4. CASE MediaConnected(c)
    BY <1>2, <1>4, StateChangeKeepsPairs DEF MediaConnected
  <1>5. CASE Terminate(c)
    BY <1>2, <1>5, StateChangeKeepsPairs DEF Terminate
  <1>6. CASE OnEnded(c)
    <2> DEFINE peer == IF registry[c] = None THEN None ELSE registry[c].peer
    <2> DEFINE others == {p \in {peer} \cap registered : state[p] # "Ended"}
    <2>1. /\ registry' = [p \in Calls |-> IF p \in {c} \cup others THEN None ELSE registry[p]]
          /\ agent' = [p \in Calls |->
                IF p \in {c} \cup others /\ registry[p] # None /\ registry[p].agent
                THEN Shut(agent, p, "stopped")[p] ELSE agent[p]]
      BY <1>6 DEF OnEnded
    <2> HIDE DEF others
    <2>2. \A p \in Calls : agent'[p] = agent[p] \/ (agent[p] \in {"made", "live"} /\ agent'[p] = "stopped")
      BY <1>1, <2>1 DEF Shut
    <2>3. SameAgents
      BY <2>2 DEF SameAgents, Placed
    <2>4. \A p \in registered' : p \in registered /\ registry'[p] = registry[p]
      BY <2>1 DEF registered
    <2>5. TargetsAreAsked' /\ PeersAreLegs' /\ PairedBothWays'
      BY <1>2, <2>4, UnjoinedKeepsPairs DEF SameLegs
    <2> QED BY <1>2, <2>3, <2>5, LegsStayDifferent DEF PairInv
  <1>7. CASE StartAgentCall(c)
    <2>1. /\ state[c] = "unused" /\ UNCHANGED agent
          /\ registry' = [registry EXCEPT ![c] = NewEntry]
      BY <1>7 DEF StartAgentCall, StartOutgoing
    <2>2. \A p \in registered' :
             \/ p \in registered /\ registry'[p] = registry[p]
             \/ state[p] = "unused" /\ registry'[p].peer = None /\ registry'[p].target = None
      BY <1>1, <2>1 DEF registered, NewEntry
    <2>3. TargetsAreAsked' /\ PeersAreLegs' /\ PairedBothWays'
      BY <1>2, <2>2, UnjoinedKeepsPairs DEF SameLegs
    <2> QED BY <1>2, <2>1, <2>3, LegsStayDifferent DEF PairInv, SameAgents
  <1>8. CASE AgentCallOffered(c)
    BY <1>2, <1>8, StateChangeKeepsPairs, RemovalKeepsPairs
    DEF AgentCallOffered, OfferSent, OfferFailed
  <1>9. CASE AttachAgent(c)
    <2>1. start[c] = "attach"
      BY <1>9 DEF AttachAgent
    <2>2. SameAgents
      BY <1>1, <1>9, <2>1 DEF AttachAgent, SameAgents, Placed
    <2>3. CASE c \in registered
      <3>1. registry' = [registry EXCEPT ![c].agent = TRUE] /\ registry[c] \in Entry
        BY <1>1, <1>9, <2>3 DEF AttachAgent, registered
      <3>2. \A p \in registered' : /\ p \in registered
                                   /\ registry'[p].peer = registry[p].peer
                                   /\ registry'[p].target = registry[p].target
        BY <1>1, <2>3, <3>1 DEF registered, Entry
      <3>3. TargetsAreAsked' /\ PeersAreLegs' /\ PairedBothWays'
        BY <1>2, <3>2, UnjoinedKeepsPairs DEF SameLegs
      <3> QED BY <1>2, <2>2, <3>3, LegsStayDifferent DEF PairInv
    <2>4. CASE c \notin registered
      BY <1>2, <1>9, <2>2, <2>4, UntouchedKeepsPairs DEF AttachAgent
    <2> QED BY <2>3, <2>4
  <1>10. CASE AgentStarted(c)
    <2>1. SameAgents /\ UNCHANGED registry
      BY <1>1, <1>10 DEF AgentStarted, SameAgents, Placed
    <2> QED BY <1>2, <2>1, UntouchedKeepsPairs
  <1>11. CASE AgentFailed(c)
    BY <1>2, <1>11, RemovalKeepsPairs DEF AgentFailed
  <1>12. CASE BrowserTakeover(c)
    <2>1. c \in registered /\ agent[c] = "live"
      BY <1>12 DEF BrowserTakeover
    <2>2. \A p \in Calls : agent'[p] = agent[p] \/ (p = c /\ agent'[p] # "none")
      BY <1>1, <1>12 DEF BrowserTakeover, Shut
    <2>3. SameAgents
      BY <2>1, <2>2 DEF SameAgents, Placed
    <2>4. /\ registry' = [registry EXCEPT ![c].agent = FALSE, ![c].bridge = TRUE]
          /\ registry[c] \in Entry
      BY <1>1, <1>12, <2>1 DEF BrowserTakeover, registered
    <2>5. \A p \in registered' : /\ p \in registered
                                 /\ registry'[p].peer = registry[p].peer
                                 /\ registry'[p].target = registry[p].target
      BY <1>1, <2>1, <2>4 DEF registered, Entry
    <2>6. TargetsAreAsked' /\ PeersAreLegs' /\ PairedBothWays'
      BY <1>2, <2>5, UnjoinedKeepsPairs DEF SameLegs
    <2> QED BY <1>2, <2>3, <2>6, LegsStayDifferent DEF PairInv
  <1> QED BY <1>3, <1>4, <1>5, <1>6, <1>7, <1>8, <1>9, <1>10, <1>11, <1>12 DEF CallStep

LEMMA TransferStepKeepsPairs ==
    ASSUME HandoffInv, PairInv, OneDialedEach, NEW t \in Transfers, TransferStep(t)
    PROVE  PairInv'
  <1>1. /\ state \in [Calls -> CallState]
        /\ registry \in [Calls -> Entry \cup {None}]
        /\ transfer \in [Transfers -> TransferState]
    BY DEF HandoffInv, HandoffTypeOK
  <1>2. ASSUME NEW original \in Calls, NEW leg \in Calls, TransferRequest(t, original, leg)
        PROVE  PairInv'
    <2>1. /\ transfer[t].step = "idle" /\ agent[original] # "none" /\ UNCHANGED agent
          /\ state[leg] = "unused" /\ registry' = [registry EXCEPT ![leg] = NewEntry]
          /\ transfer' = [transfer EXCEPT ![t] =
                            [step |-> "offer", original |-> original, dialed |-> leg]]
      BY <1>2 DEF TransferRequest, StartOutgoing
    <2>2. /\ \A u \in asked : /\ u \in asked' /\ transfer'[u] = transfer[u]
                              /\ transfer[u].dialed # leg
          /\ \A u \in asked' : u \in asked \/ u = t
          /\ transfer'[t].original = original /\ transfer'[t].dialed = leg
      BY <1>1, <2>1 DEF asked, HandoffInv, TransfersArePlaced, Placed
    <2>3. agent[leg] = "none"
      BY <2>1 DEF HandoffInv, StartIsSilent
    <2>4. LegsDiffer'
      <3>1. /\ \A u \in asked' :
                  agent'[transfer'[u].original] # "none" /\ agent'[transfer'[u].dialed] = "none"
            /\ \A u, v \in asked' : transfer'[u].dialed = transfer'[v].dialed => u = v
        BY <2>1, <2>2, <2>3 DEF PairInv, LegsDiffer
      <3> QED BY <3>1 DEF LegsDiffer
    <2>5. \A p \in registered' :
             \/ p \in registered /\ registry'[p] = registry[p]
             \/ state[p] = "unused" /\ registry'[p].peer = None /\ registry'[p].target = None
      BY <1>1, <2>1 DEF registered, NewEntry
    <2>6. TargetsAreAsked' /\ PeersAreLegs' /\ PairedBothWays'
      BY <2>2, <2>5, UnjoinedKeepsPairs
    <2> QED BY <2>4, <2>6 DEF PairInv
  <1>3. ASSUME TransferOffered(t) \/ TransferMarked(t)
        PROVE  t \in asked /\ SameLegs /\ transfer[t].dialed \in Calls
    <2>1. PICK s \in {"mark", "dialing", "failed"} : transfer' = [transfer EXCEPT ![t].step = s]
      BY <1>3 DEF TransferOffered, TransferMarked
    <2>2. t \in asked
      BY <1>3 DEF TransferOffered, TransferMarked, asked
    <2>3. transfer[t].dialed \in Calls
      BY <2>2 DEF asked, HandoffInv, TransfersArePlaced, Placed
    <2> QED BY <1>1, <2>1, <2>2, <2>3 DEF SameLegs, asked, TransferState
  <1>4. CASE TransferOffered(t)
    <2>1. SameLegs /\ transfer[t].dialed \in Calls
      BY <1>3, <1>4
    <2> QED BY <1>4, <2>1, StateChangeKeepsPairs, RemovalKeepsPairs
            DEF TransferOffered, OfferSent, OfferFailed
  <1>5. CASE TransferMarked(t)
    <2>1. PICK d : d = transfer[t].dialed
      OBVIOUS
    <2>2. t \in asked /\ SameLegs /\ d \in Calls /\ UNCHANGED agent
      BY <1>3, <1>5, <2>1 DEF TransferMarked
    <2>3. CASE d \in registered
      <3>1. /\ registry' = [registry EXCEPT ![d].target = transfer[t].original]
            /\ registry[d] \in Entry
        BY <1>1, <1>5, <2>1, <2>3 DEF TransferMarked, registered
      <3>2. \A p \in registered' :
               /\ p \in registered
               /\ registry'[p].peer = registry[p].peer
               /\ \/ registry'[p].target = registry[p].target
                  \/ p = d /\ registry'[p].target = transfer[t].original
        BY <1>1, <2>3, <3>1 DEF registered, Entry
      <3>3. TargetsAreAsked' /\ PeersAreLegs' /\ PairedBothWays'
        BY <2>1, <2>2, <3>2, UnjoinedKeepsPairs DEF SameLegs
      <3> QED BY <2>2, <3>3, LegsStayDifferent DEF PairInv, SameAgents
    <2>4. CASE d \notin registered
      BY <1>5, <2>1, <2>2, <2>4, UntouchedKeepsPairs DEF TransferMarked, SameAgents
    <2> QED BY <2>3, <2>4
  <1> QED BY <1>2, <1>4, <1>5 DEF TransferStep

\* While no call is dialed for whose transfer somebody else already answers or
\* is being rung, a pairing is symmetric as long as both legs are there, for
\* any number of calls and of transfers (callRegistry.link, markForBridge,
\* doTransferCall).  With a single transfer the condition always holds.
THEOREM HandoffPairsBothWays ==
    HandoffSpec /\ []OneDialedEach => []PairedBothWays
  <1>1. HandoffInit => PairInv
    BY HandoffAssumption
    DEF HandoffInit, PairInv, LegsDiffer, TargetsAreAsked, PeersAreLegs, PairedBothWays,
        bridged, registered, asked
  <1>2. HandoffInv /\ PairInv /\ OneDialedEach /\ [HandoffNext]_handoffVars => PairInv'
    <2> SUFFICES ASSUME HandoffInv, PairInv, OneDialedEach, [HandoffNext]_handoffVars
                 PROVE  PairInv'
      OBVIOUS
    <2>1. CASE UNCHANGED handoffVars
      BY <2>1, UntouchedKeepsPairs DEF handoffVars, SameLegs, SameAgents, asked
    <2>2. CASE HandoffNext
      BY <2>2, CallStepKeepsPairs, TransferStepKeepsPairs DEF HandoffNext
    <2> QED BY <2>1, <2>2
  <1>3. PairInv => PairedBothWays
    BY DEF PairInv
  <1> QED BY <1>1, <1>2, <1>3, HandoffInvariant, PTL DEF HandoffSpec

=============================================================================
