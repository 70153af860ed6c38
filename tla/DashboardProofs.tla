-------------------------- MODULE DashboardProofs --------------------------
(***************************************************************************)
(* What the control room's page keeps to, whatever other pages write and   *)
(* however many polls are under way: its types, that no poll writes into   *)
(* what is being typed, that a delegation's calls follow its briefing, and *)
(* that the market is scanned once.                                        *)
(*                                                                         *)
(* OneScan is the deep one, and small bounds hide its exception: it takes  *)
(* six writes to bring the page back to before its own scan.  As long as   *)
(* nothing excuses it one press is under way at a time (OneTask), every    *)
(* snapshot the page holds was the store's (VersionsKnown), and of those   *)
(* none as late as the scan has lost it (ScanStands): so the page shows    *)
(* quote calls when its buttons come back, and the button is not offered.  *)
(***************************************************************************)
EXTENDS Dashboard, FiniteSetTheorems, TLAPS

TypingStands ==
    editing => /\ polls = {}
               /\ form = typed \/ inHand
               /\ bodies # {} => inHand

\* The save of a delegation is what the server has, until the scan is made.
SaveStands ==
    \A n \in Tasks :
        \/ task[n].step = "delegate" /\ task[n].answered
        \/ task[n].step = "scan" /\ ~task[n].answered
        => server.briefing = task[n].payload \/ task[n].disturbed

OneTask ==
    /\ \A n \in Tasks : task[n].step = "idle" => ~task[n].answered
    /\ ~excused =>
          /\ \A m, n \in Tasks : task[m].step # "idle" /\ task[n].step # "idle" => m = n
          /\ busy = "null" => \A n \in Tasks : task[n].step = "idle"

\* What the page shows or is about to show.
Shown == polls \union bodies \union {view}

VersionsKnown ==
    /\ \A data \in Shown : data.version <= server.version
    /\ \A n \in Tasks : task[n].answered => task[n].data.version <= server.version

\* From the version s of this page's scan on there are quote calls.
ScannedAt(s) ==
    /\ server.version >= s /\ server.quoting
    /\ \A data \in Shown : data.version >= s => data.quoting
    /\ \A n \in Tasks :
          /\ task[n].answered => task[n].data.version >= s /\ task[n].data.quoting
          /\ task[n].step # "delegate"
          /\ task[n].step = "scan" => task[n].answered
    /\ view.version >= s \/ \E n \in Tasks : task[n].step = "scan"

ScanStands ==
    scans # 0 => ~excused /\ scans = 1 /\ \E s \in Nat : ScannedAt(s)

DashboardInv ==
    /\ DashboardTypeOK
    /\ TypingStands
    /\ SaveStands
    /\ OneTask
    /\ VersionsKnown
    /\ ScanStands

LEMMA FirstTyped == First \in Snapshot /\ Idle \in Task /\ Idle.step = "idle" /\ ~Idle.answered
  <1>1. First \in Snapshot
    BY DashboardAssumption DEF First, Snapshot
  <1>2. Idle \in Task
    BY <1>1, DashboardAssumption DEF Idle, Task, Action
  <1>. QED BY <1>1, <1>2 DEF Idle

LEMMA InitInv == Init => DashboardInv
  <1>. SUFFICES ASSUME Init PROVE DashboardInv
    OBVIOUS
  <1>1. \A n \in Tasks : task[n] = Idle
    BY DEF Init
  <1>2. DashboardTypeOK
    <2>1. /\ IsFiniteSet(polls) /\ IsFiniteSet(bodies)
          /\ Cardinality(polls) + Cardinality(bodies) <= MaxPolls
      BY FS_EmptySet, DashboardAssumption DEF Init
    <2>2. editing \in BOOLEAN /\ excused \in BOOLEAN /\ inHand \in BOOLEAN
      BY DEF Init
    <2>3. server \in Snapshot /\ view \in Snapshot /\ task \in [Tasks -> Task]
      BY FirstTyped DEF Init
    <2>4. /\ form \in Briefings /\ typed \in Briefings /\ scans \in 0..2
          /\ busy \in {"null", "save", "delegate", "book", "reset"}
          /\ polls \subseteq Snapshot /\ bodies \subseteq Snapshot
      BY DashboardAssumption DEF Init
    <2>. QED BY <2>1, <2>2, <2>3, <2>4 DEF DashboardTypeOK
  <1>3. TypingStands /\ SaveStands /\ OneTask /\ ScanStands
    BY <1>1, FirstTyped DEF Init, TypingStands, SaveStands, OneTask, ScanStands
  <1>4. VersionsKnown
    BY <1>1, FirstTyped DEF Init, VersionsKnown, Shown, First
  <1>. QED BY <1>2, <1>3, <1>4 DEF DashboardInv

(***************************************************************************)
(* Types, step by step.                                                    *)
(***************************************************************************)
\* What the effect's cleanup leaves of the polls.
LEMMA EffectTyped ==
    ASSUME DashboardTypeOK, Effect, bodies' \subseteq bodies
    PROVE  /\ polls' \subseteq polls
           /\ polls' \subseteq Snapshot /\ bodies' \subseteq Snapshot
           /\ IsFiniteSet(polls') /\ IsFiniteSet(bodies')
           /\ Cardinality(polls') + Cardinality(bodies') <= MaxPolls
  <1>1. polls' \subseteq polls
    BY DEF Effect
  <1>2. /\ IsFiniteSet(polls) /\ IsFiniteSet(bodies)
        /\ Cardinality(polls) + Cardinality(bodies) <= MaxPolls
    BY DEF DashboardTypeOK
  <1>3. /\ IsFiniteSet(polls') /\ Cardinality(polls') <= Cardinality(polls)
        /\ IsFiniteSet(bodies') /\ Cardinality(bodies') <= Cardinality(bodies)
    BY <1>1, <1>2, FS_Subset
  <1>4. /\ Cardinality(polls) \in Nat /\ Cardinality(bodies) \in Nat
        /\ Cardinality(polls') \in Nat /\ Cardinality(bodies') \in Nat
    BY <1>2, <1>3, FS_CardinalityType
  <1>. QED BY <1>1, <1>2, <1>3, <1>4, DashboardAssumption DEF DashboardTypeOK

LEMMA CarryOutTyped ==
    ASSUME DashboardTypeOK, NEW action, NEW payload \in Briefings, CarryOut(action, payload)
    PROVE  /\ server' \in Snapshot
           /\ server'.version = server.version + 1
           /\ server'.briefing = IF action = "save" THEN payload
                                 ELSE IF action = "reset" THEN Seed ELSE server.briefing
           /\ server'.quoting = IF action = "scan" THEN TRUE
                                ELSE IF action = "reset" THEN FALSE ELSE server.quoting
  <1>1. server.version \in 0..MaxVersion /\ server.briefing \in Briefings /\ server.quoting \in BOOLEAN
    BY DEF DashboardTypeOK, Snapshot
  <1>2. server.version + 1 \in 0..MaxVersion
    BY <1>1, DashboardAssumption DEF CarryOut
  <1>3. /\ server'.version = server.version + 1
        /\ server'.briefing = IF action = "save" THEN payload
                              ELSE IF action = "reset" THEN Seed ELSE server.briefing
        /\ server'.quoting = IF action = "scan" THEN TRUE
                             ELSE IF action = "reset" THEN FALSE ELSE server.quoting
        /\ server' = [version |-> server'.version, briefing |-> server'.briefing,
                      quoting |-> server'.quoting]
    BY DEF CarryOut
  <1>4. server'.briefing \in Briefings /\ server'.quoting \in BOOLEAN /\ server'.version \in 0..MaxVersion
    BY <1>1, <1>2, <1>3, DashboardAssumption
  <1>. QED BY <1>3, <1>4 DEF Snapshot

LEMMA DisturbedTyped ==
    ASSUME DashboardTypeOK, NEW action
    PROVE  /\ Disturbed(action) \in [Tasks -> Task]
           /\ \A n \in Tasks :
                 /\ Disturbed(action)[n].step = task[n].step
                 /\ Disturbed(action)[n].payload = task[n].payload
                 /\ Disturbed(action)[n].answered = task[n].answered
                 /\ Disturbed(action)[n].data = task[n].data
                 /\ Disturbed(action)[n].disturbed =
                      (task[n].disturbed \/ (action \in {"save", "reset"}
                                             /\ task[n].step \in {"delegate", "scan"}))
  BY DEF DashboardTypeOK, Disturbed, Task

\* A press takes up one idle task.
LEMMA PressTyped ==
    ASSUME DashboardTypeOK, NEW step \in {"save", "delegate", "book", "reset"}, Press(step)
    PROVE  \E n \in Tasks :
              /\ task[n].step = "idle"
              /\ task' \in [Tasks -> Task]
              /\ task'[n].step = step /\ ~task'[n].answered
              /\ \A m \in Tasks : m # n => task'[m] = task[m]
  <1>1. PICK n \in Idling :
           task' = [task EXCEPT ![n] = [Idle EXCEPT !.step = step,
               !.payload = IF step \in {"save", "delegate"} THEN form ELSE Seed]]
    BY DEF Press
  <1>. DEFINE new == [Idle EXCEPT !.step = step,
               !.payload = IF step \in {"save", "delegate"} THEN form ELSE Seed]
  <1>2. new \in Task /\ new.step = step /\ ~new.answered
    BY FirstTyped, DashboardAssumption DEF DashboardTypeOK, Task, Action
  <1>3. n \in Tasks /\ task[n].step = "idle"
    BY DEF Idling
  <1>4. task' = [task EXCEPT ![n] = new]
    BY <1>1
  <1>. HIDE DEF new
  <1>5. task' \in [Tasks -> Task] /\ task'[n] = new /\ \A m \in Tasks : m # n => task'[m] = task[m]
    BY <1>2, <1>3, <1>4 DEF DashboardTypeOK
  <1>. QED BY <1>2, <1>3, <1>5

LEMMA StepTyped == DashboardTypeOK /\ ScanStands /\ [Next]_vars => DashboardTypeOK'
  <1>. SUFFICES ASSUME DashboardTypeOK, ScanStands, [Next]_vars PROVE DashboardTypeOK'
    OBVIOUS
  <1>. USE DashboardAssumption
  <1>k. /\ IsFiniteSet(polls) /\ IsFiniteSet(bodies)
        /\ Cardinality(polls) \in Nat /\ Cardinality(bodies) \in Nat
    BY FS_CardinalityType DEF DashboardTypeOK
  <1>t. ASSUME NEW n \in Tasks, Finish(n)
        PROVE  task' \in [Tasks -> Task] /\ busy' = "null"
    BY <1>t, FirstTyped DEF Finish, DashboardTypeOK
  <1>e. ASSUME NEW reason \in BOOLEAN, Excuse(reason) PROVE excused' \in BOOLEAN /\ scans' \in 0..2
    BY <1>e DEF Excuse, DashboardTypeOK
  <1>1. CASE Poll
    <2>1. /\ IsFiniteSet(polls') /\ Cardinality(polls') \in Nat
          /\ Cardinality(polls') <= Cardinality(polls) + 1
      <3>1. polls' = polls \union {server}
        BY <1>1 DEF Poll
      <3>2. /\ IsFiniteSet(polls')
            /\ Cardinality(polls') = IF server \in polls THEN Cardinality(polls)
                                                        ELSE Cardinality(polls) + 1
        BY <3>1, <1>k, FS_AddElement
      <3>. QED BY <3>2, <1>k
    <2>2. Cardinality(polls) + Cardinality(bodies) < MaxPolls /\ UNCHANGED bodies
      BY <1>1 DEF Poll
    <2>3. Cardinality(polls') + Cardinality(bodies') <= MaxPolls
      BY <2>1, <2>2, <1>k
    <2>. QED BY <1>1, <2>1, <2>3 DEF Poll, DashboardTypeOK, history
  <1>2. CASE PollFails
    <2>1. /\ polls' \subseteq polls /\ bodies' \subseteq bodies
      BY <1>2 DEF PollFails
    <2>2. /\ IsFiniteSet(polls') /\ Cardinality(polls') <= Cardinality(polls)
          /\ IsFiniteSet(bodies') /\ Cardinality(bodies') <= Cardinality(bodies)
      BY <2>1, <1>k, FS_Subset
    <2>3. Cardinality(polls') \in Nat /\ Cardinality(bodies') \in Nat
      BY <2>2, FS_CardinalityType
    <2>4. Cardinality(polls') + Cardinality(bodies') <= MaxPolls
      BY <2>2, <2>3, <1>k DEF DashboardTypeOK
    <2>. QED BY <1>2, <2>1, <2>2, <2>4 DEF PollFails, DashboardTypeOK, history
  <1>3. ASSUME NEW data \in polls, PollAnswered(data) PROVE DashboardTypeOK'
    <2>1. /\ IsFiniteSet(polls') /\ Cardinality(polls') = Cardinality(polls) - 1
      BY <1>3, <1>k, FS_RemoveElement DEF PollAnswered
    <2>2. /\ IsFiniteSet(bodies') /\ Cardinality(bodies') <= Cardinality(bodies) + 1
      <3>1. bodies' = bodies \union {data}
        BY <1>3 DEF PollAnswered
      <3>2. /\ IsFiniteSet(bodies')
            /\ Cardinality(bodies') = IF data \in bodies THEN Cardinality(bodies)
                                                         ELSE Cardinality(bodies) + 1
        BY <3>1, <1>k, FS_AddElement
      <3>. QED BY <3>2, <1>k
    <2>3. Cardinality(polls') \in Nat /\ Cardinality(bodies') \in Nat
      BY <2>1, <2>2, FS_CardinalityType
    <2>4. Cardinality(polls') + Cardinality(bodies') <= MaxPolls
      BY <2>1, <2>2, <2>3, <1>k DEF DashboardTypeOK
    <2>. QED BY <1>3, <2>1, <2>2, <2>4 DEF PollAnswered, DashboardTypeOK, history
  <1>4. ASSUME NEW data \in bodies, BodyRead(data) PROVE DashboardTypeOK'
    <2>1. bodies' \subseteq bodies /\ Effect
      BY <1>4 DEF BodyRead
    <2>2. data \in Snapshot /\ view \in Snapshot
      BY DEF DashboardTypeOK
    <2>3. excused' \in BOOLEAN /\ scans' \in 0..2
      <3>1. (data.version < view.version) \in BOOLEAN
        OBVIOUS
      <3>. QED BY <1>4, <1>e, <3>1 DEF BodyRead
    <2>4. view' \in Snapshot /\ form' \in Briefings
      BY <1>4, <2>2 DEF BodyRead, Snapshot
    <2>. QED BY <1>4, <2>1, <2>3, <2>4, EffectTyped DEF BodyRead, DashboardTypeOK
  <1>5. CASE ToggleEditing
    <2>1. bodies' \subseteq bodies /\ Effect
      BY <1>5 DEF ToggleEditing
    <2>2. view.briefing \in Briefings
      BY DEF DashboardTypeOK, Snapshot
    <2>3. form' \in Briefings /\ typed' \in Briefings /\ editing' \in BOOLEAN /\ inHand' \in BOOLEAN
      BY <1>5, <2>2 DEF ToggleEditing, DashboardTypeOK
    <2>. QED BY <1>5, <2>1, <2>3, EffectTyped DEF ToggleEditing, DashboardTypeOK
  <1>6. ASSUME NEW b \in Briefings, updateBriefing(b) PROVE DashboardTypeOK'
    BY <1>6 DEF updateBriefing, DashboardTypeOK
  <1>7. ASSUME NEW step \in {"save", "delegate", "book", "reset"}, Press(step) PROVE DashboardTypeOK'
    <2>1. task' \in [Tasks -> Task]
      BY <1>7, PressTyped
    <2>2. busy' = step /\ excused' \in BOOLEAN /\ scans' \in 0..2
      BY <1>7, <1>e DEF Press
    <2>. QED BY <1>7, <2>1, <2>2 DEF Press, DashboardTypeOK
  <1>8. ASSUME NEW n \in Tasks, Serve(n) PROVE DashboardTypeOK'
    <2>. DEFINE action == IF task[n].step = "delegate" THEN "save" ELSE task[n].step
    <2>1. task[n] \in Task
      BY DEF DashboardTypeOK
    <2>2. CarryOut(action, task[n].payload)
      BY <1>8 DEF Serve
    <2>3. server' \in Snapshot
      BY <2>1, <2>2, CarryOutTyped DEF Task
    <2>. DEFINE new == [task[n] EXCEPT !.answered = TRUE, !.data = server',
                                       !.disturbed = @ /\ task[n].step # "delegate"]
    <2>4. task' = [Disturbed(action) EXCEPT ![n] = new]
      BY <1>8 DEF Serve
    <2>5. new \in Task
      BY <2>1, <2>3 DEF Task
    <2>6. task' \in [Tasks -> Task]
      BY <2>4, <2>5, DisturbedTyped
    <2>7. scans' \in 0..2
      BY <1>8 DEF Serve, DashboardTypeOK
    <2>. QED BY <1>8, <2>3, <2>6, <2>7 DEF Serve, DashboardTypeOK, page
  <1>9. ASSUME NEW n \in Tasks, SavedThenScan(n) PROVE DashboardTypeOK'
    <2>1. task[n] \in Task /\ "scan" \in Action
      BY DEF DashboardTypeOK, Action
    <2>2. view' \in Snapshot /\ task' \in [Tasks -> Task]
      BY <1>9, <2>1, FirstTyped DEF SavedThenScan, DashboardTypeOK, Task
    <2>3. bodies' \subseteq bodies /\ Effect
      BY <1>9 DEF SavedThenScan
    <2>. QED BY <1>9, <2>2, <2>3, EffectTyped DEF SavedThenScan, DashboardTypeOK, history
  <1>10. ASSUME NEW n \in Tasks, Answered(n) PROVE DashboardTypeOK'
    <2>1. task[n].data \in Snapshot /\ task[n].data.briefing \in Briefings
      BY DEF DashboardTypeOK, Task, Snapshot
    <2>2. /\ view' \in Snapshot /\ form' \in Briefings /\ typed' \in Briefings
          /\ editing' \in BOOLEAN /\ inHand' \in BOOLEAN
      BY <1>10, <2>1 DEF Answered, DashboardTypeOK
    <2>3. bodies' \subseteq bodies /\ Effect /\ task' \in [Tasks -> Task] /\ busy' = "null"
      BY <1>10, <1>t DEF Answered
    <2>. QED BY <1>10, <2>2, <2>3, EffectTyped DEF Answered, DashboardTypeOK
  <1>11. ASSUME NEW n \in Tasks, Fails(n) PROVE DashboardTypeOK'
    <2>1. task' \in [Tasks -> Task] /\ busy' = "null" /\ excused' \in BOOLEAN /\ scans' \in 0..2
      BY <1>11, <1>t, <1>e DEF Fails
    <2>. QED BY <1>11, <2>1 DEF Fails, DashboardTypeOK
  <1>12. ASSUME NEW action, NEW b \in Briefings, Elsewhere(action, b) PROVE DashboardTypeOK'
    <2>1. server' \in Snapshot
      BY <1>12, CarryOutTyped DEF Elsewhere
    <2>2. task' \in [Tasks -> Task]
      BY <1>12, DisturbedTyped DEF Elsewhere
    <2>3. scans' \in 0..2
      BY <1>12 DEF Elsewhere, DashboardTypeOK
    <2>. QED BY <1>12, <2>1, <2>2, <2>3 DEF Elsewhere, DashboardTypeOK, page
  <1>13. CASE UNCHANGED vars
    BY <1>13 DEF vars, page, history, DashboardTypeOK
  <1>. QED
    BY <1>1, <1>2, <1>3, <1>4, <1>5, <1>6, <1>7, <1>8, <1>9, <1>10, <1>11, <1>12, <1>13
       DEF Next, PressSave, PressDelegate, PressReset, PressBook

(***************************************************************************)
(* What each action does to the tasks.                                     *)
(***************************************************************************)
LEMMA ServeEffect ==
    ASSUME DashboardTypeOK, NEW n \in Tasks, Serve(n)
    PROVE  LET action == IF task[n].step = "delegate" THEN "save" ELSE task[n].step
           IN  /\ task[n].step # "idle" /\ ~task[n].answered
               /\ CarryOut(action, task[n].payload) /\ task[n].payload \in Briefings
               /\ task'[n].step = task[n].step /\ task'[n].payload = task[n].payload
               /\ task'[n].answered /\ task'[n].data = server'
               /\ \A m \in Tasks : m # n => task'[m] = Disturbed(action)[m]
  <1>. DEFINE action == IF task[n].step = "delegate" THEN "save" ELSE task[n].step
              new == [task[n] EXCEPT !.answered = TRUE, !.data = server',
                                     !.disturbed = @ /\ task[n].step # "delegate"]
  <1>1. /\ task[n].step # "idle" /\ ~task[n].answered
        /\ CarryOut(action, task[n].payload)
        /\ task' = [Disturbed(action) EXCEPT ![n] = new]
    BY DEF Serve
  <1>2. task[n] \in Task /\ task[n].payload \in Briefings
    BY DEF DashboardTypeOK, Task
  <1>3. /\ new.step = task[n].step /\ new.payload = task[n].payload
        /\ new.answered /\ new.data = server'
    BY <1>2 DEF Task
  <1>. HIDE DEF new
  <1>4. task'[n] = new /\ \A m \in Tasks : m # n => task'[m] = Disturbed(action)[m]
    BY <1>1, DisturbedTyped
  <1>. QED BY <1>1, <1>2, <1>3, <1>4

LEMMA SavedEffect ==
    ASSUME DashboardTypeOK, NEW n \in Tasks, SavedThenScan(n)
    PROVE  /\ task[n].step = "delegate" /\ task[n].answered
           /\ task'[n].step = "scan" /\ ~task'[n].answered
           /\ task'[n].payload = task[n].payload /\ task'[n].disturbed = task[n].disturbed
           /\ \A m \in Tasks : m # n => task'[m] = task[m]
  <1>1. task[n] \in Task /\ task \in [Tasks -> Task]
    BY DEF DashboardTypeOK
  <1>. QED BY <1>1 DEF SavedThenScan, Task

LEMMA FinishEffect ==
    ASSUME DashboardTypeOK, NEW n \in Tasks, Finish(n)
    PROVE  /\ task'[n].step = "idle" /\ ~task'[n].answered
           /\ busy' = "null"
           /\ \A m \in Tasks : m # n => task'[m] = task[m]
  <1>1. task \in [Tasks -> Task]
    BY DEF DashboardTypeOK
  <1>. QED BY <1>1, FirstTyped DEF Finish

\* What the steps that move no task leave alone.
LEMMA QuietSteps ==
    ASSUME Poll \/ PollFails \/ (\E data \in polls : PollAnswered(data))
                \/ (\E data \in bodies : BodyRead(data)) \/ ToggleEditing
                \/ (\E b \in Briefings : updateBriefing(b)) \/ UNCHANGED vars
    PROVE  UNCHANGED <<server, task, busy>>
  BY DEF Poll, PollFails, PollAnswered, BodyRead, ToggleEditing, updateBriefing, vars, page

(***************************************************************************)
(* The form.                                                               *)
(***************************************************************************)
LEMMA StepTyping == DashboardTypeOK /\ TypingStands /\ [Next]_vars => TypingStands'
  <1>. SUFFICES ASSUME DashboardTypeOK, TypingStands, [Next]_vars, editing'
                PROVE  polls' = {} /\ (form' = typed' \/ inHand') /\ (bodies' # {} => inHand')
    BY DEF TypingStands
  <1>. USE DEF TypingStands
  <1>e. Effect => polls' = {}
    BY DEF Effect, Polling
  <1>q. ASSUME UNCHANGED <<editing, polls, form, typed, inHand>>, bodies' \subseteq bodies
        PROVE  polls' = {} /\ (form' = typed' \/ inHand') /\ (bodies' # {} => inHand')
    BY <1>q
  <1>1. CASE Poll
    BY <1>1 DEF Poll, Polling
  <1>2. CASE PollFails
    <2>1. polls' \subseteq polls /\ bodies' \subseteq bodies
      BY <1>2 DEF PollFails
    <2>. QED BY <1>2, <2>1 DEF PollFails, history
  <1>3. ASSUME NEW data \in polls, PollAnswered(data)
        PROVE  polls' = {} /\ (form' = typed' \/ inHand') /\ (bodies' # {} => inHand')
    BY <1>3 DEF PollAnswered
  <1>4. ASSUME NEW data \in bodies, BodyRead(data)
        PROVE  polls' = {} /\ (form' = typed' \/ inHand') /\ (bodies' # {} => inHand')
    BY <1>4, <1>e DEF BodyRead
  <1>5. CASE ToggleEditing
    BY <1>5, <1>e DEF ToggleEditing
  <1>6. ASSUME NEW b \in Briefings, updateBriefing(b)
        PROVE  polls' = {} /\ (form' = typed' \/ inHand') /\ (bodies' # {} => inHand')
    BY <1>6 DEF updateBriefing
  <1>7. ASSUME NEW step, Press(step)
        PROVE  polls' = {} /\ (form' = typed' \/ inHand') /\ (bodies' # {} => inHand')
    BY <1>7, <1>q DEF Press
  <1>8. ASSUME NEW n \in Tasks, Serve(n)
        PROVE  polls' = {} /\ (form' = typed' \/ inHand') /\ (bodies' # {} => inHand')
    BY <1>8, <1>q DEF Serve, page
  <1>9. ASSUME NEW n \in Tasks, SavedThenScan(n)
        PROVE  polls' = {} /\ (form' = typed' \/ inHand') /\ (bodies' # {} => inHand')
    BY <1>9, <1>e DEF SavedThenScan, history
  <1>10. ASSUME NEW n \in Tasks, Answered(n)
         PROVE  polls' = {} /\ (form' = typed' \/ inHand') /\ (bodies' # {} => inHand')
    <2>1. editing /\ polls' = {} /\ UNCHANGED bodies
      BY <1>10, <1>e DEF Answered
    <2>2. inHand' = inHand
      <3>1. inHand' = (inHand /\ editing') /\ inHand \in BOOLEAN
        BY <1>10 DEF Answered, DashboardTypeOK
      <3>. QED BY <3>1
    <2>3. CASE task[n].step = "reset"
      BY <1>10, <2>1, <2>2, <2>3 DEF Answered
    <2>4. CASE task[n].step # "reset"
      BY <1>10, <2>1, <2>2, <2>4 DEF Answered
    <2>. QED BY <2>3, <2>4
  <1>11. ASSUME NEW n \in Tasks, Fails(n)
         PROVE  polls' = {} /\ (form' = typed' \/ inHand') /\ (bodies' # {} => inHand')
    BY <1>11, <1>q DEF Fails
  <1>12. ASSUME NEW action, NEW b \in Briefings, Elsewhere(action, b)
         PROVE  polls' = {} /\ (form' = typed' \/ inHand') /\ (bodies' # {} => inHand')
    BY <1>12, <1>q DEF Elsewhere, page
  <1>13. CASE UNCHANGED vars
    BY <1>13, <1>q DEF vars, page, history
  <1>. QED
    BY <1>1, <1>2, <1>3, <1>4, <1>5, <1>6, <1>7, <1>8, <1>9, <1>10, <1>11, <1>12, <1>13
       DEF Next, PressSave, PressDelegate, PressReset, PressBook

(***************************************************************************)
(* The delegation.                                                         *)
(***************************************************************************)
LEMMA StepSave == DashboardTypeOK /\ SaveStands /\ [Next]_vars => SaveStands'
  <1>. SUFFICES ASSUME DashboardTypeOK, SaveStands, [Next]_vars PROVE SaveStands'
    OBVIOUS
  <1>. USE DEF SaveStands
  \* A write leaves the briefing alone or is noticed by the task.
  <1>w. ASSUME NEW action, NEW payload \in Briefings, CarryOut(action, payload),
               NEW m \in Tasks, task'[m] = Disturbed(action)[m],
               \/ task[m].step = "delegate" /\ task[m].answered
               \/ task[m].step = "scan" /\ ~task[m].answered
        PROVE  server'.briefing = task'[m].payload \/ task'[m].disturbed
    <2>1. CASE action \in {"save", "reset"}
      BY <1>w, <2>1, DisturbedTyped
    <2>2. CASE action \notin {"save", "reset"}
      <3>1. server'.briefing = server.briefing
        BY <1>w, <2>2, CarryOutTyped
      <3>2. server.briefing = task[m].payload \/ task[m].disturbed
        BY <1>w
      <3>3. task'[m].payload = task[m].payload
        BY <1>w, DisturbedTyped
      <3>4. task[m].disturbed => task'[m].disturbed
        BY <1>w, DisturbedTyped
      <3>. QED BY <3>1, <3>2, <3>3, <3>4
    <2>. QED BY <2>1, <2>2
  <1>1. CASE UNCHANGED <<server, task>>
    BY <1>1
  <1>2. ASSUME NEW step \in {"save", "delegate", "book", "reset"}, Press(step) PROVE SaveStands'
    <2>1. PICK n \in Tasks : /\ task'[n].step = step /\ ~task'[n].answered
                             /\ \A m \in Tasks : m # n => task'[m] = task[m]
      BY <1>2, PressTyped
    <2>2. UNCHANGED server
      BY <1>2 DEF Press
    <2>. QED BY <2>1, <2>2
  <1>3. ASSUME NEW n \in Tasks, Serve(n) PROVE SaveStands'
    <2>. DEFINE action == IF task[n].step = "delegate" THEN "save" ELSE task[n].step
    <2>1. /\ CarryOut(action, task[n].payload) /\ task[n].payload \in Briefings
          /\ task'[n].step = task[n].step /\ task'[n].payload = task[n].payload
          /\ task'[n].answered
          /\ \A m \in Tasks : m # n => task'[m] = Disturbed(action)[m]
      BY <1>3, ServeEffect
    <2>2. task[n].step = "delegate" => server'.briefing = task[n].payload
      BY <2>1, CarryOutTyped
    <2>. HIDE DEF action
    <2>3. ASSUME NEW m \in Tasks, m # n,
                 \/ task'[m].step = "delegate" /\ task'[m].answered
                 \/ task'[m].step = "scan" /\ ~task'[m].answered
          PROVE  server'.briefing = task'[m].payload \/ task'[m].disturbed
      <3>1. task'[m] = Disturbed(action)[m]
        BY <2>1, <2>3
      <3>2. task[m].step = task'[m].step /\ task[m].answered = task'[m].answered
        BY <3>1, DisturbedTyped
      <3>. QED BY <2>1, <2>3, <3>1, <3>2, <1>w
    <2>. QED BY <2>1, <2>2, <2>3
  <1>4. ASSUME NEW n \in Tasks, SavedThenScan(n) PROVE SaveStands'
    <2>1. UNCHANGED server
      BY <1>4 DEF SavedThenScan
    <2>. QED BY <1>4, <2>1, SavedEffect
  <1>5. ASSUME NEW n \in Tasks, Finish(n), UNCHANGED server PROVE SaveStands'
    BY <1>5, FinishEffect
  <1>6. ASSUME NEW action, NEW b \in Briefings, Elsewhere(action, b) PROVE SaveStands'
    <2>1. CarryOut(action, b) /\ task' = Disturbed(action)
      BY <1>6 DEF Elsewhere
    <2>2. ASSUME NEW m \in Tasks,
                 \/ task'[m].step = "delegate" /\ task'[m].answered
                 \/ task'[m].step = "scan" /\ ~task'[m].answered
          PROVE  server'.briefing = task'[m].payload \/ task'[m].disturbed
      <3>1. task[m].step = task'[m].step /\ task[m].answered = task'[m].answered
        BY <2>1, DisturbedTyped
      <3>. QED BY <2>1, <2>2, <3>1, <1>w
    <2>. QED BY <2>2
  <1>. QED
    BY <1>1, <1>2, <1>3, <1>4, <1>5, <1>6, QuietSteps
       DEF Next, PressSave, PressDelegate, PressReset, PressBook, Answered, Fails

(***************************************************************************)
(* The scan.                                                               *)
(***************************************************************************)
LEMMA ExcusedForGood == DashboardTypeOK /\ [Next]_vars => (excused => excused')
  <1>. SUFFICES ASSUME DashboardTypeOK, [Next]_vars, excused PROVE excused'
    OBVIOUS
  <1>1. ASSUME NEW reason, Excuse(reason) PROVE excused'
    BY <1>1 DEF Excuse
  <1>2. CASE UNCHANGED excused
    BY <1>2
  <1>. QED
    BY <1>1, <1>2 DEF Next, vars, history, Poll, PollFails, PollAnswered, BodyRead, ToggleEditing,
       updateBriefing, PressSave, PressDelegate, PressReset, PressBook, Press, Serve,
       SavedThenScan, Answered, Fails, Elsewhere

LEMMA StepOneTask == DashboardTypeOK /\ OneTask /\ [Next]_vars => OneTask'
  <1>. SUFFICES ASSUME DashboardTypeOK, OneTask, [Next]_vars PROVE OneTask'
    OBVIOUS
  <1>. USE DEF OneTask
  <1>x. excused => excused'
    BY ExcusedForGood
  <1>1. CASE UNCHANGED <<server, task, busy>>
    BY <1>1, <1>x
  <1>2. ASSUME NEW step \in {"save", "delegate", "book", "reset"}, Press(step) PROVE OneTask'
    <2>1. PICK n \in Tasks : /\ task'[n].step = step /\ ~task'[n].answered
                             /\ \A m \in Tasks : m # n => task'[m] = task[m]
      BY <1>2, PressTyped
    <2>2. busy' = step /\ (~excused' => Idling = Tasks)
      BY <1>2 DEF Press, Excuse
    <2>3. ~excused' => \A m \in Tasks : task[m].step = "idle"
      BY <2>2 DEF Idling
    <2>. QED BY <2>1, <2>2, <2>3
  <1>3. ASSUME NEW n \in Tasks, Serve(n) PROVE OneTask'
    <2>1. /\ task[n].step # "idle" /\ task'[n].step = task[n].step
          /\ \A m \in Tasks : m # n =>
                task'[m] = Disturbed(IF task[n].step = "delegate" THEN "save" ELSE task[n].step)[m]
      BY <1>3, ServeEffect
    <2>2. \A m \in Tasks : /\ task'[m].step = task[m].step
                           /\ m # n => task'[m].answered = task[m].answered
      BY <2>1, DisturbedTyped
    <2>3. UNCHANGED busy
      BY <1>3 DEF Serve, page
    <2>. QED BY <2>1, <2>2, <2>3, <1>x
  <1>4. ASSUME NEW n \in Tasks, SavedThenScan(n) PROVE OneTask'
    <2>1. UNCHANGED busy
      BY <1>4 DEF SavedThenScan
    <2>. QED BY <1>4, <2>1, <1>x, SavedEffect
  <1>5. ASSUME NEW n \in Tasks, Finish(n), task[n].step # "idle" PROVE OneTask'
    BY <1>5, <1>x, FinishEffect
  <1>6. ASSUME NEW action, NEW b \in Briefings, Elsewhere(action, b) PROVE OneTask'
    <2>1. task' = Disturbed(action) /\ UNCHANGED busy
      BY <1>6 DEF Elsewhere, page
    <2>2. \A m \in Tasks : task'[m].step = task[m].step /\ task'[m].answered = task[m].answered
      BY <2>1, DisturbedTyped
    <2>. QED BY <2>1, <2>2, <1>x
  <1>. QED
    BY <1>1, <1>2, <1>3, <1>4, <1>5, <1>6, QuietSteps
       DEF Next, PressSave, PressDelegate, PressReset, PressBook, Answered, Fails

\* A step shows nothing that was not on its way, and takes up no answer.
LEMMA StepShows ==
    ASSUME DashboardTypeOK, [Next]_vars
    PROVE  \A data \in Shown' :
              data \in Shown \union {server} \/ \E n \in Tasks : task[n].answered /\ data = task[n].data
  <1>e. Effect => polls' \subseteq polls
    BY DEF Effect
  <1>1. CASE Poll
    BY <1>1 DEF Poll, Shown
  <1>2. CASE PollFails
    <2>1. polls' \subseteq polls /\ bodies' \subseteq bodies /\ UNCHANGED view
      BY <1>2 DEF PollFails
    <2>. QED BY <2>1 DEF Shown
  <1>3. CASE \E data \in polls : PollAnswered(data)
    BY <1>3 DEF PollAnswered, Shown
  <1>4. CASE \E data \in bodies : BodyRead(data)
    BY <1>4, <1>e DEF BodyRead, Shown
  <1>5. CASE ToggleEditing
    BY <1>5, <1>e DEF ToggleEditing, Shown
  <1>6. CASE UNCHANGED <<polls, bodies, view>>
    BY <1>6 DEF Shown
  <1>7. ASSUME NEW n \in Tasks, SavedThenScan(n) \/ Answered(n)
        PROVE  \A data \in Shown' :
                  data \in Shown \union {server} \/ \E m \in Tasks : task[m].answered /\ data = task[m].data
    <2>1. task[n].answered /\ view' = task[n].data /\ UNCHANGED bodies /\ Effect
      BY <1>7 DEF SavedThenScan, Answered
    <2>. QED BY <2>1, <1>e DEF Shown
  <1>. QED
    BY <1>1, <1>2, <1>3, <1>4, <1>5, <1>6, <1>7
       DEF Next, PressSave, PressDelegate, PressReset, PressBook, Press, updateBriefing, Serve,
           Fails, Elsewhere, vars, page

\* The store moves on, and every other task keeps its answer.
LEMMA StepStore ==
    ASSUME DashboardTypeOK, [Next]_vars
    PROVE  /\ server.version \in Nat /\ server'.version \in Nat
           /\ server'.version \in {server.version, server.version + 1}
           /\ \A n \in Tasks : task'[n].answered =>
                 \/ task[n].answered /\ task'[n].data = task[n].data
                 \/ task'[n].data = server'
  <1>v. server.version \in Nat
    BY DashboardAssumption DEF DashboardTypeOK, Snapshot
  <1>. SUFFICES /\ server'.version \in {server.version, server.version + 1}
                /\ \A n \in Tasks : task'[n].answered =>
                      \/ task[n].answered /\ task'[n].data = task[n].data
                      \/ task'[n].data = server'
    BY <1>v
  <1>1. CASE UNCHANGED <<server, task, busy>>
    BY <1>1
  <1>2. ASSUME NEW step \in {"save", "delegate", "book", "reset"}, Press(step)
        PROVE  /\ UNCHANGED server
               /\ \A n \in Tasks : task'[n].answered => task'[n] = task[n]
    <2>1. UNCHANGED server
      BY <1>2 DEF Press
    <2>. QED BY <1>2, <2>1, PressTyped
  <1>3. ASSUME NEW n \in Tasks, Serve(n)
        PROVE  /\ server'.version = server.version + 1
               /\ \A m \in Tasks : task'[m].answered =>
                     \/ task[m].answered /\ task'[m].data = task[m].data
                     \/ task'[m].data = server'
    <2>. DEFINE action == IF task[n].step = "delegate" THEN "save" ELSE task[n].step
    <2>1. /\ CarryOut(action, task[n].payload) /\ task[n].payload \in Briefings
          /\ task'[n].data = server'
          /\ \A m \in Tasks : m # n => task'[m] = Disturbed(action)[m]
      BY <1>3, ServeEffect
    <2>. HIDE DEF action
    <2>2. server'.version = server.version + 1
      BY <2>1, CarryOutTyped
    <2>3. \A m \in Tasks : m # n => /\ task'[m].answered = task[m].answered
                                    /\ task'[m].data = task[m].data
      BY <2>1, DisturbedTyped
    <2>. QED BY <2>1, <2>2, <2>3
  <1>4. ASSUME NEW n \in Tasks, SavedThenScan(n)
        PROVE  /\ UNCHANGED server
               /\ \A m \in Tasks : task'[m].answered => task'[m] = task[m]
    <2>1. UNCHANGED server
      BY <1>4 DEF SavedThenScan
    <2>. QED BY <1>4, <2>1, SavedEffect
  <1>5. ASSUME NEW n \in Tasks, Finish(n), UNCHANGED server
        PROVE  \A m \in Tasks : task'[m].answered => task'[m] = task[m]
    BY <1>5, FinishEffect
  <1>6. ASSUME NEW action, NEW b \in Briefings, Elsewhere(action, b)
        PROVE  /\ server'.version = server.version + 1
               /\ \A m \in Tasks : task'[m].answered =>
                     task[m].answered /\ task'[m].data = task[m].data
    <2>1. CarryOut(action, b) /\ task' = Disturbed(action)
      BY <1>6 DEF Elsewhere
    <2>. QED BY <2>1, CarryOutTyped, DisturbedTyped
  <1>7. \A n \in Tasks : Answered(n) \/ Fails(n) => Finish(n) /\ UNCHANGED server
    BY DEF Answered, Fails
  <1>. QED
    BY <1>1, <1>2, <1>3, <1>4, <1>5, <1>6, <1>7, QuietSteps
       DEF Next, PressSave, PressDelegate, PressReset, PressBook

LEMMA StepVersions == DashboardTypeOK /\ VersionsKnown /\ [Next]_vars => VersionsKnown'
  <1>. SUFFICES ASSUME DashboardTypeOK, VersionsKnown, [Next]_vars PROVE VersionsKnown'
    OBVIOUS
  <1>1. /\ server.version \in Nat /\ server'.version \in Nat
        /\ server.version <= server'.version
    BY StepStore
  <1>2. /\ \A data \in Shown : data.version \in Nat
        /\ \A n \in Tasks : task[n].data.version \in Nat
    BY DashboardAssumption DEF DashboardTypeOK, Shown, Snapshot, Task
  <1>3. ASSUME NEW data \in Shown' PROVE data.version <= server'.version
    <2>1. CASE data \in Shown
      BY <2>1, <1>1, <1>2 DEF VersionsKnown
    <2>2. CASE data = server
      BY <2>2, <1>1
    <2>3. ASSUME NEW n \in Tasks, task[n].answered, data = task[n].data
          PROVE  data.version <= server'.version
      BY <2>3, <1>1, <1>2 DEF VersionsKnown
    <2>. QED BY <2>1, <2>2, <2>3, StepShows
  <1>4. ASSUME NEW n \in Tasks, task'[n].answered PROVE task'[n].data.version <= server'.version
    <2>1. CASE task[n].answered /\ task'[n].data = task[n].data
      BY <2>1, <1>1, <1>2 DEF VersionsKnown
    <2>2. CASE task'[n].data = server'
      BY <2>2, <1>1
    <2>. QED BY <1>4, <2>1, <2>2, StepStore
  <1>. QED BY <1>3, <1>4 DEF VersionsKnown

\* What the page shows after the scan it goes on showing.
LEMMA ShownAfterScan ==
    ASSUME DashboardTypeOK, [Next]_vars, NEW s \in Nat, ScannedAt(s), server'.quoting
    PROVE  /\ server'.version >= s
           /\ \A data \in Shown' : data.version >= s => data.quoting
           /\ \A n \in Tasks : task'[n].answered =>
                 task'[n].data.version >= s /\ task'[n].data.quoting
  <1>1. /\ server.version \in Nat /\ server'.version \in Nat
        /\ server.version <= server'.version
    BY StepStore
  <1>2. server'.version >= s
    BY <1>1 DEF ScannedAt
  <1>3. \A data \in Shown' : data.version >= s => data.quoting
    BY StepShows DEF ScannedAt
  <1>4. \A n \in Tasks : task'[n].answered =>
           task'[n].data.version >= s /\ task'[n].data.quoting
    BY <1>2, StepStore DEF ScannedAt
  <1>. QED BY <1>2, <1>3, <1>4

LEMMA StepScan ==
    DashboardTypeOK /\ OneTask /\ VersionsKnown /\ ScanStands /\ [Next]_vars => ScanStands'
  <1>. SUFFICES ASSUME DashboardTypeOK, OneTask, VersionsKnown, ScanStands, [Next]_vars, scans' # 0
                PROVE  ~excused' /\ scans' = 1 /\ \E s \in Nat : ScannedAt(s)'
    BY DEF ScanStands
  <1>v. /\ server.version \in Nat /\ view.version \in Nat
        /\ \A data \in bodies : data.version \in Nat
    BY DashboardAssumption DEF DashboardTypeOK, Snapshot
  <1>x. ASSUME NEW reason, Excuse(reason)
        PROVE  ~excused' /\ ~reason /\ ~excused /\ scans' = scans
    BY <1>x DEF Excuse
  \* Nothing is scanned: the scan stands as it stood.
  <1>k. ASSUME UNCHANGED scans, ~excused', server'.quoting \/ ~server.quoting,
               \A n \in Tasks : /\ task'[n].step \in {task[n].step, "idle", "save", "book", "reset"}
                                /\ task'[n].step = "scan" /\ task[n].answered => task'[n].answered,
               NEW s \in Nat, ScannedAt(s),
               view'.version >= s \/ \E n \in Tasks : task'[n].step = "scan"
        PROVE  ~excused' /\ scans' = 1 /\ \E z \in Nat : ScannedAt(z)'
    <2>1. server'.quoting
      BY <1>k DEF ScannedAt
    <2>2. \A n \in Tasks : /\ task'[n].step # "delegate"
                           /\ task'[n].step = "scan" => task'[n].answered
      BY <1>k DEF ScannedAt
    <2>3. ScannedAt(s)'
      BY <1>k, <2>1, <2>2, ShownAfterScan DEF ScannedAt
    <2>. QED BY <1>k, <2>3 DEF ScanStands
  <1>s. ASSUME scans # 0 PROVE ~excused /\ scans = 1 /\ \E s \in Nat : ScannedAt(s)
    BY <1>s DEF ScanStands
  <1>1. ASSUME NEW data \in bodies, BodyRead(data)
        PROVE  ~excused' /\ scans' = 1 /\ \E s \in Nat : ScannedAt(s)'
    <2>1. /\ UNCHANGED scans /\ ~excused' /\ ~(data.version < view.version)
          /\ view' = data /\ UNCHANGED <<server, task>>
      BY <1>1, <1>x DEF BodyRead
    <2>2. PICK s \in Nat : ScannedAt(s)
      BY <2>1, <1>s
    <2>3. view'.version >= s \/ \E n \in Tasks : task'[n].step = "scan"
      BY <2>1, <2>2, <1>v DEF ScannedAt
    <2>. QED BY <2>1, <2>2, <2>3, <1>k
  <1>2. CASE UNCHANGED <<server, task, view, scans, excused>>
    <2>1. PICK s \in Nat : ~excused /\ ScannedAt(s)
      BY <1>2, <1>s
    <2>2. view'.version >= s \/ \E n \in Tasks : task'[n].step = "scan"
      BY <1>2, <2>1 DEF ScannedAt
    <2>. QED BY <1>2, <2>1, <2>2, <1>k
  <1>3. ASSUME NEW step \in {"save", "delegate", "book", "reset"}, Press(step),
               step = "delegate" => ~hasQuoteCalls
        PROVE  ~excused' /\ scans' = 1 /\ \E s \in Nat : ScannedAt(s)'
    <2>1. UNCHANGED <<server, view, scans>> /\ ~excused' /\ Idling = Tasks
      BY <1>3, <1>x DEF Press
    <2>2. PICK s \in Nat : ScannedAt(s)
      BY <2>1, <1>s
    <2>3. view.version >= s /\ view.quoting
      BY <2>1, <2>2 DEF ScannedAt, Idling, Shown
    <2>4. step # "delegate"
      BY <1>3, <2>3 DEF hasQuoteCalls
    <2>5. PICK n \in Tasks : /\ task'[n].step = step
                             /\ \A m \in Tasks : m # n => task'[m] = task[m]
      BY <1>3, PressTyped
    <2>6. \A m \in Tasks : /\ task'[m].step \in {task[m].step, "idle", "save", "book", "reset"}
                           /\ task'[m].step = "scan" /\ task[m].answered => task'[m].answered
      BY <2>4, <2>5
    <2>. QED BY <2>1, <2>2, <2>3, <2>6, <1>k
  <1>4. ASSUME NEW n \in Tasks, Serve(n)
        PROVE  ~excused' /\ scans' = 1 /\ \E s \in Nat : ScannedAt(s)'
    <2>. DEFINE action == IF task[n].step = "delegate" THEN "save" ELSE task[n].step
    <2>1. /\ task[n].step # "idle" /\ ~task[n].answered
          /\ CarryOut(action, task[n].payload) /\ task[n].payload \in Briefings
          /\ task'[n].step = task[n].step /\ task'[n].answered /\ task'[n].data = server'
          /\ \A m \in Tasks : m # n => task'[m] = Disturbed(action)[m]
      BY <1>4, ServeEffect
    <2>2. /\ UNCHANGED <<polls, bodies, view, excused>>
          /\ action = "reset" => scans' = 0
          /\ action \notin {"scan", "reset"} => scans' = scans
          /\ action = "scan" => scans' = IF ~excused /\ scans < 2 THEN scans + 1 ELSE scans
      BY <1>4 DEF Serve, page
    <2>3. /\ server'.version = server.version + 1
          /\ action \notin {"scan", "reset"} => server'.quoting = server.quoting
          /\ action = "scan" => server'.quoting
      BY <2>1, CarryOutTyped
    <2>4. CASE action = "scan"
      <3>1. task[n].step = "scan"
        BY <2>4
      <3>2. scans = 0
        BY <2>1, <3>1, <1>s DEF ScannedAt
      <3>3. ~excused' /\ scans' = 1
        BY <2>2, <2>4, <3>2
      <3>4. \A m \in Tasks : m # n => task[m].step = "idle" /\ ~task[m].answered
        BY <2>1, <2>2, <3>3 DEF OneTask
      <3>5. \A m \in Tasks : m # n => task'[m].step = "idle" /\ ~task'[m].answered
        BY <2>1, <3>4, DisturbedTyped
      <3>s. PICK s \in Nat : s = server'.version
        BY <2>3, <1>v
      <3>6. \A data \in Shown' : ~(data.version >= s)
        <4>1. Shown' = Shown
          BY <2>2 DEF Shown
        <4>2. \A data \in Shown : data.version \in Nat /\ data.version <= server.version
          BY DashboardAssumption DEF VersionsKnown, DashboardTypeOK, Shown, Snapshot
        <4>. QED BY <4>1, <4>2, <2>3, <3>s, <1>v
      <3>7. ScannedAt(s)'
        BY <2>1, <2>3, <2>4, <3>s, <3>1, <3>5, <3>6 DEF ScannedAt
      <3>. QED BY <3>3, <3>7
    <2>5. CASE action \notin {"scan", "reset"}
      <3>1. PICK s \in Nat : ~excused /\ ScannedAt(s)
        BY <2>2, <2>5, <1>s
      <3>2. \A m \in Tasks : /\ task'[m].step = task[m].step
                             /\ task[m].answered => task'[m].answered
        BY <2>1, DisturbedTyped
      <3>3. view'.version >= s \/ \E m \in Tasks : task'[m].step = "scan"
        BY <2>2, <3>1, <3>2 DEF ScannedAt
      <3>. QED BY <2>2, <2>3, <2>5, <3>1, <3>2, <3>3, <1>k
    <2>. QED BY <2>2, <2>4, <2>5
  <1>5. ASSUME NEW n \in Tasks, SavedThenScan(n)
        PROVE  ~excused' /\ scans' = 1 /\ \E s \in Nat : ScannedAt(s)'
    <2>1. scans # 0
      BY <1>5 DEF SavedThenScan, history
    <2>. QED BY <1>5, <2>1, <1>s DEF SavedThenScan, ScannedAt
  <1>6. ASSUME NEW n \in Tasks, Answered(n)
        PROVE  ~excused' /\ scans' = 1 /\ \E s \in Nat : ScannedAt(s)'
    <2>1. /\ UNCHANGED <<server, scans, excused>> /\ task[n].answered
          /\ view' = task[n].data /\ Finish(n)
      BY <1>6 DEF Answered
    <2>2. PICK s \in Nat : ~excused /\ ScannedAt(s)
      BY <2>1, <1>s
    <2>3. view'.version >= s
      BY <2>1, <2>2 DEF ScannedAt
    <2>4. \A m \in Tasks : /\ task'[m].step \in {task[m].step, "idle", "save", "book", "reset"}
                           /\ task'[m].step = "scan" /\ task[m].answered => task'[m].answered
      BY <2>1, FinishEffect
    <2>. QED BY <2>1, <2>2, <2>3, <2>4, <1>k
  <1>7. ASSUME NEW n \in Tasks, Fails(n)
        PROVE  ~excused' /\ scans' = 1 /\ \E s \in Nat : ScannedAt(s)'
    BY <1>7, <1>x DEF Fails
  <1>8. ASSUME NEW action, NEW b \in Briefings, Elsewhere(action, b)
        PROVE  ~excused' /\ scans' = 1 /\ \E s \in Nat : ScannedAt(s)'
    <2>1. /\ CarryOut(action, b) /\ task' = Disturbed(action) /\ UNCHANGED <<view, scans, excused>>
          /\ action # "reset"
      BY <1>8 DEF Elsewhere, page
    <2>2. server'.quoting \/ ~server.quoting
      BY <2>1, CarryOutTyped
    <2>3. \A m \in Tasks : task'[m].step = task[m].step /\ (task[m].answered => task'[m].answered)
      BY <2>1, DisturbedTyped
    <2>4. PICK s \in Nat : ~excused /\ ScannedAt(s)
      BY <2>1, <1>s
    <2>5. view'.version >= s \/ \E m \in Tasks : task'[m].step = "scan"
      BY <2>1, <2>3, <2>4 DEF ScannedAt
    <2>. QED BY <2>1, <2>2, <2>3, <2>4, <2>5, <1>k
  <1>9. Poll \/ PollFails \/ (\E data \in polls : PollAnswered(data)) \/ ToggleEditing
           \/ (\E b \in Briefings : updateBriefing(b)) \/ UNCHANGED vars
        => UNCHANGED <<server, task, view, scans, excused>>
    BY DEF Poll, PollFails, PollAnswered, ToggleEditing, updateBriefing, vars, page, history
  <1>. QED
    BY <1>1, <1>2, <1>3, <1>4, <1>5, <1>6, <1>7, <1>8, <1>9
       DEF Next, PressSave, PressDelegate, PressReset, PressBook

(***************************************************************************)
(* The theorems.                                                           *)
(***************************************************************************)
\* The inductive invariant of the control room.
THEOREM DashboardInvariant == Spec => []DashboardInv
  <1>1. Init => DashboardInv
    BY InitInv
  <1>2. DashboardInv /\ [Next]_vars => DashboardInv'
    BY StepTyped, StepTyping, StepSave, StepOneTask, StepVersions, StepScan DEF DashboardInv
  <1>. QED BY <1>1, <1>2, PTL DEF Spec

\* Type correctness of the page, its polls and its presses.
THEOREM DashboardTyped == Spec => []DashboardTypeOK
  <1>1. DashboardInv => DashboardTypeOK
    BY DEF DashboardInv
  <1>. QED BY <1>1, DashboardInvariant, PTL

\* No poll writes into what the operator types, but one whose body was being
\* read as the editing began.
THEOREM DashboardKeepsTyping == Spec => []TypingIsKept
  <1>1. DashboardInv => TypingIsKept
    BY DEF DashboardInv, TypingStands, TypingIsKept
  <1>. QED BY <1>1, DashboardInvariant, PTL

\* A page scans the market once between resets, with the three excuses.
THEOREM DashboardScansOnce == Spec => []OneScan
  <1>1. DashboardInv => OneScan
    BY DEF DashboardInv, ScanStands, OneScan
  <1>. QED BY <1>1, DashboardInvariant, PTL

\* The calls of a delegation follow the briefing saved for it.
THEOREM DashboardFollowsBriefing == Spec => CallsFollowTheSavedBriefing
  <1>1. DashboardInv /\ [Next]_vars =>
           [\A n \in Tasks :
              (task[n].step = "scan" /\ ~task[n].answered /\ task'[n].answered)
                 => server.briefing = task[n].payload \/ task[n].disturbed]_vars
    BY DEF DashboardInv, SaveStands
  <1>. QED BY <1>1, DashboardInvariant, PTL DEF Spec, CallsFollowTheSavedBriefing

=============================================================================
