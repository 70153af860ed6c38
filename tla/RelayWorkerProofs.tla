------------------------- MODULE RelayWorkerProofs -------------------------
(***************************************************************************)
(* The types of the relay worker, that the session hears the audio in      *)
(* order, that only late sessions are orphans, and that a stopped call     *)
(* stays stopped, for every size of the buffer and any number of frames    *)
(* and responses.                                                          *)
(*                                                                         *)
(* OnlyLateSessionsAreOrphans rests on the order of the stream's life: it  *)
(* is not answered without being open once, and no session is there before *)
(* the initialisation is done (SessionIsMade).  StoppedStaysStopped is     *)
(* about the server, and the server sees reports: a stop ends the session  *)
(* there is, so a session announced after it was made after it             *)
(* (StopEndsSession, AnnouncedLate), and as long as no report overtook     *)
(* another the call is in progress by the last announcement                *)
(* (InProgressByLast).  AudioIsInOrder needs that until the session opens  *)
(* the buffer holds the first frames heard (Buffered).                     *)
(***************************************************************************)
EXTENDS RelayWorker, TLAPS

SessionIsMade ==
    /\ init # "done" => upstream = "none" /\ createdIn = "none"
    /\ twilio \in {"none", "connecting"} => init = "none"

Late == createdIn \in {"closing", "closed"}

StopEndsSession ==
    \A n \in 1..Len(reports) : reports[n] = "stream.stopped" =>
        /\ twilio \in {"closing", "closed"}
        /\ Live(upstream) => Late

AnnouncedLate ==
    \A m, n \in 1..Len(reports) :
        (m < n /\ reports[m] = "stream.stopped" /\ reports[n] = "session.created") => Late

InProgressByLast ==
    (status = "IN_PROGRESS" /\ ~overtaken) =>
        \E k \in landed :
            /\ reports[k] = "session.created"
            /\ \A n \in landed : n > k => reports[n] # "stream.stopped"

RelayInv ==
    /\ RelayTypeOK
    /\ SessionIsMade
    /\ OnlyLateSessionsAreOrphans
    /\ StopEndsSession
    /\ AnnouncedLate
    /\ InProgressByLast

\* A step that leaves the server alone and sends at most one report: a stop as
\* it closes the session, an announcement only of a session that lives.
LEMMA ReportsGrow ==
    ASSUME RelayInv, UNCHANGED server,
           reports' \in Seq(EventType),
           Len(reports') \in {Len(reports), Len(reports) + 1},
           \A n \in 1..Len(reports) : reports'[n] = reports[n],
           \A n \in 1..Len(reports') : n > Len(reports) =>
              /\ reports'[n] = "stream.stopped" =>
                    twilio' \in {"closing", "closed"} /\ (Live(upstream') => Late')
              /\ reports'[n] = "session.created" => Live(upstream),
           twilio \in {"closing", "closed"} => twilio' \in {"closing", "closed"},
           Live(upstream') => Live(upstream) \/ (twilio \in {"closing", "closed"} => Late'),
           Late => Late'
    PROVE  StopEndsSession' /\ AnnouncedLate' /\ InProgressByLast'
  <1>. Len(reports) \in Nat /\ Len(reports') \in Nat
    BY DEF RelayInv, RelayTypeOK
  <1>1. StopEndsSession'
    BY DEF RelayInv, StopEndsSession
  <1>2. AnnouncedLate'
    <2>. SUFFICES ASSUME NEW m \in 1..Len(reports'), NEW n \in 1..Len(reports'), m < n,
                         reports'[m] = "stream.stopped", reports'[n] = "session.created"
                  PROVE  Late'
      BY DEF AnnouncedLate, Late
    <2>1. m \in 1..Len(reports) /\ reports[m] = "stream.stopped"
      OBVIOUS
    <2>2. CASE n \in 1..Len(reports)
      BY <2>1, <2>2 DEF RelayInv, AnnouncedLate
    <2>3. CASE n > Len(reports)
      BY <2>1, <2>3 DEF RelayInv, StopEndsSession
    <2>. QED BY <2>2, <2>3
  <1>3. InProgressByLast'
    BY DEF RelayInv, RelayTypeOK, InProgressByLast, server
  <1>. QED BY <1>1, <1>2, <1>3

\* A report is added at the end.
LEMMA ReportAdded ==
    ASSUME RelayTypeOK, NEW type \in EventType, reportEvent(type)
    PROVE  /\ reports' \in Seq(EventType)
           /\ Len(reports') = Len(reports) + 1
           /\ \A n \in 1..Len(reports) : reports'[n] = reports[n]
           /\ \A n \in 1..Len(reports') : n > Len(reports) => reports'[n] = type
  BY DEF RelayTypeOK, reportEvent

\* The worker's close of the two sockets, with or without a report of it.
LEMMA FailEffect ==
    ASSUME RelayTypeOK, NEW named \in BOOLEAN, fail(named)
    PROVE  /\ reports' \in Seq(EventType)
           /\ Len(reports') \in {Len(reports), Len(reports) + 1}
           /\ \A n \in 1..Len(reports) : reports'[n] = reports[n]
           /\ \A n \in 1..Len(reports') : n > Len(reports) => reports'[n] = "relay.error"
           /\ twilio' = closeSocket(twilio) /\ upstream' = closeSocket(upstream)
  <1>1. CASE named
    <2>1. reportEvent("relay.error") BY <1>1 DEF fail
    <2>2. "relay.error" \in EventType BY DEF EventType
    <2>. QED BY <2>1, <2>2, ReportAdded DEF fail
  <1>2. CASE ~named
    BY <1>2 DEF fail, RelayTypeOK
  <1>. QED BY <1>1, <1>2

LEMMA InitInv == Init => RelayInv
  <1>. SUFFICES ASSUME Init PROVE RelayInv
    OBVIOUS
  <1>0. callId \in BOOLEAN /\ session \in BOOLEAN /\ overtaken \in BOOLEAN
    BY DEF Init
  <1>01. /\ heard \in 0..MaxFrames /\ openedAt \in 0..MaxFrames
         /\ pendingAudio \in Seq(1..MaxFrames) /\ Len(pendingAudio) <= PendingCap
         /\ forwarded \in Seq(1..MaxFrames) /\ reports \in Seq(EventType)
    BY RelayAssumption DEF Init
  <1>1. RelayTypeOK
    BY <1>0, <1>01 DEF Init, RelayTypeOK, SocketState
  <1>2. reports = <<>> /\ Len(reports) = 0 /\ status = "DIALING" /\ upstream = "none"
    BY DEF Init
  <1>3. StopEndsSession /\ AnnouncedLate
    BY <1>2 DEF StopEndsSession, AnnouncedLate
  <1>4. SessionIsMade
    BY DEF Init, SessionIsMade
  <1>5. OnlyLateSessionsAreOrphans
    BY <1>2 DEF OnlyLateSessionsAreOrphans, Live
  <1>6. InProgressByLast
    BY <1>2 DEF InProgressByLast
  <1>. QED
    BY <1>1, <1>3, <1>4, <1>5, <1>6 DEF RelayInv

(***************************************************************************)
(* The steps.                                                              *)
(***************************************************************************)
\* Types, step by step.
LEMMA StepTyped == RelayTypeOK /\ SessionIsMade /\ [Next]_vars => RelayTypeOK'
  <1>. SUFFICES ASSUME RelayTypeOK, SessionIsMade, [Next]_vars PROVE RelayTypeOK'
    OBVIOUS
  <1>. USE RelayAssumption
  <1>s. \A state \in SocketState : closeSocket(state) \in SocketState
    BY DEF SocketState, closeSocket
  <1>1. CASE streamingTwiml
    BY <1>1 DEF streamingTwiml, RelayTypeOK, SocketState, audio, server
  <1>2. CASE handleTwilioStream
    BY <1>2 DEF handleTwilioStream, RelayTypeOK, SocketState, audio, server
  <1>3. CASE OnStart
    <2>1. CASE callId'
      BY <1>3, <2>1 DEF OnStart, RelayTypeOK, audio, server, sockets
    <2>2. CASE ~callId'
      <3>1. fail(FALSE) /\ callId' \in BOOLEAN BY <1>3, <2>2 DEF OnStart
      <3>2. twilio' = closeSocket(twilio) /\ upstream' = closeSocket(upstream) /\ UNCHANGED reports
        BY <3>1 DEF fail
      <3>3. twilio' \in SocketState /\ upstream' \in SocketState
        BY <3>2, <1>s DEF RelayTypeOK
      <3>. QED BY <1>3, <2>2, <3>1, <3>2, <3>3 DEF OnStart, RelayTypeOK, audio, server
    <2>. QED BY <2>1, <2>2
  <1>4. CASE streamAuthorizationValid
    <2>1. "stream.started" \in EventType BY DEF EventType
    <2>. QED BY <1>4, <2>1, ReportAdded DEF streamAuthorizationValid, RelayTypeOK, audio, server, sockets
  <1>5. CASE fetchRealtimeToken
    BY <1>5 DEF fetchRealtimeToken, SessionIsMade, RelayTypeOK, audio, server, SocketState
  <1>6. CASE InitThrows
    BY <1>6, <1>s, FailEffect DEF InitThrows, RelayTypeOK, audio, server
  <1>7. CASE OnUpstreamOpen
    BY <1>7 DEF OnUpstreamOpen, RelayTypeOK, server, SocketState
  <1>8. CASE OnSessionCreated
    <2>1. "session.created" \in EventType BY DEF EventType
    <2>. QED BY <1>8, <2>1, ReportAdded DEF OnSessionCreated, RelayTypeOK, audio, server, sockets
  <1>9. CASE OnResponseDone
    <2>1. "response.done" \in EventType BY DEF EventType
    <2>. QED BY <1>9, <2>1, ReportAdded DEF OnResponseDone, RelayTypeOK, audio, server, sockets
  <1>10. CASE OnUpstreamError
    BY <1>10, <1>s, FailEffect DEF OnUpstreamError, RelayTypeOK, audio, server
  <1>11. CASE OnUpstreamClose
    BY <1>11, <1>s DEF OnUpstreamClose, RelayTypeOK, audio, server, SocketState
  <1>12. CASE OnMedia
    <2>1. heard' \in 1..MaxFrames
      BY <1>12 DEF OnMedia, RelayTypeOK
    <2>2. /\ forwarded' \in {forwarded, Append(forwarded, heard')}
          /\ \/ pendingAudio' = pendingAudio
             \/ pendingAudio' = Append(pendingAudio, heard') /\ Len(pendingAudio) < PendingCap
      BY <1>12 DEF OnMedia
    <2>3. forwarded' \in Seq(1..MaxFrames) /\ pendingAudio' \in Seq(1..MaxFrames)
      <3>1. ASSUME NEW seq \in Seq(1..MaxFrames) PROVE Append(seq, heard') \in Seq(1..MaxFrames)
        BY <2>1
      <3>2. forwarded \in Seq(1..MaxFrames) /\ pendingAudio \in Seq(1..MaxFrames)
        BY DEF RelayTypeOK
      <3>. QED BY <3>1, <3>2, <2>2
    <2>4. Len(pendingAudio') <= PendingCap
      <3>1. /\ pendingAudio \in Seq(1..MaxFrames) /\ Len(pendingAudio) \in Nat
            /\ Len(pendingAudio) <= PendingCap
        BY DEF RelayTypeOK
      <3>2. Len(Append(pendingAudio, heard')) = Len(pendingAudio) + 1
        BY <3>1, <2>1
      <3>. QED BY <3>1, <3>2, <2>2
    <2>. QED BY <1>12, <2>1, <2>3, <2>4 DEF OnMedia, RelayTypeOK, server, sockets
  <1>13. CASE OnStop
    <2>1. "stream.stopped" \in EventType BY DEF EventType
    <2>. QED BY <1>13, <1>s, <2>1, ReportAdded DEF OnStop, RelayTypeOK, audio, server
  <1>14. CASE OnTwilioError
    BY <1>14, <1>s, FailEffect DEF OnTwilioError, RelayTypeOK, audio, server
  <1>15. CASE OnTwilioClose
    BY <1>15, <1>s DEF OnTwilioClose, RelayTypeOK, audio, server, SocketState
  <1>16. CASE Settle
    BY <1>16 DEF Settle, ReportLands, ReportLost, StatusAfter, UnderWay, RelayTypeOK,
       audio, sockets, EventType
  <1>17. CASE UNCHANGED vars
    BY <1>17 DEF vars, sockets, audio, server, RelayTypeOK
  <1>. QED
    BY <1>1, <1>2, <1>3, <1>4, <1>5, <1>6, <1>7, <1>8, <1>9, <1>10, <1>11, <1>12,
       <1>13, <1>14, <1>15, <1>16, <1>17 DEF Next

\* The order of the stream's life.
LEMMA StepOrdered ==
    RelayTypeOK /\ SessionIsMade /\ OnlyLateSessionsAreOrphans /\ [Next]_vars
        => SessionIsMade' /\ OnlyLateSessionsAreOrphans'
  <1>. SUFFICES ASSUME RelayTypeOK, SessionIsMade, OnlyLateSessionsAreOrphans, [Next]_vars
                PROVE  SessionIsMade' /\ OnlyLateSessionsAreOrphans'
    OBVIOUS
  <1>. USE DEF SessionIsMade, OnlyLateSessionsAreOrphans, Live, closeSocket
  <1>0. \A named \in BOOLEAN : fail(named) =>
           twilio' = closeSocket(twilio) /\ upstream' = closeSocket(upstream)
    BY DEF fail
  <1>c. callId \in BOOLEAN /\ twilio \in SocketState /\ upstream \in SocketState
    BY DEF RelayTypeOK
  <1>1. CASE streamingTwiml
    BY <1>1 DEF streamingTwiml
  <1>2. CASE handleTwilioStream
    BY <1>2 DEF handleTwilioStream
  <1>3. CASE OnStart
    <2>1. CASE callId'
      BY <1>3, <2>1 DEF OnStart, sockets
    <2>2. CASE ~callId'
      BY <1>3, <2>2, <1>0 DEF OnStart
    <2>. QED BY <2>1, <2>2
  <1>4. CASE streamAuthorizationValid
    BY <1>4 DEF streamAuthorizationValid, sockets
  <1>5. CASE fetchRealtimeToken
    BY <1>5, <1>c DEF fetchRealtimeToken
  <1>6. CASE InitThrows
    BY <1>6, <1>0, <1>c DEF InitThrows
  <1>7. CASE OnUpstreamOpen
    BY <1>7 DEF OnUpstreamOpen
  <1>8. CASE OnSessionCreated
    BY <1>8 DEF OnSessionCreated, sockets
  <1>9. CASE OnResponseDone
    BY <1>9 DEF OnResponseDone, sockets
  <1>10. CASE OnUpstreamError
    BY <1>10, <1>0, <1>c DEF OnUpstreamError
  <1>11. CASE OnUpstreamClose
    BY <1>11 DEF OnUpstreamClose
  <1>12. CASE OnMedia
    BY <1>12 DEF OnMedia, sockets
  <1>13. CASE OnStop
    BY <1>13 DEF OnStop
  <1>14. CASE OnTwilioError
    BY <1>14, <1>0, <1>c DEF OnTwilioError
  <1>15. CASE OnTwilioClose
    BY <1>15 DEF OnTwilioClose
  <1>16. CASE Settle
    BY <1>16 DEF Settle, sockets
  <1>17. CASE UNCHANGED vars
    BY <1>17 DEF vars, sockets
  <1>. QED
    BY <1>1, <1>2, <1>3, <1>4, <1>5, <1>6, <1>7, <1>8, <1>9, <1>10, <1>11, <1>12,
       <1>13, <1>14, <1>15, <1>16, <1>17 DEF Next

\* What the server is told.
LEMMA StepReported == RelayInv /\ [Next]_vars => StopEndsSession' /\ AnnouncedLate' /\ InProgressByLast'
  <1>. SUFFICES ASSUME RelayInv, [Next]_vars
                PROVE  StopEndsSession' /\ AnnouncedLate' /\ InProgressByLast'
    OBVIOUS
  <1>. USE DEF Live, Late
  <1>t. RelayTypeOK /\ SessionIsMade
    BY DEF RelayInv
  <1>c. /\ callId \in BOOLEAN /\ twilio \in SocketState /\ upstream \in SocketState
        /\ reports \in Seq(EventType) /\ Len(reports) \in Nat
    BY <1>t DEF RelayTypeOK
  <1>e. EventType = {"stream.started", "session.created", "response.done", "stream.stopped", "relay.error"}
    BY DEF EventType
  <1>f. ASSUME NEW named \in BOOLEAN, fail(named), UNCHANGED <<server, createdIn>>
        PROVE  StopEndsSession' /\ AnnouncedLate' /\ InProgressByLast'
    BY <1>f, <1>t, <1>c, FailEffect, ReportsGrow DEF closeSocket
  <1>q. ASSUME UNCHANGED <<reports, server>>,
               twilio \in {"closing", "closed"} => twilio' \in {"closing", "closed"},
               Live(upstream') => Live(upstream) \/ (twilio \in {"closing", "closed"} => Late'),
               Late => Late'
        PROVE  StopEndsSession' /\ AnnouncedLate' /\ InProgressByLast'
    BY <1>q, <1>c, ReportsGrow
  <1>1. CASE streamingTwiml
    BY <1>1, <1>q DEF streamingTwiml, server
  <1>2. CASE handleTwilioStream
    BY <1>2, <1>q DEF handleTwilioStream, server
  <1>3. CASE OnStart
    <2>1. CASE callId'
      BY <1>3, <2>1, <1>q DEF OnStart, sockets
    <2>2. CASE ~callId'
      BY <1>3, <2>2, <1>f DEF OnStart
    <2>. QED BY <2>1, <2>2
  <1>4. CASE streamAuthorizationValid
    <2>1. "stream.started" \in EventType BY <1>e
    <2>. QED BY <1>4, <2>1, <1>t, ReportAdded, ReportsGrow DEF streamAuthorizationValid, sockets
  <1>5. CASE fetchRealtimeToken
    BY <1>5, <1>q, <1>t DEF fetchRealtimeToken, SessionIsMade
  <1>6. CASE InitThrows
    BY <1>6, <1>f, <1>c DEF InitThrows
  <1>7. CASE OnUpstreamOpen
    BY <1>7, <1>q DEF OnUpstreamOpen
  <1>8. CASE OnSessionCreated
    <2>1. "session.created" \in EventType BY <1>e
    <2>. QED BY <1>8, <2>1, <1>t, ReportAdded, ReportsGrow DEF OnSessionCreated, sockets
  <1>9. CASE OnResponseDone
    <2>1. "response.done" \in EventType BY <1>e
    <2>. QED BY <1>9, <2>1, <1>t, ReportAdded, ReportsGrow DEF OnResponseDone, sockets
  <1>10. CASE OnUpstreamError
    BY <1>10, <1>f, <1>c DEF OnUpstreamError
  <1>11. CASE OnUpstreamClose
    BY <1>11, <1>q DEF OnUpstreamClose, closeSocket
  <1>12. CASE OnMedia
    BY <1>12, <1>q DEF OnMedia, sockets
  <1>13. CASE OnStop
    <2>0. /\ twilio' = "closing" /\ ~Live(upstream')
          /\ UNCHANGED <<server, createdIn>>
      BY <1>13 DEF OnStop, closeSocket
    <2>1. CASE callId
      <3>1. "stream.stopped" \in EventType BY <1>e
      <3>2. reportEvent("stream.stopped") BY <1>13, <2>1 DEF OnStop
      <3>. QED BY <2>0, <3>1, <3>2, <1>t, ReportAdded, ReportsGrow
    <2>2. CASE ~callId
      BY <1>13, <2>0, <2>2, <1>q DEF OnStop
    <2>. QED BY <2>1, <2>2, <1>c
  <1>14. CASE OnTwilioError
    BY <1>14, <1>f, <1>c DEF OnTwilioError
  <1>15. CASE OnTwilioClose
    BY <1>15, <1>q DEF OnTwilioClose, closeSocket
  <1>16. CASE Settle
    <2>1. StopEndsSession' /\ AnnouncedLate'
      BY <1>16 DEF Settle, sockets, RelayInv, StopEndsSession, AnnouncedLate
    <2>2. InProgressByLast'
      <3>1. PICK n \in UnderWay : ReportLands(n) \/ ReportLost(n)
        BY <1>16 DEF Settle
      <3>2. CASE ReportLost(n)
        BY <1>16, <3>2 DEF Settle, ReportLost, RelayInv, InProgressByLast
      <3>3. CASE ReportLands(n)
        <4>. SUFFICES ASSUME status' = "IN_PROGRESS", ~overtaken'
                      PROVE  \E k \in landed' : /\ reports'[k] = "session.created"
                                 /\ \A m \in landed' : m > k => reports'[m] # "stream.stopped"
          BY DEF InProgressByLast
        <4>1. /\ landed' = landed \union {n} /\ UNCHANGED reports
              /\ ~overtaken /\ \A m \in landed : m <= n
              /\ status' = StatusAfter(reports[n])
              /\ n \in Nat /\ landed \subseteq Nat
          <5>1. n \in Nat /\ landed \subseteq Nat
            BY <3>1, <1>t, <1>c DEF UnderWay, RelayTypeOK
          <5>2. ~overtaken /\ ~(\E later \in landed : later > n)
            BY <3>3, <1>t DEF ReportLands, RelayTypeOK
          <5>. QED BY <1>16, <3>3, <5>1, <5>2 DEF Settle, ReportLands
        <4>2. CASE reports[n] = "session.created"
          BY <4>1, <4>2
        <4>3. CASE reports[n] # "session.created"
          <5>1. status = "IN_PROGRESS" /\ reports[n] # "stream.stopped"
            BY <4>1, <4>3 DEF StatusAfter
          <5>2. PICK k \in landed : /\ reports[k] = "session.created"
                                    /\ \A m \in landed : m > k => reports[m] # "stream.stopped"
            BY <4>1, <5>1 DEF RelayInv, InProgressByLast
          <5>. QED BY <4>1, <5>1, <5>2
        <4>. QED BY <4>2, <4>3
      <3>. QED BY <3>1, <3>2, <3>3
    <2>. QED BY <2>1, <2>2
  <1>17. CASE UNCHANGED vars
    BY <1>17, <1>q DEF vars, sockets
  <1>. QED
    BY <1>1, <1>2, <1>3, <1>4, <1>5, <1>6, <1>7, <1>8, <1>9, <1>10, <1>11, <1>12,
       <1>13, <1>14, <1>15, <1>16, <1>17 DEF Next

(***************************************************************************)
(* The audio.                                                              *)
(***************************************************************************)
\* Until the session is open nothing is sent, and the buffer holds the first
\* frames heard, as many as it has room for.
Buffered ==
    upstream \in {"none", "connecting"} =>
        /\ forwarded = <<>>
        /\ Len(pendingAudio) = IF heard < PendingCap THEN heard ELSE PendingCap
        /\ \A k \in 1..Len(pendingAudio) : pendingAudio[k] = k

AudioInv ==
    /\ Buffered
    /\ AudioIsInOrder
    /\ openedAt <= heard

\* A step on which no frame moves and no session opens.
LEMMA AudioStays ==
    ASSUME AudioInv, UNCHANGED audio,
           upstream' \in {"none", "connecting"} => upstream \in {"none", "connecting"},
           upstream' = "open" => upstream = "open"
    PROVE  AudioInv'
  BY DEF AudioInv, Buffered, AudioIsInOrder, audio

\* What was kept goes first when the session opens.
LEMMA OpeningFlushes == ASSUME RelayTypeOK, AudioInv, OnUpstreamOpen PROVE AudioInv'
  <1>1. /\ upstream = "connecting" /\ upstream' = "open"
        /\ forwarded' = forwarded \o pendingAudio /\ openedAt' = heard /\ heard' = heard
    BY DEF OnUpstreamOpen
  <1>2. /\ heard \in Nat /\ PendingCap \in Nat /\ heard <= MaxFrames /\ MaxFrames \in Nat
        /\ pendingAudio \in Seq(1..MaxFrames)
    BY RelayAssumption DEF RelayTypeOK
  <1>3. forwarded' = pendingAudio
    BY <1>1, <1>2 DEF AudioInv, Buffered
  <1>4. PICK n \in Nat : n = IF heard < PendingCap THEN heard ELSE PendingCap
    BY <1>2
  <1>5. Len(forwarded') = n /\ \A k \in 1..n : forwarded'[k] = k
    BY <1>1, <1>3, <1>4 DEF AudioInv, Buffered
  <1>6. {forwarded'[k] : k \in 1..n} = 1..n
    BY <1>5
  <1>7. 1..n = {k \in 1..heard : k <= PendingCap \/ k > heard}
    BY <1>2, <1>4
  <1>8. AudioIsInOrder'
    BY <1>1, <1>5, <1>6, <1>7 DEF AudioIsInOrder
  <1>. QED BY <1>1, <1>2, <1>8 DEF AudioInv, Buffered

\* A frame is sent to a session that is open, and kept otherwise if it fits.
LEMMA FramesInTurn == ASSUME RelayTypeOK, AudioInv, OnMedia PROVE AudioInv'
  <1>1. /\ heard' = heard + 1 /\ openedAt' = openedAt /\ upstream' = upstream
        /\ heard \in Nat /\ PendingCap \in Nat /\ openedAt \in Nat /\ openedAt <= heard
        /\ heard + 1 \in 1..MaxFrames
        /\ forwarded \in Seq(1..MaxFrames) /\ pendingAudio \in Seq(1..MaxFrames)
    BY RelayAssumption DEF OnMedia, RelayTypeOK, AudioInv, sockets
  <1>2. ASSUME NEW seq \in Seq(1..MaxFrames), NEW frame \in 1..MaxFrames
        PROVE  /\ Len(seq) \in Nat /\ Len(Append(seq, frame)) = Len(seq) + 1
               /\ \A k \in 1..Len(seq) : Append(seq, frame)[k] = seq[k]
               /\ Append(seq, frame)[Len(seq) + 1] = frame
    OBVIOUS
  <1>3. CASE upstream = "open"
    <2>1. forwarded' = Append(forwarded, heard + 1)
      BY <1>1, <1>3 DEF OnMedia
    <2>2. PICK n \in Nat : n = Len(forwarded)
      BY <1>1
    <2>3. /\ Len(forwarded') = n + 1 /\ forwarded'[n + 1] = heard + 1
          /\ \A k \in 1..n : forwarded'[k] = forwarded[k]
      BY <1>1, <1>2, <2>1, <2>2
    <2>4. /\ \A j, k \in 1..n : j < k => forwarded[j] < forwarded[k]
          /\ {forwarded[k] : k \in 1..n} = {f \in 1..heard : f <= PendingCap \/ f > openedAt}
      BY <1>3, <2>2 DEF AudioInv, AudioIsInOrder
    <2>5. \A k \in 1..n : forwarded[k] \in 1..heard
      BY <2>4
    <2>6. ASSUME NEW j \in 1..(n + 1), NEW k \in 1..(n + 1), j < k
          PROVE  forwarded'[j] < forwarded'[k]
      <3>1. j \in 1..n
        BY <2>6
      <3>2. CASE k \in 1..n
        BY <2>3, <2>4, <2>6, <3>1, <3>2
      <3>3. CASE k = n + 1
        BY <1>1, <2>3, <2>5, <3>1, <3>3
      <3>. QED BY <3>2, <3>3
    <2>7. {forwarded'[k] : k \in 1..(n + 1)} = {forwarded[k] : k \in 1..n} \cup {heard + 1}
      <3>1. \A k \in 1..(n + 1) : k \in 1..n \/ k = n + 1
        OBVIOUS
      <3>2. n + 1 \in 1..(n + 1) /\ \A k \in 1..n : k \in 1..(n + 1)
        OBVIOUS
      <3>. QED BY <2>3, <3>1, <3>2
    <2>8. {f \in 1..(heard + 1) : f <= PendingCap \/ f > openedAt} =
             {f \in 1..heard : f <= PendingCap \/ f > openedAt} \cup {heard + 1}
      BY <1>1
    <2>9. AudioIsInOrder'
      BY <1>1, <2>3, <2>4, <2>6, <2>7, <2>8 DEF AudioIsInOrder
    <2>. QED BY <1>1, <1>3, <2>9 DEF AudioInv, Buffered
  <1>4. CASE upstream \in {"none", "connecting"}
    <2>1. /\ forwarded' = forwarded
          /\ pendingAudio' = IF Len(pendingAudio) < PendingCap
                             THEN Append(pendingAudio, heard + 1) ELSE pendingAudio
      BY <1>1, <1>4 DEF OnMedia
    <2>2. /\ forwarded = <<>>
          /\ Len(pendingAudio) = IF heard < PendingCap THEN heard ELSE PendingCap
          /\ \A k \in 1..Len(pendingAudio) : pendingAudio[k] = k
      BY <1>4 DEF AudioInv, Buffered
    <2>3. CASE heard < PendingCap
      <3>1. Len(pendingAudio) = heard /\ pendingAudio' = Append(pendingAudio, heard + 1)
        BY <2>1, <2>2, <2>3
      <3>2. /\ Len(pendingAudio') = heard + 1 /\ pendingAudio'[heard + 1] = heard + 1
            /\ \A k \in 1..heard : pendingAudio'[k] = k
        BY <1>1, <1>2, <2>2, <3>1
      <3>3. /\ Len(pendingAudio') = IF heard' < PendingCap THEN heard' ELSE PendingCap
            /\ \A k \in 1..Len(pendingAudio') : pendingAudio'[k] = k
        BY <1>1, <2>3, <3>2
      <3>. QED BY <1>1, <1>4, <2>1, <2>2, <3>3 DEF AudioInv, Buffered, AudioIsInOrder
    <2>4. CASE ~(heard < PendingCap)
      <3>1. pendingAudio' = pendingAudio /\ Len(pendingAudio) = PendingCap
        BY <1>1, <2>1, <2>2, <2>4
      <3>. QED BY <1>1, <1>4, <2>1, <2>2, <2>4, <3>1 DEF AudioInv, Buffered, AudioIsInOrder
    <2>. QED BY <2>3, <2>4
  <1>5. CASE upstream \notin {"none", "connecting", "open"}
    BY <1>1, <1>5 DEF AudioInv, Buffered, AudioIsInOrder
  <1>. QED BY <1>3, <1>4, <1>5

LEMMA StepAudio == RelayTypeOK /\ SessionIsMade /\ AudioInv /\ [Next]_vars => AudioInv'
  <1>. SUFFICES ASSUME RelayTypeOK, SessionIsMade, AudioInv, [Next]_vars PROVE AudioInv'
    OBVIOUS
  <1>1. CASE OnUpstreamOpen
    BY <1>1, OpeningFlushes
  <1>2. CASE OnMedia
    BY <1>2, FramesInTurn
  <1>3. CASE fetchRealtimeToken
    BY <1>3, AudioStays DEF fetchRealtimeToken, SessionIsMade
  <1>4. CASE UNCHANGED <<upstream, audio>>
    BY <1>4, AudioStays
  <1>5. CASE upstream' = closeSocket(upstream) /\ UNCHANGED audio
    BY <1>5, AudioStays DEF closeSocket
  <1>6. CASE upstream' = "closed" /\ UNCHANGED audio
    BY <1>6, AudioStays
  <1>7. \A named \in BOOLEAN : fail(named) => upstream' = closeSocket(upstream)
    BY DEF fail
  <1>8. callId \in BOOLEAN
    BY DEF RelayTypeOK
  <1>9. ASSUME OnStart PROVE AudioInv'
    <2>1. UNCHANGED audio /\ (upstream' = upstream \/ upstream' = closeSocket(upstream))
      BY <1>7, <1>9 DEF OnStart, sockets
    <2>. QED BY <1>4, <1>5, <2>1
  <1>10. CASE InitThrows \/ OnUpstreamError \/ OnTwilioError
    <2>1. upstream' = closeSocket(upstream) /\ UNCHANGED audio
      BY <1>7, <1>8, <1>10 DEF InitThrows, OnUpstreamError, OnTwilioError
    <2>. QED BY <1>5, <2>1
  <1>. QED BY <1>1, <1>2, <1>3, <1>4, <1>5, <1>6, <1>9, <1>10
       DEF Next, vars, sockets, streamingTwiml, handleTwilioStream, streamAuthorizationValid,
           OnSessionCreated, OnResponseDone, OnUpstreamClose, OnStop, OnTwilioClose, Settle

(***************************************************************************)
(* The theorems.                                                           *)
(***************************************************************************)
\* The inductive invariant of the relay worker.
THEOREM RelayInvariant == Spec => []RelayInv
  <1>1. Init => RelayInv
    BY InitInv
  <1>2. RelayInv /\ [Next]_vars => RelayInv'
    BY StepTyped, StepOrdered, StepReported DEF RelayInv
  <1>. QED BY <1>1, <1>2, PTL DEF Spec

\* Type correctness of the sockets, the buffer and the reports.
THEOREM RelayTyped == Spec => []RelayTypeOK
  <1>1. RelayInv => RelayTypeOK
    BY DEF RelayInv
  <1>. QED BY <1>1, RelayInvariant, PTL

\* A realtime session outlives its stream only if the initialisation created
\* it after the stream's end: every other end of a stream closes it.
THEOREM RelayOrphansAreLate == Spec => []OnlyLateSessionsAreOrphans
  <1>1. RelayInv => OnlyLateSessionsAreOrphans
    BY DEF RelayInv
  <1>. QED BY <1>1, RelayInvariant, PTL

\* The server shows a stopped call in progress only if reports overtook one
\* another or the session was created too late.
THEOREM RelayStopped == Spec => []StoppedStaysStopped
  <1>1. RelayInv => StoppedStaysStopped
    <2>. SUFFICES ASSUME RelayInv, status = "IN_PROGRESS", ~overtaken,
                         NEW m \in landed, reports[m] = "stream.stopped"
                  PROVE  Late
      BY DEF StoppedStaysStopped, Late
    <2>1. PICK k \in landed : /\ reports[k] = "session.created"
                              /\ \A n \in landed : n > k => reports[n] # "stream.stopped"
      BY DEF RelayInv, InProgressByLast
    <2>2. m < k /\ m \in 1..Len(reports) /\ k \in 1..Len(reports)
      BY <2>1 DEF RelayInv, RelayTypeOK
    <2>. QED BY <2>1, <2>2 DEF RelayInv, AnnouncedLate
  <1>. QED BY <1>1, RelayInvariant, PTL

\* Whenever the session opens, and however many frames the buffer takes, the
\* open session has heard in order and once every frame that was not dropped.
THEOREM RelayAudioInOrder == Spec => []AudioIsInOrder
  <1>1. Init => AudioInv
    BY RelayAssumption DEF Init, AudioInv, Buffered, AudioIsInOrder
  <1>2. RelayInv => RelayTypeOK /\ SessionIsMade
    BY DEF RelayInv
  <1>3. AudioInv => AudioIsInOrder
    BY DEF AudioInv
  <1>. QED BY <1>1, <1>2, <1>3, RelayInvariant, StepAudio, PTL DEF Spec

=============================================================================
