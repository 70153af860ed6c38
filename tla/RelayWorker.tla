---------------------------- MODULE RelayWorker ----------------------------
(***************************************************************************)
(* One streamed call with Twilio: the call is dialed, Twilio asks for its  *)
(* TwiML, connects a media stream to the relay worker, and the worker puts *)
(* a realtime session behind it (workers/realtime-relay/src/index.ts).     *)
(*                                                                         *)
(* The worker is one thread.  It runs the listeners of two sockets and an  *)
(* initialisation that awaits an authorisation, a token and the upstream   *)
(* connection; anything may happen to the stream at each await.  Its       *)
(* reports are fetches of their own that may fail or overtake one another; *)
(* the server applies each as relay-events/route.ts does.                  *)
(*                                                                         *)
(* A frame of audio is its number.  As the WebSocket standard has it, a    *)
(* message is dispatched only while its socket is open.  Left out: what    *)
(* the agent says, messages the parsers turn down, and Twilio's own status *)
(* callbacks, which Webhooks has.                                          *)
(***************************************************************************)
EXTENDS Integers, Sequences

CONSTANTS PendingCap,   \* frames kept until the session is open (150)
          MaxFrames,
          MaxResponses

ASSUME RelayAssumption ==
    PendingCap \in Nat /\ MaxFrames \in Nat /\ MaxResponses \in Nat

VARIABLES twilio,       \* the media stream, as the worker's socket has it
          callId,       \* whether the start message named the call
          init,         \* what the initialisation awaits
          upstream,     \* the socket of the realtime session
          session,      \* whether the session announced itself
          heard,        \* frames Twilio has sent
          pendingAudio,
          forwarded,    \* frames sent upstream
          reports,      \* reports sent, oldest first
          landed, lost, \* which of them reached the server, or never will
          status,       \* the call's status in the snapshot
          openedAt,     \* history: frames heard when the session opened
          createdIn,    \* history: twilio, when upstream was created
          overtaken     \* history: a report was delivered after a later one

sockets == <<twilio, upstream>>
audio == <<heard, pendingAudio, forwarded, openedAt>>
server == <<landed, lost, status, overtaken>>
vars == <<sockets, callId, init, session, audio, reports, server, createdIn>>

SocketState == {"none", "connecting", "open", "closing", "closed"}
EventType == {"stream.started", "session.created", "response.done", "stream.stopped", "relay.error"}

RelayTypeOK ==
    /\ twilio \in SocketState /\ upstream \in SocketState
    /\ createdIn \in {"none", "open", "closing", "closed"}
    /\ callId \in BOOLEAN /\ session \in BOOLEAN /\ overtaken \in BOOLEAN
    /\ init \in {"none", "authorizing", "token", "done", "failed"}
    /\ heard \in 0..MaxFrames /\ openedAt \in 0..MaxFrames
    /\ pendingAudio \in Seq(1..MaxFrames) /\ Len(pendingAudio) <= PendingCap
    /\ forwarded \in Seq(1..MaxFrames)
    /\ reports \in Seq(EventType) /\ landed \union lost \subseteq 1..Len(reports)
    /\ status \in {"DIALING", "IN_PROGRESS", "COMPLETED", "FAILED"}

\* dialStreamingCall has placed the call.
Init ==
    /\ twilio = "none" /\ upstream = "none" /\ createdIn = "none"
    /\ init = "none" /\ callId = FALSE /\ session = FALSE
    /\ heard = 0 /\ openedAt = 0 /\ pendingAudio = <<>> /\ forwarded = <<>>
    /\ reports = <<>> /\ landed = {} /\ lost = {} /\ overtaken = FALSE
    /\ status = "DIALING"

closeSocket(state) == IF state \in {"connecting", "open"} THEN "closing" ELSE state

reportEvent(type) == reports' = Append(reports, type)

fail(named) ==
    /\ IF named THEN reportEvent("relay.error") ELSE UNCHANGED reports
    /\ twilio' = closeSocket(twilio)
    /\ upstream' = closeSocket(upstream)

(***************************************************************************)
(* The stream is set up.                                                   *)
(***************************************************************************)
\* The callee answers; the TwiML names the stream.
streamingTwiml ==
    /\ twilio = "none"
    /\ twilio' = "connecting"
    /\ UNCHANGED <<upstream, callId, init, session, audio, reports, server, createdIn>>

\* The worker accepts the socket or turns its signature down.
handleTwilioStream ==
    /\ twilio = "connecting"
    /\ twilio' \in {"open", "closed"}
    /\ UNCHANGED <<upstream, callId, init, session, audio, reports, server, createdIn>>

OnStart ==
    /\ twilio = "open" /\ init = "none"
    /\ callId' \in BOOLEAN
    /\ IF callId'
       THEN init' = "authorizing" /\ UNCHANGED <<sockets, reports>>
       ELSE init' = "failed" /\ fail(FALSE)
    /\ UNCHANGED <<session, audio, server, createdIn>>

\* Mutant: a rejected initialisation is only logged.
InitThrowsQuietly ==
    /\ init \in {"authorizing", "token"}
    /\ init' = "failed"
    /\ UNCHANGED <<sockets, reports, callId, session, audio, server, createdIn>>

\* The authorisation does not match, or there is no token.
InitThrows ==
    /\ init \in {"authorizing", "token"}
    /\ init' = "failed"
    /\ fail(callId)
    /\ UNCHANGED <<callId, session, audio, server, createdIn>>

streamAuthorizationValid ==
    /\ init = "authorizing"
    /\ init' = "token"
    /\ reportEvent("stream.started")
    /\ UNCHANGED <<sockets, callId, session, audio, server, createdIn>>

\* The token route asks nothing about the call but that it exists, and the
\* worker does not look at the stream again: the session is created even for
\* a stream that has ended.
fetchRealtimeToken ==
    /\ init = "token"
    /\ init' = "done"
    /\ upstream' = "connecting"
    /\ createdIn' = twilio
    /\ UNCHANGED <<twilio, callId, session, audio, reports, server>>

\* Mutant: the frames kept are not sent.
OnUpstreamOpenForgets ==
    /\ upstream = "connecting"
    /\ upstream' = "open"
    /\ pendingAudio' = <<>>
    /\ openedAt' = heard
    /\ UNCHANGED <<twilio, callId, init, session, heard, forwarded, reports, server, createdIn>>

\* The frames kept so far go first, then the agent is asked to speak.
OnUpstreamOpen ==
    /\ upstream = "connecting"
    /\ upstream' = "open"
    /\ forwarded' = forwarded \o pendingAudio
    /\ pendingAudio' = <<>>
    /\ openedAt' = heard
    /\ UNCHANGED <<twilio, callId, init, session, heard, reports, server, createdIn>>

(***************************************************************************)
(* The stream runs.                                                        *)
(***************************************************************************)
OnMedia ==
    /\ twilio = "open" /\ heard < MaxFrames
    /\ heard' = heard + 1
    /\ IF upstream = "open"
       THEN forwarded' = Append(forwarded, heard') /\ UNCHANGED pendingAudio
       ELSE /\ pendingAudio' = IF Len(pendingAudio) < PendingCap
                               THEN Append(pendingAudio, heard') ELSE pendingAudio
            /\ UNCHANGED forwarded
    /\ UNCHANGED <<sockets, callId, init, session, openedAt, reports, server, createdIn>>

OnSessionCreated ==
    /\ upstream = "open" /\ ~session
    /\ session' = TRUE
    /\ reportEvent("session.created")
    /\ UNCHANGED <<sockets, callId, init, audio, server, createdIn>>

Responses == Len(SelectSeq(reports, LAMBDA r : r = "response.done"))

OnResponseDone ==
    /\ upstream = "open" /\ session /\ Responses < MaxResponses
    /\ reportEvent("response.done")
    /\ UNCHANGED <<sockets, callId, init, session, audio, server, createdIn>>

\* An error event of the session or of its socket.
OnUpstreamError ==
    /\ upstream \in {"connecting", "open"}
    /\ fail(callId)
    /\ UNCHANGED <<callId, init, session, audio, server, createdIn>>

\* The session ends by itself, or the close the worker asked for is complete.
OnUpstreamClose ==
    /\ upstream \in {"open", "closing"}
    /\ upstream' = "closed"
    /\ twilio' = closeSocket(twilio)
    /\ UNCHANGED <<callId, init, session, audio, reports, server, createdIn>>

\* Mutant: a stop only ends the stream.
OnStopKeepsSession ==
    /\ twilio = "open"
    /\ IF callId THEN reportEvent("stream.stopped") ELSE UNCHANGED reports
    /\ twilio' = closeSocket(twilio)
    /\ UNCHANGED <<upstream, callId, init, session, audio, server, createdIn>>

OnStop ==
    /\ twilio = "open"
    /\ IF callId THEN reportEvent("stream.stopped") ELSE UNCHANGED reports
    /\ upstream' = closeSocket(upstream)
    /\ twilio' = closeSocket(twilio)
    /\ UNCHANGED <<callId, init, session, audio, server, createdIn>>

OnTwilioError ==
    /\ twilio = "open"
    /\ fail(callId)
    /\ UNCHANGED <<callId, init, session, audio, server, createdIn>>

\* Mutant: the end of the socket is not listened to.
OnTwilioCloseUnheard ==
    /\ twilio \in {"open", "closing"}
    /\ twilio' = "closed"
    /\ UNCHANGED <<upstream, callId, init, session, audio, reports, server, createdIn>>

\* Twilio disconnects, without a stop too, or completes the worker's close.
OnTwilioClose ==
    /\ twilio \in {"open", "closing"}
    /\ twilio' = "closed"
    /\ upstream' = closeSocket(upstream)
    /\ UNCHANGED <<callId, init, session, audio, reports, server, createdIn>>

(***************************************************************************)
(* The reports arrive.                                                     *)
(***************************************************************************)
StatusAfter(type) ==
    CASE type = "session.created" -> "IN_PROGRESS"
      [] type = "stream.stopped"  -> "COMPLETED"
      [] type = "relay.error"     -> "FAILED"
      [] OTHER                    -> status

UnderWay == 1..Len(reports) \ (landed \union lost)

ReportLands(n) ==
    /\ landed' = landed \union {n}
    /\ status' = StatusAfter(reports[n])
    /\ overtaken' = (overtaken \/ \E later \in landed : later > n)
    /\ UNCHANGED lost

ReportLost(n) == lost' = lost \union {n} /\ UNCHANGED <<landed, status, overtaken>>

Settle ==
    /\ \E n \in UnderWay : ReportLands(n) \/ ReportLost(n)
    /\ UNCHANGED <<sockets, callId, init, session, audio, reports, createdIn>>

Next ==
    \/ streamingTwiml \/ handleTwilioStream
    \/ OnStart \/ streamAuthorizationValid \/ fetchRealtimeToken \/ InitThrows
    \/ OnUpstreamOpen \/ OnSessionCreated \/ OnResponseDone
    \/ OnUpstreamError \/ OnUpstreamClose
    \/ OnMedia \/ OnStop \/ OnTwilioError \/ OnTwilioClose
    \/ Settle

\* What was asked for is answered, one way or another: the authorisation, the
\* token, the connection, a close.
Fairness ==
    /\ WF_vars(streamAuthorizationValid \/ InitThrows)
    /\ WF_vars(fetchRealtimeToken \/ InitThrows)
    /\ WF_vars(upstream = "connecting" /\ (OnUpstreamOpen \/ OnUpstreamError))
    /\ WF_vars(upstream = "closing" /\ OnUpstreamClose)
    /\ WF_vars(twilio = "closing" /\ OnTwilioClose)

Spec == Init /\ [][Next]_vars /\ Fairness

(***************************************************************************)
(* Properties.                                                             *)
(***************************************************************************)
Live(socket) == socket \in {"connecting", "open"}

\* While the session is open it has heard, in order and once, every frame but
\* those that found the buffer full.
AudioIsInOrder ==
    upstream = "open" =>
        /\ \A j, k \in 1..Len(forwarded) : j < k => forwarded[j] < forwarded[k]
        /\ {forwarded[k] : k \in 1..Len(forwarded)} =
              {n \in 1..heard : n <= PendingCap \/ n > openedAt}

\* No session outlives its stream, but one the initialisation created after
\* the stream's end: then nothing is left that would close it.
OnlyLateSessionsAreOrphans ==
    (twilio = "closed" /\ Live(upstream)) => createdIn = "closed"

\* A call is shown in progress after the stop of its stream was heard of only
\* if its reports overtook one another or its session was created too late.
StoppedStaysStopped ==
    (status = "IN_PROGRESS" /\ \E n \in landed : reports[n] = "stream.stopped")
      => overtaken \/ createdIn \in {"closing", "closed"}

\* A caller the stream was started for gets an agent, or the stream is closed
\* and Twilio goes on to hang up: nobody is left listening to silence.
CallerIsServed == init = "authorizing" ~> (upstream = "open" \/ twilio = "closed")

=============================================================================
