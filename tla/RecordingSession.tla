-------------------------- MODULE RecordingSession --------------------------
(***************************************************************************)
(* Recording a trace from the UI (plugin dev.perfetto.RecordTraceV2):      *)
(* RecordingManager and CurrentTracingSession (recording_manager.ts), the  *)
(* ConsumerIpcTracingSession that a target returns, and the TracingProtocol*)
(* it talks through to the tracing service on the device.                  *)
(*                                                                         *)
(* A recording is a number: the manager keeps the latest one.  Each has a  *)
(* stream of its own to the service.  The stream delivers one or more      *)
(* reply frames at a time; JavaScript parses all of them before it resumes *)
(* the functions that awaited a reply, in the order of the replies and     *)
(* before it does anything else.                                           *)
(*                                                                         *)
(* The service's side is ConsumerIPCService and its endpoint, on one       *)
(* thread: it handles the requests in order, answers some of them at once  *)
(* and others from tasks that it posts, and its answers depend on whether  *)
(* the session still exists.  What a tracing session does otherwise is     *)
(* module TracingSession; configurations with triggers are left out.       *)
(***************************************************************************)
EXTENDS Integers, Sequences, SequencesExt, FiniteSets

CONSTANTS
    MaxRecordings,  \* bound on the recordings that the user starts
    Packets,        \* the slices of each packet of a trace, as a sequence of numbers
    Reachable,      \* the recordings whose target can be connected to
    MaxPolls,       \* bound on the polls of the buffer usage, per recording
    Timed,          \* the config has a duration
    MayDisconnect,  \* streams may break
    None

Recordings == 1 .. MaxRecordings

ASSUME RecordingAssumption ==
    /\ MaxRecordings \in Nat
    /\ \A i \in DOMAIN Packets : Packets[i] \in Nat \ {0}
    /\ Reachable \subseteq Recordings
    /\ MaxPolls \in Nat
    /\ Timed \in BOOLEAN /\ MayDisconnect \in BOOLEAN

\* The slices of a trace in the order of ReadBuffers.
Slices ==
    FlattenSeq([p \in DOMAIN Packets |->
        [i \in 1 .. Packets[p] |-> [packet |-> p, slice |-> i, last |-> i = Packets[p]]]])

\* What a reader of the file should see.
WholeTrace == [p \in DOMAIN Packets |-> SelectSeq(Slices, LAMBDA s : s.packet = p)]

VARIABLES
    current,    \* RecordingManager._tracingSession, 0 when there is none
    recording,  \* the CurrentTracingSession with its session and protocol
    requests,   \* recording -> frames on their way to the service
    replies,    \* recording -> frames on their way back
    service     \* recording -> the consumer and its session in the service

vars == <<current, recording, requests, replies, service>>

NewRecording ==
    [phase |-> "none",        \* none, Initializing, error or session
     state |-> None,          \* ConsumerIpcTracingSession._state
     connected |-> FALSE,     \* the stream's
     pendingInvokes |-> {}, requestId |-> 2,
     tx |-> <<>>,             \* the frames that this step sends
     rxBuf |-> <<>>,          \* frames received but not parsed
     resumes |-> <<>>,        \* replies parsed, whose functions resume next
     curPacketSlices |-> <<>>, traceBuf |-> <<>>,
     polls |-> 0,
     cancelled |-> FALSE,     \* cancel() was not ignored
     opened |-> None]         \* the trace that was opened, once it was

NewService ==
    [tracing |-> "none",      \* none, started, disabling, disabled or freed
     enable |-> None,         \* enable_tracing_response
     stats |-> None,          \* get_trace_stats_response
     flushes |-> {},          \* flushes that will still be answered
     read |-> 0,              \* slices that were read
     tasks |-> <<>>]          \* replies, and parts of one, that are posted

Init ==
    /\ current = 0
    /\ recording = [r \in Recordings |-> NewRecording]
    /\ requests = [r \in Recordings |-> <<>>]
    /\ replies = [r \in Recordings |-> <<>>]
    /\ service = [r \in Recordings |-> NewService]

-----------------------------------------------------------------------------
(***************************************************************************)
(* TracingProtocol and ConsumerIpcTracingSession.  The operators take and  *)
(* return the recording, m, that they work on.                             *)
(***************************************************************************)
\* A frame written to a closed stream is dropped without an error.
Invoke(m, method) ==
    LET call == [id |-> m.requestId, method |-> method]
    IN  [m EXCEPT !.requestId = @ + 1,
                  !.tx = IF m.connected THEN Append(@, call) ELSE @,
                  !.pendingInvokes = @ \cup {call}]

\* The listener of CurrentTracingSession opens a trace when it is finished.
SetState(m, state) ==
    [m EXCEPT !.state = state,
              !.opened = IF state = "FINISHED" /\ @ = None THEN m.traceBuf ELSE @]

\* TracingProtocol.close() up to its call of onClose.
CloseStream(m) == [m EXCEPT !.connected = FALSE, !.pendingInvokes = {}]

\* setState('ERRORED') precedes the close(), whose onProtocolClose finds no
\* recording to fail.
Fail(m) == CloseStream(SetState(m, "ERRORED"))

OnProtocolClose(m) == IF m.state = "RECORDING" THEN Fail(m) ELSE m

Stop(m) == Invoke(SetState(m, "STOPPING"), "Flush")

Cancel(m) ==
    IF m.state \in {"RECORDING", "STOPPING"}
    THEN [Invoke(m, "FreeBuffers") EXCEPT !.cancelled = TRUE]
    ELSE m

OnTraceStopped(m, error) ==
    CASE error -> Fail(m)
      [] ~error /\ m.state \in {"STOPPING", "RECORDING"}
           -> Invoke(SetState(m, "STOPPING"), "ReadBuffers")
      [] OTHER -> m

\* Mutant: every slice ends a packet.
PushSliceAsPacket(m, slice) ==
    [m EXCEPT !.traceBuf = Append(@, Append(m.curPacketSlices, slice))]

\* PacketAssembler.pushSlices() and the append to traceBuf.
PushSlice(m, slice) ==
    LET slices == Append(m.curPacketSlices, slice)
    IN  IF slice.last
        THEN [m EXCEPT !.curPacketSlices = <<>>, !.traceBuf = Append(@, slices)]
        ELSE [m EXCEPT !.curPacketSlices = slices]

\* Mutant: the stream of a finished recording stays open.
OnTraceDataKeepsStream(m, slices, hasMore) ==
    LET got == FoldLeft(PushSlice, m, slices)
    IN  IF hasMore THEN got ELSE SetState(got, "FINISHED")

OnTraceData(m, slices, hasMore) ==
    LET got == FoldLeft(PushSlice, m, slices)
    IN  IF hasMore THEN got ELSE CloseStream(SetState(got, "FINISHED"))

\* A reply that nothing waits for fails an assertion, and the rejection of a
\* call other than Flush is thrown.
Throws(m, frame) ==
    \/ [id |-> frame.id, method |-> frame.method] \notin m.pendingInvokes
    \/ ~frame.success /\ frame.method # "Flush"

ParseFrame(m, frame) ==
    LET done == IF frame.hasMore THEN {} ELSE {[id |-> frame.id, method |-> frame.method]}
        got == IF frame.method = "ReadBuffers"
               THEN OnTraceData(m, frame.slices, frame.hasMore)
               ELSE [m EXCEPT !.resumes = Append(@, frame)]
    IN  [got EXCEPT !.pendingInvokes = @ \ done]

\* An exception ends the loop over the frames: the rest of them stays in the
\* buffer until the stream delivers more.
ParseFrames(m, frames) ==
    LET Next1(acc, frame) ==
            CASE acc.threw -> [acc EXCEPT !.m.rxBuf = Append(@, frame)]
              [] ~acc.threw /\ Throws(acc.m, frame) -> [acc EXCEPT !.threw = TRUE]
              [] OTHER -> [acc EXCEPT !.m = ParseFrame(@, frame)]
    IN  FoldLeft(Next1, [m |-> [m EXCEPT !.rxBuf = <<>>], threw |-> FALSE],
                 m.rxBuf \o frames).m

\* Mutant: stop() only flushes.
ResumeWithoutDisable(m, frame) ==
    CASE frame.method = "EnableTracing" -> OnTraceStopped(m, frame.error)
      [] frame.method = "FreeBuffers" -> Fail(m)
      [] OTHER -> m

\* What follows the await of a reply: in start(), stop() and cancel().
Resume(m, frame) ==
    CASE frame.method = "EnableTracing" -> OnTraceStopped(m, frame.error)
      [] frame.method = "Flush" -> Invoke(m, "DisableTracing")
      [] frame.method = "FreeBuffers" -> Fail(m)
      [] OTHER -> m

-----------------------------------------------------------------------------
\* JavaScript is free for another event: no function is about to resume.
Idle == \A r \in Recordings : recording[r].resumes = <<>>

\* Recording r, having received n frames, becomes m: its frames are sent, or its
\* stream is gone and the service, disconnected from its consumer, frees the
\* session.
Becomes(r, n, m) ==
    LET open == m.connected
    IN  /\ recording' = [recording EXCEPT ![r] =
              [m EXCEPT !.tx = <<>>, !.rxBuf = IF open THEN @ ELSE <<>>]]
        /\ requests' = [requests EXCEPT ![r] = IF open THEN @ \o m.tx ELSE <<>>]
        /\ replies' = [replies EXCEPT ![r] = IF open THEN SubSeq(@, n + 1, Len(@)) ELSE <<>>]
        /\ service' = [service EXCEPT ![r] = IF open THEN @ ELSE NewService]
        /\ UNCHANGED current

\* RecordingManager.startTracing(), from a button that is disabled while the
\* current recording is RECORDING.  Without a target there is an error at once.
StartTracing ==
    /\ Idle
    /\ current < MaxRecordings
    /\ current > 0 => recording[current].state # "RECORDING"
    /\ current' = current + 1
    /\ \E phase \in {"Initializing", "error"} :
          LET cancelled == IF current > 0 THEN Cancel(recording[current]) ELSE NewRecording
          IN  /\ recording' = [r \in Recordings |->
                    CASE r = current -> [cancelled EXCEPT !.tx = <<>>]
                      [] r = current' -> [NewRecording EXCEPT !.phase = phase]
                      [] OTHER -> recording[r]]
              /\ requests' = [r \in Recordings |->
                    IF r = current THEN requests[r] \o cancelled.tx ELSE requests[r]]
    /\ UNCHANGED <<replies, service>>

\* target.startTracing() returns: the new session asks for EnableTracing.
TargetStarted(r) ==
    /\ Idle /\ recording[r].phase = "Initializing" /\ r \in Reachable
    /\ Becomes(r, 0, Invoke([recording[r] EXCEPT !.phase = "session", !.connected = TRUE,
                                                 !.state = "RECORDING"], "EnableTracing"))

\* The stream cannot be created.
TargetFailed(r) ==
    /\ Idle /\ recording[r].phase = "Initializing"
    /\ recording' = [recording EXCEPT ![r].phase = "error"]
    /\ UNCHANGED <<current, requests, replies, service>>

\* The buttons act on the current recording while it is RECORDING.
ButtonsEnabled(r) == Idle /\ current = r /\ recording[r].state = "RECORDING"

UserStops(r) == ButtonsEnabled(r) /\ Becomes(r, 0, Stop(recording[r]))

UserCancels(r) ==
    /\ ButtonsEnabled(r) /\ ~recording[r].cancelled
    /\ Becomes(r, 0, Cancel(recording[r]))

\* The page polls the buffer usage of the current recording every second,
\* whether the last poll was answered or not.
GetBufferUsagePct(r) ==
    /\ ButtonsEnabled(r)
    /\ recording[r].polls < MaxPolls
    /\ Becomes(r, 0, [Invoke(recording[r], "GetTraceStats") EXCEPT !.polls = @ + 1])

\* The stream hands over the first n frames at once.
OnStreamData(r) ==
    /\ Idle /\ recording[r].connected
    /\ \E n \in 1 .. Len(replies[r]) :
        \E m \in {ParseFrames(recording[r], SubSeq(replies[r], 1, n))} :
          Becomes(r, n, m)

\* The next of the functions whose replies were parsed goes on, whatever the
\* frames behind its reply have done to the session.
ResumeNext(r) ==
    LET m == recording[r]
    IN  /\ m.resumes # <<>>
        /\ Becomes(r, 0, Resume([m EXCEPT !.resumes = Tail(@)], Head(m.resumes)))

\* stream.onClose: the cable is pulled, or the service goes away.
StreamCloses(r) ==
    /\ Idle /\ MayDisconnect /\ recording[r].connected
    /\ Becomes(r, 0, OnProtocolClose(CloseStream(recording[r])))

-----------------------------------------------------------------------------
(***************************************************************************)
(* The tracing service, as the consumer port shows it.                     *)
(***************************************************************************)
Reply(call) ==
    [id |-> call.id, method |-> call.method, hasMore |-> FALSE, error |-> FALSE,
     success |-> TRUE, slices |-> <<>>]

Rejection(call) == [Reply(call) EXCEPT !.success = FALSE]

ServiceSends(r, svc, frames) ==
    /\ service' = [service EXCEPT ![r] = svc]
    /\ replies' = [replies EXCEPT ![r] = @ \o frames]
    /\ UNCHANGED <<current, recording>>

Post(svc, frame) == [svc EXCEPT !.tasks = Append(@, frame)]

HasSession(svc) == svc.tracing \notin {"none", "freed"}

\* The data sources have stopped, or are not waited for: the consumer is told.
NotifyDisabled(svc) ==
    IF svc.tracing \in {"started", "disabling"}
    THEN Post([svc EXCEPT !.tracing = "disabled"], Reply(svc.enable)) ELSE svc

Disable(svc) ==
    IF svc.tracing = "started" THEN [svc EXCEPT !.tracing = "disabling"] ELSE svc

\* ReadBuffersIntoConsumer(): a ReadBuffersResponse with the next slices, after
\* which another task follows; the last one may be empty.
Reads(r, svc, call) ==
    \E to \in svc.read .. Len(Slices), hasMore \in BOOLEAN :
        /\ to < Len(Slices) => hasMore
        /\ hasMore => to > svc.read
        /\ LET got == [svc EXCEPT !.read = to]
           IN  ServiceSends(r, IF hasMore THEN Post(got, Reply(call)) ELSE got,
                   <<[Reply(call) EXCEPT !.hasMore = hasMore,
                                         !.slices = SubSeq(Slices, svc.read + 1, to)]>>)

HandleEnableTracing(r, svc, call) ==
    \/ ServiceSends(r, [svc EXCEPT !.tracing = "started", !.enable = call], <<>>)
    \/ ServiceSends(r, Post(svc, [Reply(call) EXCEPT !.error = TRUE]), <<>>)

\* A flush of a session that is not there is not answered, nor is one that was
\* still waited for when the session was freed.
HandleFlush(r, svc, call) ==
    CASE svc.tracing = "started" ->
            ServiceSends(r, [svc EXCEPT !.flushes = @ \cup {call}], <<>>)
      [] svc.tracing \in {"disabling", "disabled"} ->
            ServiceSends(r, svc, <<Rejection(call)>>)
      [] OTHER -> ServiceSends(r, svc, <<>>)

HandleFreeBuffers(r, svc, call) ==
    \E completed \in SUBSET svc.flushes :
        LET freed == [NotifyDisabled(svc) EXCEPT !.tracing = "freed", !.flushes = completed]
        IN  ServiceSends(r, IF HasSession(svc) THEN freed ELSE svc, <<Reply(call)>>)

\* Without a session there is nothing to read, and that is the answer.
HandleReadBuffers(r, svc, call) ==
    IF HasSession(svc) THEN Reads(r, svc, call) ELSE ServiceSends(r, svc, <<Reply(call)>>)

\* The response of an earlier call is dropped, which rejects it.
HandleGetTraceStats(r, svc, call) ==
    LET stats == IF HasSession(svc) THEN Reply(call) ELSE Rejection(call)
    IN  ServiceSends(r, Post([svc EXCEPT !.stats = call], stats),
                     IF svc.stats = None THEN <<>> ELSE <<Rejection(svc.stats)>>)

ServiceHandles(r) ==
    /\ requests[r] # <<>>
    /\ LET call == Head(requests[r])
           svc == service[r]
       IN  \/ call.method = "EnableTracing" /\ HandleEnableTracing(r, svc, call)
           \/ call.method = "DisableTracing" /\ ServiceSends(r, Disable(svc), <<Reply(call)>>)
           \/ call.method = "FreeBuffers" /\ HandleFreeBuffers(r, svc, call)
           \/ call.method = "Flush" /\ HandleFlush(r, svc, call)
           \/ call.method = "GetTraceStats" /\ HandleGetTraceStats(r, svc, call)
           \/ call.method = "ReadBuffers" /\ HandleReadBuffers(r, svc, call)
    /\ requests' = [requests EXCEPT ![r] = Tail(@)]

DurationEnds(r) ==
    /\ Timed /\ service[r].tracing = "started"
    /\ ServiceSends(r, Disable(service[r]), <<>>)
    /\ UNCHANGED requests

SourcesStop(r) ==
    /\ service[r].tracing = "disabling"
    /\ ServiceSends(r, NotifyDisabled(service[r]), <<>>)
    /\ UNCHANGED requests

\* The next task runs: it tells of the end of the tracing, answers the last call
\* for statistics, or goes on reading unless the session is gone.
TaskRuns(r) ==
    LET svc == [service[r] EXCEPT !.tasks = Tail(@)]
        frame == Head(service[r].tasks)
    IN  /\ service[r].tasks # <<>>
        /\ CASE frame.method = "ReadBuffers" /\ HasSession(svc) -> Reads(r, svc, frame)
             [] frame.method = "EnableTracing" -> ServiceSends(r, svc, <<frame>>)
             [] frame.method = "GetTraceStats" /\ svc.stats # None ->
                   ServiceSends(r, [svc EXCEPT !.stats = None],
                                <<[frame EXCEPT !.id = svc.stats.id]>>)
             [] OTHER -> ServiceSends(r, svc, <<>>)
        /\ UNCHANGED requests

\* The sources have flushed, or the timeout says that they have not.
FlushDone(r) ==
    /\ \E flush \in service[r].flushes, success \in BOOLEAN :
          ServiceSends(r, [service[r] EXCEPT !.flushes = @ \ {flush}],
                       <<[Reply(flush) EXCEPT !.success = success]>>)
    /\ UNCHANGED requests

ServiceStep(r) ==
    \/ ServiceHandles(r)
    \/ SourcesStop(r)
    \/ TaskRuns(r)
    \/ FlushDone(r)

Next ==
    \/ StartTracing
    \/ \E r \in Recordings :
          \/ TargetStarted(r)
          \/ TargetFailed(r)
          \/ UserStops(r)
          \/ UserCancels(r)
          \/ GetBufferUsagePct(r)
          \/ OnStreamData(r)
          \/ ResumeNext(r)
          \/ StreamCloses(r)
          \/ DurationEnds(r)
          \/ ServiceStep(r)

Spec == Init /\ [][Next]_vars

\* The thread of the service runs, and what it sends arrives at the page while
\* the stream is open.
Fairness ==
    \A r \in Recordings :
        /\ WF_vars(ServiceStep(r))
        /\ WF_vars(OnStreamData(r) \/ ResumeNext(r))

FairSpec == Spec /\ Fairness

-----------------------------------------------------------------------------
(***************************************************************************)
(* Properties                                                              *)
(***************************************************************************)
\* The trace of a FINISHED recording, and the one that was opened, is what the
\* service captured: every packet, whole and in order, although ReadBuffers cuts
\* packets anywhere and a stop, a timeout and a disconnection may race for it.
\* A recording that was cancelled may get the empty answer of a service that has
\* freed the session, but never a part of the trace.
FinishedTraceIsWhole ==
    \A r \in Recordings :
        LET right == {WholeTrace} \cup (IF recording[r].cancelled THEN {<<>>} ELSE {})
        IN  /\ recording[r].state = "FINISHED" => recording[r].traceBuf \in right
            /\ recording[r].opened # None => recording[r].opened \in right

Ended(r) == recording[r].state \in {"FINISHED", "ERRORED"}

\* cancel() finds its recording FINISHED with the empty answer to ReadBuffers
\* that was parsed together with the answer it awaited.
FoundEmpty(m) == m.state = "FINISHED" /\ m.cancelled /\ m.traceBuf = <<>>

\* A recording that succeeded does not fail later and one that failed stays so:
\* replies that were on their way when it ended, and functions that still
\* awaited one, find it as it is.  The exception is a recording that finished
\* without a trace because it was being cancelled, which fails in the end.
VerdictIsFinal ==
    [][\A r \in Recordings : Ended(r) =>
          \/ recording'[r].state = recording[r].state
          \/ FoundEmpty(recording[r]) /\ recording'[r].state = "ERRORED"]_vars

\* A recording that the user stops or cancels, or that a new one replaces after
\* it had started, ends, unless its stream breaks, or unless the rejection of a
\* poll, of which two were on their way, leaves the frames behind it unparsed for
\* good.
StopsEnd ==
    \A r \in Recordings :
        (recording[r].state = "STOPPING" \/ recording[r].cancelled)
            ~> (Ended(r) \/ ~recording[r].connected \/ [](recording[r].rxBuf # <<>>))

=============================================================================
