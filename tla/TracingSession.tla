--------------------------- MODULE TracingSession ---------------------------
(***************************************************************************)
(* One tracing session of TracingServiceImpl: its life from EnableTracing  *)
(* to FreeBuffers, its data source instances on the producers, flushes,    *)
(* triggers, the output file, and a second consumer cloning it.            *)
(*                                                                         *)
(* The service is single-threaded: a handler runs to its end, so it is one *)
(* action, and the calls it makes are operators from a service state to a  *)
(* service state.  What makes the service hard is the order of handlers:   *)
(* acknowledgements, posted tasks, delayed tasks, disconnections and       *)
(* consumer calls come in any order.                                       *)
(***************************************************************************)
EXTENDS Integers, Sequences, FiniteSets, Functions

CONSTANTS
    Producers,          \* each has one data source, which the config asks for
    NotifyOnStart,      \* producers whose data source has will_notify_on_start,
    NotifyOnStop,       \* will_notify_on_stop,
    NoFlush,            \* no_flush,
    SelfScraped,        \* those of NoFlush that scrape their emulated SMB when flushed
    TransferOnClone,    \* writes into a buffer marked transfer_on_clone
    MayFreeze,          \* runs as an Android process that may be frozen
    Configs,            \* the trace configs a consumer may ask for, by the producers there
    kMaxPendingFlushes, \* 1000 in FlushDataSourceInstances
    MaxFlushes,         \* bound: flush requests of the consumer and of periodic tasks
    MaxInstances,       \* bound: data source instances created
    MaxTriggers,        \* bound: triggers activated
    None

Config == [trigger  : {"UNSPECIFIED", "START_TRACING", "STOP_TRACING", "CLONE_SNAPSHOT"},
           deferred : BOOLEAN,      \* deferred_start
           timed    : BOOLEAN,      \* duration_ms > 0
           file     : BOOLEAN,      \* write_into_file
           flush    : {"kDisabled", "kPeriodic", "kOnWrite"},   \* flush_strategy
           cloneable : BOOLEAN]     \* IsCloneAllowed, for the consumer that clones it

ASSUME SetsAssumption ==
    /\ IsFiniteSet(Producers)
    /\ \A S \in {NotifyOnStart, NotifyOnStop, NoFlush, TransferOnClone, MayFreeze} :
          S \subseteq Producers
    /\ SelfScraped \subseteq NoFlush
    /\ Configs \in [SUBSET Producers -> SUBSET Config]
    /\ \A P \in SUBSET Producers : \A c \in Configs[P] : c.flush = "kOnWrite" => c.file

VARIABLES
    producers,  \* producer -> "connected", "registered" (its data source) or "gone"
    svc         \* the session and what the service has under way for it

vars == <<producers, svc>>

\* A session that has ended is ERASED; pending_clones holds at most the one
\* clone of the model.
Alive(s) == s.state \notin {"NONE", "ERASED"}

NoSession ==
    [state |-> "NONE", config |-> None,
     consumer |-> TRUE,              \* consumer_maybe_null
     instances |-> <<>>,             \* data_source_instances: producer -> [id, state]
     did_notify_all_data_source_started |-> FALSE,
     received_triggers |-> FALSE,    \* not empty
     pending_flushes |-> <<>>,       \* flush id -> [producers, callback]
     final_flush_outcome |-> None,
     write_into_file |-> FALSE,      \* the file is open
     write_period_ms |-> FALSE,      \* not 0
     pending_clone |-> None,         \* [pending_flush_cnt, flush_failed]
     cloner |-> "idle",              \* the consumer that clones: idle, waiting, gone, answered
     last_id |-> 0,                  \* last_data_source_instance_id_
     tasks |-> <<>>,                 \* posted tasks, run in order
     timers |-> {},                  \* delayed tasks, run in any order
     \* History: the flush requests, the instances told to start and not to
     \* stop, triggers accepted, whether the consumer has called ObserveEvents
     \* since it attached, how often the session was disabled, the flushes of a
     \* clone that succeeded and the answers to it.
     flushes |-> <<>>, running |-> {}, triggers |-> 0, triggered |-> FALSE,
     observing |-> TRUE, disabled |-> 0, clone_flushes |-> 0,
     clone_replies |-> <<>>]

Timer(op, n) == [op |-> op, n |-> n]

PostTask(s, task)         == [s EXCEPT !.tasks = Append(@, task)]
PostDelayedTask(s, timer) == [s EXCEPT !.timers = @ \cup {timer}]

-----------------------------------------------------------------------------
(* Data source instances.  e is what the operating system answers during the *)
(* handler: the frozen processes, whether the file takes no more data, and   *)
(* whether cloning succeeds.                                                 *)

AllDataSourceInstancesStarted(s) ==
    \A p \in DOMAIN s.instances : s.instances[p].state = "STARTED"

AllDataSourceInstancesStopped(s) ==
    \A p \in DOMAIN s.instances : s.instances[p].state = "STOPPED"

InstanceIds(s, P) == {s.instances[p].id : p \in P}

\* An empty session counts as started.
MaybeNotifyAllDataSourcesStarted(s) ==
    IF s.consumer /\ AllDataSourceInstancesStarted(s)
    THEN [s EXCEPT !.did_notify_all_data_source_started = TRUE] ELSE s

\* SetupDataSource for each of P, in some order.
SetupDataSources(s, P) ==
    LET nth == CHOOSE f \in [P -> 1 .. Cardinality(P)] : IsInjective(f)
    IN  [s EXCEPT
           !.last_id = @ + Cardinality(P),
           !.instances = [p \in DOMAIN @ \cup P |->
               IF p \in P THEN [id |-> s.last_id + nth[p], state |-> "CONFIGURED"] ELSE @[p]]]

\* StartDataSourceInstance for each of P.
StartDataSourceInstances(s, e, P) ==
    LET waits(p) == p \in NotifyOnStart \ e.frozen
    IN  MaybeNotifyAllDataSourcesStarted(
          [s EXCEPT
             !.instances = [p \in DOMAIN @ |-> IF p \notin P THEN @[p] ELSE
                              [@[p] EXCEPT !.state = IF waits(p) THEN "STARTING" ELSE "STARTED"]],
             !.running = @ \cup InstanceIds(s, P)])

\* StopDataSourceInstance for each of P.
StopDataSourceInstances(s, e, P, disable_immediately) ==
    LET waits(p) == p \in NotifyOnStop \ e.frozen /\ ~disable_immediately
    IN  [s EXCEPT
           !.instances = [p \in DOMAIN @ |-> IF p \notin P THEN @[p] ELSE
                            [@[p] EXCEPT !.state = IF waits(p) THEN "STOPPING" ELSE "STOPPED"]],
           !.running = @ \ InstanceIds(s, P)]

-----------------------------------------------------------------------------
(* Disabling and freeing a session.                                          *)

\* Without a trigger a trace is empty, and one with CLONE_SNAPSHOT triggers is
\* read through its clones only.
IsWaitingForTrigger(s) ==
    \/ s.config.trigger # "UNSPECIFIED" /\ ~s.received_triggers
    \/ s.config.trigger = "CLONE_SNAPSHOT"

\* What is left is written into the file, which is closed then; a session that
\* waits for a trigger leaves it open and empty.
DisableTracingNotifyConsumerAndFlushFile(s) ==
    [s EXCEPT !.instances = [p \in DOMAIN @ |-> [@[p] EXCEPT !.state = "STOPPED"]],
              !.state = "DISABLED",
              !.disabled = @ + 1,
              !.write_period_ms = @ /\ ~s.write_into_file,
              !.write_into_file = @ /\ IsWaitingForTrigger(s)]

\* Mutant: no timeout for the acknowledgements.
WaitForeverForStopAcks(s) == [s EXCEPT !.state = "DISABLING_WAITING_STOP_ACKS"]

WaitForStopAcks(s) ==
    PostDelayedTask([s EXCEPT !.state = "DISABLING_WAITING_STOP_ACKS"],
                    Timer("OnDisableTracingTimeout", 0))

DisableTracing(s, e, disable_immediately) ==
    LET stopped == StopDataSourceInstances(s, e, DOMAIN s.instances,
                        disable_immediately \/ s.state = "CONFIGURED")
    IN  CASE s.state = "DISABLING_WAITING_STOP_ACKS" /\ disable_immediately ->
               DisableTracingNotifyConsumerAndFlushFile(s)
          [] s.state \in {"CONFIGURED", "STARTED"} ->
               IF AllDataSourceInstancesStopped(stopped)
               THEN DisableTracingNotifyConsumerAndFlushFile(stopped)
               ELSE WaitForStopAcks(stopped)
          [] OTHER -> s

\* The answer of a clone, if the consumer that asked is still there.
OnSessionCloned(s, answer) ==
    IF s.cloner # "waiting" THEN s
    ELSE [s EXCEPT !.cloner = "answered", !.clone_replies = Append(@, answer)]

AnswerPendingClone(s) ==
    IF s.pending_clone = None THEN s.tasks ELSE Append(s.tasks, [op |-> "OnSessionCloned"])

\* The session goes with its pending flushes; a pending clone is answered by a
\* posted task.  Timers and acknowledgements that come later find no session.
FreeBuffers(s, e) ==
    LET t == DisableTracing(s, e, TRUE)
    IN  IF ~Alive(s) THEN s
        ELSE [t EXCEPT !.state = "ERASED", !.instances = <<>>, !.pending_flushes = <<>>,
                       !.pending_clone = None, !.timers = {},
                       !.write_into_file = FALSE,
                       !.tasks = AnswerPendingClone(t)]

-----------------------------------------------------------------------------
(* Flush callbacks.                                                          *)

\* do_read_buffers_into_file_fn: all there is goes into the file; a full file
\* ends the session, and otherwise the next write is scheduled.
DoReadBuffersIntoFile(s, e) ==
    LET closed == [s EXCEPT !.write_into_file = FALSE, !.write_period_ms = FALSE]
        stop   == (s.write_into_file /\ e.full) \/ ~s.write_period_ms
    IN  CASE ~Alive(s) -> s
          [] Alive(s) /\ stop ->
               IF s.state = "STARTED" THEN DisableTracing(closed, e, FALSE) ELSE closed
          [] Alive(s) /\ ~stop -> PostDelayedTask(s, Timer("ReadBuffersIntoFile", 0))

\* Mutant: the clone forgets that a flush failed.
FinishCloneSessionFlushed(s, e) ==
    IF e.clone = "no_session" THEN OnSessionCloned(s, "failed")
    ELSE [OnSessionCloned(s, "flushed") EXCEPT !.received_triggers = FALSE]

\* The clone takes the received triggers with it.
FinishCloneSession(s, e) ==
    IF e.clone = "no_session" THEN OnSessionCloned(s, "failed")
    ELSE [OnSessionCloned(s, IF s.pending_clone.flush_failed THEN "unflushed" ELSE "flushed")
             EXCEPT !.received_triggers = FALSE]

OnFlushDoneForClone(s, e, success) ==
    IF ~Alive(s) \/ s.pending_clone = None THEN s
    ELSE LET op == [pending_flush_cnt |-> s.pending_clone.pending_flush_cnt - 1,
                    flush_failed |-> s.pending_clone.flush_failed \/ ~success]
             t  == [s EXCEPT !.pending_clone = op]
         IN  CASE e.clone = "no_buffers" ->
                    [OnSessionCloned(t, "failed") EXCEPT !.pending_clone = None]
               [] e.clone # "no_buffers" /\ op.pending_flush_cnt # 0 -> t
               [] e.clone # "no_buffers" /\ op.pending_flush_cnt = 0 ->
                    [(IF s.cloner = "waiting" THEN FinishCloneSession(t, e) ELSE t)
                        EXCEPT !.pending_clone = None]

\* The callback of FlushAndDisableTracing: a detached session has no reader
\* and is freed.
FinalFlushDone(s, e, success) ==
    LET t == [s EXCEPT !.final_flush_outcome =
                IF success THEN "FINAL_FLUSH_SUCCEEDED" ELSE "FINAL_FLUSH_FAILED"]
    IN  CASE ~Alive(s) -> s
          [] Alive(s) /\ s.consumer -> DisableTracing(t, e, FALSE)
          [] Alive(s) /\ ~s.consumer -> FreeBuffers(t, e)

RunCallback(s, e, callback, success) ==
    CASE callback = "kTraceStop"  -> FinalFlushDone(s, e, success)
      [] callback = "kTraceClone" -> OnFlushDoneForClone(s, e, success)
      [] callback = "file"        -> DoReadBuffersIntoFile(s, e)
      [] OTHER                    -> s      \* the consumer's, or logging only

-----------------------------------------------------------------------------
(* Flushes.                                                                  *)

\* The answer is noted in the history.  What a producer owes a flush that has
\* failed matters no more.
CompleteFlush(s, e, f, callback, success) ==
    LET ok == success /\ Alive(s)
        t  == [s EXCEPT !.flushes[f] = [answers |-> @.answers + 1,
                                        owed |-> IF ok THEN @.owed ELSE {}],
                        !.clone_flushes = @ + IF ok /\ callback = "kTraceClone" THEN 1 ELSE 0]
    IN  RunCallback(t, e, callback, ok)

\* A session that is not STARTED, or has too many flushes pending, answers at
\* once that the flush failed.  Nobody waits for a frozen producer.  The delayed
\* OnFlushTimeout is not kept in timers: see FlushTimeout.
FlushDataSourceInstances(s, e, asked, callback) ==
    LET f    == Len(s.flushes) + 1
        owed == asked \ e.frozen
    IN  IF \/ Cardinality(DOMAIN s.pending_flushes) > kMaxPendingFlushes
           \/ s.state # "STARTED"
        THEN RunCallback(s, e, callback, FALSE)
        ELSE [s EXCEPT
                !.pending_flushes = [g \in DOMAIN @ \cup {f} |->
                    IF g = f THEN [producers |-> owed, callback |-> callback] ELSE @[g]],
                !.flushes = Append(@, [answers |-> 0, owed |-> owed])]

Flush(s, e, callback) ==
    IF ~Alive(s) THEN s
    ELSE FlushDataSourceInstances(s, e,
            {p \in DOMAIN s.instances : p \notin NoFlush \/ p \in SelfScraped}, callback)

FlushAndDisableTracing(s, e) == Flush(s, e, "kTraceStop")

\* The pending flushes up to f that nobody but p is still to acknowledge.
FlushedBy(s, p, f) ==
    {g \in DOMAIN s.pending_flushes : g <= f /\ s.pending_flushes[g].producers \subseteq {p}}

Without(flushes, done) == [f \in DOMAIN flushes \ done |-> flushes[f]]

\* p owes this flush nothing any more.
Acknowledged(flush, p) == [flush EXCEPT !.owed = @ \ {p}]

\* The i-th of the ids in S, in their order.
Nth(S, i) == CHOOSE f \in S : Cardinality({g \in S : g <= f}) = i

CompletionsOf(s, done) ==
    [i \in 1 .. Cardinality(done) |->
        [op |-> "CompleteFlush", f |-> Nth(done, i),
         callback |-> s.pending_flushes[Nth(done, i)].callback]]

\* p has flushed everything up to f: flushes nobody else owes are completed
\* by posted tasks, in the order of their ids.
NotifyFlushDoneForProducer(s, p, f) ==
    LET done    == FlushedBy(s, p, f)
        flushed == [g \in DOMAIN s.pending_flushes |->
                       IF g > f THEN s.pending_flushes[g]
                       ELSE [s.pending_flushes[g] EXCEPT !.producers = @ \ {p}]]
    IN  [s EXCEPT
           !.pending_flushes = Without(flushed, done),
           !.tasks = @ \o CompletionsOf(s, done),
           !.flushes = [g \in DOMAIN @ |-> IF g > f THEN @[g] ELSE Acknowledged(@[g], p)]]

\* Mutant: a flush is not given up while producers owe it.
OnFlushTimeoutWaits(s, e, f) ==
    IF f \notin DOMAIN s.pending_flushes \/ s.pending_flushes[f].producers # {} THEN s
    ELSE CompleteFlush([s EXCEPT !.pending_flushes = Without(@, {f})], e, f,
                       s.pending_flushes[f].callback, TRUE)

OnFlushTimeout(s, e, f) ==
    IF f \notin DOMAIN s.pending_flushes THEN s
    ELSE CompleteFlush([s EXCEPT !.pending_flushes = Without(@, {f})], e, f,
                       s.pending_flushes[f].callback, s.pending_flushes[f].producers = {})

PeriodicFlushTask(s, e, post_next_only) ==
    LET t == PostDelayedTask(s, Timer("PeriodicFlushTask", 0))
    IN  IF s.state # "STARTED" THEN s
        ELSE IF post_next_only THEN t ELSE Flush(t, e, "kPeriodic")

ReadBuffersIntoFile(s, e) ==
    IF ~s.write_into_file \/ IsWaitingForTrigger(s) THEN s
    ELSE IF s.config.flush = "kOnWrite" THEN Flush(s, e, "file")
         ELSE DoReadBuffersIntoFile(s, e)

-----------------------------------------------------------------------------
(* Starting, producers, triggers.                                            *)

StartTracing(s, e) ==
    LET t0 == [s EXCEPT !.state = "STARTED"]
        t1 == IF s.config.timed THEN PostDelayedTask(t0, Timer("StopOnDurationMsExpiry", 0)) ELSE t0
        t2 == IF s.config.file THEN PostDelayedTask(t1, Timer("ReadBuffersIntoFile", 0)) ELSE t1
        t3 == IF s.config.flush = "kPeriodic" THEN PeriodicFlushTask(t2, e, TRUE) ELSE t2
    IN  IF s.state # "CONFIGURED" THEN s
        ELSE StartDataSourceInstances(t3, e, DOMAIN t3.instances)

\* A trigger that is seen stops the session itself, after its stop_delay_ms.
StopOnDurationMsExpiry(s, e) ==
    IF s.config.trigger = "STOP_TRACING" /\ s.received_triggers THEN s
    ELSE FlushAndDisableTracing(s, e)

OnStartTriggersTimeout(s, e) ==
    IF s.state = "CONFIGURED" THEN DisableTracing(s, e, FALSE) ELSE s

OnDisableTracingTimeout(s) ==
    IF s.state = "DISABLING_WAITING_STOP_ACKS"
    THEN DisableTracingNotifyConsumerAndFlushFile(s) ELSE s

HasInstance(s, p, id, state) ==
    p \in DOMAIN s.instances /\ s.instances[p] = [id |-> id, state |-> state]

\* Acknowledgements that come too early, too late or twice are ignored.
NotifyDataSourceStarted(s, p, id) ==
    IF s.state = "STARTED" /\ HasInstance(s, p, id, "STARTING")
    THEN MaybeNotifyAllDataSourcesStarted([s EXCEPT !.instances[p].state = "STARTED"])
    ELSE s

NotifyDataSourceStopped(s, p, id) ==
    LET t == [s EXCEPT !.instances[p].state = "STOPPED"]
    IN  IF ~HasInstance(s, p, id, "STOPPING") THEN s
        ELSE IF AllDataSourceInstancesStopped(t) /\ s.state = "DISABLING_WAITING_STOP_ACKS"
             THEN DisableTracingNotifyConsumerAndFlushFile(t) ELSE t

RegisterDataSource(s, e, p) ==
    CASE s.state = "CONFIGURED" -> SetupDataSources(s, {p})
      [] s.state = "STARTED"    -> StartDataSourceInstances(SetupDataSources(s, {p}), e, {p})
      [] OTHER                  -> s

ToldToStop(s, e, p) ==
    IF s.instances[p].state \in {"STOPPING", "STOPPED"} THEN s
    ELSE StopDataSourceInstances(s, e, {p}, FALSE)

CountedAsStopped(s, p) == NotifyDataSourceStopped(s, p, s.instances[p].id)

\* Mutant: nobody looks whether those that are left have all started.
EraseInstanceOnly(s, p) == [s EXCEPT !.instances = [q \in DOMAIN @ \ {p} |-> @[q]]]

EraseInstance(s, p) ==
    MaybeNotifyAllDataSourcesStarted(
        [s EXCEPT !.instances = [q \in DOMAIN @ \ {p} |-> @[q]]])

\* The instance of p is told to stop, counts as stopped whatever p answers,
\* and is erased; those that are left may all be started now.
UnregisterDataSource(s, e, p) ==
    IF p \notin DOMAIN s.instances THEN s
    ELSE EraseInstance(CountedAsStopped(ToldToStop(s, e, p), p), p)

\* A START_TRACING trigger starts the session for stop_delay_ms, a
\* STOP_TRACING one ends it after stop_delay_ms unless one did before; whatever
\* the state of the session.  A CLONE_SNAPSHOT one tells the consumer.
ActivateTriggers(s, e, stop_delay_ms) ==
    LET t == [s EXCEPT !.received_triggers = TRUE, !.triggers = @ + 1,
                       !.triggered = @ \/ s.state \in {"CONFIGURED", "STARTED"}]
    IN  CASE s.config.trigger = "START_TRACING" /\ s.state = "CONFIGURED" ->
               StartTracing([t EXCEPT !.config.timed = stop_delay_ms], e)
          [] s.config.trigger = "STOP_TRACING" /\ ~s.received_triggers ->
               PostDelayedTask(t, Timer("OnStopTrigger", t.triggers))
          [] OTHER -> t

EnableTracing(s, e, config) ==
    LET t == [s EXCEPT
                !.state = "CONFIGURED",
                !.config = [config EXCEPT !.timed = @ \/ config.trigger \in
                                                            {"STOP_TRACING", "CLONE_SNAPSHOT"}],
                !.write_into_file = config.file, !.write_period_ms = config.file]
        u == SetupDataSources(t, {p \in Producers : producers[p] = "registered"})
    IN  CASE config.trigger = "START_TRACING" ->
               PostDelayedTask(u, Timer("OnStartTriggersTimeout", 0))
          [] config.trigger # "START_TRACING" /\ config.deferred -> u
          [] config.trigger # "START_TRACING" /\ ~config.deferred -> StartTracing(u, e)

\* The buffers marked transfer_on_clone and the others are flushed apart, so
\* that slow producers of the former do not delay the snapshot of the latter.
FlushAndCloneSession(s, e) ==
    LET asked(P) == (DOMAIN s.instances \cap P) \ NoFlush
        t0 == [s EXCEPT !.cloner = "waiting",
                        !.pending_clone = [pending_flush_cnt |-> 2, flush_failed |-> FALSE]]
        t1 == FlushDataSourceInstances(t0, e, asked(TransferOnClone), "kTraceClone")
    IN  IF ~Alive(s) \/ ~s.config.cloneable \/ e.clone = "rejected"
        THEN OnSessionCloned([s EXCEPT !.cloner = "waiting"], "failed")
        ELSE FlushDataSourceInstances(t1, e, asked(Producers \ TransferOnClone), "kTraceClone")

RunTask(s, e) ==
    LET task == Head(s.tasks)
        t    == [s EXCEPT !.tasks = Tail(@)]
    IN  CASE task.op = "CompleteFlush"   -> CompleteFlush(t, e, task.f, task.callback, TRUE)
          [] task.op = "OnSessionCloned" -> OnSessionCloned(t, "failed")

RunTimer(s, e, timer) ==
    LET t == [s EXCEPT !.timers = @ \ {timer}]
    IN  CASE timer.op = "OnDisableTracingTimeout" -> OnDisableTracingTimeout(t)
          [] timer.op = "StopOnDurationMsExpiry"  -> StopOnDurationMsExpiry(t, e)
          [] timer.op = "OnStopTrigger"           -> FlushAndDisableTracing(t, e)
          [] timer.op = "OnStartTriggersTimeout"  -> OnStartTriggersTimeout(t, e)
          [] timer.op = "ReadBuffersIntoFile"     -> ReadBuffersIntoFile(t, e)
          [] timer.op = "PeriodicFlushTask"       -> PeriodicFlushTask(t, e, FALSE)

-----------------------------------------------------------------------------
(* One action per handler.                                                   *)

\* What the operating system may answer, as far as the handler asks.
Answers ==
    {e \in [frozen : SUBSET MayFreeze, full : BOOLEAN,
            clone  : {"ok", "no_buffers", "no_session"}] :
        /\ e.full => svc.write_into_file
        /\ e.clone # "ok" => svc.pending_clone # None}

Handle(Op(_, _)) == \E e \in Answers : svc' = Op(svc, e)

EnableTracingCall ==
    /\ svc.state = "NONE"
    /\ \E config \in Configs[{p \in Producers : producers[p] # "gone"}] :
          Handle(LAMBDA s, e : EnableTracing(s, e, config))
    /\ UNCHANGED producers

\* Calls of the consumer that has the session.
Attached == Alive(svc) /\ svc.consumer

StartTracingCall ==
    /\ Attached
    /\ Handle(StartTracing)
    /\ UNCHANGED producers

DisableTracingCall ==
    /\ Attached
    /\ Handle(LAMBDA s, e : DisableTracing(s, e, FALSE))
    /\ UNCHANGED producers

FlushCall ==
    /\ Attached
    /\ Len(svc.flushes) < MaxFlushes
    /\ Handle(LAMBDA s, e : Flush(s, e, "consumer"))
    /\ UNCHANGED producers

\* FreeBuffers, or the consumer disconnects.
FreeBuffersCall ==
    /\ Attached
    /\ Handle(FreeBuffers)
    /\ UNCHANGED producers

DetachConsumer ==
    /\ Attached
    /\ svc' = [svc EXCEPT !.consumer = FALSE]
    /\ UNCHANGED producers

AttachConsumer ==
    /\ Alive(svc) /\ ~svc.consumer
    /\ svc' = [svc EXCEPT !.consumer = TRUE, !.observing = FALSE]
    /\ UNCHANGED producers

ObserveEvents ==
    /\ Attached
    /\ svc' = [MaybeNotifyAllDataSourcesStarted(svc) EXCEPT !.observing = TRUE]
    /\ UNCHANGED producers

\* Another consumer clones the session, once.
CloneSessionCall ==
    /\ svc.cloner = "idle" /\ svc.state # "NONE"
    /\ \E frozen \in SUBSET MayFreeze, clone \in {"ok", "no_buffers", "no_session", "rejected"} :
          svc' = FlushAndCloneSession(svc, [frozen |-> frozen, full |-> FALSE, clone |-> clone])
    /\ UNCHANGED producers

ClonerDisconnects ==
    /\ svc.cloner = "waiting"
    /\ svc' = [svc EXCEPT !.cloner = "gone"]
    /\ UNCHANGED producers

ActivateTriggersCall ==
    /\ Alive(svc) /\ svc.config.trigger # "UNSPECIFIED"
    /\ svc.triggers < MaxTriggers
    /\ \E p \in Producers : producers[p] # "gone"
    /\ \E delay \in BOOLEAN : Handle(LAMBDA s, e : ActivateTriggers(s, e, delay))
    /\ UNCHANGED producers

\* Producers matter only while there is a session: before it every combination
\* of registered data sources is an initial state.
RegisterDataSourceCall(p) ==
    /\ Alive(svc) /\ producers[p] = "connected"
    /\ svc.last_id < MaxInstances
    /\ producers' = [producers EXCEPT ![p] = "registered"]
    /\ Handle(LAMBDA s, e : RegisterDataSource(s, e, p))

UnregisterDataSourceCall(p) ==
    /\ Alive(svc) /\ producers[p] = "registered"
    /\ producers' = [producers EXCEPT ![p] = "connected"]
    /\ Handle(LAMBDA s, e : UnregisterDataSource(s, e, p))

\* The producer's data source is unregistered, and it acknowledges nothing more.
DisconnectProducer(p) ==
    /\ Alive(svc) /\ producers[p] # "gone"
    /\ producers' = [producers EXCEPT ![p] = "gone"]
    /\ Handle(LAMBDA s, e : UnregisterDataSource(s, e, p))

\* Acknowledgements take any time and any order, and are not counted: a
\* producer may send one for any instance or flush there has ever been, again,
\* or too early; the handlers have to know which of them mean something.
AcknowledgeStart(p, id) ==
    /\ Alive(svc) /\ producers[p] # "gone"
    /\ svc' = NotifyDataSourceStarted(svc, p, id)
    /\ UNCHANGED producers

AcknowledgeStop(p, id) ==
    /\ Alive(svc) /\ producers[p] # "gone"
    /\ svc' = NotifyDataSourceStopped(svc, p, id)
    /\ UNCHANGED producers

AcknowledgeFlush(p, f) ==
    /\ Alive(svc) /\ producers[p] # "gone"
    /\ svc' = NotifyFlushDoneForProducer(svc, p, f)
    /\ UNCHANGED producers

\* Every flush request posts its OnFlushTimeout.  It is due some time and finds
\* nothing once the flush has been answered.
FlushTimeout(f) ==
    /\ Alive(svc) /\ f \in DOMAIN svc.flushes
    /\ Handle(LAMBDA s, e : OnFlushTimeout(s, e, f))
    /\ UNCHANGED producers

RunPostedTask ==
    /\ svc.tasks # <<>>
    /\ Handle(RunTask)
    /\ UNCHANGED producers

\* Periodic flushes are bounded.
RunDelayedTask(timer) ==
    /\ timer \in svc.timers
    /\ timer.op \in {"PeriodicFlushTask", "ReadBuffersIntoFile"} => Len(svc.flushes) < MaxFlushes
    /\ Handle(LAMBDA s, e : RunTimer(s, e, timer))
    /\ UNCHANGED producers

Init ==
    /\ producers \in [Producers -> {"connected", "registered", "gone"}]
    /\ svc = NoSession

Next ==
    \/ EnableTracingCall \/ StartTracingCall \/ DisableTracingCall \/ FlushCall
    \/ FreeBuffersCall \/ DetachConsumer \/ AttachConsumer \/ ObserveEvents
    \/ CloneSessionCall \/ ClonerDisconnects
    \/ ActivateTriggersCall
    \/ \E p \in Producers :
          RegisterDataSourceCall(p) \/ UnregisterDataSourceCall(p) \/ DisconnectProducer(p)
    \/ \E p \in Producers :
          \/ \E id \in 1 .. svc.last_id : AcknowledgeStart(p, id) \/ AcknowledgeStop(p, id)
          \/ \E f \in DOMAIN svc.flushes : AcknowledgeFlush(p, f)
    \/ \E f \in DOMAIN svc.flushes : FlushTimeout(f)
    \/ RunPostedTask
    \/ \E timer \in svc.timers : RunDelayedTask(timer)

Spec == Init /\ [][Next]_vars

\* The delayed tasks that end something.
Deadlines == {"OnDisableTracingTimeout", "StopOnDurationMsExpiry", "OnStartTriggersTimeout",
              "OnStopTrigger"}

\* The task runner goes on running posted tasks and delayed tasks that are due.
\* Nothing is assumed of producers and consumers.
Fairness ==
    /\ WF_vars(RunPostedTask)
    /\ WF_vars(\E f \in DOMAIN svc.flushes : FlushTimeout(f))
    /\ WF_vars(\E timer \in svc.timers : timer.op \in Deadlines /\ RunDelayedTask(timer))

FairSpec == Spec /\ Fairness

-----------------------------------------------------------------------------
(* Properties.                                                               *)

States == {"NONE", "CONFIGURED", "STARTED", "DISABLING_WAITING_STOP_ACKS", "DISABLED", "ERASED"}
InstanceStates == {"CONFIGURED", "STARTING", "STARTED", "STOPPING", "STOPPED"}
Callbacks == {"consumer", "kPeriodic", "file", "kTraceStop", "kTraceClone"}

\* The fields of the session have their types; instances have the ids given out
\* so far, and pending flushes are requests that were made.
TypeOK ==
    /\ producers \in [Producers -> {"connected", "registered", "gone"}]
    /\ svc.state \in States /\ svc.config \in Config \cup {None}
    /\ DOMAIN svc.instances \subseteq Producers
    /\ \A p \in DOMAIN svc.instances :
          svc.instances[p] \in [id : 1 .. svc.last_id, state : InstanceStates]
    /\ svc.flushes \in Seq([answers : Nat, owed : SUBSET Producers])
    /\ DOMAIN svc.pending_flushes \subseteq DOMAIN svc.flushes
    /\ \A f \in DOMAIN svc.pending_flushes :
          svc.pending_flushes[f] \in [producers : SUBSET Producers, callback : Callbacks]
    /\ svc.running \subseteq 1 .. svc.last_id
    /\ svc.pending_clone # None => svc.pending_clone.pending_flush_cnt \in 1 .. 2

\* The PERFETTO_DCHECKs of DisableTracing, OnDisableTracingTimeout, FreeBuffers
\* and StartDataSourceInstance about how the session's state and those of its
\* instances go together, and the DCHECKs of all handlers that an instance has
\* its producer, whatever was acknowledged, unregistered or timed out in
\* between.
StatesAgree ==
    LET states == {svc.instances[p].state : p \in DOMAIN svc.instances}
    IN  /\ svc.state = "CONFIGURED" => states \subseteq {"CONFIGURED"}
        /\ svc.state = "STARTED" => states \subseteq {"STARTING", "STARTED"}
        /\ svc.state = "DISABLING_WAITING_STOP_ACKS" =>
              states \subseteq {"STOPPING", "STOPPED"} /\ "STOPPING" \in states
        /\ svc.state = "DISABLED" => states \subseteq {"STOPPED"}
        /\ \A p \in DOMAIN svc.instances : producers[p] = "registered"

\* A data source that was told to start is told to stop before its instance is
\* forgotten or the session ends: no producer goes on tracing for nobody.
StartedAreStopped ==
    svc.running = InstanceIds(svc, {p \in DOMAIN svc.instances :
                                       svc.instances[p].state \in {"STARTING", "STARTED"}})

\* MaybeNotifyAllDataSourcesStarted is called wherever the last missing
\* instance starts or goes: a consumer that did not detach in between is not
\* left waiting.  One that reattached has to call ObserveEvents.
AllStartedIsNotified ==
    /\ svc.state = "STARTED" /\ svc.consumer /\ svc.observing
    /\ AllDataSourceInstancesStarted(svc)
    => svc.did_notify_all_data_source_started

\* The session, its instances, its producers and what its consumer was told stay
\* in step, whatever was acknowledged, unregistered, timed out or triggered.
SessionIsSound ==
    /\ TypeOK
    /\ StatesAgree
    /\ StartedAreStopped
    /\ AllStartedIsNotified

\* DisableTracingNotifyConsumerAndFlushFile runs once in the life of a session
\* (it checks that the session is not DISABLED) and the session does not come
\* back afterwards, whichever of the acknowledgements, the timeout,
\* FreeBuffers, a trigger or a full file comes first.
DisabledOnce ==
    svc.disabled = IF svc.state \in {"DISABLED", "ERASED"} THEN 1 ELSE 0

\* While the session is there a flush request is pending, or its completion
\* posted, or it was answered, once: acknowledgements and the timeout do not
\* both answer it, and neither loses it.
FlushAnsweredOnce ==
    \A f \in DOMAIN svc.flushes :
        LET queued == {i \in DOMAIN svc.tasks :
                         svc.tasks[i].op = "CompleteFlush" /\ svc.tasks[i].f = f}
            n == svc.flushes[f].answers + Cardinality(queued)
                 + (IF f \in DOMAIN svc.pending_flushes THEN 1 ELSE 0)
        IN  IF Alive(svc) THEN n = 1 ELSE n <= 1

\* A flush that succeeds was acknowledged, with its own id or a later one, by
\* every producer that was asked and not frozen then.
FlushSuccessIsEarned ==
    \A f \in DOMAIN svc.flushes : svc.flushes[f].answers > 0 => svc.flushes[f].owed = {}

\* A clone is answered at most once, and one whose final flush is said to have
\* succeeded had both its groups of buffers flushed.
CloneOutcomeIsEarned ==
    /\ Len(svc.clone_replies) <= 1
    /\ svc.clone_replies = <<"flushed">> => svc.clone_flushes = 2

\* Nobody is answered twice, and nobody is told of a success that was not one.
AnswersAreEarned ==
    /\ DisabledOnce
    /\ FlushAnsweredOnce
    /\ FlushSuccessIsEarned
    /\ CloneOutcomeIsEarned

\* Every flush request is answered, by its producers or by its timeout, unless
\* the session is freed.  A consumer that asked for a clone and stays is
\* answered, also when the session goes away meanwhile.  (A request stays made,
\* and an answer given, so this is "leads to".)
RequestsAnswered ==
    []<>(/\ \A f \in DOMAIN svc.flushes : svc.state = "ERASED" \/ svc.flushes[f].answers = 1
         /\ svc.cloner # "waiting")

\* A session with a duration, or with triggers that stop it, ends: no silent
\* or frozen producer, pending flush, trigger or clone keeps it going.  A session
\* that is being disabled gets there, and one that waits for a START_TRACING
\* trigger is cleaned up when none comes.
TimedSessionsEnd ==
    []<>~(\/ svc.state = "STARTED" /\ svc.config.timed
          \/ svc.state = "DISABLING_WAITING_STOP_ACKS"
          \/ svc.state = "CONFIGURED" /\ svc.config.trigger = "START_TRACING")
=============================================================================
