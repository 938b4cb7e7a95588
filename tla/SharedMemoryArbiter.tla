------------------------ MODULE SharedMemoryArbiter ------------------------
(***************************************************************************)
(* SharedMemoryArbiterImpl: how the trace writers of a producer process    *)
(* hand completed chunks, patches and flush replies to the tracing         *)
(* service.                                                                *)
(*                                                                         *)
(* Any thread may call the arbiter.  A call is a critical section under    *)
(* lock_ followed by steps made after unlocking: posting a task, sending a *)
(* message, calling Flush.  A critical section is one action.  What the    *)
(* thread still has to do afterwards is queued in todo[t] and taken from   *)
(* there one step at a time, so every interleaving of "after unlocking"    *)
(* with the calls of other threads is explored.                            *)
(*                                                                         *)
(* The chunk operations under the lock are atomic here; module             *)
(* SharedMemoryABI shows that they may be.  A chunk is named by its lease  *)
(* <<w, k>>, the k-th chunk of writer w.                                   *)
(***************************************************************************)
EXTENDS Integers, Sequences, SequencesExt, FiniteSets

CONSTANTS
    AppThreads,         \* threads of the producer that write trace data
    IPC,                \* the thread of task_runner_
    Writers,            \* TraceWriterImpl instances, each created at most once
    Home,               \* writer -> the thread that creates and uses it
    Reservations,       \* target_buffer_reservation_id values (startup tracing)
    Buffers,            \* BufferID values, positive
    kMaxWriterID,       \* ids the IdAllocator hands out: 1 .. kMaxWriterID
    Callbacks,          \* callbacks given to TraceWriter::Flush, each once
    FlushIDs,           \* FlushRequestID values, positive
    kMaxCommitSize,     \* kMaxCommitDataRequestChunkSize, in chunks
    InProcess,          \* the service handles a message where it is sent
    CreatedBound,       \* CreateInstance rather than CreateUnboundInstance
    DirectPatching,     \* direct_patching_supported_by_service_
    Setups,             \* how an instance may be created and used, see setup
    None

ASSUME ArbiterAssumption ==
    /\ IPC \notin AppThreads
    /\ Buffers \subseteq Nat \ {0}
    /\ FlushIDs \subseteq Nat \ {0}
    /\ kMaxWriterID \in Nat \ {0}
    /\ kMaxCommitSize \in Nat \ {0, 1}
    /\ Home \in [Writers -> AppThreads \cup {IPC}]
    /\ {InProcess, CreatedBound, DirectPatching} \subseteq BOOLEAN
    /\ \A s \in Setups :
          /\ s.mode \in {"kDefault", "kShmemEmulation", "scraping"}
          /\ DOMAIN s.chunks \subseteq Writers /\ IsFiniteSet(DOMAIN s.chunks)
          /\ \A w \in DOMAIN s.chunks : s.chunks[w] \in Nat
          /\ s.patches \in Nat /\ s.shutdown \in BOOLEAN
          /\ s.callbacks \subseteq Callbacks
          /\ s.half \in Nat \ {0}

\* A buffer, or a reservation that stands for one.
Targets == Reservations \cup Nat

\* What the arbiter collects for the service (CommitDataRequest); a chunk is
\* named by its lease: its writer and its number.
Requests ==
    [chunks: Seq([lease: Writers \X Nat, target: Targets, scraped: BOOLEAN]),
     patches: Seq([lease: Writers \X Nat, target: Targets, count: Nat, has_more: BOOLEAN]),
     flush_request_id: Nat]

ASSUME NoneAssumption == None \notin Requests

Threads   == AppThreads \cup {IPC}
WriterIDs == 1 .. kMaxWriterID
kInvalidBufferId == 0

\* Values of target_buffer_reservations_ that are not a resolved buffer.
Absent  == -2
Unbound == -1

VARIABLES
    \* Fixed when the instance is created: mode (ShmemMode, and whether the
    \* emulated memory is scraped), half (shmem_abi_.size() / 2, in chunks); and
    \* bounds: chunks (writer -> how many it uses), patches (of one chunk),
    \* callbacks (those of Callbacks that are used) and shutdown (whether
    \* TryShutdown is called).
    setup,
    \* Lock-protected members.
    endpoint,                    \* producer_endpoint_ and task_runner_ are set
    fully_bound_,
    target_buffer_reservations_, \* reservation -> Absent, Unbound or buffer
    pending_writers_,            \* writer id -> reservation or None
    active_writer_ids_,          \* IdAllocator: ids in use
    last_id_,                    \* IdAllocator: the id handed out last
    commit_data_req_,            \* None or the request being built
    delayed_flush_scheduled_,
    immediate_flush_scheduled_,
    pending_flush_callbacks_,    \* set of callbacks
    direct_patching_enabled_,
    did_shutdown_,
    \* The task runner and the threads.
    tasks,                       \* PostTask queue, in order
    timers,                      \* PostDelayedTask flushes by kind, how many
    todo,                        \* thread -> calls and steps it is going to make
    \* Trace writers and the shared memory.
    writer,                      \* writer -> record, see Init
    chunk,                       \* lease -> state and header of its chunk
    check_failed,                \* a PERFETTO_CHECK of the ABI failed: the process is gone
    \* The callers.
    settled,                     \* reservations bound or aborted: once each
    may_delete,                  \* TryShutdown returned true
    promised,                    \* callback or flush id given -> leases it covers (ghost)
    \* The service's end of the producer port.
    channel,                     \* messages in flight, in order
    service                      \* what the service has processed, see Init

binding == <<endpoint, fully_bound_, target_buffer_reservations_, pending_writers_,
             pending_flush_callbacks_>>
ids     == <<active_writer_ids_, last_id_, did_shutdown_>>
flags   == <<delayed_flush_scheduled_, immediate_flush_scheduled_>>
batch   == <<commit_data_req_, flags, direct_patching_enabled_>>
arbiter == <<binding, ids, batch>>
runner  == <<tasks, timers, todo>>
memory  == <<writer, chunk, check_failed>>
callers == <<settled, may_delete, promised>>
port    == <<channel, service>>
vars    == <<setup, arbiter, runner, memory, callers, port>>

mode == setup.mode
use_shmem_emulation_ == mode # "kDefault"
Scraping == mode = "scraping"

ChunksOf(w) == 1 .. setup.chunks[w]
Leases == UNION {{w} \X ChunksOf(w) : w \in DOMAIN setup.chunks}

EmptyReq == [chunks |-> <<>>, patches |-> <<>>, flush_request_id |-> 0]

Init ==
    /\ setup \in Setups
    /\ endpoint = CreatedBound
    /\ fully_bound_ = CreatedBound
    /\ target_buffer_reservations_ = [r \in Reservations |-> Absent]
    /\ pending_writers_ = [i \in WriterIDs |-> None]
    /\ active_writer_ids_ = {}
    /\ last_id_ = 0
    /\ commit_data_req_ = None
    /\ delayed_flush_scheduled_ = FALSE
    /\ immediate_flush_scheduled_ = FALSE
    /\ pending_flush_callbacks_ = {}
    /\ direct_patching_enabled_ = FALSE
    /\ did_shutdown_ = FALSE
    /\ tasks = <<>>
    /\ timers = [delayed |-> 0, immediate |-> 0]
    /\ todo = [t \in Threads |-> <<>>]
    /\ writer = [w \in Writers |->
                   [state |-> "none", id |-> 0, target |-> 0,
                    chunks |-> 0, open |-> 0, patch_list |-> <<>>]]
    /\ chunk = [l \in Leases |->
                  [state |-> "kChunkFree", needs_patching |-> FALSE, missing |-> 0]]
    /\ check_failed = FALSE
    /\ settled = {}
    /\ may_delete = FALSE
    /\ promised = <<>>
    /\ channel = <<>>
    /\ service = [writers |-> [i \in WriterIDs |-> 0], moved |-> [w \in Writers |-> <<>>], skipped |-> {},
                  replied |-> [cb \in Callbacks |-> 0], flushed |-> {}]

-----------------------------------------------------------------------------
(***************************************************************************)
(* Threads and tasks.                                                      *)
(***************************************************************************)
Idle(t) == todo[t] = <<>>

\* Thread t's next step is of this kind.
Doing(t, op) == todo[t] # <<>> /\ Head(todo[t]).op = op

\* Thread t's step is over; it does ops next, then what was left.
Then(t, ops) == todo' = [todo EXCEPT ![t] = ops \o Tail(@)]

FlushCall(cb)       == [op |-> "Flush", callback |-> cb]
AbortCall(r)        == [op |-> "Abort", reservation |-> r]
SendCall(msg)       == [op |-> "Send", msg |-> msg]
PostTask(call)      == [op |-> "PostTask", task |-> call]
PostFlush(kind)     == [op |-> "PostDelayedFlush", kind |-> kind]

\* Messages to the ProducerEndpoint.
CommitData(req, cb) == [type |-> "CommitData", req |-> req, callback |-> cb]
Register(id, buf)   == [type |-> "Register", id |-> id, buffer |-> buf]
Unregister(id)      == [type |-> "Unregister", id |-> id]

\* task_runner_->PostTask(), after the lock was released.
DoPostTask(t) ==
    /\ Doing(t, "PostTask")
    /\ tasks' = Append(tasks, Head(todo[t]).task)
    /\ Then(t, <<>>)
    /\ UNCHANGED <<arbiter, timers, memory, callers, port>>

\* task_runner_->PostDelayedTask(), after the lock was released.
DoPostDelayedFlush(t) ==
    /\ Doing(t, "PostDelayedFlush")
    /\ timers' = [timers EXCEPT ![Head(todo[t]).kind] = @ + 1]
    /\ Then(t, <<>>)
    /\ UNCHANGED <<arbiter, tasks, memory, callers, port>>

\* A delayed flush is due: it clears both flags under the lock and flushes, or
\* does nothing once the arbiter is gone.  Delayed tasks may overtake posted
\* ones and each other.
RunDelayedFlush(kind) ==
    /\ Idle(IPC)
    /\ timers[kind] > 0
    /\ timers' = [timers EXCEPT ![kind] = @ - 1]
    /\ delayed_flush_scheduled_' = (delayed_flush_scheduled_ /\ may_delete)
    /\ immediate_flush_scheduled_' = (immediate_flush_scheduled_ /\ may_delete)
    /\ todo' = [todo EXCEPT ![IPC] = IF may_delete THEN <<>> ELSE <<FlushCall({})>>]
    /\ UNCHANGED <<binding, ids, commit_data_req_, direct_patching_enabled_, tasks, memory,
                   callers, port>>

-----------------------------------------------------------------------------
(***************************************************************************)
(* Creating and destroying writers.                                        *)
(***************************************************************************)
IsReservationTargetBufferId(target) == target \in Reservations

\* IdAllocatorGeneric::AllocateGeneric: the first free id after last_id_, in
\* a circle, or 0 when all are taken.
CircleDistance(id) == (id - last_id_ - 1 + kMaxWriterID) % kMaxWriterID

AllocateId ==
    LET free == WriterIDs \ active_writer_ids_
    IN  IF free = {} THEN 0
        ELSE CHOOSE id \in free : \A j \in free : CircleDistance(id) <= CircleDistance(j)

\* CreateTraceWriter(buffer) and CreateStartupTraceWriter(reservation).
CreateTraceWriterInternal(t, w, requested_target) ==
    LET id == AllocateId
        res == target_buffer_reservations_
        reserves == /\ IsReservationTargetBufferId(requested_target)
                    /\ res[requested_target] \in {Absent, Unbound}
        target == IF IsReservationTargetBufferId(requested_target) /\ ~reserves
                  THEN res[requested_target] ELSE requested_target
    IN  /\ Idle(t)
        /\ Home[w] = t
        /\ writer[w].state = "none"
        /\ requested_target \in Buffers => endpoint
        /\ ~may_delete
        /\ IF did_shutdown_ \/ id = 0
           THEN /\ writer' = [writer EXCEPT ![w].state = "null"]
                /\ UNCHANGED <<binding, ids, todo>>
           ELSE /\ active_writer_ids_' = active_writer_ids_ \cup {id}
                /\ last_id_' = id
                /\ writer' = [writer EXCEPT ![w] = [@ EXCEPT !.state = "live",
                                 !.id = id, !.target = target]]
                /\ IF reserves
                   THEN /\ target_buffer_reservations_' = [res EXCEPT ![target] = Unbound]
                        /\ pending_writers_' = [pending_writers_ EXCEPT ![id] = target]
                        /\ fully_bound_' = FALSE
                        /\ UNCHANGED todo
                   ELSE /\ todo' = [todo EXCEPT ![t] =
                              IF target = kInvalidBufferId THEN <<>>
                              ELSE <<PostTask(SendCall(Register(id, target)))>>]
                        /\ UNCHANGED <<target_buffer_reservations_, pending_writers_, fully_bound_>>
                /\ UNCHANGED <<endpoint, pending_flush_callbacks_, did_shutdown_>>
        /\ UNCHANGED <<batch, tasks, timers, chunk, check_failed, callers, port>>

\* The id is free for reuse as soon as the lock is released; the message that
\* unregisters the writer is posted later.
ReleaseWriterID(t) ==
    LET id == writer[Head(todo[t]).w].id
    IN  /\ Doing(t, "ReleaseWriterID")
        /\ active_writer_ids_' = active_writer_ids_ \ {id}
        /\ pending_writers_' = [pending_writers_ EXCEPT ![id] = None]
        /\ Then(t, IF pending_writers_[id] = None /\ endpoint
                   THEN <<PostTask(SendCall(Unregister(id)))>> ELSE <<>>)
        /\ UNCHANGED <<endpoint, fully_bound_, target_buffer_reservations_,
                       pending_flush_callbacks_, last_id_, did_shutdown_, batch, tasks, timers,
                       memory, callers, port>>

TryShutdown ==
    /\ setup.shutdown
    /\ Idle(IPC)
    /\ ~may_delete
    /\ did_shutdown_' = TRUE
    /\ may_delete' = (active_writer_ids_ = {})
    /\ UNCHANGED <<binding, active_writer_ids_, last_id_, batch, runner, memory, settled,
                   promised, port>>

-----------------------------------------------------------------------------
(***************************************************************************)
(* What a TraceWriterImpl asks of the arbiter.  The size of each nested    *)
(* message that a chunk ends in is missing from the chunk; it goes to the  *)
(* patch list and is set when the message is finalized.                    *)
(***************************************************************************)
Owns(t, w) == Idle(t) /\ writer[w].state = "live" /\ Home[w] = t

ReturnCall(w, k) == [op |-> "UpdateCommitDataRequest", w |-> w, chunk |-> k]

NewPatches(k, n) == [j \in 1 .. n |-> [chunk |-> k, patched |-> FALSE]]

\* The chunk writer w has open once n of its size fields became patches.
Annotated(w, n) ==
    LET l == <<w, writer[w].open>>
    IN  IF n = 0 THEN chunk
        ELSE [chunk EXCEPT ![l] = [@ EXCEPT !.needs_patching = TRUE, !.missing = n]]

\* GetNewBuffer: the new chunk is acquired first, then the old one returned.
\* When a packet continues, np size fields of the old chunk become patches.
\* GetNewChunk commits synchronously when it runs on the IPC thread for a
\* writer that may stall and half of the buffer waits for a commit.
GetNewBuffer(t, w, np, sync) ==
    LET k == writer[w].open
        next == writer[w].chunks + 1
    IN  /\ Owns(t, w)
        /\ next <= setup.chunks[w]
        /\ k = 0 => np = 0
        /\ sync => /\ t = IPC /\ CreatedBound /\ Reservations = {}
                   /\ commit_data_req_ # None
                   /\ Len(commit_data_req_.chunks) >= setup.half
        /\ chunk' = [Annotated(w, np) EXCEPT ![<<w, next>>] =
                       [@ EXCEPT !.state = "kChunkBeingWritten"]]
        /\ writer' = [writer EXCEPT ![w].chunks = next, ![w].open = next,
                                    ![w].patch_list = @ \o NewPatches(k, np)]
        /\ todo' = [todo EXCEPT ![t] = (IF sync THEN <<FlushCall({})>> ELSE <<>>)
                                       \o (IF k = 0 THEN <<>> ELSE <<ReturnCall(w, k)>>)]
        /\ UNCHANGED <<arbiter, tasks, timers, check_failed, callers, port>>

\* The current chunk is returned and the writer has none: FinishTracePacket on
\* a chunk without room for another packet, and GetNewBuffer when the buffer is
\* exhausted and the writer drops packets (the last fragment is invalidated and
\* needs no patches of its own).
ReturnCurrentChunk(t, w) ==
    /\ Owns(t, w)
    /\ writer[w].open # 0
    /\ writer' = [writer EXCEPT ![w].open = 0]
    /\ todo' = [todo EXCEPT ![t] = <<ReturnCall(w, writer[w].open)>>]
    /\ UNCHANGED <<arbiter, tasks, timers, chunk, check_failed, callers, port>>

\* A nested message is finalized: its size field in the patch list is set.
FinalizeNestedMessage(t, w, j) ==
    /\ Owns(t, w)
    /\ ~writer[w].patch_list[j].patched
    /\ writer' = [writer EXCEPT ![w].patch_list[j].patched = TRUE]
    /\ UNCHANGED <<arbiter, runner, chunk, check_failed, callers, port>>

\* NewTracePacket and FinishTracePacket send the patches that are ready.
SendPatches(t, w) ==
    /\ Owns(t, w)
    /\ writer[w].patch_list # <<>>
    /\ Head(writer[w].patch_list).patched
    /\ todo' = [todo EXCEPT ![t] = <<ReturnCall(w, 0)>>]
    /\ UNCHANGED <<arbiter, tasks, timers, memory, callers, port>>

InRequest(l) ==
    /\ commit_data_req_ # None
    /\ \E i \in DOMAIN commit_data_req_.chunks : commit_data_req_.chunks[i].lease = l

\* Leases of chunks that UpdateCommitDataRequest has taken over.
Returned ==
    {l \in Leases : /\ l[2] <= writer[l[1]].chunks
                    /\ chunk[l].state = "kChunkBeingWritten" => InRequest(l)}

\* x, a callback or a flush id, is given and covers these leases.
Promised(x, leases) ==
    [y \in DOMAIN promised \cup {x} |-> IF y = x THEN leases ELSE promised[y]]

PatchesFinal(w) == \A j \in DOMAIN writer[w].patch_list : writer[w].patch_list[j].patched

ReturnOpenChunk(w) == IF writer[w].open = 0 THEN <<>> ELSE <<ReturnCall(w, writer[w].open)>>

\* TraceWriterImpl::Flush(callback): return the current chunk, then flush.
Flush(t, w, cb) ==
    /\ Owns(t, w)
    /\ cb \notin DOMAIN promised
    /\ PatchesFinal(w)
    /\ promised' = Promised(cb, Returned \cup {l \in Leases : l[1] = w /\ l[2] <= writer[w].chunks})
    /\ writer' = [writer EXCEPT ![w].open = 0]
    /\ todo' = [todo EXCEPT ![t] = ReturnOpenChunk(w) \o <<FlushCall({cb})>>]
    /\ UNCHANGED <<arbiter, tasks, timers, chunk, check_failed, settled, may_delete, port>>

\* Mutant: the id is released before the last chunk is returned.
DestroyWriterReleasesFirst(t, w) ==
    /\ Owns(t, w)
    /\ PatchesFinal(w)
    /\ writer' = [writer EXCEPT ![w] = [@ EXCEPT !.state = "dead", !.open = 0]]
    /\ todo' = [todo EXCEPT ![t] = <<[op |-> "ReleaseWriterID", w |-> w]>> \o
          (IF writer[w].open = 0 THEN <<>> ELSE Append(ReturnOpenChunk(w), FlushCall({})))]
    /\ UNCHANGED <<arbiter, tasks, timers, chunk, check_failed, callers, port>>

\* ~TraceWriterImpl.
DestroyWriter(t, w) ==
    /\ Owns(t, w)
    /\ PatchesFinal(w)
    /\ writer' = [writer EXCEPT ![w] = [@ EXCEPT !.state = "dead", !.open = 0]]
    /\ todo' = [todo EXCEPT ![t] =
          (IF writer[w].open = 0 THEN <<>> ELSE Append(ReturnOpenChunk(w), FlushCall({})))
             \o <<[op |-> "ReleaseWriterID", w |-> w]>>]
    /\ UNCHANGED <<arbiter, tasks, timers, chunk, check_failed, callers, port>>

-----------------------------------------------------------------------------
(***************************************************************************)
(* UpdateCommitDataRequest, for ReturnCompletedChunk and for SendPatches.  *)
(***************************************************************************)
\* Patches leave the list from the front, as long as they are patched.
PatchedPrefix(list) ==
    CHOOSE n \in 0 .. Len(list) :
        /\ \A j \in 1 .. n : list[j].patched
        /\ n < Len(list) => ~list[n + 1].patched

\* The request with the chunk attached, when the call returns one.
WithChunk(req, w, k) ==
    IF k = 0 THEN req
    ELSE [req EXCEPT !.chunks = Append(@,
            [lease |-> <<w, k>>, target |-> writer[w].target, scraped |-> FALSE])]

\* With direct patching a chunk that needs patches is not complete yet.
StaysOpen(l) == direct_patching_enabled_ /\ chunk[l].needs_patching

\* The members of a finite set of numbers, from the smallest to the largest.
Nth(S, i) == CHOOSE n \in S : Cardinality({m \in S : m <= n}) = i
Sorted(S) == [i \in 1 .. Cardinality(S) |-> Nth(S, i)]

ReleaseAsComplete(c) == [c EXCEPT !.state = "kChunkComplete"]

\* TryDirectPatchLocked finds the chunk: it is in the request and still open.
DirectlyPatchable(req, l) ==
    /\ direct_patching_enabled_
    /\ \E i \in DOMAIN req.chunks : req.chunks[i].lease = l
    /\ chunk[l].state = "kChunkBeingWritten"

\* TryDirectPatchLocked for the n patches of one chunk.
TryDirectPatchLocked(c, n, needs_more) ==
    [state |-> IF needs_more THEN c.state ELSE "kChunkComplete",
     needs_patching |-> needs_more,
     missing |-> c.missing - n]

PendingChunks(req) == Cardinality({i \in DOMAIN req.chunks : ~req.chunks[i].scraped})

UpdateCommitDataRequest(t) ==
    LET w    == Head(todo[t]).w
        k    == Head(todo[t]).chunk
        list == writer[w].patch_list
        n    == PatchedPrefix(list)
        rest == SubSeq(list, n + 1, Len(list))
        req  == WithChunk(IF commit_data_req_ = None THEN EmptyReq ELSE commit_data_req_, w, k)
        ready(c)  == Cardinality({j \in 1 .. n : list[j].chunk = c})
        more(c)   == rest # <<>> /\ rest[1].chunk = c
        direct(l) == l[1] = w /\ ready(l[2]) > 0 /\ DirectlyPatchable(req, l)
        remote    == Sorted({c \in ChunksOf(w) : ready(c) > 0 /\ ~direct(<<w, c>>)})
        patches   == [i \in DOMAIN remote |->
                        [lease |-> <<w, remote[i]>>, target |-> writer[w].target,
                         count |-> ready(remote[i]), has_more |-> more(remote[i])]]
        delayed   == commit_data_req_ = None /\ fully_bound_ /\ ~delayed_flush_scheduled_
        emulated  == fully_bound_ /\ use_shmem_emulation_
        urgent    == fully_bound_ /\ (patches # <<>> \/ PendingChunks(req) >= setup.half)
        immediate == (urgent \/ emulated) /\ ~immediate_flush_scheduled_
    IN  /\ Doing(t, "UpdateCommitDataRequest")
        /\ commit_data_req_' = [req EXCEPT !.patches = @ \o patches]
        /\ chunk' = [l \in Leases |->
              IF direct(l) THEN TryDirectPatchLocked(chunk[l], ready(l[2]), more(l[2]))
              ELSE IF l = <<w, k>> /\ ~StaysOpen(l) THEN ReleaseAsComplete(chunk[l])
              ELSE chunk[l]]
        /\ check_failed' = (check_failed \/ (k # 0 /\ chunk[<<w, k>>].state # "kChunkBeingWritten"))
        /\ writer' = [writer EXCEPT ![w].patch_list = rest]
        /\ IF emulated /\ t = IPC
           THEN /\ delayed_flush_scheduled_' = FALSE
                /\ immediate_flush_scheduled_' = FALSE
                /\ Then(t, <<FlushCall({})>>)
           ELSE /\ delayed_flush_scheduled_' = (delayed_flush_scheduled_ \/ delayed)
                /\ immediate_flush_scheduled_' = (immediate_flush_scheduled_ \/ immediate)
                /\ Then(t, IF immediate THEN <<PostFlush("immediate")>>
                           ELSE IF delayed THEN <<PostFlush("delayed")>> ELSE <<>>)
        /\ UNCHANGED <<binding, ids, direct_patching_enabled_, tasks, timers, callers, port>>

EnableDirectSMBPatching(t) ==
    /\ Idle(t)
    /\ DirectPatching
    /\ ~direct_patching_enabled_
    /\ direct_patching_enabled_' = TRUE
    /\ UNCHANGED <<binding, ids, commit_data_req_, flags, runner, memory, callers, port>>

-----------------------------------------------------------------------------
(***************************************************************************)
(* FlushPendingCommitDataRequests.                                         *)
(***************************************************************************)
\* ReplaceCommitPlaceholderBufferIdsLocked, for one target buffer.
Resolve(target) ==
    IF IsReservationTargetBufferId(target) /\ target_buffer_reservations_[target] >= 0
    THEN target_buffer_reservations_[target] ELSE target

\* Of a chunk or patch of a request.
Resolved(entry) == [entry EXCEPT !.target = Resolve(@)]

ReplaceCommitPlaceholderBufferIds(req) ==
    [req EXCEPT !.chunks  = [i \in DOMAIN @ |-> Resolved(@[i])],
                !.patches = [i \in DOMAIN @ |-> Resolved(@[i])]]

\* The i-th full message of a split request.
SplitPart(req, i, per) ==
    [EmptyReq EXCEPT !.chunks = SubSeq(req.chunks, (i - 1) * per + 1, i * per)]

\* Mutant: the patches are not copied into the last message.
CommitDataWithoutPatches(req, cb) ==
    LET per  == kMaxCommitSize - 1
        full == IF Len(req.chunks) < kMaxCommitSize THEN 0 ELSE (Len(req.chunks) - 1) \div per
        last == [req EXCEPT !.chunks = SubSeq(@, full * per + 1, Len(@)), !.patches = <<>>]
    IN  IF full = 0 THEN <<CommitData(req, cb)>>
        ELSE Append([i \in 1 .. full |-> CommitData(SplitPart(req, i, per), {})],
                    CommitData(last, cb))

\* CommitDataWithSplitting: full messages of kMaxCommitSize - 1 chunks, then
\* the rest of the chunks with the patches, the flush id and the callback.
CommitDataWithSplitting(req, cb) ==
    LET per  == kMaxCommitSize - 1
        full == IF Len(req.chunks) < kMaxCommitSize THEN 0
                ELSE (Len(req.chunks) - 1) \div per
        last == [req EXCEPT !.chunks = SubSeq(@, full * per + 1, Len(@))]
    IN  Append([i \in 1 .. full |-> CommitData(SplitPart(req, i, per), {})], CommitData(last, cb))

\* How often the request names the chunk: emulation frees it each time.
Mentions(req, l) == Cardinality({i \in DOMAIN req.chunks : req.chunks[i].lease = l})

\* The rest of the call: thread t does ops, then what it had left.
GoOn(t, ops, rest) == todo' = [todo EXCEPT ![t] = ops \o rest]

\* Mutant: the callback is forgotten.
FlushUnboundForgets(t, cb, rest) ==
    /\ ~fully_bound_
    /\ GoOn(t, <<>>, rest)
    /\ UNCHANGED <<pending_flush_callbacks_, commit_data_req_, chunk, check_failed, channel, service>>

\* Not fully bound: the callback waits, the request stays.
FlushUnbound(t, cb, rest) ==
    /\ ~fully_bound_
    /\ pending_flush_callbacks_' = pending_flush_callbacks_ \cup cb
    /\ GoOn(t, <<>>, rest)
    /\ UNCHANGED <<commit_data_req_, chunk, check_failed, channel, service>>

\* Mutant: the posted task takes the request with it, if nothing is scraped into it.
FlushElsewhereTakesRequest(t, cb, rest) ==
    LET takes == commit_data_req_ # None /\ mode # "scraping" IN
    /\ fully_bound_
    /\ t # IPC
    /\ commit_data_req_' = IF takes THEN None ELSE commit_data_req_
    /\ GoOn(t, <<PostTask(IF takes THEN SendCall(CommitData(commit_data_req_, cb))
                          ELSE FlushCall(cb))>>, rest)
    /\ UNCHANGED <<pending_flush_callbacks_, chunk, check_failed, channel, service>>

\* On another thread: the call is posted, the request stays where it is.
FlushElsewhere(t, cb, rest) ==
    /\ fully_bound_
    /\ t # IPC
    /\ GoOn(t, <<PostTask(FlushCall(cb))>>, rest)
    /\ UNCHANGED <<pending_flush_callbacks_, commit_data_req_, chunk, check_failed, channel, service>>

\* Mutant: with nothing to commit the callback runs at once.
FlushEmptyRepliesAtOnce(t, cb, rest) ==
    /\ fully_bound_
    /\ t = IPC
    /\ commit_data_req_ = None
    /\ service' = [service EXCEPT !.replied =
                     [c \in Callbacks |-> IF c \in cb THEN @[c] + 1 ELSE @[c]]]
    /\ GoOn(t, <<>>, rest)
    /\ UNCHANGED <<pending_flush_callbacks_, commit_data_req_, chunk, check_failed, channel>>

\* Nothing to commit: an empty commit lines up behind the earlier ones.
FlushEmpty(t, cb, rest) ==
    /\ fully_bound_
    /\ t = IPC
    /\ commit_data_req_ = None
    /\ channel' = IF cb = {} THEN channel ELSE Append(channel, CommitData(EmptyReq, cb))
    /\ GoOn(t, <<>>, rest)
    /\ UNCHANGED <<pending_flush_callbacks_, commit_data_req_, chunk, check_failed, service>>

\* A chunk of the request once the arbiter is done with it.
FlushedChunk(c) ==
    CASE use_shmem_emulation_ -> [c EXCEPT !.state = "kChunkFree"]
      [] ~use_shmem_emulation_ /\ c.state = "kChunkBeingWritten" -> ReleaseAsComplete(c)
      [] OTHER -> c

\* The request is committed.  Only the IPC thread sends, so nothing that could
\* matter comes between releasing the lock and sending.
FlushRequest(t, cb, rest) ==
    LET req == commit_data_req_
        resolved == ReplaceCommitPlaceholderBufferIds(req)
    IN  /\ fully_bound_
        /\ t = IPC
        /\ req # None
        /\ commit_data_req_' = None
        /\ chunk' = [l \in Leases |->
              IF Mentions(req, l) = 0 THEN chunk[l] ELSE FlushedChunk(chunk[l])]
        /\ check_failed' = (check_failed \/
              /\ use_shmem_emulation_
              /\ \E l \in Leases : \/ Mentions(req, l) > 1
                                   \/ Mentions(req, l) = 1 /\ chunk[l].state = "kChunkFree")
        /\ channel' = channel \o (CASE check_failed' -> <<>>
                                    [] ~check_failed' /\ use_shmem_emulation_ ->
                                         CommitDataWithSplitting(resolved, cb)
                                    [] OTHER -> <<CommitData(resolved, cb)>>)
        /\ GoOn(t, <<>>, rest)
        /\ UNCHANGED <<pending_flush_callbacks_, service>>

FlushLocked(t, cb, rest) ==
    /\ \/ FlushUnbound(t, cb, rest)
       \/ FlushElsewhere(t, cb, rest)
       \/ FlushEmpty(t, cb, rest)
       \/ FlushRequest(t, cb, rest)
    /\ UNCHANGED <<endpoint, fully_bound_, target_buffer_reservations_, pending_writers_, ids,
                   flags, direct_patching_enabled_, timers, writer, callers>>

FlushPendingCommitDataRequests(t) ==
    /\ Doing(t, "Flush")
    /\ FlushLocked(t, Head(todo[t]).callback, Tail(todo[t]))
    /\ UNCHANGED tasks

-----------------------------------------------------------------------------
(***************************************************************************)
(* Binding the arbiter and the startup reservations.                       *)
(***************************************************************************)
\* Mutant: unresolved reservations are overlooked.
UpdateFullyBoundByEndpoint(bound, res) == bound

\* UpdateFullyBoundLocked, given the members it reads.
UpdateFullyBound(bound, res) == bound /\ \A r \in Reservations : res[r] # Unbound

\* Mutant: the flush is left out when no callback waits for it.
FlushAfterBindingForCallbacks(bound) ==
    IF bound /\ pending_flush_callbacks_ # {} THEN <<FlushCall(pending_flush_callbacks_)>> ELSE <<>>

\* TakePendingFlushCallbacksLocked and the flush that follows, once bound.
CallbacksLeft(bound) == IF bound THEN {} ELSE pending_flush_callbacks_
FlushAfterBinding(bound) == IF bound THEN <<FlushCall(pending_flush_callbacks_)>> ELSE <<>>

BindToProducerEndpoint ==
    LET bound == UpdateFullyBound(TRUE, target_buffer_reservations_)
    IN  /\ Idle(IPC)
        /\ ~endpoint
        /\ ~may_delete
        /\ endpoint' = TRUE
        /\ fully_bound_' = bound
        /\ pending_flush_callbacks_' = CallbacksLeft(bound)
        /\ todo' = [todo EXCEPT ![IPC] = FlushAfterBinding(bound)]
        /\ UNCHANGED <<target_buffer_reservations_, pending_writers_, ids, batch, tasks, timers,
                       memory, callers, port>>

\* What thread t does under and after the lock to resolve reservation r.
BindStartupTargetBufferImpl(t, r, buffer, rest) ==
    LET res     == [target_buffer_reservations_ EXCEPT ![r] = buffer]
        bound   == UpdateFullyBound(endpoint, res)
        pending == {i \in WriterIDs : pending_writers_[i] = r}
        to_register == IF buffer = kInvalidBufferId THEN <<>> ELSE Sorted(pending)
    IN  /\ target_buffer_reservations_' = res
        /\ pending_writers_' = [i \in WriterIDs |->
               IF i \in pending THEN None ELSE pending_writers_[i]]
        /\ fully_bound_' = IF endpoint THEN bound ELSE fully_bound_
        /\ pending_flush_callbacks_' = CallbacksLeft(bound)
        /\ channel' = channel \o [i \in DOMAIN to_register |-> Register(to_register[i], buffer)]
        /\ GoOn(t, FlushAfterBinding(bound), rest)
        /\ UNCHANGED endpoint

\* The callers settle a reservation once: PERFETTO_CHECK(!reservation.resolved).
BindStartupTargetBuffer(r, buffer) ==
    /\ Idle(IPC)
    /\ endpoint
    /\ ~may_delete
    /\ r \notin settled
    /\ settled' = settled \cup {r}
    /\ BindStartupTargetBufferImpl(IPC, r, buffer, <<>>)
    /\ UNCHANGED <<ids, batch, tasks, timers, memory, may_delete, promised, service>>

AbortStartupTracing(t, r) ==
    /\ Idle(t)
    /\ ~may_delete
    /\ r \notin settled
    /\ settled' = settled \cup {r}
    /\ todo' = [todo EXCEPT ![t] = <<AbortCall(r)>>]
    /\ UNCHANGED <<arbiter, tasks, timers, memory, may_delete, promised, port>>

AbortLocked(t, r, rest) ==
    /\ IF endpoint /\ t # IPC
       THEN /\ GoOn(t, <<PostTask(AbortCall(r))>>, rest)
            /\ UNCHANGED <<binding, channel>>
       ELSE BindStartupTargetBufferImpl(t, r, kInvalidBufferId, rest)
    /\ UNCHANGED <<ids, batch, timers, memory, callers, service>>

AbortStartupTracingForReservation(t) ==
    /\ Doing(t, "Abort")
    /\ AbortLocked(t, Head(todo[t]).reservation, Tail(todo[t]))
    /\ UNCHANGED tasks

\* The IPC thread takes the next posted task and runs it up to the point where
\* it releases the lock.  The tasks hold a weak pointer to the arbiter and do
\* nothing once it is gone.
RunTask ==
    /\ Idle(IPC)
    /\ tasks # <<>>
    /\ tasks' = Tail(tasks)
    /\ LET task == Head(tasks)
       IN  CASE may_delete ->
                  UNCHANGED <<arbiter, timers, todo, memory, callers, port>>
             [] ~may_delete /\ task.op = "Flush" -> FlushLocked(IPC, task.callback, <<>>)
             [] ~may_delete /\ task.op = "Abort" -> AbortLocked(IPC, task.reservation, <<>>)
             [] ~may_delete /\ task.op = "Send" ->
                  /\ channel' = Append(channel, task.msg)
                  /\ UNCHANGED <<arbiter, timers, todo, memory, callers, service>>

-----------------------------------------------------------------------------
(***************************************************************************)
(* Flush replies, and scraping by the producer when shared memory is       *)
(* emulated.                                                               *)
(***************************************************************************)
\* Mutant: the flush for a new request is not posted.
NotifyFlushCompletePostsNothing(id) ==
    LET req == IF commit_data_req_ = None THEN EmptyReq ELSE commit_data_req_
    IN  /\ Idle(IPC)
        /\ endpoint
        /\ id \notin DOMAIN promised
        /\ promised' = Promised(id, Returned)
        /\ commit_data_req_' = [req EXCEPT !.flush_request_id = IF id > @ THEN id ELSE @]
        /\ UNCHANGED <<binding, ids, flags, direct_patching_enabled_, runner, memory, settled,
                       may_delete, port>>

\* NotifyFlushComplete of the arbiter; ProducerIPCClientImpl then scrapes.
NotifyFlushComplete(id) ==
    LET create == commit_data_req_ = None
        req == IF create THEN EmptyReq ELSE commit_data_req_
    IN  /\ Idle(IPC)
        /\ endpoint
        /\ ~may_delete
        /\ id \notin DOMAIN promised
        /\ promised' = Promised(id, Returned)
        /\ commit_data_req_' = [req EXCEPT !.flush_request_id = IF id > @ THEN id ELSE @]
        /\ todo' = [todo EXCEPT ![IPC] =
              (IF create /\ fully_bound_ THEN <<PostTask(FlushCall({}))>> ELSE <<>>)
              \o (IF Scraping THEN <<[op |-> "Scrape"]>> ELSE <<>>)]
        /\ UNCHANGED <<binding, ids, flags, direct_patching_enabled_, tasks, timers, memory,
                       settled, may_delete, port>>

\* The writers the client has told the service about.
Scrapable(l) ==
    LET id == writer[l[1]].id
    IN  /\ id # 0
        /\ service.writers[id] # 0
        /\ \A i \in DOMAIN channel : ~(channel[i].type = "Unregister" /\ channel[i].id = id)
        /\ chunk[l].state \in {"kChunkComplete", "kChunkBeingWritten"}

\* ScrapeEmulatedSharedMemoryBuffer adds the chunks it finds to
\* commit_data_req_; its own commit_req stays empty, and so nothing is sent.
\* A chunk being written is found when it has at least two packets.
ScrapeEmulatedSharedMemoryBuffer(found) ==
    /\ Doing(IPC, "Scrape")
    /\ \A l \in found : Scrapable(l)
    /\ {l \in Leases : Scrapable(l) /\ chunk[l].state = "kChunkComplete"} \subseteq found
    /\ commit_data_req_' = [commit_data_req_ EXCEPT !.chunks = @ \o
          SetToSeq({[lease |-> l, target |-> service.writers[writer[l[1]].id], scraped |-> TRUE] :
                       l \in found})]
    /\ Then(IPC, <<>>)
    /\ UNCHANGED <<binding, ids, flags, direct_patching_enabled_, tasks, timers, memory, callers, port>>

-----------------------------------------------------------------------------
(***************************************************************************)
(* The service's ProducerEndpointImpl, reading the ordered channel.        *)
(***************************************************************************)
RegisterTraceWriter(msg) ==
    /\ service' = [service EXCEPT !.writers[msg.id] = msg.buffer]
    /\ UNCHANGED chunk

UnregisterTraceWriter(msg) ==
    /\ service' = [service EXCEPT !.writers[msg.id] = 0]
    /\ UNCHANGED chunk

\* The chunks the service has copied.
Arrived ==
    UNION {{service.moved[w][i].lease : i \in DOMAIN service.moved[w]} : w \in Writers}

\* ApplyChunkPatches to one chunk: its flag goes once no patch is to come.
Patched(c, patches, l) ==
    LET mine == SelectSeq(patches, LAMBDA p : p.lease = l)
    IN  IF mine = <<>> THEN c
        ELSE [c EXCEPT !.missing = @ - FoldSeq(LAMBDA p, n : p.count + n, 0, mine),
                       !.needs_patching = Last(mine).has_more]

\* A patch for a chunk that the service has no copy of is dropped.
PatchesFor(patches, leases) == SelectSeq(patches, LAMBDA p : p.lease \in leases)

\* The members of sequence s at the places of set P, in their order.
Selected(s, P) == [n \in 1 .. Cardinality(P) |-> s[Sorted(P)[n]]]

\* CommitData: copy and free the chunks that are complete, apply the patches
\* to the copies, take note of the flush reply, and run the callback last.
ServiceCommitData(msg) ==
    LET req == msg.req
        Arrives(e) == use_shmem_emulation_ \/ chunk[e.lease].state = "kChunkComplete"
        arriving == {i \in DOMAIN req.chunks : Arrives(req.chunks[i])}
        leases == {req.chunks[i].lease : i \in arriving}
        patches == PatchesFor(req.patches, Arrived \cup leases)
    IN  /\ chunk' = [l \in Leases |->
              Patched(IF l \in leases /\ ~use_shmem_emulation_
                      THEN [chunk[l] EXCEPT !.state = "kChunkFree"] ELSE chunk[l], patches, l)]
        /\ service' = [service EXCEPT
              !.moved = [w \in Writers |-> @[w] \o
                 Selected(req.chunks, {i \in arriving : req.chunks[i].lease[1] = w})],
              !.skipped = @ \cup ({req.chunks[i].lease : i \in DOMAIN req.chunks} \ leases),
              !.flushed = @ \cup ({req.flush_request_id} \ {0}),
              !.replied = [cb \in Callbacks |-> IF cb \in msg.callback THEN @[cb] + 1 ELSE @[cb]]]

Receive ==
    /\ channel # <<>>
    /\ LET msg == Head(channel)
       IN  CASE msg.type = "CommitData" -> ServiceCommitData(msg)
             [] msg.type = "Register"   -> RegisterTraceWriter(msg)
             [] msg.type = "Unregister" -> UnregisterTraceWriter(msg)
    /\ channel' = Tail(channel)
    /\ UNCHANGED <<arbiter, runner, writer, check_failed, callers>>

-----------------------------------------------------------------------------
\* A thread goes on with what it started.
Continue(t) ==
    \/ UpdateCommitDataRequest(t)
    \/ FlushPendingCommitDataRequests(t)
    \/ AbortStartupTracingForReservation(t)
    \/ ReleaseWriterID(t)
    \/ DoPostTask(t)
    \/ DoPostDelayedFlush(t)

\* A thread calls into a writer or the arbiter.
Call(t) ==
    \/ \E w \in DOMAIN setup.chunks :
          \/ \E target \in Reservations \cup Buffers : CreateTraceWriterInternal(t, w, target)
          \/ \E np \in 0 .. setup.patches, sync \in BOOLEAN : GetNewBuffer(t, w, np, sync)
          \/ ReturnCurrentChunk(t, w)
          \/ \E j \in DOMAIN writer[w].patch_list : FinalizeNestedMessage(t, w, j)
          \/ SendPatches(t, w)
          \/ \E cb \in setup.callbacks : Flush(t, w, cb)
          \/ DestroyWriter(t, w)
    \/ \E r \in Reservations : AbortStartupTracing(t, r)
    \/ EnableDirectSMBPatching(t)

Scrape == \E found \in SUBSET Leases : ScrapeEmulatedSharedMemoryBuffer(found)

Next ==
    /\ \/ Receive
       \/ /\ ~check_failed
          /\ InProcess => channel = <<>>
          /\ \/ \E t \in Threads : Call(t) \/ Continue(t)
             \/ RunTask
             \/ \E kind \in {"delayed", "immediate"} : RunDelayedFlush(kind)
             \/ Scrape
             \/ \E id \in FlushIDs : NotifyFlushComplete(id)
             \/ TryShutdown
             \/ BindToProducerEndpoint
             \/ \E r \in Reservations, b \in Buffers : BindStartupTargetBuffer(r, b)
    /\ UNCHANGED setup

Spec == Init /\ [][Next]_vars

\* A thread that holds no lock goes on; the task runner runs its tasks; the
\* service reads its socket.
Fairness ==
    /\ \A t \in Threads : WF_vars(Continue(t) /\ UNCHANGED setup)
    /\ WF_vars(RunTask /\ UNCHANGED setup)
    /\ WF_vars(RunDelayedFlush("delayed") /\ UNCHANGED setup)
    /\ WF_vars(RunDelayedFlush("immediate") /\ UNCHANGED setup)
    /\ WF_vars(Receive /\ UNCHANGED setup)
    /\ WF_vars(Scrape /\ UNCHANGED setup)

FairSpec == Spec /\ Fairness
-----------------------------------------------------------------------------
(***************************************************************************)
(* Properties.                                                             *)
(***************************************************************************)
\* Something that is under way ends in a call of
\* FlushPendingCommitDataRequests on the IPC thread.
Flushes(op) ==
    \/ op.op \in {"Flush", "PostDelayedFlush"}
    \/ op.op = "PostTask" /\ op.task.op = "Flush"

FlushUnderWay ==
    \/ timers.delayed + timers.immediate > 0
    \/ \E i \in DOMAIN tasks : Flushes(tasks[i])
    \/ \E t \in Threads : \E i \in DOMAIN todo[t] : Flushes(todo[t][i])

\* "If a commit_data_req_ exists it means that somebody else already posted a
\* FlushPendingCommitDataRequests() task" (NotifyFlushComplete): while the
\* arbiter is fully bound, a request is never left without a flush under way,
\* whatever the flags, and however often fully_bound_ changed in between.
NoStrandedCommit ==
    commit_data_req_ # None /\ fully_bound_ /\ ~may_delete => FlushUnderWay

\* Challenge 2 of FlushPendingCommitDataRequests: "we must guarantee that we
\* don't accidentally make commits out of order": the service sees the chunks
\* of a writer in the order they were written.  Scraping, which commits chunks
\* early and again, is excepted.
CommitsInOrder ==
    ~Scraping => \A w \in Writers : \A i, j \in DOMAIN service.moved[w] :
        i < j => service.moved[w][i].lease[2] < service.moved[w][j].lease[2]

\* The callback of TraceWriter::Flush runs once, although it may be queued
\* while unbound, taken, and queued again when fully_bound_ changed meanwhile.
\* When it runs, and when the service gets a flush reply, everything returned to the arbiter before the call has been
\* copied by the service ("give the guarantee to the caller that the data has
\* been flushed into the service").
FlushCoversEarlierData ==
    /\ \A cb \in Callbacks : service.replied[cb] > 0 =>
          service.replied[cb] = 1 /\ promised[cb] \subseteq Arrived
    /\ \A id \in service.flushed : promised[id] \subseteq Arrived

\* ReplaceCommitPlaceholderBufferIdsLocked: no reservation id reaches the
\* service, in a chunk or in a patch.
NoPlaceholderCommitted ==
    \A i \in DOMAIN channel :
        channel[i].type = "CommitData" =>
            /\ \A j \in DOMAIN channel[i].req.chunks  : channel[i].req.chunks[j].target \in Nat
            /\ \A j \in DOMAIN channel[i].req.patches : channel[i].req.patches[j].target \in Nat

\* A committed chunk is complete by the time the service looks at it:
\* "otherwise the service won't look at them".
NoCommittedChunkSkipped == service.skipped = {}

\* A chunk that is flagged as needing no patches has all of them, in shared
\* memory or in the service's copy, whichever way its patches travelled.
UnflaggedChunkIsPatched ==
    \A l \in Leases : ~chunk[l].needs_patching => chunk[l].missing = 0

\* No thread, task or message has anything left to do.
Quiescent ==
    /\ \A t \in Threads : Idle(t)
    /\ tasks = <<>> /\ timers.delayed + timers.immediate = 0 /\ channel = <<>>

\* When everything has been delivered, a patch is missing from a chunk only
\* while it is still in the patch list of its writer.  Scraping, which frees
\* chunks that are still being patched, is excepted.
NoPatchLost ==
    Quiescent /\ fully_bound_ /\ ~Scraping =>
        \A w \in DOMAIN setup.chunks : \A k \in ChunksOf(w) :
            chunk[<<w, k>>].missing =
                Cardinality({j \in DOMAIN writer[w].patch_list : writer[w].patch_list[j].chunk = k})

\* The PERFETTO_CHECKs of the chunk's state when the arbiter completes or frees
\* a chunk hold, unless chunks are scraped.
ArbiterChecksHold == ~Scraping => ~check_failed

\* Out-of-order patching, whether a patch is applied in shared memory or sent to
\* the service, with or without a flush in between: no committed chunk is passed
\* over, none is taken for finished too early, no patch gets lost and none hits a
\* chunk in the wrong state.
PatchesAreKept ==
    /\ NoCommittedChunkSkipped
    /\ UnflaggedChunkIsPatched
    /\ NoPatchLost
    /\ ArbiterChecksHold

\* When everything has been delivered, the service knows exactly the writers
\* that are alive and have a valid target buffer, each with that buffer, so
\* that scraping finds the buffer for every chunk.
RegistrationsSettle ==
    Quiescent /\ fully_bound_ /\ ~may_delete =>
        \A i \in WriterIDs :
            service.writers[i] =
                LET live == {w \in Writers : writer[w].state = "live" /\ writer[w].id = i}
                IN  IF live = {} THEN 0 ELSE Resolve(writer[CHOOSE w \in live : TRUE].target)

\* What startup writers did before their buffers were bound is settled by the
\* binding: no reservation id leaves the arbiter, and the service ends up with
\* the writers there are.
BindingSettles == NoPlaceholderCommitted /\ RegistrationsSettle

\* After TryShutdown returned true and the arbiter may be deleted, no other
\* thread is going to use its members: what ~TraceWriterImpl and
\* ReleaseWriterID still do then works on copies.
ShutdownLeavesNoUser ==
    may_delete =>
        \A t \in AppThreads : \A i \in DOMAIN todo[t] :
            LET op == todo[t][i]
            IN  /\ op.op \notin {"UpdateCommitDataRequest", "Flush", "ReleaseWriterID"}
                /\ op.op = "PostTask" => op.task.op # "Flush"

\* Once the arbiter stays fully bound, every flush callback runs and every
\* flush request is answered (with its own or a higher id).
FlushesComplete ==
    <>[]fully_bound_ =>
        /\ \A cb \in Callbacks : (cb \in DOMAIN promised) ~> (service.replied[cb] > 0)
        /\ \A id \in FlushIDs : (id \in DOMAIN promised) ~> (\E j \in service.flushed : j >= id)

\* Once the arbiter stays fully bound, every chunk returned to it reaches the
\* service without any flush being asked for.
ReturnedChunksArrive ==
    <>[]fully_bound_ =>
        \A l \in UNION {UNION {{w} \X (1 .. s.chunks[w]) : w \in DOMAIN s.chunks} : s \in Setups} :
            (l \in Returned) ~> (l \in Arrived)
=============================================================================
