# Verification of lynx-trace

lynx-trace is a fork of Perfetto: processes ("producers") write trace packets
into memory they share with a tracing service, the service copies them into
its trace buffers, and consumers read them back.  A browser UI records traces
from devices and shows them with the help of a trace processor, and an analysis
service opens traces in trace processors of its own and lets an agent query
them.  This directory holds TLA+ models of the parts in which several actors
meet: along the way of a packet the shared memory protocol, the arbiter that
hands chunks of it to the service, the ring buffer in which the service keeps
them and the life of a tracing session (C++); and, in TypeScript, the UI's
recording session, its ADB connection, its RPC channel to the trace processor,
the queue that feeds its views, and the analysis service's handling of traces
and shells.

## 1. Inventory

| Component | State | Operations | Interacts with |
|---|---|---|---|
| **SharedMemoryABI** (`src/tracing/core/shared_memory_abi.*`) | one header word per page (layout and two state bits per chunk), one header per chunk | TryPartitionPage, TryAcquireChunk, ReleaseChunk, GetFreeChunks | every writer thread and the service, through memory only |
| **Scraping** (`ForEachScrapableChunk`, `ScrapeSharedMemoryBuffers`) | none | read chunks that are still being written | races with every writer |
| **SharedMemoryArbiterImpl** | pending CommitDataRequest, flush flags, startup reservations, pending writers, writer ids, flush callbacks | CreateTraceWriter, GetNewChunk, ReturnCompletedChunk, SendPatches, FlushPendingCommitDataRequests, Bind*, Abort*, NotifyFlushComplete, ReleaseWriterID, TryShutdown | writers on any thread, its task runner, the producer endpoint |
| **TraceWriterImpl, PatchList** | current chunk, fragments, patches | NewTracePacket, GetNewBuffer, FinishTracePacket, Flush | one thread each; the arbiter |
| **IdAllocator** | ids in use, last id | Allocate, Free | the arbiter, under its lock |
| **ProducerEndpointImpl / ProducerIPCClientImpl** | writer registry | Register/UnregisterTraceWriter, CommitData | an ordered channel |
| **UnixTaskRunner** | posted and delayed tasks | PostTask, PostDelayedTask | runs the arbiter's tasks on the IPC thread |
| **TraceBufferV1** | ring of chunk records, index, write and read positions | CopyChunkUntrusted, TryPatchChunkContents, BeginRead, ReadNextTracePacket, CloneReadOnly | called by the service on its thread |
| **TraceBufferV2** | another implementation of the same interface | the same | the same |
| **TracingServiceImpl** | producers, data sources, sessions with instances, pending flushes, pending clones, triggers | EnableTracing, StartTracing, Flush, DisableTracing, FreeBuffers, CloneSession, ActivateTriggers, acknowledgements | producers and consumers over IPC, its task runner for posted tasks and timeouts |
| **IPC layer** | frames, request ids, bound services | Bind, BeginInvoke, OnDataAvailable, OnDisconnect | sockets |
| **heapprofd ring buffer** | read and write positions, spinlock | BeginWrite, EndWrite, BeginRead, EndRead | two processes |
| **Client SDK** (TracingMuxerImpl) | backends, data source instances | setup, start, flush, stop | the arbiter and the service |
| **QuerySlot, SerialTaskQueue** (`ui/src/base/query_slot.ts`) | cached result, pending key, error, cancellation signal; pending tasks | use, dispose; schedule, cancel, runNext | every view that queries; the engine |
| **Recording** (`RecordTraceV2`: RecordingManager, CurrentTracingSession, ConsumerIpcTracingSession, TracingProtocol, PacketAssembler) | current recording, session state, pending invokes, slices, trace | startTracing, stop, cancel, getBufferUsagePct, replies, closing | the user; the service on a device through a stream |
| **AdbWebusbDevice, AdbWebusbStream** | streams, transmit queue and flag | connect, createStream, streamWrite, streamClose, close, usbRxLoop | adbd over USB; carries the recording's stream |
| **EngineBase, HttpRpcEngine** (`ui/src/trace_processor`) | pending promises per kind, sequence numbers, request queue, socket | parse, query and the other requests, responses, reconnecting, dispose | all of the UI; the trace processor's httpd |
| **TraceAnalysis, TraceQuery** (`trace_analysis/packages`) | processors of a call, cache of the binary, files, ports, shells | TraceAnalysis, initProcessor, downloads, loadShell, parse, query, destroyProcessor | concurrent calls in one process; shells; remote hosts |
| UI application core (AppImpl, TraceImpl, SelectionManager, SearchManager, AsyncLimiter) | current trace, selection, search results | opening a trace, selecting, searching | planned |
| trace processor, UI frontend and plugins, perfetto_cmd, probes, rust-sdk | - | offline analysis, rendering, command line, OS probes, bindings | - |

What is hard, and what makes each component correct:

* *SharedMemoryABI*.  All chunk states of a page live in one word that anybody
  may swap.  Correct means: a chunk has one owner; nobody's swap takes back a
  neighbour's transition; a page is not de-partitioned under a chunk in use;
  a scraper never takes a header or a packet that is not there yet.
* *Arbiter*.  Critical sections are short and the effects (posting, sending)
  happen after unlocking.  Correct means: data arrives, in order, once; flush
  callbacks and flush replies come after the data they promise, once, and
  eventually; no placeholder buffer id leaves the process; patches reach their
  chunk; the arbiter is not used after it may be deleted.
* *Trace buffer*.  Chunks arrive out of order, again, or late; they are
  overwritten while a reader stands on them.  Correct means: packets are
  returned in order, once, complete, and loss is reported.
* *Service*.  Acknowledgements race timeouts, disconnections, triggers and
  clones.  Correct means: the states of a session and of its instances go
  together; each flush, stop and clone is answered once, truthfully, and
  always; no data source goes on tracing for a session that has ended.
* *UI and analysis service*.  One thread, but every await lets others in, and
  what was read before it may be stale after it.  Correct means: a resource is
  owned until it is disposed, and not used afterwards; an answer goes to the
  call it belongs to; a recording ends with the whole trace or with an error,
  once; what is queued is sent, in order; a query sees the trace it was asked
  about; no process is left behind.

`PROJECT.json` lists the hazards at their lines, and the properties aimed at
each.

## 2. Modules

| Module | Models |
|---|---|
| `SharedMemoryABI` | the page protocol, one action per atomic access; the scraper |
| `MCSharedMemoryABI` | its TLC instance |
| `SharedMemoryABI_proofs` | theorems about its pages and its chunk headers |
| `SharedMemoryArbiter` | arbiter, trace writers as the arbiter sees them, task runner, producer channel and the service's end of it |
| `SharedMemoryArbiter_proofs` | theorems about its flushes and what their callbacks are promised, its shutdown, and the order and the state of the chunks it commits |
| `MCSharedMemoryArbiter` | its TLC instances |
| `TraceBufferV1` | the ring buffer, the chunks that writers leave in shared memory, commits, patches, scraping and the reader |
| `TraceBufferV1_proofs` | theorems about its records and its index, and about what is read of writers that are not scraped |
| `MCTraceBufferV1` | its TLC instances |
| `TracingSession` | one session of the service, its producers, its consumer and a second consumer that clones it |
| `TracingSession_proofs` | theorems about all safety properties of the session |
| `MCTracingSession` | its TLC instance and trace configs |
| `QuerySlot`, `MCQuerySlot`, `QuerySlot_proofs` | query slots of one view and their queue, with theorems |
| `RecordingSession`, `MCRecordingSession` | recordings made from the UI, with the consumer protocol |
| `AdbWebusb`, `MCAdbWebusb`, `AdbWebusb_proofs` | the ADB connection and its streams, with theorems |
| `RpcCalls` | what callers of the engine rely on: the abstract specification of `EngineRpc` |
| `EngineRpc`, `MCEngineRpc`, `EngineRpc_proofs` | the RPC channel of the UI's engine, and that it implements `RpcCalls` |
| `TraceQuery`, `MCTraceQuery`, `TraceQuery_proofs` | calls of the analysis service, their downloads and shells, with theorems |

### SharedMemoryABI

`header_bitmap` is the page word: whether the page is partitioned, and a state
per chunk.  The layout is one fixed value, as the arbiter only ever uses
`default_page_layout`; the number of chunks is a constant.  Every actor (chunk
user of the producer, or the service) has a program counter, the word it loaded
(`seen`) and the failed attempts of the current operation.  `TryAcquireChunk`
is `AcquireLoad` and then `AcquireCas` or `AcquireCasFails`, and so on; the
compare-and-swap compares whole words, as the code does.  The header stores
after an acquisition are separate actions: the two ids are relaxed stores and
become visible in either order, the release store of `packets` comes last.
`ClearChunkHeader` is one action because nobody reads the header of a chunk in
state kChunkBeingRead.  `lease` and `written` are history: who acquired the
chunk last, and how many packets are completely in memory.

A `TraceWriterImpl` holds two chunks while a packet crosses from one to the
next; it is two "writers" of this module.  A writer whose ReleaseChunk gives up
after `kRetryAttempts` keeps its chunk, which is what happens to the chunk in
the code.  The service frees only what it acquired for reading.  No lock is
modelled: the properties hold without the arbiter's lock.

### SharedMemoryArbiter

A call into the arbiter is a critical section followed by steps after
unlocking.  One action is one critical section; what the thread does next is
queued in `todo[t]` and taken one step at a time, so other threads get in
between.  Tasks posted to the task runner are in `tasks` (in order), delayed
flushes in `timers` (in any order, as wall time decides).  A chunk is named by
its lease `<<w, k>>`, the k-th chunk of writer w, and has a state, the flag
kChunkNeedsPatching and the number of size fields missing from it, in shared
memory before it is committed and in the service's copy afterwards.  The
messages to the service travel in `channel` in order; the service's
`CommitData` copies and frees the chunks that are complete, applies patches,
notes the flush reply and runs the callback last.

`mode` is how the arbiter was created and never changes: `kDefault`,
`kShmemEmulation`, or `scraping` for emulated memory that the producer scrapes
on a flush.  It is a part of `setup`, which `Init` chooses from `Setups` and which
also says how much the callers do: how many chunks each writer writes, patches,
callbacks, whether TryShutdown is called, and how many chunks are half of the
buffer.

Correspondence: `UpdateCommitDataRequest`, `FlushPendingCommitDataRequests`
(with its four outcomes `FlushUnbound`, `FlushElsewhere`, `FlushEmpty`,
`FlushRequest`), `BindToProducerEndpoint`, `BindStartupTargetBuffer(Impl)`,
`AbortStartupTracingForReservation`, `CreateTraceWriterInternal`,
`ReleaseWriterID`, `NotifyFlushComplete`, `ScrapeEmulatedSharedMemoryBuffer`
and `TryShutdown` keep the names of the methods.  `GetNewBuffer`,
`ReturnCurrentChunk`, `SendPatches`, `Flush`, `DestroyWriter` and
`FinalizeNestedMessage` are the moments at which a TraceWriterImpl turns to
the arbiter or to its patch list.

Reductions, and why they lose nothing:

* Sending is part of the critical section that decides it.  Only the IPC thread
  sends, it sends right after unlocking, and no other thread looks at the
  channel, so no step could tell the difference.
* `RunTask` takes a task and runs its critical section in one step: a task that
  has been dequeued but not begun behaves like one still at the head.
* The chunk operations are atomic inside a critical section.  `SharedMemoryABI`
  shows that an operation on a chunk is not disturbed by those on others.
* `Home` fixes the thread of each writer: a TraceWriter is used by one thread.
* With `InProcess = TRUE` the service handles a message before anything else
  happens.  The service never changes what the arbiter does (it does not feed
  back into its state, except by freeing chunks, and free space is not
  modelled here), so only properties about *when* something arrives need the
  asynchronous channel; the runs about ordering and liveness use it.
* When a CHECK fails the process aborts: nothing but the service goes on.
* The target of a chunk of an aborted reservation is kInvalidBufferId; the
  service copies and frees the chunk as any other (it is discarded there).

Callers are restricted to what the code's own checks demand: a reservation is
bound or aborted once (`PERFETTO_CHECK(!reservation.resolved)`), a writer is
flushed or destroyed only between packets (patches all final), stalling
synchronous commits only when the arbiter was always bound.

### TraceBufferV1

`data_` maps the offset of a record to the record (a chunk or padding), sizes
are counted in units of the record header, `index_` is the sorted map from
writer and chunk id to `ChunkMeta`.  `smb` is what the writers have left in
shared memory: per chunk the packets it has fragments of, its flags, whether
the packet count runs one ahead of the packets that are finished, and the size
fields that are missing.  Instead of bytes a record holds the number of the
chunk it was copied from, so a packet that is returned is a sequence of slices
(chunk, fragment) and can be compared with what its writer wrote.

`CopyChunkUntrusted` is one action for a commit (`CommitData`) and for a scraped
chunk (`ScrapeChunk`); it is made of the parts of the code: refusing an
inconsistent rewrite, rewriting in place (`RewriteChunk`), deleting what a new
record covers (`GapAfter`, `Erased`, with `MustKeep` for kDiscard) and the
padding after it, and the update of last_chunk_id_written (`NewLastChunkId`).
A scraping pass (`BeginSweep` ... `EndSweep`) takes the states it sees when it
reaches a page and copies chunk by chunk while writers go on; the packet count
is read when the chunk is copied.  The reader goes step by step through
`BeginRead`, `EnterChunk`, `SkipFragment`, `ReadOnePacket`, `ReadAhead`,
`ReadAheadFails`; `EndRead` may come after any packet, as ReadBuffers stops when
it has read enough.

Reductions, and why they lose nothing:

* The service has one thread, so nothing is copied or patched during a read
  pass.  Writers rest during one as well: they touch shared memory only, which
  the reader does not look at.
* `overwrite_policy_` is chosen by `Init` from `Policies`, and from `Loads` how much the
  writers write.
* Writers of one producer stand for all sequences: `index_` is ordered by
  producer and writer, and only that order matters.

`consumed`, `reached` and `late` are history: the last packet returned, the last
chunk read from, and the writers of which a chunk was stored behind the reader.
This happens only with scraping (`LateNeedsScraping`), which may miss a chunk and
copy its successor.  The promises of the header about order and completeness
then do not hold (see section 3), so `ReadInOrder`, `ReadsWholePackets`,
`LossIsFlagged`, `NothingReadableLeft` and `CommittedIsComplete` except late
writers and say exactly what holds for all others.  `LossIsFlagged` has a second
exception, `EndsBeforeEmpty`, described there too.

### TracingSession

The service is single-threaded and a handler runs to its end: it is one action.
The calls it makes, callbacks included, are operators from a service state to a
service state with the names of the methods, so a failing Flush that calls
DisableTracing or FreeBuffers on the way back does so within the same step.
`svc` is the session (its fields keep their names) and the work under way for
it: posted tasks in order, delayed tasks in any order.  `e` is what the
operating system answers within the handler: which processes are frozen,
whether the file is full, whether cloning works.

* Acknowledgements carry no state: any producer may send one for any instance
  or flush there has ever been, at any time, again or never.  This covers late,
  early, duplicated and lost ones.
* `OnFlushTimeout` is not kept among the delayed tasks: every flush posts one,
  and one that comes after the flush was answered finds nothing.  So it may
  happen for any flush at any time.
* Delayed tasks of a session that was erased find no session and are dropped
  with it.
* A producer has one data source, which the config asks for.  Producers act
  only while there is a session; before it every combination of registered data
  sources is an initial state.  `Configs` gives the trace configs for each set of
  producers that are connected at that time.
* There is one session and one clone of it.  The clone is a session of its own
  (CLONED_READ_ONLY) that does nothing but be read.

### QuerySlot

A view with the slots in `Order` calls use() on each of them at every render, with
the key it wants at that moment.  `Render` begins a render and `Use` is one of its
calls, `OnRemove` begins a removal and `Dispose` is one of its calls: `todo` holds
the slots that are left.  As long as there are some no task goes on and no key
changes, because the code between is synchronous.  `Needs` says which slot's data a slot's query reads
and waits for (as slice_track.ts reads the tables that its first slot creates).
A task runs from await to await: `Started` up to the first one, then
`DisposeCacheDone` or `DisposeCacheFails`, then `QueryReturns`, `QueryCancelled` or
`QueryFails`; renders, changes of keys and removal come between these steps and not
inside them.  `exists` is what is alive in the trace processor.  Keys are
functions from field names to values, because canUseStaleData compares fields.

### RecordingSession

A recording has a phase (of CurrentTracingSession), a state (of
ConsumerIpcTracingSession) and a stream (TracingProtocol).  `Invoke`, `SetState`,
`Fail`, `Stop`, `Cancel`, `OnTraceStopped`, `OnTraceData`, `ParseFrame` are operators on
one recording, named like the methods.  `OnStreamData` takes any number of frames
at once: all of them are parsed before the functions that awaited their replies
resume, one after another (`ResumeNext`), as promise callbacks are microtasks.  An
exception in parseFrame (`Throws`) ends that loop, and the frames behind stay in
`rxBuf` until the stream delivers more.

The service's side is ConsumerIPCService with its endpoint, one thread that takes
the requests in order (`Handle...`).  Some are answered at once, some from a task
that the endpoint posts (`tasks`, `TaskRuns`): the end of tracing, statistics, and all
parts of the trace but the first, which cut packets anywhere.  What is answered depends on the
session: without one ReadBuffers is answered emptily and GetTraceStats is
rejected, a Flush is not answered.  One response is kept per kind of call, so a second
GetTraceStats drops, and thereby rejects, one that is not answered.  Of the session only what a
consumer can tell is kept: started, disabling, disabled, freed, and what was read
of it; `TracingSession` models the rest.

### AdbWebusb

The two pipes are sequences.  `StreamWrite` queues the chunks of a write,
`OnOkay`, `OnWrte` and `OnClse` are the branches of usbRxLoopInner; after it has sent
the OKAY to a WRTE the loop waits (`RxDeliver`) and others go on.  An exception of the
stream's onData handler, which is left out, would end the loop there as `RxLoopEnds` does.  A number in the
OKAY tells which chunk it acknowledges; it is for the properties only.  `KeepOnly`
is the filter that takes the chunks of a closed stream out of the queue.  A
message of any other command is ignored, as in the default branch of the loop;
an AUTH left over from an earlier connection gets there.

### EngineRpc and RpcCalls

A call is numbered; the code's promises are in `pending`, per kind of request, and
a response is given to the first of its kind.  The request methods of EngineBase
fall into four kinds (see the module).  `RpcCalls` knows nothing of queues, numbers,
sockets and failures: calls are made in order, and a call is answered once, with
its own answer, after all calls before it.  So when an answer is lost, no later
call is answered.  `AnswersAreOwn` says that every behaviour of `EngineRpc` is one of
`RpcCalls`, under the mapping that keeps `made` and `answer`.  Answers do arrive after a
failure: the responses of a blob that was being handled when the socket broke.  `AnswerFrom`
names the call whose answer was given, or another one as soon as one batch of it
is not its own, so the mapping does not hide a mix-up.

### TraceQuery

A session is one trace of one call of TraceAnalysis; `pc` is the await at which its
initProcessor stands.  A shell is starting, serving or dead; whoever serves on
a port answers to whoever asks there (`ServerAt`), so chunks of one trace can be
loaded into the shell of another session, and `loaded` shows it.  `Faults` lists what
may go wrong outside: downloads, digests, chunks that the shell cannot parse
("reject") or answers with an HTTP error ("refuse"), crashes.  The kernel hands out
any port that nothing is bound to (`GetAvailablePort`), also one whose probe was
closed a moment ago and whose shell is not up yet.  `rivals`, which is for the
properties only, remembers for each session who used its port (`InUse`) while it did.
`QueriesSeeTheirTrace` says how far a mix-up can go: only rivals get into each other's shell.

Mutants of definitions (marked as such) sit beside the definition they distort;
they are used by no specification.

## 3. Runs

| Run | Question | Bounds | States |
|---|---|---|---|
| `abi` | Do the swaps on one word keep chunks apart, and is scraping safe? | 1 page, 2 chunks, 2 chunk users and the service, 2 attempts, chunk ids modulo 2. Contention is per page, so one page is where everything happens; two chunks give a neighbour; ids wrap. | 3.2 million |
| `arbiter_startup` | Startup tracing over an asynchronous channel: binding, aborting, creating writers, returning chunks and flushing in any order. Do callbacks, replies and chunks get through? | 1 reservation, 1 startup writer of 1 chunk, 1 callback, 1 flush request, fairness as below | 86 thousand |
| `arbiter_patches` | Fragmented packets with patches, in all three modes; and order, flags and shutdown with writers on both threads | 2 chunks of one writer, up to 2 patches, messages of 1 chunk besides the last so that requests are split, direct patching turned on at any time, 1 callback, 1 flush request; or 2 writers with 1 and 2 chunks, where half of the buffer is 1 chunk so that the IPC thread commits synchronously, and TryShutdown at any time | 3.1 million |
| `buffer_writers` | Is everything read that can be, is loss flagged, do records of different sizes keep the ring whole, and does kDiscard keep the beginning? | 2 writers with records of 2 and 3 units, a ring of 5, 2 chunks each, both policies, dropped packets, 1 patch; or 1 writer of 6 chunks with 5 ids: the ring is lapped twice and ids wrap | 3.9 million |
| `buffer_scraping` | What do copies of unfinished chunks, in any order, do to the reader? | 1 writer, 3 chunks, a ring of 2 chunks, 1 patch | 1.8 million |
| `session` | Safety of the session protocol, and do flushes, stops, trigger timeouts and clones end? | 2 producers (p1 acknowledges, may freeze and writes into a transfer_on_clone buffer; p2 does not acknowledge, has no_flush and scrapes itself) with 2 configs, or p1 alone with 5; 1 flush of the consumer or periodic besides those of stopping and cloning, 2 instances, 1 trigger, a limit of 1 pending flush so that it is met | 303 thousand |
| `query_slot` | Are tables owned and disposed, is a pending slot worked on, does a view settle? | 3 slots (a table, rows that need it, a legend), 2 or 3 keys each, 2 changes of keys, failing and cancelled queries. Two changes are a key that comes back. | 44 thousand |
| `query_slot_tables` | the finding | violated on purpose, with 3 changes | - |
| `recording` | Does a recording end once, with the whole trace or an error, however it is stopped? | 2 recordings (a second one replaces the first), 2 packets of 2 slices and 1, 2 polls so that one can drop the response of the other, duration, disconnection | 71 thousand |
| `adb` | Does the shared queue keep writes of two streams in order and moving? | 2 streams, 2 and 1 chunks, 1 reply, leftovers of an earlier connection, 4 attempts of the handshake (10 in the code), unplugging | 72 thousand |
| `engine` | Does the engine implement RpcCalls? | 4 calls of any of 4 kinds, 2 batches per query, 2 breaks of the connection, so that one comes after the engine has failed | 192 thousand |
| `trace_query` | Which traces can get mixed, do calls return, do shells go away? | 2 calls, 3 sessions, 2 URLs (one shared), 2 chunks per trace, 3 ports, all faults but "refuse". Never used ports are taken in order (they differ in nothing, `PortsInOrder`); of the sessions one has a shell that may crash and chunks that may be rejected (`OneIsFaulty`), with all of them faulty, and no download failing, there are 8 million states, in which the invariants hold too | 622 thousand |

Compound properties are conjunctions of named parts, each with its own comment:
`BindingSettles`, `PatchesAreKept`, `RingIsSound`, `CopiesAreSound`, `SessionIsSound` and
`AnswersAreEarned`.

Deadlock is checked in `abi` and `trace_query`.  It is not in the other runs: the
bounded callers run out of chunks, callbacks, calls and flushes, and a session, a
recording or a view that has ended has nothing left to do.

Fairness of the arbiter (`FairSpec`): weak fairness of every thread's next step (`Continue`),
of running posted tasks and due delayed tasks, of scraping and of the service
reading its socket.  The scheduler runs every thread, the lock is held for
short sections, and the task runner alternates immediate and delayed tasks
(`RunImmediateAndDelayedTask`).  No fairness is assumed of callers: nobody has
to create writers, return chunks or bind the arbiter, so the liveness
properties are conditional on the arbiter staying fully bound.

Fairness of the session: weak fairness of running posted tasks, of some flush
timeout that is due, and of some delayed task that ends something (duration,
stop timeout, start-trigger timeout, stop delay).  The task runner runs what is
due; each of these tasks is posted a bounded number of times.  Nothing is
assumed of producers and consumers.

Fairness in TypeScript: the event loop runs what is ready (`Render`, the rest of a
render or removal, and `RunningTask` of the view, the last one strongly: every
render interrupts it, and renders do not starve promise callbacks; `OnStreamData` with `ResumeNext`, `RxLoop`, `OnWebsocketMessage`, `OnRpcResponse`), and
the external partner, while it is connected, answers what it was asked: the
thread of the tracing service (`ServiceStep`), adbd, the trace processor's server.  In `TraceQuery` a session
goes on because each of its awaits ends, by a timer of downloadFile or
waitForServer or by an answer; fetch() has no timer, so there an answer of the
remote host is assumed.  Users, breaks of a connection and faults are never
assumed to happen.  The liveness properties name the failures that end a wait.

### Finding

`query_slot_tables`: query_slot.ts promises that running tasks one after another
"prevents race conditions with shared resources (temp tables)".  A query is
scheduled with the table that another slot holds at that render.  When the key
of the table's slot changes from A to B and back to A while the queue is busy,
the first task for A replaces the table, and the dependent query runs with the
disposed one.

### Disagreements seen while modelling, and not a run

In C++:

* `ScrapeEmulatedSharedMemoryBuffer` (`shared_memory_arbiter_impl.cc:969`) declares a
  local request but adds what it finds to the member `commit_data_req_`; it sends
  nothing, and the next flush frees a chunk that its writer still holds, or frees
  it twice, so that the CHECK in ReleaseChunk (`shared_memory_abi.cc:271`) fails.
  `shared_memory_arbiter.h:168` says that uncommitted chunks "are marked completed,
  forcing a commit of the chunks to the tracing service".  `ArbiterChecksHold` without
  its exception for this mode is violated after one flush request.
* `FinishCloneSession` (`tracing_service_impl.cc:4825`) clears the received triggers of
  the cloned session in every trigger mode.  A session that a STOP_TRACING trigger
  has stopped then counts as waiting for a trigger, and its consumer reads
  nothing, while `trace_config.proto:364` says "any data in the buffer will be
  returned to the consumer".
* `ReleaseWriterID` frees a writer id under the lock and posts its
  UnregisterTraceWriter after unlocking.  If the id comes round within that
  window, the late message unregisters the new writer.
* The comment on `delayed_flush_scheduled_` says that an immediate flush does not
  clear it; the posted task clears both flags, so a second delayed flush may be
  scheduled before the first has run.
* The comment on `TryDirectPatchLocked` in `shared_memory_arbiter_impl.h` has the
  condition on `chunk_needs_more_patching` the wrong way round (the code clears
  the flag when it is false).
* `trace_buffer_v1.h` promises packets of a sequence in FIFO order and only
  complete ones.  A chunk that scraping missed and that is committed after its
  successor was read is returned late, and `ReadAhead` may glue its last fragment
  to a fragment of the successor that does not continue it, since it takes the
  next unread one without looking (`trace_buffer_v1.cc:259`, `:788`).
* `ReadNextPacketInChunk` calls `set_last_read_packet_skipped(false)` for an empty
  packet too (`trace_buffer_v1.cc:888`), which forgets a skipped continuation
  right before it; if the next chunk is read in a later pass its first packet is
  not flagged with previous_packet_dropped.
* The comment in `ObserveEvents` says that a consumer is notified when all data
  sources have acked already; `did_notify_all_data_source_started` keeps that from
  happening for a second consumer of a session that was detached.
* Unregistering the last data source of a session that has not started notifies
  that all data sources have started.
* `FreeBuffers` drops pending flushes without running their callbacks.
* A STOP_TRACING trigger after the session was disabled still posts its stop, whose
  flush fails and overwrites the final flush outcome.

In TypeScript:

* QuerySlot: finaliseQuery clears the pending key when it equals the key of the
  task that ended, although a newer task with the same key may be scheduled (key A,
  B, and A again).  In a slot that owns a resource the newer task disposes the
  fresh result; a render in that moment finds nothing cached and nothing pending
  and schedules yet another task, and so on although the key no longer changes.
  `PlainSlotsSettle` is therefore about slots without a resource.
* Recording: `interfaces/tracing_session.ts:29` says of cancel() "Stop tracing and
  discard the data".  A recording that is being read when a new one replaces and
  cancels it may still be FINISHED and opened before FreeBuffers is answered.
* Recording: "There is nothing more to do if we arrive here via cancel()"
  (`consumer_ipc_tracing_session.ts:96`), but cancel() changes the state only when
  FreeBuffers is answered.  When a timed recording ends by itself just before, the
  reply to EnableTracing finds it RECORDING and onTraceStopped reads the buffers,
  which are freed; the service answers with nothing
  (`tracing_service_endpoints_impl.cc:125`), and the recording is FINISHED and an empty
  trace is opened.  When both answers come in one chunk of the stream, cancel()
  resumes after that and sets ERRORED.  `FinishedTraceIsWhole` and `VerdictIsFinal` name this
  case (`FoundEmpty`) and exclude everything else, such as a part of a trace.
* Recording: the page polls the buffer usage every second without awaiting the
  last poll (`target_selection_page.ts:622`).  The service keeps one response for
  GetTraceStats: a second request drops it, which rejects the first one, parseFrame throws,
  and the frames behind it in the chunk stay unparsed until the next chunk.  Of a
  recording that is being stopped or cancelled there may be no next one: it
  hangs.  `StopsEnd` excepts it.
* Recording: onProtocolClose fails a session only in state RECORDING; a stream that
  breaks while it is STOPPING leaves it there.  startTracing while the last
  recording is 'Initializing' cannot cancel it, and it goes on unseen.  parseFrame
  fails an assertion for frames that arrive in one piece with the frame that made
  the session close the protocol.  TracingProtocol.create waits for ever if the
  stream closes before the service is bound.
* ADB: streamClose drops the queue entries of a stream, also the one that is in
  flight; its OKAY then makes popFromTxQueue throw, which ends the receive loop for
  all streams, although the caller is prepared to log a spurious message
  (`adb_webusb_device.ts:266`) and a comment there (:418) says that such messages
  are non-fatal.  A stream that the device closes leaves its entries in the queue, and
  nobody acknowledges the first: other streams wait.  `WritesComplete` excepts
  streams that are cut short.
* Engine: neither side takes a gap after sequence number 0 for an error.  With
  `EarlyDrops = TRUE` the refinement fails: after a break that early, an answer can be
  given to the wrong call.
* Analysis service: TraceProcessor.create leaks the shell when parsing throws after
  it was started; so do the sessions that are still opening when another one of
  their call fails.  An error that the shell reports for a chunk is thrown inside
  the try block whose catch takes it for an undecodable response
  (`http.ts:141`), so a partly loaded trace reaches the agent.  A download with a
  wrong digest removes the binary that another session has cached.
* Analysis service: shell.ts asks the kernel for a port, closes the probe and
  starts a shell on it.  Another session can be given the port in between; then
  one of the two shells exits, waitForServer of both finds the other one, and two
  traces end up in one shell, whose queries see both.

## 4. Proofs

Every theorem below is proved for all values of the constants that the module's
assumptions admit.  A module of proofs has the inductive invariant and lemmas about
sequences and sets first, then one lemma per action, then the theorems.

### SharedMemoryABI: pages

`SharedMemoryABI_proofs`, for every number of pages, chunks, writers, packets and
attempts (`ConstantsAssumption`, `ActorsAssumption`):

* `TypeCorrect`: `Spec => []TypeOK`.
* `OwnershipInvariant`: `Spec => []OwnershipInv`, and from it
  `ChunksHaveOneOwner` and `ChecksNeverFail`.
* `TransitionsAreLegal`: `Spec => OneTransitionAtATime`.  The same invariant
  says what a swap starts from, so each step changes one chunk along one legal
  transition.

`ExclusiveOwnership` alone is not inductive: that nobody acquires an owned
chunk is a fact about the *bits*.  `OwnershipInv` adds that the bits of an owned
chunk say so and the page has its layout (`OwnedChunkInOwnersState`), that a
page without layout has no used chunk (`NoLayoutNoChunks`), and that the word an
actor is about to compare with allowed its transition when it was loaded
(`SeenAllowsSwap`).  A successful swap starts from exactly that word, so it
changes one chunk from a state that belongs to nobody else; a failed swap
changes nothing.  The word-changing steps are proved once for all actors
(`OwnershipWordStep`); the steps that leave the words alone follow from
`OwnershipQuietStep`.

### SharedMemoryABI: headers

`SharedMemoryABI_proofs` goes on from there:

* `HeaderInvariant`: `Spec => []HeaderInv`.
* `ScrapesAreCurrent`: what a scrape took from a header with at least one packet
  belongs to the lease under which the chunk is, or was, written.
* `ReadsAreWhole`: a chunk acquired for reading has all packets of its writer.

That the header is right is a fact about the order of stores: `packets` is 0 from
ClearChunkHeader until the release store that follows the two ids.  So `HeaderInv`
says per state of a chunk what its header may hold, per program counter of a
user what it has stored already (`HeaderFitsState`, `HeaderFitsUser`), and that the
service, between its loads, holds on to something still true (`ScrapeViewHolds`).
The two writers of a header, owner and service, are kept apart by
`OwnershipInv`, and a step is cut into what it does to one chunk and to one user, with
frame lemmas for all others.

### SharedMemoryArbiter

`SharedMemoryArbiter_proofs`, for any threads, writers, reservations, chunks, ids and
setups (`ArbiterAssumption`):

* `ArbiterInvariant`: `Spec => []ArbiterInv`.
* `CommitsAreNotStranded`: `Spec => []NoStrandedCommit`.
* `NoUserAfterShutdown`: `Spec => []ShutdownLeavesNoUser`.

That a request has a flush under way rests on who takes over from whom.  The step that
makes a request posts no flush when `delayed_flush_scheduled_` is set, so
`FlushInv` says that a set flag has a delayed flush posted, or about to be.  A scrape
adds to the request and posts nothing; so a flush is owed for a `Scrape` to come as for
a request, and what the IPC thread does before a `Scrape` is posting tasks only, never
flushing.  A flush that comes while a reservation is unbound takes nothing; the binding that makes
the arbiter fully bound flushes instead, also when no callback waits.

That nobody uses the arbiter after shutdown rests on the ids (`UserInv`): a writer
that is alive, or whose thread has yet to release its id, holds an id of its own that is
in `active_writer_ids_`; a thread's use of the arbiter is on behalf of a writer of
that thread that holds its id; and releasing the id is the last thing the thread
does for a writer.  `AllocateId` keeps this up because it hands out a free id.
TLC has checked `ArbiterInv` on the instances of both runs.

### SharedMemoryArbiter: chunks

`SharedMemoryArbiter_proofs` goes on from `ArbiterInv`, under the same assumptions and
`NoneAssumption` (no request is called None):

* `ChunkInvariant`: `Spec => []ChunkInv`.
* `CommitsAreInOrder`: `Spec => []CommitsInOrder`.
* `CommittedChunksAreTaken` and `ChecksHold`: two parts of `PatchesAreKept`, that the
  service passes over no committed chunk and that no check of a chunk's state fails.

A chunk moves from its writer (open, or closed and about to be returned) to the request,
the channel and the service: `InHand`, `Requested`, `InChannel`, `Arrived`.  Each
step moves chunks one place on, and `OrderInv` says that of each writer what is
further on was written earlier (`Before`), and within a place the sequences ascend.  For the
splitting of a large request this needs that the parts, put together, are the
request; for closing a chunk that a thread returns one chunk at a time, the one
that its writer had last.  The places also tell the states: what is in hand is being
written, what is requested is being written or complete, and what is in the channel is
complete, unless shared memory is emulated and the service does not look at states.  The
flush completes the request's chunks before it sends them, for which a chunk may
be in one place only; that follows from the order.  Scraping commits chunks that are in
hand as well, so there `OrderInv` does not hold, and of `LocationInv` only that no chunk gets
lost.

### SharedMemoryArbiter: flushes

On top of `ArbiterInv` and `ChunkInv`, under the same assumptions:

* `PromiseInvariant`: `Spec => []PromiseInv`.
* `FlushesAreCovered`: `Spec => []FlushCoversEarlierData`.

`promised` records what a callback of Flush must cover when it is issued, and what a
flush request must when it is answered.  That the service has copied it when the callback
runs is not inductive: nothing says where the callback was before, nor where the
chunks were.  `PromiseInv` says both:

* `OnceInv`: a callback is in one place at a time, and once there: pending until the
  arbiter is bound, in a posted task, among the calls a thread has yet to make, in a
  message, or run.  Without this a callback could run twice, and the steps that take all
  pending callbacks could not be told from those that copy them.
* `CoverInv`: what the callback covers is further on than the callback.  While it waits,
  it is in the request, the channel or the service (`Pipeline`); while a thread that
  closed a chunk by calling Flush has yet to return it, also that chunk (`ReturnedNext`).
  For a callback or flush id in a message, it is in the service, that message
  or one before it (`SentCovered`).

The step that carries the weight is `FlushPendingCommitDataRequests`: it sends the whole
request, in parts if it is large, and only the last part answers (the callbacks and
the flush id go there), so that all parts are at or before it; the lemmas on splitting from
the proof of the order serve again.  The other interleavings are about the time between
the lock and the call: a callback that found the arbiter unbound waits, is taken by the
thread or task that binds it, and may have to wait again, while other threads go on
returning chunks.  Chunks only move on, so none of this takes a promise back.
A failed PERFETTO_CHECK is excepted (`CoveredSoon`): it ends the process before the
request is sent.  TLC has checked `PromiseInv` on the instances of both runs, with and without
emulated shared memory.

### TraceBufferV1

`TraceBufferV1_proofs`, for a ring of any size, any writers, record sizes, policies and
loads (`BufferAssumption`):

* `BufferInvariant`: `Spec => []BufferInv`.
* `RingStaysSound`: `Spec => []RingIsSound`.

`RecordsTile` is not inductive: it says where each record ends, but not that no
other record begins before that.  `Tiles` adds it, and that what begins before `wptr_`
ends there at the latest.  A write at `wptr_` then cuts at most the last record it
covers; the gap it leaves is up to the next record, the end of the buffer or the part
never written, which is what the padding fills.  That the index keeps up rests on
`Matches`, stated both ways, so that one key has one record; deleting the entries of the
covered records leaves the entries of the others.  The reader updates the entry it is on without
looking it up again, for which `ReaderIsOnAChunk` says that the entry is there and that no
sweep, the only caller that takes several steps, is under way.  That nothing is stored
behind the reader without scraping follows from commits that arrive in the order of
the chunks (`CommitsArePrefix`): everything in the ring, and everything the reader took, was
committed before (`OnlyCommitted`).  Nothing is assumed about how many chunk ids fit
in the ring.  TLC has checked `BufferInv` on the instances of both runs.

For writers that are not scraped (`~Scraping`), in the same module:

* `ReaderInvariant`: `Spec /\ []IdsFresh => []ReaderInv`.
* `PacketsAreReadInOrder`: `Spec /\ []IdsFresh => []ReadInOrder`.
* `DiscardKeepsTheBeginning`: `Spec /\ []IdsFresh => []NothingLostBefore`.

Two hypotheses keep the chunk ids, which wrap, from denoting two chunks at a time.
`IdsLast`: the ring cannot hold more chunks of a writer than there are ids but one
(`Size <= RecordSize[w] * kMaxChunkID`).  `IdsFresh`: a writer does not go once round
all ids while the buffer discards, nor while a patch for a chunk is still to come.
Real ids have 32 bits, a record takes at least 16 bytes and a ring is far smaller than
2^36 bytes, so `IdsLast` holds of the program; `IdsFresh` fails only after four thousand million chunks of
one writer.  Without `IdsFresh` `NothingLostBefore` is false, which TLC shows with 5 ids and a
ring of two chunks, in which the sixth chunk takes the place of the first: with kDiscard `CopyChunkUntrusted` looks the id up in `index_` before it looks at
`discard_writes_`, so a chunk that comes late, with the id of one that is still
there, is taken for a rewrite of it; and `TryPatchChunkContents` finds a copy by its
id alone, so that a late patch goes to another chunk.

The argument has three layers.  `WindowInv(top)`, about the ring: the records of a
writer, from `wptr_` going round, hold chunks whose numbers follow one another and end
with `top[w]`; everything up to `top[w]` has been committed; a copy has the packets,
flags and count of its chunk.  As a chunk is written where the oldest record ends, the
chunks that go are always the oldest ones of each writer; this is what a
commit, the wrapping around and the padding preserve.  `PacketsInv`, about shared memory: the packets
of a writer run through its chunks without a hole, and a fragment that goes on is
continued in the next chunk.  `Reader(top)`, about how far the reader is: chunks before
`reached[w]` have nothing unread, later ones nothing read (`Progress`), the last packet returned is
not beyond the fragments gone through, and with kDiscard all packets up to there were
returned or given up by their writer (`Taken`); and the chunks before the one the reader is on
have nothing unread (`Position`), because `GetReadIterForSequence` begins after the newest id,
which is the oldest chunk (`OlderIdFirst`).  The longest step is `ReadAhead`: the chunks it passes
hold one fragment each of one packet, or are empty, so the packet that is glued is the one with which
the current chunk ends, and the next fragment to read is past it
(`ReadAheadStepsOn`).

### QuerySlot

`QuerySlot_proofs`, for any slots, keys, retainOn, dependencies and failures:

* `SlotInvariant`: `Spec => []SlotInv`.
* `SlotsOwnTheirResources`: `Spec => []ResourcesAreOwned`.
* `PendingKeysAreWorkedOn`: `Spec => []PendingIsWorkedOn`.

Neither property is inductive.  That a resource is not overwritten needs that a
query runs with an empty cache (`Owned`); that nothing is left after a removal needs
that a disposed slot has its disposal waiting or running, with no query behind it
that could still create something (`Leaves`), for which the queue may have only one
task per slot (`OnePerSlot`).  The parts are stated of a state given as a record,
so that they also hold between the calls that one action makes.

### EngineRpc

`EngineRpc_proofs`, for any number of calls, batches and breaks, under
`~EarlyDrops`:

* `EngineImplementsRpcCalls`: `~EarlyDrops /\ Spec => AnswersAreOwn`, the refinement.
* `PendingCounted`: `~EarlyDrops /\ Spec => []PendingIsCounted`.

`~EarlyDrops` says that the connection does not break before both sides have seen
a number above 0.  It is needed because neither side takes a gap after number 0
for an error: TLC violates the refinement without it (see the disagreements).
`EngineInv` describes the state with three numbers: calls 1 .. n were made, the server has
answered 1 .. h of them, the engine was given the whole answers to 1 .. a.  Everything
else follows these: which promises are pending, which requests and responses
are on their way, and that responses with successive numbers are successive
responses (`ResponsesFit`).  A response that passes the check of its number then
continues exactly the answer that the engine is working on, also with
responses missing in between.  Every step of the engine is a `Make`, an `Answer`
or a stutter of `RpcCalls`.

### TraceQuery

`TraceQuery_proofs`, for any calls, sessions (finitely many), chunks and faults:

* `ShellsAreDestroyed`: `Spec => []FinishedCallsLeaveNoShell`.
* `QueriesAreOwn`: `Spec => []QueriesSeeTheirTrace`.

Nothing is assumed of the kernel but that it does not hand out a port that is bound.
The invariant is that two sessions that use one port know of each other
(`PortsFit`): a session gets its port once, so it becomes a rival of all who use it
then, and who stops using it does not begin again.  Who posts to a shell and the
shell's session both use the port (`SamePort`), so a shell holds
chunks of its own session and of rivals, those of each in order, none beyond what that session has
posted; and without rivals as many as were posted, unless one was refused (`ParseFits`).

### AdbWebusb

`AdbWebusb_proofs`, for any number of streams, chunks, replies and leftovers:

* `AdbInvariant`: `Spec => []AdbInv`.
* `OneWriteIsInFlight`: `Spec => []OneWriteInFlight`.
* `ArrivalInOrder`: `Spec => []WritesArriveInOrder`.

That one write is in flight is not inductive: a second one is kept from being
sent by the queue, whose head stays until its OKAY arrives.  So the invariant has
to say that the write in flight, or its OKAY, is that head, unless its stream was
closed and its entries dropped (`FlightFits`); that the queue holds exactly the
chunks that the device has not got, in order (`QueueFits`); that an OKAY carries the
number of what the device got (`ToHostFits`); and that nothing is about a stream
before its OPEN (`ToDeviceFits`, `DeviceFits`, `Quiet`).

### TracingSession

`TracingSession_proofs`, for any finite set of producers, any configs, and any number of
flushes, triggers and instances:

* `SessionInvariant`: `Spec => []SessionInv`.
* `SessionSoundness`: `Spec => []SessionIsSound`.
* `AnswersEarned`: `Spec => []AnswersAreEarned`.

A handler is one step but calls several methods, so there is a lemma for each
method (`DisableKeeps`, `CompleteKeeps`, `RequestKeeps`, ...), and the steps follow from
these.  `SessionInv` has four parts about different fields, so that most methods
disturb one of them only (`Except` says which fields a method changes):

* `Instances`: ids of instances are their own, `running` are the ids of those that
  are STARTING or STARTED, their states fit that of the session, and a session that
  waits for stops has an instance that is STOPPING.  Without ids of their own,
  stopping one instance would count as stopping another.
* `Flushes`: a request is in one place: pending, or one posted task completes it, or
  it was answered.  A pending request is owed at most what the service waits for, and a
  queued one nothing.  In the middle of a handler a request is in none of these
  places (`AboutToAnswer`); the callback that answers it may free the session,
  which answers no other.
* `Clone`: the flushes under way for the clone, pending or queued (`OfClone`), are at
  most as many as `pending_flush_cnt`, and while none of them failed the others have
  succeeded.  Inequality is all there is: a flush timeout of a clone whose
  buffers cannot be cloned ends the clone while its other flush is under way, and a
  session that is freed drops both.
* `Settings`: the session has a config while it is alive, and its timers are the
  delayed tasks of the service.

That acknowledged flushes are completed in the order of their ids rests on `Nth`, the
id of rank i, which numbers any finite set of ids (`NthIsSound`).

### Only model-checked

* All liveness properties: liveness under fairness is beyond what TLAPS can prove here.
* `RecordingSession`: its steps fold a function over any number of frames and slices
  (`FoldLeft`), and a fact about a fold needs induction over data.
* `TraceBufferV1` with scraping, beyond `RingIsSound`: chunks then come in any order,
  unfinished and again, so that the chunks in the ring are not a window of
  a writer's chunks, on which the proofs about the reader rest.
* Of the reader of writers that are not scraped: `LossIsFlagged`, `ReadsWholePackets` and
  `NothingReadableLeft`.  They relate the flag of a packet, all its slices, and the state in
  which a pass ends to chunks that may be gone from the ring.
* The other properties of `SharedMemoryArbiter`: `BindingSettles`, and of `PatchesAreKept` that no patch gets lost, which counts patches with a fold.
* `QueriesReadLiveTables`, which the code violates (the finding).

## 5. Not modelled

* The stall loop of `GetNewChunk` when the buffer is full, and `GetStats`.
* The byte layout of packets, fragments and size fields; chunk sizes.
* Reconnection of the producer and crash of the service.
* `CloneReadOnly` and the statistics of the trace buffer; TraceBufferV2.
* Several sessions at once, validation of configs and ChangeTraceConfig, the
  notification of CLONE_SNAPSHOT triggers, clearing of incremental state, clock
  snapshots, the packets that the service itself adds to a trace.
* In TypeScript: the back ends of recording other than the consumer protocol,
  TracingProtocol.create and the assembling of frames; the WASM engine and the
  decoding of query results; the agent of the analysis service; AsyncLimiter,
  opening of traces, selection and search (planned).
* Everything `PROJECT.json` lists as not_modelled: IPC framing, heapprofd, SDK
  (planned), and trace processor, frontend and tools (no protocol state, or size in
  the data).

The repository has about 390 thousand lines of TypeScript in 1330 files, and more of
C++.  Most of the TypeScript is rendering, widgets, SQL text, generated
bundles, demos and unit tests: synchronous functions from data to pictures or
text, in which there is no state protocol to check and whose translation would be
longer than the code.  The modules here cover the parts of it that have one, a few
thousand lines; a model of a large share of the lines would have to map lines that it
does not translate.

## 6. Plan

Done: all modules above.  Proved: the pages and headers of `SharedMemoryABI`, the
flushes, commits and the shutdown of `SharedMemoryArbiter`, the records and the index of
`TraceBufferV1` and the order in which its reader returns packets, `TracingSession`, `QuerySlot`, `AdbWebusb`,
`TraceQuery`, and that `EngineRpc` implements `RpcCalls`.  Next:

1. Proofs: the arbiter's `BindingSettles`; of the reader of `TraceBufferV1`,
   `LossIsFlagged` and `ReadsWholePackets`, on top of `ReaderInv`; of `RecordingSession`,
   `VerdictIsFinal`.
2. An abstract specification of a lossy packet log that `TraceBufferV1` implements.
3. `ChunkAllocation`: the stall loop of `GetNewChunk` on a buffer that fills up.
4. AsyncLimiter with the opening of traces: an opening that another one supersedes.
5. `SharedRingBuffer` (heapprofd), the IPC request table, the SDK's data sources.
