----------------------------- MODULE AdbWebusb -----------------------------
(***************************************************************************)
(* The ADB connection that the UI makes over WebUSB (RecordTraceV2,        *)
(* adb/webusb/adb_webusb_device.ts and adb_webusb_stream.ts): a handshake, *)
(* then streams that share one USB pipe in each direction.                 *)
(*                                                                         *)
(* adbd, on the device, is external: it answers in order, acknowledges     *)
(* every WRTE on a stream that is open on its side and ignores one on any  *)
(* other, and sends one WRTE per stream until it is acknowledged.          *)
(*                                                                         *)
(* A message is [cmd, s, n]: s is the stream, n the chunk of a WRTE or of  *)
(* the OKAY to it, which the code cannot see in an OKAY.                   *)
(***************************************************************************)
EXTENDS Integers, Sequences, SequencesExt, FiniteSets

CONSTANTS
    MaxStreams,   \* bound on the streams that are created
    MaxChunks,    \* stream -> bound on the chunks written to it
    MaxReplies,   \* stream -> bound on the chunks that the device sends on it
    Leftovers,    \* messages that adbd may have buffered from an earlier connection
    MaxAttempts,  \* messages that connect() looks at: 10
    MayUnplug,    \* the cable may be pulled
    None

Streams == 1 .. MaxStreams

\* The rx loop awaits a message; no stream has this number.
Recv == 0

ASSUME AdbAssumption ==
    /\ MaxStreams \in Nat /\ MaxAttempts \in Nat
    /\ \A s \in Streams : MaxChunks[s] \in Nat /\ MaxReplies[s] \in Nat
    /\ \A m \in Leftovers : /\ m = [cmd |-> m.cmd, s |-> m.s, n |-> m.n]
                            /\ m.cmd \in {"CNXN", "AUTH", "OKAY", "WRTE", "CLSE"}
                            /\ m.s \in Nat /\ m.n = 0
    /\ None \notin Nat
    /\ MayUnplug \in BOOLEAN

VARIABLES
    phase,      \* connect(): connecting, failed, or connected once it has returned
    attempts, authAttempts,  \* its local variables
    connected,  \* AdbWebusbDevice._connected
    rx,         \* usbRxLoop: Recv, the stream whose WRTE it has answered, or None
    lastStreamId,
    stream,     \* stream -> none, pending, refused, open or closed
    txQueue, txPending,
    written,    \* stream -> chunks given to streamWrite()
    resolved,   \* stream -> chunks of the writes whose promise is resolved
    plugged,
    toDevice, toHost,
    device      \* stream -> adbd's side: [open, unacked, sent, got]

conn == <<phase, attempts, authAttempts>>
tx == <<txQueue, txPending, written, resolved>>
vars == <<conn, connected, rx, lastStreamId, stream, tx, plugged,
          toDevice, toHost, device>>

Msg(cmd, s, n) == [cmd |-> cmd, s |-> s, n |-> n]

Init ==
    /\ phase = "connecting" /\ attempts = 0 /\ authAttempts = 0
    /\ connected = FALSE
    /\ rx = None
    /\ lastStreamId = 0
    /\ stream = [s \in Streams |-> "none"]
    /\ txQueue = <<>> /\ txPending = FALSE
    /\ written = [s \in Streams |-> 0]
    /\ resolved = [s \in Streams |-> 0]
    /\ plugged = TRUE
    /\ toDevice = <<Msg("CNXN", 0, 0)>>
    /\ \E m \in Leftovers \cup {None} : toHost = IF m = None THEN <<>> ELSE <<m>>
    /\ device = [s \in Streams |-> [open |-> FALSE, unacked |-> FALSE, sent |-> 0, got |-> <<>>]]

-----------------------------------------------------------------------------
\* this.send(): nothing once the device was closed; lost once it is unplugged.
Sent(messages) ==
    toDevice' = IF connected /\ plugged THEN toDevice \o messages ELSE toDevice

Received(cmd) == toHost # <<>> /\ Head(toHost).cmd = cmd

ConnectAnswers(auth, reply, outcome) ==
    /\ phase' = IF outcome = "connecting" /\ attempts + 1 = MaxAttempts THEN "failed" ELSE outcome
    /\ attempts' = IF phase' = "connecting" THEN attempts + 1 ELSE 0
    /\ authAttempts' = IF phase' = "connecting" THEN authAttempts + auth ELSE 0
    /\ toDevice' = IF plugged THEN toDevice \o reply ELSE toDevice
    /\ connected' = (phase' = "connected")
    /\ rx' = IF phase' = "connected" THEN Recv ELSE None
    /\ toHost' = Tail(toHost)

\* One round of the loop of connect().  The third AUTH ends it.
ConnectRecv ==
    /\ phase = "connecting" /\ toHost # <<>>
    /\ \/ Received("CNXN") /\ ConnectAnswers(0, <<>>, "connected")
       \/ /\ Received("AUTH") /\ authAttempts = 0
          /\ ConnectAnswers(1, <<Msg("SIGNATURE", 0, 0)>>, "connecting")
       \/ /\ Received("AUTH") /\ authAttempts = 1
          /\ ConnectAnswers(1, <<Msg("PUBKEY", 0, 0)>>, "connecting")
       \/ Received("AUTH") /\ authAttempts > 1 /\ ConnectAnswers(1, <<>>, "failed")
       \/ ~Received("CNXN") /\ ~Received("AUTH") /\ ConnectAnswers(0, <<>>, "connecting")
    /\ UNCHANGED <<lastStreamId, stream, tx, plugged, device>>

CreateStream ==
    /\ phase = "connected"
    /\ lastStreamId < MaxStreams
    /\ lastStreamId' = lastStreamId + 1
    /\ stream' = [stream EXCEPT ![lastStreamId'] = "pending"]
    /\ Sent(<<Msg("OPEN", lastStreamId', 0)>>)
    /\ UNCHANGED <<conn, connected, rx, tx, plugged, toHost, device>>

Wrte(entry) == Msg("WRTE", entry.s, entry.n)

\* Mutant: the first chunk is sent although another write is in flight.
StreamWriteAtOnce(s) ==
    /\ stream[s] = "open"
    /\ \E k \in 1 .. MaxChunks[s] - written[s] :
          LET entry(i) == [s |-> s, n |-> written[s] + i, promise |-> i = k]
          IN  /\ txQueue' = txQueue \o [i \in 1 .. k |-> entry(i)]
              /\ written' = [written EXCEPT ![s] = @ + k]
              /\ Sent(<<Wrte(entry(1))>>)
    /\ txPending' = TRUE
    /\ UNCHANGED <<conn, connected, rx, lastStreamId, stream, resolved, plugged,
                   toHost, device>>

\* streamWrite() of data that takes k chunks; the last one carries the promise.
StreamWrite(s) ==
    /\ stream[s] = "open"
    /\ \E k \in 1 .. MaxChunks[s] - written[s] :
          LET entry(i) == [s |-> s, n |-> written[s] + i, promise |-> i = k]
          IN  /\ txQueue' = txQueue \o [i \in 1 .. k |-> entry(i)]
              /\ written' = [written EXCEPT ![s] = @ + k]
              /\ Sent(IF txPending THEN <<>> ELSE <<Wrte(entry(1))>>)
    /\ txPending' = TRUE
    /\ UNCHANGED <<conn, connected, rx, lastStreamId, stream, resolved, plugged,
                   toHost, device>>

\* txQueue.filter(): the entries at the places in K, in their order.
KeepOnly(K) ==
    \E place \in [1 .. Cardinality(K) -> K] :
        /\ \A k \in K : \E i \in DOMAIN place : place[i] = k
        /\ \A i, j \in DOMAIN place : i < j => place[i] < place[j]
        /\ txQueue' = [i \in 1 .. Cardinality(K) |-> txQueue[place[i]]]

\* AdbWebusbStream.close() and streamClose().
StreamClose(s) ==
    /\ stream[s] = "open"
    /\ KeepOnly({i \in DOMAIN txQueue : txQueue[i].s # s})
    /\ Sent(<<Msg("CLSE", s, 0)>>)
    /\ stream' = [stream EXCEPT ![s] = "closed"]
    /\ UNCHANGED <<conn, connected, rx, lastStreamId, txPending, written, resolved,
                   plugged, toHost, device>>

\* close(): the streams are closed without a message.  The transfer that the rx
\* loop awaits is cancelled, or the loop ends after the send that it awaits.
Close ==
    /\ phase = "connected" /\ (connected \/ \E s \in Streams : stream[s] = "open")
    /\ connected' = FALSE
    /\ KeepOnly({i \in DOMAIN txQueue : stream[txQueue[i].s] # "open"})
    /\ stream' = [s \in Streams |-> IF stream[s] = "open" THEN "closed" ELSE stream[s]]
    /\ rx' = None
    /\ UNCHANGED <<conn, lastStreamId, txPending, written, resolved, plugged,
                   toDevice, toHost, device>>

-----------------------------------------------------------------------------
(***************************************************************************)
(* usbRxLoopInner()                                                        *)
(***************************************************************************)
RxLoopEnds ==
    /\ rx' = None
    /\ connected' = FALSE

RxKeeps == UNCHANGED <<connected, rx>>

\* popFromTxQueue(): the first entry of the stream.
QueuedFor(s) == {i \in DOMAIN txQueue : txQueue[i].s = s}

\* Mutant: the last entry of the stream is popped.
OnOkayPopsLast(s) ==
    LET i == CHOOSE j \in QueuedFor(s) : \A k \in QueuedFor(s) : k <= j
        rest == RemoveAt(txQueue, i)
    IN  IF stream[s] = "pending" \/ QueuedFor(s) = {}
        THEN /\ stream' = [stream EXCEPT ![s] = IF @ = "pending" THEN "open" ELSE @]
             /\ RxKeeps /\ UNCHANGED <<tx, toDevice>>
        ELSE /\ txQueue' = rest
             /\ txPending' = (rest # <<>>)
             /\ Sent(IF rest = <<>> THEN <<>> ELSE <<Wrte(Head(rest))>>)
             /\ resolved' = IF txQueue[i].promise
                            THEN [resolved EXCEPT ![s] = txQueue[i].n] ELSE resolved
             /\ RxKeeps /\ UNCHANGED <<stream, written>>

\* Mutant: what is queued behind the acknowledged chunk is not sent.
OnOkaySendsNothing(s) ==
    /\ IF stream[s] = "pending" \/ QueuedFor(s) = {}
       THEN /\ stream' = [stream EXCEPT ![s] = IF @ = "pending" THEN "open" ELSE @]
            /\ UNCHANGED tx
       ELSE /\ txQueue' = RemoveAt(txQueue, CHOOSE j \in QueuedFor(s) :
                                                \A k \in QueuedFor(s) : j <= k)
            /\ txPending' = (txQueue' # <<>>)
            /\ UNCHANGED <<stream, written, resolved>>
    /\ RxKeeps /\ UNCHANGED toDevice

OnOkay(s) ==
    LET i == CHOOSE j \in QueuedFor(s) : \A k \in QueuedFor(s) : j <= k
        rest == RemoveAt(txQueue, i)
    IN  \/ /\ stream[s] = "pending"
           /\ stream' = [stream EXCEPT ![s] = "open"]
           /\ RxKeeps /\ UNCHANGED <<tx, toDevice>>
        \/ /\ stream[s] # "pending" /\ QueuedFor(s) = {}
           /\ RxLoopEnds
           /\ UNCHANGED <<stream, tx, toDevice>>
        \/ /\ stream[s] # "pending" /\ QueuedFor(s) # {}
           /\ txQueue' = rest
           /\ txPending' = (rest # <<>>)
           /\ Sent(IF rest = <<>> THEN <<>> ELSE <<Wrte(Head(rest))>>)
           /\ resolved' = IF txQueue[i].promise
                          THEN [resolved EXCEPT ![s] = txQueue[i].n] ELSE resolved
           /\ RxKeeps /\ UNCHANGED <<stream, written>>

\* The data goes to the stream once the send of the OKAY is done.
OnWrte(s) ==
    /\ IF stream[s] = "open"
       THEN /\ Sent(<<Msg("OKAY", s, 0)>>)
            /\ rx' = s
       ELSE UNCHANGED <<toDevice, rx>>
    /\ UNCHANGED <<connected, stream, tx>>

OnClse(s) ==
    /\ stream' = [stream EXCEPT ![s] =
                    IF @ = "pending" THEN "refused" ELSE IF @ = "open" THEN "closed" ELSE @]
    /\ RxKeeps /\ UNCHANGED <<tx, toDevice>>

RxLoop ==
    /\ rx = Recv /\ toHost # <<>>
    /\ \/ Received("OKAY") /\ OnOkay(Head(toHost).s)
       \/ Received("WRTE") /\ OnWrte(Head(toHost).s)
       \/ Received("CLSE") /\ OnClse(Head(toHost).s)
       \/ /\ Head(toHost).cmd \notin {"OKAY", "WRTE", "CLSE"}  \* Unexpected ADB cmd
          /\ RxKeeps /\ UNCHANGED <<stream, tx, toDevice>>
    /\ toHost' = Tail(toHost)
    /\ UNCHANGED <<conn, lastStreamId, plugged, device>>

\* stream.onData(), then the next round.
RxDeliver ==
    /\ rx \in Streams
    /\ rx' = Recv
    /\ UNCHANGED <<conn, connected, lastStreamId, stream, tx, plugged,
                   toDevice, toHost, device>>

\* transferIn or transferOut fails.  No stream hears of it.
RxFails ==
    /\ rx # None /\ ~plugged
    /\ RxLoopEnds
    /\ UNCHANGED <<conn, lastStreamId, stream, tx, plugged, toDevice, toHost, device>>

-----------------------------------------------------------------------------
(***************************************************************************)
(* The device (external)                                                   *)
(***************************************************************************)
DeviceSends(messages) == toHost' = toHost \o messages

OnDevice(s, record) == device' = [device EXCEPT ![s] = record]

DeviceHandles ==
    /\ toDevice # <<>>
    /\ LET m == Head(toDevice)
           me == device[m.s]
       IN  \/ /\ m.cmd \in {"CNXN", "SIGNATURE", "PUBKEY"}
              /\ \E reply \in {"CNXN", "AUTH"} : DeviceSends(<<Msg(reply, 0, 0)>>)
              /\ UNCHANGED device
           \/ /\ m.cmd = "OPEN"
              /\ \/ OnDevice(m.s, [me EXCEPT !.open = TRUE]) /\ DeviceSends(<<Msg("OKAY", m.s, 0)>>)
                 \/ UNCHANGED device /\ DeviceSends(<<Msg("CLSE", m.s, 0)>>)
           \/ /\ m.cmd = "WRTE"
              /\ IF me.open
                 THEN /\ OnDevice(m.s, [me EXCEPT !.got = Append(@, m.n)])
                      /\ DeviceSends(<<Msg("OKAY", m.s, m.n)>>)
                 ELSE UNCHANGED <<device, toHost>>
           \/ /\ m.cmd = "OKAY"
              /\ OnDevice(m.s, [me EXCEPT !.unacked = FALSE])
              /\ UNCHANGED toHost
           \/ /\ m.cmd = "CLSE"
              /\ OnDevice(m.s, [me EXCEPT !.open = FALSE])
              /\ DeviceSends(IF me.open THEN <<Msg("CLSE", m.s, 0)>> ELSE <<>>)
    /\ toDevice' = Tail(toDevice)
    /\ UNCHANGED <<conn, connected, rx, lastStreamId, stream, tx, plugged>>

DeviceWrites(s) ==
    /\ plugged
    /\ device[s].open /\ ~device[s].unacked /\ device[s].sent < MaxReplies[s]
    /\ OnDevice(s, [device[s] EXCEPT !.unacked = TRUE, !.sent = @ + 1])
    /\ DeviceSends(<<Msg("WRTE", s, device[s].sent + 1)>>)
    /\ UNCHANGED <<conn, connected, rx, lastStreamId, stream, tx, plugged, toDevice>>

\* The process at the other end of the stream exits.
DeviceCloses(s) ==
    /\ plugged
    /\ device[s].open
    /\ OnDevice(s, [device[s] EXCEPT !.open = FALSE])
    /\ DeviceSends(<<Msg("CLSE", s, 0)>>)
    /\ UNCHANGED <<conn, connected, rx, lastStreamId, stream, tx, plugged, toDevice>>

Unplug ==
    /\ MayUnplug /\ plugged /\ phase = "connected"
    /\ plugged' = FALSE
    /\ toDevice' = <<>> /\ toHost' = <<>>
    /\ UNCHANGED <<conn, connected, rx, lastStreamId, stream, tx, device>>

Next ==
    \/ ConnectRecv \/ CreateStream \/ Close
    \/ \E s \in Streams : StreamWrite(s) \/ StreamClose(s)
    \/ RxLoop \/ RxDeliver \/ RxFails
    \/ DeviceHandles
    \/ \E s \in Streams : DeviceWrites(s) \/ DeviceCloses(s)
    \/ Unplug

Spec == Init /\ [][Next]_vars

\* adbd answers, and the browser completes the transfers.
Fairness ==
    /\ WF_vars(DeviceHandles)
    /\ WF_vars(ConnectRecv)
    /\ WF_vars(RxLoop)
    /\ WF_vars(RxDeliver)
    /\ WF_vars(RxFails)

FairSpec == Spec /\ Fairness

-----------------------------------------------------------------------------
(***************************************************************************)
(* Properties                                                              *)
(***************************************************************************)
\* Where the WRTEs are that the device has yet to take, and the OKAYs to those
\* that it took.
Written == {i \in DOMAIN toDevice : toDevice[i].cmd = "WRTE"}
Acked == {i \in DOMAIN toHost : toHost[i].cmd = "OKAY" /\ toHost[i].n > 0}

\* One write is in flight at a time, on all streams together, and the queue is
\* empty when none is: what the assertions of streamWrite() and
\* streamWriteFromQueue() say, although streams are opened, written, closed by
\* either side and acknowledged in any order.
OneWriteInFlight ==
    /\ \A i, j \in Written : i = j
    /\ \A i, j \in Acked : i = j
    /\ Written = {} \/ Acked = {}
    /\ ~txPending => Written = {} /\ Acked = {} /\ txQueue = <<>>

\* The device gets the chunks of a stream in the order in which they were
\* written, none twice and none left out, and a write whose promise is resolved
\* has arrived to its last chunk.
WritesArriveInOrder ==
    \A s \in Streams :
        /\ device[s].got = [i \in 1 .. Len(device[s].got) |-> i]
        /\ resolved[s] <= Len(device[s].got)

\* Stream s was closed before all of its writes were acknowledged.
CutShort(s) == stream[s] = "closed" /\ resolved[s] < written[s]

\* A write to a stream that stays open completes, while the rx loop runs and no
\* other stream is cut short: the queue of one stream does not starve the other.
WritesComplete ==
    \A s \in Streams :
        (stream[s] = "open" /\ QueuedFor(s) # {})
            ~> \/ QueuedFor(s) = {} \/ stream[s] # "open" \/ ~connected
               \/ \E t \in Streams : CutShort(t)

=============================================================================
