----------------------------- MODULE EngineRpc -----------------------------
(***************************************************************************)
(* The UI's RPC channel to the trace processor: EngineBase                 *)
(* (ui/src/trace_processor/engine.ts), which matches the responses to the  *)
(* promises of its callers by their order, over the WebSocket of           *)
(* HttpRpcEngine (http_rpc_engine.ts), which reconnects when it breaks.    *)
(*                                                                         *)
(* Calls are numbered in the order in which they are made; call c is sent  *)
(* with the sequence number c - 1.  The kinds stand for the request types: *)
(* "query" is answered in batches; "parse" stands for those that keep a    *)
(* list of promises, "summary" for those that keep a single promise and    *)
(* refuse a second call, "metatrace" for the one that nobody waits for.    *)
(*                                                                         *)
(* The server is external (Rpc in trace_processor/rpc).  It answers in     *)
(* order, and like the client it takes a gap in the sequence for an error, *)
(* except after 0 and for 0.                                               *)
(***************************************************************************)
EXTENDS Integers, Sequences, FiniteSets

CONSTANTS
    MaxCalls,    \* bound on the calls
    Kinds,       \* the kinds of calls that are made
    NumBatches,  \* batches of the answer to a query
    FirstSeq,    \* the sequence number of the server's next response
    MaxDrops,    \* bound on the breaks of the connection
    EarlyDrops,  \* it may break before both sides have seen a number above 0
    None

Calls == 1 .. MaxCalls

ASSUME EngineAssumption ==
    /\ MaxCalls \in Nat /\ NumBatches \in Nat \ {0} /\ FirstSeq \in Nat /\ MaxDrops \in Nat
    /\ Kinds \subseteq {"query", "parse", "summary", "metatrace"}
    /\ EarlyDrops \in BOOLEAN
    /\ None \notin Kinds /\ None \notin Calls

VARIABLES
    made,                \* call -> its kind, or None
    pending,             \* kind -> the calls whose promise is pending
    numRequestsPending,
    rxSeqId,
    batches,             \* call -> the batches of its query so far
    answer,              \* call -> the call whose answer it was given, or None
    failed,
    ws,                  \* none, connecting, connected, closed or disposed
    requestQueue,        \* requests made while the socket was not connected
    blobs,               \* messages that await processQueue()
    up, down,            \* messages on their way through the socket
    server,              \* [rx, tx, closing]
    drops

engine == <<made, pending, numRequestsPending, rxSeqId, batches, answer, failed>>
vars == <<engine, ws, requestQueue, blobs, up, down, server, drops>>

Init ==
    /\ made = [c \in Calls |-> None]
    /\ pending = [k \in Kinds |-> <<>>]
    /\ numRequestsPending = 0
    /\ rxSeqId = 0
    /\ batches = [c \in Calls |-> <<>>]
    /\ answer = [c \in Calls |-> None]
    /\ failed = FALSE
    /\ ws = "none"
    /\ requestQueue = <<>> /\ blobs = <<>>
    /\ up = <<>> /\ down = <<>>
    /\ server = [rx |-> 0, tx |-> FirstSeq, closing |-> FALSE]
    /\ drops = 0

-----------------------------------------------------------------------------
(***************************************************************************)
(* Requests                                                                *)
(***************************************************************************)
\* rpcSendRequestBytes(): the first request opens the socket.
SendRequestBytes(c) ==
    /\ up' = IF ws = "connected" THEN Append(up, c) ELSE up
    /\ requestQueue' = IF ws \in {"none", "connecting", "closed"}
                       THEN Append(requestQueue, c) ELSE requestQueue
    /\ ws' = IF ws = "none" THEN "connecting" ELSE ws

\* A second call of a kind with a single promise is refused without a request.
Call(k) ==
    LET c == Cardinality({d \in Calls : made[d] # None}) + 1
    IN  /\ c \in Calls
        /\ k = "summary" => pending[k] = <<>>
        /\ made' = [made EXCEPT ![c] = k]
        /\ pending' = [pending EXCEPT ![k] = IF k = "metatrace" THEN @ ELSE Append(@, c)]
        /\ numRequestsPending' = numRequestsPending + 1
        /\ SendRequestBytes(c)
        /\ UNCHANGED <<rxSeqId, batches, answer, failed, blobs, down, server, drops>>

\* Mutant: what was queued while the socket connected is forgotten.
OnWebsocketConnectedForgets ==
    /\ ws = "connecting"
    /\ ws' = "connected"
    /\ requestQueue' = <<>>
    /\ UNCHANGED <<engine, blobs, up, down, server, drops>>

OnWebsocketConnected ==
    /\ ws = "connecting"
    /\ ws' = "connected"
    /\ up' = requestQueue
    /\ requestQueue' = <<>>
    /\ UNCHANGED <<engine, blobs, down, server, drops>>

\* The server cannot be reached: onerror, and onclose while not connected.
OnWebsocketError ==
    /\ ws = "connecting"
    /\ drops < MaxDrops
    /\ drops' = drops + 1
    /\ ws' = "closed"
    /\ failed' = TRUE
    /\ UNCHANGED <<made, pending, numRequestsPending, rxSeqId, batches, answer,
                   requestQueue, blobs, up, down, server>>

\* onWebsocketClosed() with code 1006: what was under way in either direction is
\* lost, except for the first messages, which may have been received; an empty
\* request, which the server ignores, makes the socket reconnect.
Reconnect ==
    /\ ws' = "connecting"
    /\ up' = <<>> /\ down' = <<>>
    /\ \E n \in 0 .. Len(down) : blobs' = blobs \o SubSeq(down, 1, n)
    /\ server' = [server EXCEPT !.closing = FALSE]
    /\ UNCHANGED <<engine, requestQueue>>

ConnectionDrops ==
    /\ ws = "connected" /\ ~server.closing
    /\ drops < MaxDrops
    /\ EarlyDrops \/ (rxSeqId > 0 /\ server.rx > 0)
    /\ drops' = drops + 1
    /\ Reconnect

\* The server closes the connection after a fatal error.
ServerCloses ==
    /\ ws = "connected" /\ server.closing
    /\ Reconnect
    /\ UNCHANGED drops

\* [Symbol.dispose]().
Dispose ==
    /\ ws # "disposed"
    /\ ws' = "disposed"
    /\ up' = <<>> /\ down' = <<>>
    /\ UNCHANGED <<engine, requestQueue, blobs, server, drops>>

-----------------------------------------------------------------------------
(***************************************************************************)
(* Responses                                                               *)
(***************************************************************************)
OnWebsocketMessage ==
    /\ ws = "connected" /\ down # <<>>
    /\ blobs' = Append(blobs, Head(down))
    /\ down' = Tail(down)
    /\ UNCHANGED <<engine, ws, requestQueue, up, server, drops>>

\* Mutant: gaps in the sequence go unnoticed.
FailsOnFatalOnly(r) == r.fatal

\* Fail throws: the rest of the handler is skipped.
Fails(r) ==
    \/ r.fatal
    \/ r.seq # rxSeqId + 1 /\ rxSeqId # 0 /\ r.seq # 0

\* The answer that a call gets: its own if everything it was given is its own.
AnswerFrom(c, given) ==
    IF given = [i \in 1 .. Len(given) |-> [call |-> c, batch |-> i]]
    THEN c ELSE given[Len(given)].call

\* Mutant: only the last pending promise of a kind is counted off.
ResolveCountsLast(k, c, given) ==
    /\ pending' = [pending EXCEPT ![k] = Tail(@)]
    /\ answer' = [answer EXCEPT ![c] = AnswerFrom(c, given)]
    /\ batches' = [batches EXCEPT ![c] = <<>>]
    /\ numRequestsPending' = IF Len(pending[k]) = 1 THEN numRequestsPending - 1
                             ELSE numRequestsPending

Resolve(k, c, given) ==
    /\ pending' = [pending EXCEPT ![k] = Tail(@)]
    /\ answer' = [answer EXCEPT ![c] = AnswerFrom(c, given)]
    /\ batches' = [batches EXCEPT ![c] = <<>>]
    /\ numRequestsPending' = numRequestsPending - 1

Accept(r) ==
    LET k == r.kind
        c == Head(pending[k])
        part == [call |-> r.call, batch |-> r.batch]
        given == Append(batches[c], part)
    IN  IF k = "metatrace"
        THEN /\ numRequestsPending' = numRequestsPending - 1
             /\ answer' = [answer EXCEPT ![r.call] = r.call]
             /\ UNCHANGED <<pending, batches>>
        \* assertExists() of the promise, or the assertion that only the first
        \* batch has column names.
        ELSE IF pending[k] = <<>> \/ (r.batch = 1 /\ batches[c] # <<>>)
        THEN UNCHANGED <<pending, answer, batches, numRequestsPending>>
        ELSE IF r.last
        THEN Resolve(k, c, given)
        ELSE /\ batches' = [batches EXCEPT ![c] = given]
             /\ UNCHANGED <<pending, answer, numRequestsPending>>

\* processQueue() and onRpcResponseMessage(), for one message.
OnRpcResponse ==
    /\ blobs # <<>>
    /\ blobs' = Tail(blobs)
    /\ LET r == Head(blobs)
       IN  IF Fails(r)
           THEN /\ failed' = TRUE
                /\ UNCHANGED <<pending, numRequestsPending, rxSeqId, batches, answer>>
           ELSE /\ rxSeqId' = r.seq
                /\ Accept(r)
                /\ UNCHANGED failed
    /\ UNCHANGED <<made, ws, requestQueue, up, down, server, drops>>

-----------------------------------------------------------------------------
(***************************************************************************)
(* The server (external)                                                   *)
(***************************************************************************)
NumResponses(k) == IF k = "query" THEN NumBatches ELSE 1

Response(c, i) ==
    [seq |-> server.tx + i - 1, fatal |-> FALSE, kind |-> made[c], call |-> c,
     batch |-> i, last |-> i = NumResponses(made[c])]

FatalError == [seq |-> 0, fatal |-> TRUE]

ServerHandles ==
    /\ up # <<>> /\ ~server.closing
    /\ LET c == Head(up)
           seq == c - 1
           n == NumResponses(made[c])
       IN  IF seq # 0 /\ server.rx # 0 /\ seq # server.rx + 1
           THEN /\ down' = Append(down, FatalError)
                /\ server' = [server EXCEPT !.closing = TRUE]
           ELSE /\ down' = down \o [i \in 1 .. n |-> Response(c, i)]
                /\ server' = [server EXCEPT !.rx = seq, !.tx = @ + n]
    /\ up' = Tail(up)
    /\ UNCHANGED <<engine, ws, requestQueue, blobs, drops>>

Next ==
    \/ \E k \in Kinds : Call(k)
    \/ OnWebsocketConnected \/ OnWebsocketError
    \/ ConnectionDrops \/ ServerCloses \/ Dispose
    \/ OnWebsocketMessage \/ OnRpcResponse
    \/ ServerHandles

Spec == Init /\ [][Next]_vars

\* The server works, the socket delivers and the browser runs what is ready.
Fairness ==
    /\ WF_vars(OnWebsocketConnected)
    /\ WF_vars(OnWebsocketMessage)
    /\ WF_vars(OnRpcResponse)
    /\ WF_vars(ServerHandles)
    /\ WF_vars(ServerCloses)

FairSpec == Spec /\ Fairness

-----------------------------------------------------------------------------
(***************************************************************************)
(* Properties                                                              *)
(***************************************************************************)
Abstract == INSTANCE RpcCalls WITH made <- made, answer <- answer

\* The engine implements RpcCalls: although a response does not say which call
\* it answers, and requests and responses are lost when the connection breaks,
\* no call is given another call's answer or a part of it, and none is answered
\* before the calls made earlier: after a gap nothing is answered any more.
AnswersAreOwn == Abstract!Spec

\* The count behind the loading indicator is the number of calls that have not
\* been answered, also once the engine has failed.
PendingIsCounted ==
    numRequestsPending = Cardinality({c \in Calls : made[c] # None /\ answer[c] = None})

\* Every call that somebody waits for is answered, unless the engine is disposed
\* or has failed, or the connection broke.
CallsAreAnswered ==
    \A c \in Calls :
        (made[c] # None /\ made[c] # "metatrace")
            ~> (answer[c] # None \/ failed \/ ws = "disposed" \/ drops > 0)
=============================================================================
