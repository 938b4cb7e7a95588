------------------------- MODULE TraceQuery_proofs -------------------------
(***************************************************************************)
(* Proofs about TraceQuery, for any calls, sessions and faults, any number *)
(* of chunks, and whatever ports the kernel hands out: a call whose agent  *)
(* ran leaves no shell behind, and the traces of two sessions get mixed    *)
(* only if both used the same port at a time.                              *)
(***************************************************************************)
EXTENDS TraceQuery, FiniteSetTheorems, SequenceTheorems, TLAPS

-----------------------------------------------------------------------------
(***************************************************************************)
(* The inductive invariant, in four parts.                                 *)
(***************************************************************************)
\* Where a session is before it has a port, and after.
NoPort == {"idle", "fetchBinary", "receiveBinary", "fetchTrace", "receiveTrace", "port"}
HasPort == {"probing", "waiting", "parsing", "eof", "ready"}

Types ==
    /\ call \in [Calls -> {"idle", "init", "agent", "succeeded", "failed"}]
    /\ pc \in [Sessions -> NoPort \cup HasPort \cup {"failed"}]
    /\ port \in [Sessions -> Nat]
    /\ shell \in [Sessions -> {"none", "starting", "serving", "dead"}]
    /\ posted \in [Sessions -> Nat]
    /\ refused \in [Sessions -> BOOLEAN]
    /\ loaded \in [Sessions -> Seq(Sessions \X Nat)]
    /\ rivals \in [Sessions -> SUBSET Sessions]
    /\ traceQuerys \subseteq Sessions

\* A call that has returned has a session that failed, which is not in the
\* array, or has destroyed all of its sessions.
CallsFit ==
    /\ \A s \in Sessions : call[CallOf[s]] = "idle" => pc[s] = "idle"
    /\ \A s \in traceQuerys : pc[s] = "ready"
    /\ \A c \in Calls : call[c] = "agent" => SessionsOf(c) \subseteq traceQuerys
    /\ \A c \in Calls : call[c] \in {"succeeded", "failed"} =>
          \/ \E s \in SessionsOf(c) : pc[s] = "failed"
          \/ \A s \in SessionsOf(c) : s \in traceQuerys /\ shell[s] = "dead"

\* Two sessions that use the same port know of each other.
PortsFit ==
    /\ \A s \in Sessions : pc[s] \in NoPort => port[s] = 0
    /\ \A s \in Sessions : pc[s] \in HasPort => port[s] # 0
    /\ \A s \in Sessions : shell[s] \in {"starting", "serving"} => port[s] # 0
    /\ \A s, t \in Sessions :
          s # t /\ port[s] = port[t] /\ port[s] # 0 /\ InUse(s) /\ InUse(t) => t \in rivals[s]

\* A shell holds chunks of its own session and of rivals, those of each of them in
\* order, and without rivals all that were posted unless one was refused.
ChunksFit(s) ==
    /\ \A i \in DOMAIN loaded[s] :
          loaded[s][i][1] \in Near(s) /\ loaded[s][i][2] <= posted[loaded[s][i][1]]
    /\ \A i, j \in DOMAIN loaded[s] :
          i < j /\ loaded[s][i][1] = loaded[s][j][1] => loaded[s][i][2] < loaded[s][j][2]
    /\ rivals[s] = {} => Len(loaded[s]) = posted[s] \/ refused[s]

ParseFits ==
    /\ \A s \in Sessions : pc[s] \in NoPort \cup {"probing", "waiting"} => posted[s] = 0
    /\ \A s \in Sessions : pc[s] = "parsing" => posted[s] < NumChunks
    /\ \A s \in Sessions : pc[s] \in {"eof", "ready"} => posted[s] = NumChunks
    /\ \A s \in Sessions : ChunksFit(s)

-----------------------------------------------------------------------------
(***************************************************************************)
(* What a call does to its shells when it ends.                            *)
(***************************************************************************)
\* A session that throws fails, no shell is revived, and its call fails if it
\* was still waiting for it.
LEMMA ThrowEffect ==
  ASSUME Types, NEW s \in Sessions,
         NEW shells \in [Sessions -> {"none", "starting", "serving", "dead"}],
         \A t \in Sessions : shells[t] \in {shell[t], "dead"}, Throw(s, shells)
  PROVE  /\ pc' = [pc EXCEPT ![s] = "failed"]
         /\ shell' \in [Sessions -> {"none", "starting", "serving", "dead"}]
         /\ \A t \in Sessions : shell'[t] \in {shell[t], "dead"}
         /\ call' \in [Calls -> {"idle", "init", "agent", "succeeded", "failed"}]
         /\ \A c \in Calls : call'[c] = call[c] \/ (c = CallOf[s] /\ call[c] = "init" /\ call'[c] = "failed")
         /\ UNCHANGED traceQuerys
  <1>1. CallOf[s] \in Calls
    BY TraceQueryAssumption
  <1>2. CASE call[CallOf[s]] = "init"
    <2>1. call' = [call EXCEPT ![CallOf[s]] = "failed"] /\ shell' = Destroyed(CallOf[s], shells)
          /\ pc' = [pc EXCEPT ![s] = "failed"] /\ UNCHANGED traceQuerys
      BY <1>2 DEF Throw
    <2>2. shell' \in [Sessions -> {"none", "starting", "serving", "dead"}]
      BY <2>1 DEF Destroyed
    <2>3. \A t \in Sessions : shell'[t] \in {shell[t], "dead"}
      BY <2>1 DEF Destroyed
    <2> QED BY <1>1, <1>2, <2>1, <2>2, <2>3 DEF Types
  <1>3. CASE call[CallOf[s]] # "init"
    <2>1. call' = call /\ shell' = shells /\ pc' = [pc EXCEPT ![s] = "failed"] /\ UNCHANGED traceQuerys
      BY <1>3 DEF Throw
    <2> QED BY <2>1 DEF Types
  <1> QED BY <1>2, <1>3

\* A session that fails destroys its own shell at most, and fails its call at most.
LEMMA FailEffect ==
  ASSUME Types, NEW s \in Sessions, Fail(s)
  PROVE  /\ pc' = [pc EXCEPT ![s] = "failed"]
         /\ shell' \in [Sessions -> {"none", "starting", "serving", "dead"}]
         /\ \A t \in Sessions : shell'[t] \in {shell[t], "dead"}
         /\ call' \in [Calls -> {"idle", "init", "agent", "succeeded", "failed"}]
         /\ \A c \in Calls : call'[c] = call[c] \/ (c = CallOf[s] /\ call[c] = "init" /\ call'[c] = "failed")
         /\ UNCHANGED traceQuerys
  <1>1. shell \in [Sessions -> {"none", "starting", "serving", "dead"}]
        /\ \A t \in Sessions : shell[t] \in {shell[t], "dead"}
    BY DEF Types
  <1> QED BY <1>1, ThrowEffect DEF Fail

-----------------------------------------------------------------------------
(***************************************************************************)
(* Steps                                                                   *)
(***************************************************************************)
\* The step of one session s, as the invariant sees it: s goes on, or it fails,
\* and with it a call that waited for it; shells only die, except that s may
\* spawn its own.
SessionMoves(s) ==
    /\ \E p \in NoPort \cup HasPort \cup {"failed"} : pc' = [pc EXCEPT ![s] = p]
    /\ pc[s] \notin {"idle", "ready", "failed"}
    /\ shell' \in [Sessions -> {"none", "starting", "serving", "dead"}]
    /\ \A t \in Sessions :
          \/ shell'[t] \in {shell[t], "dead"}
          \/ t = s /\ pc[s] = "probing" /\ pc'[s] = "waiting" /\ shell'[s] = "starting"
    /\ call' \in [Calls -> {"idle", "init", "agent", "succeeded", "failed"}]
    /\ UNCHANGED traceQuerys
    /\ \A c \in Calls : \/ call'[c] = call[c]
                        \/ c = CallOf[s] /\ call[c] = "init" /\ call'[c] = "failed" /\ pc'[s] = "failed"

\* Such a step keeps the bookkeeping of the calls.
LEMMA MoveCalls ==
  ASSUME Types, CallsFit, NEW s \in Sessions, SessionMoves(s)
  PROVE  CallsFit'
  <1>1. /\ \A t \in Sessions : t # s => pc'[t] = pc[t]
        /\ s \notin traceQuerys /\ UNCHANGED traceQuerys /\ CallOf[s] \in Calls
        /\ call[CallOf[s]] # "idle" /\ pc[s] # "failed"
    BY TraceQueryAssumption DEF SessionMoves, Types, CallsFit
  <1>2. /\ \A c \in Calls : \/ call'[c] = call[c]
                            \/ c = CallOf[s] /\ call[c] = "init" /\ call'[c] = "failed" /\ pc'[s] = "failed"
        /\ \A t \in traceQuerys : shell'[t] \in {shell[t], "dead"}
    BY <1>1 DEF SessionMoves, Types
  <1>3. \A t \in Sessions : call'[CallOf[t]] = "idle" => pc'[t] = "idle"
    <2> SUFFICES ASSUME NEW t \in Sessions, call'[CallOf[t]] = "idle" PROVE pc'[t] = "idle"
      OBVIOUS
    <2>1. CallOf[t] \in Calls
      BY TraceQueryAssumption
    <2> QED BY <1>1, <1>2, <2>1 DEF CallsFit
  <1>4. \A t \in traceQuerys' : pc'[t] = "ready"
    BY <1>1 DEF CallsFit, Types
  <1>5. \A c \in Calls : call'[c] = "agent" => SessionsOf(c) \subseteq traceQuerys'
    BY <1>1, <1>2 DEF CallsFit
  <1>6. ASSUME NEW c \in Calls, call'[c] \in {"succeeded", "failed"}
        PROVE  \/ \E t \in SessionsOf(c) : pc'[t] = "failed"
               \/ \A t \in SessionsOf(c) : t \in traceQuerys' /\ shell'[t] = "dead"
    <2>1. CASE call'[c] = call[c]
      <3>1. CASE \E t \in SessionsOf(c) : pc[t] = "failed"
        BY <1>1, <3>1 DEF SessionsOf
      <3>2. CASE \A t \in SessionsOf(c) : t \in traceQuerys /\ shell[t] = "dead"
        BY <1>1, <1>2, <3>2
      <3> QED BY <1>6, <2>1, <3>1, <3>2 DEF CallsFit
    <2>2. CASE c = CallOf[s] /\ pc'[s] = "failed"
      BY <2>2 DEF SessionsOf
    <2> QED BY <1>2, <2>1, <2>2
  <1> QED BY <1>3, <1>4, <1>5, <1>6 DEF CallsFit, SessionsOf

\* The steps of a session before and after it posts its trace, except for the
\* choice of its port.
LEMMA QuietStep ==
  ASSUME Types, Types', CallsFit, PortsFit, ParseFits, UNCHANGED world,
         \A c \in Calls : call'[c] \in {"init", "agent"} => call[c] \in {"idle", "init", "agent"},
         \A t \in Sessions :
            \/ pc'[t] \in {pc[t], "failed"}
            \/ pc[t] \in NoPort /\ pc'[t] \in NoPort
            \/ pc[t] = "probing" /\ pc'[t] = "waiting"
            \/ pc[t] = "waiting" /\ pc'[t] = "parsing"
            \/ pc[t] = "eof" /\ pc'[t] = "ready",
         \A t \in Sessions :
            \/ shell'[t] \in {shell[t], "dead"}
            \/ shell[t] = "starting" \/ pc[t] = "probing"
  PROVE  PortsFit' /\ ParseFits'
  <1>1. UNCHANGED <<port, posted, refused, loaded, rivals>>
    BY DEF world
  <1>2. PortsFit'
    <2>1. ASSUME NEW t \in Sessions, InUse(t)' PROVE InUse(t)
      <3>1. CASE shell'[t] \in {"starting", "serving"}
        BY <3>1 DEF InUse
      <3>2. CASE pc'[t] \in {"probing", "waiting", "parsing", "eof"}
        BY <3>2 DEF InUse, NoPort
      <3>3. CASE pc'[t] = "ready" /\ call'[CallOf[t]] \in {"init", "agent"}
        <4>1. CallOf[t] \in Calls
          BY TraceQueryAssumption
        <4>2. call[CallOf[t]] \in {"idle", "init", "agent"}
          BY <3>3, <4>1
        <4>3. pc[t] \in {"ready", "eof"}
          BY <3>3 DEF NoPort
        <4>4. call[CallOf[t]] # "idle"
          BY <4>3 DEF CallsFit
        <4> QED BY <4>2, <4>3, <4>4 DEF InUse
      <3> QED BY <2>1, <3>1, <3>2, <3>3 DEF InUse
    <2>2. \A s \in Sessions : pc'[s] \in NoPort => pc[s] \in NoPort
      BY DEF NoPort
    <2>3. \A s \in Sessions : pc'[s] \in HasPort => pc[s] \in HasPort
      BY DEF NoPort, HasPort
    <2>4. \A s \in Sessions : shell'[s] \in {"starting", "serving"} => port[s] # 0
      BY DEF PortsFit, HasPort
    <2>5. ASSUME NEW s \in Sessions, NEW t \in Sessions, s # t, port'[s] = port'[t], port'[s] # 0,
                 InUse(s)', InUse(t)'
          PROVE  t \in rivals'[s]
      BY <1>1, <2>1, <2>5 DEF PortsFit
    <2> QED BY <1>1, <2>2, <2>3, <2>4, <2>5 DEF PortsFit
  <1>3. ParseFits'
    <2>1. NumChunks \in Nat \ {0}
      BY TraceQueryAssumption
    <2>2. \A s \in Sessions : pc'[s] \in NoPort \cup {"probing", "waiting"} =>
             pc[s] \in NoPort \cup {"probing", "waiting"}
      BY DEF NoPort
    <2>3. \A s \in Sessions : pc'[s] = "parsing" => pc[s] \in {"waiting", "parsing"}
      BY DEF NoPort
    <2>4. \A s \in Sessions : pc'[s] \in {"eof", "ready"} => pc[s] \in {"eof", "ready"}
      BY DEF NoPort
    <2>5. \A s \in Sessions : ChunksFit(s)'
      BY <1>1 DEF ParseFits, ChunksFit, Near
    <2> QED BY <1>1, <2>1, <2>2, <2>3, <2>4, <2>5 DEF ParseFits
  <1> QED BY <1>2, <1>3

\* A session that goes on.
LEMMA GoMoves ==
  ASSUME Types, NEW s \in Sessions, NEW p \in NoPort \cup HasPort, Go(s, p),
         pc[s] \notin {"idle", "ready", "failed"}
  PROVE  SessionMoves(s) /\ pc' = [pc EXCEPT ![s] = p] /\ UNCHANGED <<call, shell, traceQuerys>>
  BY DEF Go, SessionMoves, Types

\* A session that fails.
LEMMA FailMoves ==
  ASSUME Types, NEW s \in Sessions, Fail(s), pc[s] \notin {"idle", "ready", "failed"}
  PROVE  /\ SessionMoves(s) /\ pc' = [pc EXCEPT ![s] = "failed"]
         /\ \A t \in Sessions : shell'[t] \in {shell[t], "dead"}
  <1>1. /\ pc' = [pc EXCEPT ![s] = "failed"] /\ pc'[s] = "failed"
        /\ shell' \in [Sessions -> {"none", "starting", "serving", "dead"}]
        /\ \A t \in Sessions : shell'[t] \in {shell[t], "dead"}
        /\ call' \in [Calls -> {"idle", "init", "agent", "succeeded", "failed"}]
        /\ \A c \in Calls : call'[c] = call[c] \/ (c = CallOf[s] /\ call[c] = "init" /\ call'[c] = "failed")
        /\ UNCHANGED traceQuerys
    BY FailEffect DEF Types
  <1> QED BY <1>1 DEF SessionMoves

\* The step of a session that does not touch the world, and what the parts of
\* the invariant about ports and chunks need to know of it.
QuietMoves(s) ==
    /\ SessionMoves(s) /\ UNCHANGED world
    /\ \/ pc'[s] = "failed"
       \/ pc[s] \in NoPort /\ pc'[s] \in NoPort
       \/ pc[s] = "probing" /\ pc'[s] = "waiting"
       \/ pc[s] = "waiting" /\ pc'[s] = "parsing"

\* Every step of a session up to the first chunk, and every failure, is quiet,
\* except the one that gets the port.
LEMMA QuietSessions ==
  ASSUME Types, NEW s \in Sessions,
         \/ Fetch(s) \/ ReceiveBinary(s) \/ ReceiveTrace(s) \/ DownloadTimeout(s)
         \/ Spawn(s) \/ ServerReady(s) \/ LoadTimeout(s) \/ RequestFails(s)
  PROVE  QuietMoves(s)
  <1>0. \A p : pc' = [pc EXCEPT ![s] = p] => pc'[s] = p
    BY DEF Types
  <1>1. CASE Fetch(s)
    <2>1. PICK place \in {<<"fetchBinary", "receiveBinary">>, <<"fetchTrace", "receiveTrace">>} :
             /\ pc[s] = place[1]
             /\ Go(s, place[2]) \/ Fail(s)
             /\ UNCHANGED <<world, files>>
      BY <1>1 DEF Fetch
    <2>2. /\ pc[s] \in NoPort /\ place[2] \in NoPort
          /\ pc[s] \notin {"idle", "ready", "failed"}
      BY <2>1 DEF NoPort
    <2>3. CASE Go(s, place[2])
      BY <1>0, <2>1, <2>2, <2>3, GoMoves DEF QuietMoves
    <2>4. CASE Fail(s)
      BY <1>0, <2>1, <2>2, <2>4, FailMoves DEF QuietMoves
    <2> QED BY <2>1, <2>3, <2>4
  <1>2. CASE ReceiveBinary(s)
    <2>1. pc[s] = "receiveBinary" /\ UNCHANGED world /\ (Go(s, AfterBinary(s)) \/ Fail(s))
      BY <1>2 DEF ReceiveBinary
    <2>2. pc[s] \in NoPort /\ AfterBinary(s) \in NoPort /\ pc[s] \notin {"idle", "ready", "failed"}
      BY <2>1 DEF NoPort, AfterBinary
    <2>3. CASE Go(s, AfterBinary(s))
      BY <1>0, <2>1, <2>2, <2>3, GoMoves DEF QuietMoves
    <2>4. CASE Fail(s)
      BY <1>0, <2>1, <2>2, <2>4, FailMoves DEF QuietMoves
    <2> QED BY <2>1, <2>3, <2>4
  <1>3. CASE ReceiveTrace(s)
    <2>1. pc[s] = "receiveTrace" /\ UNCHANGED world /\ Go(s, "port")
      BY <1>3 DEF ReceiveTrace
    <2>2. pc[s] \in NoPort /\ "port" \in NoPort /\ pc[s] \notin {"idle", "ready", "failed"}
      BY <2>1 DEF NoPort
    <2> QED BY <1>0, <2>1, <2>2, GoMoves DEF QuietMoves
  <1>4. CASE DownloadTimeout(s)
    <2>1. pc[s] \in {"receiveBinary", "receiveTrace"} /\ UNCHANGED world /\ Fail(s)
      BY <1>4 DEF DownloadTimeout
    <2>2. pc[s] \notin {"idle", "ready", "failed"}
      BY <2>1
    <2> QED BY <1>0, <2>1, <2>2, FailMoves DEF QuietMoves
  <1>5. CASE Spawn(s)
    <2>1. pc[s] = "probing" /\ UNCHANGED world
      BY <1>5 DEF Spawn
    <2>2. pc[s] \notin {"idle", "ready", "failed"}
      BY <2>1
    <2>3. CASE binary
      <3>1. /\ pc' = [pc EXCEPT ![s] = "waiting"]
            /\ shell' = [shell EXCEPT ![s] = "starting"]
            /\ UNCHANGED <<call, traceQuerys>>
        BY <1>5, <2>3 DEF Spawn
      <3>2. pc'[s] = "waiting" /\ shell'[s] = "starting" /\ \A t \in Sessions : t # s => shell'[t] = shell[t]
        BY <3>1 DEF Types
      <3>3. SessionMoves(s)
        BY <2>1, <2>2, <3>1, <3>2 DEF SessionMoves, Types, HasPort
      <3> QED BY <2>1, <3>2, <3>3 DEF QuietMoves
    <2>4. CASE ~binary
      <3>1. Fail(s)
        BY <1>5, <2>4 DEF Spawn
      <3> QED BY <1>0, <2>1, <2>2, <3>1, FailMoves DEF QuietMoves
    <2> QED BY <2>3, <2>4
  <1>6. CASE ServerReady(s)
    <2>1. pc[s] = "waiting" /\ UNCHANGED world /\ Go(s, "parsing")
      BY <1>6 DEF ServerReady
    <2>2. pc[s] \notin {"idle", "ready", "failed"} /\ "parsing" \in HasPort
      BY <2>1 DEF HasPort
    <2> QED BY <1>0, <2>1, <2>2, GoMoves DEF QuietMoves
  <1>7. CASE LoadTimeout(s)
    <2>1. pc[s] = "waiting" /\ UNCHANGED world /\ Throw(s, [shell EXCEPT ![s] = "dead"])
      BY <1>7 DEF LoadTimeout
    <2>2. PICK shells : shells = [shell EXCEPT ![s] = "dead"]
      OBVIOUS
    <2>3. /\ shells \in [Sessions -> {"none", "starting", "serving", "dead"}]
          /\ \A t \in Sessions : shells[t] \in {shell[t], "dead"}
      BY <2>2 DEF Types
    <2>4. Throw(s, shells)
      BY <2>1, <2>2
    <2>5. /\ pc' = [pc EXCEPT ![s] = "failed"] /\ pc'[s] = "failed"
          /\ shell' \in [Sessions -> {"none", "starting", "serving", "dead"}]
          /\ \A t \in Sessions : shell'[t] \in {shell[t], "dead"}
          /\ call' \in [Calls -> {"idle", "init", "agent", "succeeded", "failed"}]
          /\ \A c \in Calls : call'[c] = call[c] \/ (c = CallOf[s] /\ call[c] = "init" /\ call'[c] = "failed")
          /\ UNCHANGED traceQuerys
      BY <1>0, <2>3, <2>4, ThrowEffect
    <2> QED BY <2>1, <2>5 DEF QuietMoves, SessionMoves
  <1>8. CASE RequestFails(s)
    <2>1. pc[s] \in {"parsing", "eof"} /\ UNCHANGED world /\ Fail(s)
      BY <1>8 DEF RequestFails
    <2>2. pc[s] \notin {"idle", "ready", "failed"}
      BY <2>1
    <2> QED BY <1>0, <2>1, <2>2, FailMoves DEF QuietMoves
  <1> QED BY <1>1, <1>2, <1>3, <1>4, <1>5, <1>6, <1>7, <1>8

\* The remaining steps of a session: it gets a port, posts a chunk, or is ready.
LEMMA PortMoves ==
  ASSUME Types, NEW s \in Sessions, GetAvailablePort(s)
  PROVE  /\ SessionMoves(s) /\ Types'
         /\ pc[s] = "port" /\ pc' = [pc EXCEPT ![s] = "probing"]
         /\ UNCHANGED <<call, shell, posted, refused, loaded>>
         /\ \E p \in Ports :
               /\ port' = [port EXCEPT ![s] = p]
               /\ \A t \in Sessions : rivals[t] \subseteq rivals'[t]
               /\ \A t \in Sessions : port[t] = p /\ InUse(t) => t \in rivals'[s]
               /\ \A t \in Sessions : t # s /\ port[t] = p /\ InUse(t) => s \in rivals'[t]
  <1>1. pc[s] = "port" /\ Go(s, "probing") /\ UNCHANGED <<posted, refused, loaded>>
    BY DEF GetAvailablePort
  <1>2. SessionMoves(s) /\ pc' = [pc EXCEPT ![s] = "probing"] /\ UNCHANGED <<call, shell, traceQuerys>>
    <2>1. "probing" \in NoPort \cup HasPort /\ pc[s] \notin {"idle", "ready", "failed"}
      BY <1>1 DEF HasPort
    <2> QED BY <1>1, <2>1, GoMoves
  <1>3. PICK p \in Ports :
           /\ port' = [port EXCEPT ![s] = p]
           /\ LET users == {t \in Sessions : port[t] = p /\ InUse(t)}
              IN  rivals' = [t \in Sessions |->
                     rivals[t] \cup (IF t = s THEN users ELSE IF t \in users THEN {s} ELSE {})]
    BY DEF GetAvailablePort
  <1>4. PICK users : users = {t \in Sessions : port[t] = p /\ InUse(t)}
    OBVIOUS
  <1>5. rivals' = [t \in Sessions |->
           rivals[t] \cup (IF t = s THEN users ELSE IF t \in users THEN {s} ELSE {})]
    BY <1>3, <1>4
  <1>6. users \in SUBSET Sessions
    BY <1>4
  <1>7. \A t \in Sessions :
           rivals'[t] = rivals[t] \cup (IF t = s THEN users ELSE IF t \in users THEN {s} ELSE {})
    BY <1>5
  <1>8. /\ \A t \in Sessions : rivals[t] \subseteq rivals'[t]
        /\ \A t \in Sessions : port[t] = p /\ InUse(t) => t \in rivals'[s]
        /\ \A t \in Sessions : t # s /\ port[t] = p /\ InUse(t) => s \in rivals'[t]
    BY <1>4, <1>7
  <1>9. Types'
    <2>1. p \in Nat
      BY TraceQueryAssumption DEF Ports
    <2>2. port' \in [Sessions -> Nat]
      BY <1>3, <2>1 DEF Types
    <2>3. pc' \in [Sessions -> NoPort \cup HasPort \cup {"failed"}]
      BY <1>2 DEF Types, HasPort
    <2>4. \A t \in Sessions :
             rivals[t] \cup (IF t = s THEN users ELSE IF t \in users THEN {s} ELSE {}) \in SUBSET Sessions
      BY <1>6 DEF Types
    <2>5. rivals' \in [Sessions -> SUBSET Sessions]
      BY <1>5, <2>4
    <2> QED BY <1>1, <1>2, <2>2, <2>3, <2>5 DEF Types
  <1> QED BY <1>1, <1>2, <1>3, <1>8, <1>9

\* Posting a chunk: some server at the session's port takes it or refuses it.
LEMMA ParseMoves ==
  ASSUME Types, NEW s \in Sessions, ParseChunk(s)
  PROVE  /\ SessionMoves(s) /\ Types' /\ UNCHANGED <<call, shell, port, rivals>>
         /\ pc[s] = "parsing"
         /\ pc' = [pc EXCEPT ![s] = IF posted[s] + 1 = NumChunks THEN "eof" ELSE "parsing"]
         /\ posted' = [posted EXCEPT ![s] = posted[s] + 1]
         /\ \E t \in ServerAt(port[s]), error \in BOOLEAN :
               /\ refused' = [refused EXCEPT ![s] = refused[s] \/ error]
               /\ loaded' = [loaded EXCEPT ![t] = IF error THEN loaded[t]
                                                  ELSE Append(loaded[t], <<s, posted[s] + 1>>)]
  <1>1. PICK t \in ServerAt(port[s]), error \in {FALSE} \cup {"reject" \in Faults} :
        /\ pc[s] = "parsing"
        /\ posted' = [posted EXCEPT ![s] = posted[s] + 1]
        /\ refused' = [refused EXCEPT ![s] = refused[s] \/ error]
        /\ loaded' = [loaded EXCEPT ![t] = IF error THEN loaded[t]
                                           ELSE Append(loaded[t], <<s, posted[s] + 1>>)]
        /\ Go(s, IF posted[s] + 1 = NumChunks THEN "eof" ELSE "parsing")
        /\ UNCHANGED <<port, rivals>>
    BY DEF ParseChunk
  <1>2. error \in BOOLEAN /\ t \in Sessions
    <2>1. t \in Sessions
      BY DEF ServerAt
    <2>2. CASE error = FALSE
      BY <2>1, <2>2
    <2>3. CASE error = ("reject" \in Faults)
      <3>1. CASE "reject" \in Faults
        BY <2>1, <2>3, <3>1
      <3>2. CASE "reject" \notin Faults
        BY <2>1, <2>3, <3>2
      <3> QED BY <3>1, <3>2
    <2> QED BY <2>2, <2>3, Zenon
  <1>3. PICK p : p = IF posted[s] + 1 = NumChunks THEN "eof" ELSE "parsing"
    OBVIOUS
  <1>4. SessionMoves(s) /\ pc' = [pc EXCEPT ![s] = p] /\ UNCHANGED <<call, shell, traceQuerys>>
    <2>1. p \in NoPort \cup HasPort /\ pc[s] \notin {"idle", "ready", "failed"} /\ Go(s, p)
      BY <1>1, <1>3 DEF HasPort
    <2> QED BY <2>1, GoMoves
  <1>5. Types'
    <2>1. posted[s] + 1 \in Nat /\ <<s, posted[s] + 1>> \in Sessions \X Nat
      BY DEF Types
    <2>2. loaded[t] \in Seq(Sessions \X Nat)
      BY <1>2 DEF Types
    <2>3. Append(loaded[t], <<s, posted[s] + 1>>) \in Seq(Sessions \X Nat)
      BY <2>1, <2>2, AppendProperties
    <2>4. loaded' \in [Sessions -> Seq(Sessions \X Nat)]
      <3>1. PICK l \in Seq(Sessions \X Nat) : loaded' = [loaded EXCEPT ![t] = l]
        BY <1>1, <2>2, <2>3
      <3> QED BY <1>2, <3>1 DEF Types
    <2>5. posted' \in [Sessions -> Nat] /\ refused' \in [Sessions -> BOOLEAN]
      BY <1>1, <1>2, <2>1 DEF Types
    <2>6. pc' \in [Sessions -> NoPort \cup HasPort \cup {"failed"}]
      BY <1>3, <1>4 DEF Types, HasPort
    <2> QED BY <1>1, <1>4, <2>4, <2>5, <2>6 DEF Types
  <1> QED BY <1>1, <1>2, <1>3, <1>4, <1>5

\* A session that is ready is pushed to the array of its call.
LEMMA EofStep ==
  ASSUME Types, CallsFit, NEW s \in Sessions, NotifyEof(s)
  PROVE  /\ Types' /\ CallsFit' /\ UNCHANGED <<shell, world>>
         /\ pc[s] = "eof" /\ pc' = [pc EXCEPT ![s] = "ready"]
         /\ \A c \in Calls : call'[c] = call[c] \/ call[c] = "init"
  <1>1. /\ pc[s] = "eof" /\ pc' = [pc EXCEPT ![s] = "ready"]
        /\ traceQuerys' = traceQuerys \cup {s}
        /\ call' = IF call[CallOf[s]] = "init" /\ SessionsOf(CallOf[s]) \subseteq traceQuerys'
                   THEN [call EXCEPT ![CallOf[s]] = "agent"] ELSE call
        /\ UNCHANGED <<shell, world>>
    BY DEF NotifyEof
  <1>2. CallOf[s] \in Calls
    BY TraceQueryAssumption
  <1>3. Types'
    BY <1>1, <1>2 DEF Types, HasPort, world
  <1>4. \A t \in Sessions : pc'[t] = IF t = s THEN "ready" ELSE pc[t]
    BY <1>1 DEF Types
  <1>5. \A c \in Calls : \/ call'[c] = call[c]
                         \/ /\ c = CallOf[s] /\ call[c] = "init" /\ call'[c] = "agent"
                            /\ SessionsOf(c) \subseteq traceQuerys'
    BY <1>1, <1>2 DEF Types
  <1>6. \A t \in Sessions : call'[CallOf[t]] = "idle" => pc'[t] = "idle"
    <2> SUFFICES ASSUME NEW t \in Sessions, call'[CallOf[t]] = "idle" PROVE pc'[t] = "idle"
      OBVIOUS
    <2>1. CallOf[t] \in Calls
      BY TraceQueryAssumption
    <2>2. call[CallOf[t]] = "idle"
      BY <1>5, <2>1
    <2> QED BY <1>1, <1>4, <2>2 DEF CallsFit
  <1>7. \A t \in traceQuerys' : pc'[t] = "ready"
    BY <1>1, <1>4 DEF CallsFit, Types
  <1>8. \A c \in Calls : call'[c] = "agent" => SessionsOf(c) \subseteq traceQuerys'
    BY <1>1, <1>5 DEF CallsFit
  <1>9. ASSUME NEW c \in Calls, call'[c] \in {"succeeded", "failed"}
        PROVE  \/ \E t \in SessionsOf(c) : pc'[t] = "failed"
               \/ \A t \in SessionsOf(c) : t \in traceQuerys' /\ shell'[t] = "dead"
    <2>1. call'[c] = call[c]
      BY <1>5, <1>9
    <2>2. CASE \E t \in SessionsOf(c) : pc[t] = "failed"
      BY <1>1, <1>4, <2>2 DEF SessionsOf
    <2>3. CASE \A t \in SessionsOf(c) : t \in traceQuerys /\ shell[t] = "dead"
      BY <1>1, <2>3
    <2> QED BY <1>9, <2>1, <2>2, <2>3 DEF CallsFit
  <1>10. CallsFit'
    BY <1>6, <1>7, <1>8, <1>9 DEF CallsFit, SessionsOf
  <1> QED BY <1>1, <1>3, <1>5, <1>10

\* A call that starts: its sessions set off, none of them with a port.
LEMMA StartStep ==
  ASSUME Types, CallsFit, NEW c \in Calls, Start(c)
  PROVE  /\ Types' /\ CallsFit' /\ UNCHANGED <<shell, world>>
         /\ \A s \in Sessions : pc'[s] = pc[s] \/ (pc[s] \in NoPort /\ pc'[s] \in NoPort)
         /\ \A d \in Calls : call'[d] = call[d] \/ call[d] = "idle"
  <1>1. /\ call[c] = "idle" /\ call' = [call EXCEPT ![c] = "init"]
        /\ UNCHANGED <<shell, traceQuerys, world>>
    BY DEF Start
  <1>2. PICK p \in [Sessions -> NoPort] :
           pc' = [s \in Sessions |-> IF CallOf[s] # c THEN pc[s] ELSE p[s]]
    <2>1. PICK p : p = [s \in Sessions |-> IF binaryCache \/ binary THEN AfterBinary(s) ELSE "fetchBinary"]
      OBVIOUS
    <2>2. p \in [Sessions -> NoPort]
      BY <2>1 DEF NoPort, AfterBinary
    <2>3. pc' = [s \in Sessions |-> IF CallOf[s] # c THEN pc[s] ELSE p[s]]
      BY <2>1 DEF Start
    <2> QED BY <2>2, <2>3
  <1>3. /\ \A s \in Sessions : CallOf[s] # c => pc'[s] = pc[s]
        /\ \A s \in Sessions : CallOf[s] = c => pc[s] = "idle" /\ pc'[s] \in NoPort
    BY <1>1, <1>2 DEF CallsFit
  <1>4. Types'
    BY <1>1, <1>2 DEF Types, world
  <1>5. \A s \in traceQuerys : CallOf[s] # c
    BY <1>3 DEF CallsFit, Types
  <1>6. \A d \in Calls : call'[d] = IF d = c THEN "init" ELSE call[d]
    BY <1>1 DEF Types
  <1>7. \A s \in Sessions : call'[CallOf[s]] = "idle" => pc'[s] = "idle"
    <2> SUFFICES ASSUME NEW s \in Sessions, call'[CallOf[s]] = "idle" PROVE pc'[s] = "idle"
      OBVIOUS
    <2>1. CallOf[s] \in Calls
      BY TraceQueryAssumption
    <2> QED BY <1>3, <1>6, <2>1 DEF CallsFit
  <1>8. \A s \in traceQuerys' : pc'[s] = "ready"
    BY <1>1, <1>3, <1>5 DEF CallsFit, Types
  <1>9. \A d \in Calls : call'[d] = "agent" => SessionsOf(d) \subseteq traceQuerys'
    BY <1>1, <1>6 DEF CallsFit
  <1>10. ASSUME NEW d \in Calls, call'[d] \in {"succeeded", "failed"}
         PROVE  \/ \E t \in SessionsOf(d) : pc'[t] = "failed"
                \/ \A t \in SessionsOf(d) : t \in traceQuerys' /\ shell'[t] = "dead"
    <2>1. d # c /\ call'[d] = call[d]
      BY <1>6, <1>10
    <2>2. \A t \in SessionsOf(d) : pc'[t] = pc[t]
      BY <1>3, <2>1 DEF SessionsOf
    <2> QED BY <1>1, <1>10, <2>1, <2>2 DEF CallsFit
  <1>11. CallsFit'
    BY <1>7, <1>8, <1>9, <1>10 DEF CallsFit, SessionsOf
  <1>12. \A s \in Sessions : pc'[s] = pc[s] \/ (pc[s] \in NoPort /\ pc'[s] \in NoPort)
    BY <1>3 DEF NoPort
  <1> QED BY <1>1, <1>4, <1>6, <1>11, <1>12

\* When the agent returns, all sessions of its call are in the array.
LEMMA ReturnStep ==
  ASSUME Types, CallsFit, NEW c \in Calls, AgentReturns(c)
  PROVE  /\ Types' /\ CallsFit' /\ UNCHANGED <<pc, world>>
         /\ \A s \in Sessions : shell'[s] \in {shell[s], "dead"}
         /\ \A d \in Calls : call'[d] = call[d] \/ call[d] = "agent"
  <1>1. /\ call[c] = "agent" /\ UNCHANGED <<pc, traceQuerys, world>>
        /\ shell' = Destroyed(c, shell)
    BY DEF AgentReturns
  <1>2. PICK outcome \in {"succeeded", "failed"} : call' = [call EXCEPT ![c] = outcome]
    BY DEF AgentReturns
  <1>3. /\ shell' \in [Sessions -> {"none", "starting", "serving", "dead"}]
        /\ \A s \in Sessions : shell'[s] \in {shell[s], "dead"}
        /\ \A s \in SessionsOf(c) : s \in traceQuerys => shell'[s] = "dead"
    BY <1>1 DEF Destroyed, Types, SessionsOf
  <1>4. Types'
    BY <1>1, <1>2, <1>3 DEF Types, world
  <1>5. \A d \in Calls : call'[d] = IF d = c THEN outcome ELSE call[d]
    BY <1>2 DEF Types
  <1>6. \A s \in Sessions : call'[CallOf[s]] = "idle" => pc'[s] = "idle"
    <2>1. \A s \in Sessions : CallOf[s] \in Calls
      BY TraceQueryAssumption
    <2> QED BY <1>1, <1>5, <2>1 DEF CallsFit
  <1>7. \A d \in Calls : call'[d] = "agent" => SessionsOf(d) \subseteq traceQuerys'
    BY <1>1, <1>5 DEF CallsFit
  <1>8. ASSUME NEW d \in Calls, call'[d] \in {"succeeded", "failed"}
        PROVE  \/ \E t \in SessionsOf(d) : pc'[t] = "failed"
               \/ \A t \in SessionsOf(d) : t \in traceQuerys' /\ shell'[t] = "dead"
    <2>1. CASE d = c
      BY <1>1, <1>3, <2>1 DEF CallsFit
    <2>2. CASE d # c
      <3>1. call[d] \in {"succeeded", "failed"}
        BY <1>5, <1>8, <2>2
      <3>2. \A t \in SessionsOf(d) : shell[t] = "dead" => shell'[t] = "dead"
        BY <1>3 DEF SessionsOf
      <3> QED BY <1>1, <3>1, <3>2 DEF CallsFit
    <2> QED BY <2>1, <2>2
  <1>9. CallsFit'
    BY <1>1, <1>6, <1>7, <1>8 DEF CallsFit, SessionsOf
  <1> QED BY <1>1, <1>3, <1>4, <1>5, <1>9

\* A shell comes up, or goes down.
LEMMA ShellStep ==
  ASSUME Types, CallsFit, NEW s \in Sessions, ShellBinds(s) \/ ShellCrashes(s)
  PROVE  /\ Types' /\ CallsFit' /\ UNCHANGED <<call, pc, world>>
         /\ \A t \in Sessions : shell'[t] \in {shell[t], "dead"} \/ shell[t] = "starting"
  <1>1. /\ UNCHANGED <<call, pc, traceQuerys, world>>
        /\ shell' \in [Sessions -> {"none", "starting", "serving", "dead"}]
        /\ \A t \in Sessions : shell'[t] \in {shell[t], "dead"} \/ shell[t] = "starting"
    BY DEF ShellBinds, ShellCrashes, Types
  <1>2. Types'
    BY <1>1 DEF Types, world
  <1>3. \A c \in Calls : \A t \in SessionsOf(c) : shell[t] = "dead" => shell'[t] = "dead"
    BY <1>1 DEF SessionsOf
  <1>4. CallsFit'
    BY <1>1, <1>3 DEF CallsFit, SessionsOf
  <1> QED BY <1>1, <1>2, <1>4

\* Every step keeps the types and the bookkeeping of the calls.
LEMMA CallsStep ==
  ASSUME Types, CallsFit, [Next]_vars
  PROVE  Types' /\ CallsFit'
  <1>1. ASSUME NEW s \in Sessions, SessionMoves(s), UNCHANGED world PROVE Types'
    <2>1. PICK p \in NoPort \cup HasPort \cup {"failed"} : pc' = [pc EXCEPT ![s] = p]
      BY <1>1 DEF SessionMoves
    <2>2. pc' \in [Sessions -> NoPort \cup HasPort \cup {"failed"}]
      BY <2>1 DEF Types
    <2> QED BY <1>1, <2>2 DEF Types, SessionMoves, world
  <1>2. ASSUME NEW s \in Sessions, Session(s) PROVE Types' /\ CallsFit'
    <2>1. CASE \/ Fetch(s) \/ ReceiveBinary(s) \/ ReceiveTrace(s) \/ DownloadTimeout(s)
               \/ Spawn(s) \/ ServerReady(s) \/ LoadTimeout(s) \/ RequestFails(s)
      <3>1. QuietMoves(s)
        BY <2>1, QuietSessions
      <3>2. SessionMoves(s) /\ UNCHANGED world
        BY <3>1 DEF QuietMoves
      <3> QED BY <1>1, <3>2, MoveCalls
    <2>2. CASE GetAvailablePort(s)
      BY <2>2, PortMoves, MoveCalls
    <2>3. CASE ParseChunk(s)
      BY <2>3, ParseMoves, MoveCalls
    <2>4. CASE NotifyEof(s)
      BY <2>4, EofStep
    <2> QED BY <1>2, <2>1, <2>2, <2>3, <2>4 DEF Session
  <1>3. CASE UNCHANGED vars
    BY <1>3 DEF vars, world, Types, CallsFit, SessionsOf
  <1> QED BY <1>2, <1>3, StartStep, ReturnStep, ShellStep DEF Next, Terminated

\* A session gets a port: whoever uses it already becomes its rival.
LEMMA PortStep ==
  ASSUME Types, PortsFit, ParseFits, NEW s \in Sessions, GetAvailablePort(s)
  PROVE  PortsFit' /\ ParseFits'
  <1>1. /\ pc[s] = "port" /\ pc' = [pc EXCEPT ![s] = "probing"]
        /\ UNCHANGED <<call, shell, posted, refused, loaded>>
    BY PortMoves
  <1>2. PICK p \in Ports :
           /\ port' = [port EXCEPT ![s] = p]
           /\ \A t \in Sessions : rivals[t] \subseteq rivals'[t]
           /\ \A t \in Sessions : port[t] = p /\ InUse(t) => t \in rivals'[s]
           /\ \A t \in Sessions : t # s /\ port[t] = p /\ InUse(t) => s \in rivals'[t]
    BY PortMoves
  <1>3. p # 0 /\ p \in Nat
    BY TraceQueryAssumption DEF Ports
  <1>4. /\ \A t \in Sessions : pc'[t] = IF t = s THEN "probing" ELSE pc[t]
        /\ \A t \in Sessions : port'[t] = IF t = s THEN p ELSE port[t]
    BY <1>1, <1>2 DEF Types
  <1>5. \A t \in Sessions : t # s /\ InUse(t)' => InUse(t)
    BY <1>1, <1>4 DEF InUse
  <1>6. PortsFit'
    <2>1. /\ \A t \in Sessions : pc'[t] \in NoPort => port'[t] = 0
          /\ \A t \in Sessions : pc'[t] \in HasPort => port'[t] # 0
          /\ \A t \in Sessions : shell'[t] \in {"starting", "serving"} => port'[t] # 0
      BY <1>1, <1>3, <1>4 DEF PortsFit, NoPort
    <2>2. ASSUME NEW t \in Sessions, NEW u \in Sessions, t # u, port'[t] = port'[u], port'[t] # 0,
                 InUse(t)', InUse(u)'
          PROVE  u \in rivals'[t]
      <3>1. CASE t = s
        BY <1>2, <1>4, <1>5, <2>2, <3>1
      <3>2. CASE u = s
        BY <1>2, <1>4, <1>5, <2>2, <3>2
      <3>3. CASE t # s /\ u # s
        <4>1. u \in rivals[t]
          BY <1>4, <1>5, <2>2, <3>3 DEF PortsFit
        <4> QED BY <1>2, <4>1
      <3> QED BY <3>1, <3>2, <3>3
    <2> QED BY <2>1, <2>2 DEF PortsFit
  <1>7. ParseFits'
    <2>1. pc[s] \in NoPort
      BY <1>1 DEF NoPort
    <2>2. ASSUME NEW t \in Sessions PROVE ChunksFit(t)'
      <3>1. ChunksFit(t) /\ rivals[t] \subseteq rivals'[t]
        BY <1>2 DEF ParseFits
      <3>2. \A u : u \in Near(t) => u \in Near(t)'
        BY <3>1 DEF Near
      <3> QED BY <1>1, <3>1, <3>2 DEF ChunksFit
    <2> QED BY <1>1, <1>4, <2>1, <2>2 DEF ParseFits
  <1> QED BY <1>6, <1>7

\* Two sessions that use one port are near each other.
LEMMA SamePort ==
  ASSUME PortsFit, NEW s \in Sessions, NEW t \in ServerAt(port[s]), port[s] # 0, InUse(s)
  PROVE  t \in Sessions /\ s \in Near(t) /\ t \in Near(s)
  <1>1. t \in Sessions /\ port[t] = port[s] /\ InUse(t)
    BY DEF ServerAt, InUse
  <1> QED BY <1>1 DEF PortsFit, Near

\* A shell parses the next chunk of a session near its own.
LEMMA ParseStep ==
  ASSUME Types, PortsFit, ParseFits, NEW s \in Sessions, ParseChunk(s)
  PROVE  PortsFit' /\ ParseFits'
  <1>1. /\ UNCHANGED <<call, shell, port, rivals>> /\ pc[s] = "parsing"
        /\ pc' = [pc EXCEPT ![s] = IF posted[s] + 1 = NumChunks THEN "eof" ELSE "parsing"]
        /\ posted' = [posted EXCEPT ![s] = posted[s] + 1]
    BY ParseMoves
  <1>2. PICK t \in ServerAt(port[s]), error \in BOOLEAN :
               /\ refused' = [refused EXCEPT ![s] = refused[s] \/ error]
               /\ loaded' = [loaded EXCEPT ![t] = IF error THEN loaded[t]
                                                  ELSE Append(loaded[t], <<s, posted[s] + 1>>)]
    BY ParseMoves
  <1>3. port[s] # 0 /\ InUse(s)
    BY <1>1 DEF PortsFit, HasPort, InUse
  <1>4. t \in Sessions /\ s \in Near(t) /\ t \in Near(s)
    BY <1>3, SamePort
  <1>5. /\ pc'[s] = IF posted[s] + 1 = NumChunks THEN "eof" ELSE "parsing"
        /\ \A u \in Sessions : u # s => pc'[u] = pc[u] /\ refused'[u] = refused[u]
        /\ \A u \in Sessions : posted[u] \in Nat /\ posted'[u] = IF u = s THEN posted[u] + 1 ELSE posted[u]
        /\ refused'[s] = (refused[s] \/ error)
        /\ \A u \in Sessions : u # t => loaded'[u] = loaded[u]
        /\ loaded'[t] = IF error THEN loaded[t] ELSE Append(loaded[t], <<s, posted[s] + 1>>)
    BY <1>1, <1>2, <1>4 DEF Types
  <1>6. PortsFit'
    <2>1. /\ \A u \in Sessions : pc'[u] \in NoPort => pc[u] \in NoPort
          /\ \A u \in Sessions : pc'[u] \in HasPort => pc[u] \in HasPort
      BY <1>1, <1>5 DEF NoPort, HasPort
    <2>2. \A u \in Sessions : InUse(u)' => InUse(u)
      BY <1>1, <1>5 DEF InUse
    <2> QED BY <1>1, <2>1, <2>2 DEF PortsFit
  <1>7. ASSUME NEW u \in Sessions PROVE ChunksFit(u)'
    <2>1. ChunksFit(u) /\ loaded[u] \in Seq(Sessions \X Nat) /\ UNCHANGED Near(u)
      BY <1>1 DEF ParseFits, Types, Near
    <2>2. /\ Len(loaded[u]) \in Nat /\ DOMAIN loaded[u] = 1 .. Len(loaded[u])
          /\ \A i \in 1 .. Len(loaded[u]) : loaded[u][i] \in Sessions \X Nat
      BY <2>1, LenProperties, ElementOfSeq
    <2>3. \A v \in Sessions : posted[v] <= posted'[v]
      BY <1>5
    <2>4. \A i \in DOMAIN loaded[u] : /\ loaded[u][i][1] \in Near(u) /\ loaded[u][i][1] \in Sessions
                                      /\ loaded[u][i][2] \in Nat
                                      /\ loaded[u][i][2] <= posted[loaded[u][i][1]]
      BY <2>1, <2>2 DEF ChunksFit
    <2>5. \A i \in DOMAIN loaded[u] : loaded[u][i][2] <= posted'[loaded[u][i][1]]
      BY <1>5, <2>3, <2>4
    <2>6. CASE loaded'[u] = loaded[u]
      <3>1. rivals'[u] = {} => Len(loaded'[u]) = posted'[u] \/ refused'[u]
        <4>1. CASE u # s
          BY <1>1, <1>5, <2>1, <2>6, <4>1 DEF ChunksFit
        <4>2. CASE u = s /\ error
          BY <1>5, <4>2
        <4>3. CASE u = s /\ ~error /\ rivals[u] = {}
          <5>1. t = s
            BY <1>4, <4>3 DEF Near
          <5>2. <<s, posted[s] + 1>> \in Sessions \X Nat
            BY <1>5
          <5>3. Len(loaded'[u]) = Len(loaded[u]) + 1
            BY <1>5, <2>1, <4>3, <5>1, <5>2, AppendProperties
          <5> QED BY <2>2, <2>6, <5>3
        <4> QED BY <1>1, <4>1, <4>2, <4>3
      <3> QED BY <2>1, <2>4, <2>5, <2>6, <3>1 DEF ChunksFit
    <2>7. CASE u = t /\ ~error
      <3> DEFINE l == loaded[u]
                 m == Append(loaded[u], <<s, posted[s] + 1>>)
                 n == Len(loaded[u])
      <3>1. loaded'[u] = m
        BY <1>5, <2>7
      <3>2. /\ DOMAIN m = 1 .. n + 1 /\ Len(m) = n + 1
            /\ \A i \in 1 .. n : m[i] = l[i]
            /\ m[n + 1] = <<s, posted[s] + 1>>
        <4>1. <<s, posted[s] + 1>> \in Sessions \X Nat
          BY <1>5
        <4> QED BY <2>1, <4>1, AppendProperties, LenProperties
      <3>3. /\ \A i, j \in 1 .. n : i < j /\ l[i][1] = l[j][1] => l[i][2] < l[j][2]
            /\ \A i \in 1 .. n : /\ l[i][1] \in Near(u) /\ l[i][1] \in Sessions
                                 /\ l[i][2] \in Nat /\ l[i][2] <= posted[l[i][1]]
                                 /\ l[i][2] <= posted'[l[i][1]]
            /\ rivals[u] = {} => n = posted[u] \/ refused[u]
        BY <2>1, <2>2, <2>4, <2>5 DEF ChunksFit
      <3>4. n \in Nat /\ posted[s] \in Nat /\ posted'[s] = posted[s] + 1
        BY <1>5, <2>2
      <3> HIDE DEF l, m, n
      <3>5. m[n + 1][1] = s /\ m[n + 1][2] = posted[s] + 1
        BY <3>2
      <3>6. \A i \in 1 .. n + 1 : m[i][1] \in Near(u) /\ m[i][2] <= posted'[m[i][1]]
        <4> SUFFICES ASSUME NEW i \in 1 .. n + 1 PROVE m[i][1] \in Near(u) /\ m[i][2] <= posted'[m[i][1]]
          OBVIOUS
        <4>1. CASE i = n + 1
          BY <1>4, <2>7, <3>4, <3>5, <4>1
        <4>2. CASE i \in 1 .. n
          BY <3>2, <3>3, <4>2
        <4> QED BY <3>4, <4>1, <4>2
      <3>7. \A i, j \in 1 .. n + 1 : i < j /\ m[i][1] = m[j][1] => m[i][2] < m[j][2]
        <4> SUFFICES ASSUME NEW i \in 1 .. n + 1, NEW j \in 1 .. n + 1, i < j, m[i][1] = m[j][1]
                     PROVE m[i][2] < m[j][2]
          OBVIOUS
        <4>1. i \in 1 .. n
          BY <3>4
        <4>2. CASE j = n + 1
          <5>1. m[i] = l[i] /\ l[i][1] = s
            BY <3>2, <3>5, <4>1, <4>2
          <5>2. l[i][2] \in Nat /\ l[i][2] <= posted[s]
            BY <3>3, <4>1, <5>1
          <5> QED BY <3>4, <3>5, <4>2, <5>1, <5>2
        <4>3. CASE j \in 1 .. n
          BY <3>2, <3>3, <4>1, <4>3
        <4> QED BY <3>4, <4>2, <4>3
      <3>8. rivals'[u] = {} => n + 1 = posted'[u] \/ refused'[u]
        <4> SUFFICES ASSUME rivals[u] = {} PROVE n + 1 = posted'[u] \/ refused'[u]
          BY <1>1
        <4>1. u = s
          BY <1>4, <2>7 DEF Near
        <4> QED BY <1>5, <3>3, <3>4, <4>1
      <3> QED BY <2>1, <3>1, <3>2, <3>6, <3>7, <3>8 DEF ChunksFit
    <2> QED BY <1>5, <2>6, <2>7
  <1>8. ParseFits'
    <2>1. posted[s] < NumChunks /\ NumChunks \in Nat
      BY <1>1, TraceQueryAssumption DEF ParseFits
    <2>2. /\ pc'[s] = "parsing" => posted'[s] < NumChunks
          /\ pc'[s] = "eof" => posted'[s] = NumChunks
          /\ pc'[s] \in {"parsing", "eof"}
      BY <1>5, <2>1
    <2>3. pc'[s] \notin NoPort \cup {"probing", "waiting"}
      BY <2>2 DEF NoPort
    <2>4. ASSUME NEW u \in Sessions
          PROVE  /\ pc'[u] \in NoPort \cup {"probing", "waiting"} => posted'[u] = 0
                 /\ pc'[u] = "parsing" => posted'[u] < NumChunks
                 /\ pc'[u] \in {"eof", "ready"} => posted'[u] = NumChunks
      <3>1. CASE u = s
        BY <2>2, <2>3, <3>1
      <3>2. CASE u # s
        BY <1>5, <3>2 DEF ParseFits
      <3> QED BY <3>1, <3>2
    <2> QED BY <1>7, <2>4 DEF ParseFits
  <1> QED BY <1>6, <1>8

\* Every step keeps the rivals and the chunks in order.
LEMMA PortsStep ==
  ASSUME Types, CallsFit, PortsFit, ParseFits, [Next]_vars
  PROVE  PortsFit' /\ ParseFits'
  <1>0. Types'
    BY CallsStep
  <1>1. ASSUME NEW s \in Sessions, QuietMoves(s) PROVE PortsFit' /\ ParseFits'
    <2>1. \A t \in Sessions : t # s => pc'[t] = pc[t]
      BY <1>1 DEF QuietMoves, SessionMoves, Types
    <2>2. \A t \in Sessions : shell'[t] \in {shell[t], "dead"} \/ pc[t] = "probing"
      BY <1>1 DEF QuietMoves, SessionMoves
    <2>3. /\ UNCHANGED world
          /\ \/ pc'[s] = "failed"
             \/ pc[s] \in NoPort /\ pc'[s] \in NoPort
             \/ pc[s] = "probing" /\ pc'[s] = "waiting"
             \/ pc[s] = "waiting" /\ pc'[s] = "parsing"
      BY <1>1 DEF QuietMoves
    <2>4. \A c \in Calls : call'[c] \in {"init", "agent"} => call[c] \in {"idle", "init", "agent"}
      BY <1>1 DEF QuietMoves, SessionMoves
    <2> QED BY <1>0, <2>1, <2>2, <2>3, <2>4, QuietStep
  <1>2. ASSUME NEW s \in Sessions, Session(s) PROVE PortsFit' /\ ParseFits'
    <2>1. CASE \/ Fetch(s) \/ ReceiveBinary(s) \/ ReceiveTrace(s) \/ DownloadTimeout(s)
               \/ Spawn(s) \/ ServerReady(s) \/ LoadTimeout(s) \/ RequestFails(s)
      BY <1>1, <2>1, QuietSessions
    <2>2. CASE GetAvailablePort(s)
      BY <2>2, PortStep
    <2>3. CASE ParseChunk(s)
      BY <2>3, ParseStep
    <2>4. CASE NotifyEof(s)
      <3>1. /\ UNCHANGED <<shell, world>> /\ pc[s] = "eof" /\ pc' = [pc EXCEPT ![s] = "ready"]
            /\ \A c \in Calls : call'[c] = call[c] \/ call[c] = "init"
        BY <2>4, EofStep
      <3>2. \A t \in Sessions : pc'[t] = pc[t] \/ (pc[t] = "eof" /\ pc'[t] = "ready")
        BY <3>1 DEF Types
      <3> QED BY <1>0, <3>1, <3>2, QuietStep
    <2> QED BY <1>2, <2>1, <2>2, <2>3, <2>4 DEF Session
  <1>3. ASSUME NEW c \in Calls, Start(c) PROVE PortsFit' /\ ParseFits'
    BY <1>0, <1>3, StartStep, QuietStep
  <1>4. ASSUME NEW c \in Calls, AgentReturns(c) PROVE PortsFit' /\ ParseFits'
    BY <1>0, <1>4, ReturnStep, QuietStep
  <1>5. ASSUME NEW s \in Sessions, ShellBinds(s) \/ ShellCrashes(s) PROVE PortsFit' /\ ParseFits'
    BY <1>0, <1>5, ShellStep, QuietStep
  <1>6. CASE UNCHANGED vars
    <2>1. UNCHANGED <<call, pc, shell, world>>
      BY <1>6 DEF vars
    <2> QED BY <1>0, <2>1, QuietStep
  <1> QED BY <1>2, <1>3, <1>4, <1>5, <1>6 DEF Next, Terminated

-----------------------------------------------------------------------------
(***************************************************************************)
(* The theorems                                                            *)
(***************************************************************************)
\* At first nothing has been started.
LEMMA InitFits == Init => Types /\ CallsFit /\ PortsFit /\ ParseFits
  <1> SUFFICES ASSUME Init PROVE Types /\ CallsFit /\ PortsFit /\ ParseFits
    OBVIOUS
  <1>0. <<>> \in Seq(Sessions \X Nat) /\ Len(<<>>) = 0 /\ DOMAIN <<>> = {}
    BY EmptySeq
  <1>1. Types
    BY <1>0 DEF Init, Types, NoPort
  <1>2. CallsFit
    BY TraceQueryAssumption DEF Init, CallsFit
  <1>3. PortsFit
    BY DEF Init, PortsFit, HasPort
  <1>4. ParseFits
    BY <1>0 DEF Init, ParseFits, ChunksFit
  <1> QED BY <1>1, <1>2, <1>3, <1>4

\* TraceAnalysis() destroys the shells of every call whose agent ran: whatever
\* the other calls and the shells do, and whichever ports the kernel hands out.
THEOREM ShellsAreDestroyed == Spec => []FinishedCallsLeaveNoShell
  <1>1. Init => Types /\ CallsFit
    BY InitFits
  <1>2. Types /\ CallsFit /\ [Next]_vars => Types' /\ CallsFit'
    BY CallsStep
  <1>3. Types /\ CallsFit => FinishedCallsLeaveNoShell
    BY DEF CallsFit, FinishedCallsLeaveNoShell
  <1> QED BY <1>1, <1>2, <1>3, PTL DEF Spec

\* Whichever ports the kernel hands out: a shell holds chunks of its session and of
\* those that used its port at the same time, those of each in order; only such
\* shells answer the agent; a session that shared its port with nobody has its own
\* shell, and all chunks of its trace unless one was refused.
THEOREM QueriesAreOwn == Spec => []QueriesSeeTheirTrace
  <1>1. Init => Types /\ CallsFit /\ PortsFit /\ ParseFits
    BY InitFits
  <1>2. Types /\ CallsFit /\ PortsFit /\ ParseFits /\ [Next]_vars
           => Types' /\ CallsFit' /\ PortsFit' /\ ParseFits'
    BY CallsStep, PortsStep
  <1>3. Types /\ CallsFit /\ PortsFit /\ ParseFits => QueriesSeeTheirTrace
    <2> SUFFICES ASSUME Types, CallsFit, PortsFit, ParseFits PROVE QueriesSeeTheirTrace
      OBVIOUS
    <2>1. \A s \in Sessions : ChunksFit(s)
      BY DEF ParseFits
    <2>2. ASSUME NEW c \in Calls, NEW s \in Sessions, call[c] = "agent", CallOf[s] = c
          PROVE  /\ ServerAt(port[s]) \subseteq Near(s)
                 /\ rivals[s] = {} => Len(loaded[s]) = NumChunks \/ refused[s]
      <3>1. pc[s] = "ready"
        BY <2>2 DEF CallsFit, SessionsOf
      <3>2. posted[s] = NumChunks /\ port[s] # 0 /\ InUse(s)
        BY <2>2, <3>1 DEF ParseFits, PortsFit, HasPort, InUse
      <3> QED BY <2>1, <3>2, SamePort DEF ChunksFit
    <2> QED BY <2>1, <2>2 DEF ChunksFit, QueriesSeeTheirTrace
  <1> QED BY <1>1, <1>2, <1>3, PTL DEF Spec
=============================================================================
