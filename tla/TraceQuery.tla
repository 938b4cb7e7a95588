----------------------------- MODULE TraceQuery -----------------------------
(***************************************************************************)
(* The trace analysis service: TraceAnalysis (agent/src/index.ts) opens    *)
(* every trace of a request in a trace processor shell of its own, all of  *)
(* them at the same time (Promise.all over TraceQuery.initProcessor), runs *)
(* its agent on them, and destroys the processors in a finally block.      *)
(*                                                                         *)
(* A session is one trace of one call.  The steps of a session are the     *)
(* runs of the event loop between two awaits that wait for the outside     *)
(* world; what follows such an await in microtasks belongs to the step.    *)
(* Downloads, shells and the kernel's choice of ports are the environment. *)
(* The calls share one process, its binaryCache, and the files under the   *)
(* temporary directory.                                                    *)
(***************************************************************************)
EXTENDS Integers, Sequences, FiniteSets

CONSTANTS
    Calls,       \* the calls of TraceAnalysis
    Sessions,    \* the traces that they open
    CallOf,      \* session -> its call
    UrlOf,       \* session -> the URL of its trace
    NumChunks,   \* chunks of a trace
    NumPorts,    \* the ports the kernel chooses from: any that nothing is bound to
    Faults       \* "download", "corrupt", "refuse", "reject", "crash"

Ports == 1 .. NumPorts

FaultKinds == {"download", "corrupt", "refuse", "reject", "crash"}

ASSUME TraceQueryAssumption ==
    /\ IsFiniteSet(Sessions)
    /\ CallOf \in [Sessions -> Calls]
    /\ DOMAIN UrlOf = Sessions
    /\ NumChunks \in Nat \ {0}
    /\ NumPorts \in Nat
    /\ Faults \subseteq FaultKinds

VARIABLES
    call,         \* call -> "idle", "init", "agent", "succeeded" or "failed"
    pc,           \* session -> where initProcessor() waits
    port,         \* session -> the port of its URL, 0 before it has one
    shell,        \* session -> "none", "starting", "serving" or "dead"
    posted,       \* session -> chunks of the trace posted to /parse
    refused,      \* session -> a chunk was answered with an error
    loaded,       \* session -> the chunks that its shell has parsed
    rivals,       \* session -> who used its port while it did; for the properties
    traceQuerys,  \* the sessions that were pushed to the array of their call
    binary,       \* the shell's binary is in the temporary directory
    binaryCache,  \* its path is in the cache
    traces        \* the URLs whose trace is in the temporary directory

world == <<port, posted, refused, loaded, rivals>>
files == <<binary, binaryCache, traces>>
vars == <<call, pc, shell, traceQuerys, world, files>>

Init ==
    /\ call = [c \in Calls |-> "idle"]
    /\ pc = [s \in Sessions |-> "idle"]
    /\ port = [s \in Sessions |-> 0]
    /\ shell = [s \in Sessions |-> "none"]
    /\ posted = [s \in Sessions |-> 0]
    /\ refused = [s \in Sessions |-> FALSE]
    /\ loaded = [s \in Sessions |-> <<>>]
    /\ rivals = [s \in Sessions |-> {}]
    /\ traceQuerys = {}
    /\ binary = FALSE /\ binaryCache = FALSE
    /\ traces = {}

SessionsOf(c) == {s \in Sessions : CallOf[s] = c}

-----------------------------------------------------------------------------
(* How a call ends, and what that does to its shells.                      *)

\* Mutant: only one of the sessions in the array is destroyed.
DestroyedOne(c, shells) ==
    LET mine == {s \in traceQuerys : CallOf[s] = c}
    IN  IF mine = {} THEN shells ELSE [shells EXCEPT ![CHOOSE s \in mine : TRUE] = "dead"]

\* The finally block: destroyProcessor() of the sessions in the array.
Destroyed(c, shells) ==
    [s \in Sessions |-> IF s \in traceQuerys /\ CallOf[s] = c THEN "dead" ELSE shells[s]]

\* initProcessor() throws, with the shells as given: the first failure of a call rejects
\* its Promise.all, and the call returns while its other sessions go on.
Throw(s, shells) ==
    LET c == CallOf[s] IN
    /\ pc' = [pc EXCEPT ![s] = "failed"]
    /\ IF call[c] = "init"
       THEN call' = [call EXCEPT ![c] = "failed"] /\ shell' = Destroyed(c, shells)
       ELSE call' = call /\ shell' = shells
    /\ UNCHANGED traceQuerys

Fail(s) == Throw(s, shell)

Go(s, place) ==
    /\ pc' = [pc EXCEPT ![s] = place]
    /\ UNCHANGED <<call, shell, traceQuerys>>

-----------------------------------------------------------------------------
(* getBinaryPath() and downloadTraceFile().                                *)

\* What a session does once it has the path of the binary.
AfterBinary(s) == IF UrlOf[s] \in traces THEN "port" ELSE "fetchTrace"

\* The cache is asked first: it is not checked that the file is still there.
Start(c) ==
    LET found == binaryCache \/ binary IN
    /\ call[c] = "idle"
    /\ call' = [call EXCEPT ![c] = "init"]
    /\ pc' = [s \in Sessions |-> IF CallOf[s] # c THEN pc[s]
                                 ELSE IF found THEN AfterBinary(s) ELSE "fetchBinary"]
    /\ binaryCache' = found
    /\ UNCHANGED <<shell, traceQuerys, world, binary, traces>>

\* downloadFile(): fetch() answers, which no timer limits; then the body is received, which
\* a timer does.  The rename and the check of the digest are one step.
Fetch(s) ==
    \E place \in {<<"fetchBinary", "receiveBinary">>, <<"fetchTrace", "receiveTrace">>} :
        /\ pc[s] = place[1]
        /\ \/ Go(s, place[2])
           \/ "download" \in Faults /\ Fail(s)
        /\ UNCHANGED <<world, files>>

DownloadTimeout(s) ==
    /\ pc[s] \in {"receiveBinary", "receiveTrace"}
    /\ "download" \in Faults
    /\ Fail(s)
    /\ UNCHANGED <<world, files>>

\* downloadBinary(): a file with the wrong digest is removed from the place to which it was
\* just renamed, whatever was there before.
ReceiveBinary(s) ==
    /\ pc[s] = "receiveBinary"
    /\ \/ /\ Go(s, AfterBinary(s))
          /\ binary' = TRUE /\ binaryCache' = TRUE
       \/ /\ "corrupt" \in Faults
          /\ Fail(s)
          /\ binary' = FALSE /\ UNCHANGED binaryCache
    /\ UNCHANGED <<world, traces>>

ReceiveTrace(s) ==
    /\ pc[s] = "receiveTrace"
    /\ Go(s, "port")
    /\ traces' = traces \cup {UrlOf[s]}
    /\ UNCHANGED <<world, binary, binaryCache>>

-----------------------------------------------------------------------------
(* loadShell().                                                            *)

\* The shell that answers on a port, as a set of at most one.
ServerAt(p) == {s \in Sessions : shell[s] = "serving" /\ port[s] = p}

\* A port that is bound: by a shell, or by the probe of getAvailablePort().
Bound(p) ==
    \/ ServerAt(p) # {}
    \/ \E s \in Sessions : pc[s] = "probing" /\ port[s] = p

\* A session uses its port while it asks there, or its shell may serve there.
InUse(s) ==
    \/ pc[s] \in {"probing", "waiting", "parsing", "eof"}
    \/ pc[s] = "ready" /\ call[CallOf[s]] \in {"init", "agent"}
    \/ shell[s] \in {"starting", "serving"}

\* getAvailablePort() listens on a port of the kernel's choice.  It may be the port of a
\* session whose probe is closed and whose shell is not up yet, or is gone.
GetAvailablePort(s) ==
    /\ pc[s] = "port"
    /\ \E p \in Ports :
          LET users == {t \in Sessions : port[t] = p /\ InUse(t)} IN
          /\ ~Bound(p)
          /\ port' = [port EXCEPT ![s] = p]
          /\ rivals' = [t \in Sessions |->
                rivals[t] \cup (IF t = s THEN users ELSE IF t \in users THEN {s} ELSE {})]
    /\ Go(s, "probing")
    /\ UNCHANGED <<posted, refused, loaded, files>>

\* The probe is closed; getShellPath() throws when the binary is gone.
Spawn(s) ==
    /\ pc[s] = "probing"
    /\ IF binary
       THEN /\ pc' = [pc EXCEPT ![s] = "waiting"]
            /\ shell' = [shell EXCEPT ![s] = "starting"]
            /\ UNCHANGED <<call, traceQuerys>>
       ELSE Fail(s)
    /\ UNCHANGED <<world, files>>

\* The shell binds its port, or exits because it cannot: nobody listens to that.
ShellBinds(s) ==
    /\ shell[s] = "starting"
    /\ shell' = [shell EXCEPT ![s] = IF Bound(port[s]) THEN "dead" ELSE "serving"]
    /\ UNCHANGED <<call, pc, traceQuerys, world, files>>

ShellCrashes(s) ==
    /\ "crash" \in Faults
    /\ shell[s] = "serving"
    /\ shell' = [shell EXCEPT ![s] = "dead"]
    /\ UNCHANGED <<call, pc, traceQuerys, world, files>>

\* waitForServer(): whoever answers on the port will do.
ServerReady(s) ==
    /\ pc[s] = "waiting"
    /\ ServerAt(port[s]) # {}
    /\ Go(s, "parsing")
    /\ UNCHANGED <<world, files>>

\* Mutant: it goes on polling.
LoadTimeoutNever(s) == pc[s] = "waiting" /\ UNCHANGED vars

LoadTimeout(s) ==
    /\ pc[s] = "waiting"
    /\ Throw(s, [shell EXCEPT ![s] = "dead"])
    /\ UNCHANGED <<world, files>>

-----------------------------------------------------------------------------
(* parseTrace().                                                           *)

\* Mutant: the loop over the chunks ends before the last one.
ParseChunkButLast(s) ==
    \E t \in ServerAt(port[s]), error \in {FALSE} \cup {"reject" \in Faults} :
        /\ pc[s] = "parsing"
        /\ posted' = [posted EXCEPT ![s] = @ + 1]
        /\ refused' = [refused EXCEPT ![s] = @ \/ error]
        /\ loaded' = [loaded EXCEPT ![t] = IF error THEN @ ELSE Append(@, <<s, posted[s] + 1>>)]
        /\ Go(s, IF posted[s] + 2 >= NumChunks THEN "eof" ELSE "parsing")
        /\ UNCHANGED <<port, rivals, files>>

\* A response with an error raises an exception that parse() itself catches and logs.
ParseChunk(s) ==
    \E t \in ServerAt(port[s]), error \in {FALSE} \cup {"reject" \in Faults} :
        /\ pc[s] = "parsing"
        /\ posted' = [posted EXCEPT ![s] = @ + 1]
        /\ refused' = [refused EXCEPT ![s] = @ \/ error]
        /\ loaded' = [loaded EXCEPT ![t] = IF error THEN @ ELSE Append(@, <<s, posted[s] + 1>>)]
        /\ Go(s, IF posted[s] + 1 = NumChunks THEN "eof" ELSE "parsing")
        /\ UNCHANGED <<port, rivals, files>>

\* The request fails, or its status is not OK: the shell is not told.
RequestFails(s) ==
    /\ pc[s] \in {"parsing", "eof"}
    /\ ServerAt(port[s]) = {} \/ "refuse" \in Faults
    /\ Fail(s)
    /\ UNCHANGED <<world, files>>

\* initProcessor() returns; the agent starts when it was the last one of the call.
NotifyEof(s) ==
    LET c == CallOf[s] IN
    /\ pc[s] = "eof"
    /\ ServerAt(port[s]) # {}
    /\ pc' = [pc EXCEPT ![s] = "ready"]
    /\ traceQuerys' = traceQuerys \cup {s}
    /\ call' = IF call[c] = "init" /\ SessionsOf(c) \subseteq traceQuerys'
               THEN [call EXCEPT ![c] = "agent"] ELSE call
    /\ UNCHANGED <<shell, world, files>>

\* The agent ends, with or without a result.
AgentReturns(c) ==
    /\ call[c] = "agent"
    /\ \E outcome \in {"succeeded", "failed"} : call' = [call EXCEPT ![c] = outcome]
    /\ shell' = Destroyed(c, shell)
    /\ UNCHANGED <<pc, traceQuerys, world, files>>

-----------------------------------------------------------------------------
Settled == \A c \in Calls : call[c] \in {"succeeded", "failed"}

Terminated ==
    /\ Settled /\ \A s \in Sessions : pc[s] \in {"ready", "failed"} /\ shell[s] # "starting"
    /\ UNCHANGED vars

Session(s) ==
    \/ Fetch(s) \/ ReceiveBinary(s) \/ ReceiveTrace(s) \/ DownloadTimeout(s)
    \/ GetAvailablePort(s) \/ Spawn(s) \/ ServerReady(s) \/ LoadTimeout(s)
    \/ ParseChunk(s) \/ RequestFails(s) \/ NotifyEof(s)

Next ==
    \/ \E c \in Calls : Start(c) \/ AgentReturns(c)
    \/ \E s \in Sessions : Session(s) \/ ShellBinds(s) \/ ShellCrashes(s)
    \/ Terminated

Spec == Init /\ [][Next]_vars

(* A session goes on: the timers of downloadFile() and waitForServer() see to that while it *)
(* waits for a body or for a shell.  That fetch() and the shell answer a request, and that  *)
(* the agent ends, is assumed of the remote host, the shell and the model's provider.       *)
FairSpec ==
    /\ Spec
    /\ \A c \in Calls : WF_vars(AgentReturns(c))
    /\ \A s \in Sessions : WF_vars(Session(s)) /\ WF_vars(ShellBinds(s))

-----------------------------------------------------------------------------
(* Properties.                                                             *)

\* The shells of a session and of those with whom it ever shared its port.
Near(s) == {s} \cup rivals[s]

\* Whichever ports the kernel hands out, the traces of two sessions get mixed only if
\* both used the same port at a time: a shell holds chunks of its own session and of
\* such rivals, those of each of them once and in order, and while the agent of a call
\* runs only these shells answer on the port of a session.  A session without rivals is
\* answered by its own shell, with all chunks of its trace unless one was refused.
QueriesSeeTheirTrace ==
    /\ \A s \in Sessions :
          /\ \A i \in DOMAIN loaded[s] : loaded[s][i][1] \in Near(s)
          /\ \A i, j \in DOMAIN loaded[s] :
                i < j /\ loaded[s][i][1] = loaded[s][j][1] => loaded[s][i][2] < loaded[s][j][2]
    /\ \A c \in Calls, s \in Sessions :
          call[c] = "agent" /\ CallOf[s] = c =>
              /\ ServerAt(port[s]) \subseteq Near(s)
              /\ rivals[s] = {} => Len(loaded[s]) = NumChunks \/ refused[s]

\* A call whose agent ran leaves no shell behind, whatever the other calls do meanwhile.
FinishedCallsLeaveNoShell ==
    \A c \in Calls :
        call[c] \in {"succeeded", "failed"} /\ SessionsOf(c) \subseteq traceQuerys =>
            \A s \in SessionsOf(c) : shell[s] = "dead"

\* A call returns: no shell that does not come up, and no failure of one of its sessions,
\* keeps TraceAnalysis() waiting.
CallsReturn == \A c \in Calls : call[c] = "init" ~> call[c] \in {"succeeded", "failed"}

=============================================================================
