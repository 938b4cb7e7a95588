---------------------------- MODULE MCTraceQuery ----------------------------
(* TraceQuery for TLC: call 1 compares two traces, call 2 opens one of them. *)
EXTENDS TraceQuery, TLC

MCCallOf == 1 :> 1 @@ 2 :> 1 @@ 3 :> 2
MCUrlOf == 1 :> "u" @@ 2 :> "v" @@ 3 :> "u"

\* Ports that were never used differ in nothing: the least of them stands for all.
PortsInOrder ==
    \A s \in Sessions : port'[s] <= Cardinality({port[t] : t \in Sessions} \ {0}) + 1

\* A bound: only the shell of session 1 crashes, and only chunks of its trace are
\* answered with an error, by whichever shell they reach.
Crashed(s) == shell[s] = "serving" /\ shell'[s] = "dead" /\ UNCHANGED <<call, pc>>

OneIsFaulty == \A s \in Sessions \ {1} : ~refused'[s] /\ ~Crashed(s)
=============================================================================
