------------------------- MODULE MCTracingSession -------------------------
(* TracingSession with few producers for TLC. *)
EXTENDS TracingSession

CONSTANTS p1, p2

MCConfig(trigger, deferred, timed, file, flush, cloneable) ==
    [trigger |-> trigger, deferred |-> deferred, timed |-> timed, file |-> file,
     flush |-> flush, cloneable |-> cloneable]

\* Sessions that the consumer starts, and that last for a while.
TwoProducerConfigs ==
    {MCConfig("UNSPECIFIED", TRUE, FALSE, FALSE, "kPeriodic", FALSE),
     MCConfig("UNSPECIFIED", FALSE, TRUE, FALSE, "kDisabled", FALSE)}

\* Sessions that stream into a file for a while, that a trigger starts, that a
\* trigger stops, and that another consumer or a trigger clones.
OneProducerConfigs ==
    {MCConfig("UNSPECIFIED", FALSE, TRUE, TRUE, "kOnWrite", FALSE),
     MCConfig("START_TRACING", FALSE, FALSE, FALSE, "kDisabled", FALSE),
     MCConfig("STOP_TRACING", FALSE, FALSE, FALSE, "kDisabled", FALSE),
     MCConfig("UNSPECIFIED", FALSE, FALSE, FALSE, "kDisabled", TRUE),
     MCConfig("CLONE_SNAPSHOT", FALSE, FALSE, FALSE, "kDisabled", FALSE)}

MCConfigs ==
    [P \in SUBSET Producers |->
        CASE P = {p1, p2} -> TwoProducerConfigs
          [] P = {p1} -> OneProducerConfigs
          [] OTHER -> {}]
=============================================================================
