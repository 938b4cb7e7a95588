-------------------------- MODULE MCTraceBufferV1 --------------------------
(* TraceBufferV1 on small rings for TLC. *)
EXTENDS TraceBufferV1

\* The second writer's chunks are larger: records of different sizes overwrite
\* one another.
MCRecordSize == [w \in Writers |-> IF w = 1 THEN 2 ELSE 3]

\* Two writers of two chunks each; and one whose ids wrap around.
WritersLoads ==
    {[chunks |-> [w \in Writers |-> 2], fragments |-> 2, patches |-> 1],
     [chunks |-> [w \in Writers |-> IF w = 1 THEN 6 ELSE 0], fragments |-> 1, patches |-> 0]}

\* Chunks that are scraped while they are written and patched.
ScrapingLoads == {[chunks |-> [w \in Writers |-> 3], fragments |-> 2, patches |-> 1]}
=============================================================================
