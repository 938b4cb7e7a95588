----------------------- MODULE MCSharedMemoryArbiter -----------------------
(* Model-checking instances of SharedMemoryArbiter.                        *)
EXTENDS SharedMemoryArbiter

CONSTANTS a1, w1, w2

\* One writer on each thread.
Spread == [w \in Writers |-> IF w = w1 THEN a1 ELSE IPC]

Setup(m, chunks, patches, callbacks, shutdown, half) ==
    [mode |-> m, chunks |-> chunks, patches |-> patches,
     callbacks |-> callbacks, shutdown |-> shutdown, half |-> half]

\* One startup writer of one chunk.
StartupSetups == {Setup("kDefault", [w \in {w1} |-> 1], 0, Callbacks, FALSE, 2)}

\* A writer that patches its chunks, in every mode; and two writers that fill the
\* buffer from two threads.
PatchesSetups ==
    {Setup(m, [w \in {w1} |-> 2], 2, Callbacks, FALSE, 3) :
        m \in {"kDefault", "kShmemEmulation", "scraping"}}
        \cup {Setup("kDefault", [w \in {w1, w2} |-> IF w = w1 THEN 1 ELSE 2], 0, {}, TRUE, 1)}
=============================================================================
