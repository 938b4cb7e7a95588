--------------------------- MODULE SharedMemoryABI ---------------------------
(***************************************************************************)
(* The lock-free protocol by which the threads of one producer process and *)
(* the tracing service share the chunks of a shared memory buffer (SMB).   *)
(*                                                                         *)
(* Every page starts with one 32-bit word, header_bitmap, that holds the   *)
(* page layout and two state bits for each chunk.  The word is only ever   *)
(* changed as a whole, by compare-and-swap against a value loaded earlier, *)
(* so a thread that changes the state of its chunk rewrites the bits of    *)
(* all the neighbours too.  Chunk headers (writer_id, chunk_id, packets)   *)
(* are separate atomics, stored after the word says kChunkBeingWritten.    *)
(*                                                                         *)
(* One action is one atomic access: a load, a compare-and-swap or a store. *)
(* A "writer" here is the user of at most one chunk of the producer; a     *)
(* TraceWriterImpl that holds the old and the new chunk while a packet     *)
(* crosses them is two of them.  No lock is modelled: the properties below *)
(* do not depend on SharedMemoryArbiterImpl::lock_.                        *)
(***************************************************************************)
EXTENDS Integers

CONSTANTS
    NumPages,             \* num_pages_
    NumChunks,            \* kNumChunksForLayout[default_page_layout]
    Writers,              \* users of a chunk in the producer process
    Service,              \* the thread that consumes and frees chunks
    NoWriter,             \* writer_id 0, what zeroed memory reads as
    kMaxChunkID,          \* chunk ids wrap around after this one
    kMaxPacketsPerChunk,  \* bound on the packets of one chunk
    kRetryAttempts        \* compare-and-swap attempts before giving up

ASSUME ConstantsAssumption ==
    /\ NumPages \in Nat \ {0}
    /\ NumChunks \in Nat \ {0}
    /\ kMaxChunkID \in Nat
    /\ kMaxPacketsPerChunk \in Nat \ {0}
    /\ kRetryAttempts \in Nat \ {0}

ASSUME ActorsAssumption ==
    /\ Service \notin Writers
    /\ NoWriter \notin Writers

Pages  == 0 .. NumPages - 1
Slots  == 0 .. NumChunks - 1
Chunks == Pages \X Slots
Actors == Writers \cup {Service}

(***************************************************************************)
(* The page header word.                                                   *)
(***************************************************************************)
ChunkState ==
    {"kChunkFree", "kChunkBeingWritten", "kChunkBeingRead", "kChunkComplete"}

HeaderBitmap == [partitioned : BOOLEAN, state : [Slots -> ChunkState]]

AllChunksFree == [i \in Slots |-> "kChunkFree"]

\* The word 0: no layout, and all the chunk bits zero.
FreePage == [partitioned |-> FALSE, state |-> AllChunksFree]

\* The layout in place, and all the chunk bits zero.
PartitionedPage == [partitioned |-> TRUE, state |-> AllChunksFree]

VARIABLES
    header_bitmap,  \* page -> header word
    writer_id,      \* chunk -> ChunkHeader::writer_id in shared memory
    chunk_id,       \* chunk -> ChunkHeader::chunk_id
    packets,        \* chunk -> ChunkHeader::packets, the count
    written,        \* chunk -> packets whose payload and size are in memory
    lease,          \* chunk -> who acquired it last, for which chunk id (ghost)
    next_chunk_id,  \* writer -> TraceWriterImpl::next_chunk_id_
    pc,             \* actor -> the next atomic access it makes
    at,             \* actor -> the chunk it works on
    seen,           \* actor -> the header word it loaded
    attempt,        \* actor -> compare-and-swap attempts that failed
    unstored        \* writer -> id fields of its header not yet stored

header == <<writer_id, chunk_id, packets>>
shared == <<header_bitmap, header, written, lease>>
local  == <<next_chunk_id, pc, at, seen, attempt, unstored>>
vars   == <<shared, local>>

IdFields == {"writer_id", "chunk_id"}
NoChunk  == <<0, 0>>

WriterPC ==
    {"idle", "acquire_load", "acquire_cas", "store_header", "writing",
     "release_load", "release_cas", "gave_up", "crashed"}

ServicePC ==
    {"idle", "acquire_load", "acquire_cas", "reading", "clear_header",
     "release_load", "release_cas", "crashed",
     "scrape_page", "scrape_chunk", "scrape_copy"}

TypeOK ==
    /\ header_bitmap \in [Pages -> HeaderBitmap]
    /\ writer_id \in [Chunks -> Writers \cup {NoWriter}]
    /\ chunk_id \in [Chunks -> 0 .. kMaxChunkID]
    /\ packets \in [Chunks -> Nat]
    /\ written \in [Chunks -> Nat]
    /\ lease \in [Chunks -> [writer_id : Writers \cup {NoWriter},
                             chunk_id  : 0 .. kMaxChunkID]]
    /\ next_chunk_id \in [Writers -> 0 .. kMaxChunkID]
    /\ pc \in [Actors -> WriterPC \cup ServicePC]
    /\ \A w \in Writers : pc[w] \in WriterPC
    /\ pc[Service] \in ServicePC
    /\ at \in [Actors -> Chunks]
    /\ seen \in [Actors -> HeaderBitmap]
    /\ attempt \in [Actors -> 0 .. kRetryAttempts - 1]
    /\ unstored \in [Writers -> SUBSET IdFields]

Init ==
    /\ header_bitmap = [p \in Pages |-> FreePage]
    /\ writer_id = [c \in Chunks |-> NoWriter]
    /\ chunk_id = [c \in Chunks |-> 0]
    /\ packets = [c \in Chunks |-> 0]
    /\ written = [c \in Chunks |-> 0]
    /\ lease = [c \in Chunks |-> [writer_id |-> NoWriter, chunk_id |-> 0]]
    /\ next_chunk_id = [w \in Writers |-> 0]
    /\ pc = [a \in Actors |-> "idle"]
    /\ at = [a \in Actors |-> NoChunk]
    /\ seen = [a \in Actors |-> FreePage]
    /\ attempt = [a \in Actors |-> 0]
    /\ unstored = [w \in Writers |-> {}]

-----------------------------------------------------------------------------
(***************************************************************************)
(* Helpers on the header word.                                             *)
(***************************************************************************)
GetChunkState(c) == header_bitmap[c[1]].state[c[2]]

\* Mutant: the bits of the other chunks are lost.
WithStateAlone(word, i, s) ==
    [partitioned |-> word.partitioned, state |-> [AllChunksFree EXCEPT ![i] = s]]

WithState(word, i, s) ==
    [partitioned |-> word.partitioned, state |-> [word.state EXCEPT ![i] = s]]

\* The state a chunk must be in for actor a to acquire it, and the one the
\* compare-and-swap puts it in.
AcquireFrom(a) == IF a = Service THEN "kChunkComplete" ELSE "kChunkFree"
AcquireInto(a) == IF a = Service THEN "kChunkBeingRead" ELSE "kChunkBeingWritten"

\* The same for ReleaseChunk (ShmemMode::kDefault).
ReleaseFrom(a) == AcquireInto(a)
ReleaseInto(a) == IF a = Service THEN "kChunkFree" ELSE "kChunkComplete"

\* Mutant: a page is de-partitioned although other chunks are in use.
ReleasedWordAlways(word, i, s) ==
    IF s = "kChunkFree" THEN FreePage ELSE WithState(word, i, s)

\* The word ReleaseChunk swaps in: a page whose chunks are all free loses its
\* layout in the same step.
ReleasedWord(word, i, s) ==
    LET next == WithState(word, i, s)
    IN  IF next.state = AllChunksFree THEN FreePage ELSE next

\* Leaving an operation: nothing an actor loaded survives it.
Return(a, label) ==
    /\ pc' = [pc EXCEPT ![a] = label]
    /\ seen' = [seen EXCEPT ![a] = FreePage]
    /\ attempt' = [attempt EXCEPT ![a] = 0]

\* Mutant: one attempt too many.
RetryOnceMore(a, load, giveup) ==
    IF attempt[a] < kRetryAttempts
    THEN /\ pc' = [pc EXCEPT ![a] = load]
         /\ seen' = [seen EXCEPT ![a] = FreePage]
         /\ attempt' = [attempt EXCEPT ![a] = @ + 1]
    ELSE Return(a, giveup)

\* A compare-and-swap that failed: back to the load, or give up.
Retry(a, load, giveup) ==
    IF attempt[a] + 1 < kRetryAttempts
    THEN /\ pc' = [pc EXCEPT ![a] = load]
         /\ seen' = [seen EXCEPT ![a] = FreePage]
         /\ attempt' = [attempt EXCEPT ![a] = @ + 1]
    ELSE Return(a, giveup)

-----------------------------------------------------------------------------
(***************************************************************************)
(* TryPartitionPage: a compare-and-swap from 0, with no load before it.    *)
(* When it fails nothing changes.                                          *)
(***************************************************************************)
TryPartitionPage(w, p) ==
    /\ pc[w] = "idle"
    /\ header_bitmap[p] = FreePage
    /\ header_bitmap' = [header_bitmap EXCEPT ![p] = PartitionedPage]
    /\ UNCHANGED <<header, written, lease, local>>

(***************************************************************************)
(* TryAcquireChunk, for writing (writers) and for reading (the service).   *)
(***************************************************************************)
TryAcquireChunk(a, c) ==
    /\ pc[a] = "idle"
    /\ pc' = [pc EXCEPT ![a] = "acquire_load"]
    /\ at' = [at EXCEPT ![a] = c]
    /\ UNCHANGED <<shared, next_chunk_id, seen, attempt, unstored>>

AcquireLoad(a) ==
    LET word == header_bitmap[at[a][1]]
    IN  /\ pc[a] = "acquire_load"
        /\ IF word.partitioned /\ word.state[at[a][2]] = AcquireFrom(a)
           THEN /\ pc' = [pc EXCEPT ![a] = "acquire_cas"]
                /\ seen' = [seen EXCEPT ![a] = word]
                /\ UNCHANGED <<at, attempt>>
           ELSE /\ Return(a, "idle")
                /\ at' = [at EXCEPT ![a] = NoChunk]
        /\ UNCHANGED <<shared, next_chunk_id, unstored>>

AcquireCas(a) ==
    LET c == at[a]
        p == c[1]
    IN  /\ pc[a] = "acquire_cas"
        /\ header_bitmap[p] = seen[a]
        /\ header_bitmap' =
               [header_bitmap EXCEPT ![p] = WithState(seen[a], c[2], AcquireInto(a))]
        /\ IF a = Service
           THEN /\ Return(a, "reading")
                /\ UNCHANGED <<written, lease, next_chunk_id, unstored>>
           ELSE /\ Return(a, "store_header")
                /\ unstored' = [unstored EXCEPT ![a] = IdFields]
                /\ written' = [written EXCEPT ![c] = 0]
                /\ lease' = [lease EXCEPT ![c] =
                       [writer_id |-> a, chunk_id |-> next_chunk_id[a]]]
                /\ next_chunk_id' =
                       [next_chunk_id EXCEPT ![a] = (@ + 1) % (kMaxChunkID + 1)]
        /\ UNCHANGED <<header, at>>

AcquireCasFails(a) ==
    /\ pc[a] = "acquire_cas"
    /\ header_bitmap[at[a][1]] # seen[a]
    /\ Retry(a, "acquire_load", "idle")
    /\ at' = [at EXCEPT ![a] = IF pc'[a] = "idle" THEN NoChunk ELSE @]
    /\ UNCHANGED <<shared, next_chunk_id, unstored>>

(***************************************************************************)
(* The header stores that follow a successful acquisition for writing.     *)
(* The two ids are relaxed stores and become visible in either order; the  *)
(* release store of packets comes after both.  The packet count starts at  *)
(* 1 when the chunk continues a fragmented packet, and at 0 otherwise.     *)
(***************************************************************************)
StoreWriterId(w) ==
    /\ pc[w] = "store_header"
    /\ "writer_id" \in unstored[w]
    /\ writer_id' = [writer_id EXCEPT ![at[w]] = lease[at[w]].writer_id]
    /\ unstored' = [unstored EXCEPT ![w] = @ \ {"writer_id"}]
    /\ UNCHANGED <<header_bitmap, chunk_id, packets, written, lease,
                   next_chunk_id, pc, at, seen, attempt>>

StoreChunkId(w) ==
    /\ pc[w] = "store_header"
    /\ "chunk_id" \in unstored[w]
    /\ chunk_id' = [chunk_id EXCEPT ![at[w]] = lease[at[w]].chunk_id]
    /\ unstored' = [unstored EXCEPT ![w] = @ \ {"chunk_id"}]
    /\ UNCHANGED <<header_bitmap, writer_id, packets, written, lease,
                   next_chunk_id, pc, at, seen, attempt>>

StorePackets(w, count) ==
    /\ pc[w] = "store_header"
    /\ unstored[w] = {}
    /\ packets' = [packets EXCEPT ![at[w]] = count]
    /\ pc' = [pc EXCEPT ![w] = "writing"]
    /\ UNCHANGED <<header_bitmap, writer_id, chunk_id, written, lease,
                   next_chunk_id, at, seen, attempt, unstored>>

(***************************************************************************)
(* Use of the chunk by its writer: the payload of a packet is in memory    *)
(* before the packet count moves past it.                                  *)
(***************************************************************************)
IncrementPacketCount(w) ==
    /\ pc[w] = "writing"
    /\ packets[at[w]] = written[at[w]]
    /\ packets[at[w]] < kMaxPacketsPerChunk
    /\ packets' = [packets EXCEPT ![at[w]] = @ + 1]
    /\ UNCHANGED <<header_bitmap, writer_id, chunk_id, written, lease, local>>

FinishPacket(w) ==
    /\ pc[w] = "writing"
    /\ written[at[w]] < packets[at[w]]
    /\ written' = [written EXCEPT ![at[w]] = @ + 1]
    /\ UNCHANGED <<header_bitmap, header, lease, local>>

(***************************************************************************)
(* ReleaseChunk.  Freeing clears the header first.  A chunk that is not in *)
(* the expected state, or a page without the layout, fails a CHECK.        *)
(***************************************************************************)
\* Mutant: the last packet is not finished.
ReleaseUnfinishedChunk(w) ==
    /\ pc[w] = "writing"
    /\ pc' = [pc EXCEPT ![w] = "release_load"]
    /\ UNCHANGED <<shared, next_chunk_id, at, seen, attempt, unstored>>

ReleaseChunkAsComplete(w) ==
    /\ pc[w] = "writing"
    /\ written[at[w]] = packets[at[w]]
    /\ pc' = [pc EXCEPT ![w] = "release_load"]
    /\ UNCHANGED <<shared, next_chunk_id, at, seen, attempt, unstored>>

ReleaseChunkAsFree ==
    /\ pc[Service] = "reading"
    /\ pc' = [pc EXCEPT ![Service] = "clear_header"]
    /\ UNCHANGED <<shared, next_chunk_id, at, seen, attempt, unstored>>

\* Mutant: the header keeps the packet count of the chunk's last user.
ClearOnlyIds ==
    /\ pc[Service] = "clear_header"
    /\ writer_id' = [writer_id EXCEPT ![at[Service]] = NoWriter]
    /\ chunk_id' = [chunk_id EXCEPT ![at[Service]] = 0]
    /\ pc' = [pc EXCEPT ![Service] = "release_load"]
    /\ UNCHANGED <<header_bitmap, packets, written, lease, next_chunk_id, at, seen, attempt, unstored>>

\* The three stores as one step: while the chunk is the service's no other
\* thread reads its header.
ClearChunkHeader ==
    /\ pc[Service] = "clear_header"
    /\ writer_id' = [writer_id EXCEPT ![at[Service]] = NoWriter]
    /\ chunk_id' = [chunk_id EXCEPT ![at[Service]] = 0]
    /\ packets' = [packets EXCEPT ![at[Service]] = 0]
    /\ pc' = [pc EXCEPT ![Service] = "release_load"]
    /\ UNCHANGED <<header_bitmap, written, lease, next_chunk_id, at, seen, attempt, unstored>>

ReleaseLoad(a) ==
    LET word == header_bitmap[at[a][1]]
    IN  /\ pc[a] = "release_load"
        /\ IF word.partitioned /\ word.state[at[a][2]] = ReleaseFrom(a)
           THEN /\ pc' = [pc EXCEPT ![a] = "release_cas"]
                /\ seen' = [seen EXCEPT ![a] = word]
                /\ UNCHANGED attempt
           ELSE Return(a, "crashed")
        /\ UNCHANGED <<shared, next_chunk_id, at, unstored>>

\* Mutant: a plain store of the new word.
ReleaseByStore(a) ==
    LET c == at[a]
    IN  /\ pc[a] = "release_cas"
        /\ header_bitmap' = [header_bitmap EXCEPT ![c[1]] =
               ReleasedWord(seen[a], c[2], ReleaseInto(a))]
        /\ Return(a, "idle")
        /\ at' = [at EXCEPT ![a] = NoChunk]
        /\ UNCHANGED <<header, written, lease, next_chunk_id, unstored>>

ReleaseCas(a) ==
    LET c == at[a]
    IN  /\ pc[a] = "release_cas"
        /\ header_bitmap[c[1]] = seen[a]
        /\ header_bitmap' = [header_bitmap EXCEPT ![c[1]] =
               ReleasedWord(seen[a], c[2], ReleaseInto(a))]
        /\ Return(a, "idle")
        /\ at' = [at EXCEPT ![a] = NoChunk]
        /\ UNCHANGED <<header, written, lease, next_chunk_id, unstored>>

\* A writer that gives up can go on with other chunks; for the model it stays
\* where it is, which keeps its chunk out of use as the code does.
ReleaseCasFails(a) ==
    /\ pc[a] = "release_cas"
    /\ header_bitmap[at[a][1]] # seen[a]
    /\ Retry(a, "release_load", IF a = Service THEN "idle" ELSE "gave_up")
    /\ at' = [at EXCEPT ![a] = IF pc'[a] = "idle" THEN NoChunk ELSE @]
    /\ UNCHANGED <<shared, next_chunk_id, unstored>>

(***************************************************************************)
(* ForEachScrapableChunk: for each page one load of the word, then for     *)
(* each chunk the word says is used a load of packets and, when the chunk  *)
(* is complete or has at least two packets, a copy of header and payload.  *)
(***************************************************************************)
BeginScrape ==
    /\ pc[Service] = "idle"
    /\ pc' = [pc EXCEPT ![Service] = "scrape_page"]
    /\ at' = [at EXCEPT ![Service] = <<0, 0>>]
    /\ UNCHANGED <<shared, next_chunk_id, seen, attempt, unstored>>

ScrapePage ==
    /\ pc[Service] = "scrape_page"
    /\ pc' = [pc EXCEPT ![Service] = "scrape_chunk"]
    /\ seen' = [seen EXCEPT ![Service] = header_bitmap[at[Service][1]]]
    /\ UNCHANGED <<shared, next_chunk_id, at, attempt, unstored>>

\* On to the next chunk of the page, or to the next page, or done.
NextScrapable ==
    LET p == at[Service][1]
        i == at[Service][2]
    IN  CASE i + 1 < NumChunks ->
               /\ pc' = [pc EXCEPT ![Service] = "scrape_chunk"]
               /\ at' = [at EXCEPT ![Service] = <<p, i + 1>>]
               /\ UNCHANGED seen
          [] i + 1 >= NumChunks /\ p + 1 < NumPages ->
               /\ pc' = [pc EXCEPT ![Service] = "scrape_page"]
               /\ at' = [at EXCEPT ![Service] = <<p + 1, 0>>]
               /\ seen' = [seen EXCEPT ![Service] = FreePage]
          [] OTHER ->
               /\ pc' = [pc EXCEPT ![Service] = "idle"]
               /\ at' = [at EXCEPT ![Service] = NoChunk]
               /\ seen' = [seen EXCEPT ![Service] = FreePage]

IsScrapable(state, count) ==
    \/ state = "kChunkComplete"
    \/ state # "kChunkFree" /\ count >= 2

ScrapeChunk ==
    LET c == at[Service]
    IN  /\ pc[Service] = "scrape_chunk"
        /\ IF IsScrapable(seen[Service].state[c[2]], packets[c])
           THEN /\ pc' = [pc EXCEPT ![Service] = "scrape_copy"]
                /\ UNCHANGED <<at, seen>>
           ELSE NextScrapable
        /\ UNCHANGED <<shared, next_chunk_id, attempt, unstored>>

ScrapeCopy ==
    /\ pc[Service] = "scrape_copy"
    /\ NextScrapable
    /\ UNCHANGED <<shared, next_chunk_id, attempt, unstored>>

-----------------------------------------------------------------------------
\* The accesses to the header words, the same for writers and the service.
WordStep(a) ==
    \/ \E c \in Chunks : TryAcquireChunk(a, c)
    \/ AcquireLoad(a)
    \/ AcquireCas(a)
    \/ AcquireCasFails(a)
    \/ ReleaseLoad(a)
    \/ ReleaseCas(a)
    \/ ReleaseCasFails(a)

WriterStep(w) ==
    \/ \E p \in Pages : TryPartitionPage(w, p)
    \/ StoreWriterId(w)
    \/ StoreChunkId(w)
    \/ \E n \in {0, 1} : StorePackets(w, n)
    \/ IncrementPacketCount(w)
    \/ FinishPacket(w)
    \/ ReleaseChunkAsComplete(w)

ServiceStep ==
    \/ ReleaseChunkAsFree
    \/ ClearChunkHeader
    \/ BeginScrape
    \/ ScrapePage
    \/ ScrapeChunk
    \/ ScrapeCopy

Next ==
    \/ \E a \in Actors : WordStep(a)
    \/ \E w \in Writers : WriterStep(w)
    \/ ServiceStep

Spec == Init /\ [][Next]_vars
-----------------------------------------------------------------------------
(***************************************************************************)
(* Properties.                                                             *)
(***************************************************************************)
\* The actor has successfully acquired the chunk at[a] and not released it.
Holds(a) ==
    pc[a] \in {"store_header", "writing", "reading", "clear_header",
               "release_load", "release_cas", "gave_up"}

\* No two actors own the same chunk, whatever the interleaving of loads and
\* compare-and-swaps on the words (TryAcquireChunk, ReleaseChunk).
ExclusiveOwnership ==
    \A a, b \in Actors : Holds(a) /\ Holds(b) /\ at[a] = at[b] => a = b

\* The state of an owned chunk is the one its owner put it in, so no CHECK of
\* ReleaseChunk fails: a neighbour's swap never rolls it back, and the page
\* is not de-partitioned under a chunk in use.
OwnedChunkInOwnersState ==
    \A a \in Actors :
        Holds(a) => /\ header_bitmap[at[a][1]].partitioned
                    /\ GetChunkState(at[a]) = AcquireInto(a)

\* PERFETTO_CHECK(chunk.size() == page_chunk_size) and PERFETTO_CHECK(
\* chunk_state == expected_chunk_state) in ReleaseChunk hold between sane
\* producers and the service.
NoCheckFailure == \A a \in Actors : pc[a] # "crashed"

\* The page loses its layout exactly when its last used chunk is freed: a
\* page without layout has no used chunk ("de-partition the page").
NoLayoutNoChunks ==
    \A p \in Pages : ~header_bitmap[p].partitioned => header_bitmap[p] = FreePage

\* A value loaded from the word and accepted still fits the operation when it
\* is compared: the swap is computed from a word that allowed it.
SeenAllowsSwap ==
    \A a \in Actors :
        /\ pc[a] = "acquire_cas" => /\ seen[a].partitioned
                                    /\ seen[a].state[at[a][2]] = AcquireFrom(a)
        /\ pc[a] = "release_cas" => /\ seen[a].partitioned
                                    /\ seen[a].state[at[a][2]] = ReleaseFrom(a)

\* The inductive invariant behind ExclusiveOwnership and NoCheckFailure.
OwnershipInv ==
    /\ ExclusiveOwnership
    /\ OwnedChunkInOwnersState
    /\ NoLayoutNoChunks
    /\ NoCheckFailure
    /\ SeenAllowsSwap

\* ForEachScrapableChunk: "it is safe to access the remaining header fields
\* of the chunk": what the service is about to copy while scraping carries
\* the writer and chunk id of the lease in force, never those of the chunk's
\* previous user, and the packets it will rely on (all but the last one
\* while the chunk is being written) are completely written.
ScrapedHeaderIsCurrent ==
    pc[Service] = "scrape_copy" =>
        LET c == at[Service]
        IN  /\ writer_id[c] = lease[c].writer_id
            /\ chunk_id[c] = lease[c].chunk_id
            /\ packets[c] - 1 <= written[c]

\* CommitData copies, for a chunk it acquired for reading, the header of the
\* writer that completed it and only packets that were completely written.
ReadChunkIsWhole ==
    pc[Service] = "reading" =>
        LET c == at[Service]
        IN  /\ writer_id[c] = lease[c].writer_id
            /\ chunk_id[c] = lease[c].chunk_id
            /\ packets[c] = written[c]

\* The ids in the header of c are those of its last user.
IdsCurrent(c) ==
    /\ writer_id[c] = lease[c].writer_id
    /\ chunk_id[c] = lease[c].chunk_id

\* What the header of a chunk holds, by the state of the chunk: nothing before
\* its user has stored it ("reset to 0 by the service when the chunk was
\* freed"), all of it once the chunk is complete.
HeaderFitsState ==
    \A c \in Chunks :
        LET state == GetChunkState(c)
        IN  /\ state = "kChunkFree" => packets[c] = 0
            /\ state = "kChunkBeingWritten" =>
                  \E w \in Writers : Holds(w) /\ at[w] = c
            /\ state = "kChunkComplete" => IdsCurrent(c) /\ packets[c] = written[c]
            /\ state = "kChunkBeingRead" =>
                  packets[c] = 0 \/ (pc[Service] \in {"reading", "clear_header"} /\ at[Service] = c)

\* What the header of a chunk holds, by where its user is.
HeaderFitsUser ==
    /\ \A w \in Writers :
          LET c == at[w]
          IN  /\ pc[w] = "store_header" =>
                    /\ packets[c] = 0 /\ written[c] = 0
                    /\ "writer_id" \notin unstored[w] => writer_id[c] = lease[c].writer_id
                    /\ "chunk_id" \notin unstored[w] => chunk_id[c] = lease[c].chunk_id
              /\ pc[w] \in {"writing", "release_load", "release_cas", "gave_up"} => IdsCurrent(c)
              /\ pc[w] = "writing" => packets[c] \in written[c] .. written[c] + 1
              /\ pc[w] \in {"release_load", "release_cas", "gave_up"} => packets[c] = written[c]
    /\ LET c == at[Service]
       IN  /\ pc[Service] \in {"reading", "clear_header"} =>
                 IdsCurrent(c) /\ packets[c] = written[c]
           /\ pc[Service] \in {"release_load", "release_cas"} => packets[c] = 0

\* While the service scrapes a page, the chunks it saw used stay used: only
\* writers move them on, and they cannot free them.
ScrapeViewHolds ==
    LET c == at[Service]
    IN  /\ pc[Service] \in {"scrape_chunk", "scrape_copy"} =>
              \A i \in Slots :
                  LET was == seen[Service].state[i]
                      now == header_bitmap[c[1]].state[i]
                  IN  /\ was = "kChunkComplete" => now = "kChunkComplete"
                      /\ was = "kChunkBeingRead" => now = "kChunkBeingRead"
                      /\ was = "kChunkBeingWritten" =>
                             now \in {"kChunkBeingWritten", "kChunkComplete"}
        /\ pc[Service] = "scrape_copy" =>
              \/ GetChunkState(c) = "kChunkComplete"
              \/ GetChunkState(c) = "kChunkBeingWritten" /\ packets[c] >= 2

\* The inductive invariant behind ScrapedHeaderIsCurrent and ReadChunkIsWhole.
HeaderInv == HeaderFitsState /\ HeaderFitsUser /\ ScrapeViewHolds

\* ScrapeSharedMemoryBuffers: the word of a page changes one chunk at a time
\* and only along Free -> BeingWritten -> Complete -> BeingRead -> Free, so
\* the legitimate mutations the service meets are the ones it lists (A, B, C)
\* and a whole-word swap never takes back a neighbour's transition.
LegalTransition ==
    {<<"kChunkFree", "kChunkBeingWritten">>, <<"kChunkBeingWritten", "kChunkComplete">>,
     <<"kChunkComplete", "kChunkBeingRead">>, <<"kChunkBeingRead", "kChunkFree">>}

OneTransition ==
    \A p \in Pages :
        header_bitmap'[p].state # header_bitmap[p].state =>
            \E i \in Slots :
                /\ <<header_bitmap[p].state[i], header_bitmap'[p].state[i]>> \in LegalTransition
                /\ \A j \in Slots \ {i} : header_bitmap'[p].state[j] = header_bitmap[p].state[j]

\* The same of every step.
OneTransitionAtATime == [][OneTransition]_vars
=============================================================================
