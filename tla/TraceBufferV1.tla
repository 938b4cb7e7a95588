---------------------------- MODULE TraceBufferV1 ----------------------------
(***************************************************************************)
(* The ring buffer in which the tracing service keeps the chunks it copies *)
(* out of the producers' shared memory, and from which a consumer reads    *)
(* packets.                                                                *)
(*                                                                         *)
(* Chunks come in by commit, in the order a writer returned them, and by   *)
(* scraping, in the order of their place in shared memory and possibly     *)
(* before they are complete.  Records tile the ring; a new record deletes  *)
(* what it covers and leaves padding up to the next one.  An index, sorted *)
(* by writer and chunk id, serves rewriting, patching and reading.  Chunk  *)
(* ids wrap.                                                               *)
(*                                                                         *)
(* The service runs on one thread, so a call into the buffer is one action *)
(* except for ReadNextTracePacket, whose loops are taken step by step.     *)
(* Payload is abstracted: a record remembers which chunk of its writer it  *)
(* holds (its number, counted from 1 and never wrapping) and how many size *)
(* fields are still missing from it.  Packets of a writer are numbered.    *)
(***************************************************************************)
EXTENDS Integers, Sequences, FiniteSets, FiniteSetsExt

CONSTANTS
    Writers,       \* writer ids, ordered as the keys of index_ are
    Size,          \* size_ of the buffer, in units of sizeof(ChunkRecord)
    RecordSize,    \* writer -> record size of its chunks, in the same unit
    kMaxChunkID,   \* chunk ids wrap around after this one
    Policies,      \* the policies with which the buffer may be created
    Scraping,      \* whether the service scrapes this producer
    Drops,         \* whether writers may abandon a packet half way (kDrop)
    Loads          \* the loads that the writers may produce: bounds on the chunks of
                   \* each writer, on the fragments of a chunk and on the size fields
                   \* missing from it

ASSUME BufferAssumption ==
    /\ Writers \subseteq Nat \ {0}
    /\ Size \in Nat \ {0}
    /\ RecordSize \in [Writers -> 1 .. Size]
    /\ kMaxChunkID \in Nat /\ kMaxChunkID \div 2 > 1
    /\ Policies \subseteq {"kOverwrite", "kDiscard"}
    /\ {Scraping, Drops} \subseteq BOOLEAN
    /\ Loads \subseteq [chunks : [Writers -> Nat], fragments : Nat, patches : Nat]

ChunkID == 0 .. kMaxChunkID
Key     == Writers \X ChunkID

\* The chunk id of the k-th chunk of a writer, and the id after c.
Id(k) == (k - 1) % (kMaxChunkID + 1)

NextId(c) == (c + 1) % (kMaxChunkID + 1)

\* The flags of a chunk header, as a set.
First == "kFirstPacketContinuesFromPrevChunk"
Last  == "kLastPacketContinuesOnNextChunk"
Holes == "kChunkNeedsPatching"

VARIABLES
    overwrite_policy_,
    load,                    \* the one of Loads that is produced
    smb,                     \* writer -> its chunks so far, in shared memory
    sweep,                   \* the scraping pass under way
    data_,                   \* offset of a record -> record
    wptr_,
    index_,                  \* key -> ChunkMeta
    last_chunk_id_written_,
    discard_writes_,
    abi_violations,          \* whether CopyChunkUntrusted found an ABI violation
    read_pc,                 \* where ReadNextTracePacket is
    read_iter_,
    previous_packet_dropped,
    returned,                \* what the last ReadNextTracePacket returned
    consumed,                \* writer -> last packet returned (ghost)
    reached,                 \* writer -> last chunk read from (ghost)
    late                     \* writers with data stored behind the reader (ghost)

ring   == <<data_, wptr_, index_, last_chunk_id_written_, discard_writes_,
            abi_violations>>
reader == <<read_pc, read_iter_, previous_packet_dropped, returned>>
ghost  == <<consumed, reached, late>>
vars   == <<overwrite_policy_, load, smb, sweep, ring, reader, ghost>>

NoPacket == [writer |-> 0, slices |-> << >>, dropped |-> FALSE, before |-> 0]
End      == kMaxChunkID + 1
NoIter   == [seq |-> 0, cur |-> End]
NoSweep  == [active |-> FALSE, todo |-> {}]

Init ==
    /\ overwrite_policy_ \in Policies
    /\ load \in Loads
    /\ smb = [w \in Writers |-> << >>]
    /\ sweep = NoSweep
    /\ data_ = << >>
    /\ wptr_ = 0
    /\ index_ = << >>
    /\ last_chunk_id_written_ = [w \in Writers |-> 0]
    /\ discard_writes_ = FALSE
    /\ abi_violations = FALSE
    /\ read_pc = "idle"
    /\ read_iter_ = NoIter
    /\ previous_packet_dropped = FALSE
    /\ returned = NoPacket
    /\ consumed = [w \in Writers |-> 0]
    /\ reached = [w \in Writers |-> 0]
    /\ late = {}

-----------------------------------------------------------------------------
(***************************************************************************)
(* The writers: what TraceWriterImpl leaves in shared memory.              *)
(***************************************************************************)
\* A chunk: the packet its first fragment belongs to, the packet count of its
\* header, whether the count runs one ahead (inflated while the chunk is open,
\* an empty last fragment once it is complete), its flags, whether the last
\* fragment is marked kPacketSizeDropPacket, the missing size fields, and how
\* many of them are still to be sent.
NewChunk(first, from) ==
    [first |-> first, n |-> 1, extra |-> FALSE, from |-> from, on |-> FALSE,
     bad |-> FALSE, holes |-> 0, unsent |-> 0, state |-> "open"]

\* The last packet with a fragment in chunk c.
LastPacket(c) == IF c.extra THEN c.first + c.n - 2 ELSE c.first + c.n - 1

NextPacket(w) ==
    IF smb[w] = << >> THEN 1 ELSE LastPacket(smb[w][Len(smb[w])]) + 1

HasOpenChunk(w) == smb[w] # << >> /\ smb[w][Len(smb[w])].state = "open"
Current(w)      == smb[w][Len(smb[w])]

\* Writers and the reader share nothing, so writers rest during a read.
WriterMayRun(w) == read_pc = "idle"

\* A chunk taken during a sweep may or may not lie where the sweep still goes.
JoinSweep(w, k) ==
    \/ UNCHANGED sweep
    \/ /\ sweep.active
       /\ sweep' = [sweep EXCEPT !.todo = @ \cup {[writer |-> w, chunk |-> k, open |-> TRUE]}]

NewTracePacket(w) ==
    /\ WriterMayRun(w)
    /\ \/ /\ HasOpenChunk(w) /\ Current(w).extra
          /\ smb' = [smb EXCEPT ![w][Len(smb[w])].extra = FALSE]
          /\ UNCHANGED sweep
       \/ /\ ~HasOpenChunk(w)
          /\ Len(smb[w]) < load.chunks[w]
          /\ smb' = [smb EXCEPT ![w] = Append(@, NewChunk(NextPacket(w), FALSE))]
          /\ JoinSweep(w, Len(smb[w]) + 1)
    /\ UNCHANGED <<ring, reader, ghost>>

\* The packet count runs one ahead, so that the packet can be scraped; without
\* room for that the chunk is returned.
FinishTracePacket(w) ==
    /\ WriterMayRun(w)
    /\ HasOpenChunk(w) /\ ~Current(w).extra
    /\ \/ /\ Current(w).n < load.fragments
          /\ smb' = [smb EXCEPT ![w][Len(smb[w])].n = @ + 1,
                                ![w][Len(smb[w])].extra = TRUE]
       \/ smb' = [smb EXCEPT ![w][Len(smb[w])].state = "complete"]
    /\ UNCHANGED <<sweep, ring, reader, ghost>>

\* Between packets, on a flush or for want of room for another packet.  The
\* inflated count is backed by an empty packet.
ReturnCompletedChunk(w) ==
    /\ WriterMayRun(w)
    /\ HasOpenChunk(w) /\ Current(w).extra
    /\ smb' = [smb EXCEPT ![w][Len(smb[w])].state = "complete"]
    /\ UNCHANGED <<sweep, ring, reader, ghost>>

\* A packet outgrows its chunk, with h nested messages whose size is unknown.
\* The new chunk is not scraped before the old one is returned: it takes a
\* second packet.
GetNewBuffer(w, h) ==
    LET k == Len(smb[w])
        c == [Current(w) EXCEPT !.state = "complete", !.on = TRUE, !.holes = h, !.unsent = h]
    IN  /\ WriterMayRun(w)
        /\ HasOpenChunk(w) /\ ~Current(w).extra
        /\ k < load.chunks[w]
        /\ smb' = [smb EXCEPT ![w] = Append([@ EXCEPT ![k] = c],
                                            NewChunk(LastPacket(Current(w)), TRUE))]
        /\ JoinSweep(w, k + 1)
        /\ UNCHANGED <<ring, reader, ghost>>

\* The same, but there is no free chunk: the packet is given up.
GetNewBufferDrops(w) ==
    /\ Drops
    /\ WriterMayRun(w)
    /\ HasOpenChunk(w) /\ ~Current(w).extra
    /\ smb' = [smb EXCEPT ![w][Len(smb[w])].state = "complete",
                          ![w][Len(smb[w])].bad = TRUE]
    /\ UNCHANGED <<sweep, ring, reader, ghost>>

WriterStep(w) ==
    \/ NewTracePacket(w)
    \/ FinishTracePacket(w)
    \/ ReturnCompletedChunk(w)
    \/ \E h \in 0 .. load.patches : GetNewBuffer(w, h)
    \/ GetNewBufferDrops(w)

-----------------------------------------------------------------------------
(***************************************************************************)
(* The ring.  Offsets without a record belong to the zeroed end of the     *)
(* buffer or to the payload of a record.                                   *)
(***************************************************************************)
Padding(s) == [size |-> s, is_padding |-> TRUE]

\* The records that begin in [o, o + n): those the walk of DeleteNextChunksFor
\* visits, as the records follow one another (SelfDescribing).
Starts(d, o, n) == {x \in DOMAIN d : o <= x /\ x < o + n}

\* WriteChunkRecord: the record replaces every record that began under it.
WriteChunkRecord(d, o, rec) ==
    [x \in (DOMAIN d \ Starts(d, o, rec.size)) \cup {o} |-> IF x = o THEN rec ELSE d[x]]

Unread(meta) == meta.num_fragments_read < meta.num_fragments

\* The index entries of the chunk records that begin at the offsets in S.
KeysAt(d, S) == {d[x].key : x \in {y \in S : ~d[y].is_padding}}

\* Mutant: only untouched chunks are kept.
MustKeepUntouched(d, i, S) ==
    /\ overwrite_policy_ = "kDiscard"
    /\ \E key \in KeysAt(d, S) \cap DOMAIN i : i[key].num_fragments_read = 0

\* DeleteNextChunksFor returns -1: something unread is in the way.
MustKeep(d, i, S) ==
    /\ overwrite_policy_ = "kDiscard"
    /\ \E key \in KeysAt(d, S) \cap DOMAIN i : Unread(i[key])

Erased(d, i, S) == [key \in DOMAIN i \ KeysAt(d, S) |-> i[key]]

\* Mutant: the rest of a record that was cut is left as it is.
GapLeftOpen(d, o, n) == 0

\* DeleteNextChunksFor: the gap between the range and the next record.
GapAfter(d, o, n) ==
    IF Starts(d, o, n) = {} THEN 0
    ELSE Max({x + d[x].size : x \in Starts(d, o, n)}) - (o + n)

\* Mutants: the newest chunk is the last one copied, or the one with the
\* greatest id.
LastCopiedId(w, c)   == c
GreatestId(w, c)     == Max({c, last_chunk_id_written_[w]})

\* Newer means less than half of the ids ahead.
NewLastChunkId(w, c) ==
    IF (c - last_chunk_id_written_[w]) % (kMaxChunkID + 1) < kMaxChunkID \div 2
    THEN c ELSE last_chunk_id_written_[w]

\* The record and the index entry of chunk k of w, with n of its fragments.
ChunkRecord(w, k, n, flags) ==
    [size |-> RecordSize[w], is_padding |-> FALSE, key |-> <<w, Id(k)>>,
     num_fragments |-> n, flags |-> flags, chunk |-> k, holes |-> smb[w][k].holes]

ChunkMeta(o, n, flags, complete) ==
    [record_off |-> o, num_fragments |-> n, flags |-> flags, complete |-> complete,
     num_fragments_read |-> 0, skipped |-> FALSE]

NextWptr(o) == IF o >= Size THEN 0 ELSE o

\* The new record goes to offset o of the ring d with index i; padding fills
\* the gap up to the next record.
InsertRecord(d, i, o, rec, complete) ==
    LET w      == rec.key[1]
        gap    == GapAfter(d, o, rec.size)
        kept   == Erased(d, i, Starts(d, o, rec.size))
        after  == o + rec.size
        with   == WriteChunkRecord(d, o, rec)
    IN  /\ data_' = IF gap > 0 THEN WriteChunkRecord(with, after, Padding(gap)) ELSE with
        /\ index_' = [key \in DOMAIN kept \cup {rec.key} |->
                         IF key = rec.key
                         THEN ChunkMeta(o, rec.num_fragments, rec.flags, complete)
                         ELSE kept[key]]
        /\ wptr_' = NextWptr(after)
        /\ last_chunk_id_written_' =
              [last_chunk_id_written_ EXCEPT ![w] = NewLastChunkId(w, rec.key[2])]
        /\ late' = IF rec.chunk <= reached[w] THEN late \cup {w} ELSE late
        /\ UNCHANGED <<discard_writes_, abi_violations>>

\* Nothing is deleted for the record: it and all later ones are discarded.
DiscardWrite(d, i, o) ==
    /\ data_' = d /\ index_' = i /\ wptr_' = o
    /\ discard_writes_' = TRUE
    /\ UNCHANGED <<last_chunk_id_written_, abi_violations, late>>

\* Second half of CopyChunkUntrusted.  A record that does not fit before the
\* end of the buffer is written at its beginning, padding before it.
WriteNewChunk(rec, complete) ==
    LET to_end == Size - wptr_
        tail   == Starts(data_, wptr_, to_end)
        wrap   == rec.size > to_end
        d      == IF wrap THEN WriteChunkRecord(data_, wptr_, Padding(to_end)) ELSE data_
        i      == IF wrap THEN Erased(data_, index_, tail) ELSE index_
        o      == IF wrap THEN 0 ELSE wptr_
    IN  IF discard_writes_ \/ (wrap /\ MustKeep(data_, index_, tail))
        THEN DiscardWrite(data_, index_, wptr_)
        ELSE IF MustKeep(d, i, Starts(d, o, rec.size))
        THEN DiscardWrite(d, i, o)
        ELSE InsertRecord(d, i, o, rec, complete)

AbiViolation ==
    /\ abi_violations' = TRUE
    /\ UNCHANGED <<data_, wptr_, index_, last_chunk_id_written_, discard_writes_, late>>

\* What keeps a chunk in the buffer from being rewritten by rec: it is not the
\* same chunk grown, or the reader is past it.
Inconsistent(prev, rec) ==
    \/ prev.key # rec.key
    \/ prev.size # rec.size
    \/ prev.num_fragments > rec.num_fragments
    \/ ~(prev.flags \subseteq rec.flags)

ReadingNext(key) ==
    LET next == <<key[1], NextId(key[2])>>
    IN  next \in DOMAIN index_ /\ index_[next].num_fragments_read > 0

\* Mutant: a chunk that was incomplete stays so.
RewrittenMetaAsBefore(meta, rec, complete) ==
    [meta EXCEPT !.num_fragments = rec.num_fragments, !.flags = rec.flags]

RewrittenMeta(meta, rec, complete) ==
    [meta EXCEPT !.num_fragments = rec.num_fragments, !.flags = rec.flags,
                 !.complete = complete]

\* The chunk is in the buffer already, so far with fewer fragments.
RewriteChunk(rec, complete) ==
    LET meta == index_[rec.key]
        prev == data_[meta.record_off]
    IN  IF Inconsistent(prev, rec) THEN AbiViolation
        ELSE IF prev.num_fragments = rec.num_fragments THEN UNCHANGED <<ring, late>>
        ELSE IF ReadingNext(rec.key) THEN AbiViolation
        ELSE IF meta.num_fragments_read > prev.num_fragments THEN UNCHANGED <<ring, late>>
        ELSE /\ index_' = [index_ EXCEPT ![rec.key] = RewrittenMeta(meta, rec, complete)]
             /\ data_' = [data_ EXCEPT ![meta.record_off] = rec]
             /\ UNCHANGED <<wptr_, last_chunk_id_written_, discard_writes_,
                            abi_violations, late>>

FlagsOf(c) ==
    {f \in {First, Last, Holes} : \/ f = First /\ c.from
                                  \/ f = Last /\ c.on
                                  \/ f = Holes /\ c.holes > 0}

\* Mutant: the last packet counts.
FragmentsOfAll(c, complete) == c.n

\* The last packet of an incomplete chunk may not be finished.
FragmentsOf(c, complete) == IF complete THEN c.n ELSE c.n - 1

\* Of an incomplete chunk the last fragment is left out, and the flags that
\* are about it.
CopyChunkUntrusted(w, k, complete) ==
    LET c     == smb[w][k]
        n     == FragmentsOf(c, complete)
        flags == IF complete THEN FlagsOf(c) ELSE FlagsOf(c) \ {Last, Holes}
        rec   == ChunkRecord(w, k, n, flags)
    IN  IF rec.key \in DOMAIN index_ THEN RewriteChunk(rec, complete)
                                     ELSE WriteNewChunk(rec, complete)

-----------------------------------------------------------------------------
(***************************************************************************)
(* What the service does with the buffer, one thing at a time.             *)
(***************************************************************************)
ServiceIdle == read_pc = "idle" /\ ~sweep.active

Committable(w, k) ==
    /\ smb[w][k].state = "complete"
    /\ \A j \in 1 .. k - 1 : smb[w][j].state = "committed"

\* A commit arrives.  A writer's commits arrive in the order of its chunks.
CommitData(w) ==
    /\ ServiceIdle
    /\ \E k \in DOMAIN smb[w] :
          /\ Committable(w, k)
          /\ CopyChunkUntrusted(w, k, TRUE)
          /\ smb' = [smb EXCEPT ![w][k].state = "committed"]
    /\ UNCHANGED <<sweep, reader, consumed, reached>>

\* One of the patches of chunk k arrives, after the chunk.  Both the record
\* and the index entry lose the flag with the last patch.
TryPatchChunkContents(w, k) ==
    LET key  == <<w, Id(k)>>
        meta == index_[key]
        rest == IF smb[w][k].unsent = 1 THEN {Holes} ELSE {}
    IN  /\ ServiceIdle
        /\ smb[w][k].state = "committed"
        /\ smb[w][k].unsent > 0
        /\ smb' = [smb EXCEPT ![w][k].unsent = @ - 1]
        /\ IF key \notin DOMAIN index_ THEN UNCHANGED <<data_, index_>>
           ELSE /\ index_' = [index_ EXCEPT ![key].flags = @ \ rest]
                /\ data_' = [data_ EXCEPT ![meta.record_off].flags = meta.flags \ rest,
                                          ![meta.record_off].holes = @ - 1]
        /\ UNCHANGED <<sweep, wptr_, last_chunk_id_written_, discard_writes_,
                       abi_violations, reader, ghost>>

\* ScrapeSharedMemoryBuffers passes over shared memory once.
BeginSweep ==
    /\ Scraping
    /\ ServiceIdle
    /\ sweep' = [active |-> TRUE,
                 todo   |-> UNION {{[writer |-> w, chunk |-> k,
                                     open |-> smb[w][k].state = "open"] :
                                       k \in {j \in DOMAIN smb[w] :
                                                 smb[w][j].state # "committed"}} :
                                   w \in Writers}]
    /\ UNCHANGED <<smb, ring, reader, ghost>>

\* The state of the chunk is the one in a page header loaded earlier; the packet
\* count is the current one.
ScrapeChunk(x) ==
    LET c == smb[x.writer][x.chunk] IN
    /\ x \in sweep.todo
    /\ sweep' = [sweep EXCEPT !.todo = @ \ {x}]
    /\ \E complete \in BOOLEAN :
          /\ complete => c.state = "complete"
          /\ ~complete => x.open
          /\ IF ~complete /\ c.n < 2 THEN UNCHANGED <<ring, late>>
             ELSE CopyChunkUntrusted(x.writer, x.chunk, complete)
    /\ UNCHANGED <<smb, reader, consumed, reached>>

EndSweep ==
    /\ sweep.active /\ sweep.todo = {}
    /\ sweep' = NoSweep
    /\ UNCHANGED <<smb, ring, reader, ghost>>

-----------------------------------------------------------------------------
(***************************************************************************)
(* Reading.                                                                *)
(***************************************************************************)
IdsOf(w)         == {c \in ChunkID : <<w, c>> \in DOMAIN index_}
SequencesInIndex == {w \in Writers : IdsOf(w) # {}}

\* Reading a sequence begins after its newest chunk, going round.
GetReadIterForSequence(w) ==
    LET above == {c \in IdsOf(w) : c > last_chunk_id_written_[w]}
    IN  [seq |-> w, cur |-> Min(IF above # {} THEN above ELSE IdsOf(w))]

\* SequenceIterator::MoveNext: on to the next id, but not past the newest chunk,
\* a hole, or a chunk that may still grow.
MoveNext(w, c) ==
    IF \/ c = End
       \/ c = last_chunk_id_written_[w]
       \/ ~index_[<<w, c>>].complete
       \/ <<w, NextId(c)>> \notin DOMAIN index_
    THEN End ELSE NextId(c)

BeginRead ==
    /\ ServiceIdle
    /\ read_iter_' = IF SequencesInIndex = {} THEN NoIter
                     ELSE GetReadIterForSequence(Min(SequencesInIndex))
    /\ read_pc' = "chunk"
    /\ previous_packet_dropped' = TRUE
    /\ UNCHANGED <<smb, sweep, ring, returned, ghost>>

\* The call for the next packet, after one was returned.
ReadNextTracePacket ==
    /\ read_pc = "returned"
    /\ read_pc' = "chunk"
    /\ previous_packet_dropped' = TRUE
    /\ returned' = NoPacket
    /\ UNCHANGED <<smb, sweep, ring, read_iter_, ghost>>

\* The body of the loop over chunks up to the loop over fragments.
EnterChunk ==
    LET later == {w \in SequencesInIndex : w > read_iter_.seq}
        moves == read_iter_.cur = End
        it    == IF moves THEN GetReadIterForSequence(Min(later)) ELSE read_iter_
        meta  == index_[<<it.seq, it.cur>>]
    IN  /\ read_pc = "chunk"
        /\ IF moves /\ later = {}
           THEN /\ read_pc' = "end"
                /\ UNCHANGED <<read_iter_, previous_packet_dropped>>
           ELSE IF Holes \in meta.flags
           THEN /\ read_iter_' = [it EXCEPT !.cur = End]
                /\ previous_packet_dropped' = (moves \/ previous_packet_dropped)
                /\ UNCHANGED read_pc
           ELSE /\ read_iter_' = it
                /\ previous_packet_dropped' =
                      IF meta.num_fragments_read > 0 THEN meta.skipped
                      ELSE moves \/ previous_packet_dropped
                /\ read_pc' = "fragments"
        /\ UNCHANGED <<smb, sweep, ring, returned, ghost>>

CurKey  == <<read_iter_.seq, read_iter_.cur>>
CurMeta == index_[CurKey]

\* What to do with the next fragment of a chunk.
NextAction(meta) ==
    CASE meta.num_fragments_read = 0 /\ First \in meta.flags -> "kSkip"
      [] /\ meta.num_fragments_read = meta.num_fragments - 1
         /\ Last \in meta.flags
         /\ ~(meta.num_fragments_read = 0 /\ First \in meta.flags) -> "kTryReadAhead"
      [] OTHER -> "kReadOnePacket"

\* The next fragment of a chunk as its content has it: <<chunk, fragment>>.
NextSlice(key) ==
    <<data_[index_[key].record_off].chunk, index_[key].num_fragments_read + 1>>

IsDropped(w, slice) == smb[w][slice[1]].bad /\ slice[2] = smb[w][slice[1]].n
IsEmpty(w, slice)   == smb[w][slice[1]].extra /\ slice[2] = smb[w][slice[1]].n

\* ReadNextPacketInChunk: the entry after its next fragment was consumed.  An
\* invalid fragment ends the chunk.
AfterFragment(key, invalid) ==
    IF invalid
    THEN [index_[key] EXCEPT !.num_fragments_read = index_[key].num_fragments]
    ELSE [index_[key] EXCEPT !.num_fragments_read = @ + 1, !.skipped = FALSE]

\* The reader has taken something from chunk k of w.
Reached(w, k) == reached' = [reached EXCEPT ![w] = Max({@, k})]

LeaveRing == UNCHANGED <<data_, wptr_, last_chunk_id_written_, discard_writes_,
                         abi_violations, smb, sweep, late>>

\* The call returns the packet made of these slices.
ReturnPacket(slices) ==
    LET w == read_iter_.seq IN
    /\ returned' = [writer |-> w, slices |-> slices,
                    dropped |-> previous_packet_dropped, before |-> consumed[w]]
    /\ consumed' = [consumed EXCEPT ![w] = smb[w][slices[1][1]].first + slices[1][2] - 1]
    /\ read_pc' = "returned"

NextFragment(action) ==
    /\ read_pc = "fragments"
    /\ Unread(CurMeta)
    /\ NextAction(CurMeta) = action

NoMoreFragments ==
    /\ read_pc = "fragments"
    /\ ~Unread(CurMeta)
    /\ read_iter_' = [read_iter_ EXCEPT !.cur = MoveNext(read_iter_.seq, @)]
    /\ read_pc' = "chunk"
    /\ UNCHANGED <<index_, previous_packet_dropped, returned, consumed, reached>>
    /\ LeaveRing

\* Mutant: the loss is forgotten.
SkipFragmentUnmarked ==
    /\ NextFragment("kSkip")
    /\ index_' = [index_ EXCEPT ![CurKey] =
                     AfterFragment(CurKey, IsDropped(read_iter_.seq, NextSlice(CurKey)))]
    /\ previous_packet_dropped' = TRUE
    /\ Reached(read_iter_.seq, NextSlice(CurKey)[1])
    /\ UNCHANGED <<read_pc, read_iter_, returned, consumed>>
    /\ LeaveRing

\* A continuation whose beginning is not in the buffer is given up for good.
SkipFragment ==
    /\ NextFragment("kSkip")
    /\ index_' = [index_ EXCEPT ![CurKey] =
                     [AfterFragment(CurKey, IsDropped(read_iter_.seq, NextSlice(CurKey)))
                         EXCEPT !.skipped = TRUE]]
    /\ previous_packet_dropped' = TRUE
    /\ Reached(read_iter_.seq, NextSlice(CurKey)[1])
    /\ UNCHANGED <<read_pc, read_iter_, returned, consumed>>
    /\ LeaveRing

ReadOnePacket ==
    LET slice == NextSlice(CurKey)
        w     == read_iter_.seq
    IN  /\ NextFragment("kReadOnePacket")
        /\ IF IsDropped(w, slice)
           THEN /\ index_' = [index_ EXCEPT ![CurKey] =
                                 [AfterFragment(CurKey, TRUE) EXCEPT !.skipped = TRUE]]
                /\ previous_packet_dropped' = TRUE
                /\ UNCHANGED <<read_pc, returned, consumed>>
           ELSE /\ index_' = [index_ EXCEPT ![CurKey] = AfterFragment(CurKey, FALSE)]
                /\ UNCHANGED previous_packet_dropped
                /\ IF IsEmpty(w, slice) THEN UNCHANGED <<read_pc, returned, consumed>>
                   ELSE ReturnPacket(<<slice>>)
        /\ Reached(w, slice[1])
        /\ UNCHANGED read_iter_
        /\ LeaveRing

\* The n-th chunk id after c, and whether MoveNext gets there.
Ahead(c, n)      == (c + n) % (kMaxChunkID + 1)
Reaches(w, c, n) == \A i \in 0 .. n - 1 : MoveNext(w, Ahead(c, i)) = Ahead(c, i + 1)

\* A chunk in the middle of a packet.
PassesOn(meta) ==
    \/ meta.num_fragments = 0
    \/ meta.num_fragments = 1 /\ {First, Last} \subseteq meta.flags /\ Holes \notin meta.flags

\* A chunk in which a packet from an earlier chunk ends.
EndsPacket(meta) ==
    /\ meta.num_fragments > 0
    /\ First \in meta.flags /\ Holes \notin meta.flags
    /\ ~(meta.num_fragments = 1 /\ Last \in meta.flags)

\* The search of ReadAhead: how many chunks further the packet ends (at most
\* one such number).
ReadAheadTo(w, c) ==
    {n \in 1 .. kMaxChunkID :
        /\ Reaches(w, c, n)
        /\ \A i \in 1 .. n - 1 : PassesOn(index_[<<w, Ahead(c, i)>>])
        /\ EndsPacket(index_[<<w, Ahead(c, n)>>])}

\* All the chunks from the current one to the one in which the packet ends give
\* their next fragment.  Nothing checks that they have one left (there is only a
\* DCHECK): bytes behind the last fragment are a packet, or are not.
ReadAhead ==
    LET w == read_iter_.seq
        c == read_iter_.cur
    IN  /\ NextFragment("kTryReadAhead")
        /\ \E n \in ReadAheadTo(w, c) :
              LET path   == [i \in 1 .. n + 1 |-> <<w, Ahead(c, i - 1)>>]
                  keys   == {path[i] : i \in {j \in 1 .. n + 1 :
                                                index_[path[j]].num_fragments > 0}}
                  slices == [i \in 1 .. n + 1 |-> NextSlice(path[i])]
                  final  == path[n + 1]
              IN  \E lost \in SUBSET {key \in keys : ~Unread(index_[key])} :
                     LET corrupt == {key \in keys : IsDropped(w, NextSlice(key))} \cup lost
                         read    == [key \in DOMAIN index_ |->
                                        IF key \in keys THEN AfterFragment(key, key \in corrupt)
                                        ELSE index_[key]]
                     IN  /\ IF corrupt # {}
                            THEN /\ index_' = [read EXCEPT ![final].skipped = TRUE]
                                 /\ previous_packet_dropped' = TRUE
                                 /\ UNCHANGED <<read_pc, returned, consumed>>
                            ELSE /\ index_' = read
                                 /\ UNCHANGED previous_packet_dropped
                                 /\ ReturnPacket(slices)
                         /\ read_iter_' = [read_iter_ EXCEPT !.cur = final[2]]
                         /\ Reached(w, slices[n + 1][1])
        /\ LeaveRing

ReadAheadFails ==
    /\ NextFragment("kTryReadAhead")
    /\ ReadAheadTo(read_iter_.seq, read_iter_.cur) = {}
    /\ read_iter_' = [read_iter_ EXCEPT !.cur = End]
    /\ read_pc' = "chunk"
    /\ UNCHANGED <<index_, previous_packet_dropped, returned, consumed, reached>>
    /\ LeaveRing

\* ReadBuffers returns to its caller: nothing is left, or enough was read.
EndRead ==
    /\ read_pc \in {"returned", "end"}
    /\ read_pc' = "idle"
    /\ read_iter_' = NoIter
    /\ previous_packet_dropped' = FALSE
    /\ returned' = NoPacket
    /\ UNCHANGED <<smb, sweep, ring, ghost>>

ReadStep ==
    \/ BeginRead
    \/ ReadNextTracePacket
    \/ EnterChunk
    \/ NoMoreFragments
    \/ SkipFragment
    \/ ReadOnePacket
    \/ ReadAhead
    \/ ReadAheadFails
    \/ EndRead

Next ==
    /\ \/ \E w \in Writers : WriterStep(w)
       \/ \E w \in Writers : CommitData(w)
       \/ \E w \in Writers : \E k \in DOMAIN smb[w] : TryPatchChunkContents(w, k)
       \/ BeginSweep
       \/ \E x \in sweep.todo : ScrapeChunk(x)
       \/ EndSweep
       \/ ReadStep
    /\ UNCHANGED <<overwrite_policy_, load>>

Spec == Init /\ [][Next]_vars

-----------------------------------------------------------------------------
(***************************************************************************)
(* Properties.                                                             *)
(***************************************************************************)
\* The write pointer, the record offsets and the keys stay within bounds, and
\* the reader is in one of its places.
TypeOK ==
    /\ wptr_ \in 0 .. Size - 1
    /\ DOMAIN data_ \subseteq 0 .. Size - 1
    /\ DOMAIN index_ \subseteq Key
    /\ last_chunk_id_written_ \in [Writers -> ChunkID]
    /\ read_pc \in {"idle", "chunk", "fragments", "returned", "end"}

\* From the beginning of the buffer every record ends where the next one
\* begins, at the end of the buffer, or where the buffer is still untouched,
\* and that is at wptr_: the chain that DeleteNextChunksFor walks and CHECKs.
RecordsTile ==
    /\ data_ = << >> \/ 0 \in DOMAIN data_
    /\ \A x \in DOMAIN data_ :
          LET y == x + data_[x].size IN
          \/ y = Size
          \/ y \in DOMAIN data_
          \/ y = wptr_ /\ Starts(data_, y, Size) = {}

\* The index has the chunk records of the ring, no more and no fewer, and
\* agrees with them.
IndexMatches ==
    /\ KeysAt(data_, DOMAIN data_) = DOMAIN index_
    /\ \A x \in DOMAIN data_ : ~data_[x].is_padding =>
          LET meta == index_[data_[x].key] IN
          /\ meta.record_off = x
          /\ meta.num_fragments = data_[x].num_fragments
          /\ meta.flags = data_[x].flags

\* The buffer never has a partial chunk around, whatever the sizes of the
\* records that overwrite one another, and rewriting, patching and deleting
\* keep index_ and the records in step.
SelfDescribing == RecordsTile /\ IndexMatches

\* CopyChunkUntrusted never takes a well-behaved producer for a broken one: not
\* when chunks are scraped while written, scraped with a stale state, scraped
\* again, or committed after having been scraped.
NoAbiViolations == ~abi_violations

\* A chunk of w is late when it is stored after the reader has taken something
\* from it or from a later chunk; only scraping brings that about, as commits
\* arrive in order and the ring forgets the oldest first.
LateNeedsScraping == late # {} => Scraping

\* Whatever is written over, discarded or given up: the offsets are within
\* bounds, the records tile the ring and agree with the index, and nothing is
\* stored behind the reader.
RingIsSound == TypeOK /\ SelfDescribing /\ LateNeedsScraping

PacketOf(w, slice) == smb[w][slice[1]].first + slice[2] - 1

\* The packet of the call that just returned.
ReturnedPacket == PacketOf(returned.writer, returned.slices[1])

\* ReadNextTracePacket returns the packets of a writer in order, each once:
\* across read passes that stop anywhere, chunks that arrive out of order or
\* grow, records overwritten in between, and ids that wrap.  Late chunks excepted.
ReadInOrder ==
    read_pc = "returned" /\ returned.writer \notin late =>
        ReturnedPacket > returned.before

\* The chunks of w that hold a fragment of packet p.
ChunksOf(w, p) ==
    {k \in DOMAIN smb[w] : smb[w][k].first <= p /\ p <= LastPacket(smb[w][k])}

\* The slices are all the fragments of packet p, in order, and the writer has
\* finished the packet and not given it up.
IsWhole(w, slices, p) ==
    LET ks == ChunksOf(w, p)
        c  == smb[w][Max(ks)]
    IN  /\ slices = [i \in 1 .. Cardinality(ks) |->
                        <<Min(ks) + i - 1, p - smb[w][Min(ks) + i - 1].first + 1>>]
        /\ LastPacket(c) = p => ~c.bad /\ (c.state = "open" => c.extra)

\* The copy in the buffer from which the i-th slice was returned has all its
\* size fields.
IsPatched(w, slice) == data_[index_[<<w, Id(slice[1])>>].record_off].holes = 0

ReturnsWholePacket ==
    /\ IsWhole(returned.writer, returned.slices, ReturnedPacket)
    /\ \A i \in 1 .. Len(returned.slices) - 1 :
          IsPatched(returned.writer, returned.slices[i])

\* What ReadNextTracePacket returns is one packet, glued from all its
\* fragments and nothing else, with every patch applied.  Late chunks excepted.
ReadsWholePackets ==
    read_pc = "returned" /\ returned.writer \notin late => ReturnsWholePacket

\* Packet p was the end of a continuation, alone in its chunk but for the empty
\* packet behind it.
EndsBeforeEmpty(w, p) ==
    \E k \in ChunksOf(w, p) : smb[w][k].from /\ smb[w][k].n = 2 /\ smb[w][k].extra

\* When packets are missing between a packet and the one returned before it,
\* previous_packet_on_sequence_dropped says so, in whichever pass it is read.
\* A loss right before an empty packet is excepted, and late chunks.
LossIsFlagged ==
    read_pc = "returned" /\ returned.writer \notin late =>
        \/ returned.dropped
        \/ ReturnedPacket = returned.before + 1
        \/ EndsBeforeEmpty(returned.writer, ReturnedPacket - 1)

\* The chunks of w in the buffer, by number, and their entries.
Stored(w)  == {data_[index_[key].record_off].chunk : key \in {<<w, c>> : c \in IdsOf(w)}}
Meta(w, k) == index_[<<w, Id(k)>>]

\* Why the reader has to stop at chunk k: patches are missing, there is no more
\* to come yet, or the packet that begins last is not all there.
StopsAt(w, k) ==
    \/ Holes \in Meta(w, k).flags
    \/ ~Unread(Meta(w, k)) /\ (~Meta(w, k).complete \/ k + 1 \notin Stored(w))
    \/ /\ Meta(w, k).num_fragments_read = Meta(w, k).num_fragments - 1
       /\ Last \in Meta(w, k).flags
       /\ \E j \in ChunksOf(w, LastPacket(smb[w][k])) :
             \/ j \notin Stored(w)
             \/ j # k /\ Holes \in Meta(w, j).flags
             \/ Meta(w, j).num_fragments = 0

\* When ReadNextTracePacket returns false it has gone through every sequence,
\* from its oldest chunk, up to a chunk at which it had to stop: a whole
\* packet is not left unread behind a wrapped id, a chunk that was
\* rewritten or a failed attempt at gluing.  Late chunks excepted.
NothingReadableLeft ==
    read_pc = "end" =>
        \A w \in SequencesInIndex \ late :
            \E k \in Stored(w) :
                /\ \A j \in Min(Stored(w)) .. k - 1 :
                      j \in Stored(w) /\ Meta(w, j).complete /\ ~Unread(Meta(w, j))
                /\ StopsAt(w, k)

\* With kDiscard what is read of a sequence is its beginning: nothing unread is
\* ever overwritten, and nothing is stored behind something discarded.  The
\* packets that are missing are those their writer gave up.
NothingLostBefore ==
    overwrite_policy_ = "kDiscard" /\ ~Scraping /\ read_pc = "returned" =>
        \A p \in returned.before + 1 .. ReturnedPacket - 1 :
            \E k \in ChunksOf(returned.writer, p) :
                smb[returned.writer][k].bad /\ LastPacket(smb[returned.writer][k]) = p

\* Once a chunk has been committed its copy in the buffer is complete and has
\* all the fragments, however often and in whichever state it had been
\* scraped: the reader is not held up by it.  Late chunks excepted.
CommittedIsComplete ==
    \A w \in Writers \ late : \A k \in DOMAIN smb[w] :
        smb[w][k].state = "committed" /\ k \in Stored(w) =>
            Meta(w, k).complete /\ Meta(w, k).num_fragments = smb[w][k].n

\* Scraping and committing the same chunk, in any order and any number of times,
\* neither looks like an ABI violation nor leaves an unfinished copy.
CopiesAreSound == NoAbiViolations /\ CommittedIsComplete
=============================================================================
