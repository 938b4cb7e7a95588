---------------------- MODULE SharedMemoryABI_proofs ----------------------
(***************************************************************************)
(* Proofs about SharedMemoryABI, for any number of pages, chunks and       *)
(* writers and any retry limit: first about the words of the pages, then   *)
(* about the chunk headers, that is, what the service reads from a chunk   *)
(* that it acquired or scrapes.                                            *)
(***************************************************************************)
EXTENDS SharedMemoryABI, TLAPS

-----------------------------------------------------------------------------
(***************************************************************************)
(* Facts about the operators the actions are built from.                   *)
(***************************************************************************)
\* The word a page starts with is a header word.
LEMMA FreePageType == FreePage \in HeaderBitmap /\ NoChunk \in Chunks
  BY ConstantsAssumption DEF FreePage, HeaderBitmap, AllChunksFree, ChunkState,
     NoChunk, Chunks, Pages, Slots

\* Rewriting the bits of one chunk gives a header word.
LEMMA WithStateType ==
  ASSUME NEW word \in HeaderBitmap, NEW i \in Slots, NEW s \in ChunkState
  PROVE  /\ WithState(word, i, s) \in HeaderBitmap
         /\ WithState(word, i, s).partitioned = word.partitioned
         /\ WithState(word, i, s).state[i] = s
         /\ \A j \in Slots \ {i} : WithState(word, i, s).state[j] = word.state[j]
  BY DEF WithState, HeaderBitmap

\* ReleaseChunk's word: the bits of the released chunk change and no other;
\* the layout goes only if no chunk is in use.
LEMMA ReleasedWordType ==
  ASSUME NEW word \in HeaderBitmap, NEW i \in Slots, NEW s \in ChunkState
  PROVE  /\ ReleasedWord(word, i, s) \in HeaderBitmap
         /\ ReleasedWord(word, i, s).state[i] = s
         /\ \A j \in Slots \ {i} : ReleasedWord(word, i, s).state[j] = word.state[j]
         /\ (\E j \in Slots : ReleasedWord(word, i, s).state[j] # "kChunkFree")
               => ReleasedWord(word, i, s).partitioned = word.partitioned
         /\ word.partitioned /\ ~ReleasedWord(word, i, s).partitioned
               => ReleasedWord(word, i, s) = FreePage
  <1> DEFINE next == WithState(word, i, s)
  <1>1. /\ next \in HeaderBitmap
        /\ next.partitioned = word.partitioned
        /\ next.state[i] = s
        /\ \A j \in Slots \ {i} : next.state[j] = word.state[j]
    BY WithStateType
  <1>2. CASE next.state = AllChunksFree
    <2>1. ReleasedWord(word, i, s) = FreePage
      BY <1>2 DEF ReleasedWord
    <2>2. \A j \in Slots : next.state[j] = "kChunkFree"
      BY <1>2 DEF AllChunksFree
    <2>3. \A j \in Slots : FreePage.state[j] = next.state[j]
      BY <2>2 DEF FreePage, AllChunksFree
    <2> QED BY <1>1, <2>1, <2>2, <2>3, FreePageType
  <1>3. CASE next.state # AllChunksFree
    <2>1. ReleasedWord(word, i, s) = next
      BY <1>3 DEF ReleasedWord
    <2> QED BY <1>1, <2>1
  <1> QED BY <1>2, <1>3

-----------------------------------------------------------------------------
(***************************************************************************)
(* Type correctness.                                                       *)
(***************************************************************************)
\* The initial state, zeroed memory and idle threads, is well typed.
LEMMA TypeInit == Init => TypeOK
  BY FreePageType, ConstantsAssumption, ActorsAssumption
  DEF Init, TypeOK, Actors, WriterPC, ServicePC

\* What a step may do to the private state of one actor.
LEMMA TypeLocal ==
  ASSUME TypeOK, NEW a \in Actors, NEW label, NEW c \in Chunks,
         NEW word \in HeaderBitmap, NEW k \in 0 .. kRetryAttempts - 1,
         IF a = Service THEN label \in ServicePC ELSE label \in WriterPC,
         pc' = [pc EXCEPT ![a] = label],
         at' = at \/ at' = [at EXCEPT ![a] = c],
         seen' = seen \/ seen' = [seen EXCEPT ![a] = word],
         attempt' = attempt \/ attempt' = [attempt EXCEPT ![a] = k]
  PROVE  /\ pc' \in [Actors -> WriterPC \cup ServicePC]
         /\ \A w \in Writers : pc'[w] \in WriterPC
         /\ pc'[Service] \in ServicePC
         /\ at' \in [Actors -> Chunks]
         /\ seen' \in [Actors -> HeaderBitmap]
         /\ attempt' \in [Actors -> 0 .. kRetryAttempts - 1]
  <1>1. /\ pc' \in [Actors -> WriterPC \cup ServicePC]
        /\ \A b \in Actors : pc'[b] = IF b = a THEN label ELSE pc[b]
    BY DEF TypeOK
  <1>2. (\A w \in Writers : pc'[w] \in WriterPC) /\ pc'[Service] \in ServicePC
    BY <1>1, ActorsAssumption DEF TypeOK, Actors
  <1>3. at' \in [Actors -> Chunks]
    BY DEF TypeOK
  <1>4. seen' \in [Actors -> HeaderBitmap]
    BY DEF TypeOK
  <1>5. attempt' \in [Actors -> 0 .. kRetryAttempts - 1]
    BY DEF TypeOK
  <1> QED BY <1>1, <1>2, <1>3, <1>4, <1>5

\* TryAcquireChunk and ReleaseChunk, access by access, keep the types.
LEMMA TypeWordStep ==
  ASSUME TypeOK, NEW a \in Actors, WordStep(a)
  PROVE  TypeOK'
  <1>0. /\ at[a] \in Chunks /\ at[a][1] \in Pages /\ at[a][2] \in Slots
        /\ header_bitmap[at[a][1]] \in HeaderBitmap
        /\ seen[a] \in HeaderBitmap
        /\ FreePage \in HeaderBitmap
        /\ NoChunk \in Chunks
        /\ 0 \in 0 .. kRetryAttempts - 1
    BY FreePageType, ConstantsAssumption DEF Chunks, TypeOK
  <1>pc. \A label \in WriterPC \cap ServicePC :
            IF a = Service THEN label \in ServicePC ELSE label \in WriterPC
    OBVIOUS
  <1>lbl. {"idle", "acquire_load", "acquire_cas", "release_load", "release_cas", "crashed"}
             \subseteq WriterPC \cap ServicePC
    BY DEF WriterPC, ServicePC
  <1>r. ASSUME NEW label, IF a = Service THEN label \in ServicePC ELSE label \in WriterPC,
               Return(a, label),
               at' = at \/ at' = [at EXCEPT ![a] = NoChunk],
               UNCHANGED <<writer_id, chunk_id, packets, written>>,
               header_bitmap' \in [Pages -> HeaderBitmap],
               lease' \in [Chunks -> [writer_id : Writers \cup {NoWriter},
                                      chunk_id  : 0 .. kMaxChunkID]],
               next_chunk_id' \in [Writers -> 0 .. kMaxChunkID],
               unstored' \in [Writers -> SUBSET IdFields]
        PROVE  TypeOK'
    BY <1>0, <1>r, TypeLocal DEF Return, TypeOK
  <1>k. ASSUME UNCHANGED <<shared, next_chunk_id, unstored>>
        PROVE  /\ UNCHANGED <<header_bitmap, writer_id, chunk_id, packets, written, lease>>
               /\ header_bitmap' \in [Pages -> HeaderBitmap]
               /\ lease' \in [Chunks -> [writer_id : Writers \cup {NoWriter},
                                         chunk_id  : 0 .. kMaxChunkID]]
               /\ next_chunk_id' \in [Writers -> 0 .. kMaxChunkID]
               /\ unstored' \in [Writers -> SUBSET IdFields]
    BY <1>k DEF TypeOK, shared, header
  <1>1. ASSUME NEW c \in Chunks, TryAcquireChunk(a, c) PROVE TypeOK'
    BY <1>1, <1>0, <1>pc, <1>lbl, <1>k, TypeLocal DEF TryAcquireChunk, TypeOK
  <1>2. CASE AcquireLoad(a)
    <2>1. CASE Return(a, "idle")
      BY <1>r, <1>k, <1>pc, <1>lbl, <1>2, <2>1 DEF AcquireLoad
    <2>2. CASE /\ pc' = [pc EXCEPT ![a] = "acquire_cas"]
               /\ seen' = [seen EXCEPT ![a] = header_bitmap[at[a][1]]]
               /\ UNCHANGED <<shared, at, attempt, next_chunk_id, unstored>>
      BY <1>0, <1>k, <1>pc, <1>lbl, <2>2, TypeLocal DEF TypeOK
    <2> QED BY <1>2, <2>1, <2>2 DEF AcquireLoad
  <1>3. CASE AcquireCas(a)
    <2>1. WithState(seen[a], at[a][2], AcquireInto(a)) \in HeaderBitmap
      BY <1>0, WithStateType DEF AcquireInto, ChunkState
    <2>2. header_bitmap' \in [Pages -> HeaderBitmap]
      BY <1>0, <1>3, <2>1 DEF AcquireCas, TypeOK
    <2>3. CASE a = Service
      <3>1. "reading" \in ServicePC
        BY DEF ServicePC
      <3> QED BY <1>3, <1>r, <2>2, <2>3, <3>1 DEF AcquireCas, TypeOK, header
    <2>4. CASE a # Service
      <3>1. a \in Writers /\ (next_chunk_id[a] + 1) % (kMaxChunkID + 1) \in 0 .. kMaxChunkID
        BY <2>4, ConstantsAssumption DEF Actors, TypeOK
      <3>2. "store_header" \in WriterPC
        BY DEF WriterPC
      <3>3. [writer_id |-> a, chunk_id |-> next_chunk_id[a]]
               \in [writer_id : Writers \cup {NoWriter}, chunk_id : 0 .. kMaxChunkID]
        BY <3>1 DEF TypeOK
      <3>4. /\ Return(a, "store_header")
            /\ unstored' = [unstored EXCEPT ![a] = IdFields]
            /\ written' = [written EXCEPT ![at[a]] = 0]
            /\ lease' = [lease EXCEPT ![at[a]] =
                            [writer_id |-> a, chunk_id |-> next_chunk_id[a]]]
            /\ next_chunk_id' =
                  [next_chunk_id EXCEPT ![a] = (next_chunk_id[a] + 1) % (kMaxChunkID + 1)]
            /\ UNCHANGED <<writer_id, chunk_id, packets, at>>
        BY <1>3, <2>4 DEF AcquireCas, header
      <3>5. /\ lease' \in [Chunks -> [writer_id : Writers \cup {NoWriter},
                                      chunk_id  : 0 .. kMaxChunkID]]
            /\ next_chunk_id' \in [Writers -> 0 .. kMaxChunkID]
            /\ unstored' \in [Writers -> SUBSET IdFields]
            /\ written' \in [Chunks -> Nat]
        BY <3>1, <3>3, <3>4, <1>0 DEF TypeOK
      <3> QED BY <1>0, <2>2, <2>4, <3>2, <3>4, <3>5, TypeLocal DEF Return, TypeOK
    <2> QED BY <2>3, <2>4
  <1>4. CASE AcquireCasFails(a) \/ ReleaseCasFails(a)
    <2>0. "gave_up" \in WriterPC
      BY DEF WriterPC
    <2>1. CASE attempt[a] + 1 < kRetryAttempts
      <3>1. attempt[a] + 1 \in 0 .. kRetryAttempts - 1
        BY <2>1, ConstantsAssumption DEF TypeOK
      <3>2. PICK label \in {"acquire_load", "release_load"} :
               /\ pc' = [pc EXCEPT ![a] = label]
               /\ seen' = [seen EXCEPT ![a] = FreePage]
               /\ attempt' = [attempt EXCEPT ![a] = attempt[a] + 1]
               /\ at' = at \/ at' = [at EXCEPT ![a] = NoChunk]
               /\ UNCHANGED <<shared, next_chunk_id, unstored>>
        BY <1>4, <1>0, <2>1 DEF AcquireCasFails, ReleaseCasFails, Retry, TypeOK
      <3> QED BY <1>0, <1>k, <1>pc, <1>lbl, <3>1, <3>2, TypeLocal DEF TypeOK
    <2>2. CASE ~(attempt[a] + 1 < kRetryAttempts)
      <3>1. /\ Return(a, "idle") \/ (a # Service /\ Return(a, "gave_up"))
            /\ at' = at \/ at' = [at EXCEPT ![a] = NoChunk]
            /\ UNCHANGED <<shared, next_chunk_id, unstored>>
        BY <1>4, <1>0, <2>2 DEF AcquireCasFails, ReleaseCasFails, Retry, TypeOK
      <3> QED BY <1>k, <1>r, <1>pc, <1>lbl, <2>0, <3>1
    <2> QED BY <2>1, <2>2
  <1>5. CASE ReleaseLoad(a)
    <2>1. CASE Return(a, "crashed")
      BY <1>r, <1>k, <1>pc, <1>lbl, <1>5, <2>1 DEF ReleaseLoad
    <2>2. CASE /\ pc' = [pc EXCEPT ![a] = "release_cas"]
               /\ seen' = [seen EXCEPT ![a] = header_bitmap[at[a][1]]]
               /\ UNCHANGED <<shared, at, attempt, next_chunk_id, unstored>>
      BY <1>0, <1>k, <1>pc, <1>lbl, <2>2, TypeLocal DEF TypeOK
    <2> QED BY <1>5, <2>1, <2>2 DEF ReleaseLoad
  <1>6. CASE ReleaseCas(a)
    <2>1. ReleasedWord(seen[a], at[a][2], ReleaseInto(a)) \in HeaderBitmap
      BY <1>0, ReleasedWordType DEF ReleaseInto, ChunkState
    <2>2. header_bitmap' \in [Pages -> HeaderBitmap]
      BY <1>0, <1>6, <2>1 DEF ReleaseCas, TypeOK
    <2> QED BY <1>6, <1>r, <1>pc, <1>lbl, <2>2 DEF ReleaseCas, TypeOK, header
  <1> QED BY <1>1, <1>2, <1>3, <1>4, <1>5, <1>6 DEF WordStep

\* The accesses of a writer to the chunk it holds.
LEMMA TypeWriterStep ==
  ASSUME TypeOK, NEW w \in Writers, WriterStep(w)
  PROVE  TypeOK'
  <1> USE DEF TypeOK, shared, local, header
  <1>0. w \in Actors /\ w # Service /\ at[w] \in Chunks
    BY ActorsAssumption DEF Actors
  <1>1. ASSUME NEW p \in Pages, TryPartitionPage(w, p) PROVE TypeOK'
    <2>1. PartitionedPage \in HeaderBitmap
      BY DEF PartitionedPage, HeaderBitmap, AllChunksFree, ChunkState
    <2> QED BY <1>1, <2>1 DEF TryPartitionPage
  <1>2. CASE StoreWriterId(w)
    BY <1>0, <1>2 DEF StoreWriterId
  <1>3. CASE StoreChunkId(w)
    BY <1>0, <1>3 DEF StoreChunkId
  <1>4. ASSUME NEW n \in {0, 1}, StorePackets(w, n) PROVE TypeOK'
    BY <1>0, <1>4 DEF StorePackets, WriterPC, ServicePC
  <1>5. CASE IncrementPacketCount(w)
    BY <1>0, <1>5 DEF IncrementPacketCount
  <1>6. CASE FinishPacket(w)
    BY <1>0, <1>6 DEF FinishPacket
  <1>7. CASE ReleaseChunkAsComplete(w)
    BY <1>0, <1>7 DEF ReleaseChunkAsComplete, WriterPC, ServicePC
  <1> QED BY <1>0, <1>1, <1>2, <1>3, <1>4, <1>5, <1>6, <1>7 DEF WriterStep

\* NextScrapable stays inside the page and inside the buffer.
LEMMA NextSlotExists ==
  ASSUME NEW i \in Slots, i + 1 < NumChunks
  PROVE  i + 1 \in Slots
  BY ConstantsAssumption DEF Slots

\* The same for pages.
LEMMA NextPageExists ==
  ASSUME NEW p \in Pages, p + 1 < NumPages
  PROVE  p + 1 \in Pages
  BY ConstantsAssumption DEF Pages

\* The accesses of the service while it frees a chunk or scrapes.
LEMMA TypeServiceStep ==
  ASSUME TypeOK, ServiceStep
  PROVE  TypeOK'
  <1> USE DEF TypeOK, shared, local, header
  <1>0. /\ Service \in Actors /\ \A w \in Writers : w # Service
        /\ at[Service] \in Chunks /\ at[Service][1] \in Pages /\ at[Service][2] \in Slots
        /\ FreePage \in HeaderBitmap /\ NoChunk \in Chunks
        /\ <<0, 0>> \in Chunks
    BY ActorsAssumption, FreePageType DEF Actors, Chunks, NoChunk
  <1>1. CASE ReleaseChunkAsFree
    BY <1>0, <1>1 DEF ReleaseChunkAsFree, WriterPC, ServicePC
  <1>2. CASE ClearChunkHeader
    BY <1>0, <1>2, ConstantsAssumption DEF ClearChunkHeader, WriterPC, ServicePC
  <1>3. CASE BeginScrape
    BY <1>0, <1>3 DEF BeginScrape, WriterPC, ServicePC
  <1>4. CASE ScrapePage
    BY <1>0, <1>4 DEF ScrapePage, WriterPC, ServicePC
  <1>5. ASSUME NextScrapable, UNCHANGED <<shared, next_chunk_id, attempt, unstored>>
        PROVE  TypeOK'
    <2> DEFINE p == at[Service][1]
               i == at[Service][2]
    <2>1. CASE i + 1 < NumChunks
      <3>1. <<p, i + 1>> \in Chunks
        BY <1>0, <2>1, NextSlotExists DEF Chunks
      <3>2. /\ pc' = [pc EXCEPT ![Service] = "scrape_chunk"]
            /\ at' = [at EXCEPT ![Service] = <<p, i + 1>>]
            /\ UNCHANGED seen
        BY <1>0, <1>5, <2>1, ConstantsAssumption DEF NextScrapable, Slots
      <3> QED BY <1>0, <1>5, <3>1, <3>2 DEF WriterPC, ServicePC
    <2>2. CASE i + 1 >= NumChunks /\ p + 1 < NumPages
      <3>1. <<p + 1, 0>> \in Chunks
        <4>1. p + 1 \in Pages
          BY <1>0, <2>2, NextPageExists
        <4>2. 0 \in Slots
          BY ConstantsAssumption DEF Slots
        <4> QED BY <4>1, <4>2 DEF Chunks
      <3>2. /\ pc' = [pc EXCEPT ![Service] = "scrape_page"]
            /\ at' = [at EXCEPT ![Service] = <<p + 1, 0>>]
            /\ seen' = [seen EXCEPT ![Service] = FreePage]
        BY <1>0, <1>5, <2>2, ConstantsAssumption DEF NextScrapable, Slots
      <3> QED BY <1>0, <1>5, <3>1, <3>2 DEF WriterPC, ServicePC
    <2>3. CASE ~(i + 1 < NumChunks) /\ ~(i + 1 >= NumChunks /\ p + 1 < NumPages)
      <3>2. /\ pc' = [pc EXCEPT ![Service] = "idle"]
            /\ at' = [at EXCEPT ![Service] = NoChunk]
            /\ seen' = [seen EXCEPT ![Service] = FreePage]
        BY <1>0, <1>5, <2>3 DEF NextScrapable
      <3> QED BY <1>0, <1>5, <3>2 DEF WriterPC, ServicePC
    <2> QED BY <2>1, <2>2, <2>3
  <1>6. CASE ScrapeChunk
    <2>1. CASE NextScrapable
      BY <1>5, <1>6, <2>1 DEF ScrapeChunk
    <2>2. CASE /\ pc' = [pc EXCEPT ![Service] = "scrape_copy"]
               /\ UNCHANGED <<at, seen, shared, next_chunk_id, attempt, unstored>>
      BY <1>0, <2>2 DEF WriterPC, ServicePC
    <2> QED BY <1>6, <2>1, <2>2 DEF ScrapeChunk
  <1>7. CASE ScrapeCopy
    BY <1>5, <1>7 DEF ScrapeCopy
  <1> QED BY <1>1, <1>2, <1>3, <1>4, <1>6, <1>7 DEF ServiceStep

\* Every reachable state of the protocol is well typed.
THEOREM TypeCorrect == Spec => []TypeOK
  <1>1. TypeOK /\ [Next]_vars => TypeOK'
    <2>1. TypeOK /\ UNCHANGED vars => TypeOK'
      BY DEF TypeOK, vars, shared, local, header
    <2> QED BY <2>1, TypeWordStep, TypeWriterStep, TypeServiceStep DEF Next
  <1> QED BY <1>1, TypeInit, PTL DEF Spec

-----------------------------------------------------------------------------
(***************************************************************************)
(* Ownership.                                                              *)
(***************************************************************************)
\* Zeroed memory, in which nobody holds a chunk, satisfies the invariant.
LEMMA OwnershipInit == Init => OwnershipInv
  BY FreePageType DEF Init, OwnershipInv, ExclusiveOwnership, OwnedChunkInOwnersState,
     NoLayoutNoChunks, NoCheckFailure, SeenAllowsSwap, Holds, Actors

\* Acquiring and releasing move between different states.
LEMMA AcquireReleaseStates ==
  ASSUME NEW a \in Actors, NEW b \in Actors
  PROVE  /\ AcquireFrom(a) # AcquireInto(b)
         /\ AcquireInto(b) # "kChunkFree"
         /\ ReleaseFrom(a) = AcquireInto(a)
         /\ AcquireInto(a) \in ChunkState
         /\ ReleaseInto(a) \in ChunkState
  BY DEF AcquireFrom, AcquireInto, ReleaseFrom, ReleaseInto, ChunkState

\* The loads and compare-and-swaps of TryAcquireChunk and ReleaseChunk preserve
\* ownership: a swap that succeeds starts from the word it was computed from.
LEMMA OwnershipWordStep ==
  ASSUME TypeOK, TypeOK', OwnershipInv, NEW a \in Actors, WordStep(a)
  PROVE  OwnershipInv'
  <1> USE DEF OwnershipInv
  <1> DEFINE c == at[a]
             p == at[a][1]
             i == at[a][2]
  <1>0. /\ c \in Chunks /\ p \in Pages /\ i \in Slots /\ c = <<p, i>>
        /\ header_bitmap[p] \in HeaderBitmap
        /\ seen[a] \in HeaderBitmap
    BY DEF Chunks, TypeOK
  <1>at. \A b \in Actors : at[b] \in Chunks /\ at[b] = <<at[b][1], at[b][2]>>
                           /\ at[b][1] \in Pages /\ at[b][2] \in Slots
    BY DEF TypeOK, Chunks
  \* Steps that leave the words alone and do not make a the owner of a chunk.
  <1>q. ASSUME NEW label,
               label \notin {"store_header", "writing", "reading", "clear_header", "crashed"},
               label \in {"release_load", "release_cas", "gave_up"} => Holds(a) /\ at'[a] = at[a],
               label = "acquire_cas" => /\ seen'[a].partitioned
                                        /\ seen'[a].state[at'[a][2]] = AcquireFrom(a),
               label = "release_cas" => /\ seen'[a].partitioned
                                        /\ seen'[a].state[at'[a][2]] = ReleaseFrom(a),
               pc' = [pc EXCEPT ![a] = label],
               \A b \in Actors \ {a} : at'[b] = at[b] /\ seen'[b] = seen[b],
               UNCHANGED header_bitmap
        PROVE  OwnershipInv'
    <2>1. \A b \in Actors : pc'[b] = IF b = a THEN label ELSE pc[b]
      BY <1>q DEF TypeOK
    <2>2. \A b \in Actors : Holds(b)' => Holds(b) /\ at'[b] = at[b]
      BY <1>q, <2>1 DEF Holds
    <2>3. ExclusiveOwnership'
      BY <2>2 DEF ExclusiveOwnership
    <2>4. OwnedChunkInOwnersState'
      BY <1>q, <2>2 DEF OwnedChunkInOwnersState, GetChunkState, AcquireInto
    <2>5. NoLayoutNoChunks' /\ NoCheckFailure'
      BY <1>q, <2>1 DEF NoLayoutNoChunks, NoCheckFailure
    <2>6. SeenAllowsSwap'
      BY <1>q, <2>1 DEF SeenAllowsSwap, AcquireFrom, ReleaseFrom, AcquireInto
    <2> QED BY <2>3, <2>4, <2>5, <2>6
  <1>1. ASSUME NEW d \in Chunks, TryAcquireChunk(a, d) PROVE OwnershipInv'
    BY <1>1, <1>q DEF TryAcquireChunk, TypeOK, shared
  <1>2. CASE AcquireLoad(a)
    <2>1. CASE header_bitmap[p].partitioned /\ header_bitmap[p].state[i] = AcquireFrom(a)
      BY <1>0, <1>2, <1>q, <2>1 DEF AcquireLoad, TypeOK, shared
    <2>2. CASE ~(header_bitmap[p].partitioned /\ header_bitmap[p].state[i] = AcquireFrom(a))
      BY <1>0, <1>2, <1>q, <2>2 DEF AcquireLoad, Return, TypeOK, shared
    <2> QED BY <2>1, <2>2
  <1>4. CASE AcquireCasFails(a) \/ ReleaseCasFails(a)
    <2>1. PICK label \in {"acquire_load", "release_load", "idle", "gave_up"} :
             /\ pc' = [pc EXCEPT ![a] = label]
             /\ label \in {"release_load", "gave_up"} => pc[a] = "release_cas"
      BY <1>4 DEF AcquireCasFails, ReleaseCasFails, Retry, Return
    <2>2. pc'[a] = label
      BY <2>1 DEF TypeOK
    <2>3. /\ \A b \in Actors \ {a} : at'[b] = at[b] /\ seen'[b] = seen[b]
          /\ label # "idle" => at'[a] = at[a]
          /\ UNCHANGED header_bitmap
      BY <1>4, <2>2 DEF AcquireCasFails, ReleaseCasFails, Retry, Return, TypeOK, shared
    <2> QED BY <1>q, <2>1, <2>3 DEF Holds
  <1>5. CASE ReleaseLoad(a)
    <2>1. header_bitmap[p].partitioned /\ header_bitmap[p].state[i] = ReleaseFrom(a)
      BY <1>5 DEF ReleaseLoad, OwnedChunkInOwnersState, Holds, GetChunkState, ReleaseFrom
    <2> QED BY <1>0, <1>5, <1>q, <2>1 DEF ReleaseLoad, TypeOK, shared, Holds
  \* The two swaps: bits of chunk c change, bits of its neighbours do not.
  <1>3. CASE AcquireCas(a)
    <2> DEFINE word == WithState(seen[a], i, AcquireInto(a))
    <2>1. /\ header_bitmap[p] = seen[a]
          /\ seen[a].partitioned
          /\ seen[a].state[i] = AcquireFrom(a)
          /\ header_bitmap' = [header_bitmap EXCEPT ![p] = word]
          /\ UNCHANGED at
      BY <1>3 DEF AcquireCas, SeenAllowsSwap
    <2>2. PICK label \in {"store_header", "reading"} :
             Return(a, label)
      BY <1>3 DEF AcquireCas
    <2>3. /\ \A b \in Actors : pc'[b] = IF b = a THEN label ELSE pc[b]
          /\ \A b \in Actors \ {a} : seen'[b] = seen[b]
      BY <2>2 DEF Return, TypeOK
    <2>4. /\ word.partitioned
          /\ word.state[i] = AcquireInto(a)
          /\ \A j \in Slots \ {i} : word.state[j] = seen[a].state[j]
      BY <1>0, <2>1, WithStateType, AcquireReleaseStates
    <2>5. \A b \in Actors : Holds(b) => at[b] # c
      BY <1>0, <2>1, AcquireReleaseStates DEF OwnedChunkInOwnersState, GetChunkState
    <2>6. \A b \in Actors : Holds(b)' => Holds(b) \/ b = a
      BY <2>3 DEF Holds
    <2>7. ExclusiveOwnership'
      BY <2>1, <2>5, <2>6 DEF ExclusiveOwnership
    <2>8. OwnedChunkInOwnersState'
      <3> SUFFICES ASSUME NEW b \in Actors, Holds(b)'
                   PROVE  /\ header_bitmap'[at[b][1]].partitioned
                          /\ header_bitmap'[at[b][1]].state[at[b][2]] = AcquireInto(b)
        BY <2>1 DEF OwnedChunkInOwnersState, GetChunkState, AcquireInto
      <3>1. CASE b = a
        BY <1>0, <2>1, <2>4, <3>1 DEF TypeOK
      <3>2. CASE b # a
        <4>1. /\ header_bitmap[at[b][1]].partitioned
              /\ header_bitmap[at[b][1]].state[at[b][2]] = AcquireInto(b)
              /\ at[b] # c
          BY <2>5, <2>6, <3>2 DEF OwnedChunkInOwnersState, GetChunkState
        <4>2. CASE at[b][1] # p
          BY <1>at, <2>1, <4>1, <4>2 DEF TypeOK
        <4>3. CASE at[b][1] = p
          <5>1. at[b][2] \in Slots \ {i}
            BY <1>0, <1>at, <4>1, <4>3
          <5> QED BY <1>0, <2>1, <2>4, <4>1, <4>3, <5>1 DEF TypeOK
        <4> QED BY <4>2, <4>3
      <3> QED BY <3>1, <3>2
    <2>9. NoLayoutNoChunks'
      BY <1>0, <2>1, <2>4 DEF NoLayoutNoChunks, TypeOK
    <2>10. NoCheckFailure' /\ SeenAllowsSwap'
      BY <2>1, <2>3 DEF NoCheckFailure, SeenAllowsSwap, AcquireFrom, ReleaseFrom, AcquireInto
    <2> QED BY <2>7, <2>8, <2>9, <2>10
  <1>6. CASE ReleaseCas(a)
    <2> DEFINE word == ReleasedWord(seen[a], i, ReleaseInto(a))
    <2>1. /\ header_bitmap[p] = seen[a]
          /\ seen[a].partitioned
          /\ header_bitmap' = [header_bitmap EXCEPT ![p] = word]
          /\ at' = [at EXCEPT ![a] = NoChunk]
          /\ Holds(a)
      BY <1>6 DEF ReleaseCas, SeenAllowsSwap, Holds
    <2>3. /\ \A b \in Actors : pc'[b] = IF b = a THEN "idle" ELSE pc[b]
          /\ \A b \in Actors \ {a} : seen'[b] = seen[b] /\ at'[b] = at[b]
      BY <1>6, <2>1 DEF ReleaseCas, Return, TypeOK
    <2>4. /\ \A j \in Slots \ {i} : word.state[j] = seen[a].state[j]
          /\ (\E j \in Slots : word.state[j] # "kChunkFree") => word.partitioned
          /\ ~word.partitioned => word = FreePage
      BY <1>0, <2>1, ReleasedWordType, AcquireReleaseStates, SMTT(30)
    <2>6. \A b \in Actors : Holds(b)' => Holds(b) /\ b # a
      BY <2>3 DEF Holds
    <2>7. ExclusiveOwnership'
      BY <2>3, <2>6 DEF ExclusiveOwnership
    <2>8. OwnedChunkInOwnersState'
      <3> SUFFICES ASSUME NEW b \in Actors, Holds(b)'
                   PROVE  /\ header_bitmap'[at[b][1]].partitioned
                          /\ header_bitmap'[at[b][1]].state[at[b][2]] = AcquireInto(b)
        BY <2>3, <2>6 DEF OwnedChunkInOwnersState, GetChunkState, AcquireInto
      <3>1. /\ header_bitmap[at[b][1]].partitioned
            /\ header_bitmap[at[b][1]].state[at[b][2]] = AcquireInto(b)
            /\ at[b] # c
        BY <2>1, <2>6 DEF OwnedChunkInOwnersState, GetChunkState, ExclusiveOwnership
      <3>2. CASE at[b][1] # p
        BY <1>at, <2>1, <3>1, <3>2 DEF TypeOK
      <3>3. CASE at[b][1] = p
        <4>1. at[b][2] \in Slots \ {i}
          BY <1>0, <1>at, <3>1, <3>3
        <4>2. word.state[at[b][2]] = AcquireInto(b) /\ word.partitioned
          BY <2>1, <2>4, <3>1, <3>3, <4>1, AcquireReleaseStates
        <4> QED BY <1>0, <2>1, <3>3, <4>2 DEF TypeOK
      <3> QED BY <3>2, <3>3
    <2>9. NoLayoutNoChunks'
      BY <1>0, <2>1, <2>4 DEF NoLayoutNoChunks, TypeOK
    <2>10. NoCheckFailure' /\ SeenAllowsSwap'
      BY <2>3 DEF NoCheckFailure, SeenAllowsSwap, AcquireFrom, ReleaseFrom, AcquireInto
    <2> QED BY <2>7, <2>8, <2>9, <2>10
  <1> QED BY <1>1, <1>2, <1>3, <1>4, <1>5, <1>6 DEF WordStep

\* A step that leaves the words alone and takes nobody into an operation on
\* them preserves ownership.
LEMMA OwnershipQuietStep ==
  ASSUME OwnershipInv, TypeOK,
         \A a \in Actors : /\ pc'[a] # "crashed"
                           /\ Holds(a)' => Holds(a) /\ at'[a] = at[a]
                           /\ pc'[a] \in {"acquire_cas", "release_cas"} =>
                                 pc'[a] = pc[a] /\ at'[a] = at[a] /\ seen'[a] = seen[a],
         UNCHANGED header_bitmap
  PROVE  OwnershipInv'
  <1> USE DEF OwnershipInv
  <1>1. ExclusiveOwnership'
    BY DEF ExclusiveOwnership
  <1>2. OwnedChunkInOwnersState'
    BY DEF OwnedChunkInOwnersState, GetChunkState, AcquireInto
  <1>3. NoLayoutNoChunks' /\ NoCheckFailure'
    BY DEF NoLayoutNoChunks, NoCheckFailure
  <1>4. SeenAllowsSwap'
    BY DEF SeenAllowsSwap, AcquireFrom, ReleaseFrom, AcquireInto
  <1> QED BY <1>1, <1>2, <1>3, <1>4

\* What a writer does to the chunk it holds, and TryPartitionPage, preserve
\* ownership.
LEMMA OwnershipWriterStep ==
  ASSUME TypeOK, OwnershipInv, NEW w \in Writers, WriterStep(w)
  PROVE  OwnershipInv'
  <1>0. w \in Actors
    BY DEF Actors
  <1>1. ASSUME NEW p \in Pages, TryPartitionPage(w, p) PROVE OwnershipInv'
    <2> USE DEF OwnershipInv
    <2>1. /\ header_bitmap[p] = FreePage
          /\ header_bitmap' = [header_bitmap EXCEPT ![p] = PartitionedPage]
          /\ UNCHANGED <<pc, at, seen>>
      BY <1>1 DEF TryPartitionPage, local
    <2>2. \A a \in Actors : /\ at[a][1] \in Pages
                            /\ Holds(a) => at[a][1] # p
      BY <2>1 DEF OwnedChunkInOwnersState, FreePage, TypeOK, Chunks
    <2>3. \A q \in Pages : header_bitmap'[q] = IF q = p THEN PartitionedPage ELSE header_bitmap[q]
      BY <2>1 DEF TypeOK
    <2>4. ExclusiveOwnership' /\ NoCheckFailure' /\ SeenAllowsSwap'
      BY <2>1 DEF ExclusiveOwnership, NoCheckFailure, SeenAllowsSwap, Holds,
         AcquireFrom, ReleaseFrom, AcquireInto
    <2>5. OwnedChunkInOwnersState'
      BY <2>1, <2>2, <2>3 DEF OwnedChunkInOwnersState, Holds, GetChunkState, AcquireInto
    <2>6. NoLayoutNoChunks'
      BY <2>1, <2>3 DEF NoLayoutNoChunks, PartitionedPage
    <2> QED BY <2>4, <2>5, <2>6
  <1>2. CASE StoreWriterId(w) \/ StoreChunkId(w) \/ IncrementPacketCount(w) \/ FinishPacket(w)
    <2>1. UNCHANGED <<header_bitmap, pc, at, seen>>
      BY <1>2 DEF StoreWriterId, StoreChunkId, IncrementPacketCount, FinishPacket, local
    <2> QED BY <2>1, OwnershipQuietStep DEF Holds, OwnershipInv, NoCheckFailure
  <1>3. CASE (\E n \in {0, 1} : StorePackets(w, n)) \/ ReleaseChunkAsComplete(w)
    <2>1. /\ UNCHANGED <<header_bitmap, at, seen>>
          /\ Holds(w)
          /\ \E label \in {"writing", "release_load"} : pc' = [pc EXCEPT ![w] = label]
      BY <1>3 DEF StorePackets, ReleaseChunkAsComplete, Holds, shared
    <2>2. /\ \A a \in Actors \ {w} : pc'[a] = pc[a]
          /\ pc'[w] \in {"writing", "release_load"}
      BY <1>0, <2>1 DEF TypeOK
    <2> QED BY <1>0, <2>1, <2>2, OwnershipQuietStep DEF Holds, OwnershipInv, NoCheckFailure
  <1> QED BY <1>1, <1>2, <1>3 DEF WriterStep

\* What the service does while it reads, frees or scrapes preserves ownership.
LEMMA OwnershipServiceStep ==
  ASSUME TypeOK, OwnershipInv, ServiceStep
  PROVE  OwnershipInv'
  <1>0. Service \in Actors
    BY DEF Actors
  <1>1. CASE ReleaseChunkAsFree \/ ClearChunkHeader
    <2>1. /\ UNCHANGED <<header_bitmap, at, seen>>
          /\ Holds(Service)
          /\ \E label \in {"clear_header", "release_load"} : pc' = [pc EXCEPT ![Service] = label]
      BY <1>1 DEF ReleaseChunkAsFree, ClearChunkHeader, Holds, shared
    <2>2. /\ \A a \in Actors \ {Service} : pc'[a] = pc[a]
          /\ pc'[Service] \in {"clear_header", "release_load"}
      BY <1>0, <2>1 DEF TypeOK
    <2> QED BY <1>0, <2>1, <2>2, OwnershipQuietStep DEF Holds, OwnershipInv, NoCheckFailure
  <1>2. CASE BeginScrape \/ ScrapePage \/ ScrapeChunk \/ ScrapeCopy
    <2>1. /\ UNCHANGED header_bitmap
          /\ \E label \in {"idle", "scrape_page", "scrape_chunk", "scrape_copy"} :
                pc' = [pc EXCEPT ![Service] = label]
          /\ \E d \in {at[Service], at'[Service]} : at' = [at EXCEPT ![Service] = d]
          /\ \E v \in {seen[Service], seen'[Service]} : seen' = [seen EXCEPT ![Service] = v]
      <3>1. UNCHANGED header_bitmap
        BY <1>2 DEF BeginScrape, ScrapePage, ScrapeChunk, ScrapeCopy, shared
      <3>2. \E label \in {"idle", "scrape_page", "scrape_chunk", "scrape_copy"} :
                pc' = [pc EXCEPT ![Service] = label]
        BY <1>2 DEF BeginScrape, ScrapePage, ScrapeChunk, ScrapeCopy, NextScrapable
      <3>3. at' = at \/ \E d : at' = [at EXCEPT ![Service] = d]
        BY <1>2 DEF BeginScrape, ScrapePage, ScrapeChunk, ScrapeCopy, NextScrapable
      <3>4. seen' = seen \/ \E v : seen' = [seen EXCEPT ![Service] = v]
        BY <1>2 DEF BeginScrape, ScrapePage, ScrapeChunk, ScrapeCopy, NextScrapable
      <3> QED BY <1>0, <3>1, <3>2, <3>3, <3>4 DEF TypeOK
    <2>2. /\ \A a \in Actors \ {Service} : pc'[a] = pc[a] /\ at'[a] = at[a] /\ seen'[a] = seen[a]
          /\ pc'[Service] \in {"idle", "scrape_page", "scrape_chunk", "scrape_copy"}
      BY <1>0, <2>1 DEF TypeOK
    <2> QED BY <1>0, <2>1, <2>2, OwnershipQuietStep DEF Holds, OwnershipInv, NoCheckFailure
  <1> QED BY <1>1, <1>2 DEF ServiceStep

\* Ownership is an invariant of the protocol for every number of pages,
\* chunks, writers and retries.
THEOREM OwnershipInvariant == Spec => []OwnershipInv
  <1>1. TypeOK /\ TypeOK' /\ OwnershipInv /\ [Next]_vars => OwnershipInv'
    <2>1. TypeOK /\ OwnershipInv /\ UNCHANGED vars => OwnershipInv'
      <3> SUFFICES ASSUME TypeOK, OwnershipInv, UNCHANGED vars PROVE OwnershipInv'
        OBVIOUS
      <3>1. UNCHANGED <<header_bitmap, pc, at, seen>>
        BY DEF vars, shared, local
      <3> QED BY <3>1, OwnershipQuietStep DEF Holds, OwnershipInv, NoCheckFailure
    <2> QED BY <2>1, OwnershipWordStep, OwnershipWriterStep, OwnershipServiceStep DEF Next
  <1> QED BY <1>1, OwnershipInit, TypeCorrect, PTL DEF Spec

\* TryAcquireChunk and ReleaseChunk give a chunk to one actor at a time.
THEOREM ChunksHaveOneOwner == Spec => []ExclusiveOwnership
  BY OwnershipInvariant, PTL DEF OwnershipInv

\* No CHECK of ReleaseChunk fails between sane producers and the service.
THEOREM ChecksNeverFail == Spec => []NoCheckFailure
  BY OwnershipInvariant, PTL DEF OwnershipInv

-----------------------------------------------------------------------------
(***************************************************************************)
(* Transitions of the words.                                               *)
(***************************************************************************)
\* One word rewritten in one legal transition of one chunk is all a step does.
LEMMA OneTransitionFromWord ==
  ASSUME TypeOK, NEW p \in Pages, NEW i \in Slots, NEW word \in HeaderBitmap,
         header_bitmap' = [header_bitmap EXCEPT ![p] = word],
         <<header_bitmap[p].state[i], word.state[i]>> \in LegalTransition,
         \A j \in Slots \ {i} : word.state[j] = header_bitmap[p].state[j]
  PROVE  OneTransition
  <1> SUFFICES ASSUME NEW q \in Pages, header_bitmap'[q].state # header_bitmap[q].state
               PROVE  \E k \in Slots :
                         /\ <<header_bitmap[q].state[k], header_bitmap'[q].state[k]>>
                               \in LegalTransition
                         /\ \A j \in Slots \ {k} :
                               header_bitmap'[q].state[j] = header_bitmap[q].state[j]
    BY DEF OneTransition
  <1>1. q = p /\ header_bitmap'[q] = word
    BY DEF TypeOK
  <1>2. /\ <<header_bitmap[q].state[i], header_bitmap'[q].state[i]>> \in LegalTransition
        /\ \A j \in Slots \ {i} : header_bitmap'[q].state[j] = header_bitmap[q].state[j]
    BY <1>1
  <1> QED BY <1>2

\* A step of the protocol changes the state of at most one chunk of a page,
\* along a legal transition.
LEMMA StepIsOneTransition ==
  ASSUME TypeOK, OwnershipInv, Next
  PROVE  OneTransition
  <1>q. UNCHANGED header_bitmap => OneTransition
    BY DEF OneTransition
  <1>1. ASSUME NEW a \in Actors, WordStep(a) PROVE OneTransition
    <2> DEFINE p == at[a][1]
               i == at[a][2]
    <2>0. p \in Pages /\ i \in Slots /\ seen[a] \in HeaderBitmap
      BY DEF TypeOK, Chunks
    <2>1. CASE AcquireCas(a)
      <3> DEFINE word == WithState(seen[a], i, AcquireInto(a))
      <3>1. /\ header_bitmap[p] = seen[a]
            /\ seen[a].state[i] = AcquireFrom(a)
            /\ header_bitmap' = [header_bitmap EXCEPT ![p] = word]
        BY <2>1 DEF AcquireCas, OwnershipInv, SeenAllowsSwap
      <3>2. /\ word \in HeaderBitmap
            /\ word.state[i] = AcquireInto(a)
            /\ \A j \in Slots \ {i} : word.state[j] = seen[a].state[j]
        BY <2>0, WithStateType, AcquireReleaseStates, SMTT(30)
      <3>3. <<AcquireFrom(a), AcquireInto(a)>> \in LegalTransition
        BY DEF AcquireFrom, AcquireInto, LegalTransition
      <3>4. <<header_bitmap[p].state[i], word.state[i]>> \in LegalTransition
        BY <3>1, <3>2, <3>3
      <3>5. \A j \in Slots \ {i} : word.state[j] = header_bitmap[p].state[j]
        BY <3>1, <3>2
      <3> HIDE DEF word, p, i
      <3> QED BY <2>0, <3>1, <3>2, <3>4, <3>5, OneTransitionFromWord, ZenonT(30)
    <2>2. CASE ReleaseCas(a)
      <3> DEFINE word == ReleasedWord(seen[a], i, ReleaseInto(a))
      <3>1. /\ header_bitmap[p] = seen[a]
            /\ seen[a].state[i] = ReleaseFrom(a)
            /\ header_bitmap' = [header_bitmap EXCEPT ![p] = word]
        BY <2>2 DEF ReleaseCas, OwnershipInv, SeenAllowsSwap
      <3>2. /\ word \in HeaderBitmap
            /\ word.state[i] = ReleaseInto(a)
            /\ \A j \in Slots \ {i} : word.state[j] = seen[a].state[j]
        BY <2>0, ReleasedWordType, AcquireReleaseStates, SMTT(30)
      <3>3. <<ReleaseFrom(a), ReleaseInto(a)>> \in LegalTransition
        BY DEF ReleaseFrom, ReleaseInto, AcquireInto, LegalTransition
      <3>4. <<header_bitmap[p].state[i], word.state[i]>> \in LegalTransition
        BY <3>1, <3>2, <3>3
      <3>5. \A j \in Slots \ {i} : word.state[j] = header_bitmap[p].state[j]
        BY <3>1, <3>2
      <3> HIDE DEF word, p, i
      <3> QED BY <2>0, <3>1, <3>2, <3>4, <3>5, OneTransitionFromWord, ZenonT(30)
    <2>3. CASE ~AcquireCas(a) /\ ~ReleaseCas(a)
      BY <1>1, <1>q, <2>3 DEF WordStep, TryAcquireChunk, AcquireLoad, AcquireCasFails,
         ReleaseLoad, ReleaseCasFails, shared
    <2> QED BY <2>1, <2>2, <2>3
  <1>2. ASSUME NEW w \in Writers, WriterStep(w) PROVE OneTransition
    <2>1. ASSUME NEW p \in Pages, TryPartitionPage(w, p) PROVE OneTransition
      <3>1. \A q \in Pages : header_bitmap'[q].state = header_bitmap[q].state
        BY <2>1 DEF TryPartitionPage, PartitionedPage, FreePage, TypeOK
      <3> QED BY <3>1 DEF OneTransition
    <2>2. CASE ~(\E p \in Pages : TryPartitionPage(w, p))
      BY <1>2, <1>q, <2>2 DEF WriterStep, StoreWriterId, StoreChunkId, StorePackets,
         IncrementPacketCount, FinishPacket, ReleaseChunkAsComplete, shared
    <2> QED BY <2>1, <2>2
  <1>3. CASE ServiceStep
    BY <1>3, <1>q DEF ServiceStep, ReleaseChunkAsFree, ClearChunkHeader, BeginScrape,
       ScrapePage, ScrapeChunk, ScrapeCopy, shared
  <1> QED BY <1>1, <1>2, <1>3 DEF Next

\* No interleaving of loads and swaps makes a word go back or skip a state.
THEOREM TransitionsAreLegal == Spec => OneTransitionAtATime
  <1>1. TypeOK /\ OwnershipInv /\ [Next]_vars => [OneTransition]_vars
    BY StepIsOneTransition
  <1> QED BY <1>1, TypeCorrect, OwnershipInvariant, PTL DEF Spec, OneTransitionAtATime

-----------------------------------------------------------------------------
(***************************************************************************)
(* The invariant of the headers, chunk by chunk and user by user.          *)
(***************************************************************************)
StateFits(c) ==
    /\ GetChunkState(c) = "kChunkFree" => packets[c] = 0
    /\ GetChunkState(c) = "kChunkBeingWritten" => \E w \in Writers : Holds(w) /\ at[w] = c
    /\ GetChunkState(c) = "kChunkComplete" => IdsCurrent(c) /\ packets[c] = written[c]
    /\ GetChunkState(c) = "kChunkBeingRead" =>
          packets[c] = 0 \/ (pc[Service] \in {"reading", "clear_header"} /\ at[Service] = c)

WriterFits(w) ==
    /\ pc[w] = "store_header" =>
          /\ packets[at[w]] = 0 /\ written[at[w]] = 0
          /\ "writer_id" \notin unstored[w] => writer_id[at[w]] = lease[at[w]].writer_id
          /\ "chunk_id" \notin unstored[w] => chunk_id[at[w]] = lease[at[w]].chunk_id
    /\ pc[w] \in {"writing", "release_load", "release_cas", "gave_up"} => IdsCurrent(at[w])
    /\ pc[w] = "writing" => packets[at[w]] \in written[at[w]] .. written[at[w]] + 1
    /\ pc[w] \in {"release_load", "release_cas", "gave_up"} => packets[at[w]] = written[at[w]]

ServiceFits ==
    /\ pc[Service] \in {"reading", "clear_header"} =>
          IdsCurrent(at[Service]) /\ packets[at[Service]] = written[at[Service]]
    /\ pc[Service] \in {"release_load", "release_cas"} => packets[at[Service]] = 0

\* The parts make up what the runs check.
LEMMA HeaderParts ==
  /\ HeaderFitsState <=> \A c \in Chunks : StateFits(c)
  /\ HeaderFitsUser <=> (\A w \in Writers : WriterFits(w)) /\ ServiceFits
  BY DEF HeaderFitsState, HeaderFitsUser, StateFits, WriterFits, ServiceFits

\* The same of the next state.
LEMMA HeaderPartsNext ==
  /\ HeaderFitsState' <=> \A c \in Chunks : StateFits(c)'
  /\ HeaderFitsUser' <=> (\A w \in Writers : WriterFits(w)') /\ ServiceFits'
  BY DEF HeaderFitsState, HeaderFitsUser, StateFits, WriterFits, ServiceFits

\* The memory of chunk c, apart from the header word, is left alone.
SameMemory(c) ==
    /\ writer_id'[c] = writer_id[c] /\ chunk_id'[c] = chunk_id[c]
    /\ packets'[c] = packets[c] /\ written'[c] = written[c] /\ lease'[c] = lease[c]

\* A chunk that a step leaves alone, and whose user it does not take away, fits.
LEMMA StateFitsFrame ==
  ASSUME NEW c \in Chunks, StateFits(c), SameMemory(c),
         GetChunkState(c)' = GetChunkState(c),
         \A w \in Writers : Holds(w) /\ at[w] = c => Holds(w)' /\ at'[w] = c,
         pc[Service] \in {"reading", "clear_header"} /\ at[Service] = c =>
            pc'[Service] \in {"reading", "clear_header"} /\ at'[Service] = c
  PROVE  StateFits(c)'
  <1>1. IdsCurrent(c) => IdsCurrent(c)'
    BY DEF SameMemory, IdsCurrent
  <1> QED BY <1>1 DEF StateFits, SameMemory

\* A writer whose chunk a step leaves alone fits if it stays where it is.
LEMMA WriterFitsFrame ==
  ASSUME NEW w \in Writers, WriterFits(w),
         Holds(w)' => /\ pc'[w] = pc[w] /\ at'[w] = at[w] /\ unstored'[w] = unstored[w]
                      /\ SameMemory(at[w])
  PROVE  WriterFits(w)'
  BY DEF WriterFits, SameMemory, IdsCurrent, Holds

\* The same of the service.
LEMMA ServiceFitsFrame ==
  ASSUME ServiceFits,
         Holds(Service)' => /\ pc'[Service] = pc[Service] /\ at'[Service] = at[Service]
                            /\ SameMemory(at[Service])
  PROVE  ServiceFits'
  BY DEF ServiceFits, SameMemory, IdsCurrent, Holds

\* A swap of the word of a page changes the state of one chunk.
LEMMA SwapChangesOneChunk ==
  ASSUME TypeOK, NEW c \in Chunks, NEW s, NEW word,
         header_bitmap' = [header_bitmap EXCEPT ![c[1]] = word],
         word.state[c[2]] = s,
         \A j \in Slots \ {c[2]} : word.state[j] = header_bitmap[c[1]].state[j]
  PROVE  \A d \in Chunks : GetChunkState(d)' = IF d = c THEN s ELSE GetChunkState(d)
  <1> SUFFICES ASSUME NEW d \in Chunks
               PROVE  header_bitmap'[d[1]].state[d[2]] =
                          IF d = c THEN s ELSE header_bitmap[d[1]].state[d[2]]
    BY DEF GetChunkState
  <1>1. /\ c = <<c[1], c[2]>> /\ c[1] \in Pages /\ c[2] \in Slots
        /\ d = <<d[1], d[2]>> /\ d[1] \in Pages /\ d[2] \in Slots
    BY DEF Chunks
  <1>2. \A q \in Pages : header_bitmap'[q] = IF q = c[1] THEN word ELSE header_bitmap[q]
    BY DEF TypeOK
  <1>3. CASE d[1] # c[1]
    BY <1>1, <1>2, <1>3
  <1>4. CASE d[1] = c[1] /\ d[2] # c[2]
    BY <1>1, <1>2, <1>4
  <1>5. CASE d[1] = c[1] /\ d[2] = c[2]
    BY <1>1, <1>2, <1>5
  <1> QED BY <1>3, <1>4, <1>5

\* A successful acquisition takes the chunk from AcquireFrom to AcquireInto.
LEMMA AcquireCasState ==
  ASSUME TypeOK, OwnershipInv, NEW a \in Actors, AcquireCas(a)
  PROVE  /\ GetChunkState(at[a]) = AcquireFrom(a)
         /\ \A d \in Chunks : GetChunkState(d)' =
               IF d = at[a] THEN AcquireInto(a) ELSE GetChunkState(d)
  <1> DEFINE word == WithState(seen[a], at[a][2], AcquireInto(a))
  <1>0. at[a] \in Chunks /\ at[a][1] \in Pages /\ at[a][2] \in Slots /\ seen[a] \in HeaderBitmap
    BY DEF TypeOK, Chunks
  <1>1. /\ header_bitmap[at[a][1]] = seen[a]
        /\ seen[a].state[at[a][2]] = AcquireFrom(a)
        /\ header_bitmap' = [header_bitmap EXCEPT ![at[a][1]] = word]
    BY DEF AcquireCas, OwnershipInv, SeenAllowsSwap
  <1>2. /\ word.state[at[a][2]] = AcquireInto(a)
        /\ \A j \in Slots \ {at[a][2]} : word.state[j] = header_bitmap[at[a][1]].state[j]
    BY <1>0, <1>1, WithStateType, AcquireReleaseStates, SMTT(30)
  <1> HIDE DEF word
  <1>3. \A d \in Chunks : GetChunkState(d)' =
           IF d = at[a] THEN AcquireInto(a) ELSE GetChunkState(d)
    BY <1>0, <1>1, <1>2, SwapChangesOneChunk
  <1>4. GetChunkState(at[a]) = AcquireFrom(a)
    BY <1>1 DEF GetChunkState
  <1> QED BY <1>3, <1>4

\* A successful release takes the chunk from ReleaseFrom to ReleaseInto.
LEMMA ReleaseCasState ==
  ASSUME TypeOK, OwnershipInv, NEW a \in Actors, ReleaseCas(a)
  PROVE  /\ GetChunkState(at[a]) = ReleaseFrom(a)
         /\ \A d \in Chunks : GetChunkState(d)' =
               IF d = at[a] THEN ReleaseInto(a) ELSE GetChunkState(d)
  <1> DEFINE word == ReleasedWord(seen[a], at[a][2], ReleaseInto(a))
  <1>0. at[a] \in Chunks /\ at[a][1] \in Pages /\ at[a][2] \in Slots /\ seen[a] \in HeaderBitmap
    BY DEF TypeOK, Chunks
  <1>1. /\ header_bitmap[at[a][1]] = seen[a]
        /\ seen[a].state[at[a][2]] = ReleaseFrom(a)
        /\ header_bitmap' = [header_bitmap EXCEPT ![at[a][1]] = word]
    BY DEF ReleaseCas, OwnershipInv, SeenAllowsSwap
  <1>2. /\ word.state[at[a][2]] = ReleaseInto(a)
        /\ \A j \in Slots \ {at[a][2]} : word.state[j] = header_bitmap[at[a][1]].state[j]
    BY <1>0, <1>1, ReleasedWordType, AcquireReleaseStates, SMTT(30)
  <1> HIDE DEF word
  <1>3. \A d \in Chunks : GetChunkState(d)' =
           IF d = at[a] THEN ReleaseInto(a) ELSE GetChunkState(d)
    BY <1>0, <1>1, <1>2, SwapChangesOneChunk
  <1>4. GetChunkState(at[a]) = ReleaseFrom(a)
    BY <1>1 DEF GetChunkState
  <1> QED BY <1>3, <1>4

\* TryPartitionPage does not change the state of a chunk.
LEMMA PartitionState ==
  ASSUME TypeOK, NEW w \in Writers, NEW p \in Pages, TryPartitionPage(w, p)
  PROVE  \A d \in Chunks : GetChunkState(d)' = GetChunkState(d)
  BY DEF TryPartitionPage, GetChunkState, FreePage, PartitionedPage, TypeOK, Chunks

-----------------------------------------------------------------------------
(***************************************************************************)
(* The headers fit the states of the chunks and the places of their users. *)
(***************************************************************************)
\* In zeroed memory every packet count is 0 and nobody uses a chunk.
LEMMA HeaderFitsInit == Init => HeaderFitsState /\ HeaderFitsUser
  <1> SUFFICES ASSUME Init
               PROVE  /\ \A c \in Chunks : StateFits(c)
                      /\ \A w \in Writers : WriterFits(w)
                      /\ ServiceFits
    BY HeaderParts
  <1>1. \A c \in Chunks : GetChunkState(c) = "kChunkFree" /\ packets[c] = 0
    BY DEF Init, GetChunkState, FreePage, AllChunksFree, Chunks
  <1>2. \A a \in Actors : pc[a] = "idle"
    BY DEF Init
  <1> QED BY <1>1, <1>2 DEF StateFits, WriterFits, ServiceFits, Actors

\* A step that touches no chunk, and moves actor a between places that say the
\* same of the header of its chunk.
LEMMA HeaderQuietStep ==
  ASSUME TypeOK, HeaderFitsState, HeaderFitsUser, NEW a \in Actors,
         UNCHANGED <<shared, unstored>>,
         \A b \in Actors \ {a} : pc'[b] = pc[b] /\ at'[b] = at[b],
         \/ ~Holds(a) /\ ~Holds(a)'
         \/ /\ {pc[a], pc'[a]} \subseteq {"release_load", "release_cas"}
            /\ at'[a] = at[a]
         \/ a # Service /\ pc[a] = "release_cas" /\ pc'[a] = "gave_up" /\ at'[a] = at[a]
         \/ a = Service /\ pc[a] = "release_cas" /\ pc'[a] = "idle"
         \/ a = Service /\ pc[a] = "reading" /\ pc'[a] = "clear_header" /\ at'[a] = at[a]
  PROVE  HeaderFitsState' /\ HeaderFitsUser'
  <1>0. /\ \A c \in Chunks : StateFits(c) /\ SameMemory(c) /\ GetChunkState(c)' = GetChunkState(c)
        /\ \A w \in Writers : WriterFits(w) /\ w \in Actors /\ w # Service
        /\ ServiceFits /\ Service \in Actors
        /\ \A b \in Actors : at[b] \in Chunks
    BY HeaderParts, ActorsAssumption DEF SameMemory, shared, header, GetChunkState, Actors, TypeOK
  <1>1. ASSUME NEW c \in Chunks PROVE StateFits(c)'
    <2>1. \A w \in Writers : Holds(w) /\ at[w] = c => Holds(w)' /\ at'[w] = c
      BY <1>0 DEF Holds
    <2>2. pc[Service] \in {"reading", "clear_header"} /\ at[Service] = c =>
            pc'[Service] \in {"reading", "clear_header"} /\ at'[Service] = c
      BY <1>0 DEF Holds
    <2> QED BY <1>0, <2>1, <2>2, StateFitsFrame
  <1>2. ASSUME NEW w \in Writers PROVE WriterFits(w)'
    <2>1. CASE Holds(w)' => pc'[w] = pc[w] /\ at'[w] = at[w]
      BY <1>0, <2>1, WriterFitsFrame
    <2>2. CASE ~(Holds(w)' => pc'[w] = pc[w] /\ at'[w] = at[w])
      <3>1. /\ pc[w] \in {"release_load", "release_cas"}
            /\ pc'[w] \in {"release_load", "release_cas", "gave_up"}
            /\ at'[w] = at[w] /\ at[w] \in Chunks
        BY <1>0, <2>2 DEF Holds
      <3> QED BY <1>0, <3>1 DEF WriterFits, SameMemory, IdsCurrent
    <2> QED BY <2>1, <2>2
  <1>3. ServiceFits'
    <2>1. CASE a = Service
      BY <1>0, <2>1 DEF ServiceFits, SameMemory, IdsCurrent, Holds
    <2>2. CASE a # Service
      BY <1>0, <2>2, ServiceFitsFrame
    <2> QED BY <2>1, <2>2
  <1> QED BY <1>1, <1>2, <1>3, HeaderPartsNext

\* A step of an actor that changes one chunk leaves the other chunks, and their
\* users, fitting.
LEMMA HeaderOthersStep ==
  ASSUME TypeOK, OwnershipInv, HeaderFitsState, HeaderFitsUser,
         NEW a \in Actors,
         \A b \in Actors \ {a} : /\ pc'[b] = pc[b] /\ at'[b] = at[b]
                                 /\ Holds(b) => at[b] # at[a],
         \A w \in Writers \ {a} : unstored'[w] = unstored[w],
         \A d \in Chunks \ {at[a]} : SameMemory(d) /\ GetChunkState(d)' = GetChunkState(d)
  PROVE  /\ \A d \in Chunks \ {at[a]} : StateFits(d)'
         /\ \A w \in Writers \ {a} : WriterFits(w)'
         /\ a # Service => ServiceFits'
  <1>0. /\ \A c \in Chunks : StateFits(c)
        /\ \A w \in Writers : WriterFits(w) /\ w \in Actors /\ w # Service
        /\ ServiceFits /\ Service \in Actors
        /\ \A b \in Actors : at[b] \in Chunks
    BY HeaderParts, ActorsAssumption DEF Actors, TypeOK
  <1>1. ASSUME NEW d \in Chunks \ {at[a]} PROVE StateFits(d)'
    <2>1. \A w \in Writers : Holds(w) /\ at[w] = d => Holds(w)' /\ at'[w] = d
      BY <1>0 DEF Holds
    <2>2. pc[Service] \in {"reading", "clear_header"} /\ at[Service] = d =>
            pc'[Service] \in {"reading", "clear_header"} /\ at'[Service] = d
      BY <1>0
    <2> QED BY <1>0, <2>1, <2>2, StateFitsFrame
  <1>2. ASSUME NEW w \in Writers \ {a} PROVE WriterFits(w)'
    BY <1>0, WriterFitsFrame DEF Holds
  <1>3. ASSUME a # Service PROVE ServiceFits'
    BY <1>0, <1>3, ServiceFitsFrame DEF Holds
  <1> QED BY <1>1, <1>2, <1>3

\* The loads and swaps of TryAcquireChunk and ReleaseChunk keep the headers
\* fitting: a chunk is acquired for writing with the count 0 that the service
\* left, and completed with everything written.
LEMMA HeaderWordStep ==
  ASSUME TypeOK, OwnershipInv, HeaderFitsState, HeaderFitsUser, NEW a \in Actors, WordStep(a)
  PROVE  HeaderFitsState' /\ HeaderFitsUser'
  <1> DEFINE c == at[a]
  <1>0. /\ c \in Chunks
        /\ \A d \in Chunks : StateFits(d)
        /\ \A w \in Writers : WriterFits(w) /\ w \in Actors /\ w # Service
        /\ ServiceFits /\ Service \in Actors
        /\ a # Service => a \in Writers
    BY HeaderParts, ActorsAssumption DEF TypeOK, Actors
  <1>1. ASSUME NEW d \in Chunks, TryAcquireChunk(a, d)
        PROVE  HeaderFitsState' /\ HeaderFitsUser'
    <2>1. /\ \A b \in Actors \ {a} : pc'[b] = pc[b] /\ at'[b] = at[b]
          /\ pc[a] = "idle" /\ pc'[a] = "acquire_load"
          /\ UNCHANGED <<shared, unstored>>
      BY <1>1 DEF TryAcquireChunk, TypeOK
    <2> QED BY <2>1, HeaderQuietStep DEF Holds
  <1>2. CASE AcquireLoad(a)
    <2>1. /\ \A b \in Actors \ {a} : pc'[b] = pc[b] /\ at'[b] = at[b]
          /\ pc[a] = "acquire_load" /\ pc'[a] \in {"acquire_cas", "idle"}
          /\ UNCHANGED <<shared, unstored>>
      BY <1>2 DEF AcquireLoad, Return, TypeOK
    <2> QED BY <2>1, HeaderQuietStep DEF Holds
  <1>3. CASE AcquireCas(a)
    <2>1. /\ GetChunkState(c) = AcquireFrom(a)
          /\ \A d \in Chunks : GetChunkState(d)' =
                IF d = c THEN AcquireInto(a) ELSE GetChunkState(d)
      BY <1>3, AcquireCasState
    <2>2. \A b \in Actors : Holds(b) => at[b] # c
      BY <2>1, AcquireReleaseStates DEF OwnershipInv, OwnedChunkInOwnersState
    <2>3. /\ \A b \in Actors \ {a} : pc'[b] = pc[b]
          /\ UNCHANGED <<at, writer_id, chunk_id, packets>>
          /\ \A d \in Chunks \ {c} : written'[d] = written[d] /\ lease'[d] = lease[d]
          /\ \A w \in Writers \ {a} : unstored'[w] = unstored[w]
      BY <1>0, <1>3 DEF AcquireCas, Return, header, TypeOK
    <2>4. /\ \A d \in Chunks \ {c} : StateFits(d)'
          /\ \A w \in Writers \ {a} : WriterFits(w)'
          /\ a # Service => ServiceFits'
      BY <2>1, <2>2, <2>3, HeaderOthersStep DEF SameMemory
    <2>5. CASE a = Service
      <3>1. /\ pc'[Service] = "reading"
            /\ UNCHANGED <<at, written, lease, writer_id, chunk_id, packets>>
        BY <1>0, <1>3, <2>5 DEF AcquireCas, Return, header, TypeOK
      <3>2. IdsCurrent(c) /\ packets[c] = written[c]
        BY <1>0, <2>1, <2>5 DEF StateFits, AcquireFrom
      <3>3. \A d \in Chunks : d = c => StateFits(d)'
        BY <1>0, <2>1, <2>5, <3>1 DEF StateFits, AcquireInto
      <3>4. ServiceFits'
        BY <2>5, <3>1, <3>2 DEF ServiceFits, IdsCurrent
      <3> QED BY <1>0, <2>4, <2>5, <3>3, <3>4, HeaderPartsNext
    <2>6. CASE a # Service
      <3>1. /\ pc'[a] = "store_header"
            /\ UNCHANGED <<at, packets>>
            /\ written'[c] = 0
            /\ unstored'[a] = IdFields
        BY <1>0, <1>3, <2>6 DEF AcquireCas, Return, header, TypeOK
      <3>2. packets[c] = 0
        BY <1>0, <2>1, <2>6 DEF StateFits, AcquireFrom
      <3>3. WriterFits(a)'
        BY <3>1, <3>2 DEF WriterFits, IdFields
      <3>4. \A d \in Chunks : d = c => StateFits(d)'
        BY <1>0, <2>1, <2>6, <3>1 DEF StateFits, AcquireInto, Holds
      <3> QED BY <1>0, <2>4, <2>6, <3>3, <3>4, HeaderPartsNext
    <2> QED BY <2>5, <2>6
  <1>4. CASE AcquireCasFails(a) \/ ReleaseCasFails(a)
    <2>1. PICK label : pc' = [pc EXCEPT ![a] = label]
      BY <1>4 DEF AcquireCasFails, ReleaseCasFails, Retry, Return
    <2>2. pc'[a] = label
      BY <2>1 DEF TypeOK
    <2>3. /\ \A b \in Actors \ {a} : pc'[b] = pc[b] /\ at'[b] = at[b]
          /\ label # "idle" => at'[a] = at[a]
          /\ UNCHANGED <<shared, unstored>>
      BY <1>4, <2>1, <2>2 DEF AcquireCasFails, ReleaseCasFails, TypeOK
    <2>4. \/ pc[a] = "acquire_cas" /\ label \in {"acquire_load", "idle"}
          \/ /\ pc[a] = "release_cas"
             /\ label \in {"release_load", IF a = Service THEN "idle" ELSE "gave_up"}
      BY <1>4, <2>1, <2>2 DEF AcquireCasFails, ReleaseCasFails, Retry, Return, TypeOK
    <2>5. CASE pc[a] = "acquire_cas"
      BY <2>2, <2>3, <2>4, <2>5, HeaderQuietStep DEF Holds
    <2>6. CASE pc[a] = "release_cas"
      BY <2>2, <2>3, <2>4, <2>6, HeaderQuietStep DEF Holds
    <2> QED BY <2>4, <2>5, <2>6
  <1>5. CASE ReleaseLoad(a)
    <2>1. header_bitmap[c[1]].partitioned /\ header_bitmap[c[1]].state[c[2]] = ReleaseFrom(a)
      BY <1>5 DEF ReleaseLoad, OwnershipInv, OwnedChunkInOwnersState, Holds, GetChunkState,
         ReleaseFrom
    <2>2. /\ \A b \in Actors \ {a} : pc'[b] = pc[b] /\ at'[b] = at[b]
          /\ pc[a] = "release_load" /\ pc'[a] = "release_cas" /\ at'[a] = at[a]
          /\ UNCHANGED <<shared, unstored>>
      BY <1>5, <2>1 DEF ReleaseLoad, TypeOK
    <2> QED BY <2>2, HeaderQuietStep
  <1>6. CASE ReleaseCas(a)
    <2>1. /\ GetChunkState(c) = ReleaseFrom(a)
          /\ \A d \in Chunks : GetChunkState(d)' =
                IF d = c THEN ReleaseInto(a) ELSE GetChunkState(d)
      BY <1>6, ReleaseCasState
    <2>2. \A b \in Actors \ {a} : Holds(b) => at[b] # c
      BY <1>6 DEF OwnershipInv, ExclusiveOwnership, Holds, ReleaseCas
    <2>3. /\ \A b \in Actors \ {a} : pc'[b] = pc[b] /\ at'[b] = at[b]
          /\ pc[a] = "release_cas" /\ pc'[a] = "idle"
          /\ UNCHANGED <<writer_id, chunk_id, packets, written, lease, unstored>>
      BY <1>6 DEF ReleaseCas, Return, header, TypeOK
    <2>4. /\ \A d \in Chunks \ {c} : StateFits(d)'
          /\ \A w \in Writers \ {a} : WriterFits(w)'
          /\ a # Service => ServiceFits'
      BY <2>1, <2>2, <2>3, HeaderOthersStep DEF SameMemory
    <2>5. CASE a = Service
      <3>1. \A d \in Chunks : d = c => StateFits(d)'
        BY <1>0, <2>1, <2>3, <2>5 DEF StateFits, ServiceFits, ReleaseInto
      <3>2. ServiceFits'
        BY <2>3, <2>5 DEF ServiceFits
      <3> QED BY <1>0, <2>4, <2>5, <3>1, <3>2, HeaderPartsNext
    <2>6. CASE a # Service
      <3>1. \A d \in Chunks : d = c => StateFits(d)'
        BY <1>0, <2>1, <2>3, <2>6 DEF StateFits, WriterFits, ReleaseInto, IdsCurrent
      <3>2. WriterFits(a)'
        BY <2>3, <2>6 DEF WriterFits
      <3> QED BY <1>0, <2>4, <2>6, <3>1, <3>2, HeaderPartsNext
    <2> QED BY <2>5, <2>6
  <1> QED BY <1>1, <1>2, <1>3, <1>4, <1>5, <1>6 DEF WordStep

\* A step of an actor that changes the header of the chunk it holds.
LEMMA HeaderOwnStep ==
  ASSUME TypeOK, OwnershipInv, HeaderFitsState, HeaderFitsUser,
         NEW a \in Actors, Holds(a), Holds(a)', at' = at, header_bitmap' = header_bitmap,
         \A b \in Actors \ {a} : pc'[b] = pc[b],
         \A w \in Writers \ {a} : unstored'[w] = unstored[w],
         \A d \in Chunks \ {at[a]} : SameMemory(d)
  PROVE  /\ a # Service /\ WriterFits(a)' => HeaderFitsState' /\ HeaderFitsUser'
         /\ a = Service /\ ServiceFits' /\ StateFits(at[a])' => HeaderFitsState' /\ HeaderFitsUser'
  <1>0. /\ at[a] \in Chunks /\ Service \in Actors
        /\ \A w \in Writers : w # Service
        /\ a # Service => a \in Writers
        /\ \A d \in Chunks : GetChunkState(d)' = GetChunkState(d)
        /\ GetChunkState(at[a]) = AcquireInto(a)
    BY ActorsAssumption DEF TypeOK, Actors, GetChunkState, OwnershipInv, OwnedChunkInOwnersState
  <1>1. \A b \in Actors \ {a} : Holds(b) => at[b] # at[a]
    BY DEF OwnershipInv, ExclusiveOwnership
  <1>2. /\ \A d \in Chunks \ {at[a]} : StateFits(d)'
        /\ \A w \in Writers \ {a} : WriterFits(w)'
        /\ a # Service => ServiceFits'
    BY <1>0, <1>1, HeaderOthersStep
  <1>3. ASSUME a # Service PROVE StateFits(at[a])'
    BY <1>0, <1>3 DEF StateFits, AcquireInto
  <1> QED BY <1>0, <1>2, <1>3, HeaderPartsNext

\* What a writer stores into the header of its chunk keeps it fitting.
LEMMA HeaderWriterStep ==
  ASSUME TypeOK, OwnershipInv, HeaderFitsState, HeaderFitsUser, NEW w \in Writers, WriterStep(w)
  PROVE  HeaderFitsState' /\ HeaderFitsUser'
  <1> DEFINE c == at[w]
  <1>0. /\ w \in Actors /\ w # Service /\ c \in Chunks
        /\ WriterFits(w)
        /\ packets[c] \in Nat /\ written[c] \in Nat
    BY ActorsAssumption, HeaderParts DEF Actors, TypeOK
  <1>1. ASSUME NEW p \in Pages, TryPartitionPage(w, p) PROVE HeaderFitsState' /\ HeaderFitsUser'
    <2>1. \A d \in Chunks : GetChunkState(d)' = GetChunkState(d)
      BY <1>1, PartitionState
    <2>2. UNCHANGED <<writer_id, chunk_id, packets, written, lease, pc, at, unstored>>
      BY <1>1 DEF TryPartitionPage, header, local
    <2>3. ASSUME NEW d \in Chunks PROVE StateFits(d)'
      BY <2>1, <2>2, HeaderParts, StateFitsFrame DEF Holds, SameMemory
    <2>4. ASSUME NEW v \in Writers PROVE WriterFits(v)'
      BY <2>2, HeaderParts, WriterFitsFrame DEF SameMemory
    <2>5. ServiceFits'
      BY <2>2, HeaderParts, ServiceFitsFrame DEF SameMemory
    <2> QED BY <2>3, <2>4, <2>5, HeaderPartsNext
  <1>2. CASE StoreWriterId(w)
    <2>1. WriterFits(w)'
      BY <1>0, <1>2 DEF StoreWriterId, WriterFits, TypeOK, IdFields
    <2>2. /\ Holds(w) /\ Holds(w)' /\ at' = at /\ header_bitmap' = header_bitmap
          /\ \A b \in Actors \ {w} : pc'[b] = pc[b]
          /\ \A v \in Writers \ {w} : unstored'[v] = unstored[v]
          /\ \A d \in Chunks \ {c} : SameMemory(d)
      BY <1>0, <1>2 DEF StoreWriterId, Holds, SameMemory, TypeOK
    <2> QED BY <1>0, <2>1, <2>2, HeaderOwnStep
  <1>3. CASE StoreChunkId(w)
    <2>1. WriterFits(w)'
      BY <1>0, <1>3 DEF StoreChunkId, WriterFits, TypeOK, IdFields
    <2>2. /\ Holds(w) /\ Holds(w)' /\ at' = at /\ header_bitmap' = header_bitmap
          /\ \A b \in Actors \ {w} : pc'[b] = pc[b]
          /\ \A v \in Writers \ {w} : unstored'[v] = unstored[v]
          /\ \A d \in Chunks \ {c} : SameMemory(d)
      BY <1>0, <1>3 DEF StoreChunkId, Holds, SameMemory, TypeOK
    <2> QED BY <1>0, <2>1, <2>2, HeaderOwnStep
  <1>4. ASSUME NEW n \in {0, 1}, StorePackets(w, n) PROVE HeaderFitsState' /\ HeaderFitsUser'
    <2>1. WriterFits(w)'
      BY <1>0, <1>4 DEF StorePackets, WriterFits, IdsCurrent, TypeOK
    <2>2. /\ Holds(w) /\ Holds(w)' /\ at' = at /\ header_bitmap' = header_bitmap
          /\ \A b \in Actors \ {w} : pc'[b] = pc[b]
          /\ \A v \in Writers \ {w} : unstored'[v] = unstored[v]
          /\ \A d \in Chunks \ {c} : SameMemory(d)
      BY <1>0, <1>4 DEF StorePackets, Holds, SameMemory, TypeOK
    <2> QED BY <1>0, <2>1, <2>2, HeaderOwnStep
  <1>5. CASE IncrementPacketCount(w)
    <2>1. WriterFits(w)'
      BY <1>0, <1>5 DEF IncrementPacketCount, WriterFits, IdsCurrent, TypeOK, local
    <2>2. /\ Holds(w) /\ Holds(w)' /\ at' = at /\ header_bitmap' = header_bitmap
          /\ \A b \in Actors \ {w} : pc'[b] = pc[b]
          /\ \A v \in Writers \ {w} : unstored'[v] = unstored[v]
          /\ \A d \in Chunks \ {c} : SameMemory(d)
      BY <1>0, <1>5 DEF IncrementPacketCount, Holds, SameMemory, TypeOK, local
    <2> QED BY <1>0, <2>1, <2>2, HeaderOwnStep
  <1>6. CASE FinishPacket(w)
    <2>1. WriterFits(w)'
      BY <1>0, <1>6 DEF FinishPacket, WriterFits, IdsCurrent, TypeOK, local, header
    <2>2. /\ Holds(w) /\ Holds(w)' /\ at' = at /\ header_bitmap' = header_bitmap
          /\ \A b \in Actors \ {w} : pc'[b] = pc[b]
          /\ \A v \in Writers \ {w} : unstored'[v] = unstored[v]
          /\ \A d \in Chunks \ {c} : SameMemory(d)
      BY <1>0, <1>6 DEF FinishPacket, Holds, SameMemory, TypeOK, local, header
    <2> QED BY <1>0, <2>1, <2>2, HeaderOwnStep
  <1>7. CASE ReleaseChunkAsComplete(w)
    <2>1. WriterFits(w)'
      BY <1>0, <1>7 DEF ReleaseChunkAsComplete, WriterFits, IdsCurrent, TypeOK, shared, header
    <2>2. /\ Holds(w) /\ Holds(w)' /\ at' = at /\ header_bitmap' = header_bitmap
          /\ \A b \in Actors \ {w} : pc'[b] = pc[b]
          /\ \A v \in Writers \ {w} : unstored'[v] = unstored[v]
          /\ \A d \in Chunks \ {c} : SameMemory(d)
      BY <1>0, <1>7 DEF ReleaseChunkAsComplete, Holds, SameMemory, TypeOK, shared, header
    <2> QED BY <1>0, <2>1, <2>2, HeaderOwnStep
  <1> QED BY <1>1, <1>2, <1>3, <1>4, <1>5, <1>6, <1>7 DEF WriterStep

\* So does what the service does to a chunk it frees; scraping changes nothing.
LEMMA HeaderServiceStep ==
  ASSUME TypeOK, OwnershipInv, HeaderFitsState, HeaderFitsUser, ServiceStep
  PROVE  HeaderFitsState' /\ HeaderFitsUser'
  <1>0. Service \in Actors /\ at[Service] \in Chunks
    BY DEF Actors, TypeOK
  <1>1. CASE ReleaseChunkAsFree
    <2>1. /\ \A b \in Actors \ {Service} : pc'[b] = pc[b] /\ at'[b] = at[b]
          /\ pc[Service] = "reading" /\ pc'[Service] = "clear_header" /\ at' = at
          /\ UNCHANGED <<shared, unstored>>
      BY <1>0, <1>1 DEF ReleaseChunkAsFree, TypeOK
    <2> QED BY <1>0, <2>1, HeaderQuietStep
  <1>2. CASE ClearChunkHeader
    <2>1. /\ packets'[at[Service]] = 0
          /\ pc[Service] = "clear_header" /\ pc'[Service] = "release_load"
          /\ at' = at /\ header_bitmap' = header_bitmap
      BY <1>0, <1>2 DEF ClearChunkHeader, TypeOK
    <2>2. ServiceFits'
      BY <2>1 DEF ServiceFits
    <2>3. GetChunkState(at[Service])' = "kChunkBeingRead"
      BY <1>0, <2>1 DEF OwnershipInv, OwnedChunkInOwnersState, AcquireInto, Holds, GetChunkState
    <2>4. StateFits(at[Service])'
      BY <2>1, <2>3 DEF StateFits
    <2>5. /\ Holds(Service) /\ Holds(Service)'
          /\ \A b \in Actors \ {Service} : pc'[b] = pc[b]
          /\ \A v \in Writers \ {Service} : unstored'[v] = unstored[v]
          /\ \A d \in Chunks \ {at[Service]} : SameMemory(d)
      BY <1>0, <1>2, <2>1 DEF ClearChunkHeader, Holds, SameMemory, TypeOK
    <2> QED BY <1>0, <2>1, <2>2, <2>4, <2>5, HeaderOwnStep
  <1>3. CASE BeginScrape \/ ScrapePage \/ ScrapeChunk \/ ScrapeCopy
    <2>1. \E label \in {"idle", "scrape_page", "scrape_chunk", "scrape_copy"} :
             pc' = [pc EXCEPT ![Service] = label]
      BY <1>3 DEF BeginScrape, ScrapePage, ScrapeChunk, ScrapeCopy, NextScrapable
    <2>2. at' = at \/ \E d : at' = [at EXCEPT ![Service] = d]
      BY <1>3 DEF BeginScrape, ScrapePage, ScrapeChunk, ScrapeCopy, NextScrapable
    <2>3. ~Holds(Service) /\ UNCHANGED <<shared, unstored>>
      BY <1>3 DEF BeginScrape, ScrapePage, ScrapeChunk, ScrapeCopy, Holds
    <2>4. /\ \A b \in Actors \ {Service} : pc'[b] = pc[b] /\ at'[b] = at[b]
          /\ ~Holds(Service)'
      BY <1>0, <2>1, <2>2 DEF TypeOK, Holds
    <2> QED BY <1>0, <2>3, <2>4, HeaderQuietStep
  <1> QED BY <1>1, <1>2, <1>3 DEF ServiceStep

-----------------------------------------------------------------------------
(***************************************************************************)
(* What the service saw of a page that it scrapes.                         *)
(***************************************************************************)
Scraping == pc[Service] \in {"scrape_chunk", "scrape_copy"}

\* How the chunks of a page may have moved on since its word was loaded.
MovedOn(was, now) ==
    /\ was = "kChunkComplete" => now = "kChunkComplete"
    /\ was = "kChunkBeingRead" => now = "kChunkBeingRead"
    /\ was = "kChunkBeingWritten" => now \in {"kChunkBeingWritten", "kChunkComplete"}

\* A step of a writer that moves no chunk of the scraped page but along the way
\* of a writer, and takes no packet away, preserves the view.
LEMMA ScrapeViewFrame ==
  ASSUME TypeOK, ScrapeViewHolds,
         pc'[Service] = pc[Service], at'[Service] = at[Service], seen'[Service] = seen[Service],
         \A d \in Chunks : \/ GetChunkState(d)' = GetChunkState(d)
                           \/ GetChunkState(d) = "kChunkFree"
                           \/ /\ GetChunkState(d) = "kChunkBeingWritten"
                              /\ GetChunkState(d)' = "kChunkComplete",
         pc[Service] = "scrape_copy" /\ GetChunkState(at[Service]) = "kChunkBeingWritten"
            /\ packets[at[Service]] >= 2 => packets'[at[Service]] >= 2
  PROVE  ScrapeViewHolds'
  <1> DEFINE c == at[Service]
  <1>0. c \in Chunks /\ c[1] \in Pages /\ c[2] \in Slots /\ Service \in Actors
    BY DEF TypeOK, Chunks, Actors
  <1>1. ASSUME Scraping, NEW i \in Slots
        PROVE  MovedOn(seen[Service].state[i], header_bitmap'[c[1]].state[i])
    <2>1. MovedOn(seen[Service].state[i], header_bitmap[c[1]].state[i])
      BY <1>1 DEF Scraping, ScrapeViewHolds, MovedOn
    <2>2. <<c[1], i>> \in Chunks
      BY <1>0 DEF Chunks
    <2>3. \/ header_bitmap'[c[1]].state[i] = header_bitmap[c[1]].state[i]
          \/ header_bitmap[c[1]].state[i] = "kChunkFree"
          \/ /\ header_bitmap[c[1]].state[i] = "kChunkBeingWritten"
             /\ header_bitmap'[c[1]].state[i] = "kChunkComplete"
      BY <2>2 DEF GetChunkState
    <2> QED BY <2>1, <2>3 DEF MovedOn
  <1>2. ASSUME pc[Service] = "scrape_copy"
        PROVE  \/ header_bitmap'[c[1]].state[c[2]] = "kChunkComplete"
               \/ header_bitmap'[c[1]].state[c[2]] = "kChunkBeingWritten" /\ packets'[c] >= 2
    <2>1. \/ GetChunkState(c) = "kChunkComplete"
          \/ GetChunkState(c) = "kChunkBeingWritten" /\ packets[c] >= 2
      BY <1>2 DEF ScrapeViewHolds
    <2>2. \/ header_bitmap'[c[1]].state[c[2]] = GetChunkState(c)
          \/ GetChunkState(c) = "kChunkFree"
          \/ /\ GetChunkState(c) = "kChunkBeingWritten"
             /\ header_bitmap'[c[1]].state[c[2]] = "kChunkComplete"
      BY <1>0 DEF GetChunkState
    <2> QED BY <1>2, <2>1, <2>2
  <1> QED BY <1>1, <1>2 DEF ScrapeViewHolds, Scraping, MovedOn, GetChunkState

\* No scrape is under way at first.
LEMMA ScrapeViewInit == Init => ScrapeViewHolds
  BY DEF Init, ScrapeViewHolds, Actors

\* A swap of a writer moves its chunk as the view allows; the service swaps
\* nothing while it scrapes.
LEMMA ScrapeViewWordStep ==
  ASSUME TypeOK, OwnershipInv, ScrapeViewHolds, NEW a \in Actors, WordStep(a)
  PROVE  ScrapeViewHolds'
  <1>0. Service \in Actors /\ at[a] \in Chunks
    BY DEF Actors, TypeOK
  <1>1. CASE a = Service
    <2>1. PICK label \in {"idle", "acquire_load", "acquire_cas", "reading", "release_load",
                          "release_cas", "crashed"} :
             pc' = [pc EXCEPT ![a] = label]
      BY <1>1 DEF WordStep, TryAcquireChunk, AcquireLoad, AcquireCas, AcquireCasFails,
         ReleaseLoad, ReleaseCas, ReleaseCasFails, Retry, Return
    <2>2. pc'[Service] = label
      BY <1>0, <1>1, <2>1 DEF TypeOK
    <2> QED BY <2>1, <2>2 DEF ScrapeViewHolds
  <1>2. CASE a # Service
    <2>1. /\ pc'[Service] = pc[Service]
          /\ at'[Service] = at[Service]
          /\ seen'[Service] = seen[Service]
          /\ UNCHANGED packets
      BY <1>0, <1>2 DEF WordStep, TryAcquireChunk, AcquireLoad, AcquireCas, AcquireCasFails,
         ReleaseLoad, ReleaseCas, ReleaseCasFails, Retry, Return, TypeOK, shared, header
    <2>2. \A d \in Chunks : \/ GetChunkState(d)' = GetChunkState(d)
                             \/ GetChunkState(d) = "kChunkFree"
                             \/ /\ GetChunkState(d) = "kChunkBeingWritten"
                                /\ GetChunkState(d)' = "kChunkComplete"
      <3>1. CASE AcquireCas(a)
        BY <1>2, <3>1, AcquireCasState DEF AcquireFrom
      <3>2. CASE ReleaseCas(a)
        BY <1>2, <3>2, ReleaseCasState DEF ReleaseFrom, ReleaseInto, AcquireInto
      <3>3. CASE ~AcquireCas(a) /\ ~ReleaseCas(a)
        <4>1. UNCHANGED header_bitmap
          BY <3>3 DEF WordStep, TryAcquireChunk, AcquireLoad, AcquireCasFails,
             ReleaseLoad, ReleaseCasFails, shared
        <4> QED BY <4>1 DEF GetChunkState
      <3> QED BY <3>1, <3>2, <3>3
    <2> QED BY <2>1, <2>2, ScrapeViewFrame
  <1> QED BY <1>1, <1>2

\* What a writer stores while the service scrapes: the packet count of a chunk
\* with packets only grows.
LEMMA ScrapeViewWriterStep ==
  ASSUME TypeOK, OwnershipInv, HeaderFitsUser, ScrapeViewHolds,
         NEW w \in Writers, WriterStep(w)
  PROVE  ScrapeViewHolds'
  <1>0. /\ w \in Actors /\ w # Service /\ Service \in Actors
        /\ at[Service] \in Chunks /\ at[w] \in Chunks
        /\ WriterFits(w)
        /\ \A d \in Chunks : packets[d] \in Nat
    BY ActorsAssumption, HeaderParts DEF Actors, TypeOK
  <1>1. /\ pc'[Service] = pc[Service]
        /\ at'[Service] = at[Service]
        /\ seen'[Service] = seen[Service]
    BY <1>0 DEF WriterStep, TryPartitionPage, StoreWriterId, StoreChunkId, StorePackets,
       IncrementPacketCount, FinishPacket, ReleaseChunkAsComplete, TypeOK, local
  <1>2. \A d \in Chunks : GetChunkState(d)' = GetChunkState(d)
    <2>1. CASE \E p \in Pages : TryPartitionPage(w, p)
      BY <2>1, PartitionState
    <2>2. CASE ~\E p \in Pages : TryPartitionPage(w, p)
      <3>1. UNCHANGED header_bitmap
        BY <2>2 DEF WriterStep, StoreWriterId, StoreChunkId, StorePackets,
           IncrementPacketCount, FinishPacket, ReleaseChunkAsComplete, shared
      <3> QED BY <3>1 DEF GetChunkState
    <2> QED BY <2>1, <2>2
  <1>3. packets[at[Service]] >= 2 => packets'[at[Service]] >= 2
    <2>1. CASE \E n \in {0, 1} : StorePackets(w, n)
      <3>1. packets[at[w]] = 0
        BY <1>0, <2>1 DEF StorePackets, WriterFits
      <3>2. CASE at[w] = at[Service]
        BY <1>0, <3>1, <3>2
      <3>3. CASE at[w] # at[Service]
        <4>1. packets'[at[Service]] = packets[at[Service]]
          BY <1>0, <2>1, <3>3 DEF StorePackets, TypeOK
        <4> QED BY <4>1
      <3> QED BY <3>2, <3>3
    <2>2. CASE IncrementPacketCount(w)
      <3>1. packets'[at[Service]] \in {packets[at[Service]], packets[at[Service]] + 1}
        BY <1>0, <2>2 DEF IncrementPacketCount, TypeOK
      <3> QED BY <1>0, <3>1
    <2>3. CASE ~(\E n \in {0, 1} : StorePackets(w, n)) /\ ~IncrementPacketCount(w)
      BY <2>3 DEF WriterStep, TryPartitionPage, StoreWriterId, StoreChunkId,
         FinishPacket, ReleaseChunkAsComplete, shared, header
    <2> QED BY <2>1, <2>2, <2>3
  <1> QED BY <1>1, <1>2, <1>3, ScrapeViewFrame

\* NextScrapable stays on the page with the word it loaded, or loads another.
LEMMA NextScrapableCases ==
  ASSUME TypeOK, NextScrapable
  PROVE  \/ /\ pc'[Service] = "scrape_chunk"
            /\ at'[Service][1] = at[Service][1]
            /\ UNCHANGED seen
         \/ pc'[Service] \in {"scrape_page", "idle"}
  <1> DEFINE p == at[Service][1]
             i == at[Service][2]
  <1>0. Service \in Actors /\ p \in Pages /\ i \in Slots
    BY DEF Actors, TypeOK, Chunks
  <1>1. CASE i + 1 < NumChunks
    <2>1. /\ pc' = [pc EXCEPT ![Service] = "scrape_chunk"]
          /\ at' = [at EXCEPT ![Service] = <<p, i + 1>>]
          /\ UNCHANGED seen
      BY <1>0, <1>1, ConstantsAssumption DEF NextScrapable, Slots
    <2> QED BY <1>0, <2>1 DEF TypeOK
  <1>2. CASE i + 1 >= NumChunks /\ p + 1 < NumPages
    <2>1. pc' = [pc EXCEPT ![Service] = "scrape_page"]
      BY <1>0, <1>2, ConstantsAssumption DEF NextScrapable, Slots
    <2> QED BY <1>0, <2>1 DEF TypeOK
  <1>3. CASE ~(i + 1 < NumChunks) /\ ~(i + 1 >= NumChunks /\ p + 1 < NumPages)
    <2>1. pc' = [pc EXCEPT ![Service] = "idle"]
      BY <1>0, <1>3 DEF NextScrapable
    <2> QED BY <1>0, <2>1 DEF TypeOK
  <1> QED BY <1>1, <1>2, <1>3

\* The service's own steps: a page is seen as it is when its word is loaded, and
\* a chunk is copied only if its writer, and not the service, left packets in it.
LEMMA ScrapeViewServiceStep ==
  ASSUME TypeOK, HeaderFitsState, ScrapeViewHolds, ServiceStep
  PROVE  ScrapeViewHolds'
  <1> DEFINE c == at[Service]
  <1>0. Service \in Actors /\ c \in Chunks /\ c[2] \in Slots /\ c = <<c[1], c[2]>> /\ StateFits(c)
    BY HeaderParts DEF Actors, TypeOK, Chunks
  <1>1. CASE ReleaseChunkAsFree \/ ClearChunkHeader \/ BeginScrape
    <2>1. pc'[Service] \in {"clear_header", "release_load", "scrape_page"}
      BY <1>0, <1>1 DEF ReleaseChunkAsFree, ClearChunkHeader, BeginScrape, TypeOK
    <2> QED BY <2>1 DEF ScrapeViewHolds
  <1>2. CASE ScrapePage
    <2>1. /\ pc'[Service] = "scrape_chunk" /\ at' = at /\ header_bitmap' = header_bitmap
          /\ seen'[Service] = header_bitmap[c[1]]
      BY <1>0, <1>2 DEF ScrapePage, TypeOK, shared
    <2> QED BY <2>1 DEF ScrapeViewHolds
  <1>3. ASSUME NextScrapable, Scraping, header_bitmap' = header_bitmap PROVE ScrapeViewHolds'
    <2>1. CASE pc'[Service] \in {"scrape_page", "idle"}
      BY <2>1 DEF ScrapeViewHolds
    <2>2. CASE /\ pc'[Service] = "scrape_chunk"
               /\ at'[Service][1] = at[Service][1]
               /\ UNCHANGED seen
      BY <1>3, <2>2 DEF ScrapeViewHolds, Scraping
    <2> QED BY <1>3, <2>1, <2>2, NextScrapableCases
  <1>4. CASE ScrapeChunk
    <2>0. pc[Service] = "scrape_chunk" /\ header_bitmap' = header_bitmap /\ packets' = packets
      BY <1>4 DEF ScrapeChunk, shared, header
    <2>1. CASE ~IsScrapable(seen[Service].state[c[2]], packets[c])
      BY <1>3, <1>4, <2>0, <2>1 DEF ScrapeChunk, Scraping
    <2>2. CASE IsScrapable(seen[Service].state[c[2]], packets[c])
      <3>1. pc'[Service] = "scrape_copy" /\ UNCHANGED <<at, seen>>
        BY <1>0, <1>4, <2>2 DEF ScrapeChunk, TypeOK
      <3>2. MovedOn(seen[Service].state[c[2]], GetChunkState(c))
        BY <1>0, <2>0 DEF ScrapeViewHolds, MovedOn, GetChunkState
      <3>3. seen[Service].state[c[2]] \in ChunkState
        BY <1>0 DEF TypeOK, HeaderBitmap
      <3>4. GetChunkState(c) = "kChunkBeingRead" => packets[c] = 0
        BY <1>0, <2>0 DEF StateFits
      <3>5. \/ GetChunkState(c) = "kChunkComplete"
            \/ GetChunkState(c) = "kChunkBeingWritten" /\ packets[c] >= 2
        BY <2>2, <3>2, <3>3, <3>4 DEF IsScrapable, MovedOn, ChunkState
      <3> QED BY <2>0, <3>1, <3>5 DEF ScrapeViewHolds, GetChunkState
    <2> QED BY <2>1, <2>2
  <1>5. CASE ScrapeCopy
    BY <1>3, <1>5 DEF ScrapeCopy, Scraping, shared
  <1> QED BY <1>1, <1>2, <1>4, <1>5 DEF ServiceStep

-----------------------------------------------------------------------------
(***************************************************************************)
(* The theorems.                                                           *)
(***************************************************************************)
\* The headers of the chunks fit their states and their users, whatever the
\* writers do while the service reads or scrapes.
THEOREM HeaderInvariant == Spec => []HeaderInv
  <1>1. Init => HeaderInv
    BY HeaderFitsInit, ScrapeViewInit DEF HeaderInv
  <1>2. TypeOK /\ OwnershipInv /\ HeaderInv /\ [Next]_vars => HeaderInv'
    <2> SUFFICES ASSUME TypeOK, OwnershipInv, HeaderFitsState, HeaderFitsUser, ScrapeViewHolds,
                        [Next]_vars
                 PROVE  HeaderFitsState' /\ HeaderFitsUser' /\ ScrapeViewHolds'
      BY DEF HeaderInv
    <2>1. ASSUME NEW a \in Actors, WordStep(a)
          PROVE  HeaderFitsState' /\ HeaderFitsUser' /\ ScrapeViewHolds'
      BY <2>1, HeaderWordStep, ScrapeViewWordStep
    <2>2. ASSUME NEW w \in Writers, WriterStep(w)
          PROVE  HeaderFitsState' /\ HeaderFitsUser' /\ ScrapeViewHolds'
      BY <2>2, HeaderWriterStep, ScrapeViewWriterStep
    <2>3. CASE ServiceStep
      BY <2>3, HeaderServiceStep, ScrapeViewServiceStep
    <2>4. CASE UNCHANGED vars
      <3>1. UNCHANGED <<shared, pc, at, seen, unstored>> /\ Service \in Actors
        BY <2>4 DEF vars, local, Actors
      <3>2. \A c \in Chunks : StateFits(c) /\ SameMemory(c) /\ GetChunkState(c)' = GetChunkState(c)
        BY <3>1, HeaderParts DEF SameMemory, shared, header, GetChunkState
      <3>3. \A c \in Chunks : StateFits(c)'
        BY <3>1, <3>2, StateFitsFrame DEF Holds
      <3>4. (\A w \in Writers : WriterFits(w)') /\ ServiceFits'
        BY <3>1, HeaderParts, WriterFitsFrame, ServiceFitsFrame DEF SameMemory, shared, header
      <3>5. ScrapeViewHolds'
        BY <3>1, <3>2, ScrapeViewFrame DEF shared, header
      <3> QED BY <3>3, <3>4, <3>5, HeaderPartsNext
    <2> QED BY <2>1, <2>2, <2>3, <2>4 DEF Next
  <1> QED BY <1>1, <1>2, TypeCorrect, OwnershipInvariant, PTL DEF Spec

\* What the service copies while it scrapes is the header of the chunk's current
\* user, with all but the last packet written ("it is safe to access the
\* remaining header fields of the chunk").
THEOREM ScrapesAreCurrent == Spec => []ScrapedHeaderIsCurrent
  <1>1. TypeOK /\ HeaderInv => ScrapedHeaderIsCurrent
    <2> SUFFICES ASSUME TypeOK, HeaderInv, pc[Service] = "scrape_copy"
                 PROVE  IdsCurrent(at[Service]) /\ packets[at[Service]] - 1 <= written[at[Service]]
      BY DEF ScrapedHeaderIsCurrent, IdsCurrent
    <2> DEFINE c == at[Service]
    <2>0. /\ c \in Chunks /\ StateFits(c) /\ packets[c] \in Nat /\ written[c] \in Nat
          /\ \A w \in Writers : WriterFits(w) /\ pc[w] \in WriterPC
      BY HeaderParts DEF HeaderInv, TypeOK, Actors
    <2>1. CASE GetChunkState(c) = "kChunkComplete"
      BY <2>0, <2>1 DEF StateFits
    <2>2. CASE GetChunkState(c) = "kChunkBeingWritten" /\ packets[c] >= 2
      <3>1. PICK w \in Writers : Holds(w) /\ at[w] = c
        BY <2>0, <2>2 DEF StateFits
      <3>2. WriterFits(w) /\ pc[w] \in {"store_header", "writing", "release_load", "release_cas", "gave_up"}
        BY <2>0, <3>1 DEF Holds, WriterPC
      <3>3. pc[w] # "store_header"
        BY <2>2, <3>1, <3>2 DEF WriterFits
      <3>4. IdsCurrent(c)
        BY <3>1, <3>2, <3>3 DEF WriterFits
      <3>5. packets[c] - 1 <= written[c]
        BY <2>0, <3>1, <3>2, <3>3 DEF WriterFits
      <3> QED BY <3>4, <3>5
    <2> QED BY <2>1, <2>2 DEF HeaderInv, ScrapeViewHolds
  <1> QED BY <1>1, TypeCorrect, HeaderInvariant, PTL

\* What CommitData copies from a chunk that it acquired for reading is what its
\* writer completed.
THEOREM ReadsAreWhole == Spec => []ReadChunkIsWhole
  <1>1. HeaderInv => ReadChunkIsWhole
    BY DEF HeaderInv, HeaderFitsUser, ReadChunkIsWhole, IdsCurrent
  <1> QED BY <1>1, HeaderInvariant, PTL
=============================================================================
