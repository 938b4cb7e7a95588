------------------------ MODULE TraceBufferV1_proofs ------------------------
(***************************************************************************)
(* Proofs about TraceBufferV1, for any size of the ring, any writers and   *)
(* sizes of their records: whatever is written over, discarded, patched or *)
(* read, the records tile the ring and agree with the index, and without   *)
(* scraping nothing is stored behind the reader.  The second half is about *)
(* writers that are not scraped: their packets are read in order, each     *)
(* once, and with kDiscard without a hole.                                 *)
(***************************************************************************)
EXTENDS TraceBufferV1, SequenceTheorems, FiniteSetTheorems, WellFoundedInduction, TLAPS

-----------------------------------------------------------------------------
(***************************************************************************)
(* The inductive invariant.                                                *)
(***************************************************************************)
Flags == {First, Last, Holes}

Chunks ==
    [first : Int, n : Nat, extra : BOOLEAN, from : BOOLEAN, on : BOOLEAN, bad : BOOLEAN,
     holes : Nat, unsent : Nat, state : {"open", "complete", "committed"}]

ChunkRecords ==
    [size : 1 .. Size, is_padding : {FALSE}, key : Key, num_fragments : Int,
     flags : SUBSET Flags, chunk : Nat, holes : Int]

Paddings == [size : 1 .. Size, is_padding : {TRUE}]

Metas ==
    [record_off : 0 .. Size - 1, num_fragments : Int, flags : SUBSET Flags,
     complete : BOOLEAN, num_fragments_read : Int, skipped : BOOLEAN]

\* A ring of records, and an index.
IsRing(d)  == DOMAIN d \subseteq 0 .. Size - 1 /\ d \in [DOMAIN d -> ChunkRecords \cup Paddings]
IsIndex(i) == DOMAIN i \subseteq Key /\ i \in [DOMAIN i -> Metas]

\* Chunk k of writer w is there; its commit has arrived.
Exists(w, k)    == k \in DOMAIN smb[w]
Committed(w, k) == Exists(w, k) /\ smb[w][k].state = "committed"

ScrapeTypes ==
    /\ sweep \in [active : BOOLEAN, todo : SUBSET [writer : Writers, chunk : Nat, open : BOOLEAN]]
    /\ \A x \in sweep.todo : Exists(x.writer, x.chunk)

Types ==
    /\ load \in Loads
    /\ smb \in [Writers -> Seq(Chunks)]
    /\ wptr_ \in 0 .. Size - 1
    /\ IsRing(data_)
    /\ IsIndex(index_)
    /\ last_chunk_id_written_ \in [Writers -> ChunkID]
    /\ reached \in [Writers -> Nat]
    /\ read_pc \in {"idle", "chunk", "fragments", "returned", "end"}
    /\ read_iter_ \in [seq : Writers \cup {0}, cur : 0 .. End]

\* The records of d follow one another from the beginning without gap or
\* overlap; where o is, a record begins or nothing has been written yet.
Tiles(d, o) ==
    /\ \A x \in DOMAIN d : x + d[x].size <= Size
    /\ \A x, y \in DOMAIN d : x < y => x + d[x].size <= y
    /\ \A x \in DOMAIN d : x < o => x + d[x].size <= o
    /\ o \in DOMAIN d \/ \A x \in DOMAIN d : x < o
    /\ 0 \in DOMAIN d \/ (DOMAIN d = {} /\ o = 0)
    /\ \A x \in DOMAIN d : \/ x + d[x].size = Size
                           \/ x + d[x].size \in DOMAIN d
                           \/ x + d[x].size = o

\* The index i has the chunk records of d, and each entry is about its record.
Matches(d, i) ==
    /\ \A x \in DOMAIN d : ~d[x].is_padding =>
          /\ d[x].key \in DOMAIN i
          /\ i[d[x].key].record_off = x
          /\ i[d[x].key].num_fragments = d[x].num_fragments
          /\ i[d[x].key].flags = d[x].flags
    /\ \A key \in DOMAIN i :
          /\ i[key].record_off \in DOMAIN d
          /\ ~d[i[key].record_off].is_padding
          /\ d[i[key].record_off].key = key

\* The reader is on a chunk of the index, and the ring does not change under it.
ReaderIsOnAChunk ==
    /\ sweep.active => read_pc = "idle"
    /\ ~sweep.active => sweep.todo = {}
    /\ read_pc = "idle" => read_iter_.cur = End
    /\ read_pc = "fragments" => read_iter_.cur # End
    /\ read_iter_.cur # End => CurKey \in DOMAIN index_

\* The commits of a writer arrive in the order of its chunks.
CommitsArePrefix ==
    \A w \in Writers : \A k \in Nat : Committed(w, k) => \A j \in 1 .. k - 1 : Committed(w, j)

\* Without scraping, what is in the ring and what the reader has taken from it
\* was committed.
OnlyCommitted ==
    ~Scraping =>
        /\ late = {} /\ ~sweep.active
        /\ \A x \in DOMAIN data_ : ~data_[x].is_padding =>
              Committed(data_[x].key[1], data_[x].chunk)
        /\ \A w \in Writers : reached[w] # 0 => Committed(w, reached[w])

BufferInv ==
    /\ Types
    /\ ScrapeTypes
    /\ Tiles(data_, wptr_)
    /\ Matches(data_, index_)
    /\ ReaderIsOnAChunk
    /\ CommitsArePrefix
    /\ OnlyCommitted

-----------------------------------------------------------------------------
(***************************************************************************)
(* Sets of numbers.                                                        *)
(***************************************************************************)
\* A set of numbers that is not empty has a smallest one.
LEMMA LeastElement ==
  ASSUME NEW T \in SUBSET Nat, T # {}
  PROVE  Min(T) \in T /\ \A m \in T : Min(T) <= m
  <1> DEFINE R == OpToRel(<, Nat)
  <1>1. IsWellFoundedOn(R, Nat)
    BY NatLessThanWellFounded
  <1>2. \A x, y \in Nat : y < x => <<y, x>> \in R
    BY DEF OpToRel
  <1> HIDE DEF R
  <1>3. PICK x \in T : \A y \in T : ~ (<<y, x>> \in R)
    BY <1>1, WFMin
  <1>4. ASSUME NEW y \in T PROVE x <= y
    <2>1. ~ (<<y, x>> \in R) /\ x \in Nat /\ y \in Nat
      BY <1>3
    <2>2. ~ (y < x)
      BY <1>2, <2>1
    <2> QED BY <2>1, <2>2
  <1> QED BY <1>4 DEF Min

\* A set of numbers that is bounded has a greatest one.
LEMMA GreatestElement ==
  ASSUME NEW T \in SUBSET Nat, T # {}, NEW b \in Nat, \A m \in T : m <= b
  PROVE  Max(T) \in T /\ \A m \in T : Max(T) >= m
  <1> DEFINE U == {b - m : m \in T}
  <1>1. U \in SUBSET Nat /\ U # {}
    OBVIOUS
  <1> HIDE DEF U
  <1>2. Min(U) \in U /\ \A u \in U : Min(U) <= u
    BY <1>1, LeastElement
  <1> USE DEF U
  <1>3. PICK n \in T : Min(U) = b - n
    BY <1>2
  <1>4. ASSUME NEW m \in T PROVE n >= m
    <2>1. b - n <= b - m
      BY <1>2, <1>3
    <2> QED BY <2>1
  <1> QED BY <1>4 DEF Max

-----------------------------------------------------------------------------
(***************************************************************************)
(* The ring.                                                               *)
(***************************************************************************)
\* A record that goes to offset o, and padding for what remains of the records
\* that it covers.
Inserted(d, o, rec) ==
    LET gap == GapAfter(d, o, rec.size)
        with == WriteChunkRecord(d, o, rec)
    IN  IF gap > 0 THEN WriteChunkRecord(with, o + rec.size, Padding(gap)) ELSE with

Records == ChunkRecords \cup Paddings

LEMMA RingTypes ==
  ASSUME NEW d, IsRing(d), NEW x \in DOMAIN d
  PROVE  /\ x \in 0 .. Size - 1
         /\ d[x] \in Records /\ d[x].size \in 1 .. Size
         /\ d[x].is_padding \in BOOLEAN
         /\ ~d[x].is_padding => d[x] \in ChunkRecords
         /\ d[x].is_padding => d[x] \in Paddings
  BY BufferAssumption DEF IsRing, Records, ChunkRecords, Paddings

\* Where the record at o goes and which it replaces.
LEMMA Written ==
  ASSUME NEW d, IsRing(d), NEW o \in 0 .. Size - 1, NEW rec \in Records
  PROVE  LET e == WriteChunkRecord(d, o, rec) IN
         /\ IsRing(e)
         /\ DOMAIN e = {x \in DOMAIN d : x < o \/ x >= o + rec.size} \cup {o}
         /\ e[o] = rec
         /\ \A x \in DOMAIN d : (x < o \/ x >= o + rec.size) => e[x] = d[x]
  <1> DEFINE S == (DOMAIN d \ Starts(d, o, rec.size)) \cup {o}
             e == WriteChunkRecord(d, o, rec)
  <1>1. rec.size \in 1 .. Size /\ Size \in Nat \ {0}
    BY BufferAssumption DEF Records, ChunkRecords, Paddings
  <1>2. S = {x \in DOMAIN d : x < o \/ x >= o + rec.size} \cup {o}
    BY <1>1 DEF Starts, IsRing
  <1>3. e = [x \in S |-> IF x = o THEN rec ELSE d[x]]
    BY DEF WriteChunkRecord
  <1>4. S \subseteq 0 .. Size - 1
    BY <1>2 DEF IsRing
  <1>5. \A x \in S : x # o => x \in DOMAIN d
    BY <1>2
  <1> HIDE DEF S, e
  <1>6. DOMAIN e = S /\ \A x \in S : e[x] \in Records
    BY <1>3, <1>5, RingTypes
  <1>7. e \in [S -> Records]
    BY <1>3, <1>6
  <1>8. IsRing(e)
    BY <1>4, <1>6, <1>7 DEF IsRing, Records
  <1>9. o \in S /\ e[o] = rec
    BY <1>2, <1>3
  <1>10. \A x \in DOMAIN d : (x < o \/ x >= o + rec.size) => e[x] = d[x]
    BY <1>1, <1>2, <1>3
  <1> QED BY <1>2, <1>6, <1>8, <1>9, <1>10 DEF e

\* How far the records reach that begin in [o, o + n): not before o + n, and up to
\* the next record or the end of the buffer.
LEMMA GapIsFilled ==
  ASSUME NEW d, IsRing(d), NEW o \in 0 .. Size - 1, Tiles(d, o), NEW n \in 1 .. Size - o
  PROVE  LET gap == GapAfter(d, o, n) IN
         /\ gap \in 0 .. Size - (o + n)
         /\ \A x \in DOMAIN d : x >= o + n => x >= o + n + gap
         /\ \/ o + n + gap = Size
            \/ o + n + gap \in DOMAIN d
            \/ gap = 0 /\ \A x \in DOMAIN d : x < o
  <1> DEFINE S == Starts(d, o, n)
             T == {x + d[x].size : x \in S}
             gap == GapAfter(d, o, n)
  <1>1. Size \in Nat /\ n \in Nat /\ o \in Nat /\ o + n <= Size
    BY BufferAssumption
  <1>2. \A x \in DOMAIN d : x \in 0 .. Size - 1 /\ d[x].size \in 1 .. Size
    BY RingTypes
  <1>3. CASE S = {}
    <2>1. gap = 0
      BY <1>3 DEF GapAfter
    <2>2. o \notin DOMAIN d
      BY <1>1, <1>3 DEF Starts
    <2>3. \A x \in DOMAIN d : x < o
      BY <2>2 DEF Tiles
    <2> QED BY <1>1, <1>2, <2>1, <2>3
  <1>4. CASE S # {}
    <2>1. S \subseteq DOMAIN d /\ T \in SUBSET Nat /\ T # {}
      BY <1>2, <1>4 DEF Starts
    <2>2. \A m \in T : m <= Size
      BY <2>1 DEF Tiles
    <2> HIDE DEF T
    <2>3. Max(T) \in T /\ \A m \in T : Max(T) >= m
      BY <1>1, <2>1, <2>2, GreatestElement
    <2> USE DEF T
    <2>4. PICK m \in S : Max(T) = m + d[m].size
      BY <2>3
    <2>5. gap = (m + d[m].size) - (o + n)
      <3>1. gap = Max(T) - (o + n)
        BY <1>4 DEF GapAfter
      <3> QED BY <2>4, <3>1
    <2>6. m \in DOMAIN d /\ o <= m /\ m < o + n
      BY <1>1, <1>2 DEF Starts
    <2>7. ASSUME NEW x \in DOMAIN d, x >= o + n PROVE x >= m + d[m].size
      BY <1>1, <1>2, <2>6, <2>7 DEF Tiles
    <2>8. ASSUME NEW x \in S PROVE x + d[x].size <= m + d[m].size
      BY <2>3, <2>4
    <2>9. m + d[m].size \notin S
      <3>1. \A x \in S : x + d[x].size > x
        BY <1>1, <1>2, <2>1
      <3>2. ASSUME NEW x \in S, x = m + d[m].size PROVE FALSE
        BY <1>1, <1>2, <2>1, <2>8, <3>1, <3>2
      <3> QED BY <3>2
    <2>10. m + d[m].size = Size \/ m + d[m].size \in DOMAIN d
      <3>1. m + d[m].size > o
        BY <1>1, <1>2, <2>6
      <3> QED BY <2>6, <3>1, <1>2 DEF Tiles
    <2>11. m + d[m].size >= o + n
      <3> SUFFICES ASSUME m + d[m].size < o + n PROVE FALSE
        BY <1>1, <1>2, <2>6
      <3>1. m + d[m].size \in DOMAIN d
        BY <1>1, <2>10
      <3> QED BY <1>1, <1>2, <2>6, <2>9, <3>1 DEF Starts
    <2>12. m + d[m].size <= Size
      BY <2>6 DEF Tiles
    <2>13. d[m].size \in Nat /\ m \in Nat
      BY <1>2, <2>6
    <2>14. gap \in 0 .. Size - (o + n) /\ o + n + gap = m + d[m].size
      BY <1>1, <2>5, <2>11, <2>12, <2>13
    <2> QED BY <2>7, <2>10, <2>14
  <1> QED BY <1>3, <1>4

\* The ring e after an insertion of rec, of size n, into d: the records before and
\* behind it, the new one, and padding where a gap would be.
Insertion(d, o, rec, n, gap, e) ==
    /\ IsRing(e)
    /\ n \in 1 .. Size - o /\ gap \in Nat
    /\ DOMAIN e = {x \in DOMAIN d : x < o \/ x >= o + n} \cup {o}
                     \cup (IF gap > 0 THEN {o + n} ELSE {})
    /\ e[o] = rec
    /\ gap > 0 => e[o + n] = Padding(gap) /\ o + n < Size
    /\ \A x \in DOMAIN d : x < o \/ x >= o + n => e[x] = d[x]
    /\ gap > 0 => o + n \notin DOMAIN d

LEMMA InsertedIs ==
  ASSUME NEW d, IsRing(d), NEW o \in 0 .. Size - 1, Tiles(d, o),
         NEW rec \in Records, rec.size <= Size - o
  PROVE  Insertion(d, o, rec, rec.size, GapAfter(d, o, rec.size), Inserted(d, o, rec))
  <1> DEFINE n    == rec.size
             gap  == GapAfter(d, o, n)
             with == WriteChunkRecord(d, o, rec)
             e    == Inserted(d, o, rec)
  <1>1. Size \in Nat /\ o \in Nat /\ n \in 1 .. Size - o
    <2>1. rec.size \in 1 .. Size
      BY DEF Records, ChunkRecords, Paddings
    <2> QED BY <2>1, BufferAssumption
  <1>2. /\ gap \in 0 .. Size - (o + n)
        /\ \A x \in DOMAIN d : x >= o + n => x >= o + n + gap
    BY <1>1, GapIsFilled
  <1>3. /\ IsRing(with)
        /\ DOMAIN with = {x \in DOMAIN d : x < o \/ x >= o + n} \cup {o}
        /\ with[o] = rec
        /\ \A x \in DOMAIN d : (x < o \/ x >= o + n) => with[x] = d[x]
    BY Written
  <1>4. DOMAIN d \subseteq 0 .. Size - 1
    BY DEF IsRing
  <1>5. CASE gap = 0
    <2>1. e = with
      BY <1>5 DEF Inserted
    <2> HIDE DEF with, e, gap
    <2> QED BY <1>1, <1>3, <1>5, <2>1 DEF e, gap, n, Insertion
  <1>6. CASE gap > 0
    <2>1. e = WriteChunkRecord(with, o + n, Padding(gap))
      BY <1>6 DEF Inserted
    <2>2. o + n \in 0 .. Size - 1 /\ gap \in 1 .. Size /\ gap \in Nat
      BY <1>1, <1>2, <1>6
    <2>3. Padding(gap) \in Records /\ Padding(gap).size = gap
      BY <2>2 DEF Records, Paddings, Padding
    <2>15. PICK p \in 0 .. Size - 1 : p = o + n
      BY <2>2
    <2>16. PICK pad, ring0 : pad = Padding(gap) /\ ring0 = with
      OBVIOUS
    <2>4. pad = Padding(gap) /\ p = o + n /\ ring0 = with
      BY <2>15, <2>16
    <2>11. pad \in Records /\ IsRing(ring0) /\ pad.size = gap
      BY <1>3, <2>3, <2>4
    <2>12. LET f == WriteChunkRecord(ring0, p, pad) IN
           /\ IsRing(f)
           /\ DOMAIN f = {x \in DOMAIN ring0 : x < p \/ x >= p + pad.size} \cup {p}
           /\ f[p] = pad
           /\ \A x \in DOMAIN ring0 : (x < p \/ x >= p + pad.size) => f[x] = ring0[x]
      BY <2>11, Written
    <2>13. e = WriteChunkRecord(ring0, p, pad)
      BY <2>1, <2>4
    <2> HIDE DEF with, gap, e
    <2>14. /\ IsRing(e)
           /\ DOMAIN e = {x \in DOMAIN with : x < o + n \/ x >= o + n + gap} \cup {o + n}
           /\ e[o + n] = Padding(gap)
           /\ \A x \in DOMAIN with : (x < o + n \/ x >= o + n + gap) => e[x] = with[x]
      BY <2>4, <2>11, <2>12, <2>13
    <2>5. o + n \notin DOMAIN d
      BY <1>1, <1>2, <1>4, <1>6, <2>2
    <2>6. \A x \in DOMAIN with : x < o + n \/ x >= o + n + gap
      BY <1>1, <1>2, <1>3, <1>4
    <2>7. DOMAIN e = DOMAIN with \cup {o + n}
      BY <2>14, <2>6
    <2>8. \A x \in DOMAIN with : e[x] = with[x]
      BY <2>14, <2>6
    <2>9. IsRing(e) /\ e[o + n] = Padding(gap) /\ e[o] = rec
      BY <1>3, <2>14, <2>8
    <2>10. \A x \in DOMAIN d : x < o \/ x >= o + n => e[x] = d[x]
      BY <1>3, <2>8
    <2> QED BY <1>1, <1>3, <1>6, <2>2, <2>5, <2>7, <2>9, <2>10 DEF e, gap, n, Insertion
  <1> QED BY <1>2, <1>5, <1>6

\* An insertion leaves the records end to end, and the write pointer behind them.
LEMMA InsertTiles ==
  ASSUME NEW d, IsRing(d), NEW o \in 0 .. Size - 1, Tiles(d, o),
         NEW rec \in Records, rec.size <= Size - o
  PROVE  /\ Tiles(Inserted(d, o, rec), NextWptr(o + rec.size))
         /\ NextWptr(o + rec.size) \in 0 .. Size - 1
  <1>1. PICK e, n, gap : e = Inserted(d, o, rec) /\ n = rec.size /\ gap = GapAfter(d, o, n)
    OBVIOUS
  <1>20. Insertion(d, o, rec, n, gap, e)
    BY <1>1, InsertedIs
  <1>2. /\ IsRing(e)
        /\ n \in 1 .. Size - o /\ gap \in Nat
        /\ DOMAIN e = {x \in DOMAIN d : x < o \/ x >= o + n} \cup {o}
                         \cup (IF gap > 0 THEN {o + n} ELSE {})
        /\ e[o] = rec
        /\ gap > 0 => e[o + n] = Padding(gap) /\ o + n < Size
        /\ \A x \in DOMAIN d : x < o \/ x >= o + n => e[x] = d[x]
        /\ gap > 0 => o + n \notin DOMAIN d
    BY <1>20 DEF Insertion
  <1>3. /\ gap \in 0 .. Size - (o + n)
        /\ \A x \in DOMAIN d : x >= o + n => x >= o + n + gap
        /\ \/ o + n + gap = Size
           \/ o + n + gap \in DOMAIN d
           \/ gap = 0 /\ \A x \in DOMAIN d : x < o
    BY <1>1, <1>2, GapIsFilled
  <1>4. Size \in Nat /\ Size > 0 /\ o \in Nat /\ n \in Nat /\ n > 0 /\ o + n <= Size /\ gap \in Nat
        /\ o + n + gap <= Size
    BY <1>2, <1>3, BufferAssumption
  <1>5. \A x \in DOMAIN d : x \in Nat /\ x < Size /\ d[x].size \in Nat /\ d[x].size > 0
    BY RingTypes, <1>4
  <1>6. /\ \A x \in DOMAIN d : x + d[x].size <= Size
        /\ \A x, y \in DOMAIN d : x < y => x + d[x].size <= y
        /\ \A x \in DOMAIN d : x < o => x + d[x].size <= o
        /\ o \in DOMAIN d \/ \A x \in DOMAIN d : x < o
        /\ 0 \in DOMAIN d \/ (DOMAIN d = {} /\ o = 0)
        /\ \A x \in DOMAIN d : \/ x + d[x].size = Size
                               \/ x + d[x].size \in DOMAIN d
                               \/ x + d[x].size = o
    BY DEF Tiles
  <1>7. PICK to : to = NextWptr(o + n)
    OBVIOUS
  <1>8. to \in 0 .. Size - 1 /\ (o + n < Size => to = o + n) /\ (o + n = Size => to = 0)
    BY <1>4, <1>7 DEF NextWptr
  \* The three kinds of records.
  <1>9. ASSUME NEW x \in DOMAIN e
        PROVE  \/ x \in DOMAIN d /\ (x < o \/ x >= o + n + gap) /\ e[x].size = d[x].size
               \/ x = o /\ e[x].size = n
               \/ x = o + n /\ gap > 0 /\ e[x].size = gap
    <2>1. Padding(gap).size = gap
      BY DEF Padding
    <2> QED BY <1>1, <1>2, <1>3, <2>1
  <1>10. \A x \in DOMAIN e : x \in Nat /\ e[x].size \in Nat /\ x + e[x].size <= Size
    BY <1>4, <1>5, <1>6, <1>9
  <1>11. ASSUME NEW x \in DOMAIN e, NEW y \in DOMAIN e, x < y PROVE x + e[x].size <= y
    <2>1. CASE x \in DOMAIN d /\ (x < o \/ x >= o + n + gap) /\ e[x].size = d[x].size
      BY <1>4, <1>5, <1>6, <1>9, <1>11, <2>1
    <2>2. CASE x = o /\ e[x].size = n
      BY <1>4, <1>5, <1>6, <1>9, <1>11, <2>2
    <2>3. CASE x = o + n /\ gap > 0 /\ e[x].size = gap
      BY <1>4, <1>5, <1>6, <1>9, <1>11, <2>3
    <2> QED BY <1>9, <2>1, <2>2, <2>3
  <1>12. ASSUME NEW x \in DOMAIN e, x < to PROVE x + e[x].size <= to
    <2>1. to = o + n /\ o + n < Size
      BY <1>4, <1>8, <1>10, <1>12
    <2>2. \/ x \in DOMAIN d /\ (x < o \/ x >= o + n + gap) /\ e[x].size = d[x].size
          \/ x = o /\ e[x].size = n
      BY <1>4, <1>9, <1>12, <2>1
    <2> QED BY <1>4, <1>5, <1>6, <1>12, <2>1, <2>2
  <1>13. 0 \in DOMAIN e
    BY <1>2, <1>4, <1>5, <1>6
  <1>14. to \in DOMAIN e \/ \A x \in DOMAIN e : x < to
    <2>1. CASE o + n = Size
      BY <1>8, <1>13, <2>1
    <2>2. CASE o + n < Size /\ gap > 0
      BY <1>2, <1>8, <2>2
    <2>3. CASE o + n < Size /\ gap = 0
      BY <1>2, <1>3, <1>4, <1>5, <1>8, <1>9, <2>3
    <2> QED BY <1>4, <2>1, <2>2, <2>3
  <1>15. ASSUME NEW x \in DOMAIN e
         PROVE  \/ x + e[x].size = Size
                \/ x + e[x].size \in DOMAIN e
                \/ x + e[x].size = to
    <2>1. CASE x \in DOMAIN d /\ (x < o \/ x >= o + n + gap) /\ e[x].size = d[x].size
      <3>1. CASE x + d[x].size = o
        BY <1>2, <2>1, <3>1
      <3>2. CASE x + d[x].size \in DOMAIN d /\ x < o
        <4>1. x + d[x].size <= o
          BY <1>6, <2>1, <3>2
        <4> QED BY <1>2, <1>4, <1>5, <2>1, <3>2, <4>1
      <3>3. CASE x + d[x].size \in DOMAIN d /\ x >= o + n
        <4>1. x + d[x].size >= o + n
          BY <1>4, <1>5, <2>1, <3>3
        <4> QED BY <1>2, <2>1, <3>3, <4>1
      <3> QED BY <1>4, <1>5, <1>6, <2>1, <3>1, <3>2, <3>3
    <2>2. CASE x = o /\ e[x].size = n
      BY <1>4, <1>8, <2>2
    <2>3. CASE x = o + n /\ gap > 0 /\ e[x].size = gap
      BY <1>2, <1>3, <1>4, <2>3
    <2> QED BY <1>9, <2>1, <2>2, <2>3
  <1>16. Tiles(e, to)
    BY <1>10, <1>11, <1>12, <1>13, <1>14, <1>15 DEF Tiles
  <1> QED BY <1>1, <1>7, <1>8, <1>16

-----------------------------------------------------------------------------
(***************************************************************************)
(* The ring and its index.                                                 *)
(***************************************************************************)
\* The chunk records after an insertion are those that were not covered, and the
\* new one.
LEMMA InsertedRecords ==
  ASSUME NEW d, IsRing(d), NEW o \in 0 .. Size - 1, Tiles(d, o),
         NEW rec \in Records, rec.size <= Size - o
  PROVE  LET e == Inserted(d, o, rec) IN
         /\ IsRing(e) /\ o \in DOMAIN e /\ e[o] = rec
         /\ \A x \in DOMAIN e : ~e[x].is_padding /\ x # o =>
               x \in DOMAIN d \ Starts(d, o, rec.size) /\ e[x] = d[x]
         /\ \A x \in DOMAIN d \ Starts(d, o, rec.size) :
               x \in DOMAIN e /\ x # o /\ e[x] = d[x]
  <1>1. PICK e, n, gap : e = Inserted(d, o, rec) /\ n = rec.size /\ gap = GapAfter(d, o, n)
    OBVIOUS
  <1>2. Insertion(d, o, rec, n, gap, e)
    BY <1>1, InsertedIs
  <1>3. n \in 1 .. Size - o /\ o \in Nat /\ Size \in Nat
    BY <1>2, BufferAssumption DEF Insertion
  <1>4. DOMAIN d \subseteq 0 .. Size - 1
    BY DEF IsRing
  <1>5. IsRing(e) /\ o \in DOMAIN e /\ e[o] = rec
    BY <1>2 DEF Insertion
  <1>6. ASSUME NEW x \in DOMAIN e, ~e[x].is_padding, x # o
        PROVE  x \in DOMAIN d \ Starts(d, o, n) /\ e[x] = d[x]
    <2>1. Padding(gap).is_padding
      BY DEF Padding
    <2>2. x \in DOMAIN d /\ (x < o \/ x >= o + n)
      BY <1>2, <1>6, <2>1 DEF Insertion
    <2>3. e[x] = d[x]
      BY <1>2, <2>2 DEF Insertion
    <2>4. x \notin Starts(d, o, n)
      BY <1>3, <1>4, <2>2 DEF Starts
    <2> QED BY <2>2, <2>3, <2>4
  <1>7. ASSUME NEW x \in DOMAIN d \ Starts(d, o, n)
        PROVE  x \in DOMAIN e /\ x # o /\ e[x] = d[x]
    <2>1. x < o \/ x >= o + n
      BY <1>3, <1>4, <1>7 DEF Starts
    <2>2. x # o
      BY <1>3, <1>4, <2>1
    <2> QED BY <1>2, <2>1, <2>2 DEF Insertion
  <1> QED BY <1>1, <1>5, <1>6, <1>7

\* The entries left when the records at the offsets in S are deleted: those of the
\* other records.
KeptEntries(i, S, j) ==
    /\ IsIndex(j)
    /\ DOMAIN j = {key \in DOMAIN i : i[key].record_off \notin S}
    /\ \A key \in DOMAIN j : j[key] = i[key]

LEMMA ErasedIs ==
  ASSUME NEW d, IsRing(d), NEW i, IsIndex(i), Matches(d, i), NEW S \in SUBSET (DOMAIN d)
  PROVE  KeptEntries(i, S, Erased(d, i, S))
  <1> DEFINE K == DOMAIN i \ KeysAt(d, S)
  <1>1. ASSUME NEW key \in DOMAIN i PROVE key \in KeysAt(d, S) <=> i[key].record_off \in S
    <2>1. ASSUME key \in KeysAt(d, S) PROVE i[key].record_off \in S
      <3>1. PICK x \in S : ~d[x].is_padding /\ key = d[x].key
        BY <2>1 DEF KeysAt
      <3> QED BY <3>1 DEF Matches
    <2>2. ASSUME i[key].record_off \in S PROVE key \in KeysAt(d, S)
      BY <2>2 DEF KeysAt, Matches
    <2> QED BY <2>1, <2>2
  <1>2. Erased(d, i, S) = [key \in K |-> i[key]]
    BY DEF Erased
  <1>3. K = {key \in DOMAIN i : i[key].record_off \notin S}
    BY <1>1
  <1> HIDE DEF K
  <1>4. K \subseteq DOMAIN i
    BY <1>3
  <1>5. Erased(d, i, S) \in [K -> Metas]
    BY <1>2, <1>4 DEF IsIndex
  <1> QED BY <1>2, <1>3, <1>4, <1>5 DEF IsIndex, KeptEntries

\* An insertion of padding keeps index and ring in step.
LEMMA PaddingMatches ==
  ASSUME NEW d, IsRing(d), NEW o \in 0 .. Size - 1, Tiles(d, o),
         NEW rec \in Paddings, rec.size <= Size - o,
         NEW i, IsIndex(i), Matches(d, i)
  PROVE  LET j == Erased(d, i, Starts(d, o, rec.size)) IN
         IsIndex(j) /\ Matches(Inserted(d, o, rec), j)
  <1>1. PICK S, e, j : /\ S = Starts(d, o, rec.size) /\ e = Inserted(d, o, rec)
                       /\ j = Erased(d, i, S)
    OBVIOUS
  <1>2. S \in SUBSET (DOMAIN d) /\ rec \in Records /\ rec.is_padding
    BY <1>1 DEF Starts, Records, Paddings
  <1>20. KeptEntries(i, S, j)
    BY <1>1, <1>2, ErasedIs
  <1>3. /\ IsIndex(j) /\ DOMAIN j = {key \in DOMAIN i : i[key].record_off \notin S}
        /\ \A key \in DOMAIN j : j[key] = i[key]
    BY <1>20 DEF KeptEntries
  <1>4. /\ o \in DOMAIN e /\ e[o] = rec
        /\ \A x \in DOMAIN e : ~e[x].is_padding /\ x # o => x \in DOMAIN d \ S /\ e[x] = d[x]
        /\ \A x \in DOMAIN d \ S : x \in DOMAIN e /\ x # o /\ e[x] = d[x]
    BY <1>1, <1>2, InsertedRecords
  <1>5. ASSUME NEW x \in DOMAIN e, ~e[x].is_padding
        PROVE  /\ e[x].key \in DOMAIN j
               /\ j[e[x].key].record_off = x
               /\ j[e[x].key].num_fragments = e[x].num_fragments
               /\ j[e[x].key].flags = e[x].flags
    <2>1. x \in DOMAIN d \ S /\ e[x] = d[x]
      BY <1>2, <1>4, <1>5
    <2> QED BY <1>3, <1>5, <2>1 DEF Matches
  <1>6. ASSUME NEW key \in DOMAIN j
        PROVE  /\ j[key].record_off \in DOMAIN e
               /\ ~e[j[key].record_off].is_padding
               /\ e[j[key].record_off].key = key
    BY <1>3, <1>4 DEF Matches
  <1>7. Matches(e, j)
    BY <1>5, <1>6 DEF Matches
  <1> QED BY <1>1, <1>3, <1>7

\* The index after a chunk record went to offset o.
Indexed(d, i, o, rec, complete) ==
    LET kept == Erased(d, i, Starts(d, o, rec.size))
    IN  [key \in DOMAIN kept \cup {rec.key} |->
            IF key = rec.key THEN ChunkMeta(o, rec.num_fragments, rec.flags, complete)
            ELSE kept[key]]

\* So does that of a chunk that is not in the index.
LEMMA ChunkMatches ==
  ASSUME NEW d, IsRing(d), NEW o \in 0 .. Size - 1, Tiles(d, o),
         NEW rec \in ChunkRecords, rec.size <= Size - o,
         NEW i, IsIndex(i), Matches(d, i), rec.key \notin DOMAIN i, NEW complete \in BOOLEAN
  PROVE  LET j == Indexed(d, i, o, rec, complete) IN
         IsIndex(j) /\ Matches(Inserted(d, o, rec), j)
  <1>1. PICK S, e, j, kept : /\ S = Starts(d, o, rec.size) /\ e = Inserted(d, o, rec)
                             /\ j = Indexed(d, i, o, rec, complete) /\ kept = Erased(d, i, S)
    OBVIOUS
  <1>2. S \in SUBSET (DOMAIN d) /\ rec \in Records /\ ~rec.is_padding
    BY <1>1 DEF Starts, Records, ChunkRecords
  <1>20. KeptEntries(i, S, kept)
    BY <1>1, <1>2, ErasedIs
  <1>3. /\ IsIndex(kept) /\ DOMAIN kept = {key \in DOMAIN i : i[key].record_off \notin S}
        /\ \A key \in DOMAIN kept : kept[key] = i[key]
    BY <1>20 DEF KeptEntries
  <1>4. /\ o \in DOMAIN e /\ e[o] = rec
        /\ \A x \in DOMAIN e : ~e[x].is_padding /\ x # o => x \in DOMAIN d \ S /\ e[x] = d[x]
        /\ \A x \in DOMAIN d \ S : x \in DOMAIN e /\ x # o /\ e[x] = d[x]
    BY <1>1, <1>2, InsertedRecords
  <1>5. PICK new : new = ChunkMeta(o, rec.num_fragments, rec.flags, complete)
    OBVIOUS
  <1>6. /\ new \in Metas
        /\ new.record_off = o
        /\ new.num_fragments = rec.num_fragments /\ new.flags = rec.flags
    BY <1>5 DEF ChunkMeta, Metas, ChunkRecords
  <1>7. j = [key \in DOMAIN kept \cup {rec.key} |-> IF key = rec.key THEN new ELSE kept[key]]
    BY <1>1, <1>5 DEF Indexed
  <1>8. /\ DOMAIN j = DOMAIN kept \cup {rec.key} /\ j[rec.key] = new
        /\ \A key \in DOMAIN kept : key # rec.key /\ j[key] = i[key]
    BY <1>3, <1>7
  <1>9. IsIndex(j)
    <2>1. rec.key \in Key
      BY DEF ChunkRecords
    <2>2. \A key \in DOMAIN j : j[key] \in Metas
      BY <1>3, <1>6, <1>8 DEF IsIndex
    <2>3. j \in [DOMAIN j -> Metas]
      BY <1>7, <1>8, <2>2
    <2> QED BY <1>3, <1>8, <2>1, <2>3 DEF IsIndex
  <1>10. ASSUME NEW x \in DOMAIN e, ~e[x].is_padding
         PROVE  /\ e[x].key \in DOMAIN j
                /\ j[e[x].key].record_off = x
                /\ j[e[x].key].num_fragments = e[x].num_fragments
                /\ j[e[x].key].flags = e[x].flags
    <2>1. CASE x = o
      BY <1>4, <1>6, <1>8, <2>1
    <2>2. CASE x # o
      <3>1. x \in DOMAIN d \ S /\ e[x] = d[x]
        BY <1>4, <1>10, <2>2
      <3>2. d[x].key \in DOMAIN kept
        BY <1>3, <1>10, <3>1 DEF Matches
      <3> QED BY <1>8, <1>10, <3>1, <3>2 DEF Matches
    <2> QED BY <2>1, <2>2
  <1>11. ASSUME NEW key \in DOMAIN j
         PROVE  /\ j[key].record_off \in DOMAIN e
                /\ ~e[j[key].record_off].is_padding
                /\ e[j[key].record_off].key = key
    <2>1. CASE key = rec.key
      BY <1>2, <1>4, <1>6, <1>8, <2>1
    <2>2. CASE key \in DOMAIN kept
      BY <1>3, <1>4, <1>8, <2>2 DEF Matches
    <2> QED BY <1>8, <2>1, <2>2
  <1>12. Matches(e, j)
    BY <1>10, <1>11 DEF Matches
  <1> QED BY <1>1, <1>9, <1>12

\* The rings d and e differ in the record at off, which has become rec; j is the index
\* of e.
Replacement(d, o, off, rec, e, j) ==
    /\ IsRing(e) /\ Tiles(e, o) /\ IsIndex(j) /\ Matches(e, j)
    /\ DOMAIN e = DOMAIN d
    /\ e[off] = rec /\ \A x \in DOMAIN d : x # off => e[x] = d[x]

\* A record and its entry are replaced by ones of the same size and place, in step.
LEMMA ReplacedMatches ==
  ASSUME NEW d, IsRing(d), NEW o, Tiles(d, o), NEW i, IsIndex(i), Matches(d, i),
         NEW key \in DOMAIN i, NEW rec \in ChunkRecords, NEW meta \in Metas,
         rec.key = key, rec.size = d[i[key].record_off].size,
         meta.record_off = i[key].record_off,
         meta.num_fragments = rec.num_fragments, meta.flags = rec.flags
  PROVE  Replacement(d, o, i[key].record_off, rec,
                     [d EXCEPT ![i[key].record_off] = rec], [i EXCEPT ![key] = meta])
  <1>1. PICK off, e, j : /\ off = i[key].record_off
                         /\ e = [d EXCEPT ![off] = rec] /\ j = [i EXCEPT ![key] = meta]
    OBVIOUS
  <1>2. off \in DOMAIN d /\ ~d[off].is_padding /\ d[off].key = key
    BY <1>1 DEF Matches
  <1>3. /\ DOMAIN e = DOMAIN d /\ e[off] = rec
        /\ \A x \in DOMAIN d : x # off => e[x] = d[x]
    BY <1>1, <1>2
  <1>4. /\ DOMAIN j = DOMAIN i /\ j[key] = meta
        /\ \A k \in DOMAIN i : k # key => j[k] = i[k]
    BY <1>1
  <1>5. IsRing(e)
    <2>1. e \in [DOMAIN e -> Records]
      BY <1>1, <1>3 DEF IsRing, Records
    <2> QED BY <1>3, <2>1 DEF IsRing, Records
  <1>6. IsIndex(j)
    <2>1. j \in [DOMAIN j -> Metas]
      BY <1>1, <1>4 DEF IsIndex
    <2> QED BY <1>4, <2>1 DEF IsIndex
  <1>7. \A x \in DOMAIN d : e[x].size = d[x].size
    BY <1>1, <1>3
  <1>8. Tiles(e, o)
    BY <1>3, <1>7 DEF Tiles
  <1>9. ASSUME NEW x \in DOMAIN e, ~e[x].is_padding
        PROVE  /\ e[x].key \in DOMAIN j
               /\ j[e[x].key].record_off = x
               /\ j[e[x].key].num_fragments = e[x].num_fragments
               /\ j[e[x].key].flags = e[x].flags
    <2>1. CASE x = off
      BY <1>1, <1>3, <1>4, <2>1
    <2>2. CASE x # off
      <3>1. e[x] = d[x] /\ x \in DOMAIN d
        BY <1>3, <2>2
      <3>2. d[x].key # key
        BY <1>1, <1>9, <2>2, <3>1 DEF Matches
      <3> QED BY <1>4, <1>9, <3>1, <3>2 DEF Matches
    <2> QED BY <2>1, <2>2
  <1>10. ASSUME NEW k \in DOMAIN j
         PROVE  /\ j[k].record_off \in DOMAIN e
                /\ ~e[j[k].record_off].is_padding
                /\ e[j[k].record_off].key = k
    <2>1. ~rec.is_padding
      BY DEF ChunkRecords
    <2>2. CASE k = key
      BY <1>1, <1>2, <1>3, <1>4, <2>1, <2>2
    <2>3. CASE k # key
      <3>1. i[k].record_off # off
        BY <1>2, <1>4, <2>3 DEF Matches
      <3> QED BY <1>3, <1>4, <2>3, <3>1 DEF Matches
    <2> QED BY <2>2, <2>3
  <1>11. Matches(e, j)
    BY <1>9, <1>10 DEF Matches
  <1>12. Replacement(d, o, off, rec, e, j)
    BY <1>3, <1>5, <1>6, <1>8, <1>11 DEF Replacement
  <1> QED BY <1>1, <1>12

\* Reading changes only how far the chunks have been read.
LEMMA ReadMatches ==
  ASSUME NEW d, NEW i, Matches(d, i), NEW j, DOMAIN j = DOMAIN i,
         \A key \in DOMAIN i : /\ j[key].record_off = i[key].record_off
                               /\ j[key].num_fragments = i[key].num_fragments
                               /\ j[key].flags = i[key].flags
  PROVE  Matches(d, j)
  BY DEF Matches

-----------------------------------------------------------------------------
(***************************************************************************)
(* Copying a chunk into the ring.                                          *)
(***************************************************************************)
RingInv ==
    /\ wptr_ \in 0 .. Size - 1
    /\ IsRing(data_) /\ IsIndex(index_)
    /\ last_chunk_id_written_ \in [Writers -> ChunkID]
    /\ Tiles(data_, wptr_)
    /\ Matches(data_, index_)

\* The chunk records of e are those of d, apart from copies of chunk k of w.
OnlyAdds(d, e, w, k) ==
    \A x \in DOMAIN e : ~e[x].is_padding =>
        \/ e[x].key[1] = w /\ e[x].chunk = k
        \/ \E y \in DOMAIN d : /\ ~d[y].is_padding
                               /\ d[y].key = e[x].key /\ d[y].chunk = e[x].chunk

\* What copying chunk k of w may do.
Copied(w, k) ==
    /\ RingInv'
    /\ OnlyAdds(data_, data_', w, k)
    /\ late' = late \/ k <= reached[w]

LEMMA IdIsAnId == \A k \in Int : Id(k) \in ChunkID /\ NextId(k) \in ChunkID
  <1>1. kMaxChunkID \in Nat
    BY BufferAssumption
  <1> QED BY <1>1 DEF Id, NextId, ChunkID

LEMMA RecordType ==
  ASSUME NEW w \in Writers, smb \in [Writers -> Seq(Chunks)], NEW k \in DOMAIN smb[w],
         NEW n \in Int, NEW flags \in SUBSET Flags
  PROVE  /\ ChunkRecord(w, k, n, flags) \in ChunkRecords
         /\ ChunkRecord(w, k, n, flags).key = <<w, Id(k)>>
         /\ ChunkRecord(w, k, n, flags).chunk = k
         /\ ChunkRecord(w, k, n, flags).num_fragments = n
         /\ ChunkRecord(w, k, n, flags).flags = flags
         /\ ChunkRecord(w, k, n, flags).size \in 1 .. Size
  <1>1. k \in Nat /\ smb[w][k] \in Chunks
    BY LenProperties, ElementOfSeq
  <1>2. smb[w][k].holes \in Int
    BY <1>1 DEF Chunks
  <1>3. Id(k) \in ChunkID
    BY <1>1, IdIsAnId
  <1>4. RecordSize[w] \in 1 .. Size
    BY BufferAssumption
  <1> QED BY <1>1, <1>2, <1>3, <1>4 DEF ChunkRecord, ChunkRecords, Key

\* A record that is inserted.
LEMMA InsertRecordSound ==
  ASSUME NEW d, IsRing(d), NEW o \in 0 .. Size - 1, Tiles(d, o),
         NEW i, IsIndex(i), Matches(d, i),
         NEW w \in Writers, NEW k \in Nat, NEW c \in ChunkID, NEW rec \in ChunkRecords,
         rec.key = <<w, c>>, rec.chunk = k, rec.size <= Size - o, rec.key \notin DOMAIN i,
         NEW complete \in BOOLEAN, last_chunk_id_written_ \in [Writers -> ChunkID],
         InsertRecord(d, i, o, rec, complete)
  PROVE  RingInv' /\ OnlyAdds(d, data_', w, k) /\ (late' = late \/ k <= reached[w])
  <1>1. /\ data_' = Inserted(d, o, rec)
        /\ index_' = Indexed(d, i, o, rec, complete)
        /\ wptr_' = NextWptr(o + rec.size)
        /\ last_chunk_id_written_' = [last_chunk_id_written_ EXCEPT ![w] = NewLastChunkId(w, c)]
        /\ late' = IF rec.chunk <= reached[w] THEN late \cup {w} ELSE late
    <2>1. rec.key[1] = w /\ rec.key[2] = c
      OBVIOUS
    <2> QED BY <2>1 DEF InsertRecord, Inserted, Indexed
  <1>2. rec \in Records
    BY DEF Records
  <1>3. IsRing(data_') /\ Tiles(data_', wptr_') /\ wptr_' \in 0 .. Size - 1
    BY <1>1, <1>2, InsertTiles, InsertedRecords
  <1>4. IsIndex(index_') /\ Matches(data_', index_')
    BY <1>1, ChunkMatches
  <1>5. last_chunk_id_written_' \in [Writers -> ChunkID]
    <2>1. NewLastChunkId(w, c) \in ChunkID
      BY DEF NewLastChunkId
    <2> QED BY <1>1, <2>1
  <1>6. OnlyAdds(d, data_', w, k)
    <2>1. /\ data_'[o] = rec
          /\ \A x \in DOMAIN data_' : ~data_'[x].is_padding /\ x # o =>
                x \in DOMAIN d /\ data_'[x] = d[x]
      BY <1>1, <1>2, InsertedRecords
    <2>2. rec.key[1] = w
      OBVIOUS
    <2> QED BY <2>1, <2>2 DEF OnlyAdds
  <1>7. late' = late \/ k <= reached[w]
    BY <1>1
  <1>8. RingInv'
    BY <1>3, <1>4, <1>5 DEF RingInv
  <1> QED BY <1>6, <1>7, <1>8

\* A record that is not: the padding before it may be there already.
LEMMA DiscardSound ==
  ASSUME NEW d, IsRing(d), NEW o \in 0 .. Size - 1, Tiles(d, o),
         NEW i, IsIndex(i), Matches(d, i), last_chunk_id_written_ \in [Writers -> ChunkID],
         DiscardWrite(d, i, o)
  PROVE  RingInv' /\ data_' = d /\ late' = late
  BY DEF DiscardWrite, RingInv

\* Padding up to the end of the buffer.
LEMMA WrapSound ==
  ASSUME NEW d, IsRing(d), NEW o \in 0 .. Size - 1, Tiles(d, o), NEW i, IsIndex(i), Matches(d, i)
  PROVE  LET to_end == Size - o
             e == WriteChunkRecord(d, o, Padding(to_end))
             j == Erased(d, i, Starts(d, o, to_end))
         IN  /\ IsRing(e) /\ Tiles(e, 0) /\ IsIndex(j) /\ Matches(e, j)
             /\ \A x \in DOMAIN e : ~e[x].is_padding => x \in DOMAIN d /\ e[x] = d[x]
             /\ DOMAIN j \subseteq DOMAIN i
  <1>1. PICK to_end, pad : to_end = Size - o /\ pad = Padding(to_end)
    OBVIOUS
  <1>2. /\ to_end \in 1 .. Size /\ pad \in Paddings /\ pad.size = to_end
        /\ pad.size <= Size - o /\ o + to_end = Size /\ pad.is_padding
    <2>1. Size \in Nat /\ to_end \in 1 .. Size /\ o + to_end = Size
      BY <1>1, BufferAssumption
    <2> QED BY <1>1, <2>1 DEF Padding, Paddings
  <1>3. pad \in Records
    BY <1>2 DEF Records
  <1>4. GapAfter(d, o, to_end) = 0
    <2>1. GapAfter(d, o, to_end) \in 0 .. Size - (o + to_end)
      BY <1>1, <1>2, GapIsFilled
    <2> QED BY <1>2, <2>1
  <1>5. PICK e : e = WriteChunkRecord(d, o, pad)
    OBVIOUS
  <1>6. e = Inserted(d, o, pad)
    BY <1>2, <1>4, <1>5 DEF Inserted
  <1>7. NextWptr(o + pad.size) = 0
    BY <1>2, BufferAssumption DEF NextWptr
  <1>8. IsRing(e) /\ Tiles(e, 0)
    BY <1>2, <1>3, <1>6, <1>7, InsertTiles, InsertedRecords
  <1>9. PICK j : j = Erased(d, i, Starts(d, o, to_end))
    OBVIOUS
  <1>10. IsIndex(j) /\ Matches(e, j)
    BY <1>2, <1>6, <1>9, PaddingMatches
  <1>11. DOMAIN j \subseteq DOMAIN i
    BY <1>9 DEF Erased
  <1>12. /\ e[o] = pad
         /\ \A x \in DOMAIN e : ~e[x].is_padding /\ x # o => x \in DOMAIN d /\ e[x] = d[x]
    BY <1>2, <1>3, <1>6, InsertedRecords
  <1>13. \A x \in DOMAIN e : ~e[x].is_padding => x \in DOMAIN d /\ e[x] = d[x]
    BY <1>2, <1>12
  <1> QED BY <1>1, <1>5, <1>8, <1>9, <1>10, <1>11, <1>13

\* Copies of a subset of the records are copies of the records.
LEMMA OnlyAddsToFewer ==
  ASSUME NEW d, NEW d1, NEW e, NEW w, NEW k, OnlyAdds(d1, e, w, k),
         \A x \in DOMAIN d1 : ~d1[x].is_padding => x \in DOMAIN d /\ d1[x] = d[x]
  PROVE  OnlyAdds(d, e, w, k)
  BY DEF OnlyAdds

LEMMA OnlyAddsNothing ==
  ASSUME NEW d, NEW w, NEW k
  PROVE  OnlyAdds(d, d, w, k)
  BY DEF OnlyAdds

LEMMA WriteNewChunkSound ==
  ASSUME RingInv, NEW w \in Writers, NEW k \in Nat, NEW c \in ChunkID, NEW rec \in ChunkRecords,
         rec.key = <<w, c>>, rec.chunk = k, rec.key \notin DOMAIN index_,
         NEW complete \in BOOLEAN, WriteNewChunk(rec, complete)
  PROVE  Copied(w, k)
  <1>1. /\ wptr_ \in 0 .. Size - 1 /\ IsRing(data_) /\ IsIndex(index_)
        /\ last_chunk_id_written_ \in [Writers -> ChunkID]
        /\ Tiles(data_, wptr_) /\ Matches(data_, index_)
    BY DEF RingInv
  <1>2. Size \in Nat /\ Size > 0 /\ rec.size \in 1 .. Size /\ wptr_ \in Nat
    BY <1>1, BufferAssumption DEF ChunkRecords
  <1>3. PICK to_end, pad, tail : /\ to_end = Size - wptr_ /\ pad = Padding(to_end)
                                 /\ tail = Starts(data_, wptr_, to_end)
    OBVIOUS
  <1>4. CASE DiscardWrite(data_, index_, wptr_)
    <2>1. RingInv' /\ data_' = data_ /\ late' = late
      BY <1>1, <1>4, DiscardSound
    <2> QED BY <2>1, OnlyAddsNothing DEF Copied
  <1>5. CASE rec.size > to_end
    <2>1. PICK d, i : /\ d = WriteChunkRecord(data_, wptr_, pad)
                      /\ i = Erased(data_, index_, tail)
      OBVIOUS
    <2>2. \/ DiscardWrite(data_, index_, wptr_)
          \/ DiscardWrite(d, i, 0)
          \/ InsertRecord(d, i, 0, rec, complete)
      BY <1>3, <1>5, <2>1 DEF WriteNewChunk
    <2>3. /\ IsRing(d) /\ Tiles(d, 0) /\ IsIndex(i) /\ Matches(d, i)
          /\ \A x \in DOMAIN d : ~d[x].is_padding => x \in DOMAIN data_ /\ d[x] = data_[x]
          /\ DOMAIN i \subseteq DOMAIN index_
      BY <1>1, <1>3, <2>1, WrapSound
    <2>4. 0 \in 0 .. Size - 1 /\ rec.size <= Size - 0 /\ rec.key \notin DOMAIN i
      BY <1>2, <2>3
    <2>5. CASE DiscardWrite(d, i, 0)
      <3>1. RingInv' /\ data_' = d /\ late' = late
        BY <1>1, <2>3, <2>4, <2>5, DiscardSound
      <3>2. OnlyAdds(data_, data_', w, k)
        BY <2>3, <3>1 DEF OnlyAdds
      <3> QED BY <3>1, <3>2 DEF Copied
    <2>6. CASE InsertRecord(d, i, 0, rec, complete)
      <3>1. RingInv' /\ OnlyAdds(d, data_', w, k) /\ (late' = late \/ k <= reached[w])
        BY <1>1, <2>3, <2>4, <2>6, InsertRecordSound
      <3>2. OnlyAdds(data_, data_', w, k)
        BY <2>3, <3>1, OnlyAddsToFewer
      <3> QED BY <3>1, <3>2 DEF Copied
    <2> QED BY <1>4, <2>2, <2>5, <2>6
  <1>6. CASE ~(rec.size > to_end)
    <2>1. DiscardWrite(data_, index_, wptr_) \/ InsertRecord(data_, index_, wptr_, rec, complete)
      BY <1>3, <1>6 DEF WriteNewChunk
    <2>2. rec.size <= Size - wptr_
      BY <1>2, <1>3, <1>6
    <2>3. CASE InsertRecord(data_, index_, wptr_, rec, complete)
      <3>1. RingInv' /\ OnlyAdds(data_, data_', w, k) /\ (late' = late \/ k <= reached[w])
        BY <1>1, <2>2, <2>3, InsertRecordSound
      <3> QED BY <3>1 DEF Copied
    <2> QED BY <1>4, <2>1, <2>3
  <1> QED BY <1>5, <1>6

\* The copy in the ring has grown, or is left alone.
LEMMA RewriteChunkSound ==
  ASSUME RingInv, NEW w \in Writers, NEW k \in Nat, NEW c \in ChunkID, NEW rec \in ChunkRecords,
         rec.key = <<w, c>>, rec.chunk = k, rec.key \in DOMAIN index_,
         NEW complete \in BOOLEAN, RewriteChunk(rec, complete)
  PROVE  Copied(w, k)
  <1>1. PICK meta, prev, new : /\ meta = index_[rec.key] /\ prev = data_[meta.record_off]
                               /\ new = RewrittenMeta(meta, rec, complete)
    OBVIOUS
  <1>2. \/ UNCHANGED <<data_, wptr_, index_, last_chunk_id_written_, late>>
        \/ /\ ~Inconsistent(prev, rec)
           /\ index_' = [index_ EXCEPT ![rec.key] = new]
           /\ data_' = [data_ EXCEPT ![meta.record_off] = rec]
           /\ UNCHANGED <<wptr_, last_chunk_id_written_, late>>
    BY <1>1 DEF RewriteChunk, AbiViolation, ring
  <1>3. CASE UNCHANGED <<data_, wptr_, index_, last_chunk_id_written_, late>>
    <2>1. RingInv'
      BY <1>3 DEF RingInv
    <2> QED BY <1>3, <2>1, OnlyAddsNothing DEF Copied
  <1>4. CASE /\ ~Inconsistent(prev, rec)
             /\ index_' = [index_ EXCEPT ![rec.key] = new]
             /\ data_' = [data_ EXCEPT ![meta.record_off] = rec]
             /\ UNCHANGED <<wptr_, last_chunk_id_written_, late>>
    <2>1. meta \in Metas
      BY <1>1 DEF RingInv, IsIndex
    <2>2. /\ new \in Metas /\ new.record_off = meta.record_off
          /\ new.num_fragments = rec.num_fragments /\ new.flags = rec.flags
      BY <1>1, <2>1 DEF RewrittenMeta, Metas, ChunkRecords
    <2>3. rec.size = data_[index_[rec.key].record_off].size
      BY <1>1, <1>4 DEF Inconsistent
    <2>4. /\ IsRing(data_') /\ Tiles(data_', wptr_) /\ IsIndex(index_') /\ Matches(data_', index_')
          /\ DOMAIN data_' = DOMAIN data_ /\ data_'[meta.record_off] = rec
          /\ \A x \in DOMAIN data_ : x # meta.record_off => data_'[x] = data_[x]
      <3>1. Replacement(data_, wptr_, meta.record_off, rec, data_', index_')
        BY <1>1, <1>4, <2>2, <2>3, ReplacedMatches DEF RingInv
      <3> QED BY <3>1 DEF Replacement
    <2>5. RingInv'
      BY <1>4, <2>4 DEF RingInv
    <2>6. rec.key[1] = w
      OBVIOUS
    <2>7. OnlyAdds(data_, data_', w, k)
      BY <2>4, <2>6 DEF OnlyAdds
    <2> QED BY <1>4, <2>5, <2>7 DEF Copied
  <1> QED BY <1>2, <1>3, <1>4

\* A copy of a chunk, complete or not, new or grown.
LEMMA CopyChunkSound ==
  ASSUME RingInv, smb \in [Writers -> Seq(Chunks)],
         NEW w \in Writers, NEW k \in DOMAIN smb[w], NEW complete \in BOOLEAN,
         CopyChunkUntrusted(w, k, complete)
  PROVE  Copied(w, k)
  <1>1. PICK c, n, flags, rec :
           /\ c = smb[w][k] /\ n = FragmentsOf(c, complete)
           /\ flags = (IF complete THEN FlagsOf(c) ELSE FlagsOf(c) \ {Last, Holes})
           /\ rec = ChunkRecord(w, k, n, flags)
    OBVIOUS
  <1>2. IF rec.key \in DOMAIN index_ THEN RewriteChunk(rec, complete)
                                     ELSE WriteNewChunk(rec, complete)
    BY <1>1 DEF CopyChunkUntrusted
  <1>3. c \in Chunks /\ k \in Nat
    BY <1>1, LenProperties, ElementOfSeq
  <1>4. n \in Int /\ flags \in SUBSET Flags
    BY <1>1, <1>3 DEF FragmentsOf, FlagsOf, Flags, Chunks
  <1>5. /\ rec \in ChunkRecords /\ rec.key = <<w, Id(k)>> /\ rec.chunk = k
        /\ Id(k) \in ChunkID
    BY <1>1, <1>3, <1>4, RecordType, IdIsAnId
  <1>6. CASE rec.key \in DOMAIN index_
    BY <1>2, <1>3, <1>5, <1>6, RewriteChunkSound
  <1>7. CASE rec.key \notin DOMAIN index_
    BY <1>2, <1>3, <1>5, <1>7, WriteNewChunkSound
  <1> QED BY <1>6, <1>7

-----------------------------------------------------------------------------
(***************************************************************************)
(* Shared memory.                                                          *)
(***************************************************************************)
ChunkTypes == smb \in [Writers -> Seq(Chunks)]

\* What a step may do to the chunks in shared memory: none goes away, and those of
\* N, no others, have been committed.
Evolves(N) ==
    /\ ChunkTypes'
    /\ \A w \in Writers : \A k \in Nat : Exists(w, k) => Exists(w, k)'
    /\ \A w \in Writers : \A k \in Nat :
          Committed(w, k)' <=> Committed(w, k) \/ <<w, k>> \in N

LEMMA ChunkType ==
  ASSUME ChunkTypes, NEW w \in Writers, NEW k \in DOMAIN smb[w]
  PROVE  smb[w][k] \in Chunks /\ k \in Nat \ {0} /\ k \in 1 .. Len(smb[w])
  BY LenProperties, ElementOfSeq DEF ChunkTypes

\* One writer's chunks become those of s.
LEMMA ChunksEvolve ==
  ASSUME ChunkTypes, NEW w \in Writers, NEW s \in Seq(Chunks), NEW N,
         smb' = [smb EXCEPT ![w] = s],
         Len(s) >= Len(smb[w]),
         \A k \in 1 .. Len(s) : s[k].state = "committed" <=> Committed(w, k) \/ <<w, k>> \in N,
         \A x \in N : \E k \in 1 .. Len(s) : x = <<w, k>>
  PROVE  Evolves(N)
  <1>1. smb' \in [Writers -> Seq(Chunks)] /\ smb'[w] = s
        /\ \A v \in Writers : v # w => smb'[v] = smb[v]
    BY DEF ChunkTypes
  <1>2. /\ smb[w] \in Seq(Chunks)
        /\ DOMAIN smb[w] = 1 .. Len(smb[w]) /\ Len(smb[w]) \in Nat
        /\ DOMAIN s = 1 .. Len(s) /\ Len(s) \in Nat
    BY LenProperties DEF ChunkTypes
  <1>3. ASSUME NEW v \in Writers, NEW k \in Nat, Exists(v, k) PROVE Exists(v, k)'
    BY <1>1, <1>2, <1>3 DEF Exists
  <1>4. ASSUME NEW v \in Writers, NEW k \in Nat
        PROVE  Committed(v, k)' <=> Committed(v, k) \/ <<v, k>> \in N
    <2>1. CASE v # w
      BY <1>1, <2>1 DEF Committed, Exists
    <2>2. CASE v = w /\ k \in 1 .. Len(s)
      BY <1>1, <1>2, <2>2 DEF Committed, Exists
    <2>3. CASE v = w /\ k \notin 1 .. Len(s)
      <3>1. ~Committed(w, k) /\ <<w, k>> \notin N /\ ~Committed(w, k)'
        BY <1>1, <1>2, <2>3 DEF Committed, Exists
      <3> QED BY <2>3, <3>1
    <2> QED BY <2>1, <2>2, <2>3
  <1> QED BY <1>1, <1>3, <1>4 DEF Evolves, ChunkTypes

\* One chunk becomes c.
LEMMA ChunkEvolves ==
  ASSUME ChunkTypes, NEW w \in Writers, NEW k \in DOMAIN smb[w], NEW c \in Chunks, NEW N,
         smb' = [smb EXCEPT ![w] = [smb[w] EXCEPT ![k] = c]],
         N = IF c.state = "committed" /\ smb[w][k].state # "committed" THEN {<<w, k>>} ELSE {},
         smb[w][k].state = "committed" => c.state = "committed"
  PROVE  Evolves(N)
  <1>1. PICK s : s = [smb[w] EXCEPT ![k] = c]
    OBVIOUS
  <1>2. smb[w] \in Seq(Chunks) /\ k \in 1 .. Len(smb[w]) /\ k \in Nat
        /\ DOMAIN smb[w] = 1 .. Len(smb[w]) /\ Len(smb[w]) \in Nat
    BY ChunkType, LenProperties DEF ChunkTypes
  <1>3. /\ s \in Seq(Chunks) /\ Len(s) = Len(smb[w])
        /\ \A j \in 1 .. Len(smb[w]) : s[j] = IF j = k THEN c ELSE smb[w][j]
    BY <1>1, <1>2, ExceptSeq
  <1>4. \A j \in 1 .. Len(s) : s[j].state = "committed" <=> Committed(w, j) \/ <<w, j>> \in N
    BY <1>2, <1>3 DEF Committed, Exists
  <1>5. \A x \in N : \E j \in 1 .. Len(s) : x = <<w, j>>
    BY <1>2, <1>3
  <1>6. smb' = [smb EXCEPT ![w] = s] /\ Len(s) >= Len(smb[w])
    BY <1>1, <1>2, <1>3
  <1> QED BY <1>3, <1>4, <1>5, <1>6, ChunksEvolve

\* A chunk of w is added.
LEMMA ChunkIsAdded ==
  ASSUME ChunkTypes, NEW w \in Writers, NEW s \in Seq(Chunks), NEW c \in Chunks,
         Len(s) = Len(smb[w]),
         \A k \in 1 .. Len(s) : s[k].state = "committed" <=> smb[w][k].state = "committed",
         c.state # "committed",
         smb' = [smb EXCEPT ![w] = Append(s, c)]
  PROVE  Evolves({}) /\ Len(smb[w]) + 1 \in DOMAIN smb'[w]
  <1>1. PICK t : t = Append(s, c)
    OBVIOUS
  <1>2. /\ t \in Seq(Chunks) /\ Len(t) = Len(s) + 1
        /\ \A k \in 1 .. Len(s) : t[k] = s[k]
        /\ t[Len(s) + 1] = c
    BY <1>1, AppendProperties
  <1>3. smb[w] \in Seq(Chunks) /\ DOMAIN smb[w] = 1 .. Len(smb[w]) /\ Len(smb[w]) \in Nat
        /\ DOMAIN t = 1 .. Len(t)
    BY <1>2, LenProperties DEF ChunkTypes
  <1>4. \A k \in 1 .. Len(t) : t[k].state = "committed" <=> Committed(w, k) \/ <<w, k>> \in {}
    BY <1>2, <1>3 DEF Committed, Exists
  <1>7. Len(t) >= Len(smb[w]) /\ smb' = [smb EXCEPT ![w] = t]
    BY <1>1, <1>2, <1>3
  <1>8. PICK N : N = {}
    OBVIOUS
  <1>9. Evolves(N)
    BY <1>2, <1>4, <1>7, <1>8, ChunksEvolve
  <1>5. Evolves({})
    BY <1>8, <1>9
  <1>6. smb'[w] = t
    BY <1>1 DEF ChunkTypes
  <1> QED BY <1>2, <1>3, <1>5, <1>6

\* A writer's current chunk.
LEMMA OpenChunk ==
  ASSUME ChunkTypes, NEW w \in Writers, HasOpenChunk(w)
  PROVE  /\ Len(smb[w]) \in DOMAIN smb[w] /\ Len(smb[w]) \in Nat
         /\ smb[w][Len(smb[w])] \in Chunks /\ smb[w][Len(smb[w])].state = "open"
  <1>1. smb[w] \in Seq(Chunks) /\ smb[w] # << >>
    BY DEF ChunkTypes, HasOpenChunk
  <1>2. Len(smb[w]) \in Nat \ {0} /\ DOMAIN smb[w] = 1 .. Len(smb[w])
    BY <1>1, EmptySeq, LenProperties
  <1> QED BY <1>2, ChunkType DEF HasOpenChunk

\* A chunk that is new.
LEMMA NewChunkType ==
  ASSUME NEW first \in Int, NEW from \in BOOLEAN
  PROVE  NewChunk(first, from) \in Chunks /\ NewChunk(first, from).state = "open"
  BY DEF NewChunk, Chunks

LEMMA LastPacketType == \A c \in Chunks : LastPacket(c) \in Int
  BY DEF LastPacket, Chunks

\* What a writer does: its chunks change, none is committed, and a new one may
\* join a sweep.
WriterLeaves(w) ==
    /\ Evolves({})
    /\ \/ UNCHANGED sweep
       \/ /\ Len(smb[w]) + 1 \in DOMAIN smb'[w]
          /\ JoinSweep(w, Len(smb[w]) + 1)
    /\ UNCHANGED <<ring, reader, ghost>>

LEMMA CurrentEvolves ==
  ASSUME ChunkTypes, NEW w \in Writers, HasOpenChunk(w), NEW c \in Chunks,
         c.state # "committed",
         smb' = [smb EXCEPT ![w] = [smb[w] EXCEPT ![Len(smb[w])] = c]]
  PROVE  Evolves({})
  <1>1. PICK k \in DOMAIN smb[w] : k = Len(smb[w]) /\ smb[w][k].state = "open"
    BY OpenChunk
  <1>2. PICK N : N = IF c.state = "committed" /\ smb[w][k].state # "committed"
                     THEN {<<w, k>>} ELSE {}
    OBVIOUS
  <1>3. Evolves(N)
    BY <1>1, <1>2, ChunkEvolves
  <1>4. N = {}
    BY <1>2
  <1> QED BY <1>3, <1>4

LEMMA NewTracePacketEvolves ==
  ASSUME ChunkTypes, NEW w \in Writers, NewTracePacket(w)
  PROVE  WriterLeaves(w)
  <1>1. UNCHANGED <<ring, reader, ghost>>
    BY DEF NewTracePacket
  <1>2. CASE /\ HasOpenChunk(w) /\ Current(w).extra
             /\ smb' = [smb EXCEPT ![w][Len(smb[w])].extra = FALSE]
             /\ UNCHANGED sweep
    <2>1. PICK c : c = [smb[w][Len(smb[w])] EXCEPT !.extra = FALSE]
      OBVIOUS
    <2>2. c \in Chunks /\ c.state # "committed"
      BY <1>2, <2>1, OpenChunk DEF Chunks
    <2>3. smb' = [smb EXCEPT ![w] = [smb[w] EXCEPT ![Len(smb[w])] = c]]
      BY <1>2, <2>1
    <2> QED BY <1>1, <1>2, <2>2, <2>3, CurrentEvolves DEF WriterLeaves
  <1>3. CASE /\ smb' = [smb EXCEPT ![w] = Append(@, NewChunk(NextPacket(w), FALSE))]
             /\ JoinSweep(w, Len(smb[w]) + 1)
    <2>1. smb[w] \in Seq(Chunks)
      BY DEF ChunkTypes
    <2>2. NextPacket(w) \in Int
      <3>1. CASE smb[w] # << >>
        <4>1. Len(smb[w]) \in DOMAIN smb[w]
          BY <2>1, <3>1, EmptySeq, LenProperties
        <4>2. LastPacket(smb[w][Len(smb[w])]) \in Int
          BY <4>1, ChunkType, LastPacketType
        <4> QED BY <4>2 DEF NextPacket
      <3> QED BY <3>1 DEF NextPacket
    <2>3. PICK c : c = NewChunk(NextPacket(w), FALSE)
      OBVIOUS
    <2>4. c \in Chunks /\ c.state # "committed"
      BY <2>2, <2>3, NewChunkType
    <2>5. Evolves({}) /\ Len(smb[w]) + 1 \in DOMAIN smb'[w]
      BY <1>3, <2>1, <2>3, <2>4, ChunkIsAdded DEF ChunkTypes
    <2> QED BY <1>1, <1>3, <2>5 DEF WriterLeaves
  <1> QED BY <1>2, <1>3 DEF NewTracePacket

LEMMA FinishTracePacketEvolves ==
  ASSUME ChunkTypes, NEW w \in Writers, FinishTracePacket(w)
  PROVE  WriterLeaves(w)
  <1>1. UNCHANGED <<sweep, ring, reader, ghost>> /\ HasOpenChunk(w)
    BY DEF FinishTracePacket
  <1>2. PICK c : c = smb[w][Len(smb[w])]
    OBVIOUS
  <1>3. c \in Chunks /\ c.state = "open"
    BY <1>1, <1>2, OpenChunk
  <1>4. PICK e : \/ e = [[c EXCEPT !.n = @ + 1] EXCEPT !.extra = TRUE]
                    /\ smb' = [smb EXCEPT ![w][Len(smb[w])].n = @ + 1,
                                          ![w][Len(smb[w])].extra = TRUE]
                 \/ e = [c EXCEPT !.state = "complete"]
                    /\ smb' = [smb EXCEPT ![w][Len(smb[w])].state = "complete"]
    BY DEF FinishTracePacket
  <1>5. e \in Chunks /\ e.state # "committed"
    <2>1. c.n + 1 \in Nat
      BY <1>3 DEF Chunks
    <2>2. e = [[c EXCEPT !.n = @ + 1] EXCEPT !.extra = TRUE] \/ e = [c EXCEPT !.state = "complete"]
      BY <1>4
    <2> QED BY <1>3, <2>1, <2>2 DEF Chunks
  <1>6. smb' = [smb EXCEPT ![w] = [smb[w] EXCEPT ![Len(smb[w])] = e]]
    <2>1. /\ smb \in [Writers -> Seq(Chunks)] /\ Len(smb[w]) \in DOMAIN smb[w]
          /\ c = smb[w][Len(smb[w])]
      BY <1>1, <1>2, OpenChunk DEF ChunkTypes
    <2> QED BY <1>4, <2>1
  <1>7. Evolves({})
    BY <1>1, <1>5, <1>6, CurrentEvolves
  <1> QED BY <1>1, <1>7 DEF WriterLeaves

\* The writer is done with its current chunk.
LEMMA ChunkIsReturned ==
  ASSUME ChunkTypes, NEW w \in Writers, HasOpenChunk(w), NEW bad \in BOOLEAN,
         smb' = [smb EXCEPT ![w][Len(smb[w])] = [@ EXCEPT !.state = "complete", !.bad = bad]],
         UNCHANGED <<sweep, ring, reader, ghost>>
  PROVE  WriterLeaves(w)
  <1>1. PICK c : c = smb[w][Len(smb[w])]
    OBVIOUS
  <1>2. c \in Chunks /\ c.state = "open"
    BY <1>1, OpenChunk
  <1>3. PICK e : e = [c EXCEPT !.state = "complete", !.bad = bad]
    OBVIOUS
  <1>4. e \in Chunks /\ e.state # "committed"
    BY <1>2, <1>3 DEF Chunks
  <1>5. smb' = [smb EXCEPT ![w] = [smb[w] EXCEPT ![Len(smb[w])] = e]]
    <2>1. /\ smb \in [Writers -> Seq(Chunks)] /\ Len(smb[w]) \in DOMAIN smb[w]
          /\ c = smb[w][Len(smb[w])]
      BY <1>1, OpenChunk DEF ChunkTypes
    <2> QED BY <1>3, <2>1
  <1>6. Evolves({})
    BY <1>4, <1>5, CurrentEvolves
  <1> QED BY <1>6 DEF WriterLeaves

LEMMA GetNewBufferEvolves ==
  ASSUME ChunkTypes, NEW w \in Writers, NEW h \in Nat, GetNewBuffer(w, h)
  PROVE  WriterLeaves(w)
  <1>1. /\ UNCHANGED <<ring, reader, ghost>> /\ HasOpenChunk(w)
        /\ JoinSweep(w, Len(smb[w]) + 1)
    BY DEF GetNewBuffer
  <1>2. PICK k, c : k = Len(smb[w]) /\ c = smb[w][k]
    OBVIOUS
  <1>3. k \in DOMAIN smb[w] /\ k \in 1 .. Len(smb[w]) /\ c \in Chunks /\ c.state = "open"
    BY <1>1, <1>2, OpenChunk, ChunkType
  <1>4. PICK e : e = [c EXCEPT !.state = "complete", !.on = TRUE, !.holes = h, !.unsent = h]
    OBVIOUS
  <1>5. e \in Chunks /\ e.state # "committed"
    BY <1>3, <1>4 DEF Chunks
  <1>6. PICK s, new : s = [smb[w] EXCEPT ![k] = e] /\ new = NewChunk(LastPacket(c), TRUE)
    OBVIOUS
  <1>7. smb[w] \in Seq(Chunks)
    BY DEF ChunkTypes
  <1>8. /\ s \in Seq(Chunks) /\ Len(s) = Len(smb[w])
        /\ \A j \in 1 .. Len(smb[w]) : s[j] = IF j = k THEN e ELSE smb[w][j]
    BY <1>3, <1>5, <1>6, <1>7, ExceptSeq
  <1>9. new \in Chunks /\ new.state # "committed"
    <2>1. LastPacket(c) \in Int
      BY <1>3, LastPacketType
    <2> QED BY <1>6, <2>1, NewChunkType
  <1>10. \A j \in 1 .. Len(s) : s[j].state = "committed" <=> smb[w][j].state = "committed"
    BY <1>2, <1>3, <1>5, <1>8
  <1>11. smb' = [smb EXCEPT ![w] = Append(s, new)]
    BY <1>2, <1>4, <1>6 DEF GetNewBuffer, Current
  <1>12. Evolves({}) /\ Len(smb[w]) + 1 \in DOMAIN smb'[w]
    BY <1>8, <1>9, <1>10, <1>11, ChunkIsAdded
  <1> QED BY <1>1, <1>12 DEF WriterLeaves

LEMMA WriterStepEvolves ==
  ASSUME ChunkTypes, load \in Loads, NEW w \in Writers, WriterStep(w)
  PROVE  WriterLeaves(w)
  <1>1. CASE ReturnCompletedChunk(w)
    <2>1. HasOpenChunk(w) /\ UNCHANGED <<sweep, ring, reader, ghost>>
      BY <1>1 DEF ReturnCompletedChunk
    <2>2. PICK c : c = smb[w][Len(smb[w])]
      OBVIOUS
    <2>3. c \in Chunks
      BY <2>1, <2>2, OpenChunk
    <2>4. PICK bad \in BOOLEAN : bad = c.bad
      BY <2>3 DEF Chunks
    <2>5. [c EXCEPT !.state = "complete"] = [c EXCEPT !.state = "complete", !.bad = bad]
      BY <2>3, <2>4 DEF Chunks
    <2>6. smb' = [smb EXCEPT ![w][Len(smb[w])] = [@ EXCEPT !.state = "complete", !.bad = bad]]
      BY <1>1, <2>2, <2>5 DEF ReturnCompletedChunk
    <2> QED BY <2>1, <2>6, ChunkIsReturned
  <1>2. CASE GetNewBufferDrops(w)
    <2>1. HasOpenChunk(w) /\ UNCHANGED <<sweep, ring, reader, ghost>>
      BY <1>2 DEF GetNewBufferDrops
    <2>2. smb' = [smb EXCEPT ![w][Len(smb[w])] = [@ EXCEPT !.state = "complete", !.bad = TRUE]]
      <3>1. /\ smb \in [Writers -> Seq(Chunks)] /\ Len(smb[w]) \in DOMAIN smb[w]
        BY <2>1, OpenChunk DEF ChunkTypes
      <3> QED BY <1>2, <3>1 DEF GetNewBufferDrops
    <2> QED BY <2>1, <2>2, ChunkIsReturned
  <1>3. CASE \E h \in 0 .. load.patches : GetNewBuffer(w, h)
    <2>1. PICK h \in 0 .. load.patches : GetNewBuffer(w, h)
      BY <1>3
    <2>2. load.patches \in Nat
      BY BufferAssumption
    <2> QED BY <2>1, <2>2, GetNewBufferEvolves
  <1> QED BY <1>1, <1>2, <1>3, NewTracePacketEvolves, FinishTracePacketEvolves DEF WriterStep

-----------------------------------------------------------------------------
(***************************************************************************)
(* The steps preserve the invariant.                                       *)
(***************************************************************************)
LEMMA InvParts ==
  BufferInv <=> /\ load \in Loads /\ ChunkTypes /\ reached \in [Writers -> Nat]
                /\ read_pc \in {"idle", "chunk", "fragments", "returned", "end"}
                /\ read_iter_ \in [seq : Writers \cup {0}, cur : 0 .. End]
                /\ RingInv /\ ScrapeTypes /\ ReaderIsOnAChunk
                /\ CommitsArePrefix /\ OnlyCommitted
  BY DEF BufferInv, Types, ChunkTypes, RingInv

\* Chunks that stay in place stay in the sweep.
LEMMA SweepEvolves ==
  ASSUME ScrapeTypes, NEW N, Evolves(N), sweep' = sweep
  PROVE  ScrapeTypes'
  <1>1. \A x \in sweep.todo : x.writer \in Writers /\ x.chunk \in Nat
    BY DEF ScrapeTypes
  <1> QED BY <1>1 DEF ScrapeTypes, Evolves

LEMMA WriterKeepsInv ==
  ASSUME BufferInv, NEW w \in Writers, WriterStep(w), UNCHANGED load
  PROVE  BufferInv'
  <1>1. /\ load \in Loads /\ ChunkTypes /\ reached \in [Writers -> Nat]
        /\ read_pc \in {"idle", "chunk", "fragments", "returned", "end"}
        /\ read_iter_ \in [seq : Writers \cup {0}, cur : 0 .. End]
        /\ RingInv /\ ScrapeTypes /\ ReaderIsOnAChunk
        /\ CommitsArePrefix /\ OnlyCommitted
    BY InvParts
  <1>2. WriterLeaves(w)
    BY <1>1, WriterStepEvolves
  <1>3. UNCHANGED <<wptr_, data_, index_, last_chunk_id_written_, read_pc, read_iter_, late, reached>>
    BY <1>2 DEF WriterLeaves, ring, reader, ghost
  <1>4. /\ ChunkTypes'
        /\ \A v \in Writers : \A k \in Nat : Exists(v, k) => Exists(v, k)'
        /\ \A v \in Writers : \A k \in Nat : Committed(v, k)' <=> Committed(v, k)
    BY <1>2 DEF WriterLeaves, Evolves
  <1>5. RingInv'
    BY <1>1, <1>3 DEF RingInv
  <1>6. ScrapeTypes' /\ (sweep' = sweep \/ (sweep.active /\ sweep'.active))
    <2>1. CASE UNCHANGED sweep
      <3>1. Evolves({})
        BY <1>2 DEF WriterLeaves
      <3> QED BY <1>1, <2>1, <3>1, SweepEvolves
    <2>2. CASE /\ Len(smb[w]) + 1 \in DOMAIN smb'[w]
               /\ sweep.active
               /\ sweep' = [sweep EXCEPT !.todo =
                               @ \cup {[writer |-> w, chunk |-> Len(smb[w]) + 1, open |-> TRUE]}]
      <3>1. PICK k : k = Len(smb[w]) + 1
        OBVIOUS
      <3>2. k \in Nat
        BY <1>1, <3>1, LenProperties DEF ChunkTypes
      <3>3. PICK x : x = [writer |-> w, chunk |-> k, open |-> TRUE]
        OBVIOUS
      <3>4. sweep.active /\ sweep' = [sweep EXCEPT !.todo = @ \cup {x}]
        BY <2>2, <3>1, <3>3
      <3>5. x \in [writer : Writers, chunk : Nat, open : BOOLEAN] /\ x.writer = w /\ x.chunk = k
        BY <3>2, <3>3
      <3>6. sweep \in [active : BOOLEAN, todo : SUBSET [writer : Writers, chunk : Nat, open : BOOLEAN]]
            /\ \A y \in sweep.todo : Exists(y.writer, y.chunk)
        BY <1>1 DEF ScrapeTypes
      <3>7. sweep'.todo = sweep.todo \cup {x} /\ sweep'.active = sweep.active
            /\ sweep' \in [active : BOOLEAN, todo : SUBSET [writer : Writers, chunk : Nat, open : BOOLEAN]]
        BY <3>4, <3>5, <3>6
      <3>8. Exists(w, k)'
        BY <2>2, <3>1 DEF Exists
      <3>9. ASSUME NEW y \in sweep.todo PROVE Exists(y.writer, y.chunk)'
        <4>1. y.writer \in Writers /\ y.chunk \in Nat
          BY <3>6
        <4> QED BY <1>4, <3>6, <4>1
      <3>10. ScrapeTypes'
        BY <3>5, <3>7, <3>8, <3>9 DEF ScrapeTypes
      <3> QED BY <3>4, <3>7, <3>10
    <2> QED BY <1>2, <2>1, <2>2 DEF WriterLeaves, JoinSweep
  <1>7. ReaderIsOnAChunk'
    BY <1>1, <1>3, <1>6 DEF ReaderIsOnAChunk, CurKey
  <1>8. CommitsArePrefix'
    BY <1>1, <1>4 DEF CommitsArePrefix
  <1>9. OnlyCommitted'
    <2>1. \A x \in DOMAIN data_ : ~data_[x].is_padding =>
             data_[x].key[1] \in Writers /\ data_[x].chunk \in Nat
      BY <1>1, RingTypes DEF RingInv, ChunkRecords, Key
    <2> QED BY <1>1, <1>3, <1>4, <1>6, <2>1 DEF OnlyCommitted
  <1> QED BY <1>1, <1>3, <1>4, <1>5, <1>6, <1>7, <1>8, <1>9
         DEF BufferInv, Types, ChunkTypes, RingInv

LEMMA CommitKeepsInv ==
  ASSUME BufferInv, NEW w \in Writers, CommitData(w), UNCHANGED load
  PROVE  BufferInv'
  <1>1. /\ load \in Loads /\ ChunkTypes /\ reached \in [Writers -> Nat]
        /\ read_pc \in {"idle", "chunk", "fragments", "returned", "end"}
        /\ read_iter_ \in [seq : Writers \cup {0}, cur : 0 .. End]
        /\ RingInv /\ ScrapeTypes /\ ReaderIsOnAChunk
        /\ CommitsArePrefix /\ OnlyCommitted
    BY InvParts
  <1>2. PICK k \in DOMAIN smb[w] :
           /\ Committable(w, k)
           /\ CopyChunkUntrusted(w, k, TRUE)
           /\ smb' = [smb EXCEPT ![w][k].state = "committed"]
    BY DEF CommitData
  <1>3. UNCHANGED <<sweep, read_pc, read_iter_, reached>> /\ read_pc = "idle" /\ ~sweep.active
    BY DEF CommitData, reader, ServiceIdle
  <1>4. k \in Nat \ {0} /\ smb[w][k] \in Chunks /\ smb[w][k].state = "complete"
    BY <1>1, <1>2, ChunkType DEF Committable
  <1>5. Copied(w, k)
    BY <1>1, <1>2, CopyChunkSound DEF ChunkTypes
  <1>6. PICK N : N = {<<w, k>>}
    OBVIOUS
  <1>7. Evolves(N)
    <2>1. PICK c : c = [smb[w][k] EXCEPT !.state = "committed"]
      OBVIOUS
    <2>2. c \in Chunks /\ c.state = "committed"
      BY <1>4, <2>1 DEF Chunks
    <2>3. smb' = [smb EXCEPT ![w] = [smb[w] EXCEPT ![k] = c]]
      BY <1>2, <2>1
    <2>4. N = IF c.state = "committed" /\ smb[w][k].state # "committed" THEN {<<w, k>>} ELSE {}
      BY <1>4, <1>6, <2>2
    <2> QED BY <1>1, <2>2, <2>3, <2>4, ChunkEvolves
  <1>8. /\ ChunkTypes'
        /\ \A v \in Writers : \A j \in Nat : Exists(v, j) => Exists(v, j)'
        /\ \A v \in Writers : \A j \in Nat :
              Committed(v, j)' <=> Committed(v, j) \/ (v = w /\ j = k)
    BY <1>6, <1>7 DEF Evolves
  <1>9. \A j \in 1 .. k - 1 : Committed(w, j)
    <2>1. \A j \in 1 .. k - 1 : j \in DOMAIN smb[w]
      <3>1. smb[w] \in Seq(Chunks)
        BY <1>1 DEF ChunkTypes
      <3>2. DOMAIN smb[w] = 1 .. Len(smb[w]) /\ Len(smb[w]) \in Nat
        BY <3>1, LenProperties
      <3> QED BY <1>2, <1>4, <3>2
    <2> QED BY <1>2, <2>1 DEF Committable, Committed, Exists
  <1>10. ~Committed(w, k)
    BY <1>4 DEF Committed
  <1>11. RingInv'
    BY <1>5 DEF Copied
  <1>12. ScrapeTypes'
    BY <1>1, <1>3, <1>7, SweepEvolves
  <1>13. ReaderIsOnAChunk'
    BY <1>1, <1>3 DEF ReaderIsOnAChunk, CurKey
  <1>14. CommitsArePrefix'
    <2> SUFFICES ASSUME NEW v \in Writers, NEW j \in Nat, Committed(v, j)',
                        NEW i \in 1 .. j - 1
                 PROVE  Committed(v, i)'
      BY DEF CommitsArePrefix
    <2>1. CASE Committed(v, j)
      <3>1. Committed(v, i)
        BY <1>1, <2>1 DEF CommitsArePrefix
      <3> QED BY <1>8, <3>1
    <2>2. CASE v = w /\ j = k
      BY <1>8, <1>9, <2>2
    <2> QED BY <1>8, <2>1, <2>2
  <1>15. OnlyCommitted'
    <2> SUFFICES ASSUME ~Scraping PROVE OnlyCommitted'
      BY DEF OnlyCommitted
    <2>1. /\ late = {} /\ ~sweep.active
          /\ \A x \in DOMAIN data_ : ~data_[x].is_padding =>
                Committed(data_[x].key[1], data_[x].chunk)
          /\ \A v \in Writers : reached[v] # 0 => Committed(v, reached[v])
      BY <1>1 DEF OnlyCommitted
    <2>2. late' = {}
      <3> SUFFICES ASSUME k <= reached[w] PROVE FALSE
        BY <1>5, <2>1 DEF Copied
      <3>1. reached[w] \in Nat /\ Committed(w, reached[w])
        BY <1>1, <1>4, <2>1
      <3>2. CASE k = reached[w]
        BY <1>10, <3>1, <3>2
      <3>3. CASE k # reached[w]
        <4>1. k \in 1 .. reached[w] - 1
          BY <1>4, <3>1, <3>3
        <4> QED BY <1>1, <1>10, <3>1, <4>1 DEF CommitsArePrefix
      <3> QED BY <3>2, <3>3
    <2>3. ASSUME NEW x \in DOMAIN data_', ~data_'[x].is_padding
          PROVE  /\ data_'[x].chunk \in DOMAIN smb'[data_'[x].key[1]]
                 /\ smb'[data_'[x].key[1]][data_'[x].chunk].state = "committed"
      <3>1. \/ data_'[x].key[1] = w /\ data_'[x].chunk = k
            \/ \E y \in DOMAIN data_ : /\ ~data_[y].is_padding
                                       /\ data_[y].key = data_'[x].key
                                       /\ data_[y].chunk = data_'[x].chunk
        BY <1>5, <2>3 DEF Copied, OnlyAdds
      <3>2. data_'[x].key[1] \in Writers /\ data_'[x].chunk \in Nat
        <4>1. data_'[x] \in ChunkRecords
          BY <1>11, <2>3 DEF RingInv, IsRing, ChunkRecords, Paddings
        <4> QED BY <4>1 DEF ChunkRecords, Key
      <3>3. PICK v \in Writers, j \in Nat : v = data_'[x].key[1] /\ j = data_'[x].chunk
        BY <3>2
      <3>4. Committed(v, j) \/ (v = w /\ j = k)
        BY <2>1, <3>1, <3>3
      <3>5. Committed(v, j)'
        BY <1>8, <3>4
      <3> QED BY <3>3, <3>5 DEF Committed, Exists
    <2>4. ASSUME NEW v \in Writers, reached[v] # 0
          PROVE  reached[v] \in DOMAIN smb'[v] /\ smb'[v][reached[v]].state = "committed"
      <3>1. PICK r \in Nat : r = reached[v]
        BY <1>1
      <3>2. Committed(v, r)'
        BY <1>8, <2>1, <2>4, <3>1
      <3> QED BY <3>1, <3>2 DEF Committed, Exists
    <2> QED BY <1>3, <2>1, <2>2, <2>3, <2>4 DEF OnlyCommitted, Committed, Exists
  <1> QED BY <1>1, <1>3, <1>8, <1>11, <1>12, <1>13, <1>14, <1>15
         DEF BufferInv, Types, ChunkTypes, RingInv

LEMMA PatchKeepsInv ==
  ASSUME BufferInv, NEW w \in Writers, NEW k \in DOMAIN smb[w], TryPatchChunkContents(w, k),
         UNCHANGED load
  PROVE  BufferInv'
  <1>1. /\ load \in Loads /\ ChunkTypes /\ reached \in [Writers -> Nat]
        /\ read_pc \in {"idle", "chunk", "fragments", "returned", "end"}
        /\ read_iter_ \in [seq : Writers \cup {0}, cur : 0 .. End]
        /\ RingInv /\ ScrapeTypes /\ ReaderIsOnAChunk
        /\ CommitsArePrefix /\ OnlyCommitted
    BY InvParts
  <1>2. PICK key, meta, rest :
           /\ key = <<w, Id(k)>> /\ meta = index_[key]
           /\ rest = IF smb[w][k].unsent = 1 THEN {Holes} ELSE {}
    OBVIOUS
  <1>3. /\ smb[w][k].unsent > 0
        /\ smb' = [smb EXCEPT ![w][k].unsent = @ - 1]
        /\ IF key \notin DOMAIN index_ THEN UNCHANGED <<data_, index_>>
           ELSE /\ index_' = [index_ EXCEPT ![key].flags = @ \ rest]
                /\ data_' = [data_ EXCEPT ![meta.record_off].flags = meta.flags \ rest,
                                          ![meta.record_off].holes = @ - 1]
        /\ UNCHANGED <<sweep, wptr_, last_chunk_id_written_, read_pc, read_iter_, reached, late>>
        /\ read_pc = "idle" /\ ~sweep.active
    BY <1>2 DEF TryPatchChunkContents, reader, ghost, ServiceIdle
  <1>4. k \in Nat \ {0} /\ smb[w][k] \in Chunks
    BY <1>1, ChunkType
  <1>5. Evolves({})
    <2>1. PICK c : c = [smb[w][k] EXCEPT !.unsent = @ - 1]
      OBVIOUS
    <2>2. c \in Chunks /\ c.state = smb[w][k].state
      BY <1>3, <1>4, <2>1 DEF Chunks
    <2>3. smb' = [smb EXCEPT ![w] = [smb[w] EXCEPT ![k] = c]]
      BY <1>3, <2>1
    <2>4. PICK N : N = IF c.state = "committed" /\ smb[w][k].state # "committed"
                       THEN {<<w, k>>} ELSE {}
      OBVIOUS
    <2>5. Evolves(N)
      BY <1>1, <2>2, <2>3, <2>4, ChunkEvolves
    <2>6. N = {}
      BY <2>2, <2>4
    <2> QED BY <2>5, <2>6
  <1>6. /\ ChunkTypes'
        /\ \A v \in Writers : \A j \in Nat : Committed(v, j)' <=> Committed(v, j)
    BY <1>5 DEF Evolves
  <1>7. /\ RingInv'
        /\ DOMAIN data_' = DOMAIN data_
        /\ \A x \in DOMAIN data_ : ~data_'[x].is_padding =>
              /\ ~data_[x].is_padding
              /\ data_'[x].key = data_[x].key /\ data_'[x].chunk = data_[x].chunk
    <2>1. CASE key \notin DOMAIN index_
      <3>1. UNCHANGED <<data_, index_, wptr_, last_chunk_id_written_>>
        BY <1>3, <2>1
      <3> QED BY <1>1, <3>1 DEF RingInv
    <2>2. CASE key \in DOMAIN index_
      <3>1. meta \in Metas /\ IsRing(data_) /\ IsIndex(index_) /\ Matches(data_, index_)
        BY <1>1, <1>2, <2>2 DEF RingInv, IsIndex
      <3>2. PICK off : off = meta.record_off
        OBVIOUS
      <3>3. /\ off \in DOMAIN data_ /\ ~data_[off].is_padding /\ data_[off].key = key
            /\ meta.num_fragments = data_[off].num_fragments
        BY <1>2, <2>2, <3>1, <3>2 DEF Matches
      <3>4. data_[off] \in ChunkRecords
        BY <3>1, <3>3, RingTypes
      <3>5. PICK rec, new : /\ rec = [data_[off] EXCEPT !.flags = meta.flags \ rest,
                                                        !.holes = data_[off].holes - 1]
                            /\ new = [meta EXCEPT !.flags = meta.flags \ rest]
        OBVIOUS
      <3>6. /\ rec \in ChunkRecords /\ rec.key = key /\ rec.size = data_[off].size
            /\ rec.chunk = data_[off].chunk
            /\ rec.num_fragments = meta.num_fragments /\ rec.flags = meta.flags \ rest
        <4>1. meta.flags \ rest \in SUBSET Flags /\ data_[off].holes - 1 \in Int
          <5>1. meta.flags \in SUBSET Flags
            BY <3>1 DEF Metas
          <5>2. data_[off].holes \in Int
            BY <3>4 DEF ChunkRecords
          <5> HIDE DEF Flags
          <5> QED BY <5>1, <5>2
        <4>2. rec \in ChunkRecords
          BY <3>4, <3>5, <4>1 DEF ChunkRecords
        <4>3. /\ rec.key = data_[off].key /\ rec.size = data_[off].size
              /\ rec.chunk = data_[off].chunk /\ rec.num_fragments = data_[off].num_fragments
              /\ rec.flags = meta.flags \ rest
          BY <3>4, <3>5 DEF ChunkRecords
        <4> QED BY <3>3, <4>2, <4>3
      <3>7. /\ new \in Metas /\ new.record_off = off
            /\ new.num_fragments = meta.num_fragments /\ new.flags = meta.flags \ rest
        BY <3>1, <3>2, <3>5 DEF Metas
      <3>8. index_' = [index_ EXCEPT ![key] = new]
        BY <1>2, <1>3, <2>2, <3>5
      <3>9. data_' = [data_ EXCEPT ![off] = rec]
        BY <1>3, <2>2, <3>2, <3>3, <3>4, <3>5 DEF ChunkRecords
      <3>10. Replacement(data_, wptr_, off, rec, data_', index_')
        <4>1. off = index_[key].record_off
          BY <1>2, <3>2
        <4>2. rec.size = data_[index_[key].record_off].size /\ new.record_off = index_[key].record_off
              /\ new.num_fragments = rec.num_fragments /\ new.flags = rec.flags
          BY <3>6, <3>7, <4>1
        <4>3. Tiles(data_, wptr_)
          BY <1>1 DEF RingInv
        <4>4. Replacement(data_, wptr_, index_[key].record_off, rec,
                          [data_ EXCEPT ![index_[key].record_off] = rec],
                          [index_ EXCEPT ![key] = new])
          BY <2>2, <3>1, <3>6, <3>7, <4>2, <4>3, ReplacedMatches
        <4> QED BY <3>8, <3>9, <4>1, <4>4
      <3>11. RingInv'
        BY <1>1, <1>3, <3>10 DEF RingInv, Replacement
      <3>12. \A x \in DOMAIN data_ : ~data_'[x].is_padding =>
                /\ ~data_[x].is_padding
                /\ data_'[x].key = data_[x].key /\ data_'[x].chunk = data_[x].chunk
        BY <3>3, <3>6, <3>10 DEF Replacement
      <3> QED BY <3>10, <3>11, <3>12 DEF Replacement
    <2> QED BY <2>1, <2>2
  <1>8. ScrapeTypes'
    BY <1>1, <1>3, <1>5, SweepEvolves
  <1>9. ReaderIsOnAChunk'
    BY <1>1, <1>3 DEF ReaderIsOnAChunk, CurKey
  <1>10. CommitsArePrefix'
    BY <1>1, <1>6 DEF CommitsArePrefix
  <1>11. OnlyCommitted'
    <2>1. \A x \in DOMAIN data_ : ~data_[x].is_padding =>
             data_[x].key[1] \in Writers /\ data_[x].chunk \in Nat
      BY <1>1, RingTypes DEF RingInv, ChunkRecords, Key
    <2> QED BY <1>1, <1>3, <1>6, <1>7, <2>1 DEF OnlyCommitted
  <1> QED BY <1>1, <1>3, <1>6, <1>7, <1>8, <1>9, <1>10, <1>11
         DEF BufferInv, Types, ChunkTypes, RingInv

LEMMA BeginSweepKeepsInv ==
  ASSUME BufferInv, BeginSweep, UNCHANGED load
  PROVE  BufferInv'
  <1>1. /\ load \in Loads /\ ChunkTypes /\ reached \in [Writers -> Nat]
        /\ read_pc \in {"idle", "chunk", "fragments", "returned", "end"}
        /\ read_iter_ \in [seq : Writers \cup {0}, cur : 0 .. End]
        /\ RingInv /\ ScrapeTypes /\ ReaderIsOnAChunk
        /\ CommitsArePrefix /\ OnlyCommitted
    BY InvParts
  <1>2. PICK todo :
           /\ sweep' = [active |-> TRUE, todo |-> todo]
           /\ todo = UNION {{[writer |-> w, chunk |-> k, open |-> smb[w][k].state = "open"] :
                               k \in {j \in DOMAIN smb[w] : smb[w][j].state # "committed"}} :
                            w \in Writers}
    BY DEF BeginSweep
  <1>3. /\ UNCHANGED <<smb, data_, wptr_, index_, last_chunk_id_written_, read_pc, read_iter_,
                       late, reached>>
        /\ Scraping /\ read_pc = "idle"
    BY DEF BeginSweep, ring, reader, ghost, ServiceIdle
  <1>4. ASSUME NEW x \in todo
        PROVE  /\ x \in [writer : Writers, chunk : Nat, open : BOOLEAN]
               /\ Exists(x.writer, x.chunk)
    <2>1. PICK w \in Writers : \E k \in DOMAIN smb[w] :
             x = [writer |-> w, chunk |-> k, open |-> smb[w][k].state = "open"]
      BY <1>2, <1>4
    <2>4. PICK k \in DOMAIN smb[w] :
             x = [writer |-> w, chunk |-> k, open |-> smb[w][k].state = "open"]
      BY <2>1
    <2>2. k \in Nat
      BY <1>1, ChunkType
    <2>3. x.writer = w /\ x.chunk = k
      BY <2>4
    <2> QED BY <2>4, <2>2, <2>3 DEF Exists
  <1>5. ScrapeTypes' /\ sweep'.active
    <2>1. sweep' \in [active : BOOLEAN, todo : SUBSET [writer : Writers, chunk : Nat, open : BOOLEAN]]
      BY <1>2, <1>4
    <2>2. \A x \in sweep'.todo : Exists(x.writer, x.chunk)'
      BY <1>2, <1>3, <1>4 DEF Exists
    <2> QED BY <1>2, <2>1, <2>2 DEF ScrapeTypes
  <1> QED BY <1>1, <1>3, <1>5
         DEF BufferInv, Types, ChunkTypes, RingInv, ReaderIsOnAChunk, CurKey, CommitsArePrefix,
             OnlyCommitted, Committed, Exists

LEMMA ScrapeKeepsInv ==
  ASSUME BufferInv, NEW x \in sweep.todo, ScrapeChunk(x), UNCHANGED load
  PROVE  BufferInv'
  <1>1. /\ load \in Loads /\ ChunkTypes /\ reached \in [Writers -> Nat]
        /\ read_pc \in {"idle", "chunk", "fragments", "returned", "end"}
        /\ read_iter_ \in [seq : Writers \cup {0}, cur : 0 .. End]
        /\ RingInv /\ ScrapeTypes /\ ReaderIsOnAChunk
        /\ CommitsArePrefix /\ OnlyCommitted
    BY InvParts
  <1>2. /\ x.writer \in Writers /\ x.chunk \in DOMAIN smb[x.writer]
        /\ sweep.active
    BY <1>1 DEF ScrapeTypes, Exists, ReaderIsOnAChunk
  <1>3. Scraping
    BY <1>1, <1>2 DEF OnlyCommitted
  <1>4. /\ UNCHANGED <<smb, read_pc, read_iter_, reached>>
        /\ sweep' = [sweep EXCEPT !.todo = @ \ {x}]
    BY DEF ScrapeChunk, reader
  <1>5. read_pc = "idle"
    BY <1>1, <1>2 DEF ReaderIsOnAChunk
  <1>6. RingInv'
    <2>1. PICK complete \in BOOLEAN :
             IF ~complete /\ smb[x.writer][x.chunk].n < 2 THEN UNCHANGED <<ring, late>>
             ELSE CopyChunkUntrusted(x.writer, x.chunk, complete)
      BY DEF ScrapeChunk
    <2>2. CASE UNCHANGED <<ring, late>>
      BY <1>1, <2>2 DEF RingInv, ring
    <2>3. CASE CopyChunkUntrusted(x.writer, x.chunk, complete)
      <3>1. Copied(x.writer, x.chunk)
        BY <1>1, <1>2, <2>3, CopyChunkSound DEF ChunkTypes
      <3> QED BY <3>1 DEF Copied
    <2> QED BY <2>1, <2>2, <2>3
  <1>7. ScrapeTypes' /\ sweep'.active
    <2>1. /\ sweep'.todo = sweep.todo \ {x} /\ sweep'.active = sweep.active
          /\ sweep' \in [active : BOOLEAN,
                         todo : SUBSET [writer : Writers, chunk : Nat, open : BOOLEAN]]
      BY <1>1, <1>4 DEF ScrapeTypes
    <2> QED BY <1>1, <1>2, <1>4, <2>1 DEF ScrapeTypes, Exists
  <1> QED BY <1>1, <1>3, <1>4, <1>5, <1>6, <1>7
         DEF BufferInv, Types, ChunkTypes, RingInv, ReaderIsOnAChunk, CurKey, CommitsArePrefix,
             OnlyCommitted, Committed, Exists

LEMMA EndSweepKeepsInv ==
  ASSUME BufferInv, EndSweep, UNCHANGED load
  PROVE  BufferInv'
  <1>1. /\ sweep' = [active |-> FALSE, todo |-> {}]
        /\ UNCHANGED <<smb, data_, wptr_, index_, last_chunk_id_written_, read_pc, read_iter_,
                       late, reached>>
    BY DEF EndSweep, NoSweep, ring, reader, ghost
  <1>2. /\ sweep' \in [active : BOOLEAN,
                       todo : SUBSET [writer : Writers, chunk : Nat, open : BOOLEAN]]
        /\ sweep'.todo = {} /\ ~sweep'.active
    BY <1>1
  <1>3. ScrapeTypes'
    BY <1>2 DEF ScrapeTypes
  <1> QED BY <1>1, <1>2, <1>3
         DEF BufferInv, Types, ReaderIsOnAChunk, CurKey, CommitsArePrefix,
             OnlyCommitted, Committed, Exists

-----------------------------------------------------------------------------
(***************************************************************************)
(* Reading.                                                                *)
(***************************************************************************)
IterIsSound(it) ==
    /\ it \in [seq : Writers \cup {0}, cur : 0 .. End]
    /\ it.cur # End => <<it.seq, it.cur>> \in DOMAIN index_

\* What a step of the reader may do.
ReadsSoundly ==
    /\ UNCHANGED <<smb, sweep, data_, wptr_, last_chunk_id_written_, late>>
    /\ ~sweep.active
    /\ IsIndex(index_') /\ Matches(data_, index_') /\ DOMAIN index_' = DOMAIN index_
    /\ read_pc' \in {"idle", "chunk", "fragments", "returned", "end"}
    /\ IterIsSound(read_iter_')
    /\ read_pc' = "idle" => read_iter_'.cur = End
    /\ read_pc' = "fragments" => read_iter_'.cur # End
    /\ reached' \in [Writers -> Nat]
    /\ \A w \in Writers :
          \/ reached'[w] = reached[w]
          \/ \E x \in DOMAIN data_ : /\ ~data_[x].is_padding
                                     /\ data_[x].key[1] = w /\ data_[x].chunk = reached'[w]

LEMMA ReadKeepsInv ==
  ASSUME BufferInv, ReadsSoundly, UNCHANGED load
  PROVE  BufferInv'
  <1>1. /\ load \in Loads /\ ChunkTypes /\ reached \in [Writers -> Nat]
        /\ RingInv /\ ScrapeTypes /\ ReaderIsOnAChunk
        /\ CommitsArePrefix /\ OnlyCommitted
    BY InvParts
  <1>2. RingInv'
    BY <1>1 DEF ReadsSoundly, RingInv
  <1>3. ReaderIsOnAChunk'
    BY <1>1 DEF ReadsSoundly, ReaderIsOnAChunk, IterIsSound, CurKey
  <1>4. OnlyCommitted'
    <2>1. ASSUME ~Scraping, NEW w \in Writers, reached'[w] # 0
          PROVE  Committed(w, reached'[w])
      <3>1. CASE reached'[w] = reached[w]
        BY <1>1, <2>1, <3>1 DEF OnlyCommitted
      <3>2. CASE \E x \in DOMAIN data_ : /\ ~data_[x].is_padding
                                         /\ data_[x].key[1] = w /\ data_[x].chunk = reached'[w]
        BY <1>1, <2>1, <3>2 DEF OnlyCommitted
      <3> QED BY <3>1, <3>2 DEF ReadsSoundly
    <2> QED BY <1>1, <2>1 DEF ReadsSoundly, OnlyCommitted, Committed, Exists
  <1>5. ScrapeTypes' /\ ChunkTypes' /\ CommitsArePrefix'
    BY <1>1 DEF ReadsSoundly, ScrapeTypes, ChunkTypes, CommitsArePrefix, Committed, Exists
  <1> QED BY <1>1, <1>2, <1>3, <1>4, <1>5
         DEF BufferInv, Types, ChunkTypes, RingInv, ReadsSoundly, IterIsSound

\* An entry in the index, and the record it is about.
LEMMA EntryIs ==
  ASSUME RingInv, NEW key \in DOMAIN index_
  PROVE  /\ index_[key] \in Metas /\ key \in Key
         /\ index_[key].record_off \in DOMAIN data_
         /\ ~data_[index_[key].record_off].is_padding
         /\ data_[index_[key].record_off].key = key
         /\ data_[index_[key].record_off].chunk \in Nat
  <1>1. /\ index_[key] \in Metas /\ key \in Key
        /\ index_[key].record_off \in DOMAIN data_
        /\ ~data_[index_[key].record_off].is_padding
        /\ data_[index_[key].record_off].key = key
    BY DEF RingInv, IsIndex, Matches
  <1>2. data_[index_[key].record_off] \in ChunkRecords
    BY <1>1, RingTypes DEF RingInv
  <1> QED BY <1>1, <1>2 DEF ChunkRecords

LEMMA AfterFragmentIs ==
  ASSUME RingInv, NEW key \in DOMAIN index_, NEW invalid \in BOOLEAN
  PROVE  /\ AfterFragment(key, invalid) \in Metas
         /\ AfterFragment(key, invalid).record_off = index_[key].record_off
         /\ AfterFragment(key, invalid).num_fragments = index_[key].num_fragments
         /\ AfterFragment(key, invalid).flags = index_[key].flags
  <1>1. PICK meta : meta = index_[key]
    OBVIOUS
  <1>2. meta \in Metas
    BY <1>1, EntryIs
  <1>3. CASE invalid
    <2>1. AfterFragment(key, invalid) = [meta EXCEPT !.num_fragments_read = meta.num_fragments]
      BY <1>1, <1>3 DEF AfterFragment
    <2> QED BY <1>1, <1>2, <2>1 DEF Metas
  <1>4. CASE ~invalid
    <2>1. AfterFragment(key, invalid) =
             [meta EXCEPT !.num_fragments_read = meta.num_fragments_read + 1, !.skipped = FALSE]
      BY <1>1, <1>4 DEF AfterFragment
    <2>2. PICK n : n = meta.num_fragments_read + 1
      OBVIOUS
    <2>3. n \in Int
      BY <1>2, <2>2 DEF Metas
    <2> QED BY <1>1, <1>2, <2>1, <2>2, <2>3 DEF Metas
  <1> QED BY <1>3, <1>4

\* Entries that are replaced by ones that differ in what has been read.
LEMMA EntriesRead ==
  ASSUME RingInv, NEW j, DOMAIN j = DOMAIN index_, j \in [DOMAIN index_ -> Metas],
         \A key \in DOMAIN index_ : /\ j[key].record_off = index_[key].record_off
                                    /\ j[key].num_fragments = index_[key].num_fragments
                                    /\ j[key].flags = index_[key].flags
  PROVE  IsIndex(j) /\ Matches(data_, j)
  <1>1. Matches(data_, j)
    BY ReadMatches DEF RingInv
  <1>2. DOMAIN index_ \subseteq Key
    BY DEF RingInv, IsIndex
  <1> QED BY <1>1, <1>2 DEF IsIndex

\* One entry that is replaced so.
LEMMA EntryRead ==
  ASSUME RingInv, NEW key \in DOMAIN index_, NEW meta \in Metas,
         meta.record_off = index_[key].record_off,
         meta.num_fragments = index_[key].num_fragments,
         meta.flags = index_[key].flags
  PROVE  LET j == [index_ EXCEPT ![key] = meta] IN
         IsIndex(j) /\ Matches(data_, j) /\ DOMAIN j = DOMAIN index_
  <1>1. PICK j : j = [index_ EXCEPT ![key] = meta]
    OBVIOUS
  <1>2. DOMAIN j = DOMAIN index_ /\ j \in [DOMAIN index_ -> Metas]
    BY <1>1 DEF RingInv, IsIndex
  <1>3. \A k \in DOMAIN index_ : /\ j[k].record_off = index_[k].record_off
                                 /\ j[k].num_fragments = index_[k].num_fragments
                                 /\ j[k].flags = index_[k].flags
    BY <1>1
  <1> QED BY <1>1, <1>2, <1>3, EntriesRead

\* The chunk that was reached is one in the ring.
LEMMA ReachedIs ==
  ASSUME RingInv, reached \in [Writers -> Nat], NEW key \in DOMAIN index_,
         NEW w \in Writers, key[1] = w, Reached(w, NextSlice(key)[1])
  PROVE  /\ reached' \in [Writers -> Nat]
         /\ \A v \in Writers :
               \/ reached'[v] = reached[v]
               \/ \E x \in DOMAIN data_ : /\ ~data_[x].is_padding
                                          /\ data_[x].key[1] = v /\ data_[x].chunk = reached'[v]
  <1>1. PICK k : k = data_[index_[key].record_off].chunk
    OBVIOUS
  <1>2. k \in Nat /\ NextSlice(key)[1] = k
    BY <1>1, EntryIs DEF NextSlice
  <1>3. PICK r \in Nat : r = reached[w]
    OBVIOUS
  <1>4. Max({r, k}) \in {r, k}
    <2>1. {r, k} \in SUBSET Nat /\ {r, k} # {} /\ r + k \in Nat /\ \A m \in {r, k} : m <= r + k
      BY <1>2
    <2> QED BY <2>1, GreatestElement
  <1>5. reached' = [reached EXCEPT ![w] = Max({r, k})]
    BY <1>2, <1>3 DEF Reached
  <1>6. reached'[w] = r \/ reached'[w] = k
    BY <1>4, <1>5
  <1>7. \A v \in Writers : v # w => reached'[v] = reached[v]
    BY <1>5
  <1>8. reached' \in [Writers -> Nat]
    BY <1>2, <1>4, <1>5
  <1> QED BY <1>1, <1>3, <1>6, <1>7, <1>8, EntryIs

\* Where the reading of a sequence begins.
LEMMA SequenceStarts ==
  ASSUME RingInv, NEW w \in SequencesInIndex
  PROVE  /\ IterIsSound(GetReadIterForSequence(w))
         /\ GetReadIterForSequence(w).cur # End
  <1>1. PICK above : above = {c \in IdsOf(w) : c > last_chunk_id_written_[w]}
    OBVIOUS
  <1>2. PICK from : from = IF above # {} THEN above ELSE IdsOf(w)
    OBVIOUS
  <1>3. w \in Writers /\ from # {} /\ from \subseteq IdsOf(w)
    BY <1>1, <1>2 DEF SequencesInIndex
  <1>4. IdsOf(w) \subseteq ChunkID /\ \A c \in IdsOf(w) : <<w, c>> \in DOMAIN index_
    BY DEF IdsOf
  <1>5. kMaxChunkID \in Nat
    BY BufferAssumption
  <1>6. from \in SUBSET Nat
    BY <1>3, <1>4, <1>5 DEF ChunkID
  <1>7. Min(from) \in from
    BY <1>3, <1>6, LeastElement
  <1>8. GetReadIterForSequence(w) = [seq |-> w, cur |-> Min(from)]
    BY <1>1, <1>2 DEF GetReadIterForSequence
  <1>9. Min(from) \in 0 .. End /\ Min(from) # End
    BY <1>3, <1>4, <1>5, <1>7 DEF ChunkID, End
  <1> QED BY <1>3, <1>4, <1>7, <1>8, <1>9 DEF IterIsSound

LEMMA FirstSequence ==
  ASSUME NEW S \in SUBSET SequencesInIndex, S # {}
  PROVE  Min(S) \in S
  <1>1. S \in SUBSET Nat
    BY BufferAssumption DEF SequencesInIndex
  <1> QED BY <1>1, LeastElement

\* Where it goes on.
LEMMA MoveNextIs ==
  ASSUME NEW w, NEW c, MoveNext(w, c) # End
  PROVE  MoveNext(w, c) = NextId(c) /\ <<w, NextId(c)>> \in DOMAIN index_
  BY DEF MoveNext

\* What the reader may rely on.
Reading ==
    /\ RingInv /\ reached \in [Writers -> Nat]
    /\ read_pc \in {"idle", "chunk", "fragments", "returned", "end"}
    /\ IterIsSound(read_iter_)
    /\ read_pc = "idle" => read_iter_.cur = End
    /\ read_pc = "fragments" => read_iter_.cur # End
    /\ ~sweep.active

LEMMA ReaderMayRely ==
  ASSUME BufferInv, ReadStep
  PROVE  Reading
  <1>1. /\ RingInv /\ ReaderIsOnAChunk /\ reached \in [Writers -> Nat]
        /\ read_pc \in {"idle", "chunk", "fragments", "returned", "end"}
        /\ read_iter_ \in [seq : Writers \cup {0}, cur : 0 .. End]
    BY InvParts
  <1>2. ~sweep.active
    <2>1. read_pc # "idle" \/ ServiceIdle
      BY DEF ReadStep, BeginRead, ReadNextTracePacket, EnterChunk, NoMoreFragments, SkipFragment,
             ReadOnePacket, ReadAhead, ReadAheadFails, EndRead, NextFragment
    <2> QED BY <1>1, <2>1 DEF ReaderIsOnAChunk, ServiceIdle
  <1> QED BY <1>1, <1>2 DEF Reading, ReaderIsOnAChunk, IterIsSound, CurKey

\* The chunk whose fragments are read.
LEMMA CurrentIs ==
  ASSUME Reading, read_pc = "fragments"
  PROVE  /\ CurKey \in DOMAIN index_ /\ CurKey[1] = read_iter_.seq
         /\ read_iter_.seq \in Writers /\ CurMeta \in Metas
  <1>1. CurKey \in DOMAIN index_ /\ CurKey[1] = read_iter_.seq
    BY DEF Reading, IterIsSound, CurKey
  <1>2. CurKey \in Key /\ CurMeta \in Metas
    BY <1>1, EntryIs DEF Reading, CurMeta
  <1> QED BY <1>1, <1>2 DEF Key

LEMMA EnterChunkReads ==
  ASSUME Reading, EnterChunk
  PROVE  ReadsSoundly
  <1>1. PICK later, moves, it :
           /\ later = {w \in SequencesInIndex : w > read_iter_.seq}
           /\ moves = (read_iter_.cur = End)
           /\ it = IF moves THEN GetReadIterForSequence(Min(later)) ELSE read_iter_
    OBVIOUS
  <1>2. /\ read_pc = "chunk"
        /\ UNCHANGED <<smb, sweep, data_, wptr_, index_, last_chunk_id_written_, reached, late>>
        /\ \/ read_pc' = "end" /\ read_iter_' = read_iter_
           \/ /\ ~(moves /\ later = {})
              /\ \/ read_iter_' = [it EXCEPT !.cur = End] /\ read_pc' = read_pc
                 \/ read_iter_' = it /\ read_pc' = "fragments"
    BY <1>1 DEF EnterChunk, ring, ghost
  <1>3. ASSUME ~(moves /\ later = {}) PROVE IterIsSound(it) /\ it.cur # End
    <2>1. CASE moves
      <3>1. Min(later) \in SequencesInIndex
        BY <1>1, <1>3, <2>1, FirstSequence
      <3> QED BY <1>1, <2>1, <3>1, SequenceStarts DEF Reading
    <2>2. CASE ~moves
      BY <1>1, <2>2 DEF Reading
    <2> QED BY <2>1, <2>2
  <1>4. End \in 0 .. End
    BY BufferAssumption DEF End
  <1>5. ASSUME ~(moves /\ later = {}) PROVE IterIsSound([it EXCEPT !.cur = End])
    <2>1. it \in [seq : Writers \cup {0}, cur : 0 .. End]
      BY <1>3, <1>5 DEF IterIsSound
    <2> QED BY <1>4, <2>1 DEF IterIsSound
  <1>6. IterIsSound(read_iter_')
    BY <1>2, <1>3, <1>5 DEF Reading
  <1>7. read_pc' = "fragments" => read_iter_'.cur # End
    BY <1>2, <1>3
  <1>8. IsIndex(index_') /\ Matches(data_, index_')
    BY <1>2 DEF Reading, RingInv
  <1> QED BY <1>2, <1>6, <1>7, <1>8 DEF Reading, ReadsSoundly

\* The steps that leave the ring and the reader's place alone.
LEMMA BetweenChunksReads ==
  ASSUME Reading,
         UNCHANGED <<smb, sweep, data_, wptr_, index_, last_chunk_id_written_, reached, late>>,
         read_pc' \in {"idle", "chunk", "fragments", "returned", "end"}, read_pc' # "fragments",
         IterIsSound(read_iter_'), read_pc' = "idle" => read_iter_'.cur = End
  PROVE  ReadsSoundly
  BY DEF Reading, ReadsSoundly, RingInv

LEMMA NoIterIsSound == IterIsSound(NoIter) /\ NoIter.cur = End
  BY BufferAssumption DEF IterIsSound, NoIter, End

LEMMA BeginReadReads ==
  ASSUME Reading, BeginRead
  PROVE  ReadsSoundly
  <1>1. IterIsSound(read_iter_')
    <2>1. CASE SequencesInIndex = {}
      BY <2>1, NoIterIsSound DEF BeginRead
    <2>2. CASE SequencesInIndex # {}
      <3>1. Min(SequencesInIndex) \in SequencesInIndex
        BY <2>2, FirstSequence
      <3> QED BY <2>2, <3>1, SequenceStarts DEF BeginRead, Reading
    <2> QED BY <2>1, <2>2
  <1> QED BY <1>1, BetweenChunksReads DEF BeginRead, ring, ghost

LEMMA MoveNextIsAnId ==
  ASSUME NEW w, NEW c \in 0 .. End
  PROVE  MoveNext(w, c) \in 0 .. End
  <1>1. kMaxChunkID \in Nat /\ End = kMaxChunkID + 1 /\ ChunkID = 0 .. kMaxChunkID
    BY BufferAssumption DEF End, ChunkID
  <1>2. NextId(c) \in ChunkID
    <2>1. c \in Int
      BY <1>1
    <2> QED BY <2>1, IdIsAnId
  <1> QED BY <1>1, <1>2 DEF MoveNext

LEMMA NoMoreFragmentsReads ==
  ASSUME Reading, NoMoreFragments
  PROVE  ReadsSoundly
  <1>1. PICK w, c, n : w = read_iter_.seq /\ c = read_iter_.cur /\ n = MoveNext(w, c)
    OBVIOUS
  <1>2. read_iter_ \in [seq : Writers \cup {0}, cur : 0 .. End]
    BY DEF Reading, IterIsSound
  <1>3. c \in 0 .. End /\ n \in 0 .. End
    BY <1>1, <1>2, MoveNextIsAnId
  <1>4. read_iter_' = [read_iter_ EXCEPT !.cur = n]
    BY <1>1 DEF NoMoreFragments
  <1>5. /\ read_iter_' \in [seq : Writers \cup {0}, cur : 0 .. End]
        /\ read_iter_'.seq = w /\ read_iter_'.cur = n
    BY <1>1, <1>2, <1>3, <1>4
  <1>6. n # End => <<w, n>> \in DOMAIN index_
    BY <1>1, MoveNextIs
  <1>7. IterIsSound(read_iter_')
    BY <1>5, <1>6 DEF IterIsSound
  <1> QED BY <1>7, BetweenChunksReads DEF NoMoreFragments, LeaveRing

\* A step that takes one fragment of the current chunk.
LEMMA FragmentReads ==
  ASSUME Reading, read_pc = "fragments", NEW meta \in Metas,
         meta.record_off = CurMeta.record_off,
         meta.num_fragments = CurMeta.num_fragments, meta.flags = CurMeta.flags,
         index_' = [index_ EXCEPT ![CurKey] = meta],
         Reached(read_iter_.seq, NextSlice(CurKey)[1]),
         read_pc' \in {"fragments", "returned"}, UNCHANGED read_iter_, LeaveRing
  PROVE  ReadsSoundly
  <1>1. CurKey \in DOMAIN index_ /\ CurKey[1] = read_iter_.seq /\ read_iter_.seq \in Writers
    BY CurrentIs
  <1>2. IsIndex(index_') /\ Matches(data_, index_') /\ DOMAIN index_' = DOMAIN index_
    BY <1>1, EntryRead DEF CurMeta, Reading
  <1>3. /\ reached' \in [Writers -> Nat]
        /\ \A v \in Writers :
              \/ reached'[v] = reached[v]
              \/ \E x \in DOMAIN data_ : /\ ~data_[x].is_padding
                                         /\ data_[x].key[1] = v /\ data_[x].chunk = reached'[v]
    BY <1>1, ReachedIs DEF Reading
  <1> QED BY <1>2, <1>3 DEF Reading, ReadsSoundly, LeaveRing

LEMMA SkipFragmentReads ==
  ASSUME Reading, SkipFragment
  PROVE  ReadsSoundly
  <1>1. read_pc = "fragments"
    BY DEF SkipFragment, NextFragment
  <1>2. PICK dropped \in BOOLEAN : dropped = IsDropped(read_iter_.seq, NextSlice(CurKey))
    BY DEF IsDropped
  <1>3. PICK after, meta : /\ after = AfterFragment(CurKey, dropped)
                           /\ meta = [after EXCEPT !.skipped = TRUE]
    OBVIOUS
  <1>4. /\ after \in Metas /\ after.record_off = CurMeta.record_off
        /\ after.num_fragments = CurMeta.num_fragments /\ after.flags = CurMeta.flags
    BY <1>1, <1>3, CurrentIs, AfterFragmentIs DEF CurMeta, Reading
  <1>5. /\ meta \in Metas /\ meta.record_off = CurMeta.record_off
        /\ meta.num_fragments = CurMeta.num_fragments /\ meta.flags = CurMeta.flags
    BY <1>3, <1>4 DEF Metas
  <1>6. index_' = [index_ EXCEPT ![CurKey] = meta]
    BY <1>2, <1>3 DEF SkipFragment
  <1> QED BY <1>1, <1>5, <1>6, FragmentReads DEF SkipFragment

LEMMA ReadOnePacketReads ==
  ASSUME Reading, ReadOnePacket
  PROVE  ReadsSoundly
  <1>1. read_pc = "fragments"
    BY DEF ReadOnePacket, NextFragment
  <1>2. PICK whole, invalid, meta :
           /\ whole = AfterFragment(CurKey, FALSE)
           /\ invalid = AfterFragment(CurKey, TRUE)
           /\ meta = [invalid EXCEPT !.skipped = TRUE]
    OBVIOUS
  <1>3. /\ whole \in Metas /\ whole.record_off = CurMeta.record_off
        /\ whole.num_fragments = CurMeta.num_fragments /\ whole.flags = CurMeta.flags
        /\ invalid \in Metas /\ invalid.record_off = CurMeta.record_off
        /\ invalid.num_fragments = CurMeta.num_fragments /\ invalid.flags = CurMeta.flags
    BY <1>1, <1>2, CurrentIs, AfterFragmentIs DEF CurMeta, Reading
  <1>4. /\ meta \in Metas /\ meta.record_off = CurMeta.record_off
        /\ meta.num_fragments = CurMeta.num_fragments /\ meta.flags = CurMeta.flags
    BY <1>2, <1>3 DEF Metas
  <1>5. /\ \/ index_' = [index_ EXCEPT ![CurKey] = meta]
           \/ index_' = [index_ EXCEPT ![CurKey] = whole]
        /\ read_pc' \in {"fragments", "returned"}
        /\ Reached(read_iter_.seq, NextSlice(CurKey)[1])
        /\ UNCHANGED read_iter_ /\ LeaveRing
    BY <1>1, <1>2 DEF ReadOnePacket, ReturnPacket
  <1>6. CASE index_' = [index_ EXCEPT ![CurKey] = meta]
    BY <1>1, <1>4, <1>5, <1>6, FragmentReads
  <1>7. CASE index_' = [index_ EXCEPT ![CurKey] = whole]
    BY <1>1, <1>3, <1>5, <1>7, FragmentReads
  <1> QED BY <1>5, <1>6, <1>7

\* The entries after the chunks of a packet have given their next fragment.
EntriesAfter(keys, corrupt) ==
    [key \in DOMAIN index_ |->
        IF key \in keys THEN AfterFragment(key, key \in corrupt) ELSE index_[key]]

LEMMA EntriesAfterRead ==
  ASSUME RingInv, NEW keys, NEW corrupt
  PROVE  LET read == EntriesAfter(keys, corrupt) IN
         /\ read \in [DOMAIN index_ -> Metas] /\ DOMAIN read = DOMAIN index_
         /\ \A key \in DOMAIN index_ : /\ read[key].record_off = index_[key].record_off
                                       /\ read[key].num_fragments = index_[key].num_fragments
                                       /\ read[key].flags = index_[key].flags
  <1>1. PICK read : read = EntriesAfter(keys, corrupt)
    OBVIOUS
  <1>2. DOMAIN read = DOMAIN index_
    BY <1>1 DEF EntriesAfter
  <1>3. ASSUME NEW key \in DOMAIN index_
        PROVE  /\ read[key] \in Metas
               /\ read[key].record_off = index_[key].record_off
               /\ read[key].num_fragments = index_[key].num_fragments
               /\ read[key].flags = index_[key].flags
    <2>1. CASE key \in keys
      <3>1. read[key] = AfterFragment(key, TRUE) \/ read[key] = AfterFragment(key, FALSE)
        BY <1>1, <2>1 DEF EntriesAfter, AfterFragment
      <3> QED BY <3>1, AfterFragmentIs
    <2>2. CASE key \notin keys
      <3>1. read[key] = index_[key]
        BY <1>1, <2>2 DEF EntriesAfter
      <3> QED BY <3>1, EntryIs
    <2> QED BY <2>1, <2>2
  <1>4. read \in [DOMAIN index_ -> Metas]
    BY <1>1, <1>2, <1>3 DEF EntriesAfter
  <1> QED BY <1>1, <1>2, <1>3, <1>4

\* What ReadAhead does to the entries and the reader's place.
Glues(w, c, n, keys, corrupt) ==
    /\ \/ /\ index_' = [EntriesAfter(keys, corrupt) EXCEPT ![<<w, Ahead(c, n)>>].skipped = TRUE]
          /\ UNCHANGED read_pc
       \/ /\ index_' = EntriesAfter(keys, corrupt)
          /\ read_pc' = "returned"
    /\ read_iter_' = [read_iter_ EXCEPT !.cur = Ahead(c, n)]
    /\ Reached(w, NextSlice(<<w, Ahead(c, n)>>)[1])

LEMMA ReadAheadGlues ==
  ASSUME ReadAhead
  PROVE  \E n \in ReadAheadTo(read_iter_.seq, read_iter_.cur) :
            \E keys, corrupt : Glues(read_iter_.seq, read_iter_.cur, n, keys, corrupt)
  <1> DEFINE w == read_iter_.seq
             c == read_iter_.cur
             path(n)   == [i \in 1 .. n + 1 |-> <<w, Ahead(c, i - 1)>>]
             keys(n)   == {path(n)[i] : i \in {j \in 1 .. n + 1 :
                                                 index_[path(n)[j]].num_fragments > 0}}
             slices(n) == [i \in 1 .. n + 1 |-> NextSlice(path(n)[i])]
             lost(n)   == {key \in keys(n) : ~Unread(index_[key])}
             corrupt(n, l) == {key \in keys(n) : IsDropped(w, NextSlice(key))} \cup l
             read(n, l) == [key \in DOMAIN index_ |->
                              IF key \in keys(n) THEN AfterFragment(key, key \in corrupt(n, l))
                              ELSE index_[key]]
  <1>1. PICK n \in ReadAheadTo(w, c) : \E l \in SUBSET lost(n) :
           /\ IF corrupt(n, l) # {}
              THEN /\ index_' = [read(n, l) EXCEPT ![path(n)[n + 1]].skipped = TRUE]
                   /\ UNCHANGED read_pc
              ELSE index_' = read(n, l) /\ read_pc' = "returned"
           /\ read_iter_' = [read_iter_ EXCEPT !.cur = path(n)[n + 1][2]]
           /\ Reached(w, slices(n)[n + 1][1])
    BY DEF ReadAhead, ReturnPacket
  <1>2. n \in Nat /\ n + 1 \in 1 .. n + 1 /\ n + 1 - 1 = n
    <2>1. n \in 1 .. kMaxChunkID
      BY DEF ReadAheadTo
    <2> QED BY <2>1, BufferAssumption
  <1>3. PICK l \in SUBSET lost(n) :
           /\ IF corrupt(n, l) # {}
              THEN /\ index_' = [read(n, l) EXCEPT ![path(n)[n + 1]].skipped = TRUE]
                   /\ UNCHANGED read_pc
              ELSE index_' = read(n, l) /\ read_pc' = "returned"
           /\ read_iter_' = [read_iter_ EXCEPT !.cur = path(n)[n + 1][2]]
           /\ Reached(w, slices(n)[n + 1][1])
    BY <1>1
  <1>4. read(n, l) = EntriesAfter(keys(n), corrupt(n, l))
    BY DEF EntriesAfter
  <1>5. path(n)[n + 1] = <<w, Ahead(c, n)>>
    BY <1>2
  <1>6. slices(n)[n + 1] = NextSlice(path(n)[n + 1])
    BY <1>2
  <1> HIDE DEF path, keys, slices, corrupt, read, lost
  <1>7. path(n)[n + 1][2] = Ahead(c, n)
    BY <1>5
  <1>8. Glues(w, c, n, keys(n), corrupt(n, l))
    BY <1>3, <1>4, <1>5, <1>6, <1>7 DEF Glues
  <1> QED BY <1>8

\* The last of the chunks over which ReadAhead goes is in the index.
LEMMA ReadAheadEnds ==
  ASSUME NEW w, NEW c \in 0 .. End, NEW n \in ReadAheadTo(w, c)
  PROVE  Ahead(c, n) \in ChunkID /\ <<w, Ahead(c, n)>> \in DOMAIN index_
  <1>1. kMaxChunkID \in Nat /\ n \in 1 .. kMaxChunkID /\ c \in Int
    BY BufferAssumption DEF ReadAheadTo, End
  <1>2. Ahead(c, n) \in ChunkID
    <2>1. \A m \in Int : m % (kMaxChunkID + 1) \in 0 .. kMaxChunkID
      BY <1>1
    <2> QED BY <1>1, <2>1 DEF Ahead, ChunkID
  <1>3. PICK i \in 0 .. n - 1 : i = n - 1
    BY <1>1
  <1>4. MoveNext(w, Ahead(c, i)) = Ahead(c, n)
    <2>1. MoveNext(w, Ahead(c, i)) = Ahead(c, i + 1)
      BY DEF ReadAheadTo, Reaches
    <2>2. i + 1 = n
      BY <1>1, <1>3
    <2> QED BY <2>1, <2>2
  <1>5. Ahead(c, n) # End
    BY <1>1, <1>2 DEF End, ChunkID
  <1> QED BY <1>2, <1>4, <1>5, MoveNextIs

LEMMA ReadAheadReads ==
  ASSUME Reading, ReadAhead
  PROVE  ReadsSoundly
  <1>1. PICK w, c : w = read_iter_.seq /\ c = read_iter_.cur
    OBVIOUS
  <1>2. read_pc = "fragments" /\ LeaveRing
    BY DEF ReadAhead, NextFragment
  <1>3. PICK n \in ReadAheadTo(w, c) : \E keys, corrupt : Glues(w, c, n, keys, corrupt)
    <2>1. \E n \in ReadAheadTo(read_iter_.seq, read_iter_.cur) :
             \E keys, corrupt : Glues(read_iter_.seq, read_iter_.cur, n, keys, corrupt)
      BY ReadAheadGlues
    <2> QED BY <1>1, <2>1
  <1>4. PICK keys, corrupt : Glues(w, c, n, keys, corrupt)
    BY <1>3
  <1>5. w \in Writers /\ c \in 0 .. End /\ read_iter_ \in [seq : Writers \cup {0}, cur : 0 .. End]
    BY <1>1, <1>2, CurrentIs DEF Reading, IterIsSound
  <1>6. PICK id, last : id = Ahead(c, n) /\ last = <<w, id>>
    OBVIOUS
  <1>7. id \in ChunkID /\ last \in DOMAIN index_ /\ last[1] = w
    BY <1>5, <1>6, ReadAheadEnds
  <1>8. PICK read : read = EntriesAfter(keys, corrupt)
    OBVIOUS
  <1>9. /\ read \in [DOMAIN index_ -> Metas] /\ DOMAIN read = DOMAIN index_
        /\ \A key \in DOMAIN index_ : /\ read[key].record_off = index_[key].record_off
                                      /\ read[key].num_fragments = index_[key].num_fragments
                                      /\ read[key].flags = index_[key].flags
    BY <1>8, EntriesAfterRead DEF Reading
  <1>10. /\ index_' = [read EXCEPT ![last].skipped = TRUE] \/ index_' = read
         /\ read_pc' = read_pc \/ read_pc' = "returned"
         /\ read_iter_' = [read_iter_ EXCEPT !.cur = id]
         /\ Reached(w, NextSlice(last)[1])
    BY <1>4, <1>6, <1>8 DEF Glues
  <1>11. /\ index_' \in [DOMAIN index_ -> Metas] /\ DOMAIN index_' = DOMAIN index_
         /\ \A key \in DOMAIN index_ : /\ index_'[key].record_off = index_[key].record_off
                                       /\ index_'[key].num_fragments = index_[key].num_fragments
                                       /\ index_'[key].flags = index_[key].flags
    <2>1. CASE index_' = read
      BY <1>9, <2>1
    <2>2. CASE index_' = [read EXCEPT ![last].skipped = TRUE]
      <3>1. read[last] \in Metas
        BY <1>7, <1>9
      <3>2. PICK meta : meta = [read[last] EXCEPT !.skipped = TRUE]
        OBVIOUS
      <3>3. /\ meta \in Metas /\ meta.record_off = read[last].record_off
            /\ meta.num_fragments = read[last].num_fragments /\ meta.flags = read[last].flags
        BY <3>1, <3>2 DEF Metas
      <3>4. index_' = [read EXCEPT ![last] = meta]
        BY <2>2, <3>2
      <3> QED BY <1>7, <1>9, <3>3, <3>4
    <2> QED BY <1>10, <2>1, <2>2
  <1>12. IsIndex(index_') /\ Matches(data_, index_')
    BY <1>11, EntriesRead DEF Reading
  <1>13. IterIsSound(read_iter_') /\ read_iter_'.cur # End
    <2>1. kMaxChunkID \in Nat
      BY BufferAssumption
    <2>2. id \in 0 .. End /\ id # End
      BY <1>7, <2>1 DEF ChunkID, End
    <2>3. /\ read_iter_' \in [seq : Writers \cup {0}, cur : 0 .. End]
          /\ read_iter_'.seq = w /\ read_iter_'.cur = id
      BY <1>1, <1>5, <1>10, <2>2
    <2>4. <<w, id>> \in DOMAIN index_'
      BY <1>6, <1>7, <1>11
    <2> QED BY <1>6, <1>7, <2>2, <2>3 DEF IterIsSound
  <1>14. /\ reached' \in [Writers -> Nat]
         /\ \A v \in Writers :
               \/ reached'[v] = reached[v]
               \/ \E x \in DOMAIN data_ : /\ ~data_[x].is_padding
                                          /\ data_[x].key[1] = v /\ data_[x].chunk = reached'[v]
    BY <1>5, <1>7, <1>10, ReachedIs DEF Reading
  <1> QED BY <1>2, <1>10, <1>11, <1>12, <1>13, <1>14 DEF Reading, ReadsSoundly, LeaveRing

LEMMA ReadStepKeepsInv ==
  ASSUME BufferInv, ReadStep, UNCHANGED load
  PROVE  BufferInv'
  <1>1. Reading
    BY ReaderMayRely
  <1>2. CASE ReadNextTracePacket
    <2>1. IterIsSound(read_iter_')
      BY <1>1, <1>2 DEF ReadNextTracePacket, Reading
    <2> QED BY <1>1, <1>2, <2>1, BetweenChunksReads, ReadKeepsInv
            DEF ReadNextTracePacket, ring, ghost
  <1>3. CASE ReadAheadFails
    <2>1. End \in 0 .. End
      BY BufferAssumption DEF End
    <2>2. IterIsSound(read_iter_')
      BY <1>1, <1>3, <2>1 DEF ReadAheadFails, Reading, IterIsSound
    <2> QED BY <1>1, <1>3, <2>2, BetweenChunksReads, ReadKeepsInv DEF ReadAheadFails, LeaveRing
  <1>4. CASE EndRead
    <2>1. IterIsSound(read_iter_') /\ read_iter_'.cur = End
      BY <1>4, NoIterIsSound DEF EndRead
    <2> QED BY <1>1, <1>4, <2>1, BetweenChunksReads, ReadKeepsInv DEF EndRead, ring, ghost
  <1> QED BY <1>1, <1>2, <1>3, <1>4, BeginReadReads, EnterChunkReads, NoMoreFragmentsReads,
             SkipFragmentReads, ReadOnePacketReads, ReadAheadReads, ReadKeepsInv DEF ReadStep

-----------------------------------------------------------------------------
(***************************************************************************)
(* The ring stays sound.                                                   *)
(***************************************************************************)
LEMMA InitBuffer == Init => BufferInv
  <1> SUFFICES ASSUME Init PROVE BufferInv
    OBVIOUS
  <1>1. Size \in Nat \ {0} /\ kMaxChunkID \in Nat
    BY BufferAssumption
  <1>2. /\ smb \in [Writers -> Seq(Chunks)] /\ \A w \in Writers : DOMAIN smb[w] = {}
    BY EmptySeq DEF Init
  <1>3. IsRing(data_) /\ IsIndex(index_) /\ DOMAIN data_ = {} /\ DOMAIN index_ = {}
    BY DEF Init, IsRing, IsIndex
  <1>4. wptr_ \in 0 .. Size - 1 /\ wptr_ = 0
    BY <1>1 DEF Init
  <1>5. last_chunk_id_written_ \in [Writers -> ChunkID] /\ reached \in [Writers -> Nat]
    BY <1>1 DEF Init, ChunkID
  <1>6. read_iter_ \in [seq : Writers \cup {0}, cur : 0 .. End] /\ read_iter_.cur = End
    BY <1>1 DEF Init, NoIter, End
  <1>7. Types
    BY <1>2, <1>3, <1>4, <1>5, <1>6 DEF Types, Init
  <1>8. /\ sweep \in [active : BOOLEAN,
                      todo : SUBSET [writer : Writers, chunk : Nat, open : BOOLEAN]]
        /\ sweep.todo = {} /\ ~sweep.active
    BY DEF Init, NoSweep
  <1>9. ScrapeTypes /\ ReaderIsOnAChunk
    BY <1>6, <1>8 DEF ScrapeTypes, ReaderIsOnAChunk, Init
  <1>10. Tiles(data_, wptr_) /\ Matches(data_, index_)
    BY <1>3, <1>4 DEF Tiles, Matches
  <1>11. CommitsArePrefix /\ OnlyCommitted
    BY <1>2, <1>3, <1>8 DEF CommitsArePrefix, OnlyCommitted, Committed, Exists, Init
  <1> QED BY <1>7, <1>9, <1>10, <1>11 DEF BufferInv

LEMMA NextBuffer == BufferInv /\ [Next]_vars => BufferInv'
  <1> SUFFICES ASSUME BufferInv, [Next]_vars PROVE BufferInv'
    OBVIOUS
  <1>1. CASE UNCHANGED vars
    BY <1>1 DEF vars, ring, reader, ghost, BufferInv, Types, ScrapeTypes, ReaderIsOnAChunk, CurKey,
                CommitsArePrefix, OnlyCommitted, Committed, Exists
  <1>2. CASE Next
    <2>1. UNCHANGED load
      BY <1>2 DEF Next
    <2> QED BY <1>2, <2>1, WriterKeepsInv, CommitKeepsInv, PatchKeepsInv, BeginSweepKeepsInv,
               ScrapeKeepsInv, EndSweepKeepsInv, ReadStepKeepsInv DEF Next
  <1> QED BY <1>1, <1>2

\* What the runs check of the ring follows from the invariant.
LEMMA BufferInvSuffices == BufferInv => RingIsSound
  <1> SUFFICES ASSUME BufferInv PROVE RingIsSound
    OBVIOUS
  <1>1. /\ wptr_ \in 0 .. Size - 1 /\ IsRing(data_) /\ IsIndex(index_)
        /\ last_chunk_id_written_ \in [Writers -> ChunkID]
        /\ read_pc \in {"idle", "chunk", "fragments", "returned", "end"}
        /\ Tiles(data_, wptr_) /\ Matches(data_, index_) /\ OnlyCommitted
    BY DEF BufferInv, Types
  <1>2. TypeOK
    BY <1>1 DEF TypeOK, IsRing, IsIndex
  <1>3. RecordsTile
    <2>1. data_ = << >> \/ 0 \in DOMAIN data_
      <3>1. ASSUME DOMAIN data_ = {} PROVE data_ = << >>
        BY <1>1, <3>1 DEF IsRing
      <3> QED BY <1>1, <3>1 DEF Tiles
    <2>2. ASSUME NEW x \in DOMAIN data_
          PROVE  \/ x + data_[x].size = Size
                 \/ x + data_[x].size \in DOMAIN data_
                 \/ /\ x + data_[x].size = wptr_
                    /\ Starts(data_, x + data_[x].size, Size) = {}
      <3>1. CASE x + data_[x].size = wptr_ /\ wptr_ \notin DOMAIN data_
        <4>1. \A y \in DOMAIN data_ : y < wptr_
          BY <1>1, <3>1 DEF Tiles
        <4>2. \A y \in DOMAIN data_ : y \in Int
          BY <1>1 DEF IsRing
        <4>3. Starts(data_, wptr_, Size) = {}
          BY <1>1, <4>1, <4>2 DEF Starts
        <4> QED BY <3>1, <4>3
      <3> QED BY <1>1, <3>1 DEF Tiles
    <2> QED BY <2>1, <2>2 DEF RecordsTile
  <1>4. IndexMatches
    <2>1. KeysAt(data_, DOMAIN data_) = DOMAIN index_
      <3>1. ASSUME NEW key \in KeysAt(data_, DOMAIN data_) PROVE key \in DOMAIN index_
        <4>1. PICK x \in DOMAIN data_ : ~data_[x].is_padding /\ key = data_[x].key
          BY <3>1 DEF KeysAt
        <4> QED BY <1>1, <4>1 DEF Matches
      <3>2. ASSUME NEW key \in DOMAIN index_ PROVE key \in KeysAt(data_, DOMAIN data_)
        <4>1. PICK x : x = index_[key].record_off
          OBVIOUS
        <4>2. x \in DOMAIN data_ /\ ~data_[x].is_padding /\ data_[x].key = key
          BY <1>1, <4>1 DEF Matches
        <4> QED BY <4>2 DEF KeysAt
      <3> QED BY <3>1, <3>2
    <2> QED BY <1>1, <2>1 DEF Matches, IndexMatches
  <1>5. LateNeedsScraping
    BY <1>1 DEF OnlyCommitted, LateNeedsScraping
  <1> QED BY <1>2, <1>3, <1>4, <1>5 DEF RingIsSound, SelfDescribing

\* The inductive invariant: offsets, keys and ids are of their types, the records
\* tile the ring, index and ring agree, the reader is on a chunk of the index that
\* nothing can take away, and without scraping only committed chunks are stored.
THEOREM BufferInvariant == Spec => []BufferInv
  BY InitBuffer, NextBuffer, PTL DEF Spec

\* For a ring of any size, any writers and record sizes: whatever is written over,
\* discarded, rewritten, patched or given up, the chain of records that
\* DeleteNextChunksFor walks is unbroken, index_ has the chunks of the ring and
\* agrees with them, and only scraping stores a chunk behind the reader.
THEOREM RingStaysSound == Spec => []RingIsSound
  BY BufferInvariant, BufferInvSuffices, PTL

-----------------------------------------------------------------------------
(***************************************************************************)
(* Chunk ids.  A writer's chunks are numbered from 1; their ids wrap.      *)
(***************************************************************************)
LEMMA ModIs ==
  ASSUME NEW a \in Int, NEW n \in Nat, n > 0
  PROVE  (a % n) \in 0 .. n - 1 /\ a = (n * (a \div n)) + (a % n) /\ a \div n \in Int
  OBVIOUS

LEMMA ModOf ==
  ASSUME NEW a \in Int, NEW n \in Nat, n > 0, NEW q \in Int, NEW r \in 0 .. n - 1, a = (n * q) + r
  PROVE  a % n = r
  OBVIOUS

LEMMA ModOfSmall ==
  ASSUME NEW n \in Nat, NEW b \in 0 .. 2 * n - 1
  PROVE  b % n = IF b < n THEN b ELSE b - n
  <1>1. n > 0
    OBVIOUS
  <1>2. CASE b < n
    <2>1. b = (n * 0) + b /\ b \in 0 .. n - 1
      BY <1>2
    <2> QED BY <1>1, <1>2, <2>1, ModOf
  <1>3. CASE ~(b < n)
    <2>1. PICK r \in 0 .. n - 1 : r = b - n
      BY <1>3
    <2>2. b = (n * 1) + r
      BY <2>1
    <2>3. b % n = r
      BY <1>1, <2>2, ModOf
    <2> QED BY <1>3, <2>1, <2>3
  <1> QED BY <1>2, <1>3

\* Going on by i goes round at most once.
LEMMA ModOnward ==
  ASSUME NEW a \in Int, NEW n \in Nat, n > 0, NEW i \in 0 .. n - 1, NEW b \in Int, b = a + i
  PROVE  b % n = IF (a % n) + i < n THEN (a % n) + i ELSE (a % n) + i - n
  <1>1. PICK q \in Int, r \in 0 .. n - 1 : a = (n * q) + r /\ a % n = r
    BY ModIs
  <1>2. CASE r + i < n
    <2>1. PICK s \in 0 .. n - 1 : s = r + i
      BY <1>2
    <2>2. b = (n * q) + s
      BY <1>1, <2>1
    <2>3. b % n = s
      BY <2>2, ModOf
    <2> QED BY <1>1, <1>2, <2>1, <2>3
  <1>3. CASE ~(r + i < n)
    <2>1. PICK s \in 0 .. n - 1 : s = r + i - n
      BY <1>3
    <2>2. PICK p \in Int : p = q + 1
      OBVIOUS
    <2>3. n * p = (n * q) + n
      BY <2>2
    <2>4. b = (n * p) + s
      BY <1>1, <2>1, <2>3
    <2>5. b % n = s
      BY <2>4, ModOf
    <2> QED BY <1>1, <1>3, <2>1, <2>5
  <1> QED BY <1>2, <1>3

\* The id of a chunk at most kMaxChunkID further on.
LEMMA IdOnward ==
  ASSUME NEW j \in Int, NEW k \in Int, j <= k, k - j <= kMaxChunkID
  PROVE  /\ Id(j) \in 0 .. kMaxChunkID
         /\ Id(k) = IF Id(j) + (k - j) <= kMaxChunkID THEN Id(j) + (k - j)
                    ELSE Id(j) + (k - j) - (kMaxChunkID + 1)
  <1>1. kMaxChunkID \in Nat
    BY BufferAssumption
  <1>2. PICK n \in Nat : n = kMaxChunkID + 1 /\ n > 0
    BY <1>1
  <1>3. PICK a \in Int, b \in Int, i \in 0 .. n - 1 : a = j - 1 /\ b = k - 1 /\ i = k - j
    BY <1>1, <1>2
  <1>4. b = a + i
    BY <1>3
  <1>5. b % n = IF (a % n) + i < n THEN (a % n) + i ELSE (a % n) + i - n
    BY <1>2, <1>4, ModOnward
  <1>6. a % n \in 0 .. n - 1
    BY <1>2, ModIs
  <1>7. Id(j) = a % n /\ Id(k) = b % n
    BY <1>2, <1>3 DEF Id
  <1> QED BY <1>1, <1>2, <1>3, <1>5, <1>6, <1>7

LEMMA IdsDiffer ==
  ASSUME NEW j \in Int, NEW k \in Int, j < k, k - j <= kMaxChunkID
  PROVE  Id(j) # Id(k)
  <1>1. PICK m \in Nat, i \in Int : m = kMaxChunkID /\ i = k - j
    BY BufferAssumption
  <1>2. j <= k /\ 0 < i /\ i <= m
    BY <1>1
  <1>3. Id(j) \in 0 .. m /\ Id(k) = IF Id(j) + i <= m THEN Id(j) + i ELSE Id(j) + i - (m + 1)
    BY <1>1, <1>2, IdOnward
  <1>4. PICK c \in Int : c = Id(j)
    BY <1>3
  <1> QED BY <1>2, <1>3, <1>4

\* Ids are counted on with the chunks.
LEMMA AheadIs ==
  ASSUME NEW k \in Int, NEW i \in 0 .. kMaxChunkID
  PROVE  Ahead(Id(k), i) = Id(k + i)
  <1>1. kMaxChunkID \in Nat
    BY BufferAssumption
  <1>2. PICK n \in Nat, c \in Int, m \in Int : n = kMaxChunkID + 1 /\ n > 0 /\ c = Id(k) /\ m = k + i
    <2>1. Id(k) \in Int
      BY <1>1, IdOnward
    <2> QED BY <1>1, <2>1
  <1>3. /\ c \in 0 .. n - 1
        /\ Id(m) = IF c + i < n THEN c + i ELSE c + i - n
    <2>1. k <= m /\ m - k = i /\ i <= kMaxChunkID
      BY <1>1, <1>2
    <2>2. /\ Id(k) \in 0 .. kMaxChunkID
          /\ Id(m) = IF Id(k) + (m - k) <= kMaxChunkID THEN Id(k) + (m - k)
                     ELSE Id(k) + (m - k) - (kMaxChunkID + 1)
      BY <2>1, IdOnward
    <2> QED BY <1>1, <1>2, <2>1, <2>2
  <1>4. PICK b \in Int : b = c + i
    BY <1>3
  <1>5. b % n = IF c + i < n THEN c + i ELSE c + i - n
    <2>1. b \in 0 .. 2 * n - 1
      BY <1>1, <1>2, <1>3, <1>4
    <2>2. b % n = IF b < n THEN b ELSE b - n
      BY <2>1, ModOfSmall
    <2> QED BY <1>4, <2>2
  <1>6. Ahead(Id(k), i) = b % n
    BY <1>2, <1>4 DEF Ahead
  <1> QED BY <1>2, <1>3, <1>5, <1>6

LEMMA NextIdIs == \A k \in Int : NextId(Id(k)) = Id(k + 1)
  <1> SUFFICES ASSUME NEW k \in Int PROVE NextId(Id(k)) = Id(k + 1)
    OBVIOUS
  <1>1. 1 \in 0 .. kMaxChunkID
    BY BufferAssumption
  <1>2. NextId(Id(k)) = Ahead(Id(k), 1)
    BY DEF NextId, Ahead
  <1> QED BY <1>1, <1>2, AheadIs

\* The chunk after the newest one is newer, and so is the first.
LEMMA NewerId ==
  ASSUME NEW w, NEW k \in Nat \ {0},
         last_chunk_id_written_[w] = IF k = 1 THEN 0 ELSE Id(k - 1)
  PROVE  NewLastChunkId(w, Id(k)) = Id(k)
  <1>1. kMaxChunkID \in Nat /\ kMaxChunkID \div 2 > 1
    BY BufferAssumption
  <1>2. kMaxChunkID >= 4
    BY <1>1
  <1>3. PICK n \in Nat, c \in Int, b \in Int : n = kMaxChunkID + 1 /\ n > 0
                                           /\ c = last_chunk_id_written_[w] /\ b = Id(k) - c
    <2>1. Id(k) \in Int
      BY <1>1, IdOnward
    <2>2. CASE k = 1
      <3>1. PICK b \in Int : b = Id(k) - 0
        BY <2>1
      <3> QED BY <1>1, <2>2, <3>1
    <2>3. CASE k # 1
      <3>1. Id(k - 1) \in Int
        BY <1>1, IdOnward
      <3> QED BY <1>1, <2>1, <2>3, <3>1
    <2> QED BY <2>2, <2>3
  <1>4. b = 0 \/ b = 1 \/ b = 1 - n
    <2>1. CASE k = 1
      <3>1. Id(1) = 0
        <4>1. 0 = (n * 0) + 0 /\ 0 \in 0 .. n - 1 /\ 0 \in Int
          BY <1>3
        <4>2. 0 % n = 0
          BY <1>3, <4>1, ModOf
        <4> QED BY <1>3, <4>2 DEF Id
      <3> QED BY <1>3, <2>1, <3>1
    <2>2. CASE k # 1
      <3>1. PICK j \in Nat : j = k - 1 /\ c = Id(j)
        BY <1>3, <2>2
      <3>2. /\ c \in 0 .. kMaxChunkID
            /\ Id(k) = IF c + 1 <= kMaxChunkID THEN c + 1 ELSE c + 1 - n
        BY <1>1, <1>2, <1>3, <3>1, IdOnward
      <3> QED BY <1>3, <3>2
    <2> QED BY <2>1, <2>2
  <1>5. b % n = 0 \/ b % n = 1
    <2>1. 0 \in 0 .. n - 1 /\ 1 \in 0 .. n - 1 /\ -1 \in Int /\ 0 \in Int
          /\ 0 = (n * 0) + 0 /\ 1 = (n * 0) + 1 /\ 1 - n = (n * (-1)) + 1
      BY <1>1, <1>2, <1>3
    <2>2. b = 0 => b % n = 0
      BY <1>3, <2>1, ModOf
    <2>3. b = 1 => b % n = 1
      BY <1>3, <2>1, ModOf
    <2>4. b = 1 - n => b % n = 1
      BY <1>3, <2>1, ModOf
    <2> QED BY <1>4, <2>2, <2>3, <2>4
  <1>6. b % n < kMaxChunkID \div 2
    BY <1>1, <1>5
  <1> QED BY <1>3, <1>6 DEF NewLastChunkId
-----------------------------------------------------------------------------
(***************************************************************************)
(* The packets of a writer run through its chunks.                         *)
(***************************************************************************)
ChunkIsSound(c) ==
    /\ c.n >= 1
    /\ c.extra => c.n >= 2 /\ ~c.bad
    /\ c.on => ~c.extra /\ ~c.bad
    /\ c.unsent <= c.holes
    /\ c.state # "committed" => c.unsent = c.holes
    /\ c.state = "open" => ~c.bad /\ ~c.on /\ c.holes = 0

Follows(c, d) == d.from = c.on /\ d.first = LastPacket(c) + (IF c.on THEN 0 ELSE 1)

\* The same packet runs from chunk j of q into chunk k, and through those between.
RunsThrough(q, j, k) == \A i \in j .. k - 1 : q[i].on /\ (i > j => q[i].n = 1)

Packets(q) ==
    /\ \A k \in 1 .. Len(q) : ChunkIsSound(q[k]) /\ (q[k].state = "open" => k = Len(q))
    /\ Len(q) > 0 => q[1].first = 1 /\ ~q[1].from
    /\ \A k \in 1 .. Len(q) - 1 : Follows(q[k], q[k + 1])
    /\ \A j, k \in 1 .. Len(q) : j < k =>
          /\ LastPacket(q[j]) <= q[k].first
          /\ RunsThrough(q, j, k) => q[k].first = LastPacket(q[j])

PacketsFollow(q) == Packets(q) /\ \A k \in 1 .. Len(q) : q[k].on => k < Len(q)

PacketsInv == \A w \in Writers : PacketsFollow(smb[w])

\* The chunks whose commits have arrived stay as they are.
CommittedStay ==
    \A w \in Writers : \A k \in Nat : Committed(w, k) => Committed(w, k)' /\ smb'[w][k] = smb[w][k]

LEMMA LastPacketIs ==
  ASSUME NEW c \in Chunks
  PROVE  /\ c.first \in Int /\ c.n \in Nat /\ c.unsent \in Nat /\ c.holes \in Nat
         /\ LastPacket(c) \in Int
         /\ c.extra => LastPacket(c) = c.first + c.n - 2
         /\ ~c.extra => LastPacket(c) = c.first + c.n - 1
         /\ ChunkIsSound(c) => c.first <= LastPacket(c)
  <1>1. c.first \in Int /\ c.n \in Nat /\ c.extra \in BOOLEAN /\ c.unsent \in Nat /\ c.holes \in Nat
    BY DEF Chunks
  <1>2. /\ c.extra => LastPacket(c) = c.first + c.n - 2
        /\ ~c.extra => LastPacket(c) = c.first + c.n - 1
    BY DEF LastPacket
  <1> QED BY <1>1, <1>2 DEF ChunkIsSound

\* A chunk changes, but not which packets it holds, unless it is the last one.
LEMMA PacketsReplaced ==
  ASSUME NEW q \in Seq(Chunks), Packets(q), NEW k \in 1 .. Len(q), NEW e \in Chunks,
         ChunkIsSound(e), e.first = q[k].first, e.from = q[k].from,
         e.state = "open" => q[k].state = "open",
         k < Len(q) => e.n = q[k].n /\ e.extra = q[k].extra /\ e.on = q[k].on
  PROVE  LET s == [q EXCEPT ![k] = e] IN
         s \in Seq(Chunks) /\ Len(s) = Len(q) /\ Packets(s)
  <1>1. PICK s : s = [q EXCEPT ![k] = e]
    OBVIOUS
  <1>2. /\ s \in Seq(Chunks) /\ Len(s) = Len(q) /\ Len(q) \in Nat
        /\ \A j \in 1 .. Len(q) : s[j] = IF j = k THEN e ELSE q[j]
    BY <1>1, ExceptSeq, LenProperties
  <1>3. \A j \in 1 .. Len(q) : q[j] \in Chunks
    BY ElementOfSeq
  <1>4. \A j \in 1 .. Len(q) : s[j].first = q[j].first /\ s[j].from = q[j].from
    BY <1>2
  <1>5. \A j \in 1 .. Len(q) : j < Len(q) =>
           /\ s[j].n = q[j].n /\ s[j].extra = q[j].extra /\ s[j].on = q[j].on
           /\ LastPacket(s[j]) = LastPacket(q[j])
    BY <1>2 DEF LastPacket
  <1>6. \A j \in 1 .. Len(q) : ChunkIsSound(s[j]) /\ (s[j].state = "open" => j = Len(q))
    BY <1>2 DEF Packets
  <1>7. Len(q) > 0 => s[1].first = 1 /\ ~s[1].from
    BY <1>2, <1>4 DEF Packets
  <1>8. ASSUME NEW j \in 1 .. Len(q) - 1 PROVE Follows(s[j], s[j + 1])
    <2>1. j \in 1 .. Len(q) /\ j + 1 \in 1 .. Len(q) /\ j < Len(q)
      BY <1>2
    <2>2. Follows(q[j], q[j + 1])
      BY DEF Packets
    <2> QED BY <1>4, <1>5, <2>1, <2>2 DEF Follows
  <1>9. ASSUME NEW i \in 1 .. Len(q), NEW j \in 1 .. Len(q), i < j
        PROVE  /\ LastPacket(s[i]) <= s[j].first
               /\ RunsThrough(s, i, j) => s[j].first = LastPacket(s[i])
    <2>1. i < Len(q)
      BY <1>2, <1>9
    <2>2. /\ LastPacket(q[i]) <= q[j].first
          /\ RunsThrough(q, i, j) => q[j].first = LastPacket(q[i])
      BY <1>9 DEF Packets
    <2>3. LastPacket(s[i]) = LastPacket(q[i]) /\ s[j].first = q[j].first
      BY <1>4, <1>5, <2>1
    <2>4. ASSUME RunsThrough(s, i, j) PROVE RunsThrough(q, i, j)
      <3>1. \A m \in i .. j - 1 : m \in 1 .. Len(q) /\ m < Len(q)
        BY <1>2
      <3> QED BY <1>5, <2>4, <3>1 DEF RunsThrough
    <2> QED BY <2>2, <2>3, <2>4
  <1>10. Packets(s)
    BY <1>2, <1>6, <1>7, <1>8, <1>9 DEF Packets
  <1> QED BY <1>1, <1>2, <1>10

\* A chunk is added.
LEMMA PacketsAppended ==
  ASSUME NEW q \in Seq(Chunks), Packets(q), NEW c \in Chunks, ChunkIsSound(c),
         IF q = << >> THEN c.first = 1 /\ ~c.from
         ELSE Follows(q[Len(q)], c) /\ q[Len(q)].state # "open"
  PROVE  LET s == Append(q, c) IN
         s \in Seq(Chunks) /\ Len(s) = Len(q) + 1 /\ Packets(s)
  <1>1. PICK s, l : s = Append(q, c) /\ l = Len(q)
    OBVIOUS
  <1>2. /\ s \in Seq(Chunks) /\ Len(s) = l + 1 /\ l \in Nat
        /\ \A k \in 1 .. l : s[k] = q[k]
        /\ s[l + 1] = c
    BY <1>1, AppendProperties, LenProperties
  <1>3. \A k \in 1 .. l : q[k] \in Chunks
    BY <1>1, ElementOfSeq
  <1>4. q = << >> <=> l = 0
    BY <1>1, EmptySeq
  <1>5. \A k \in 1 .. l + 1 : ChunkIsSound(s[k]) /\ (s[k].state = "open" => k = l + 1)
    <2>1. \A k \in 1 .. l : ChunkIsSound(q[k]) /\ (q[k].state = "open" => k = l)
      BY <1>1 DEF Packets
    <2>2. \A k \in 1 .. l : q[k].state # "open"
      BY <1>1, <1>2, <1>4, <2>1
    <2> QED BY <1>2, <2>1, <2>2
  <1>6. s[1].first = 1 /\ ~s[1].from
    <2>1. CASE l = 0
      BY <1>2, <1>4, <2>1
    <2>2. CASE l > 0
      BY <1>1, <1>2, <2>2 DEF Packets
    <2> QED BY <1>2, <2>1, <2>2
  <1>7. ASSUME NEW k \in 1 .. l PROVE Follows(s[k], s[k + 1])
    <2>1. CASE k = l
      BY <1>1, <1>2, <1>4, <2>1
    <2>2. CASE k # l
      <3>1. k \in 1 .. l - 1 /\ k + 1 \in 1 .. l
        BY <1>2, <2>2
      <3>2. Follows(q[k], q[k + 1])
        BY <1>1, <3>1 DEF Packets
      <3> QED BY <1>2, <3>1, <3>2
    <2> QED BY <2>1, <2>2
  <1>8. ASSUME NEW j \in 1 .. l + 1, NEW k \in 1 .. l + 1, j < k
        PROVE  /\ LastPacket(s[j]) <= s[k].first
               /\ RunsThrough(s, j, k) => s[k].first = LastPacket(s[j])
    <2>1. CASE k <= l
      <3>1. j \in 1 .. l /\ k \in 1 .. l
        BY <1>2, <1>8, <2>1
      <3>2. /\ LastPacket(q[j]) <= q[k].first
            /\ RunsThrough(q, j, k) => q[k].first = LastPacket(q[j])
        BY <1>1, <1>8, <3>1 DEF Packets
      <3>3. ASSUME RunsThrough(s, j, k) PROVE RunsThrough(q, j, k)
        <4>1. \A m \in j .. k - 1 : m \in 1 .. l
          BY <1>2, <3>1
        <4> QED BY <1>2, <3>3, <4>1 DEF RunsThrough
      <3> QED BY <1>2, <3>1, <3>2, <3>3
    <2>2. CASE k = l + 1
      <3>1. j \in 1 .. l /\ l \in 1 .. l
        BY <1>2, <1>8, <2>2
      <3>2. q[l] \in Chunks /\ ChunkIsSound(q[l]) /\ Follows(q[l], c)
        BY <1>1, <1>3, <1>4, <3>1 DEF Packets
      <3>3. /\ q[l].first \in Int /\ LastPacket(q[l]) \in Int /\ q[l].first <= LastPacket(q[l])
            /\ q[l].n = 1 /\ ~q[l].extra => LastPacket(q[l]) = q[l].first
        BY <3>2, LastPacketIs
      <3>4. c.first >= LastPacket(q[l]) /\ (q[l].on => c.first = LastPacket(q[l]) /\ ~q[l].extra)
        BY <3>2, <3>3 DEF Follows, ChunkIsSound
      <3>5. s[j] = q[j] /\ s[k] = c /\ s[l] = q[l]
        BY <1>2, <2>2, <3>1
      <3>6. CASE j = l
        <4>1. RunsThrough(s, j, k) => q[l].on
          BY <1>2, <2>2, <3>5, <3>6 DEF RunsThrough
        <4> QED BY <3>4, <3>5, <3>6, <4>1
      <3>7. CASE j # l
        <4>1. j < l
          BY <1>2, <3>1, <3>7
        <4>2. /\ LastPacket(q[j]) <= q[l].first
              /\ RunsThrough(q, j, l) => q[l].first = LastPacket(q[j])
          BY <1>1, <3>1, <4>1 DEF Packets
        <4>3. LastPacket(q[j]) \in Int
          BY <1>3, <3>1, LastPacketIs
        <4>4. ASSUME RunsThrough(s, j, k) PROVE RunsThrough(q, j, l) /\ q[l].on /\ q[l].n = 1
          <5>1. \A m \in j .. l - 1 : m \in j .. k - 1 /\ m \in 1 .. l
            BY <1>2, <2>2, <3>1
          <5>2. l \in j .. k - 1 /\ l > j
            BY <1>2, <2>2, <3>1, <4>1
          <5> QED BY <1>2, <3>5, <4>4, <5>1, <5>2 DEF RunsThrough
        <4>5. LastPacket(s[j]) = LastPacket(q[j]) /\ s[k].first = c.first /\ c.first \in Int
          BY <3>5 DEF Chunks
        <4>6. LastPacket(q[j]) <= c.first
          BY <3>3, <3>4, <4>2, <4>3, <4>5
        <4>7. RunsThrough(s, j, k) => c.first = LastPacket(q[j])
          BY <3>3, <3>4, <4>2, <4>4
        <4> QED BY <4>5, <4>6, <4>7
      <3> QED BY <3>6, <3>7
    <2> QED BY <1>2, <2>1, <2>2
  <1>9. Packets(s)
    BY <1>2, <1>5, <1>6, <1>7, <1>8 DEF Packets
  <1> QED BY <1>1, <1>2, <1>9
-----------------------------------------------------------------------------
(***************************************************************************)
(* The chunks of a writer in the ring, from the oldest to the newest.      *)
(***************************************************************************)
\* A chunk of w begins at x; x is older than y in a ring written next at o.
Of(d, x, w)    == x \in DOMAIN d /\ ~d[x].is_padding /\ d[x].key[1] = w
Older(o, x, y) == (x >= o /\ y < o) \/ ((x >= o <=> y >= o) /\ x < y)

Labelled(d) ==
    \A w \in Writers : \A x \in DOMAIN d : Of(d, x, w) =>
        /\ d[x].chunk # 0
        /\ d[x].key = <<w, Id(d[x].chunk)>>
        /\ d[x].size = RecordSize[w]

\* The ring holds chunks in the order they came, and up to the last one, top[w],
\* all those behind the oldest.
Window(d, o, top) ==
    /\ Labelled(d)
    /\ \A w \in Writers : \A x, y \in DOMAIN d :
          Of(d, x, w) /\ Of(d, y, w) /\ Older(o, x, y) => d[x].chunk < d[y].chunk
    /\ \A w \in Writers : \A x \in DOMAIN d : Of(d, x, w) =>
          /\ d[x].chunk <= top[w]
          /\ \A n \in d[x].chunk .. top[w] : \E y \in DOMAIN d : Of(d, y, w) /\ d[y].chunk = n

\* The ring is too small for a writer to fill it with more chunks than there are ids.
IdsLast == \A w \in Writers : Size <= RecordSize[w] * kMaxChunkID

LEMMA RecordOf ==
  ASSUME NEW d, IsRing(d), NEW w, NEW x, Of(d, x, w)
  PROVE  /\ x \in 0 .. Size - 1 /\ x \in Int /\ x \in DOMAIN d
         /\ d[x] \in ChunkRecords /\ d[x].chunk \in Nat /\ w \in Writers
         /\ d[x].size \in 1 .. Size
  <1>1. x \in 0 .. Size - 1 /\ d[x] \in ChunkRecords
    BY RingTypes DEF Of
  <1>2. d[x].chunk \in Nat /\ d[x].key \in Key /\ d[x].key[1] = w /\ d[x].size \in 1 .. Size
    BY <1>1 DEF ChunkRecords, Of
  <1> QED BY <1>1, <1>2 DEF Of, Key

\* Of two chunks in different places one is older.
LEMMA OlderIsTotal ==
  ASSUME NEW o \in Int, NEW x \in Int, NEW y \in Int
  PROVE  x = y \/ Older(o, x, y) \/ Older(o, y, x)
  BY DEF Older

\* Whatever is not younger than a chunk that goes goes with it.
LEMMA OldestGo ==
  ASSUME NEW d, IsRing(d), NEW o \in Int, NEW top, Window(d, o, top),
         NEW w \in Writers, NEW x, Of(d, x, w), NEW n \in d[x].chunk .. top[w]
  PROVE  \E y : Of(d, y, w) /\ d[y].chunk = n /\ y \in 0 .. Size - 1 /\ ~Older(o, y, x)
  <1>1. x \in DOMAIN d
    BY DEF Of
  <1>2. PICK y \in DOMAIN d : Of(d, y, w) /\ d[y].chunk = n
    BY <1>1 DEF Window
  <1>3. Older(o, y, x) => d[y].chunk < d[x].chunk
    BY <1>1, <1>2 DEF Window
  <1>4. y \in 0 .. Size - 1 /\ d[x].chunk \in Nat /\ d[y].chunk \in Nat
    BY <1>2, RecordOf
  <1>5. ~(d[y].chunk < d[x].chunk)
    BY <1>2, <1>4
  <1> QED BY <1>2, <1>3, <1>4, <1>5

\* When the end of the ring is padded, the chunks before it remain.
LEMMA WindowTrimmed ==
  ASSUME NEW d, IsRing(d), NEW o \in 0 .. Size - 1, NEW top, Window(d, o, top),
         NEW e, IsRing(e),
         \A x \in DOMAIN e : ~e[x].is_padding => x \in DOMAIN d /\ x < o /\ e[x] = d[x],
         \A x \in DOMAIN d : x < o => x \in DOMAIN e /\ e[x] = d[x]
  PROVE  Window(e, 0, top)
  <1>1. \A w \in Writers : \A x \in DOMAIN e : Of(e, x, w) => Of(d, x, w) /\ x < o /\ e[x] = d[x]
    BY DEF Of
  <1>2. \A w \in Writers : \A x \in DOMAIN d : Of(d, x, w) /\ x < o => Of(e, x, w) /\ e[x] = d[x]
    BY DEF Of
  <1>3. \A w \in Writers : \A x \in DOMAIN e : Of(e, x, w) => x \in DOMAIN d /\ x \in 0 .. Size - 1
    BY <1>1, RecordOf DEF Of
  <1>4. Labelled(e)
    BY <1>1, <1>3 DEF Window, Labelled
  <1>5. ASSUME NEW w \in Writers, NEW x \in DOMAIN e, NEW y \in DOMAIN e,
               Of(e, x, w), Of(e, y, w), Older(0, x, y)
        PROVE  e[x].chunk < e[y].chunk
    <2>1. /\ Of(d, x, w) /\ Of(d, y, w) /\ x < o /\ y < o /\ e[x] = d[x] /\ e[y] = d[y]
          /\ x \in 0 .. Size - 1 /\ y \in 0 .. Size - 1
      BY <1>1, <1>3, <1>5
    <2>2. Older(o, x, y)
      BY <1>5, <2>1, BufferAssumption DEF Older
    <2> QED BY <1>3, <1>5, <2>1, <2>2 DEF Window
  <1>6. ASSUME NEW w \in Writers, NEW x \in DOMAIN e, Of(e, x, w)
        PROVE  /\ e[x].chunk <= top[w]
               /\ \A n \in e[x].chunk .. top[w] : \E y \in DOMAIN e : Of(e, y, w) /\ e[y].chunk = n
    <2>1. Of(d, x, w) /\ x < o /\ e[x] = d[x] /\ x \in DOMAIN d /\ x \in 0 .. Size - 1
      BY <1>1, <1>3, <1>6
    <2>2. ASSUME NEW n \in d[x].chunk .. top[w]
          PROVE  \E y \in DOMAIN e : Of(e, y, w) /\ e[y].chunk = n
      <3>1. PICK y : Of(d, y, w) /\ d[y].chunk = n /\ y \in 0 .. Size - 1 /\ ~Older(o, y, x)
        BY <2>1, OldestGo
      <3>2. y < o
        BY <2>1, <3>1, BufferAssumption DEF Older
      <3>3. Of(e, y, w) /\ e[y] = d[y]
        BY <1>2, <3>1, <3>2 DEF Of
      <3> QED BY <3>1, <3>3 DEF Of
    <2> QED BY <2>1, <2>2 DEF Window
  <1> QED BY <1>4, <1>5, <1>6 DEF Window

\* When a chunk is inserted, what it does not cover remains.
LEMMA WindowGrown ==
  ASSUME NEW d, IsRing(d), NEW o \in 0 .. Size - 1, NEW top \in [Writers -> Nat], Window(d, o, top),
         NEW e, IsRing(e), NEW s \in 1 .. Size - o, NEW w \in Writers,
         Of(e, o, w), e[o].size = RecordSize[w], e[o].chunk = top[w] + 1,
         e[o].key = <<w, Id(top[w] + 1)>>,
         \A x \in DOMAIN e : ~e[x].is_padding /\ x # o =>
            x \in DOMAIN d /\ (x < o \/ x >= o + s) /\ e[x] = d[x],
         \A x \in DOMAIN d : x < o \/ x >= o + s => x \in DOMAIN e /\ x # o /\ e[x] = d[x]
  PROVE  Window(e, NextWptr(o + s), [top EXCEPT ![w] = top[w] + 1])
  <1>0. Size \in Nat /\ o \in Int /\ s \in Int /\ o >= 0 /\ s >= 1 /\ o + s <= Size /\ top[w] \in Nat
    BY BufferAssumption
  <1>1. PICK o2, new : o2 = NextWptr(o + s) /\ new = [top EXCEPT ![w] = top[w] + 1]
    OBVIOUS
  <1>2. /\ (o2 = o + s /\ o + s < Size) \/ (o2 = 0 /\ o + s = Size)
        /\ new \in [Writers -> Nat] /\ new[w] = top[w] + 1
        /\ \A v \in Writers : v # w => new[v] = top[v]
    BY <1>0, <1>1 DEF NextWptr
  <1>3. \A v \in Writers : \A x \in DOMAIN e : Of(e, x, v) /\ x # o =>
           Of(d, x, v) /\ (x < o \/ x >= o + s) /\ e[x] = d[x]
    BY DEF Of
  <1>4. \A v \in Writers : \A x \in DOMAIN d : Of(d, x, v) /\ (x < o \/ x >= o + s) =>
           Of(e, x, v) /\ x # o /\ e[x] = d[x]
    BY DEF Of
  <1>5. \A v \in Writers : \A x \in DOMAIN e : Of(e, x, v) => x \in 0 .. Size - 1
    BY RecordOf
  <1>6. \A v \in Writers : Of(e, o, v) => v = w
    BY DEF Of
  <1>7. Labelled(e)
    <2> SUFFICES ASSUME NEW v \in Writers, NEW x \in DOMAIN e, Of(e, x, v)
                 PROVE  /\ e[x].chunk # 0 /\ e[x].key = <<v, Id(e[x].chunk)>>
                        /\ e[x].size = RecordSize[v]
      BY DEF Labelled
    <2>1. CASE x = o
      BY <1>0, <1>6, <2>1
    <2>2. CASE x # o
      <3>1. Of(d, x, v) /\ e[x] = d[x] /\ x \in DOMAIN d
        BY <1>3, <2>2 DEF Of
      <3> QED BY <3>1 DEF Window, Labelled
    <2> QED BY <2>1, <2>2
  <1>8. ASSUME NEW v \in Writers, NEW x \in DOMAIN e, NEW y \in DOMAIN e,
               Of(e, x, v), Of(e, y, v), Older(o2, x, y)
        PROVE  e[x].chunk < e[y].chunk
    <2>1. x \in 0 .. Size - 1 /\ y \in 0 .. Size - 1 /\ x # y
      BY <1>2, <1>5, <1>8, <1>0 DEF Older
    <2>2. CASE x = o
      <3>1. y # o /\ (y < o \/ y >= o + s)
        BY <1>3, <1>8, <2>1, <2>2
      <3>2. FALSE
        BY <1>0, <1>2, <1>8, <2>1, <2>2, <3>1 DEF Older
      <3> QED BY <3>2
    <2>3. CASE x # o /\ y = o
      <3>1. v = w /\ Of(d, x, v) /\ e[x] = d[x] /\ x \in DOMAIN d
        BY <1>3, <1>6, <1>8, <2>3 DEF Of
      <3>2. d[x].chunk <= top[w]
        BY <3>1 DEF Window
      <3>3. d[x].chunk \in Nat
        BY <3>1, RecordOf
      <3> QED BY <1>0, <2>3, <3>1, <3>2, <3>3
    <2>4. CASE x # o /\ y # o
      <3>1. /\ Of(d, x, v) /\ e[x] = d[x] /\ x \in DOMAIN d /\ (x < o \/ x >= o + s)
            /\ Of(d, y, v) /\ e[y] = d[y] /\ y \in DOMAIN d /\ (y < o \/ y >= o + s)
        BY <1>3, <1>8, <2>4 DEF Of
      <3>2. Older(o, x, y)
        BY <1>0, <1>2, <1>8, <2>1, <3>1 DEF Older
      <3> QED BY <3>1, <3>2 DEF Window
    <2> QED BY <2>2, <2>3, <2>4
  <1>9. ASSUME NEW v \in Writers, NEW x \in DOMAIN e, Of(e, x, v)
        PROVE  /\ e[x].chunk <= new[v]
               /\ \A n \in e[x].chunk .. new[v] : \E y \in DOMAIN e : Of(e, y, v) /\ e[y].chunk = n
    <2>1. CASE x = o
      <3>1. v = w /\ e[x].chunk = new[v] /\ new[v] \in Nat
        BY <1>2, <1>6, <1>9, <2>1
      <3>2. \A n \in e[x].chunk .. new[v] : n = e[x].chunk
        BY <3>1
      <3> QED BY <1>9, <3>1, <3>2
    <2>2. CASE x # o
      <3>1. Of(d, x, v) /\ e[x] = d[x] /\ x \in DOMAIN d /\ (x < o \/ x >= o + s) /\ x \in 0 .. Size - 1
        BY <1>3, <1>5, <1>9, <2>2 DEF Of
      <3>2. d[x].chunk <= top[v] /\ d[x].chunk \in Nat /\ top[v] \in Nat
        BY <3>1, RecordOf DEF Window
      <3>3. e[x].chunk <= new[v]
        BY <1>2, <3>1, <3>2
      <3>4. ASSUME NEW n \in d[x].chunk .. top[v]
            PROVE  \E y \in DOMAIN e : Of(e, y, v) /\ e[y].chunk = n
        <4>1. PICK y : Of(d, y, v) /\ d[y].chunk = n /\ y \in 0 .. Size - 1 /\ ~Older(o, y, x)
          BY <3>1, OldestGo
        <4>2. y < o \/ y >= o + s
          BY <1>0, <3>1, <4>1 DEF Older
        <4>3. Of(e, y, v) /\ e[y] = d[y]
          BY <1>4, <4>1, <4>2 DEF Of
        <4> QED BY <4>1, <4>3 DEF Of
      <3>5. ASSUME NEW n \in e[x].chunk .. new[v]
            PROVE  \E y \in DOMAIN e : Of(e, y, v) /\ e[y].chunk = n
        <4>1. CASE n \in d[x].chunk .. top[v]
          BY <3>4, <4>1
        <4>2. CASE n \notin d[x].chunk .. top[v]
          <5>1. v = w /\ n = top[w] + 1
            BY <1>2, <3>1, <3>2, <4>2
          <5> QED BY <5>1 DEF Of
        <4> QED BY <4>1, <4>2
      <3> QED BY <3>3, <3>5
    <2> QED BY <2>1, <2>2
  <1>10. Window(e, o2, new)
    BY <1>7, <1>8, <1>9 DEF Window
  <1> QED BY <1>1, <1>10

\* Records that keep their places and their chunks are in the same order.
LEMMA WindowSame ==
  ASSUME NEW d, NEW o, NEW top, Window(d, o, top), NEW e, DOMAIN e = DOMAIN d,
         \A x \in DOMAIN d : /\ e[x].is_padding = d[x].is_padding /\ e[x].size = d[x].size
                             /\ ~d[x].is_padding => e[x].key = d[x].key /\ e[x].chunk = d[x].chunk
  PROVE  Window(e, o, top)
  <1>1. \A w \in Writers : \A x \in DOMAIN d :
           /\ Of(e, x, w) <=> Of(d, x, w)
           /\ Of(d, x, w) => /\ e[x].chunk = d[x].chunk /\ e[x].key = d[x].key
                             /\ e[x].size = d[x].size
    BY DEF Of
  <1>2. Labelled(e)
    BY <1>1 DEF Window, Labelled
  <1>3. \A w \in Writers : \A x, y \in DOMAIN e :
           Of(e, x, w) /\ Of(e, y, w) /\ Older(o, x, y) => e[x].chunk < e[y].chunk
    BY <1>1 DEF Window
  <1>4. ASSUME NEW w \in Writers, NEW x \in DOMAIN e, Of(e, x, w)
        PROVE  /\ e[x].chunk <= top[w]
               /\ \A n \in e[x].chunk .. top[w] : \E y \in DOMAIN e : Of(e, y, w) /\ e[y].chunk = n
    <2>1. Of(d, x, w) /\ x \in DOMAIN d /\ e[x].chunk = d[x].chunk
      BY <1>1, <1>4
    <2>2. ASSUME NEW n \in d[x].chunk .. top[w]
          PROVE  \E y \in DOMAIN e : Of(e, y, w) /\ e[y].chunk = n
      <3>1. PICK y \in DOMAIN d : Of(d, y, w) /\ d[y].chunk = n
        BY <2>1 DEF Window
      <3> QED BY <1>1, <3>1
    <2> QED BY <2>1, <2>2 DEF Window
  <1> QED BY <1>2, <1>3, <1>4 DEF Window

\* Places in slots of size r.
LEMMA SlotOf ==
  ASSUME NEW x \in Nat, NEW r \in Nat, r > 0, NEW m \in Nat, x + r <= r * m
  PROVE  x \div r \in 0 .. m - 1
  <1>1. PICK q \in Int, p \in 0 .. r - 1 : x = (r * q) + p /\ q = x \div r
    OBVIOUS
  <1>2. q >= 0
    <2>1. ASSUME q <= -1 PROVE FALSE
      <3>1. r * q <= r * (-1)
        BY <2>1
      <3> QED BY <1>1, <3>1
    <2> QED BY <2>1
  <1>3. q <= m - 1
    <2>1. ASSUME q >= m PROVE FALSE
      <3>1. r * q >= r * m
        BY <2>1
      <3> QED BY <1>1, <3>1
    <2> QED BY <2>1
  <1> QED BY <1>1, <1>2, <1>3

LEMMA SlotsDiffer ==
  ASSUME NEW x \in Nat, NEW r \in Nat, r > 0, NEW y \in Nat, x + r <= y
  PROVE  x \div r # y \div r
  <1>1. PICK q \in Int, p \in 0 .. r - 1 : x = (r * q) + p /\ q = x \div r
    OBVIOUS
  <1>2. PICK t \in Int, u \in 0 .. r - 1 : y = (r * t) + u /\ t = y \div r
    OBVIOUS
  <1>3. ASSUME q = t PROVE FALSE
    <2>1. PICK z \in Int : z = r * q
      OBVIOUS
    <2>2. x = z + p /\ y = z + u
      BY <1>1, <1>2, <1>3, <2>1
    <2> QED BY <2>2
  <1> QED BY <1>1, <1>2, <1>3

\* Fewer chunks of a writer are in the ring than there are ids.
LEMMA FewStored ==
  ASSUME IdsLast, NEW d, IsRing(d), NEW o \in 0 .. Size - 1, Tiles(d, o), NEW top \in [Writers -> Nat],
         Window(d, o, top), NEW w \in Writers, NEW x, Of(d, x, w)
  PROVE  top[w] - d[x].chunk < kMaxChunkID
  <1>1. PICK m, t, r, b : m = d[x].chunk /\ t = top[w] /\ r = RecordSize[w] /\ b = kMaxChunkID
    OBVIOUS
  <1>2. /\ m \in Nat /\ t \in Nat /\ r \in 1 .. Size /\ Size \in Nat /\ b \in Nat
        /\ x \in DOMAIN d /\ m <= t /\ Size <= r * b
    BY <1>1, RecordOf, BufferAssumption DEF Window, IdsLast
  <1> DEFINE At(n) == {y \in 0 .. Size - 1 : Of(d, y, w) /\ d[y].chunk = n}
             f == [n \in m .. t |-> (CHOOSE y \in At(n) : TRUE)]
             g == [n \in m .. t |-> f[n] \div r]
  <1>3. ASSUME NEW n \in m .. t
        PROVE  f[n] \in 0 .. Size - 1 /\ Of(d, f[n], w) /\ d[f[n]].chunk = n
    <2>1. PICK y \in DOMAIN d : Of(d, y, w) /\ d[y].chunk = n
      BY <1>1, <1>2 DEF Window
    <2>2. y \in At(n)
      BY <2>1, RecordOf
    <2>3. (CHOOSE z \in At(n) : TRUE) \in At(n)
      BY <2>2
    <2> QED BY <2>3
  <1> HIDE DEF f
  <1>4. ASSUME NEW n \in m .. t
        PROVE  /\ f[n] \in Nat /\ f[n] \in DOMAIN d /\ d[f[n]].size = r /\ f[n] + r <= Size
               /\ d[f[n]].chunk = n
    <2>1. f[n] \in DOMAIN d /\ f[n] \in Nat
      BY <1>3 DEF Of
    <2>2. d[f[n]].size = r
      BY <1>1, <1>3, <2>1 DEF Window, Labelled
    <2> QED BY <1>3, <2>1, <2>2 DEF Tiles
  <1>5. \A n \in m .. t : f[n] \div r \in 0 .. b - 1
    <2> SUFFICES ASSUME NEW n \in m .. t PROVE f[n] \div r \in 0 .. b - 1
      OBVIOUS
    <2>1. PICK y \in Nat : y = f[n]
      BY <1>4
    <2>2. y + r <= Size
      BY <1>4, <2>1
    <2>3. PICK p : p = r * b
      OBVIOUS
    <2>4. p \in Int /\ y + r <= p
      BY <1>2, <2>2, <2>3
    <2>5. y \div r \in 0 .. b - 1
      BY <1>2, <2>3, <2>4, SlotOf
    <2> QED BY <2>1, <2>5
  <1>6. g \in [m .. t -> 0 .. b - 1] /\ \A n \in m .. t : g[n] = f[n] \div r
    BY <1>5
  <1> HIDE DEF g
  <1>7. ASSUME NEW n \in m .. t, NEW k \in m .. t, n # k PROVE g[n] # g[k]
    <2>1. PICK y \in Nat, z \in Nat : y = f[n] /\ z = f[k]
      BY <1>4
    <2>2. /\ y \in DOMAIN d /\ z \in DOMAIN d /\ d[y].size = r /\ d[z].size = r
          /\ d[y].chunk = n /\ d[z].chunk = k
      BY <1>4, <2>1
    <2>3. y # z
      BY <1>7, <2>2
    <2>4. y < z => y + r <= z
      BY <2>2 DEF Tiles
    <2>5. z < y => z + r <= y
      BY <2>2 DEF Tiles
    <2>6. y \div r # z \div r
      BY <1>2, <2>3, <2>4, <2>5, SlotsDiffer
    <2> QED BY <1>6, <2>1, <2>6
  <1>8. b > 0
    BY <1>1, BufferAssumption
  <1>9. ASSUME t - m >= b PROVE FALSE
    <2>1. IsFiniteSet(m .. t) /\ Cardinality(m .. t) = (t - m) + 1
      <3>1. m \in Int /\ t \in Int /\ ~(m > t)
        BY <1>2
      <3> QED BY <3>1, FS_Interval
    <2>2. IsFiniteSet(0 .. b - 1) /\ Cardinality(0 .. b - 1) = b
      <3>1. 0 \in Int /\ b - 1 \in Int /\ ~(0 > b - 1) /\ (b - 1) - 0 + 1 = b
        BY <1>2, <1>8
      <3> QED BY <3>1, FS_Interval
    <2>3. Cardinality(0 .. b - 1) < Cardinality(m .. t)
      BY <1>2, <1>9, <2>1, <2>2
    <2>4. PICK S, T : S = m .. t /\ T = 0 .. b - 1
      OBVIOUS
    <2>5. /\ IsFiniteSet(S) /\ IsFiniteSet(T) /\ Cardinality(T) < Cardinality(S)
          /\ g \in [S -> T]
      BY <1>6, <2>1, <2>2, <2>3, <2>4
    <2>6. \E n, k \in S : n # k /\ g[n] = g[k]
      BY <2>5, FS_PigeonHole
    <2> QED BY <1>7, <2>4, <2>6
  <1> QED BY <1>1, <1>2, <1>9

\* The numbers of the chunks of w in the ring d.
Shelf(d, w) == {d[x].chunk : x \in {y \in DOMAIN d : Of(d, y, w)}}

\* Each is there once, under its id, and all the newer ones are there too.
LEMMA ShelfIs ==
  ASSUME IdsLast, NEW d, IsRing(d), NEW o \in 0 .. Size - 1, Tiles(d, o), NEW i, Matches(d, i),
         NEW top \in [Writers -> Nat], Window(d, o, top), NEW w \in Writers, NEW k \in Shelf(d, w)
  PROVE  /\ k \in Nat /\ k # 0 /\ k <= top[w] /\ top[w] - k < kMaxChunkID
         /\ k .. top[w] \subseteq Shelf(d, w)
         /\ <<w, Id(k)>> \in DOMAIN i
         /\ LET x == i[<<w, Id(k)>>].record_off IN
            Of(d, x, w) /\ d[x].chunk = k /\ d[x].key = <<w, Id(k)>>
  <1>1. PICK x \in DOMAIN d : Of(d, x, w) /\ d[x].chunk = k
    BY DEF Shelf
  <1>2. k \in Nat /\ k # 0 /\ k <= top[w] /\ d[x].key = <<w, Id(k)>>
    BY <1>1, RecordOf DEF Window, Labelled
  <1>3. top[w] - k < kMaxChunkID
    BY <1>1, FewStored
  <1>4. k .. top[w] \subseteq Shelf(d, w)
    <2> SUFFICES ASSUME NEW n \in k .. top[w] PROVE n \in Shelf(d, w)
      OBVIOUS
    <2>1. PICK y \in DOMAIN d : Of(d, y, w) /\ d[y].chunk = n
      BY <1>1 DEF Window
    <2> QED BY <2>1 DEF Shelf
  <1>5. <<w, Id(k)>> \in DOMAIN i /\ i[<<w, Id(k)>>].record_off = x
    BY <1>1, <1>2 DEF Matches, Of
  <1> QED BY <1>1, <1>2, <1>3, <1>4, <1>5

LEMMA EntryIsShelved ==
  ASSUME NEW d, IsRing(d), NEW o, NEW i, Matches(d, i), NEW top, Window(d, o, top),
         NEW w \in Writers, NEW c, <<w, c>> \in DOMAIN i
  PROVE  \E k \in Shelf(d, w) : c = Id(k)
  <1>1. PICK x : x = i[<<w, c>>].record_off
    OBVIOUS
  <1>2. x \in DOMAIN d /\ ~d[x].is_padding /\ d[x].key = <<w, c>>
    BY <1>1 DEF Matches
  <1>3. Of(d, x, w)
    BY <1>2 DEF Of
  <1>4. d[x].key = <<w, Id(d[x].chunk)>> /\ d[x].chunk \in Shelf(d, w)
    BY <1>2, <1>3 DEF Window, Labelled, Shelf
  <1> QED BY <1>2, <1>4

\* Chunks whose numbers are that close have different ids.
LEMMA ShelvedApart ==
  ASSUME NEW top \in Int, NEW j \in Int, NEW k \in Int, j <= top, k <= top,
         top - j < kMaxChunkID, top - k < kMaxChunkID, Id(j) = Id(k)
  PROVE  j = k
  <1>1. PICK m \in Nat : m = kMaxChunkID
    BY BufferAssumption
  <1>2. j < k => k - j <= kMaxChunkID
    BY <1>1
  <1>3. k < j => j - k <= kMaxChunkID
    BY <1>1
  <1>4. ~(j < k)
    BY <1>2, IdsDiffer
  <1>5. ~(k < j)
    BY <1>3, IdsDiffer
  <1> QED BY <1>4, <1>5

-----------------------------------------------------------------------------
(***************************************************************************)
(* What a commit does to the chunks in the ring.                           *)
(***************************************************************************)
\* The chunk records of e are from d, with the same entries.
KeptFrom(d, i, e, j) ==
    \A x \in DOMAIN e : ~e[x].is_padding =>
        x \in DOMAIN d /\ e[x] = d[x] /\ j[e[x].key] = i[e[x].key]

\* With kDiscard those that are not in e any more had been read.
LostOnlyRead(d, i, e) ==
    overwrite_policy_ = "kDiscard" =>
        \A x \in DOMAIN d : ~d[x].is_padding =>
            (x \in DOMAIN e /\ e[x] = d[x]) \/ ~Unread(i[d[x].key])

\* What MustKeep has let go had been read.
LEMMA LetGo ==
  ASSUME NEW d, NEW i, Matches(d, i), NEW S \in SUBSET (DOMAIN d), ~MustKeep(d, i, S)
  PROVE  overwrite_policy_ = "kDiscard" =>
            \A x \in S : ~d[x].is_padding => ~Unread(i[d[x].key])
  <1> SUFFICES ASSUME overwrite_policy_ = "kDiscard", NEW x \in S, ~d[x].is_padding
               PROVE  ~Unread(i[d[x].key])
    OBVIOUS
  <1>1. d[x].key \in DOMAIN i
    BY DEF Matches
  <1>2. d[x].key \in KeysAt(d, S)
    BY DEF KeysAt
  <1> QED BY <1>1, <1>2 DEF MustKeep

LEMMA KeptEntry ==
  ASSUME NEW d, IsRing(d), NEW i, IsIndex(i), Matches(d, i), NEW S \in SUBSET (DOMAIN d),
         NEW j, j = Erased(d, i, S), NEW x \in DOMAIN d \ S, ~d[x].is_padding
  PROVE  d[x].key \in DOMAIN j /\ j[d[x].key] = i[d[x].key]
  <1>1. KeptEntries(i, S, j)
    BY ErasedIs
  <1>2. d[x].key \in DOMAIN i /\ i[d[x].key].record_off = x
    BY DEF Matches
  <1> QED BY <1>1, <1>2 DEF KeptEntries

LEMMA WrapKeeps ==
  ASSUME NEW d, IsRing(d), NEW o \in 0 .. Size - 1, Tiles(d, o),
         NEW i, IsIndex(i), Matches(d, i), NEW top, Window(d, o, top),
         ~MustKeep(d, i, Starts(d, o, Size - o))
  PROVE  LET e == WriteChunkRecord(d, o, Padding(Size - o))
             j == Erased(d, i, Starts(d, o, Size - o))
         IN  Window(e, 0, top) /\ KeptFrom(d, i, e, j) /\ LostOnlyRead(d, i, e)
  <1>1. PICK S, e, j : /\ S = Starts(d, o, Size - o)
                       /\ e = WriteChunkRecord(d, o, Padding(Size - o)) /\ j = Erased(d, i, S)
    OBVIOUS
  <1>2. PICK pad : pad = Padding(Size - o)
    OBVIOUS
  <1>3. /\ pad \in Records /\ pad.size = Size - o /\ pad.is_padding
        /\ Size \in Nat /\ o \in Nat /\ o + pad.size = Size
    BY <1>2, BufferAssumption DEF Padding, Paddings, Records
  <1>4. \A x \in DOMAIN d : x \in 0 .. Size - 1
    BY DEF IsRing
  <1>5. S \in SUBSET (DOMAIN d) /\ \A x \in DOMAIN d : x \in S <=> x >= o
    BY <1>1, <1>3, <1>4 DEF Starts
  <1>6. /\ IsRing(e) /\ DOMAIN e = {x \in DOMAIN d : x < o \/ x >= o + pad.size} \cup {o}
        /\ e[o] = pad /\ \A x \in DOMAIN d : (x < o \/ x >= o + pad.size) => e[x] = d[x]
    <2>1. e = WriteChunkRecord(d, o, pad) /\ pad \in Records
      BY <1>1, <1>2, <1>3
    <2>2. LET a == WriteChunkRecord(d, o, pad) IN
          /\ IsRing(a)
          /\ DOMAIN a = {x \in DOMAIN d : x < o \/ x >= o + pad.size} \cup {o}
          /\ a[o] = pad
          /\ \A x \in DOMAIN d : (x < o \/ x >= o + pad.size) => a[x] = d[x]
      BY <2>1, Written
    <2> QED BY <2>1, <2>2
  <1>7. /\ \A x \in DOMAIN e : ~e[x].is_padding => x \in DOMAIN d /\ x < o /\ e[x] = d[x]
        /\ \A x \in DOMAIN d : x < o => x \in DOMAIN e /\ e[x] = d[x]
    BY <1>3, <1>4, <1>6
  <1>8. Window(e, 0, top)
    BY <1>6, <1>7, WindowTrimmed
  <1>9. KeptFrom(d, i, e, j)
    <2> SUFFICES ASSUME NEW x \in DOMAIN e, ~e[x].is_padding
                 PROVE  x \in DOMAIN d /\ e[x] = d[x] /\ j[e[x].key] = i[e[x].key]
      BY DEF KeptFrom
    <2>1. x \in DOMAIN d /\ x < o /\ e[x] = d[x]
      BY <1>7
    <2>2. x \in DOMAIN d \ S
      BY <1>3, <1>4, <1>5, <2>1
    <2> QED BY <1>1, <1>5, <2>1, <2>2, KeptEntry
  <1>10. LostOnlyRead(d, i, e)
    <2>1. overwrite_policy_ = "kDiscard" =>
             \A x \in S : ~d[x].is_padding => ~Unread(i[d[x].key])
      BY <1>1, <1>5, LetGo
    <2>2. \A x \in DOMAIN d : x \in S \/ (x \in DOMAIN e /\ e[x] = d[x])
      BY <1>3, <1>4, <1>5, <1>7
    <2> QED BY <2>1, <2>2 DEF LostOnlyRead
  <1> QED BY <1>1, <1>8, <1>9, <1>10

\* Chunk rec.chunk is now in the ring e, the newest of its writer, and what was not
\* deleted for it.
GrownBy(d, i, e, j, rec, meta, o) ==
    /\ o \in DOMAIN e /\ e[o] = rec /\ j[rec.key] = meta
    /\ \A x \in DOMAIN e : ~e[x].is_padding /\ x # o =>
          x \in DOMAIN d /\ e[x] = d[x] /\ j[e[x].key] = i[e[x].key]
    /\ LostOnlyRead(d, i, e)

\* The chunk rec of w goes to o.
InsertsInto(d, i, top, w, rec, complete, o) ==
    /\ Window(data_', wptr_', [top EXCEPT ![w] = top[w] + 1])
    /\ GrownBy(d, i, data_', index_', rec,
               ChunkMeta(o, rec.num_fragments, rec.flags, complete), o)
    /\ last_chunk_id_written_' =
          [last_chunk_id_written_ EXCEPT ![w] = NewLastChunkId(w, Id(top[w] + 1))]
    /\ discard_writes_' = discard_writes_

LEMMA InsertGrows ==
  ASSUME NEW d, IsRing(d), NEW o \in 0 .. Size - 1, Tiles(d, o),
         NEW i, IsIndex(i), Matches(d, i), NEW top \in [Writers -> Nat], Window(d, o, top),
         NEW w \in Writers, NEW rec \in ChunkRecords, rec.chunk = top[w] + 1,
         rec.key = <<w, Id(top[w] + 1)>>, rec.size = RecordSize[w], rec.size <= Size - o,
         rec.key \notin DOMAIN i, ~MustKeep(d, i, Starts(d, o, rec.size)),
         NEW complete \in BOOLEAN, InsertRecord(d, i, o, rec, complete)
  PROVE  InsertsInto(d, i, top, w, rec, complete, o)
  <1>1. /\ data_' = Inserted(d, o, rec)
        /\ index_' = Indexed(d, i, o, rec, complete)
        /\ wptr_' = NextWptr(o + rec.size)
        /\ last_chunk_id_written_' =
              [last_chunk_id_written_ EXCEPT ![w] = NewLastChunkId(w, Id(top[w] + 1))]
        /\ discard_writes_' = discard_writes_
    <2>1. rec.key[1] = w /\ rec.key[2] = Id(top[w] + 1)
      OBVIOUS
    <2> QED BY <2>1 DEF InsertRecord, Inserted, Indexed
  <1>2. PICK S, e, j, s, meta :
           /\ S = Starts(d, o, rec.size) /\ e = Inserted(d, o, rec) /\ s = rec.size
           /\ j = Indexed(d, i, o, rec, complete)
           /\ meta = ChunkMeta(o, rec.num_fragments, rec.flags, complete)
    OBVIOUS
  <1>3. rec \in Records /\ ~rec.is_padding /\ s \in 1 .. Size - o /\ o \in Nat /\ Size \in Nat
    <2>1. s \in 1 .. Size /\ Size \in Nat
      BY <1>2, BufferAssumption DEF ChunkRecords
    <2>2. rec \in Records /\ ~rec.is_padding
      BY DEF Records, ChunkRecords
    <2>3. o \in Nat /\ s <= Size - o
      BY <1>2, <2>1
    <2> QED BY <2>1, <2>2, <2>3
  <1>4. \A x \in DOMAIN d : x \in 0 .. Size - 1
    BY DEF IsRing
  <1>5. S \in SUBSET (DOMAIN d) /\ \A x \in DOMAIN d : x \notin S <=> (x < o \/ x >= o + s)
    BY <1>2, <1>3, <1>4 DEF Starts
  <1>6. /\ IsRing(e) /\ o \in DOMAIN e /\ e[o] = rec
        /\ \A x \in DOMAIN e : ~e[x].is_padding /\ x # o => x \in DOMAIN d \ S /\ e[x] = d[x]
        /\ \A x \in DOMAIN d \ S : x \in DOMAIN e /\ x # o /\ e[x] = d[x]
    BY <1>2, <1>3, InsertedRecords
  <1>7. Window(e, NextWptr(o + s), [top EXCEPT ![w] = top[w] + 1])
    <2>1. /\ \A x \in DOMAIN e : ~e[x].is_padding /\ x # o =>
                x \in DOMAIN d /\ (x < o \/ x >= o + s) /\ e[x] = d[x]
          /\ \A x \in DOMAIN d : x < o \/ x >= o + s => x \in DOMAIN e /\ x # o /\ e[x] = d[x]
      BY <1>5, <1>6
    <2>2. Of(e, o, w) /\ rec.key[1] = w
      BY <1>3, <1>6 DEF Of
    <2>3. /\ e[o].size = RecordSize[w] /\ e[o].chunk = top[w] + 1
          /\ e[o].key = <<w, Id(top[w] + 1)>>
      BY <1>6
    <2>4. IsRing(e) /\ s \in 1 .. Size - o
      BY <1>3, <1>6
    <2>5. Of(e, o, w)
      BY <2>2
    <2> QED BY ONLY IsRing(d), o \in 0 .. Size - 1, top \in [Writers -> Nat], Window(d, o, top),
                    w \in Writers, <2>1, <2>3, <2>4, <2>5, WindowGrown
  <1>8. j[rec.key] = meta
    BY <1>2 DEF Indexed
  <1>9. ASSUME NEW x \in DOMAIN e, ~e[x].is_padding, x # o
        PROVE  x \in DOMAIN d /\ e[x] = d[x] /\ j[e[x].key] = i[e[x].key]
    <2>1. x \in DOMAIN d \ S /\ e[x] = d[x]
      BY <1>6, <1>9
    <2>2. PICK kept : kept = Erased(d, i, S)
      OBVIOUS
    <2>3. d[x].key \in DOMAIN kept /\ kept[d[x].key] = i[d[x].key]
      BY <1>5, <1>9, <2>1, <2>2, KeptEntry
    <2>4. d[x].key # rec.key
      BY <1>9, <2>1 DEF Matches
    <2>5. j[d[x].key] = kept[d[x].key]
      BY <1>2, <2>2, <2>3, <2>4 DEF Indexed
    <2> QED BY <2>1, <2>3, <2>5
  <1>10. LostOnlyRead(d, i, e)
    <2>1. overwrite_policy_ = "kDiscard" =>
             \A x \in S : ~d[x].is_padding => ~Unread(i[d[x].key])
      BY <1>2, <1>5, LetGo
    <2> QED BY <1>6, <2>1 DEF LostOnlyRead
  <1>11. GrownBy(d, i, e, j, rec, meta, o)
    BY <1>6, <1>8, <1>9, <1>10 DEF GrownBy
  <1> QED BY <1>1, <1>2, <1>7, <1>11 DEF InsertsInto

\* The chunk is not stored: the ring may have been padded for it.
Refused(top) ==
    /\ Window(data_', wptr_', top)
    /\ KeptFrom(data_, index_, data_', index_') /\ LostOnlyRead(data_, index_, data_')
    /\ last_chunk_id_written_' = last_chunk_id_written_
    /\ discard_writes_'

\* It is, at o.
Inserts(top, w, rec, o) == InsertsInto(data_, index_, top, w, rec, TRUE, o)

LEMMA LostInTwoSteps ==
  ASSUME NEW d, NEW i, NEW d1, NEW i1, NEW e,
         KeptFrom(d, i, d1, i1), LostOnlyRead(d, i, d1), LostOnlyRead(d1, i1, e)
  PROVE  LostOnlyRead(d, i, e)
  <1> SUFFICES ASSUME overwrite_policy_ = "kDiscard", NEW x \in DOMAIN d, ~d[x].is_padding,
                      Unread(i[d[x].key])
               PROVE  x \in DOMAIN e /\ e[x] = d[x]
    BY DEF LostOnlyRead
  <1>1. x \in DOMAIN d1 /\ d1[x] = d[x]
    BY DEF LostOnlyRead
  <1>2. i1[d1[x].key] = i[d[x].key]
    BY <1>1 DEF KeptFrom
  <1> QED BY <1>1, <1>2 DEF LostOnlyRead

LEMMA NewChunkWindow ==
  ASSUME RingInv, NEW top \in [Writers -> Nat], Window(data_, wptr_, top),
         NEW w \in Writers, NEW rec \in ChunkRecords, rec.chunk = top[w] + 1,
         rec.key = <<w, Id(top[w] + 1)>>, rec.size = RecordSize[w], rec.key \notin DOMAIN index_,
         ~discard_writes_, WriteNewChunk(rec, TRUE)
  PROVE  Refused(top) \/ \E o : Inserts(top, w, rec, o)
  <1>1. /\ wptr_ \in 0 .. Size - 1 /\ IsRing(data_) /\ IsIndex(index_)
        /\ Tiles(data_, wptr_) /\ Matches(data_, index_)
    BY DEF RingInv
  <1>2. Size \in Nat /\ Size > 0 /\ rec.size \in 1 .. Size /\ wptr_ \in Nat
    BY <1>1, BufferAssumption DEF ChunkRecords
  <1>3. PICK to_end, pad, tail : /\ to_end = Size - wptr_ /\ pad = Padding(to_end)
                                 /\ tail = Starts(data_, wptr_, to_end)
    OBVIOUS
  <1>4. CASE DiscardWrite(data_, index_, wptr_)
    <2>1. /\ data_' = data_ /\ index_' = index_ /\ wptr_' = wptr_ /\ discard_writes_'
          /\ last_chunk_id_written_' = last_chunk_id_written_
      BY <1>4 DEF DiscardWrite
    <2>2. KeptFrom(data_, index_, data_, index_) /\ LostOnlyRead(data_, index_, data_)
      BY DEF KeptFrom, LostOnlyRead
    <2> QED BY <2>1, <2>2 DEF Refused
  <1>5. CASE rec.size > to_end /\ ~DiscardWrite(data_, index_, wptr_)
    <2>1. PICK d, i : /\ d = WriteChunkRecord(data_, wptr_, pad)
                      /\ i = Erased(data_, index_, tail)
      OBVIOUS
    <2>2. /\ ~MustKeep(data_, index_, tail)
          /\ \/ DiscardWrite(d, i, 0)
             \/ ~MustKeep(d, i, Starts(d, 0, rec.size)) /\ InsertRecord(d, i, 0, rec, TRUE)
      BY <1>3, <1>5, <2>1 DEF WriteNewChunk
    <2>3. /\ IsRing(d) /\ Tiles(d, 0) /\ IsIndex(i) /\ Matches(d, i)
          /\ DOMAIN i \subseteq DOMAIN index_
      BY <1>1, <1>3, <2>1, WrapSound
    <2>4. Window(d, 0, top) /\ KeptFrom(data_, index_, d, i) /\ LostOnlyRead(data_, index_, d)
      BY <1>1, <1>3, <2>1, <2>2, WrapKeeps
    <2>5. CASE DiscardWrite(d, i, 0)
      <3>1. /\ data_' = d /\ index_' = i /\ wptr_' = 0 /\ discard_writes_'
            /\ last_chunk_id_written_' = last_chunk_id_written_
        BY <2>5 DEF DiscardWrite
      <3> QED BY <2>4, <3>1 DEF Refused
    <2>6. CASE ~MustKeep(d, i, Starts(d, 0, rec.size)) /\ InsertRecord(d, i, 0, rec, TRUE)
      <3>1. PICK o \in 0 .. Size - 1 : o = 0
        BY <1>2
      <3>2. rec.size <= Size - o /\ rec.key \notin DOMAIN i
        BY <1>2, <2>3, <3>1
      <3>3. /\ ~MustKeep(d, i, Starts(d, o, rec.size)) /\ InsertRecord(d, i, o, rec, TRUE)
            /\ Tiles(d, o) /\ Window(d, o, top)
        BY <2>3, <2>4, <2>6, <3>1
      <3>8. IsRing(d) /\ IsIndex(i) /\ Matches(d, i)
        BY <2>3
      <3>9. InsertsInto(d, i, top, w, rec, TRUE, o)
        BY <3>2, <3>3, <3>8, InsertGrows
      <3>10. PICK meta : /\ meta = ChunkMeta(o, rec.num_fragments, rec.flags, TRUE)
                         /\ GrownBy(d, i, data_', index_', rec, meta, o)
        BY <3>9 DEF InsertsInto
      <3>4. LostOnlyRead(data_, index_, data_')
        BY <2>4, <3>10, LostInTwoSteps DEF GrownBy
      <3>5. ASSUME NEW x \in DOMAIN data_', ~data_'[x].is_padding, x # o
            PROVE  x \in DOMAIN data_ /\ data_'[x] = data_[x]
                   /\ index_'[data_'[x].key] = index_[data_'[x].key]
        <4>1. x \in DOMAIN d /\ data_'[x] = d[x] /\ index_'[data_'[x].key] = i[data_'[x].key]
          BY <3>5, <3>10 DEF GrownBy
        <4>2. x \in DOMAIN data_ /\ d[x] = data_[x] /\ i[d[x].key] = index_[d[x].key]
          BY <2>4, <3>5, <4>1 DEF KeptFrom
        <4> QED BY <4>1, <4>2
      <3>6. GrownBy(data_, index_, data_', index_', rec, meta, o)
        BY <3>4, <3>5, <3>10 DEF GrownBy
      <3>7. Inserts(top, w, rec, o)
        BY <3>6, <3>9, <3>10 DEF Inserts, InsertsInto
      <3> QED BY <3>7
    <2> QED BY <2>2, <2>5, <2>6
  <1>6. CASE ~(rec.size > to_end) /\ ~DiscardWrite(data_, index_, wptr_)
    <2>1. /\ ~MustKeep(data_, index_, Starts(data_, wptr_, rec.size))
          /\ InsertRecord(data_, index_, wptr_, rec, TRUE)
      BY <1>3, <1>6 DEF WriteNewChunk
    <2>2. rec.size <= Size - wptr_
      BY <1>2, <1>3, <1>6
    <2>3. Inserts(top, w, rec, wptr_)
      BY <1>1, <2>1, <2>2, InsertGrows DEF Inserts
    <2> QED BY <2>3
  <1> QED BY <1>4, <1>5, <1>6

-----------------------------------------------------------------------------
(***************************************************************************)
(* The chunks of the writers and their copies, without scraping.           *)
(***************************************************************************)
\* The flags of the copy of a chunk: the last patch takes one away.
FlagsLeft(c) ==
    {f \in Flags : \/ f = First /\ c.from
                   \/ f = Last /\ c.on
                   \/ f = Holes /\ c.unsent > 0}

\* The record and entry of the copy of chunk c.
CopyIs(c, rec, meta) ==
    /\ rec.num_fragments = c.n /\ rec.holes = c.unsent /\ rec.flags = FlagsLeft(c)
    /\ meta.complete

Copies ==
    \A w \in Writers : \A x \in DOMAIN data_ : Of(data_, x, w) =>
        CopyIs(smb[w][data_[x].chunk], data_[x], index_[data_[x].key])

\* top[w] is the last chunk of w that was stored.
TopInv(top) ==
    \A w \in Writers :
        /\ last_chunk_id_written_[w] = IF top[w] = 0 THEN 0 ELSE Id(top[w])
        /\ \A k \in 1 .. top[w] : Committed(w, k)
        /\ ~discard_writes_ => \A k \in Nat : Committed(w, k) => k <= top[w]

WindowInv(top) ==
    /\ top \in [Writers -> Nat]
    /\ Window(data_, wptr_, top)
    /\ TopInv(top)
    /\ Copies

\* Chunk ids do not come round to those in the ring while chunks are discarded, nor
\* to that of a chunk of which a patch is still under way.
IdsFresh ==
    \A w \in Writers :
        /\ discard_writes_ => Len(smb[w]) <= kMaxChunkID + 1
        /\ \A k \in DOMAIN smb[w] : smb[w][k].unsent > 0 => Len(smb[w]) - k <= kMaxChunkID

\* Chunk k of w becomes e.
LEMMA ChunkReplaced ==
  ASSUME ChunkTypes, PacketsInv, NEW w \in Writers, NEW k \in DOMAIN smb[w], NEW e \in Chunks,
         ChunkIsSound(e), e.first = smb[w][k].first, e.from = smb[w][k].from,
         e.state = "open" => smb[w][k].state = "open",
         k < Len(smb[w]) => /\ e.n = smb[w][k].n /\ e.extra = smb[w][k].extra
                            /\ e.on = smb[w][k].on,
         e.on => smb[w][k].on,
         smb' = [smb EXCEPT ![w] = [smb[w] EXCEPT ![k] = e]]
  PROVE  /\ PacketsInv'
         /\ \A v \in Writers : \A j \in Nat : Exists(v, j) /\ (v # w \/ j # k) => smb'[v][j] = smb[v][j]
         /\ smb'[w][k] = e
  <1>1. PICK q : q = smb[w] /\ q \in Seq(Chunks)
    BY DEF ChunkTypes
  <1>2. k \in 1 .. Len(q) /\ PacketsFollow(q) /\ DOMAIN q = 1 .. Len(q)
    BY <1>1, ChunkType DEF PacketsInv
  <1>3. PICK s : s = [q EXCEPT ![k] = e]
    OBVIOUS
  <1>4. s \in Seq(Chunks) /\ Len(s) = Len(q) /\ Packets(s)
    BY <1>1, <1>2, <1>3, PacketsReplaced DEF PacketsFollow
  <1>5. /\ \A j \in 1 .. Len(q) : s[j] = IF j = k THEN e ELSE q[j]
        /\ Len(q) \in Nat
    BY <1>1, <1>2, <1>3, ExceptSeq
  <1>6. PacketsFollow(s)
    BY <1>1, <1>2, <1>4, <1>5 DEF PacketsFollow
  <1>7. smb'[w] = s /\ \A v \in Writers : v # w => smb'[v] = smb[v]
    BY <1>1, <1>3 DEF ChunkTypes
  <1>8. PacketsInv'
    BY <1>6, <1>7 DEF PacketsInv
  <1>9. ASSUME NEW v \in Writers, NEW j \in Nat, Exists(v, j), v # w \/ j # k
        PROVE  smb'[v][j] = smb[v][j]
    BY <1>1, <1>2, <1>5, <1>7, <1>9 DEF Exists
  <1> QED BY <1>2, <1>5, <1>7, <1>8, <1>9

\* Some of the chunks of w change, the committed ones do not.
LEMMA OtherChunksStay ==
  ASSUME NEW w \in Writers, ChunkTypes, \A v \in Writers : v # w => smb'[v] = smb[v],
         \A k \in Nat : Committed(w, k) => Exists(w, k)' /\ smb'[w][k] = smb[w][k]
  PROVE  CommittedStay
  BY DEF CommittedStay, Committed, Exists

LEMMA CurrentReplaced ==
  ASSUME ChunkTypes, PacketsInv, NEW w \in Writers, HasOpenChunk(w), NEW e \in Chunks,
         ChunkIsSound(e), e.first = Current(w).first, e.from = Current(w).from,
         ~e.on, smb' = [smb EXCEPT ![w] = [smb[w] EXCEPT ![Len(smb[w])] = e]]
  PROVE  PacketsInv' /\ CommittedStay
  <1>1. PICK k : k = Len(smb[w])
    OBVIOUS
  <1>2. k \in DOMAIN smb[w] /\ k \in Nat /\ smb[w][k].state = "open" /\ Current(w) = smb[w][k]
    BY <1>1, OpenChunk DEF Current
  <1>3. ~(k < Len(smb[w])) /\ smb' = [smb EXCEPT ![w] = [smb[w] EXCEPT ![k] = e]]
    BY <1>1, <1>2
  <1>4. /\ PacketsInv'
        /\ \A v \in Writers : \A j \in Nat :
              Exists(v, j) /\ (v # w \/ j # k) => smb'[v][j] = smb[v][j]
    <2>1. /\ e.first = smb[w][k].first /\ e.from = smb[w][k].from
          /\ e.state = "open" => smb[w][k].state = "open"
      BY <1>2
    <2>2. /\ k < Len(smb[w]) => /\ e.n = smb[w][k].n /\ e.extra = smb[w][k].extra
                                /\ e.on = smb[w][k].on
          /\ e.on => smb[w][k].on
      BY <1>3
    <2> QED BY <1>2, <1>3, <2>1, <2>2, ChunkReplaced
  <1>5. \A v \in Writers : DOMAIN smb'[v] = DOMAIN smb[v]
    BY <1>3 DEF ChunkTypes
  <1>6. CommittedStay
    BY <1>2, <1>4, <1>5 DEF CommittedStay, Committed, Exists
  <1> QED BY <1>4, <1>6

\* A chunk is added to those of w.
LEMMA ChunkAppended ==
  ASSUME ChunkTypes, NEW w \in Writers, NEW q \in Seq(Chunks), Len(q) = Len(smb[w]),
         Packets(q), NEW c \in Chunks, ChunkIsSound(c), ~c.on,
         IF q = << >> THEN c.first = 1 /\ ~c.from
         ELSE Follows(q[Len(q)], c) /\ q[Len(q)].state # "open",
         \A k \in 1 .. Len(q) : Committed(w, k) => q[k] = smb[w][k],
         smb' = [smb EXCEPT ![w] = Append(q, c)],
         \A v \in Writers : v # w => PacketsFollow(smb[v])
  PROVE  PacketsInv' /\ CommittedStay
  <1>1. PICK s, l : s = Append(q, c) /\ l = Len(q)
    OBVIOUS
  <1>2. s \in Seq(Chunks) /\ Len(s) = l + 1 /\ Packets(s)
    BY <1>1, PacketsAppended
  <1>3. /\ l \in Nat /\ s[l + 1] = c /\ \A k \in 1 .. l : s[k] = q[k]
        /\ DOMAIN s = 1 .. l + 1
    BY <1>1, <1>2, AppendProperties, LenProperties
  <1>4. PacketsFollow(s)
    BY <1>2, <1>3 DEF PacketsFollow
  <1>5. smb'[w] = s /\ \A v \in Writers : v # w => smb'[v] = smb[v]
    BY <1>1 DEF ChunkTypes
  <1>6. PacketsInv'
    BY <1>4, <1>5 DEF PacketsInv
  <1>7. smb[w] \in Seq(Chunks) /\ DOMAIN smb[w] = 1 .. l
    BY <1>1, LenProperties DEF ChunkTypes
  <1>8. ASSUME NEW k \in Nat, Committed(w, k) PROVE Exists(w, k)' /\ smb'[w][k] = smb[w][k]
    <2>1. k \in 1 .. l
      BY <1>7, <1>8 DEF Committed, Exists
    <2>2. k \in DOMAIN s
      BY <1>3, <2>1
    <2> QED BY <1>1, <1>3, <1>5, <1>8, <2>1, <2>2 DEF Exists
  <1>9. CommittedStay
    BY <1>5, <1>8, OtherChunksStay
  <1> QED BY <1>6, <1>9

LEMMA NewTracePacketFollows ==
  ASSUME ChunkTypes, PacketsInv, NEW w \in Writers, NewTracePacket(w)
  PROVE  PacketsInv' /\ CommittedStay
  <1>1. CASE /\ HasOpenChunk(w) /\ Current(w).extra
             /\ smb' = [smb EXCEPT ![w][Len(smb[w])].extra = FALSE]
    <2>1. PICK c, k : k = Len(smb[w]) /\ c = smb[w][k]
      OBVIOUS
    <2>2. /\ c \in Chunks /\ c.state = "open" /\ k \in DOMAIN smb[w] /\ c = Current(w)
          /\ k \in 1 .. Len(smb[w])
      BY <1>1, <2>1, OpenChunk, ChunkType DEF Current
    <2>3. ChunkIsSound(c)
      BY <2>1, <2>2 DEF PacketsInv, PacketsFollow, Packets
    <2>4. PICK e : e = [c EXCEPT !.extra = FALSE]
      OBVIOUS
    <2>5. /\ e \in Chunks /\ e.first = c.first /\ e.from = c.from /\ ~e.on /\ ~e.extra
          /\ e.n = c.n /\ e.bad = c.bad /\ e.unsent = c.unsent /\ e.holes = c.holes
          /\ e.state = "open"
      BY <2>2, <2>3, <2>4 DEF Chunks, ChunkIsSound
    <2>6. ChunkIsSound(e)
      BY <2>2, <2>3, <2>5 DEF ChunkIsSound
    <2>7. smb' = [smb EXCEPT ![w] = [smb[w] EXCEPT ![Len(smb[w])] = e]]
      BY <1>1, <2>1, <2>4
    <2> QED BY <1>1, <2>2, <2>5, <2>6, <2>7, CurrentReplaced
  <1>2. CASE /\ ~HasOpenChunk(w)
             /\ smb' = [smb EXCEPT ![w] = Append(@, NewChunk(NextPacket(w), FALSE))]
    <2>1. PICK q, c : q = smb[w] /\ c = NewChunk(NextPacket(w), FALSE)
      OBVIOUS
    <2>2. q \in Seq(Chunks) /\ PacketsFollow(q)
      BY <2>1 DEF ChunkTypes, PacketsInv
    <2>3. CASE q = << >>
      <3>1. NextPacket(w) = 1
        BY <2>1, <2>3 DEF NextPacket
      <3>2. c \in Chunks /\ c.first = 1 /\ ~c.from /\ ~c.on
        BY <2>1, <3>1 DEF NewChunk, Chunks
      <3>3. ChunkIsSound(c)
        BY <2>1, <3>1 DEF NewChunk, ChunkIsSound
      <3> QED BY <1>2, <2>1, <2>2, <2>3, <3>2, <3>3, ChunkAppended DEF PacketsFollow, PacketsInv
    <2>4. CASE q # << >>
      <3>1. PICK l : l = Len(q) /\ l \in 1 .. Len(q)
        BY <2>2, <2>4, EmptySeq, LenProperties
      <3>2. q[l] \in Chunks /\ q[l].state # "open" /\ ~q[l].on
        BY <1>2, <2>1, <2>2, <2>4, <3>1, ElementOfSeq DEF HasOpenChunk, PacketsFollow
      <3>3. NextPacket(w) = LastPacket(q[l]) + 1 /\ LastPacket(q[l]) \in Int
        BY <2>1, <2>4, <3>1, <3>2, LastPacketIs DEF NextPacket
      <3>4. c \in Chunks /\ c.first = LastPacket(q[l]) + 1 /\ ~c.from /\ ~c.on
        BY <2>1, <3>3 DEF NewChunk, Chunks
      <3>5. ChunkIsSound(c)
        BY <2>1 DEF NewChunk, ChunkIsSound
      <3>6. Follows(q[Len(q)], c)
        BY <3>1, <3>2, <3>4 DEF Follows, Chunks
      <3> QED BY <1>2, <2>1, <2>2, <2>4, <3>1, <3>2, <3>4, <3>5, <3>6, ChunkAppended
              DEF PacketsFollow, PacketsInv
    <2> QED BY <2>3, <2>4
  <1> QED BY <1>1, <1>2 DEF NewTracePacket

LEMMA GetNewBufferFollows ==
  ASSUME ChunkTypes, PacketsInv, NEW w \in Writers, NEW h \in Nat, GetNewBuffer(w, h)
  PROVE  PacketsInv' /\ CommittedStay
  <1>1. PICK k, c : k = Len(smb[w]) /\ c = smb[w][k]
    OBVIOUS
  <1>2. /\ HasOpenChunk(w) /\ c = Current(w) /\ ~c.extra
    BY <1>1 DEF GetNewBuffer, Current
  <1>3. k \in DOMAIN smb[w] /\ k \in 1 .. Len(smb[w]) /\ c \in Chunks /\ c.state = "open"
    BY <1>1, <1>2, OpenChunk, ChunkType
  <1>4. PICK e : e = [c EXCEPT !.state = "complete", !.on = TRUE, !.holes = h, !.unsent = h]
    OBVIOUS
  <1>5. ChunkIsSound(c)
    BY <1>1, <1>3 DEF PacketsInv, PacketsFollow, Packets
  <1>6. /\ e \in Chunks /\ e.first = c.first /\ e.from = c.from /\ e.on /\ ~e.extra
        /\ e.n = c.n /\ e.bad = c.bad /\ e.unsent = h /\ e.holes = h /\ e.state = "complete"
    BY <1>2, <1>3, <1>4 DEF Chunks
  <1>7. ChunkIsSound(e) /\ LastPacket(e) = LastPacket(c) /\ LastPacket(c) \in Int
    BY <1>2, <1>3, <1>5, <1>6, LastPacketIs DEF ChunkIsSound, LastPacket
  <1>8. PICK q, s, new : /\ q = smb[w] /\ s = [q EXCEPT ![k] = e]
                         /\ new = NewChunk(LastPacket(c), TRUE)
    OBVIOUS
  <1>9. q \in Seq(Chunks) /\ PacketsFollow(q) /\ k = Len(q) /\ k \in 1 .. Len(q)
    BY <1>1, <1>3, <1>8 DEF ChunkTypes, PacketsInv
  <1>10. s \in Seq(Chunks) /\ Len(s) = Len(q) /\ Packets(s)
    <2>1. ~(k < Len(q)) /\ e.first = q[k].first /\ e.from = q[k].from
      BY <1>1, <1>6, <1>8, <1>9
    <2> QED BY <1>6, <1>7, <1>8, <1>9, <2>1, PacketsReplaced DEF PacketsFollow
  <1>11. \A j \in 1 .. Len(q) : s[j] = IF j = k THEN e ELSE q[j]
    BY <1>6, <1>8, <1>9, ExceptSeq
  <1>12. /\ new \in Chunks /\ new.first = LastPacket(c) /\ new.from /\ ~new.on
         /\ ChunkIsSound(new)
    BY <1>7, <1>8 DEF NewChunk, Chunks, ChunkIsSound
  <1>13. s # << >> /\ s[Len(s)] = e
    BY <1>9, <1>10, <1>11, EmptySeq
  <1>14. Follows(s[Len(s)], new)
    <2>1. LastPacket(c) + 0 = LastPacket(c)
      BY <1>7
    <2> QED BY <1>6, <1>7, <1>12, <1>13, <2>1 DEF Follows
  <1>15. \A j \in 1 .. Len(s) : Committed(w, j) => s[j] = smb[w][j]
    BY <1>1, <1>3, <1>8, <1>10, <1>11 DEF Committed
  <1>16. smb' = [smb EXCEPT ![w] = Append(s, new)]
    BY <1>1, <1>4, <1>8 DEF GetNewBuffer, Current
  <1>17. s[Len(s)].state # "open" /\ Len(s) = Len(smb[w])
    BY <1>6, <1>8, <1>10, <1>13
  <1> QED BY <1>10, <1>12, <1>13, <1>14, <1>15, <1>16, <1>17, ChunkAppended DEF PacketsInv

LEMMA WriterStepFollows ==
  ASSUME ChunkTypes, load \in Loads, PacketsInv, NEW w \in Writers, WriterStep(w)
  PROVE  PacketsInv' /\ CommittedStay
  <1>1. CASE \E h \in 0 .. load.patches : GetNewBuffer(w, h)
    <2>1. PICK h \in 0 .. load.patches : GetNewBuffer(w, h)
      BY <1>1
    <2>2. load.patches \in Nat
      BY BufferAssumption
    <2> QED BY <2>1, <2>2, GetNewBufferFollows
  <1>2. CASE FinishTracePacket(w) \/ ReturnCompletedChunk(w) \/ GetNewBufferDrops(w)
    <2>1. PICK c, k : k = Len(smb[w]) /\ c = smb[w][k]
      OBVIOUS
    <2>2. HasOpenChunk(w)
      BY <1>2 DEF FinishTracePacket, ReturnCompletedChunk, GetNewBufferDrops
    <2>3. /\ c \in Chunks /\ c.state = "open" /\ k \in DOMAIN smb[w] /\ c = Current(w)
          /\ k \in 1 .. Len(smb[w])
      BY <2>1, <2>2, OpenChunk, ChunkType DEF Current
    <2>4. ChunkIsSound(c)
      BY <2>1, <2>3 DEF PacketsInv, PacketsFollow, Packets
    <2>5. PICK e : \/ /\ e = [[c EXCEPT !.n = @ + 1] EXCEPT !.extra = TRUE] /\ ~c.extra
                      /\ smb' = [smb EXCEPT ![w][Len(smb[w])].n = @ + 1,
                                            ![w][Len(smb[w])].extra = TRUE]
                   \/ /\ e = [c EXCEPT !.state = "complete"]
                      /\ smb' = [smb EXCEPT ![w][Len(smb[w])].state = "complete"]
                   \/ /\ e = [[c EXCEPT !.state = "complete"] EXCEPT !.bad = TRUE] /\ ~c.extra
                      /\ smb' = [smb EXCEPT ![w][Len(smb[w])].state = "complete",
                                            ![w][Len(smb[w])].bad = TRUE]
      BY <1>2, <2>3 DEF FinishTracePacket, ReturnCompletedChunk, GetNewBufferDrops
    <2>6. smb' = [smb EXCEPT ![w] = [smb[w] EXCEPT ![Len(smb[w])] = e]]
      <3>1. smb \in [Writers -> Seq(Chunks)] /\ Len(smb[w]) \in DOMAIN smb[w] /\ c = smb[w][Len(smb[w])]
        BY <2>1, <2>3 DEF ChunkTypes
      <3> QED BY <2>5, <3>1
    <2>7. /\ e \in Chunks /\ e.first = c.first /\ e.from = c.from /\ ~e.on
          /\ ChunkIsSound(e)
      <3>1. CASE e = [[c EXCEPT !.n = @ + 1] EXCEPT !.extra = TRUE]
        <4>1. c.n + 1 \in Nat /\ c.n + 1 >= 2 /\ c.n \in Nat
          BY <2>3, <2>4 DEF Chunks, ChunkIsSound
        <4>2. /\ e \in Chunks /\ e.first = c.first /\ e.from = c.from /\ e.on = c.on
              /\ e.n = c.n + 1 /\ e.extra /\ e.bad = c.bad /\ e.unsent = c.unsent
              /\ e.holes = c.holes /\ e.state = "open"
          BY <2>3, <3>1, <4>1 DEF Chunks
        <4> QED BY <2>3, <2>4, <4>1, <4>2 DEF ChunkIsSound
      <3>2. CASE e = [c EXCEPT !.state = "complete"]
        <4>1. /\ e \in Chunks /\ e.first = c.first /\ e.from = c.from /\ e.on = c.on
              /\ e.n = c.n /\ e.extra = c.extra /\ e.bad = c.bad /\ e.unsent = c.unsent
              /\ e.holes = c.holes /\ e.state = "complete"
          BY <2>3, <3>2 DEF Chunks
        <4> QED BY <2>3, <2>4, <4>1 DEF ChunkIsSound
      <3>3. CASE e = [[c EXCEPT !.state = "complete"] EXCEPT !.bad = TRUE] /\ ~c.extra
        <4>1. /\ e \in Chunks /\ e.first = c.first /\ e.from = c.from /\ e.on = c.on
              /\ e.n = c.n /\ e.extra = c.extra /\ e.bad /\ e.unsent = c.unsent
              /\ e.holes = c.holes /\ e.state = "complete"
          BY <2>3, <3>3 DEF Chunks
        <4> QED BY <2>3, <2>4, <3>3, <4>1 DEF ChunkIsSound
      <3> QED BY <2>5, <3>1, <3>2, <3>3
    <2> QED BY <2>2, <2>3, <2>6, <2>7, CurrentReplaced
  <1> QED BY <1>1, <1>2, NewTracePacketFollows DEF WriterStep

\* What a chunk holds, its patches apart.
SameContent(c, d) ==
    /\ d.first = c.first /\ d.n = c.n /\ d.extra = c.extra
    /\ d.from = c.from /\ d.on = c.on /\ d.bad = c.bad

\* The committed chunks keep their packets.
CommittedKeep ==
    \A w \in Writers : \A k \in Nat :
        Committed(w, k) => Committed(w, k)' /\ SameContent(smb[w][k], smb'[w][k])

\* Two entries are equally far read.
AsRead(m, n) ==
    /\ m.num_fragments = n.num_fragments /\ m.num_fragments_read = n.num_fragments_read
    /\ m.skipped = n.skipped

\* What may have happened to the chunks of w in the ring: old ones may be gone, with
\* kDiscard only if they had been read, and a new one may have come.
ShelfMoves(w, top, new) ==
    /\ new[w] = top[w] \/ (new[w] = top[w] + 1 /\ new[w] \in Shelf(data_', w))
    /\ \A j \in Shelf(data_', w) :
          \/ j \in Shelf(data_, w) /\ AsRead(index_'[<<w, Id(j)>>], index_[<<w, Id(j)>>])
          \/ /\ j = top[w] + 1 /\ j = new[w]
             /\ index_'[<<w, Id(j)>>].num_fragments_read = 0
    /\ overwrite_policy_ = "kDiscard" =>
          \A j \in Shelf(data_, w) : j \in Shelf(data_', w) \/ ~Unread(index_[<<w, Id(j)>>])

RingMoves(top) ==
    /\ PacketsInv' /\ CommittedKeep
    /\ \E new : WindowInv(new)' /\ \A v \in Writers : ShelfMoves(v, top, new)

\* The chunk that is committed is the next one, or discarded.
LEMMA CommitIsNew ==
  ASSUME IdsLast, IdsFresh, ChunkTypes, RingInv, CommitsArePrefix,
         NEW top, WindowInv(top), NEW w \in Writers, NEW k \in DOMAIN smb[w], Committable(w, k)
  PROVE  /\ k > top[w] /\ k \in Nat
         /\ ~discard_writes_ => k = top[w] + 1
         /\ <<w, Id(k)>> \notin DOMAIN index_
  <1>1. /\ top \in [Writers -> Nat] /\ Window(data_, wptr_, top) /\ TopInv(top)
        /\ wptr_ \in 0 .. Size - 1 /\ IsRing(data_) /\ Tiles(data_, wptr_) /\ Matches(data_, index_)
    BY DEF WindowInv, RingInv
  <1>2. /\ k \in Nat \ {0} /\ k \in 1 .. Len(smb[w]) /\ top[w] \in Nat
        /\ smb[w][k].state = "complete" /\ smb[w] \in Seq(Chunks) /\ Len(smb[w]) \in Nat
    BY <1>1, ChunkType, LenProperties DEF Committable, ChunkTypes
  <1>3. ~Committed(w, k)
    BY <1>2 DEF Committed
  <1>4. k > top[w]
    <2>1. k \notin 1 .. top[w]
      BY <1>1, <1>3 DEF TopInv
    <2> QED BY <1>2, <2>1
  <1>5. ASSUME ~discard_writes_ PROVE k = top[w] + 1
    <2>1. CASE k = 1
      BY <1>2, <1>4, <2>1
    <2>2. CASE k # 1
      <3>1. PICK p \in 1 .. k - 1 : p = k - 1
        BY <1>2, <2>2
      <3>2. p \in DOMAIN smb[w] /\ p \in Nat
        BY <1>2, <3>1, LenProperties
      <3>3. Committed(w, p)
        BY <3>1, <3>2 DEF Committable, Committed, Exists
      <3>4. p <= top[w]
        BY <1>1, <1>5, <3>2, <3>3 DEF TopInv
      <3> QED BY <1>2, <1>4, <3>1, <3>4
    <2> QED BY <2>1, <2>2
  <1>6. ASSUME <<w, Id(k)>> \in DOMAIN index_ PROVE FALSE
    <2>1. PICK j \in Shelf(data_, w) : Id(k) = Id(j)
      BY <1>1, <1>6, EntryIsShelved
    <2>2. j \in Nat /\ j # 0 /\ j <= top[w] /\ top[w] - j < kMaxChunkID
      BY <1>1, <2>1, ShelfIs
    <2>3. PICK m \in Nat : m = kMaxChunkID
      BY BufferAssumption
    <2>4. k - j <= m
      <3>1. CASE discard_writes_
        <4>1. Len(smb[w]) <= m + 1
          BY <2>3, <3>1 DEF IdsFresh
        <4> QED BY <1>2, <2>2, <2>3, <4>1
      <3>2. CASE ~discard_writes_
        BY <1>2, <1>5, <2>2, <2>3, <3>2
      <3> QED BY <3>1, <3>2
    <2>5. j < k
      BY <1>2, <1>4, <2>2
    <2> QED BY <1>2, <2>1, <2>2, <2>3, <2>4, <2>5, IdsDiffer
  <1> QED BY <1>2, <1>4, <1>5, <1>6

LEMMA CommitCopies ==
  ASSUME ChunkTypes, PacketsInv, NEW w \in Writers, NEW k \in DOMAIN smb[w], Committable(w, k),
         CopyChunkUntrusted(w, k, TRUE), <<w, Id(k)>> \notin DOMAIN index_
  PROVE  \E rec \in ChunkRecords :
            /\ rec.key = <<w, Id(k)>> /\ rec.chunk = k /\ rec.size = RecordSize[w]
            /\ rec.num_fragments = smb[w][k].n /\ rec.holes = smb[w][k].unsent
            /\ rec.flags = FlagsLeft(smb[w][k])
            /\ WriteNewChunk(rec, TRUE)
  <1>1. PICK c, n, flags, rec :
           c = smb[w][k] /\ n = c.n /\ flags = FlagsOf(c) /\ rec = ChunkRecord(w, k, n, flags)
    OBVIOUS
  <1>2. k \in 1 .. Len(smb[w]) /\ c \in Chunks /\ c.state = "complete"
    BY <1>1, ChunkType DEF Committable
  <1>3. c.unsent = c.holes
    BY <1>1, <1>2 DEF PacketsInv, PacketsFollow, Packets, ChunkIsSound
  <1>4. flags = FlagsLeft(c) /\ flags \in SUBSET Flags /\ n \in Int
    BY <1>1, <1>2, <1>3 DEF FlagsOf, FlagsLeft, Flags, Chunks
  <1>5. /\ rec \in ChunkRecords /\ rec.key = <<w, Id(k)>> /\ rec.chunk = k
        /\ rec.num_fragments = n /\ rec.flags = flags
    BY <1>1, <1>4, RecordType DEF ChunkTypes
  <1>6. rec.size = RecordSize[w] /\ rec.holes = c.holes
    BY <1>1 DEF ChunkRecord
  <1>7. WriteNewChunk(rec, TRUE)
    BY <1>1, <1>5 DEF CopyChunkUntrusted, FragmentsOf
  <1> QED BY <1>1, <1>3, <1>4, <1>5, <1>6, <1>7

\* Chunks that are left have not changed, and the lost ones had been read.
LEMMA ShelfKept ==
  ASSUME IsRing(data_), Labelled(data_), IsRing(data_'), NEW w \in Writers, NEW j \in Shelf(data_', w),
         NEW o, j # data_'[o].chunk \/ ~Of(data_', o, w),
         \A x \in DOMAIN data_' : ~data_'[x].is_padding /\ x # o =>
            /\ x \in DOMAIN data_ /\ data_'[x] = data_[x]
            /\ index_'[data_'[x].key] = index_[data_'[x].key]
  PROVE  j \in Shelf(data_, w) /\ index_'[<<w, Id(j)>>] = index_[<<w, Id(j)>>]
  <1>1. PICK x \in DOMAIN data_' : Of(data_', x, w) /\ data_'[x].chunk = j
    BY DEF Shelf
  <1>2. x # o
    BY <1>1
  <1>3. /\ x \in DOMAIN data_ /\ data_'[x] = data_[x]
        /\ index_'[data_'[x].key] = index_[data_'[x].key]
    BY <1>1, <1>2 DEF Of
  <1>4. Of(data_, x, w) /\ data_[x].chunk = j
    BY <1>1, <1>3 DEF Of
  <1>5. data_[x].key = <<w, Id(j)>>
    BY <1>3, <1>4 DEF Labelled
  <1> QED BY <1>3, <1>4, <1>5 DEF Shelf

LEMMA ShelfLost ==
  ASSUME IsRing(data_), Labelled(data_), LostOnlyRead(data_, index_, data_'),
         overwrite_policy_ = "kDiscard", NEW w \in Writers, NEW j \in Shelf(data_, w)
  PROVE  j \in Shelf(data_', w) \/ ~Unread(index_[<<w, Id(j)>>])
  <1>1. PICK x \in DOMAIN data_ : Of(data_, x, w) /\ data_[x].chunk = j
    BY DEF Shelf
  <1>2. data_[x].key = <<w, Id(j)>> /\ ~data_[x].is_padding
    BY <1>1 DEF Labelled, Of
  <1>3. CASE x \in DOMAIN data_' /\ data_'[x] = data_[x]
    BY <1>1, <1>3 DEF Of, Shelf
  <1> QED BY <1>2, <1>3 DEF LostOnlyRead

\* The state of chunk k of w becomes committed.
Commits(w, k) ==
    /\ PacketsInv' /\ CommittedKeep
    /\ \A v \in Writers : \A j \in Nat : Exists(v, j) /\ (v # w \/ j # k) => smb'[v][j] = smb[v][j]
    /\ smb'[w][k].n = smb[w][k].n /\ smb'[w][k].unsent = smb[w][k].unsent
    /\ FlagsLeft(smb'[w][k]) = FlagsLeft(smb[w][k])
    /\ \A v \in Writers : \A j \in Nat :
          Committed(v, j)' <=> Committed(v, j) \/ (v = w /\ j = k)

LEMMA CommitFollows ==
  ASSUME ChunkTypes, PacketsInv, NEW w \in Writers, NEW k \in DOMAIN smb[w],
         smb[w][k].state = "complete", smb' = [smb EXCEPT ![w][k].state = "committed"]
  PROVE  Commits(w, k)
  <1>1. PICK c, e : c = smb[w][k] /\ e = [c EXCEPT !.state = "committed"]
    OBVIOUS
  <1>2. c \in Chunks /\ k \in Nat /\ k \in 1 .. Len(smb[w])
    BY <1>1, ChunkType
  <1>3. /\ e \in Chunks /\ SameContent(c, e) /\ e.state = "committed"
        /\ e.unsent = c.unsent /\ e.holes = c.holes
    BY <1>1, <1>2 DEF Chunks, SameContent
  <1>4. ChunkIsSound(c)
    BY <1>1, <1>2 DEF PacketsInv, PacketsFollow, Packets
  <1>5. ChunkIsSound(e)
    BY <1>1, <1>3, <1>4 DEF ChunkIsSound, SameContent
  <1>6. smb' = [smb EXCEPT ![w] = [smb[w] EXCEPT ![k] = e]]
    BY <1>1
  <1>7. /\ e.first = smb[w][k].first /\ e.from = smb[w][k].from /\ e.n = smb[w][k].n
        /\ e.extra = smb[w][k].extra /\ e.on = smb[w][k].on /\ e.state # "open"
    BY <1>1, <1>3 DEF SameContent
  <1>8. /\ PacketsInv' /\ smb'[w][k] = e
        /\ \A v \in Writers : \A j \in Nat :
              Exists(v, j) /\ (v # w \/ j # k) => smb'[v][j] = smb[v][j]
    <2>1. /\ e.state = "open" => smb[w][k].state = "open"
          /\ k < Len(smb[w]) => /\ e.n = smb[w][k].n /\ e.extra = smb[w][k].extra
                                /\ e.on = smb[w][k].on
          /\ e.on => smb[w][k].on
          /\ e.first = smb[w][k].first /\ e.from = smb[w][k].from
      BY <1>7
    <2>2. e \in Chunks
      BY <1>3
    <2> QED BY ONLY ChunkTypes, PacketsInv, w \in Writers, k \in DOMAIN smb[w], <1>5, <1>6, <2>1, <2>2,
               ChunkReplaced
  <1>9. \A v \in Writers : DOMAIN smb'[v] = DOMAIN smb[v]
    BY <1>6 DEF ChunkTypes
  <1>10. \A v \in Writers : \A j \in Nat :
            Committed(v, j)' <=> Committed(v, j) \/ (v = w /\ j = k)
    BY <1>3, <1>8, <1>9 DEF Committed, Exists
  <1>11. CommittedKeep
    <2> SUFFICES ASSUME NEW v \in Writers, NEW j \in Nat, Committed(v, j)
                 PROVE  SameContent(smb[v][j], smb'[v][j])
      BY <1>10 DEF CommittedKeep
    <2>1. CASE v = w /\ j = k
      BY <1>1, <1>3, <1>8, <2>1
    <2>2. CASE v # w \/ j # k
      BY <1>8, <2>2 DEF SameContent, Committed
    <2> QED BY <2>1, <2>2
  <1>12. FlagsLeft(e) = FlagsLeft(c) /\ e.n = c.n
    BY <1>3 DEF FlagsLeft, SameContent
  <1> QED BY <1>1, <1>3, <1>8, <1>10, <1>11, <1>12 DEF Commits

LEMMA CommitKeepsWindow ==
  ASSUME IdsLast, IdsFresh, BufferInv, PacketsInv, ~Scraping, NEW top, WindowInv(top),
         NEW w \in Writers, CommitData(w)
  PROVE  RingMoves(top)
  <1>1. /\ ChunkTypes /\ RingInv /\ CommitsArePrefix /\ OnlyCommitted
        /\ top \in [Writers -> Nat] /\ Window(data_, wptr_, top) /\ TopInv(top) /\ Copies
        /\ IsRing(data_) /\ Matches(data_, index_) /\ Labelled(data_)
    BY InvParts DEF WindowInv, RingInv, Window
  <1>2. PICK k \in DOMAIN smb[w] :
           /\ Committable(w, k)
           /\ CopyChunkUntrusted(w, k, TRUE)
           /\ smb' = [smb EXCEPT ![w][k].state = "committed"]
    BY DEF CommitData
  <1>3. /\ k > top[w] /\ k \in Nat
        /\ ~discard_writes_ => k = top[w] + 1
        /\ <<w, Id(k)>> \notin DOMAIN index_
    BY <1>1, <1>2, CommitIsNew
  <1>30. top[w] \in Nat
    BY <1>1
  <1>4. Copied(w, k)
    BY <1>1, <1>2, CopyChunkSound DEF ChunkTypes
  <1>5. RingInv' /\ IsRing(data_')
    BY <1>4 DEF Copied, RingInv
  <1>6. PICK c : c = smb[w][k]
    OBVIOUS
  <1>7. /\ PacketsInv' /\ CommittedKeep
        /\ \A v \in Writers : \A j \in Nat :
              Exists(v, j) /\ (v # w \/ j # k) => smb'[v][j] = smb[v][j]
        /\ smb'[w][k].n = c.n /\ smb'[w][k].unsent = c.unsent
        /\ FlagsLeft(smb'[w][k]) = FlagsLeft(c)
        /\ \A v \in Writers : \A j \in Nat :
              Committed(v, j)' <=> Committed(v, j) \/ (v = w /\ j = k)
    <2>1. smb[w][k].state = "complete"
      BY <1>2 DEF Committable
    <2>2. ChunkTypes /\ smb' = [smb EXCEPT ![w][k].state = "committed"]
      BY <1>1, <1>2
    <2>3. Commits(w, k)
      BY <2>1, <2>2, CommitFollows
    <2> QED BY <1>6, <2>3 DEF Commits
  <1>8. PICK rec \in ChunkRecords :
           /\ rec.key = <<w, Id(k)>> /\ rec.chunk = k /\ rec.size = RecordSize[w]
           /\ rec.num_fragments = c.n /\ rec.holes = c.unsent /\ rec.flags = FlagsLeft(c)
           /\ WriteNewChunk(rec, TRUE)
    BY <1>1, <1>2, <1>3, <1>6, CommitCopies
  \* The copies of chunks that are still in the ring are as they were.
  <1>9. ASSUME NEW v \in Writers, NEW x \in DOMAIN data_', Of(data_', x, v), x \in DOMAIN data_,
               data_'[x] = data_[x], index_'[data_'[x].key] = index_[data_'[x].key]
        PROVE  CopyIs(smb'[v][data_'[x].chunk], data_'[x], index_'[data_'[x].key])
    <2>1. Of(data_, x, v)
      BY <1>9 DEF Of
    <2>2. PICK j \in Nat : j = data_[x].chunk
      BY <1>1, <2>1, RecordOf
    <2>3. CopyIs(smb[v][j], data_[x], index_[data_[x].key]) /\ j <= top[v]
      BY <1>1, <1>9, <2>1, <2>2 DEF Copies, Window
    <2>4. Committed(v, j)
      BY <1>1, <2>1, <2>2 DEF OnlyCommitted, Of
    <2>5. v # w \/ j # k
      BY <1>3, <1>30, <2>3
    <2>6. smb'[v][j] = smb[v][j]
      BY <1>7, <2>4, <2>5 DEF Committed
    <2> QED BY <1>9, <2>2, <2>3, <2>6
  <1>10. CASE KeptFrom(data_, index_, data_', index_') /\ LostOnlyRead(data_, index_, data_')
              /\ Window(data_', wptr_', top) /\ discard_writes_'
              /\ last_chunk_id_written_' = last_chunk_id_written_
    <2>1. Copies'
      <3> SUFFICES ASSUME NEW v \in Writers, NEW x \in DOMAIN data_', Of(data_', x, v)
                   PROVE  CopyIs(smb'[v][data_'[x].chunk], data_'[x], index_'[data_'[x].key])
        BY DEF Copies, Of, CopyIs, FlagsLeft
      <3>1. x \in DOMAIN data_ /\ data_'[x] = data_[x] /\ index_'[data_'[x].key] = index_[data_'[x].key]
        BY <1>10 DEF KeptFrom, Of
      <3> QED BY <1>9, <3>1
    <2>2. TopInv(top)'
      <3>1. \A v \in Writers : \A j \in 1 .. top[v] : j \in Nat
        BY <1>1
      <3> QED BY <1>1, <1>7, <1>10, <3>1 DEF TopInv
    <2>3. WindowInv(top)'
      BY <1>1, <1>10, <2>1, <2>2 DEF WindowInv
    <2>4. ASSUME NEW v \in Writers PROVE ShelfMoves(v, top, top)
      <3>1. ASSUME NEW j \in Shelf(data_', v)
            PROVE  j \in Shelf(data_, v) /\ index_'[<<v, Id(j)>>] = index_[<<v, Id(j)>>]
        <4>1. PICK x \in DOMAIN data_' : Of(data_', x, v) /\ data_'[x].chunk = j
          BY DEF Shelf
        <4>2. x \in DOMAIN data_ /\ data_'[x] = data_[x] /\ index_'[data_'[x].key] = index_[data_'[x].key]
          BY <1>10, <4>1 DEF KeptFrom, Of
        <4>3. Of(data_, x, v)
          BY <4>1, <4>2 DEF Of
        <4>4. data_[x].key = <<v, Id(j)>>
          BY <1>1, <4>1, <4>2, <4>3 DEF Labelled
        <4> QED BY <4>1, <4>2, <4>3, <4>4 DEF Shelf
      <3>2. overwrite_policy_ = "kDiscard" =>
               \A j \in Shelf(data_, v) : j \in Shelf(data_', v) \/ ~Unread(index_[<<v, Id(j)>>])
        BY <1>1, <1>10, ShelfLost
      <3> QED BY <3>1, <3>2 DEF ShelfMoves, AsRead
    <2> QED BY <1>7, <2>3, <2>4 DEF RingMoves
  <1>11. CASE \E o : Inserts(top, w, rec, o) /\ ~discard_writes_
    <2>1. PICK o : Inserts(top, w, rec, o)
      BY <1>11
    <2>2. PICK meta, new : /\ meta = ChunkMeta(o, rec.num_fragments, rec.flags, TRUE)
                           /\ new = [top EXCEPT ![w] = top[w] + 1]
      OBVIOUS
    <2>3. /\ Window(data_', wptr_', new) /\ GrownBy(data_, index_, data_', index_', rec, meta, o)
          /\ last_chunk_id_written_' =
                [last_chunk_id_written_ EXCEPT ![w] = NewLastChunkId(w, Id(top[w] + 1))]
          /\ discard_writes_' = discard_writes_
      BY <2>1, <2>2 DEF Inserts, InsertsInto
    <2>4. /\ o \in DOMAIN data_' /\ data_'[o] = rec /\ index_'[rec.key] = meta
          /\ \A x \in DOMAIN data_' : ~data_'[x].is_padding /\ x # o =>
                x \in DOMAIN data_ /\ data_'[x] = data_[x]
                /\ index_'[data_'[x].key] = index_[data_'[x].key]
          /\ LostOnlyRead(data_, index_, data_')
      BY <2>3 DEF GrownBy
    <2>5. k = top[w] + 1 /\ new \in [Writers -> Nat] /\ new[w] = k
          /\ \A v \in Writers : v # w => new[v] = top[v]
      BY <1>1, <1>3, <1>11, <2>2
    <2>6. Of(data_', o, w) /\ rec.key[1] = w
      <3>1. rec.key[1] = w
        BY <1>8
      <3>2. ~rec.is_padding
        BY DEF ChunkRecords
      <3> QED BY <2>4, <3>1, <3>2 DEF Of
    <2>7. meta.complete /\ meta.num_fragments_read = 0
      BY <2>2 DEF ChunkMeta
    <2>8. Copies'
      <3> SUFFICES ASSUME NEW v \in Writers, NEW x \in DOMAIN data_', Of(data_', x, v)
                   PROVE  CopyIs(smb'[v][data_'[x].chunk], data_'[x], index_'[data_'[x].key])
        BY DEF Copies, Of, CopyIs, FlagsLeft
      <3>1. CASE x = o
        <4>1. v = w
          BY <2>6, <3>1 DEF Of
        <4> QED BY <1>7, <1>8, <2>4, <2>7, <3>1, <4>1 DEF CopyIs
      <3>2. CASE x # o
        BY <1>9, <2>4, <3>2 DEF Of
      <3> QED BY <3>1, <3>2
    <2>9. TopInv(new)'
      <3>1. ASSUME NEW v \in Writers
            PROVE  last_chunk_id_written_'[v] = IF new[v] = 0 THEN 0 ELSE Id(new[v])
        <4>1. CASE v = w
          <5>1. last_chunk_id_written_[w] = IF k = 1 THEN 0 ELSE Id(k - 1)
            <6>1. top[w] = k - 1 /\ (k = 1 <=> top[w] = 0)
              BY <1>30, <2>5
            <6> QED BY <1>1, <6>1 DEF TopInv
          <5>2. k \in Nat \ {0}
            BY <1>30, <2>5
          <5>3. NewLastChunkId(w, Id(k)) = Id(k)
            BY <5>1, <5>2, NewerId
          <5>4. last_chunk_id_written_'[w] = NewLastChunkId(w, Id(k))
            BY <1>1, <2>3, <2>5 DEF RingInv
          <5> QED BY <2>5, <4>1, <5>2, <5>3, <5>4
        <4>2. CASE v # w
          BY <1>1, <2>3, <2>5, <4>2 DEF TopInv, RingInv
        <4> QED BY <4>1, <4>2
      <3>2. ASSUME NEW v \in Writers, NEW j \in 1 .. new[v] PROVE Committed(v, j)'
        <4>1. j \in Nat /\ (j \in 1 .. top[v] \/ (v = w /\ j = k))
          BY <1>1, <2>5
        <4> QED BY <1>1, <1>7, <4>1 DEF TopInv
      <3>3. ASSUME NEW v \in Writers, NEW j \in Nat, Committed(v, j)' PROVE j <= new[v]
        <4>1. Committed(v, j) => j <= top[v]
          BY <1>1, <1>11 DEF TopInv
        <4> QED BY <1>1, <1>7, <2>5, <3>3, <4>1
      <3> QED BY <3>1, <3>2, <3>3 DEF TopInv
    <2>10. WindowInv(new)'
      BY <2>3, <2>5, <2>8, <2>9 DEF WindowInv
    <2>11. ASSUME NEW v \in Writers PROVE ShelfMoves(v, top, new)
      <3>1. ASSUME NEW j \in Shelf(data_', v)
            PROVE  \/ j \in Shelf(data_, v) /\ AsRead(index_'[<<v, Id(j)>>], index_[<<v, Id(j)>>])
                   \/ /\ j = top[v] + 1 /\ j = new[v]
                      /\ index_'[<<v, Id(j)>>].num_fragments_read = 0
        <4>1. CASE v = w /\ j = k
          BY <1>8, <2>4, <2>5, <2>7, <4>1
        <4>2. CASE v # w \/ j # k
          <5>1. j # data_'[o].chunk \/ ~Of(data_', o, v)
            BY <1>8, <2>4, <2>6, <4>2 DEF Of
          <5> QED BY <1>1, <1>5, <2>4, <5>1, ShelfKept DEF AsRead
        <4> QED BY <4>1, <4>2
      <3>2. overwrite_policy_ = "kDiscard" =>
               \A j \in Shelf(data_, v) : j \in Shelf(data_', v) \/ ~Unread(index_[<<v, Id(j)>>])
        BY <1>1, <2>4, ShelfLost
      <3>3. k \in Shelf(data_', w)
        BY <1>8, <2>4, <2>6 DEF Shelf
      <3>4. new[v] = top[v] \/ (new[v] = top[v] + 1 /\ new[v] \in Shelf(data_', v))
        BY <2>5, <3>3
      <3> QED BY <3>1, <3>2, <3>4 DEF ShelfMoves
    <2> QED BY <1>7, <2>10, <2>11 DEF RingMoves
  <1>12. CASE discard_writes_
    <2>1. DiscardWrite(data_, index_, wptr_)
      BY <1>8, <1>12 DEF WriteNewChunk
    <2>2. /\ data_' = data_ /\ index_' = index_ /\ wptr_' = wptr_ /\ discard_writes_'
          /\ last_chunk_id_written_' = last_chunk_id_written_
      BY <2>1 DEF DiscardWrite
    <2>3. KeptFrom(data_, index_, data_, index_) /\ LostOnlyRead(data_, index_, data_)
      BY DEF KeptFrom, LostOnlyRead
    <2> QED BY <1>1, <1>10, <2>2, <2>3
  <1>13. CASE ~discard_writes_
    <2>1. rec.chunk = top[w] + 1 /\ rec.key = <<w, Id(top[w] + 1)>> /\ rec.key \notin DOMAIN index_
      BY <1>3, <1>8, <1>13
    <2>2. Refused(top) \/ \E o : Inserts(top, w, rec, o)
      BY <1>1, <1>8, <1>13, <2>1, NewChunkWindow
    <2> QED BY <1>10, <1>11, <1>13, <2>2 DEF Refused
  <1> QED BY <1>12, <1>13

\* One of the patches of chunk k of w is sent.
Patches(w, k) ==
    /\ PacketsInv' /\ CommittedKeep
    /\ \A v \in Writers : \A j \in Nat : Exists(v, j) /\ (v # w \/ j # k) => smb'[v][j] = smb[v][j]
    /\ smb'[w][k] = [smb[w][k] EXCEPT !.unsent = smb[w][k].unsent - 1]
    /\ \A v \in Writers : \A j \in Nat : Committed(v, j)' <=> Committed(v, j)

LEMMA PatchFollows ==
  ASSUME ChunkTypes, PacketsInv, NEW w \in Writers, NEW k \in DOMAIN smb[w],
         smb[w][k].unsent > 0, smb[w][k].state = "committed",
         smb' = [smb EXCEPT ![w][k].unsent = @ - 1]
  PROVE  Patches(w, k)
  <1>1. PICK c, e : c = smb[w][k] /\ e = [c EXCEPT !.unsent = c.unsent - 1]
    OBVIOUS
  <1>2. c \in Chunks /\ k \in Nat /\ k \in 1 .. Len(smb[w])
    BY <1>1, ChunkType
  <1>3. ChunkIsSound(c)
    BY <1>1, <1>2 DEF PacketsInv, PacketsFollow, Packets
  <1>4. c.unsent \in Nat /\ c.holes \in Nat /\ c.unsent > 0 /\ c.state = "committed"
    BY <1>1, <1>2 DEF Chunks
  <1>5. /\ e \in Chunks /\ SameContent(c, e) /\ e.state = c.state
        /\ e.unsent = c.unsent - 1 /\ e.holes = c.holes
    BY <1>1, <1>2, <1>4 DEF Chunks, SameContent
  <1>6. ChunkIsSound(e)
    BY <1>3, <1>4, <1>5 DEF ChunkIsSound, SameContent
  <1>7. smb' = [smb EXCEPT ![w] = [smb[w] EXCEPT ![k] = e]]
    BY <1>1
  <1>8. /\ e.state = "open" => smb[w][k].state = "open"
        /\ k < Len(smb[w]) => /\ e.n = smb[w][k].n /\ e.extra = smb[w][k].extra
                              /\ e.on = smb[w][k].on
        /\ e.on => smb[w][k].on
        /\ e.first = smb[w][k].first /\ e.from = smb[w][k].from
    BY <1>1, <1>5 DEF SameContent
  <1>9. /\ PacketsInv' /\ smb'[w][k] = e
        /\ \A v \in Writers : \A j \in Nat :
              Exists(v, j) /\ (v # w \/ j # k) => smb'[v][j] = smb[v][j]
    <2>1. e \in Chunks
      BY <1>5
    <2> QED BY ONLY ChunkTypes, PacketsInv, w \in Writers, k \in DOMAIN smb[w], <2>1,
                    <1>6, <1>7, <1>8, ChunkReplaced
  <1>10. \A v \in Writers : DOMAIN smb'[v] = DOMAIN smb[v]
    BY <1>7 DEF ChunkTypes
  <1>11. ASSUME NEW v \in Writers, NEW j \in Nat
         PROVE  /\ Committed(v, j)' <=> Committed(v, j)
                /\ Committed(v, j) => SameContent(smb[v][j], smb'[v][j])
    <2>1. CASE v = w /\ j = k
      BY <1>1, <1>5, <1>9, <1>10, <2>1 DEF Committed, Exists
    <2>2. CASE v # w \/ j # k
      BY <1>9, <1>10, <2>2 DEF SameContent, Committed, Exists
    <2> QED BY <2>1, <2>2
  <1>12. CommittedKeep
    BY <1>11 DEF CommittedKeep
  <1> QED BY <1>1, <1>9, <1>11, <1>12 DEF Patches

\* The patch finds the copy of the chunk it is for.
LEMMA PatchFinds ==
  ASSUME IdsLast, IdsFresh, ChunkTypes, RingInv, NEW top, WindowInv(top), NEW w \in Writers,
         NEW k \in DOMAIN smb[w], smb[w][k].unsent > 0, smb[w][k].state = "committed",
         NEW j \in Shelf(data_, w), Id(k) = Id(j)
  PROVE  k = j
  <1>1. /\ top \in [Writers -> Nat] /\ Window(data_, wptr_, top) /\ TopInv(top)
        /\ wptr_ \in 0 .. Size - 1 /\ IsRing(data_) /\ Tiles(data_, wptr_) /\ Matches(data_, index_)
    BY DEF WindowInv, RingInv
  <1>2. j \in Nat /\ j # 0 /\ j <= top[w] /\ top[w] - j < kMaxChunkID
    BY <1>1, ShelfIs
  <1>3. k \in Nat /\ k <= Len(smb[w]) /\ Len(smb[w]) \in Nat /\ Committed(w, k)
    BY ChunkType, LenProperties DEF ChunkTypes, Committed, Exists
  <1>4. top[w] \in Nat /\ top[w] \in 1 .. top[w]
    BY <1>1, <1>2
  <1>5. Committed(w, top[w])
    BY <1>1, <1>4 DEF TopInv
  <1>6. top[w] <= Len(smb[w])
    BY <1>4, <1>5, ChunkType DEF Committed, Exists
  <1>7. PICK m \in Nat, l \in Nat : m = kMaxChunkID /\ l = Len(smb[w])
    BY <1>3, BufferAssumption
  <1>8. l - k <= m
    BY <1>7 DEF IdsFresh
  <1>9. CASE discard_writes_
    <2>1. l <= m + 1
      BY <1>7, <1>9 DEF IdsFresh
    <2>2. k - j <= m /\ j - k <= m
      BY <1>2, <1>3, <1>4, <1>6, <1>7, <1>8, <2>1
    <2>3. ~(j < k) /\ ~(k < j)
      BY <1>2, <1>3, <1>7, <2>2, IdsDiffer
    <2> QED BY <1>2, <1>3, <2>3
  <1>10. CASE ~discard_writes_
    <2>1. k <= top[w]
      BY <1>1, <1>3, <1>10 DEF TopInv
    <2>2. k - j <= m /\ j - k <= m
      BY <1>2, <1>3, <1>4, <1>6, <1>7, <1>8, <2>1
    <2>3. ~(j < k) /\ ~(k < j)
      BY <1>2, <1>3, <1>7, <2>2, IdsDiffer
    <2> QED BY <1>2, <1>3, <2>3
  <1> QED BY <1>9, <1>10

LEMMA PatchKeepsWindow ==
  ASSUME IdsLast, IdsFresh, BufferInv, PacketsInv, ~Scraping, NEW top, WindowInv(top),
         NEW w \in Writers, NEW k \in DOMAIN smb[w], TryPatchChunkContents(w, k)
  PROVE  RingMoves(top)
  <1>1. /\ ChunkTypes /\ RingInv /\ OnlyCommitted
        /\ top \in [Writers -> Nat] /\ Window(data_, wptr_, top) /\ TopInv(top) /\ Copies
        /\ IsRing(data_) /\ Matches(data_, index_) /\ Labelled(data_) /\ IsIndex(index_)
    BY InvParts DEF WindowInv, RingInv, Window
  <1>2. /\ smb[w][k].unsent > 0 /\ smb[w][k].state = "committed"
        /\ smb' = [smb EXCEPT ![w][k].unsent = @ - 1]
        /\ wptr_' = wptr_ /\ last_chunk_id_written_' = last_chunk_id_written_
        /\ discard_writes_' = discard_writes_
    BY DEF TryPatchChunkContents
  <1>3. PICK c, e : c = smb[w][k] /\ e = [c EXCEPT !.unsent = c.unsent - 1]
    OBVIOUS
  <1>4. /\ PacketsInv' /\ CommittedKeep
        /\ \A v \in Writers : \A j \in Nat :
              Exists(v, j) /\ (v # w \/ j # k) => smb'[v][j] = smb[v][j]
        /\ smb'[w][k] = e
        /\ \A v \in Writers : \A j \in Nat : Committed(v, j)' <=> Committed(v, j)
    <2>1. Patches(w, k)
      BY <1>1, <1>2, PatchFollows
    <2> QED BY <1>3, <2>1 DEF Patches
  <1>5. c \in Chunks /\ k \in Nat /\ c.unsent \in Nat
    BY <1>3, ChunkType, <1>1 DEF Chunks
  <1>6. TopInv(top)'
    <2>1. \A v \in Writers : \A j \in 1 .. top[v] : j \in Nat
      BY <1>1
    <2> QED BY <1>1, <1>2, <1>4, <2>1 DEF TopInv
  \* Which chunk a copy is of.
  <1>7. ASSUME NEW v \in Writers, NEW x \in DOMAIN data_, Of(data_, x, v)
        PROVE  /\ data_[x].chunk \in Nat /\ data_[x].chunk \in Shelf(data_, v)
               /\ Exists(v, data_[x].chunk) /\ data_[x].key = <<v, Id(data_[x].chunk)>>
               /\ data_[x].key \in DOMAIN index_ /\ index_[data_[x].key].record_off = x
    <2>1. data_[x].chunk \in Nat /\ data_[x].chunk \in Shelf(data_, v)
      BY <1>1, <1>7, RecordOf DEF Shelf
    <2>2. Committed(v, data_[x].chunk)
      BY <1>1, <1>7 DEF OnlyCommitted, Of
    <2> QED BY <1>1, <1>7, <2>1, <2>2 DEF Labelled, Committed, Matches, Of
  <1>8. CASE <<w, Id(k)>> \notin DOMAIN index_
    <2>1. data_' = data_ /\ index_' = index_
      BY <1>8 DEF TryPatchChunkContents
    <2>2. ASSUME NEW v \in Writers, NEW x \in DOMAIN data_, Of(data_, x, v)
          PROVE  CopyIs(smb'[v][data_[x].chunk], data_[x], index_[data_[x].key])
      <3>1. v # w \/ data_[x].chunk # k
        BY <1>7, <1>8, <2>2
      <3>2. smb'[v][data_[x].chunk] = smb[v][data_[x].chunk]
        BY <1>4, <1>7, <2>2, <3>1
      <3> QED BY <1>1, <2>2, <3>2 DEF Copies
    <2>3. Copies'
      BY <2>1, <2>2 DEF Copies, CopyIs, FlagsLeft
    <2>4. WindowInv(top)'
      BY <1>1, <1>2, <1>6, <2>1, <2>3 DEF WindowInv
    <2>5. \A v \in Writers : ShelfMoves(v, top, top)
      BY <2>1 DEF ShelfMoves, AsRead
    <2> QED BY <1>4, <2>4, <2>5 DEF RingMoves
  <1>9. CASE <<w, Id(k)>> \in DOMAIN index_
    <2>1. PICK j \in Shelf(data_, w) : Id(k) = Id(j)
      BY <1>1, <1>9, EntryIsShelved
    <2>2. k = j
      BY <1>1, <1>2, <2>1, PatchFinds
    <2>3. PICK x \in DOMAIN data_ : Of(data_, x, w) /\ data_[x].chunk = k
      BY <2>1, <2>2 DEF Shelf
    <2>4. PICK key, meta, rec, rest :
             /\ key = <<w, Id(k)>> /\ meta = index_[key] /\ rec = data_[x]
             /\ rest = IF c.unsent = 1 THEN {Holes} ELSE {}
      OBVIOUS
    <2>5. /\ key \in DOMAIN index_ /\ meta.record_off = x /\ rec.key = key
      BY <1>7, <1>9, <2>3, <2>4
    <2>6. /\ index_' = [index_ EXCEPT ![key].flags = meta.flags \ rest]
          /\ data_' = [data_ EXCEPT ![x].flags = meta.flags \ rest, ![x].holes = @ - 1]
      BY <1>3, <1>9, <2>4, <2>5 DEF TryPatchChunkContents
    <2>7. meta \in Metas /\ rec \in ChunkRecords
      BY <1>1, <2>3, <2>4, <2>5, RecordOf DEF IsIndex
    <2>8. PICK m2, r2 : /\ m2 = [meta EXCEPT !.flags = meta.flags \ rest]
                        /\ r2 = [[rec EXCEPT !.flags = meta.flags \ rest] EXCEPT !.holes = rec.holes - 1]
      OBVIOUS
    <2>9. /\ index_' = [index_ EXCEPT ![key] = m2] /\ data_' = [data_ EXCEPT ![x] = r2]
      BY <2>4, <2>6, <2>8
    <2>10. /\ AsRead(m2, meta) /\ m2.complete = meta.complete
      BY <2>7, <2>8 DEF Metas, AsRead
    <2>11. /\ r2.num_fragments = rec.num_fragments /\ r2.flags = meta.flags \ rest
           /\ r2.holes = rec.holes - 1 /\ r2.key = rec.key /\ r2.chunk = rec.chunk
           /\ r2.is_padding = rec.is_padding /\ r2.size = rec.size
      BY <2>7, <2>8 DEF ChunkRecords
    <2>12. /\ DOMAIN data_' = DOMAIN data_ /\ DOMAIN index_' = DOMAIN index_
           /\ \A y \in DOMAIN data_ : data_'[y] = IF y = x THEN r2 ELSE data_[y]
           /\ \A l \in DOMAIN index_ : index_'[l] = IF l = key THEN m2 ELSE index_[l]
      BY <1>1, <2>9 DEF IsRing, IsIndex
    <2>13. \A y \in DOMAIN data_ :
              /\ data_'[y].is_padding = data_[y].is_padding /\ data_'[y].size = data_[y].size
              /\ ~data_[y].is_padding => data_'[y].key = data_[y].key /\ data_'[y].chunk = data_[y].chunk
      BY <2>4, <2>11, <2>12
    <2>14. Window(data_', wptr_', top)
      BY <1>1, <1>2, <2>12, <2>13, WindowSame
    <2>15. \A v \in Writers : \A y : Of(data_', y, v) <=> Of(data_, y, v)
      BY <2>12, <2>13 DEF Of
    <2>16. ASSUME NEW v \in Writers, NEW y \in DOMAIN data_, Of(data_, y, v)
           PROVE  CopyIs(smb'[v][data_'[y].chunk], data_'[y], index_'[data_'[y].key])
      <3>1. /\ data_'[y].chunk = data_[y].chunk /\ data_'[y].key = data_[y].key
            /\ CopyIs(smb[v][data_[y].chunk], data_[y], index_[data_[y].key])
        BY <1>1, <2>13, <2>16 DEF Of, Copies
      <3>2. CASE y = x
        <4>1. v = w
          BY <2>3, <2>16, <3>2 DEF Of
        <4>2. CopyIs(c, rec, meta)
          BY <1>3, <2>3, <2>4, <2>5, <3>1, <3>2, <4>1
        <4>3. meta.flags = rec.flags
          BY <1>1, <2>3, <2>4, <2>5 DEF Matches, Of
        <4>4. e.n = c.n /\ e.unsent = c.unsent - 1 /\ e.from = c.from /\ e.on = c.on
          BY <1>3, <1>5 DEF Chunks
        <4>5. FlagsLeft(e) = FlagsLeft(c) \ rest
          <5>1. c.unsent > 0
            BY <1>2, <1>3
          <5>2. e.unsent > 0 <=> c.unsent # 1
            BY <1>5, <4>4, <5>1
          <5>3. First # Holes /\ Last # Holes
            BY DEF First, Last, Holes
          <5> QED BY <2>4, <4>4, <5>1, <5>2, <5>3 DEF FlagsLeft
        <4>6. CopyIs(e, r2, m2)
          BY <2>10, <2>11, <4>2, <4>3, <4>4, <4>5 DEF CopyIs
        <4>7. /\ data_'[y] = r2 /\ data_[y].chunk = k /\ data_[y].key = key
              /\ index_'[key] = m2 /\ smb'[w][k] = e
          BY <1>4, <2>3, <2>4, <2>5, <2>12, <3>2
        <4>8. data_'[y].chunk = k /\ data_'[y].key = key
          BY <3>1, <4>7
        <4> QED BY ONLY <4>1, <4>6, <4>7, <4>8
      <3>3. CASE y # x
        <4>1. data_[y].key # key
          BY <1>7, <2>5, <2>16, <3>3, <2>4
        <4>2. v # w \/ data_[y].chunk # k
          BY <1>7, <2>4, <2>16, <4>1
        <4>3. smb'[v][data_[y].chunk] = smb[v][data_[y].chunk]
          BY <1>4, <1>7, <2>16, <4>2
        <4>4. data_'[y] = data_[y] /\ index_'[data_[y].key] = index_[data_[y].key]
          BY <1>7, <2>12, <2>16, <3>3, <4>1
        <4> QED BY <3>1, <4>3, <4>4
      <3> QED BY <3>2, <3>3
    <2>17. Copies'
      BY <2>12, <2>15, <2>16 DEF Copies, CopyIs, FlagsLeft
    <2>18. WindowInv(top)'
      BY <1>1, <1>6, <2>14, <2>17 DEF WindowInv
    <2>19. ASSUME NEW v \in Writers PROVE ShelfMoves(v, top, top)
      <3>1. Shelf(data_', v) = Shelf(data_, v)
        BY <2>12, <2>13, <2>15 DEF Shelf, Of
      <3>2. ASSUME NEW i \in Shelf(data_, v) PROVE AsRead(index_'[<<v, Id(i)>>], index_[<<v, Id(i)>>])
        <4>1. PICK y \in DOMAIN data_ : Of(data_, y, v) /\ data_[y].chunk = i
          BY DEF Shelf
        <4>2. <<v, Id(i)>> \in DOMAIN index_
          BY <1>7, <4>1
        <4> QED BY <2>4, <2>10, <2>12, <4>2 DEF AsRead
      <3> QED BY <3>1, <3>2 DEF ShelfMoves
    <2> QED BY <1>4, <2>18, <2>19 DEF RingMoves
  <1> QED BY <1>8, <1>9

\* Nothing is said yet of the chunks that are being written.
LEMMA WriterKeepsWindow ==
  ASSUME BufferInv, PacketsInv, ~Scraping, NEW top, WindowInv(top), NEW w \in Writers, WriterStep(w)
  PROVE  RingMoves(top)
  <1>1. /\ ChunkTypes /\ load \in Loads /\ RingInv /\ OnlyCommitted
        /\ top \in [Writers -> Nat] /\ Window(data_, wptr_, top) /\ TopInv(top) /\ Copies
        /\ IsRing(data_)
    BY InvParts DEF WindowInv, RingInv
  <1>2. WriterLeaves(w)
    BY <1>1, WriterStepEvolves
  <1>3. /\ UNCHANGED <<wptr_, data_, index_, last_chunk_id_written_, discard_writes_>>
        /\ \A v \in Writers : \A k \in Nat : Committed(v, k)' <=> Committed(v, k)
    BY <1>2 DEF WriterLeaves, Evolves, ring
  <1>4. PacketsInv' /\ CommittedStay
    BY <1>1, WriterStepFollows
  <1>5. CommittedKeep
    BY <1>4 DEF CommittedKeep, CommittedStay, SameContent
  <1>6. Copies'
    <2>1. ASSUME NEW v \in Writers, NEW x \in DOMAIN data_, Of(data_, x, v)
          PROVE  CopyIs(smb'[v][data_[x].chunk], data_[x], index_[data_[x].key])
      <3>1. data_[x].chunk \in Nat
        BY <1>1, <2>1, RecordOf
      <3>2. Committed(v, data_[x].chunk)
        BY <1>1, <2>1 DEF OnlyCommitted, Of
      <3>3. smb'[v][data_[x].chunk] = smb[v][data_[x].chunk]
        BY <1>4, <3>1, <3>2 DEF CommittedStay
      <3> QED BY <1>1, <2>1, <3>3 DEF Copies
    <2> QED BY <1>3, <2>1 DEF Copies, CopyIs, FlagsLeft
  <1>7. TopInv(top)'
    <2>1. \A v \in Writers : \A k \in 1 .. top[v] : k \in Nat
      BY <1>1
    <2> QED BY <1>1, <1>3, <2>1 DEF TopInv
  <1>8. Window(data_', wptr_', top)
    BY <1>1, <1>3
  <1>9. WindowInv(top)'
    BY <1>1, <1>6, <1>7, <1>8 DEF WindowInv
  <1>10. \A v \in Writers : ShelfMoves(v, top, top)
    BY <1>3 DEF ShelfMoves, AsRead
  <1> QED BY <1>4, <1>5, <1>9, <1>10 DEF RingMoves

\* Reading leaves the chunks where they are.
LEMMA ReadKeepsWindow ==
  ASSUME BufferInv, PacketsInv, NEW top, WindowInv(top),
         UNCHANGED <<smb, data_, wptr_, last_chunk_id_written_, discard_writes_>>,
         \A key \in DOMAIN index_ : index_'[key].complete = index_[key].complete
  PROVE  PacketsInv' /\ WindowInv(top)'
  <1>1. /\ top \in [Writers -> Nat] /\ Window(data_, wptr_, top) /\ TopInv(top) /\ Copies
        /\ Matches(data_, index_)
    BY InvParts DEF WindowInv, RingInv
  <1>2. PacketsInv'
    BY DEF PacketsInv
  <1>3. Copies'
    <2>1. ASSUME NEW v \in Writers, NEW x \in DOMAIN data_, Of(data_, x, v)
          PROVE  CopyIs(smb[v][data_[x].chunk], data_[x], index_'[data_[x].key])
      <3>1. data_[x].key \in DOMAIN index_
        BY <1>1, <2>1 DEF Matches, Of
      <3> QED BY <1>1, <2>1, <3>1 DEF Copies, CopyIs
    <2> QED BY <2>1 DEF Copies, CopyIs, FlagsLeft
  <1>4. TopInv(top)'
    BY <1>1 DEF TopInv, Committed, Exists
  <1>5. Window(data_', wptr_', top)
    BY <1>1
  <1> QED BY <1>1, <1>2, <1>3, <1>4, <1>5 DEF WindowInv

LEMMA InitWindow ==
  ASSUME Init, NEW top, top = [w \in Writers |-> 0]
  PROVE  PacketsInv /\ WindowInv(top)
  <1>1. /\ \A w \in Writers : smb[w] = << >> /\ DOMAIN smb[w] = {} /\ Len(smb[w]) = 0
        /\ DOMAIN data_ = {} /\ \A w \in Writers : last_chunk_id_written_[w] = 0
        /\ \A w \in Writers : top[w] = 0
        /\ top \in [Writers -> Nat]
    BY EmptySeq DEF Init
  <1>2. PacketsInv
    BY <1>1 DEF PacketsInv, PacketsFollow, Packets
  <1>3. Window(data_, wptr_, top)
    BY <1>1 DEF Window, Labelled, Of
  <1>4. TopInv(top) /\ Copies
    BY <1>1 DEF TopInv, Committed, Exists, Copies
  <1> QED BY <1>1, <1>2, <1>3, <1>4 DEF WindowInv

\* The steps with which the ring moves on are taken between reads.
LEMMA RingSteps ==
  ASSUME IdsLast, IdsFresh, BufferInv, PacketsInv, ~Scraping, sweep.todo = {},
         NEW top, WindowInv(top), Next
  PROVE  \/ ReadStep
         \/ /\ RingMoves(top) /\ read_pc = "idle"
            /\ UNCHANGED <<sweep, read_pc, read_iter_, consumed, reached, overwrite_policy_>>
  <1>1. OnlyCommitted /\ ChunkTypes /\ load \in Loads /\ UNCHANGED overwrite_policy_
    BY InvParts DEF Next
  <1>2. ASSUME NEW w \in Writers, WriterStep(w)
        PROVE  /\ RingMoves(top) /\ read_pc = "idle"
               /\ UNCHANGED <<sweep, read_pc, read_iter_, consumed, reached>>
    <2>1. read_pc = "idle" /\ UNCHANGED <<reader, ghost>>
      BY <1>2 DEF WriterStep, NewTracePacket, FinishTracePacket, ReturnCompletedChunk, GetNewBuffer,
                  GetNewBufferDrops, WriterMayRun
    <2>2. UNCHANGED sweep
      BY <1>1, <1>2, WriterStepEvolves DEF WriterLeaves, JoinSweep, OnlyCommitted
    <2> QED BY <1>2, <2>1, <2>2, WriterKeepsWindow DEF reader, ghost
  <1>3. ASSUME NEW w \in Writers, CommitData(w)
        PROVE  /\ RingMoves(top) /\ read_pc = "idle"
               /\ UNCHANGED <<sweep, read_pc, read_iter_, consumed, reached>>
    BY <1>3, CommitKeepsWindow DEF CommitData, ServiceIdle, reader
  <1>4. ASSUME NEW w \in Writers, NEW k \in DOMAIN smb[w], TryPatchChunkContents(w, k)
        PROVE  /\ RingMoves(top) /\ read_pc = "idle"
               /\ UNCHANGED <<sweep, read_pc, read_iter_, consumed, reached>>
    BY <1>4, PatchKeepsWindow DEF TryPatchChunkContents, ServiceIdle, reader, ghost
  <1>5. ~BeginSweep
    BY DEF BeginSweep
  <1>6. ~(\E x \in sweep.todo : ScrapeChunk(x))
    OBVIOUS
  <1>7. ~EndSweep
    BY <1>1 DEF OnlyCommitted, EndSweep
  <1> QED BY <1>1, <1>2, <1>3, <1>4, <1>5, <1>6, <1>7 DEF Next

-----------------------------------------------------------------------------
(***************************************************************************)
(* How far the reader is, without scraping.                                *)
(***************************************************************************)
\* Chunk k of w is in the ring: its number, entry, record and content.
OnShelf(top, w, k) ==
    /\ k \in Nat \ {0} /\ k <= top[w] /\ k .. top[w] \subseteq Shelf(data_, w)
    /\ <<w, Id(k)>> \in DOMAIN index_ /\ Meta(w, k) \in Metas
    /\ data_[Meta(w, k).record_off].chunk = k
    /\ Meta(w, k).num_fragments = smb[w][k].n
    /\ Meta(w, k).flags = FlagsLeft(smb[w][k]) /\ Meta(w, k).complete
    /\ Committed(w, k) /\ smb[w][k] \in Chunks /\ ChunkIsSound(smb[w][k])

LEMMA OnShelfIs ==
  ASSUME IdsLast, BufferInv, PacketsInv, ~Scraping, NEW top, WindowInv(top),
         NEW w \in Writers, NEW k \in Shelf(data_, w)
  PROVE  OnShelf(top, w, k)
  <1>1. /\ top \in [Writers -> Nat] /\ Window(data_, wptr_, top) /\ Copies
        /\ wptr_ \in 0 .. Size - 1 /\ IsRing(data_) /\ Tiles(data_, wptr_) /\ Matches(data_, index_)
        /\ IsIndex(index_) /\ OnlyCommitted /\ ChunkTypes
    BY InvParts DEF WindowInv, RingInv
  <1>2. /\ k \in Nat /\ k # 0 /\ k <= top[w] /\ k .. top[w] \subseteq Shelf(data_, w)
        /\ <<w, Id(k)>> \in DOMAIN index_
        /\ LET x == index_[<<w, Id(k)>>].record_off IN
           Of(data_, x, w) /\ data_[x].chunk = k /\ data_[x].key = <<w, Id(k)>>
    BY <1>1, ShelfIs
  <1>3. PICK x, meta : x = index_[<<w, Id(k)>>].record_off /\ meta = Meta(w, k)
    OBVIOUS
  <1>4. /\ Of(data_, x, w) /\ x \in DOMAIN data_ /\ data_[x].chunk = k
        /\ data_[x].key = <<w, Id(k)>> /\ meta = index_[<<w, Id(k)>>]
        /\ meta.record_off = x /\ meta \in Metas
    BY <1>1, <1>2, <1>3 DEF Of, Meta, IsIndex
  <1>5. /\ meta.num_fragments = data_[x].num_fragments /\ meta.flags = data_[x].flags
    BY <1>1, <1>4 DEF Matches, Of
  <1>6. CopyIs(smb[w][k], data_[x], meta)
    BY <1>1, <1>4 DEF Copies
  <1>7. Committed(w, k)
    BY <1>1, <1>4 DEF OnlyCommitted, Of
  <1>8. smb[w][k] \in Chunks /\ k \in 1 .. Len(smb[w])
    BY <1>1, <1>7, ChunkType DEF Committed, Exists
  <1>9. ChunkIsSound(smb[w][k])
    BY <1>8 DEF PacketsInv, PacketsFollow, Packets
  <1> QED BY <1>2, <1>3, <1>4, <1>5, <1>6, <1>7, <1>8, <1>9 DEF OnShelf, CopyIs

\* The fragments of chunk k that have been read.
ReadOf(w, k) == Meta(w, k).num_fragments_read

\* Something has been read of the chunks up to reached, and nothing of later ones;
\* with kDiscard the later ones are all there.
Progress(top) ==
    \A w \in Writers :
        /\ reached[w] <= top[w]
        /\ overwrite_policy_ = "kDiscard" => reached[w] + 1 .. top[w] \subseteq Shelf(data_, w)
        /\ \A k \in Shelf(data_, w) :
              /\ k < reached[w] => ~Unread(Meta(w, k))
              /\ k = reached[w] => ReadOf(w, k) >= 1 /\ ReadOf(w, k) <= Meta(w, k).num_fragments
              /\ k > reached[w] => ReadOf(w, k) = 0

\* The packet up to which the reader has been through the fragments of w.
LastRead(w) ==
    LET c == smb[w][reached[w]]
        p == c.first + ReadOf(w, reached[w]) - 1
    IN  IF reached[w] \in Shelf(data_, w) /\ p < LastPacket(c) THEN p ELSE LastPacket(c)

\* The writer gave packet p up.
GivenUp(w, p) ==
    \E k \in Nat : Committed(w, k) /\ smb[w][k].bad /\ LastPacket(smb[w][k]) = p

\* Up to there packets have been returned, with kDiscard all but those given up, and a
\* packet that goes on is not passed over.
TakenFrom(w) ==
    /\ reached[w] = 0 => consumed[w] = 0
    /\ reached[w] # 0 => consumed[w] <= LastRead(w)
    /\ overwrite_policy_ = "kDiscard" /\ reached[w] # 0 =>
          /\ \A p \in consumed[w] + 1 .. LastRead(w) : GivenUp(w, p)
          /\ smb[w][reached[w]].on =>
                reached[w] \in Shelf(data_, w) /\ Unread(Meta(w, reached[w]))

Taken == \A w \in Writers : TakenFrom(w)

LEMMA RingKeepsProgress ==
  ASSUME IdsLast, BufferInv, PacketsInv, ~Scraping, NEW top, WindowInv(top), Progress(top),
         NEW new, new \in [Writers -> Nat], \A v \in Writers : ShelfMoves(v, top, new),
         UNCHANGED <<reached, overwrite_policy_>>
  PROVE  Progress(new)'
  <1>1. top \in [Writers -> Nat] /\ reached \in [Writers -> Nat]
    BY InvParts DEF WindowInv
  <1> SUFFICES ASSUME NEW w \in Writers
               PROVE  /\ reached'[w] <= new[w]
                      /\ overwrite_policy_' = "kDiscard" =>
                            reached'[w] + 1 .. new[w] \subseteq Shelf(data_', w)
                      /\ \A k \in Shelf(data_', w) :
                            /\ k < reached'[w] => ~Unread(Meta(w, k)')
                            /\ k = reached'[w] => /\ Meta(w, k)'.num_fragments_read >= 1
                                                  /\ Meta(w, k)'.num_fragments_read <= Meta(w, k)'.num_fragments
                            /\ k > reached'[w] => Meta(w, k)'.num_fragments_read = 0
    BY DEF Progress, Shelf, ReadOf, Unread, Of, Meta
  <1>2. PICK t \in Nat, r \in Nat, n \in Nat : t = top[w] /\ r = reached[w] /\ n = new[w]
    BY <1>1
  <1>3. /\ n = t \/ (n = t + 1 /\ n \in Shelf(data_', w))
        /\ \A j \in Shelf(data_', w) :
              \/ j \in Shelf(data_, w) /\ AsRead(Meta(w, j)', Meta(w, j))
              \/ j = t + 1 /\ j = n /\ Meta(w, j)'.num_fragments_read = 0
        /\ overwrite_policy_ = "kDiscard" =>
              \A j \in Shelf(data_, w) : j \in Shelf(data_', w) \/ ~Unread(Meta(w, j))
    BY <1>2 DEF ShelfMoves, Meta
  <1>4. /\ r <= t
        /\ overwrite_policy_ = "kDiscard" => r + 1 .. t \subseteq Shelf(data_, w)
        /\ \A k \in Shelf(data_, w) :
              /\ k < r => ~Unread(Meta(w, k))
              /\ k = r => ReadOf(w, k) >= 1 /\ ReadOf(w, k) <= Meta(w, k).num_fragments
              /\ k > r => ReadOf(w, k) = 0
    BY <1>2 DEF Progress
  <1>5. ASSUME overwrite_policy_ = "kDiscard", NEW k \in r + 1 .. n
        PROVE  k \in Shelf(data_', w)
    <2>1. CASE k \in r + 1 .. t
      <3>1. k \in Shelf(data_, w) /\ ReadOf(w, k) = 0
        BY <1>4, <1>5, <2>1
      <3>2. OnShelf(top, w, k)
        BY <3>1, OnShelfIs
      <3>3. Meta(w, k).num_fragments >= 1 /\ Meta(w, k).num_fragments \in Int
        BY <3>2 DEF OnShelf, ChunkIsSound, Metas
      <3>4. Unread(Meta(w, k))
        BY <3>1, <3>3 DEF Unread, ReadOf
      <3>5. k \in Shelf(data_', w) \/ ~Unread(Meta(w, k))
        BY <1>3, <1>5, <3>1
      <3> QED BY <3>4, <3>5
    <2>2. CASE k \notin r + 1 .. t
      <3>1. k = n /\ n = t + 1
        BY <1>3, <2>2
      <3> QED BY <1>3, <3>1
    <2> QED BY <2>1, <2>2
  <1>6. ASSUME NEW k \in Shelf(data_', w)
        PROVE  /\ k < r => ~Unread(Meta(w, k)')
               /\ k = r => /\ Meta(w, k)'.num_fragments_read >= 1
                           /\ Meta(w, k)'.num_fragments_read <= Meta(w, k)'.num_fragments
               /\ k > r => Meta(w, k)'.num_fragments_read = 0
    <2>1. CASE k \in Shelf(data_, w) /\ AsRead(Meta(w, k)', Meta(w, k))
      BY <1>4, <2>1 DEF AsRead, ReadOf, Unread
    <2>2. CASE k = t + 1 /\ Meta(w, k)'.num_fragments_read = 0
      BY <1>4, <2>2
    <2> QED BY <1>3, <1>6, <2>1, <2>2
  <1> QED BY <1>2, <1>3, <1>4, <1>5, <1>6

LEMMA SamePackets ==
  ASSUME NEW c \in Chunks, NEW d, SameContent(c, d)
  PROVE  LastPacket(d) = LastPacket(c) /\ d.first = c.first /\ d.on = c.on
  BY DEF SameContent, LastPacket

LEMMA GivenUpStays ==
  ASSUME ChunkTypes, CommittedKeep, NEW w \in Writers, NEW p, GivenUp(w, p)
  PROVE  GivenUp(w, p)'
  <1>1. PICK k \in Nat : Committed(w, k) /\ smb[w][k].bad /\ LastPacket(smb[w][k]) = p
    BY DEF GivenUp
  <1>2. Committed(w, k)' /\ SameContent(smb[w][k], smb'[w][k])
    BY <1>1 DEF CommittedKeep
  <1>3. smb[w][k] \in Chunks
    BY <1>1, ChunkType DEF Committed, Exists
  <1>4. LastPacket(smb'[w][k]) = p /\ smb'[w][k].bad
    BY <1>1, <1>2, <1>3, SamePackets DEF SameContent
  <1> QED BY <1>2, <1>4 DEF GivenUp

LEMMA RingKeepsTaken ==
  ASSUME IdsLast, BufferInv, PacketsInv, ~Scraping, NEW top, WindowInv(top), Progress(top), Taken,
         consumed \in [Writers -> Int], CommittedKeep,
         NEW new, new \in [Writers -> Nat], \A v \in Writers : ShelfMoves(v, top, new),
         UNCHANGED <<consumed, reached, overwrite_policy_>>
  PROVE  Taken'
  <1>1. top \in [Writers -> Nat] /\ reached \in [Writers -> Nat] /\ ChunkTypes /\ OnlyCommitted
    BY InvParts DEF WindowInv
  <1> SUFFICES ASSUME NEW w \in Writers PROVE TakenFrom(w)'
    BY DEF Taken
  <1>2. CASE reached[w] = 0
    BY <1>2 DEF Taken, TakenFrom
  <1>3. CASE reached[w] # 0
    <2>0. PICK r \in Nat, t \in Nat : r = reached[w] /\ t = top[w]
      BY <1>1
    <2>1. PICK c, d, p, q :
             /\ r = reached[w] /\ t = top[w] /\ c = smb[w][r] /\ d = smb'[w][r]
             /\ p = c.first + ReadOf(w, r) - 1 /\ q = d.first + ReadOf(w, r)' - 1
      BY <2>0
    <2>2. Committed(w, r) /\ r <= t
      BY <1>1, <1>3, <2>1 DEF OnlyCommitted, Progress
    <2>3. c \in Chunks /\ SameContent(c, d)
      BY <1>1, <2>1, <2>2, ChunkType DEF Committed, Exists, CommittedKeep
    <2>4. LastPacket(d) = LastPacket(c) /\ d.first = c.first /\ d.on = c.on /\ LastPacket(c) \in Int
      BY <2>3, SamePackets, LastPacketIs
    <2>5. LastRead(w) = IF r \in Shelf(data_, w) /\ p < LastPacket(c) THEN p ELSE LastPacket(c)
      BY <2>1 DEF LastRead
    <2>6. LastRead(w)' = IF r \in Shelf(data_', w) /\ q < LastPacket(d) THEN q ELSE LastPacket(d)
      BY <2>1 DEF LastRead, Shelf, Of, LastPacket
    <2>7. ASSUME r \in Shelf(data_', w)
          PROVE  r \in Shelf(data_, w) /\ AsRead(Meta(w, r)', Meta(w, r)) /\ p = q
      <3>1. r # t + 1
        BY <2>2
      <3>2. r \in Shelf(data_, w) /\ AsRead(Meta(w, r)', Meta(w, r))
        BY <2>1, <2>7, <3>1 DEF ShelfMoves, Meta
      <3> QED BY <2>1, <2>4, <3>2 DEF AsRead, ReadOf
    <2>8. ASSUME r \in Shelf(data_, w)
          PROVE  /\ OnShelf(top, w, r) /\ ReadOf(w, r) \in Int /\ p \in Int
                 /\ Meta(w, r).num_fragments = c.n
                 /\ LastPacket(c) <= c.first + c.n - 1 /\ c.first \in Int /\ c.n \in Nat
      <3>1. OnShelf(top, w, r)
        BY <2>8, OnShelfIs
      <3>2. ReadOf(w, r) \in Int /\ Meta(w, r).num_fragments = c.n
        BY <2>1, <3>1 DEF OnShelf, ReadOf, Metas
      <3>3. c.first \in Int /\ c.n \in Nat /\ LastPacket(c) <= c.first + c.n - 1
        BY <2>3, LastPacketIs DEF Chunks
      <3> QED BY <2>1, <3>1, <3>2, <3>3
    <2>9. /\ LastRead(w) \in Int /\ LastRead(w) <= LastRead(w)'
          /\ overwrite_policy_ = "kDiscard" => LastRead(w)' = LastRead(w)
      <3>1. CASE r \in Shelf(data_', w)
        BY <2>4, <2>5, <2>6, <2>7, <2>8, <3>1
      <3>2. CASE r \notin Shelf(data_, w)
        BY <2>4, <2>5, <2>6, <2>7, <3>2
      <3>3. CASE r \in Shelf(data_, w) /\ r \notin Shelf(data_', w)
        <4>1. ASSUME overwrite_policy_ = "kDiscard" PROVE ~(p < LastPacket(c))
          <5>1. ~Unread(Meta(w, r))
            BY <2>1, <3>3, <4>1 DEF ShelfMoves, Meta
          <5>2. ReadOf(w, r) >= c.n
            BY <2>8, <3>3, <5>1 DEF Unread, ReadOf
          <5> QED BY <2>1, <2>4, <2>8, <3>3, <5>2
        <4> QED BY <2>4, <2>5, <2>6, <2>8, <3>3, <4>1
      <3> QED BY <3>1, <3>2, <3>3
    <2>10. /\ consumed[w] <= LastRead(w)
           /\ overwrite_policy_ = "kDiscard" =>
                 /\ \A i \in consumed[w] + 1 .. LastRead(w) : GivenUp(w, i)
                 /\ c.on => r \in Shelf(data_, w) /\ Unread(Meta(w, r))
      BY <1>3, <2>1 DEF Taken, TakenFrom
    <2>11. consumed[w] <= LastRead(w)'
      <3>1. LastRead(w)' \in Int
        BY <2>4, <2>6, <2>7, <2>8
      <3> QED BY <2>9, <2>10, <3>1
    <2>12. ASSUME overwrite_policy_ = "kDiscard", NEW i \in consumed[w] + 1 .. LastRead(w)'
           PROVE  GivenUp(w, i)'
      <3>1. GivenUp(w, i)
        BY <2>9, <2>10, <2>12
      <3> QED BY <1>1, <3>1, GivenUpStays
    <2>13. ASSUME overwrite_policy_ = "kDiscard", d.on
           PROVE  r \in Shelf(data_', w) /\ Unread(Meta(w, r)')
      <3>1. r \in Shelf(data_, w) /\ Unread(Meta(w, r))
        BY <2>4, <2>10, <2>13
      <3>2. r \in Shelf(data_', w)
        BY <2>13, <3>1 DEF ShelfMoves, Meta
      <3>3. AsRead(Meta(w, r)', Meta(w, r))
        BY <2>7, <3>2
      <3> QED BY <3>1, <3>2, <3>3 DEF AsRead, Unread
    <2>14. reached'[w] = r /\ consumed'[w] = consumed[w] /\ r # 0
      BY <1>3, <2>1
    <2>15. overwrite_policy_ = "kDiscard" /\ d.on =>
              r \in Shelf(data_', w) /\ Unread(index_'[<<w, Id(r)>>])
      BY <2>13 DEF Meta
    <2> QED BY <2>1, <2>11, <2>12, <2>14, <2>15 DEF TakenFrom, Meta, Unread, Shelf, Of
  <1> QED BY <1>2, <1>3

\* The chunk to be read next is the oldest that has anything unread.
Stands(w, k) == k \in Shelf(data_, w) /\ \A j \in Shelf(data_, w) : j < k => ~Unread(Meta(w, j))

IterStands(it) == it.cur # End => \E k \in Nat : it.cur = Id(k) /\ Stands(it.seq, k)

Position == IterStands(read_iter_)

\* What holds of the chunks in the ring whenever the reader takes a step.
ShelfInv(top) ==
    /\ IdsLast /\ BufferInv /\ PacketsInv /\ ~Scraping
    /\ WindowInv(top)

\* Of two chunks in the ring the older one has the id that GetReadIterForSequence
\* prefers.
LEMMA OlderIdFirst ==
  ASSUME NEW t \in Int, NEW j \in Int, NEW k \in Int, j < k, k <= t, t - j < kMaxChunkID
  PROVE  /\ Id(k) > Id(t) => Id(j) > Id(t) /\ Id(j) < Id(k)
         /\ Id(j) <= Id(t) /\ Id(k) <= Id(t) => Id(j) < Id(k)
  <1>1. PICK m \in Nat : m = kMaxChunkID
    BY BufferAssumption
  <1>2. PICK a, b, c : a = Id(j) /\ b = Id(k) /\ c = Id(t)
    OBVIOUS
  <1>3. /\ a \in 0 .. m /\ b \in 0 .. m /\ c \in 0 .. m
        /\ b = IF a + (k - j) <= m THEN a + (k - j) ELSE a + (k - j) - (m + 1)
        /\ c = IF b + (t - k) <= m THEN b + (t - k) ELSE b + (t - k) - (m + 1)
        /\ c = IF a + (t - j) <= m THEN a + (t - j) ELSE a + (t - j) - (m + 1)
    <2>1. k - j <= m /\ t - k <= m /\ t - j <= m /\ j <= k /\ j <= t
      BY <1>1
    <2>2. a \in 0 .. m /\ b = IF a + (k - j) <= m THEN a + (k - j) ELSE a + (k - j) - (m + 1)
      BY <1>1, <1>2, <2>1, IdOnward
    <2>3. b \in 0 .. m /\ c = IF b + (t - k) <= m THEN b + (t - k) ELSE b + (t - k) - (m + 1)
      BY <1>1, <1>2, <2>1, IdOnward
    <2>4. c = IF a + (t - j) <= m THEN a + (t - j) ELSE a + (t - j) - (m + 1)
      BY <1>1, <1>2, <2>1, IdOnward
    <2>5. c \in 0 .. m
      BY <1>1, <2>2, <2>4
    <2> QED BY <2>2, <2>3, <2>4, <2>5
  <1>4. t - j < m
    BY <1>1
  <1>5. b > c => a > c /\ a < b
    BY <1>1, <1>3, <1>4
  <1>6. a <= c /\ b <= c => a < b
    BY <1>1, <1>3, <1>4
  <1> QED BY <1>2, <1>5, <1>6

\* Reading a sequence begins with its oldest chunk.
LEMMA StartStands ==
  ASSUME NEW top, ShelfInv(top), NEW w \in SequencesInIndex
  PROVE  IterStands(GetReadIterForSequence(w))
  <1>1. /\ IdsLast /\ top \in [Writers -> Nat] /\ Window(data_, wptr_, top) /\ TopInv(top)
        /\ wptr_ \in 0 .. Size - 1 /\ IsRing(data_) /\ Tiles(data_, wptr_) /\ Matches(data_, index_)
        /\ RingInv /\ IsIndex(index_) /\ w \in Writers
    BY InvParts DEF ShelfInv, WindowInv, RingInv, SequencesInIndex
  <1>2. PICK last, above, from :
           /\ last = last_chunk_id_written_[w]
           /\ above = {c \in IdsOf(w) : c > last}
           /\ from = IF above # {} THEN above ELSE IdsOf(w)
    OBVIOUS
  <1>3. GetReadIterForSequence(w) = [seq |-> w, cur |-> Min(from)]
    BY <1>2 DEF GetReadIterForSequence
  <1>4. from # {} /\ from \subseteq IdsOf(w) /\ IdsOf(w) \subseteq ChunkID
    BY <1>2 DEF SequencesInIndex, IdsOf
  <1>5. from \in SUBSET Nat
    BY <1>4, BufferAssumption DEF ChunkID
  <1>6. PICK c \in from : c = Min(from) /\ \A b \in from : c <= b
    BY <1>4, <1>5, LeastElement
  <1>7. c \in IdsOf(w) /\ c \in Nat
    BY <1>4, <1>5, <1>6
  <1>8. PICK k \in Shelf(data_, w) : c = Id(k)
    BY <1>1, <1>7, EntryIsShelved DEF IdsOf
  <1>9. ASSUME NEW j \in Shelf(data_, w)
        PROVE  /\ j \in Nat /\ j # 0 /\ j <= top[w] /\ top[w] - j < kMaxChunkID
               /\ Id(j) \in IdsOf(w) /\ Id(j) \in Int
    <2>1. j \in Nat /\ j # 0 /\ j <= top[w] /\ top[w] - j < kMaxChunkID /\ <<w, Id(j)>> \in DOMAIN index_
      BY <1>1, <1>9, ShelfIs
    <2>2. Id(j) \in ChunkID /\ Id(j) \in Int
      BY <2>1, IdIsAnId, BufferAssumption DEF ChunkID
    <2> QED BY <2>1, <2>2 DEF IdsOf
  <1>10. PICK t \in Nat : t = top[w]
    BY <1>1
  <1>11. last = Id(t)
    BY <1>1, <1>2, <1>8, <1>9, <1>10 DEF TopInv
  <1>12. ASSUME NEW j \in Shelf(data_, w), j < k PROVE FALSE
    <2>1. /\ Id(k) > Id(t) => Id(j) > Id(t) /\ Id(j) < Id(k)
          /\ Id(j) <= Id(t) /\ Id(k) <= Id(t) => Id(j) < Id(k)
      BY <1>8, <1>9, <1>10, <1>12, OlderIdFirst
    <2>2. PICK a \in Int, b \in Int, l \in Int : a = Id(j) /\ b = Id(k) /\ l = Id(t)
      <3>1. Id(j) \in Int /\ Id(k) \in Int
        BY <1>8, <1>9
      <3>2. Id(t) \in ChunkID
        BY IdIsAnId
      <3>3. Id(t) \in Int
        BY <3>2, BufferAssumption DEF ChunkID
      <3> QED BY <3>1, <3>3
    <2>3. a \in IdsOf(w) /\ b \in IdsOf(w) /\ last = l /\ c = b
      BY <1>8, <1>9, <1>11, <1>12, <2>2
    <2>4. CASE above # {}
      <3>1. b > l
        BY <1>2, <1>6, <2>3, <2>4
      <3>2. a > l /\ a < b
        BY <2>1, <2>2, <3>1
      <3>3. a \in from
        BY <1>2, <2>3, <2>4, <3>2
      <3> QED BY <1>6, <2>3, <3>2, <3>3
    <2>5. CASE above = {}
      <3>1. a <= l /\ b <= l
        BY <1>2, <2>2, <2>3, <2>5
      <3>2. a < b
        BY <2>1, <2>2, <3>1
      <3>3. a \in from
        BY <1>2, <2>3, <2>5
      <3> QED BY <1>6, <2>3, <3>2, <3>3
    <2> QED BY <2>4, <2>5
  <1>13. k \in Nat /\ Stands(w, k)
    BY <1>8, <1>9, <1>12 DEF Stands
  <1>14. GetReadIterForSequence(w).seq = w /\ GetReadIterForSequence(w).cur = Id(k)
    BY <1>3, <1>6, <1>8
  <1> QED BY <1>13, <1>14 DEF IterStands

\* It goes on with the next one, if there is one.
LEMMA MovesToNext ==
  ASSUME NEW top, ShelfInv(top), NEW w \in Writers, NEW k \in Shelf(data_, w),
         MoveNext(w, Id(k)) # End
  PROVE  k < top[w] /\ k + 1 \in Shelf(data_, w) /\ MoveNext(w, Id(k)) = Id(k + 1)
  <1>1. top \in [Writers -> Nat] /\ TopInv(top)
    BY DEF ShelfInv, WindowInv
  <1>2. OnShelf(top, w, k)
    BY OnShelfIs DEF ShelfInv
  <1>3. k \in Nat \ {0} /\ k <= top[w] /\ top[w] \in Nat /\ k .. top[w] \subseteq Shelf(data_, w)
    BY <1>1, <1>2 DEF OnShelf
  <1>4. Id(k) # last_chunk_id_written_[w] /\ MoveNext(w, Id(k)) = NextId(Id(k))
    BY DEF MoveNext
  <1>5. k # top[w]
    BY <1>1, <1>3, <1>4 DEF TopInv
  <1>6. k + 1 \in k .. top[w]
    BY <1>3, <1>5
  <1> QED BY <1>3, <1>4, <1>5, <1>6, NextIdIs

\* The steps that read nothing.
LEMMA ReadsNothing ==
  ASSUME NEW top, Progress(top), Taken,
         UNCHANGED <<smb, data_, index_, reached, consumed, overwrite_policy_>>
  PROVE  Progress(top)' /\ Taken'
  <1>1. Progress(top)'
    BY DEF Progress, Shelf, Of, Unread, Meta, ReadOf
  <1>2. \A w \in Writers : LastRead(w)' = LastRead(w)
    BY DEF LastRead, Shelf, Of, Meta, ReadOf, LastPacket
  <1>3. ASSUME NEW w \in Writers PROVE TakenFrom(w)'
    <2>1. TakenFrom(w) /\ LastRead(w)' = LastRead(w)
      BY <1>2 DEF Taken
    <2>2. \A p : GivenUp(w, p)' <=> GivenUp(w, p)
      BY DEF GivenUp, Committed, Exists, LastPacket
    <2> QED BY <2>1, <2>2 DEF TakenFrom, Shelf, Of, Unread, Meta
  <1> QED BY <1>1, <1>3 DEF Taken

LEMMA IterStandsStill ==
  ASSUME NEW it, IterStands(it), UNCHANGED <<data_, index_>>
  PROVE  it.cur # End => \E k \in Nat : it.cur = Id(k) /\ Stands(it.seq, k)'
  BY DEF IterStands, Stands, Shelf, Of, Unread, Meta

LEMMA StandsNow ==
  ASSUME NEW it, read_iter_' = it, IterStands(it), UNCHANGED <<data_, index_>>
  PROVE  Position'
  BY IterStandsStill DEF Position, IterStands

LEMMA StandsNowhere ==
  ASSUME read_iter_'.cur = End
  PROVE  Position'
  BY DEF Position, IterStands

LEMMA EnterChunkStands ==
  ASSUME NEW top, ShelfInv(top), Reading, Position, EnterChunk
  PROVE  Position'
  <1>1. PICK later, moves, it :
           /\ later = {w \in SequencesInIndex : w > read_iter_.seq}
           /\ moves = (read_iter_.cur = End)
           /\ it = IF moves THEN GetReadIterForSequence(Min(later)) ELSE read_iter_
    OBVIOUS
  <1>2. /\ UNCHANGED <<data_, index_>>
        /\ \/ read_iter_' = read_iter_
           \/ /\ ~(moves /\ later = {})
              /\ read_iter_' = [it EXCEPT !.cur = End] \/ read_iter_' = it
    BY <1>1 DEF EnterChunk, ring
  <1>3. ASSUME ~(moves /\ later = {})
        PROVE  IterStands(it) /\ it \in [seq : Writers \cup {0}, cur : 0 .. End]
    <2>1. CASE moves
      <3>1. Min(later) \in SequencesInIndex
        BY <1>1, <1>3, <2>1, FirstSequence
      <3> QED BY <1>1, <2>1, <3>1, StartStands, SequenceStarts DEF Reading, IterIsSound
    <2>2. CASE ~moves
      BY <1>1, <2>2 DEF Reading, Position, IterIsSound
    <2> QED BY <2>1, <2>2
  <1>4. CASE read_iter_' = read_iter_
    BY <1>2, <1>4, StandsNow DEF Position
  <1>5. CASE ~(moves /\ later = {}) /\ read_iter_' = it
    BY <1>2, <1>3, <1>5, StandsNow
  <1>6. CASE ~(moves /\ later = {}) /\ read_iter_' = [it EXCEPT !.cur = End]
    <2>1. read_iter_'.cur = End
      BY <1>3, <1>6
    <2> QED BY <2>1, StandsNowhere
  <1> QED BY <1>2, <1>4, <1>5, <1>6

LEMMA NoMoreFragmentsStands ==
  ASSUME NEW top, ShelfInv(top), Reading, Position, NoMoreFragments
  PROVE  Position'
  <1>1. PICK w, c, n : w = read_iter_.seq /\ c = read_iter_.cur /\ n = MoveNext(w, c)
    OBVIOUS
  <1>2. /\ UNCHANGED <<data_, index_>> /\ read_iter_' = [read_iter_ EXCEPT !.cur = n]
        /\ ~Unread(CurMeta) /\ read_pc = "fragments"
    BY <1>1 DEF NoMoreFragments, LeaveRing
  <1>3. /\ w \in Writers /\ c # End /\ read_iter_ \in [seq : Writers \cup {0}, cur : 0 .. End]
    BY <1>1, <1>2, CurrentIs DEF Reading, IterIsSound
  <1>4. read_iter_'.seq = w /\ read_iter_'.cur = n
    BY <1>1, <1>2, <1>3
  <1>5. PICK k \in Nat : c = Id(k) /\ Stands(w, k)
    BY <1>1, <1>3 DEF Position, IterStands
  <1>6. ~Unread(Meta(w, k))
    BY <1>1, <1>2, <1>5 DEF CurMeta, CurKey, Meta
  <1>7. CASE n = End
    BY <1>4, <1>7, StandsNowhere
  <1>8. CASE n # End
    <2>1. k \in Shelf(data_, w) /\ n = MoveNext(w, Id(k))
      BY <1>1, <1>5 DEF Stands
    <2>2. k + 1 \in Shelf(data_, w) /\ n = Id(k + 1)
      BY <1>3, <1>8, <2>1, MovesToNext
    <2>3. ASSUME NEW j \in Shelf(data_, w), j < k + 1 PROVE ~Unread(Meta(w, j))
      <3>1. j \in Nat
        BY <1>3, <2>3, OnShelfIs DEF ShelfInv, OnShelf
      <3>2. j < k \/ j = k
        BY <2>3, <3>1
      <3> QED BY <1>5, <1>6, <2>3, <3>2 DEF Stands
    <2>4. Stands(w, k + 1)
      BY <2>2, <2>3 DEF Stands
    <2>5. IterStands(read_iter_') /\ k + 1 \in Nat
      BY <1>4, <2>2, <2>4 DEF IterStands
    <2> QED BY <1>2, <2>5, StandsNow
  <1> QED BY <1>7, <1>8

\* The reader is about to read fragment r + 1 of chunk k of w, c.
AtChunk(top, w, k, c, r) ==
    /\ w \in Writers /\ w = read_iter_.seq /\ k \in Shelf(data_, w) /\ Stands(w, k)
    /\ OnShelf(top, w, k) /\ c = smb[w][k] /\ r = ReadOf(w, k)
    /\ k \in Nat \ {0} /\ r \in Nat /\ r < c.n
    /\ reached[w] <= k /\ (k > reached[w] => r = 0) /\ (k = reached[w] => r >= 1)
    /\ CurKey = <<w, Id(k)>> /\ CurMeta = Meta(w, k) /\ NextSlice(CurKey) = <<k, r + 1>>

LEMMA AtSomeChunk ==
  ASSUME NEW top, ShelfInv(top), Reading, Position, Progress(top), read_pc = "fragments",
         Unread(CurMeta)
  PROVE  \E w, k, c, r : AtChunk(top, w, k, c, r)
  <1>1. PICK w : w = read_iter_.seq
    OBVIOUS
  <1>2. w \in Writers /\ read_iter_.cur # End
    BY <1>1, CurrentIs DEF Reading
  <1>3. PICK k \in Nat : read_iter_.cur = Id(k) /\ Stands(w, k)
    BY <1>1, <1>2 DEF Position, IterStands
  <1>4. PICK c, r : c = smb[w][k] /\ r = ReadOf(w, k)
    OBVIOUS
  <1>5. k \in Shelf(data_, w) /\ CurKey = <<w, Id(k)>> /\ CurMeta = Meta(w, k)
    BY <1>1, <1>3 DEF Stands, CurKey, CurMeta, Meta
  <1>6. OnShelf(top, w, k)
    BY <1>2, <1>5, OnShelfIs DEF ShelfInv
  <1>7. /\ k \in Nat \ {0} /\ c.n \in Nat /\ r \in Int /\ Meta(w, k).num_fragments = c.n
        /\ data_[Meta(w, k).record_off].chunk = k
    BY <1>4, <1>6 DEF OnShelf, Chunks, Metas, ReadOf
  <1>8. r < c.n
    BY <1>4, <1>5, <1>7 DEF Unread, ReadOf
  <1>9. /\ k < reached[w] => ~Unread(Meta(w, k))
        /\ k = reached[w] => r >= 1
        /\ k > reached[w] => r = 0
    BY <1>2, <1>4, <1>5 DEF Progress
  <1>10. reached[w] \in Nat
    BY <1>2 DEF Reading
  <1>11. ~(k < reached[w])
    BY <1>5, <1>9
  <1>12. reached[w] <= k /\ r \in Nat
    BY <1>7, <1>9, <1>10, <1>11
  <1>13. NextSlice(CurKey) = <<k, r + 1>>
    BY <1>4, <1>5, <1>7 DEF NextSlice, Meta, ReadOf
  <1> QED BY <1>1, <1>2, <1>3, <1>4, <1>5, <1>6, <1>7, <1>8, <1>9, <1>12, <1>13 DEF AtChunk

\* The chunks of a writer, one before the other.
LEMMA EarlierPackets ==
  ASSUME ChunkTypes, PacketsInv, NEW w \in Writers, NEW j \in Nat, NEW k \in Nat, j < k,
         Exists(w, j), Exists(w, k)
  PROVE  /\ LastPacket(smb[w][j]) \in Int /\ smb[w][k].first \in Int
         /\ LastPacket(smb[w][j]) <= smb[w][k].first
         /\ ~smb[w][k].from => LastPacket(smb[w][j]) < smb[w][k].first
         /\ k = j + 1 => smb[w][k].from = smb[w][j].on
                         /\ (~smb[w][k].from => smb[w][k].first = LastPacket(smb[w][j]) + 1)
         /\ RunsThrough(smb[w], j, k) => smb[w][k].first = LastPacket(smb[w][j])
  <1>1. PICK q : q = smb[w]
    OBVIOUS
  <1>2. /\ q \in Seq(Chunks) /\ Packets(q) /\ j \in 1 .. Len(q) /\ k \in 1 .. Len(q) /\ Len(q) \in Nat
    BY <1>1, ChunkType, LenProperties DEF ChunkTypes, PacketsInv, PacketsFollow, Exists
  <1>3. PICK i \in 1 .. Len(q) - 1 : i = k - 1
    BY <1>2
  <1>4. i \in 1 .. Len(q) /\ i + 1 = k /\ q[i] \in Chunks /\ q[j] \in Chunks /\ q[k] \in Chunks
    BY <1>2, <1>3, ElementOfSeq
  <1>5. /\ LastPacket(q[j]) \in Int /\ q[k].first \in Int /\ LastPacket(q[i]) \in Int
        /\ q[i].first \in Int /\ q[i].first <= LastPacket(q[i]) /\ q[k].from \in BOOLEAN
        /\ q[i].on \in BOOLEAN
    BY <1>2, <1>4, LastPacketIs DEF Packets, Chunks
  <1>6. Follows(q[i], q[k])
    BY <1>2, <1>3, <1>4 DEF Packets
  <1>7. /\ LastPacket(q[j]) <= q[k].first
        /\ RunsThrough(q, j, k) => q[k].first = LastPacket(q[j])
    BY <1>2 DEF Packets
  <1>8. q[k].from = q[i].on /\ (~q[k].from => q[k].first = LastPacket(q[i]) + 1)
    BY <1>5, <1>6 DEF Follows
  <1>9. ~q[k].from => LastPacket(q[j]) < q[k].first
    <2>1. CASE j = i
      BY <1>5, <1>8, <2>1
    <2>2. CASE j # i
      <3>1. j < i
        BY <1>3, <2>2
      <3>2. LastPacket(q[j]) <= q[i].first
        BY <1>2, <1>4, <3>1 DEF Packets
      <3> QED BY <1>5, <1>8, <3>2
    <2> QED BY <2>1, <2>2
  <1>10. k = j + 1 => i = j
    BY <1>3
  <1> QED BY <1>1, <1>5, <1>7, <1>8, <1>9, <1>10

LEMMA FirstPacket ==
  ASSUME ChunkTypes, PacketsInv, NEW w \in Writers, NEW k \in Nat, Exists(w, k)
  PROVE  smb[w][k].first \in Int /\ smb[w][k].first >= 1
         /\ (k = 1 => smb[w][k].first = 1 /\ ~smb[w][k].from)
  <1>1. PICK q : q = smb[w]
    OBVIOUS
  <1>2. /\ q \in Seq(Chunks) /\ Packets(q) /\ k \in 1 .. Len(q) /\ Len(q) \in Nat
    BY <1>1, ChunkType, LenProperties DEF ChunkTypes, PacketsInv, PacketsFollow, Exists
  <1>3. q[1] \in Chunks /\ q[k] \in Chunks /\ 1 \in 1 .. Len(q)
    BY <1>2, ElementOfSeq
  <1>4. /\ q[1].first = 1 /\ ~q[1].from /\ ChunkIsSound(q[1])
    BY <1>2, <1>3 DEF Packets
  <1>5. LastPacket(q[1]) \in Int /\ 1 <= LastPacket(q[1]) /\ q[k].first \in Int
    BY <1>3, <1>4, LastPacketIs
  <1>6. k # 1 => LastPacket(q[1]) <= q[k].first
    BY <1>2, <1>3 DEF Packets
  <1> QED BY <1>1, <1>4, <1>5, <1>6

\* The next packet is behind those returned, with kDiscard right behind them.
LEMMA NextPacketIsNew ==
  ASSUME NEW top, ShelfInv(top), Progress(top), Taken, consumed \in [Writers -> Int],
         NEW w, NEW k, NEW c, NEW r, AtChunk(top, w, k, c, r),
         NEW m \in Int, NEW p \in Int, m = consumed[w], p = c.first + r
  PROVE  /\ r >= 1 \/ ~c.from =>
               /\ m < p
               /\ overwrite_policy_ = "kDiscard" => \A i \in m + 1 .. p - 1 : GivenUp(w, i)
         /\ r = 0 /\ c.from => m <= p /\ overwrite_policy_ # "kDiscard"
  <1>1. /\ ChunkTypes /\ PacketsInv /\ OnlyCommitted /\ ~Scraping /\ reached \in [Writers -> Nat]
        /\ top \in [Writers -> Nat]
    BY InvParts DEF ShelfInv, WindowInv
  <1>2. /\ w \in Writers /\ k \in Shelf(data_, w) /\ c = smb[w][k] /\ r = ReadOf(w, k)
        /\ k \in Nat \ {0} /\ r \in Nat /\ r < c.n /\ k <= top[w]
        /\ reached[w] <= k /\ (k > reached[w] => r = 0) /\ (k = reached[w] => r >= 1)
        /\ Exists(w, k) /\ c \in Chunks /\ ChunkIsSound(c)
    BY DEF AtChunk, OnShelf, Committed
  <1>3. /\ c.first \in Int /\ c.n \in Nat /\ LastPacket(c) \in Int /\ c.from \in BOOLEAN
        /\ c.first <= LastPacket(c) /\ c.first + c.n - 2 <= LastPacket(c)
    BY <1>2, LastPacketIs DEF Chunks
  <1>4. c.first >= 1 /\ (k = 1 => c.first = 1 /\ ~c.from)
    BY <1>1, <1>2, FirstPacket
  <1>5. PICK e \in Nat : e = reached[w]
    BY <1>1, <1>2
  <1>50. PICK l, d : l = LastRead(w) /\ d = smb[w][e]
    OBVIOUS
  <1>6. /\ e = 0 => m = 0
        /\ e # 0 => m <= l
        /\ overwrite_policy_ = "kDiscard" /\ e # 0 =>
              /\ \A i \in m + 1 .. l : GivenUp(w, i)
              /\ d.on => e \in Shelf(data_, w) /\ Unread(Meta(w, e))
    BY <1>2, <1>5, <1>50 DEF Taken, TakenFrom
  \* With kDiscard the chunk is the next one.
  <1>7. ASSUME overwrite_policy_ = "kDiscard", e < k PROVE k = e + 1
    <2>1. e + 1 .. top[w] \subseteq Shelf(data_, w)
      BY <1>2, <1>5, <1>50, <1>7 DEF Progress
    <2>2. e + 1 \in Shelf(data_, w) /\ top[w] \in Nat
      BY <1>1, <1>2, <1>7, <2>1
    <2>3. ReadOf(w, e + 1) = 0
      BY <1>2, <1>5, <1>50, <2>2 DEF Progress
    <2>4. OnShelf(top, w, e + 1)
      BY <1>2, <2>2, OnShelfIs DEF ShelfInv
    <2>5. Meta(w, e + 1).num_fragments >= 1 /\ Meta(w, e + 1).num_fragments \in Int
      BY <2>4 DEF OnShelf, ChunkIsSound, Metas
    <2>6. Unread(Meta(w, e + 1))
      BY <2>3, <2>5 DEF Unread, ReadOf
    <2>7. ~(e + 1 < k)
      BY <2>2, <2>6 DEF AtChunk, Stands
    <2> QED BY <1>2, <1>7, <2>7
  <1>8. CASE e = k
    <2>1. r >= 1 /\ d = c /\ e # 0
      BY <1>2, <1>5, <1>50, <1>8
    <2>2. c.first + r - 1 <= LastPacket(c)
      BY <1>2, <1>3
    <2>3. l = IF c.first + r - 1 < LastPacket(c) THEN c.first + r - 1 ELSE LastPacket(c)
      BY <1>2, <1>5, <1>50, <1>8, <2>1 DEF LastRead
    <2>4. l = c.first + r - 1
      BY <1>2, <1>3, <2>2, <2>3
    <2> QED BY <1>2, <1>3, <1>5, <1>50, <1>6, <2>1, <2>4
  <1>9. CASE e < k /\ e = 0
    <2>1. r = 0 /\ m = 0
      BY <1>2, <1>5, <1>50, <1>6, <1>9
    <2>2. overwrite_policy_ = "kDiscard" => k = 1
      BY <1>7, <1>9
    <2>3. overwrite_policy_ = "kDiscard" => c.first = 1 /\ ~c.from
      BY <1>4, <2>2
    <2>4. 0 < c.first + 0 /\ 0 <= c.first
      BY <1>3, <1>4
    <2>5. ASSUME overwrite_policy_ = "kDiscard", NEW i \in m + 1 .. p - 1 PROVE FALSE
      BY <2>1, <2>3, <2>5
    <2> QED BY <1>5, <1>50, <2>1, <2>3, <2>4, <2>5
  <1>10. CASE e < k /\ e # 0
    <2>1. r = 0 /\ m <= l
      BY <1>2, <1>5, <1>50, <1>6, <1>10
    <2>2. Committed(w, e) /\ Exists(w, e)
      BY <1>1, <1>2, <1>5, <1>50, <1>10 DEF OnlyCommitted, Committed
    <2>3. /\ LastPacket(d) \in Int /\ LastPacket(d) <= c.first
          /\ ~c.from => LastPacket(d) < c.first
          /\ k = e + 1 => c.from = d.on /\ (~c.from => c.first = LastPacket(d) + 1)
      BY <1>1, <1>2, <1>5, <1>50, <1>10, <2>2, EarlierPackets
    <2>4. l \in Int /\ l <= LastPacket(d) /\ (e \notin Shelf(data_, w) => l = LastPacket(d))
      <3>1. CASE e \in Shelf(data_, w)
        <4>1. OnShelf(top, w, e)
          BY <1>2, <3>1, OnShelfIs DEF ShelfInv
        <4>2. ReadOf(w, e) \in Int /\ d.first \in Int
          BY <1>5, <1>50, <4>1 DEF OnShelf, ReadOf, Metas, Chunks
        <4> QED BY <1>5, <1>50, <2>3, <3>1, <4>2 DEF LastRead
      <3>2. CASE e \notin Shelf(data_, w)
        BY <1>5, <1>50, <2>3, <3>2 DEF LastRead
      <3> QED BY <3>1, <3>2
    <2>5. ASSUME overwrite_policy_ = "kDiscard"
          PROVE  ~c.from /\ l = LastPacket(d) /\ c.first = LastPacket(d) + 1
      <3>1. k = e + 1
        BY <1>7, <1>10, <2>5
      <3>2. e \in Shelf(data_, w) => ~Unread(Meta(w, e))
        BY <1>10 DEF AtChunk, Stands
      <3>3. ~d.on
        BY <1>6, <1>10, <2>5, <3>2
      <3>4. ~c.from /\ c.first = LastPacket(d) + 1
        BY <2>3, <3>1, <3>3
      <3>5. ASSUME e \in Shelf(data_, w) PROVE l = LastPacket(d)
        <4>1. OnShelf(top, w, e)
          BY <1>2, <3>5, OnShelfIs DEF ShelfInv
        <4>2. /\ ReadOf(w, e) \in Int /\ d \in Chunks /\ d.first \in Int /\ d.n \in Nat
              /\ Meta(w, e).num_fragments = d.n
          BY <1>5, <1>50, <4>1 DEF OnShelf, ReadOf, Metas, Chunks
        <4>3. ReadOf(w, e) >= d.n
          BY <3>2, <3>5, <4>2 DEF Unread, ReadOf
        <4>4. LastPacket(d) <= d.first + d.n - 1
          BY <4>2, LastPacketIs DEF Chunks
        <4>5. ~(d.first + ReadOf(w, e) - 1 < LastPacket(d))
          BY <2>3, <4>2, <4>3, <4>4
        <4> QED BY <1>5, <1>50, <4>5 DEF LastRead
      <3> QED BY <2>4, <3>4, <3>5
    <2>6. m < c.first \/ c.from
      BY <1>3, <2>1, <2>3, <2>4
    <2>7. m <= c.first
      BY <1>3, <2>1, <2>3, <2>4
    <2>8. ASSUME overwrite_policy_ = "kDiscard", NEW i \in m + 1 .. p - 1
          PROVE  GivenUp(w, i)
      <3>1. i \in m + 1 .. l
        BY <1>3, <2>1, <2>4, <2>5, <2>8
      <3> QED BY <1>6, <1>10, <2>8, <3>1
    <2> QED BY <1>3, <1>5, <1>50, <2>1, <2>5, <2>6, <2>7, <2>8
  <1> QED BY <1>2, <1>5, <1>50, <1>8, <1>9, <1>10

\* The reader has read n fragments of chunk f of w, all of the earlier ones, and
\* nothing of the later ones; l is the packet that takes it to.
Advances(w, f, n, l) ==
    /\ f \in Shelf(data_, w) /\ f \in Nat \ {0} /\ f >= reached[w]
    /\ n \in Int /\ n >= 1 /\ n <= smb[w][f].n
    /\ reached' = [reached EXCEPT ![w] = f]
    /\ \A j \in Shelf(data_, w) :
          /\ Meta(w, j)'.num_fragments = Meta(w, j).num_fragments
          /\ j < f => ~Unread(Meta(w, j)')
          /\ j = f => Meta(w, j)'.num_fragments_read = n
          /\ j > f => Meta(w, j)' = Meta(w, j)
    /\ \A v \in Writers \ {w} :
          /\ consumed'[v] = consumed[v]
          /\ \A j \in Shelf(data_, v) : Meta(v, j)' = Meta(v, j)
    /\ LET c == smb[w][f]
           p == c.first + n - 1
       IN  l = IF p < LastPacket(c) THEN p ELSE LastPacket(c)
    /\ consumed'[w] <= l
    /\ overwrite_policy_ = "kDiscard" =>
          /\ \A p \in consumed'[w] + 1 .. l : GivenUp(w, p)
          /\ smb[w][f].on => n < smb[w][f].n

LEMMA ReaderAdvances ==
  ASSUME NEW top, ShelfInv(top), Progress(top), Taken, NEW w \in Writers, NEW f, NEW n, NEW l,
         Advances(w, f, n, l), UNCHANGED <<smb, data_, overwrite_policy_>>
  PROVE  Progress(top)' /\ Taken'
  <1>1. top \in [Writers -> Nat] /\ reached \in [Writers -> Nat]
    BY InvParts DEF ShelfInv, WindowInv
  <1>2. /\ f \in Shelf(data_, w) /\ f \in Nat \ {0} /\ f >= reached[w]
        /\ n \in Int /\ n >= 1 /\ n <= smb[w][f].n
        /\ reached' = [reached EXCEPT ![w] = f]
    BY DEF Advances
  <1>3. \A j \in Shelf(data_, w) :
           /\ Meta(w, j)'.num_fragments = Meta(w, j).num_fragments
           /\ j < f => ~Unread(Meta(w, j)')
           /\ j = f => Meta(w, j)'.num_fragments_read = n
           /\ j > f => Meta(w, j)' = Meta(w, j)
    BY DEF Advances
  <1>4. \A v \in Writers \ {w} :
           /\ consumed'[v] = consumed[v]
           /\ \A j \in Shelf(data_, v) : Meta(v, j)' = Meta(v, j)
    BY DEF Advances
  <1>5. /\ reached'[w] = f /\ \A v \in Writers : v # w => reached'[v] = reached[v]
        /\ \A v : Shelf(data_', v) = Shelf(data_, v)
    BY <1>1, <1>2
  <1>6. OnShelf(top, w, f)
    BY <1>2, OnShelfIs DEF ShelfInv
  <1>7. /\ f <= top[w] /\ f .. top[w] \subseteq Shelf(data_, w)
        /\ Meta(w, f).num_fragments = smb[w][f].n /\ smb[w][f] \in Chunks
        /\ top[w] \in Nat
    BY <1>1, <1>6 DEF OnShelf
  <1>8. ASSUME NEW v \in Writers
        PROVE  /\ reached'[v] <= top[v]
               /\ overwrite_policy_ = "kDiscard" => reached'[v] + 1 .. top[v] \subseteq Shelf(data_, v)
               /\ \A k \in Shelf(data_, v) :
                     /\ k < reached'[v] => ~Unread(Meta(v, k)')
                     /\ k = reached'[v] => /\ Meta(v, k)'.num_fragments_read >= 1
                                           /\ Meta(v, k)'.num_fragments_read <= Meta(v, k)'.num_fragments
                     /\ k > reached'[v] => Meta(v, k)'.num_fragments_read = 0
    <2>1. CASE v # w
      BY <1>4, <1>5, <2>1 DEF Progress, ReadOf
    <2>2. CASE v = w
      <3>1. f + 1 .. top[w] \subseteq Shelf(data_, w)
        BY <1>2, <1>7
      <3>2. ASSUME NEW k \in Shelf(data_, w)
            PROVE  /\ k < f => ~Unread(Meta(w, k)')
                   /\ k = f => /\ Meta(w, k)'.num_fragments_read >= 1
                               /\ Meta(w, k)'.num_fragments_read <= Meta(w, k)'.num_fragments
                   /\ k > f => Meta(w, k)'.num_fragments_read = 0
        <4>1. CASE k = f
          <5>1. /\ Meta(w, k)'.num_fragments = Meta(w, k).num_fragments
                /\ Meta(w, k)'.num_fragments_read = n
            BY <1>3, <4>1
          <5> QED BY <1>2, <1>7, <4>1, <5>1
        <4>2. CASE k # f
          <5>1. k < f => ~Unread(Meta(w, k)')
            BY <1>3
          <5>2. ASSUME k > f PROVE Meta(w, k)'.num_fragments_read = 0
            <6>1. k > reached[w]
              <7>1. OnShelf(top, w, k)
                BY <3>2, OnShelfIs DEF ShelfInv
              <7>2. k \in Nat /\ reached[w] \in Nat
                BY <1>1, <7>1 DEF OnShelf
              <7> QED BY <1>2, <5>2, <7>2
            <6> QED BY <1>3, <5>2, <6>1 DEF Progress, ReadOf
          <5> QED BY <4>2, <5>1, <5>2
        <4> QED BY <4>1, <4>2
      <3> QED BY <1>5, <1>7, <2>2, <3>1, <3>2
    <2> QED BY <2>1, <2>2
  <1>9. Progress(top)'
    BY <1>5, <1>8 DEF Progress, ReadOf
  <1>10. \A v : \A p : GivenUp(v, p)' <=> GivenUp(v, p)
    BY DEF GivenUp, Committed, Exists, LastPacket
  <1>11. ASSUME NEW v \in Writers, v # w PROVE TakenFrom(v)'
    <2>1. reached'[v] = reached[v] /\ consumed'[v] = consumed[v]
      BY <1>4, <1>5, <1>11
    <2>2. reached[v] \in Shelf(data_, v) => Meta(v, reached[v])' = Meta(v, reached[v])
      BY <1>4, <1>5, <1>11
    <2>3. LastRead(v)' = LastRead(v)
      <3>1. LastRead(v)' = LET c == smb[v][reached[v]]
                               p == c.first + Meta(v, reached[v])'.num_fragments_read - 1
                           IN  IF reached[v] \in Shelf(data_, v) /\ p < LastPacket(c)
                               THEN p ELSE LastPacket(c)
        BY <2>1, <1>5 DEF LastRead, ReadOf, LastPacket, Meta
      <3> QED BY <2>2, <3>1 DEF LastRead, ReadOf
    <2>4. TakenFrom(v)
      BY DEF Taken
    <2>5. ASSUME overwrite_policy_ = "kDiscard", reached[v] # 0, smb[v][reached[v]].on
          PROVE  reached[v] \in Shelf(data_, v) /\ Unread(Meta(v, reached[v])')
      BY <2>2, <2>4, <2>5 DEF TakenFrom
    <2> QED BY <1>5, <1>10, <2>1, <2>3, <2>4, <2>5 DEF TakenFrom, Meta, Unread
  <1>12. TakenFrom(w)'
    <2>1. PICK c, p : c = smb[w][f] /\ p = c.first + n - 1
      OBVIOUS
    <2>2. /\ l = IF p < LastPacket(c) THEN p ELSE LastPacket(c)
          /\ consumed'[w] <= l
          /\ overwrite_policy_ = "kDiscard" =>
                (\A i \in consumed'[w] + 1 .. l : GivenUp(w, i)) /\ (c.on => n < c.n)
      BY <2>1 DEF Advances
    <2>3. Meta(w, f)'.num_fragments_read = n /\ Meta(w, f)'.num_fragments = c.n
      BY <1>2, <1>3, <1>7, <2>1
    <2>4. LastRead(w)' = IF f \in Shelf(data_, w) /\ p < LastPacket(c) THEN p ELSE LastPacket(c)
      BY <1>5, <2>1, <2>3 DEF LastRead, ReadOf, LastPacket, Meta
    <2>5. LastRead(w)' = l
      BY <1>2, <2>2, <2>4
    <2>6. ASSUME overwrite_policy_ = "kDiscard", smb'[w][f].on
          PROVE  f \in Shelf(data_', w) /\ Unread(Meta(w, f)')
      BY <1>2, <1>5, <2>1, <2>2, <2>3, <2>6 DEF Unread
    <2>7. \A i \in consumed'[w] + 1 .. l : overwrite_policy_ = "kDiscard" => GivenUp(w, i)'
      BY <1>10, <2>2
    <2> QED BY <1>2, <1>5, <2>2, <2>5, <2>6, <2>7 DEF TakenFrom, Meta, Unread
  <1> QED BY <1>9, <1>11, <1>12 DEF Taken

\* A packet that is returned is the next one of its writer.
LEMMA ReturnsInOrder ==
  ASSUME NEW top, ShelfInv(top), NEW w, NEW k, NEW c, NEW r, AtChunk(top, w, k, c, r),
         NEW slices, slices[1] = <<k, r + 1>>, ReturnPacket(slices), UNCHANGED <<smb, overwrite_policy_>>,
         consumed \in [Writers -> Int], NEW m \in Int, NEW l \in Int,
         m = consumed[w], l = c.first + r, m < l,
         overwrite_policy_ = "kDiscard" => \A p \in m + 1 .. l - 1 : GivenUp(w, p)
  PROVE  /\ ReadInOrder' /\ NothingLostBefore'
         /\ consumed' = [consumed EXCEPT ![w] = l]
  <1>1. /\ w \in Writers /\ w = read_iter_.seq /\ c = smb[w][k] /\ c \in Chunks /\ r \in Nat
        /\ ChunkTypes
    BY InvParts DEF AtChunk, OnShelf, ShelfInv
  <1>2. /\ slices[1][1] = k /\ slices[1][2] = r + 1
    OBVIOUS
  <1>3. c.first + (r + 1) - 1 = l
    BY <1>1 DEF Chunks
  <1>4. /\ returned' = [writer |-> w, slices |-> slices,
                        dropped |-> previous_packet_dropped, before |-> m]
        /\ consumed' = [consumed EXCEPT ![w] = c.first + (r + 1) - 1]
    BY <1>1, <1>2 DEF ReturnPacket
  <1>5. ReturnedPacket' = l
    <2>1. /\ returned'.writer = w /\ returned'.slices = slices
      BY <1>4
    <2>2. ReturnedPacket' = smb'[w][k].first + (r + 1) - 1
      BY <1>2, <2>1 DEF ReturnedPacket, PacketOf
    <2> QED BY <1>1, <1>3, <2>2
  <1>6. returned'.before = m /\ returned'.writer = w
    BY <1>1, <1>4
  <1>7. ReadInOrder'
    BY <1>5, <1>6 DEF ReadInOrder
  <1>8. ASSUME overwrite_policy_ = "kDiscard", NEW p \in m + 1 .. l - 1
        PROVE  \E j \in ChunksOf(w, p) : smb[w][j].bad /\ LastPacket(smb[w][j]) = p
    <2>1. PICK j \in Nat : Committed(w, j) /\ smb[w][j].bad /\ LastPacket(smb[w][j]) = p
      BY <1>8 DEF GivenUp
    <2>2. j \in DOMAIN smb[w] /\ smb[w][j] \in Chunks /\ j \in 1 .. Len(smb[w])
      BY <1>1, <2>1, ChunkType DEF Committed, Exists
    <2>3. ChunkIsSound(smb[w][j])
      BY <1>1, <2>2 DEF ShelfInv, PacketsInv, PacketsFollow, Packets
    <2>4. smb[w][j].first <= p /\ p <= LastPacket(smb[w][j])
      BY <2>1, <2>2, <2>3, LastPacketIs
    <2> QED BY <2>1, <2>2, <2>4 DEF ChunksOf
  <1>9. PICK packet, before, v : /\ packet = ReturnedPacket' /\ before = returned'.before
                                 /\ v = returned'.writer
    OBVIOUS
  <1>10. v = w /\ before = m /\ packet = l
    BY <1>5, <1>6, <1>9
  <1>11. NothingLostBefore'
    <2> SUFFICES ASSUME overwrite_policy_' = "kDiscard", NEW p \in before + 1 .. packet - 1
                 PROVE  \E j \in ChunksOf(v, p)' : smb'[v][j].bad /\ LastPacket(smb'[v][j]) = p
      BY <1>9 DEF NothingLostBefore, ChunksOf, LastPacket
    <2>1. overwrite_policy_ = "kDiscard"
      OBVIOUS
    <2>2. p \in m + 1 .. l - 1
      BY <1>10
    <2>3. PICK j \in ChunksOf(w, p) : smb[w][j].bad /\ LastPacket(smb[w][j]) = p
      BY <1>8, <2>1, <2>2
    <2>4. j \in ChunksOf(v, p)' /\ smb'[v][j].bad /\ LastPacket(smb'[v][j]) = p
      BY <1>10, <2>3 DEF ChunksOf, LastPacket
    <2> QED BY <2>4
  <1> QED BY <1>3, <1>4, <1>7, <1>11

\* No two chunks in the ring have the same key.
LEMMA SameKey ==
  ASSUME NEW top, ShelfInv(top), NEW v \in Writers, NEW j \in Shelf(data_, v),
         NEW w \in Writers, NEW k \in Shelf(data_, w), <<v, Id(j)>> = <<w, Id(k)>>
  PROVE  v = w /\ j = k
  <1>1. /\ IdsLast /\ top \in [Writers -> Nat] /\ Window(data_, wptr_, top)
        /\ wptr_ \in 0 .. Size - 1 /\ IsRing(data_) /\ Tiles(data_, wptr_) /\ Matches(data_, index_)
    BY InvParts DEF ShelfInv, WindowInv, RingInv
  <1>2. v = w /\ Id(j) = Id(k)
    OBVIOUS
  <1>3. ASSUME NEW i \in Shelf(data_, w)
        PROVE  i \in Nat /\ i <= top[w] /\ top[w] - i < kMaxChunkID
    BY ONLY <1>1, w \in Writers, i \in Shelf(data_, w), ShelfIs
  <1>4. /\ j \in Nat /\ j <= top[w] /\ top[w] - j < kMaxChunkID
        /\ k \in Nat /\ k <= top[w] /\ top[w] - k < kMaxChunkID
    BY <1>2, <1>3
  <1>5. PICK t \in Int : t = top[w]
    BY <1>1
  <1> QED BY <1>2, <1>4, <1>5, ShelvedApart

LEMMA ReachedNow ==
  ASSUME reached \in [Writers -> Nat], NEW w \in Writers, NEW k \in Nat, reached[w] <= k,
         Reached(w, k)
  PROVE  reached' = [reached EXCEPT ![w] = k]
  <1>0. PICK r \in Nat : r = reached[w]
    OBVIOUS
  <1>1. PICK S : r = reached[w] /\ S = {r, k}
    BY <1>0
  <1>2. PICK m \in S : m = Max(S) /\ \A x \in S : x <= m
    <2>1. S \in SUBSET Nat /\ S # {} /\ k \in Nat /\ \A x \in S : x <= k
      BY <1>1
    <2> QED BY <2>1, GreatestElement
  <1>3. m = k
    BY <1>0, <1>1, <1>2
  <1> QED BY <1>1, <1>2, <1>3 DEF Reached

LEMMA AdvancesStands ==
  ASSUME NEW w, NEW f, NEW n, NEW l, Advances(w, f, n, l), UNCHANGED data_,
         read_iter_'.seq = w, read_iter_'.cur = Id(f)
  PROVE  Position'
  <1>1. /\ f \in Shelf(data_, w) /\ f \in Nat
        /\ \A j \in Shelf(data_, w) : j < f => ~Unread(Meta(w, j)')
    BY DEF Advances
  <1>2. Stands(w, f)'
    BY <1>1 DEF Stands, Shelf, Of, Meta, Unread
  <1>3. PICK it : it = read_iter_'
    OBVIOUS
  <1>4. it.cur # End => \E k \in Nat : it.cur = Id(k) /\ Stands(it.seq, k)'
    BY <1>1, <1>2, <1>3
  <1> QED BY <1>3, <1>4 DEF Position, IterStands

\* A fragment of the current chunk is taken.
LEMMA FragmentAdvances ==
  ASSUME NEW top, ShelfInv(top), NEW w, NEW k, NEW c, NEW r, AtChunk(top, w, k, c, r),
         reached \in [Writers -> Nat],
         NEW meta, index_' = [index_ EXCEPT ![CurKey] = meta], Reached(w, k),
         meta.num_fragments = CurMeta.num_fragments, meta.num_fragments_read = r + 1,
         NEW l, l = IF c.first + (r + 1) - 1 < LastPacket(c) THEN c.first + (r + 1) - 1 ELSE LastPacket(c),
         \A v \in Writers \ {w} : consumed'[v] = consumed[v],
         consumed'[w] <= l,
         overwrite_policy_ = "kDiscard" =>
             (\A p \in consumed'[w] + 1 .. l : GivenUp(w, p)) /\ (c.on => r + 1 < c.n)
  PROVE  Advances(w, k, r + 1, l)
  <1>1. /\ w \in Writers /\ k \in Shelf(data_, w) /\ Stands(w, k) /\ k \in Nat \ {0}
        /\ reached[w] <= k /\ c = smb[w][k] /\ c.n \in Nat /\ r \in Nat /\ r < c.n
        /\ CurKey = <<w, Id(k)>> /\ CurMeta = Meta(w, k) /\ CurKey \in DOMAIN index_
    BY DEF AtChunk, OnShelf, Chunks
  <1>2. reached' = [reached EXCEPT ![w] = k]
    BY <1>1, ReachedNow
  <1>3. ASSUME NEW v \in Writers, NEW j \in Shelf(data_, v), v # w \/ j # k
        PROVE  Meta(v, j)' = Meta(v, j)
    <2>1. <<v, Id(j)>> # <<w, Id(k)>>
      BY <1>1, <1>3, SameKey
    <2>2. <<v, Id(j)>> # CurKey
      BY <1>1, <2>1
    <2> QED BY <2>2 DEF Meta
  <1>4. Meta(w, k)' = meta
    BY <1>1 DEF Meta
  <1>5. \A j \in Shelf(data_, w) :
           /\ Meta(w, j)'.num_fragments = Meta(w, j).num_fragments
           /\ j < k => ~Unread(Meta(w, j)')
           /\ j = k => Meta(w, j)'.num_fragments_read = r + 1
           /\ j > k => Meta(w, j)' = Meta(w, j)
    <2> SUFFICES ASSUME NEW j \in Shelf(data_, w)
                 PROVE  /\ Meta(w, j)'.num_fragments = Meta(w, j).num_fragments
                        /\ j < k => ~Unread(Meta(w, j)')
                        /\ j = k => Meta(w, j)'.num_fragments_read = r + 1
                        /\ j > k => Meta(w, j)' = Meta(w, j)
      OBVIOUS
    <2>1. CASE j = k
      BY <1>1, <1>4, <2>1
    <2>2. CASE j # k
      BY <1>1, <1>3, <2>2 DEF Stands
    <2> QED BY <2>1, <2>2
  <1>6. \A v \in Writers \ {w} :
           /\ consumed'[v] = consumed[v]
           /\ \A j \in Shelf(data_, v) : Meta(v, j)' = Meta(v, j)
    BY <1>3
  <1>7. r + 1 \in Int /\ r + 1 >= 1 /\ r + 1 <= c.n
    BY <1>1
  <1> QED BY <1>1, <1>2, <1>5, <1>6, <1>7 DEF Advances

\* How far the reader is, in all.
Reader(top) == Progress(top) /\ Taken /\ Position /\ consumed \in [Writers -> Int]

InOrder == ReadInOrder /\ NothingLostBefore

LEMMA NothingReturned ==
  ASSUME read_pc' # "returned"
  PROVE  InOrder'
  BY DEF InOrder, ReadInOrder, NothingLostBefore

\* What a step that takes a fragment of chunk k comes to.
StepsOn(top) == Progress(top)' /\ Taken' /\ Position' /\ consumed' \in [Writers -> Int] /\ InOrder'

LEMMA FragmentStepsOn ==
  ASSUME NEW top, ShelfInv(top), Progress(top), Taken, consumed \in [Writers -> Int],
         NEW w, NEW k, NEW n, NEW l, Advances(w, k, n, l),
         UNCHANGED <<smb, data_, overwrite_policy_>>,
         read_iter_'.seq = w, read_iter_'.cur = Id(k), w \in Writers,
         consumed' \in [Writers -> Int], InOrder'
  PROVE  StepsOn(top)
  BY ReaderAdvances, AdvancesStands DEF StepsOn

LEMMA SkipFragmentStepsOn ==
  ASSUME NEW top, ShelfInv(top), Reading, Reader(top), SkipFragment, UNCHANGED overwrite_policy_
  PROVE  StepsOn(top)
  <1>1. /\ read_pc = "fragments" /\ Unread(CurMeta) /\ NextAction(CurMeta) = "kSkip"
        /\ UNCHANGED <<smb, data_, consumed, read_iter_, read_pc>>
    BY DEF SkipFragment, NextFragment, LeaveRing
  <1>20. PICK w, k, c : \E r \in Nat : AtChunk(top, w, k, c, r)
    BY <1>1, AtSomeChunk DEF Reader, AtChunk
  <1>2. PICK r \in Nat : AtChunk(top, w, k, c, r)
    BY <1>20
  <1>3. /\ w \in Writers /\ w = read_iter_.seq /\ c = smb[w][k] /\ c \in Chunks /\ ChunkIsSound(c)
        /\ r \in Nat /\ r < c.n /\ r = CurMeta.num_fragments_read
        /\ CurMeta.num_fragments = c.n /\ CurMeta.flags = FlagsLeft(c)
        /\ CurKey = <<w, Id(k)>> /\ NextSlice(CurKey) = <<k, r + 1>>
    BY <1>2 DEF AtChunk, OnShelf, ReadOf
  <1>4. r = 0 /\ c.from
    <2>1. NextAction(CurMeta) = "kSkip" => CurMeta.num_fragments_read = 0 /\ First \in CurMeta.flags
      BY DEF NextAction
    <2>2. First \in FlagsLeft(c) => c.from
      BY DEF FlagsLeft, First, Last, Holes
    <2> QED BY <1>1, <1>3, <2>1, <2>2
  <1>5. PICK after, meta, dropped :
           /\ dropped = IsDropped(read_iter_.seq, NextSlice(CurKey))
           /\ after = AfterFragment(CurKey, dropped) /\ meta = [after EXCEPT !.skipped = TRUE]
    OBVIOUS
  <1>6. dropped => c.n = 1
    <2>1. PICK slice : slice = NextSlice(CurKey)
      OBVIOUS
    <2>2. IsDropped(w, slice) => slice[2] = c.n
      <3>1. slice[1] = k
        BY <1>3, <2>1
      <3> QED BY <1>3, <3>1 DEF IsDropped
    <2>3. slice[2] = 1
      <3>1. PICK n : n = r + 1
        OBVIOUS
      <3>2. slice[2] = n
        BY <1>3, <2>1, <3>1
      <3>3. n = 1
        BY <1>4, <3>1
      <3> QED BY <3>2, <3>3
    <2> QED BY <1>3, <1>5, <2>1, <2>2, <2>3
  <1>7. index_' = [index_ EXCEPT ![CurKey] = meta] /\ Reached(w, k)
    <2>1. PICK slice : slice = NextSlice(CurKey) /\ slice[1] = k
      BY <1>3
    <2>2. index_' = [index_ EXCEPT ![CurKey] = meta] /\ Reached(w, slice[1])
      BY <1>3, <1>5, <2>1 DEF SkipFragment
    <2> QED BY <2>1, <2>2
  <1>8. /\ meta.num_fragments = CurMeta.num_fragments /\ meta.num_fragments_read = r + 1
    <2>1. CurMeta \in Metas
      BY <1>1, CurrentIs
    <2>2. after.num_fragments = CurMeta.num_fragments /\ after.num_fragments_read = 1 /\ after \in Metas
      <3>1. CASE dropped
        <4>1. after = [CurMeta EXCEPT !.num_fragments_read = CurMeta.num_fragments]
          BY <1>5, <3>1 DEF AfterFragment, CurMeta
        <4> QED BY <1>3, <1>6, <2>1, <3>1, <4>1 DEF Metas
      <3>2. CASE ~dropped
        <4>1. PICK n : n = CurMeta.num_fragments_read + 1
          OBVIOUS
        <4>2. n = 1
          <5>1. CurMeta.num_fragments_read = 0
            BY <1>3, <1>4
          <5> QED BY <4>1, <5>1
        <4>3. after = [CurMeta EXCEPT !.num_fragments_read = n, !.skipped = FALSE]
          BY <1>5, <3>2, <4>1 DEF AfterFragment, CurMeta
        <4>4. n \in Int
          BY <4>2
        <4> QED BY <2>1, <4>2, <4>3, <4>4 DEF Metas
      <3> QED BY <3>1, <3>2
    <2> QED BY <1>4, <1>5, <2>2 DEF Metas
  <1>9. PICK l \in Int, m \in Int : l = c.first /\ l = c.first + r /\ m = consumed[w]
    BY <1>3, <1>4, LastPacketIs DEF Reader
  <1>10. l = IF c.first + (r + 1) - 1 < LastPacket(c) THEN c.first + (r + 1) - 1 ELSE LastPacket(c)
    BY <1>3, <1>4, <1>9, LastPacketIs
  <1>11. consumed[w] <= l /\ overwrite_policy_ # "kDiscard"
    <2>1. m <= l /\ overwrite_policy_ # "kDiscard"
      BY <1>2, <1>4, <1>9, NextPacketIsNew DEF Reader
    <2> QED BY <1>9, <2>1
  <1>12. Advances(w, k, r + 1, l)
    <2>1. /\ \A v \in Writers \ {w} : consumed'[v] = consumed[v]
          /\ consumed'[w] <= l
      BY <1>1, <1>11
    <2>2. reached \in [Writers -> Nat]
      BY DEF Reading
    <2> QED BY <1>2, <1>7, <1>8, <1>10, <1>11, <2>1, <2>2, FragmentAdvances
  <1>13. InOrder'
    BY <1>1, NothingReturned
  <1>14. read_iter_'.seq = w /\ read_iter_'.cur = Id(k)
    BY <1>1, <1>3 DEF CurKey
  <1> QED BY <1>1, <1>3, <1>12, <1>13, <1>14, FragmentStepsOn DEF Reader

LEMMA ReadOnePacketStepsOn ==
  ASSUME NEW top, ShelfInv(top), Reading, Reader(top), ReadOnePacket, UNCHANGED overwrite_policy_
  PROVE  StepsOn(top)
  <1>1. /\ read_pc = "fragments" /\ Unread(CurMeta) /\ NextAction(CurMeta) = "kReadOnePacket"
        /\ UNCHANGED <<smb, data_, read_iter_>>
    BY DEF ReadOnePacket, NextFragment, LeaveRing
  <1>20. PICK w, k, c : \E r \in Nat : AtChunk(top, w, k, c, r)
    BY <1>1, AtSomeChunk DEF Reader, AtChunk
  <1>2. PICK r \in Nat : AtChunk(top, w, k, c, r)
    BY <1>20
  <1>3. /\ w \in Writers /\ w = read_iter_.seq /\ c = smb[w][k] /\ c \in Chunks /\ ChunkIsSound(c)
        /\ r \in Nat /\ r < c.n /\ r = CurMeta.num_fragments_read /\ k \in Nat /\ Committed(w, k)
        /\ CurMeta.num_fragments = c.n /\ CurMeta.flags = FlagsLeft(c)
        /\ CurKey = <<w, Id(k)>> /\ NextSlice(CurKey) = <<k, r + 1>>
    BY <1>2 DEF AtChunk, OnShelf, ReadOf
  <1>4. /\ r >= 1 \/ ~c.from
        /\ c.on => r + 1 < c.n
    <2>1. /\ ~(CurMeta.num_fragments_read = 0 /\ First \in CurMeta.flags)
          /\ ~(CurMeta.num_fragments_read = CurMeta.num_fragments - 1 /\ Last \in CurMeta.flags)
      BY <1>1 DEF NextAction
    <2>2. (c.from => First \in FlagsLeft(c)) /\ (c.on => Last \in FlagsLeft(c))
      BY DEF FlagsLeft, Flags, First, Last, Holes
    <2>3. c.n \in Nat /\ c.from \in BOOLEAN /\ c.on \in BOOLEAN
      BY <1>3 DEF Chunks
    <2> QED BY <1>3, <2>1, <2>2, <2>3
  <1>5. PICK p \in Int, m \in Int : p = c.first + r /\ m = consumed[w]
    BY <1>3 DEF Chunks, Reader
  <1>6. /\ m < p
        /\ overwrite_policy_ = "kDiscard" => \A i \in m + 1 .. p - 1 : GivenUp(w, i)
    BY <1>2, <1>4, <1>5, NextPacketIsNew DEF Reader
  <1>7. /\ c.first + (r + 1) - 1 = p /\ c.first \in Int /\ c.n \in Nat /\ LastPacket(c) \in Int
        /\ c.extra => LastPacket(c) = c.first + c.n - 2
        /\ ~c.extra => LastPacket(c) = c.first + c.n - 1
    BY <1>3, <1>5, LastPacketIs
  <1>8. PICK dropped, empty, taken, lost :
           /\ dropped = (c.bad /\ r + 1 = c.n) /\ empty = (c.extra /\ r + 1 = c.n)
           /\ taken = AfterFragment(CurKey, FALSE)
           /\ lost = [AfterFragment(CurKey, TRUE) EXCEPT !.skipped = TRUE]
    OBVIOUS
  <1>9. /\ IF dropped THEN index_' = [index_ EXCEPT ![CurKey] = lost] /\ UNCHANGED <<read_pc, consumed>>
           ELSE /\ index_' = [index_ EXCEPT ![CurKey] = taken]
                /\ IF empty THEN UNCHANGED <<read_pc, consumed>> ELSE ReturnPacket(<<<<k, r + 1>>>>)
        /\ Reached(w, k)
    <2>1. /\ IsDropped(w, NextSlice(CurKey)) = (c.bad /\ r + 1 = c.n)
          /\ IsEmpty(w, NextSlice(CurKey)) = (c.extra /\ r + 1 = c.n)
      BY <1>3 DEF IsDropped, IsEmpty
    <2>2. PICK slice : slice = NextSlice(CurKey)
      OBVIOUS
    <2>3. /\ IF IsDropped(w, slice)
             THEN index_' = [index_ EXCEPT ![CurKey] = lost] /\ UNCHANGED <<read_pc, consumed>>
             ELSE /\ index_' = [index_ EXCEPT ![CurKey] = taken]
                  /\ IF IsEmpty(w, slice) THEN UNCHANGED <<read_pc, consumed>>
                     ELSE ReturnPacket(<<slice>>)
          /\ Reached(w, slice[1])
      BY <1>3, <1>8, <2>2 DEF ReadOnePacket
    <2>4. slice = <<k, r + 1>> /\ slice[1] = k
      BY <1>3, <2>2
    <2>5. IsDropped(w, slice) = dropped /\ IsEmpty(w, slice) = empty
      BY <1>8, <2>1, <2>2
    <2> QED BY <2>3, <2>4, <2>5
  <1>10. /\ taken.num_fragments = CurMeta.num_fragments /\ taken.num_fragments_read = r + 1
         /\ dropped => lost.num_fragments = CurMeta.num_fragments /\ lost.num_fragments_read = r + 1
    <2>1. CurMeta \in Metas
      BY <1>1, CurrentIs
    <2>2. PICK n : n = r + 1
      OBVIOUS
    <2>3. taken = [CurMeta EXCEPT !.num_fragments_read = n, !.skipped = FALSE]
      BY <1>3, <1>8, <2>2 DEF AfterFragment, CurMeta
    <2>4. PICK bad : bad = [CurMeta EXCEPT !.num_fragments_read = CurMeta.num_fragments]
      OBVIOUS
    <2>5. lost = [bad EXCEPT !.skipped = TRUE]
      BY <1>8, <2>4 DEF AfterFragment, CurMeta
    <2>6. dropped => CurMeta.num_fragments = n
      BY <1>3, <1>8, <2>2
    <2>7. taken.num_fragments = CurMeta.num_fragments /\ taken.num_fragments_read = n
      BY <2>1, <2>3 DEF Metas
    <2>8. lost.num_fragments = CurMeta.num_fragments /\ lost.num_fragments_read = CurMeta.num_fragments
      BY <2>1, <2>4, <2>5 DEF Metas
    <2> QED BY <2>2, <2>6, <2>7, <2>8
  <1>11. reached \in [Writers -> Nat] /\ consumed \in [Writers -> Int]
    BY DEF Reading, Reader
  <1>12. read_iter_'.seq = w /\ read_iter_'.cur = Id(k)
    BY <1>1, <1>3 DEF CurKey
  \* The packet was given up.
  <1>13. CASE dropped
    <2>1. ~c.extra /\ ~c.on /\ c.bad /\ r + 1 = c.n
      BY <1>3, <1>8, <1>13 DEF ChunkIsSound
    <2>2. LastPacket(c) = p
      BY <1>3, <1>5, <1>7, <2>1
    <2>3. p = IF c.first + (r + 1) - 1 < LastPacket(c) THEN c.first + (r + 1) - 1 ELSE LastPacket(c)
      BY <1>7, <2>2
    <2>4. GivenUp(w, p)
      BY <1>3, <2>1, <2>2 DEF GivenUp
    <2>5. UNCHANGED consumed /\ read_pc' # "returned" /\ index_' = [index_ EXCEPT ![CurKey] = lost]
      BY <1>1, <1>9, <1>13
    <2>6. consumed'[w] = m /\ m <= p /\ \A v \in Writers \ {w} : consumed'[v] = consumed[v]
      BY <1>5, <1>6, <2>5
    <2>7. overwrite_policy_ = "kDiscard" => \A i \in m + 1 .. p : GivenUp(w, i)
      <3> SUFFICES ASSUME overwrite_policy_ = "kDiscard", NEW i \in m + 1 .. p PROVE GivenUp(w, i)
        OBVIOUS
      <3>1. i = p \/ i \in m + 1 .. p - 1
        OBVIOUS
      <3> QED BY <1>6, <2>4, <3>1
    <2>8. Advances(w, k, r + 1, p)
      BY <1>2, <1>9, <1>10, <1>11, <1>13, <2>1, <2>3, <2>5, <2>6, <2>7, FragmentAdvances
    <2> QED BY <1>1, <1>3, <1>11, <1>12, <2>5, <2>8, FragmentStepsOn, NothingReturned DEF Reader
  \* There is nothing in it.
  <1>14. CASE ~dropped /\ empty
    <2>1. ~c.on /\ c.extra /\ r + 1 = c.n
      BY <1>3, <1>8, <1>14 DEF ChunkIsSound
    <2>2. PICK l \in Int : l = p - 1
      OBVIOUS
    <2>3. LastPacket(c) = l
      BY <1>3, <1>5, <1>7, <2>1, <2>2
    <2>4. l = IF c.first + (r + 1) - 1 < LastPacket(c) THEN c.first + (r + 1) - 1 ELSE LastPacket(c)
      BY <1>7, <2>2, <2>3
    <2>5. UNCHANGED consumed /\ read_pc' # "returned" /\ index_' = [index_ EXCEPT ![CurKey] = taken]
      BY <1>1, <1>9, <1>14
    <2>6. consumed'[w] = m /\ m <= l /\ \A v \in Writers \ {w} : consumed'[v] = consumed[v]
      BY <1>5, <1>6, <2>2, <2>5
    <2>7. overwrite_policy_ = "kDiscard" => \A i \in m + 1 .. l : GivenUp(w, i)
      BY <1>6, <2>2
    <2>8. Advances(w, k, r + 1, l)
      BY <1>2, <1>9, <1>10, <1>11, <2>1, <2>4, <2>5, <2>6, <2>7, FragmentAdvances
    <2> QED BY <1>1, <1>3, <1>11, <1>12, <2>5, <2>8, FragmentStepsOn, NothingReturned DEF Reader
  \* It is returned.
  <1>15. CASE ~dropped /\ ~empty
    <2>1. index_' = [index_ EXCEPT ![CurKey] = taken] /\ ReturnPacket(<<<<k, r + 1>>>>)
      BY <1>9, <1>15
    <2>0. PICK slice : slice = <<k, r + 1>>
      OBVIOUS
    <2>2. PICK slices : slices = <<slice>> /\ slices[1] = slice
      <3>1. <<slice>>[1] = slice
        OBVIOUS
      <3> QED BY <3>1
    <2>3. ReturnPacket(slices) /\ slices[1] = <<k, r + 1>> /\ UNCHANGED <<smb, overwrite_policy_>>
      BY <1>1, <2>0, <2>1, <2>2
    <2>4. /\ ReadInOrder' /\ NothingLostBefore'
          /\ consumed' = [consumed EXCEPT ![w] = p]
      BY <1>2, <1>5, <1>6, <1>11, <2>3, ReturnsInOrder
    <2>5. p <= LastPacket(c)
      <3>1. CASE c.extra
        <4>0. ~(r + 1 = c.n)
          BY <1>8, <1>15, <3>1
        <4>1. r + 1 < c.n
          BY <1>3, <1>7, <4>0
        <4> QED BY <1>3, <1>5, <1>7, <3>1, <4>1
      <3>2. CASE ~c.extra
        BY <1>3, <1>5, <1>7, <3>2
      <3> QED BY <3>1, <3>2
    <2>6. p = IF c.first + (r + 1) - 1 < LastPacket(c) THEN c.first + (r + 1) - 1 ELSE LastPacket(c)
      BY <1>7, <2>5
    <2>7. /\ consumed'[w] = p /\ \A v \in Writers \ {w} : consumed'[v] = consumed[v]
          /\ consumed' \in [Writers -> Int]
      BY <1>3, <1>11, <2>4
    <2>8. consumed'[w] <= p /\ \A i \in consumed'[w] + 1 .. p : GivenUp(w, i)
      BY <2>7
    <2>9. Advances(w, k, r + 1, p)
      BY <1>2, <1>4, <1>9, <1>10, <1>11, <2>1, <2>6, <2>7, <2>8, FragmentAdvances
    <2> QED BY <1>1, <1>3, <1>11, <1>12, <2>4, <2>7, <2>9, FragmentStepsOn DEF Reader, InOrder
  <1> QED BY <1>13, <1>14, <1>15

-----------------------------------------------------------------------------
(***************************************************************************)
(* ReadAhead, without scraping.                                            *)
(***************************************************************************)
PathOf(w, c, n)   == [i \in 1 .. n + 1 |-> <<w, Ahead(c, i - 1)>>]
KeysOf(w, c, n)   == {PathOf(w, c, n)[i] : i \in {j \in 1 .. n + 1 :
                                                index_[PathOf(w, c, n)[j]].num_fragments > 0}}
SlicesOf(w, c, n) == [i \in 1 .. n + 1 |-> NextSlice(PathOf(w, c, n)[i])]
GoneOf(w, c, n)   == {key \in KeysOf(w, c, n) : ~Unread(index_[key])}
LostOf(w, c, n)   == {key \in KeysOf(w, c, n) : IsDropped(w, NextSlice(key))}

\* The chunks on the path to n chunks ahead give their next fragments, or those in
\* lost have none.
Glued(w, c, n, lost) ==
    LET corrupt == LostOf(w, c, n) \cup lost
        read    == EntriesAfter(KeysOf(w, c, n), corrupt)
        final   == PathOf(w, c, n)[n + 1]
    IN  /\ IF corrupt # {}
           THEN /\ index_' = [read EXCEPT ![final].skipped = TRUE]
                /\ UNCHANGED <<read_pc, consumed>>
           ELSE index_' = read /\ ReturnPacket(SlicesOf(w, c, n))
        /\ read_iter_' = [read_iter_ EXCEPT !.cur = final[2]]
        /\ Reached(w, SlicesOf(w, c, n)[n + 1][1])

LEMMA ReadAheadIs ==
  ASSUME ReadAhead
  PROVE  \E n \in ReadAheadTo(read_iter_.seq, read_iter_.cur) :
            \E lost \in SUBSET GoneOf(read_iter_.seq, read_iter_.cur, n) :
               Glued(read_iter_.seq, read_iter_.cur, n, lost)
  BY DEF ReadAhead, Glued, PathOf, KeysOf, SlicesOf, GoneOf, LostOf, EntriesAfter

\* The packet that begins in chunk k ends in chunk f, and is all that the chunks
\* between them hold.
EndsAt(top, w, k, f) ==
    /\ f \in Nat /\ k < f /\ f <= top[w] /\ k .. f \subseteq Shelf(data_, w)
    /\ \A j \in k + 1 .. f - 1 : smb[w][j].n = 1 /\ smb[w][j].on
    /\ smb[w][f].from /\ (smb[w][f].on => smb[w][f].n > 1)

LEMMA ReadAheadEndsAt ==
  ASSUME NEW top, ShelfInv(top), NEW w \in Writers, NEW k \in Shelf(data_, w),
         NEW n \in ReadAheadTo(w, Id(k))
  PROVE  n \in Nat /\ n <= kMaxChunkID /\ k \in Nat /\ EndsAt(top, w, k, k + n)
  <1>1. /\ IdsLast /\ top \in [Writers -> Nat] /\ TopInv(top)
    BY DEF ShelfInv, WindowInv
  <1>2. /\ OnShelf(top, w, k) /\ k \in Nat /\ k # 0 /\ k <= top[w]
        /\ k .. top[w] \subseteq Shelf(data_, w)
    BY OnShelfIs DEF ShelfInv, OnShelf
  <1>3. PICK t \in Nat, m \in Nat : t = top[w] /\ m = kMaxChunkID
    BY <1>1, BufferAssumption
  <1>4. n \in 1 .. m /\ n \in Int
    BY <1>3 DEF ReadAheadTo
  <1>5. \A i \in 0 .. n : Ahead(Id(k), i) = Id(k + i)
    <2>1. \A i \in 0 .. n : i \in 0 .. kMaxChunkID
      BY <1>3, <1>4
    <2> QED BY <1>2, <2>1, AheadIs
  <1>6. k + n <= t
    <2> SUFFICES ASSUME k + n > t PROVE FALSE
      BY <1>2, <1>3, <1>4
    <2>1. PICK i \in 0 .. n - 1 : i = t - k
      BY <1>2, <1>3, <1>4
    <2>2. i \in 0 .. n /\ i + 1 \in 0 .. n /\ k + i = t /\ t # 0
      BY <1>2, <1>3, <1>4, <2>1
    <2>3. MoveNext(w, Ahead(Id(k), i)) = Ahead(Id(k), i + 1)
      BY DEF ReadAheadTo, Reaches
    <2>4. Ahead(Id(k), i) = Id(t)
      BY <1>5, <2>2
    <2>5. last_chunk_id_written_[w] = Id(t)
      BY <1>1, <1>3, <2>2 DEF TopInv
    <2>6. MoveNext(w, Id(t)) = End
      BY <2>5 DEF MoveNext
    <2>7. Ahead(Id(k), i + 1) \in ChunkID
      <3>1. Id(k + (i + 1)) \in ChunkID
        BY <1>2, IdIsAnId
      <3> QED BY <1>5, <2>2, <3>1
    <2>8. End \notin ChunkID
      BY BufferAssumption DEF End, ChunkID
    <2> QED BY <2>3, <2>4, <2>6, <2>7, <2>8
  <1>7. k .. k + n \subseteq Shelf(data_, w) /\ k + n \in Nat /\ k < k + n
    BY <1>2, <1>3, <1>4, <1>6
  <1>8. ASSUME NEW i \in 1 .. n
        PROVE  /\ index_[<<w, Ahead(Id(k), i)>>] = Meta(w, k + i)
               /\ OnShelf(top, w, k + i) /\ smb[w][k + i] \in Chunks /\ smb[w][k + i].n >= 1
               /\ Meta(w, k + i).num_fragments = smb[w][k + i].n
               /\ Meta(w, k + i).flags = FlagsLeft(smb[w][k + i])
    <2>1. i \in 0 .. n /\ k + i \in k .. k + n
      BY <1>2, <1>4
    <2>2. OnShelf(top, w, k + i)
      BY <1>7, <2>1, OnShelfIs DEF ShelfInv
    <2> QED BY <1>5, <2>1, <2>2 DEF OnShelf, Meta, ChunkIsSound
  <1>9. \A c \in Chunks : /\ First \in FlagsLeft(c) => c.from
                          /\ Last \in FlagsLeft(c) <=> c.on
    BY DEF FlagsLeft, Flags, First, Last, Holes, Chunks
  <1>10. ASSUME NEW j \in k + 1 .. k + n - 1
         PROVE  smb[w][j].n = 1 /\ smb[w][j].on
    <2>1. PICK i \in 1 .. n - 1 : j = k + i
      <3>1. j - k \in 1 .. n - 1 /\ j = k + (j - k)
        BY <1>2, <1>4
      <3> QED BY <3>1
    <2>2. i \in 1 .. n /\ PassesOn(index_[<<w, Ahead(Id(k), i)>>])
      BY <1>4 DEF ReadAheadTo
    <2>3. PassesOn(Meta(w, j)) /\ smb[w][j].n >= 1 /\ Meta(w, j).num_fragments = smb[w][j].n
          /\ Meta(w, j).flags = FlagsLeft(smb[w][j]) /\ smb[w][j] \in Chunks
      BY <1>8, <2>1, <2>2
    <2>4. smb[w][j].n = 1 /\ Last \in FlagsLeft(smb[w][j])
      BY <2>3 DEF PassesOn
    <2> QED BY <1>9, <2>3, <2>4
  <1>11. smb[w][k + n].from /\ (smb[w][k + n].on => smb[w][k + n].n > 1)
    <2>1. EndsPacket(index_[<<w, Ahead(Id(k), n)>>]) /\ n \in 1 .. n
      BY <1>4 DEF ReadAheadTo
    <2>2. PICK d : d = smb[w][k + n]
      OBVIOUS
    <2>3. /\ EndsPacket(Meta(w, k + n)) /\ d.n >= 1 /\ Meta(w, k + n).num_fragments = d.n
          /\ Meta(w, k + n).flags = FlagsLeft(d) /\ d \in Chunks /\ d.n \in Int
      BY <1>8, <2>1, <2>2 DEF Chunks
    <2>4. First \in FlagsLeft(d) /\ ~(d.n = 1 /\ Last \in FlagsLeft(d))
      BY <2>3 DEF EndsPacket
    <2> QED BY <1>9, <2>2, <2>3, <2>4
  <1> QED BY <1>2, <1>3, <1>4, <1>6, <1>7, <1>10, <1>11 DEF EndsAt

\* Nothing but the last fragment can have been given up.
Ends(w, f) == smb[w][f].bad /\ smb[w][f].n = 1

LEMMA GluedIs ==
  ASSUME NEW top, ShelfInv(top), Progress(top), NEW w, NEW k, NEW c, NEW r, AtChunk(top, w, k, c, r),
         Unread(CurMeta), c.on, NEW n \in ReadAheadTo(w, Id(k)), NEW f, f = k + n
  PROVE  /\ \A v \in Writers : \A j \in Shelf(data_, v) :
               <<v, Id(j)>> \in KeysOf(w, Id(k), n) <=> v = w /\ j \in k .. f
         /\ GoneOf(w, Id(k), n) = {}
         /\ LostOf(w, Id(k), n) # {} <=> Ends(w, f)
         /\ LostOf(w, Id(k), n) \subseteq {<<w, Id(f)>>}
         /\ PathOf(w, Id(k), n)[n + 1] = <<w, Id(f)>>
         /\ SlicesOf(w, Id(k), n)[1] = <<k, r + 1>>
         /\ SlicesOf(w, Id(k), n)[n + 1][1] = f
  <1>1. /\ w \in Writers /\ k \in Shelf(data_, w) /\ c = smb[w][k] /\ c \in Chunks /\ ChunkIsSound(c)
        /\ CurKey = <<w, Id(k)>> /\ CurMeta = Meta(w, k) /\ NextSlice(CurKey) = <<k, r + 1>>
        /\ reached[w] <= k
    BY DEF AtChunk, OnShelf
  <1>2. n \in Nat /\ n <= kMaxChunkID /\ k \in Nat /\ EndsAt(top, w, k, f)
    BY <1>1, ReadAheadEndsAt DEF ShelfInv
  <1>3. /\ f \in Nat /\ k < f /\ k .. f \subseteq Shelf(data_, w)
        /\ \A j \in k + 1 .. f - 1 : smb[w][j].on
        /\ n >= 1
    BY <1>2 DEF EndsAt
  <1>4. PICK path : path = PathOf(w, Id(k), n)
    OBVIOUS
  <1>5. /\ DOMAIN path = 1 .. n + 1
        /\ \A i \in 1 .. n + 1 : path[i] = <<w, Id(k + i - 1)>> /\ k + i - 1 \in k .. f
    <2>1. ASSUME NEW i \in 1 .. n + 1 PROVE path[i] = <<w, Id(k + i - 1)>> /\ k + i - 1 \in k .. f
      <3>1. PICK j \in 0 .. kMaxChunkID : j = i - 1
        <4>1. kMaxChunkID \in Nat
          BY BufferAssumption
        <4>2. i - 1 \in 0 .. kMaxChunkID
          BY <1>2, <4>1
        <4> QED BY <4>2
      <3>2. path[i] = <<w, Ahead(Id(k), i - 1)>>
        BY <1>4 DEF PathOf
      <3>3. Ahead(Id(k), j) = Id(k + j)
        BY <1>2, AheadIs
      <3>4. k + i - 1 = k + j /\ k + i - 1 \in k .. f
        BY <1>2, <3>1
      <3> QED BY <3>1, <3>2, <3>3, <3>4
    <2> QED BY <1>4, <2>1 DEF PathOf
  <1>6. ASSUME NEW j \in k .. f
        PROVE  \E i \in 1 .. n + 1 : path[i] = <<w, Id(j)>>
    <2>1. PICK i \in 1 .. n + 1 : k + i - 1 = j
      <3>1. j - k + 1 \in 1 .. n + 1 /\ k + (j - k + 1) - 1 = j
        BY <1>2
      <3> QED BY <3>1
    <2> QED BY <1>5, <2>1
  <1>7. ASSUME NEW j \in k .. f
        PROVE  /\ OnShelf(top, w, j) /\ Meta(w, j).num_fragments > 0 /\ Unread(Meta(w, j))
               /\ NextSlice(<<w, Id(j)>>) = <<j, ReadOf(w, j) + 1>>
               /\ j # k => ReadOf(w, j) = 0
               /\ smb[w][j].bad => j = f
    <2>1. OnShelf(top, w, j) /\ j \in Shelf(data_, w)
      BY <1>1, <1>3, OnShelfIs DEF ShelfInv
    <2>2. PICK d : d = smb[w][j]
      OBVIOUS
    <2>3. /\ Meta(w, j).num_fragments = d.n /\ d.n \in Nat /\ d.n >= 1 /\ ChunkIsSound(d)
          /\ data_[Meta(w, j).record_off].chunk = j
      BY <2>1, <2>2 DEF OnShelf, ChunkIsSound, Chunks
    <2>4. j # k => ReadOf(w, j) = 0
      <3>1. ASSUME j # k PROVE j > reached[w]
        <4>1. reached[w] \in Nat
          BY <1>1, InvParts DEF ShelfInv
        <4> QED BY <1>1, <1>2, <3>1, <4>1
      <3> QED BY <1>1, <2>1, <3>1 DEF Progress
    <2>5. Unread(Meta(w, j))
      <3>1. CASE j = k
        BY <1>1, <3>1
      <3>2. CASE j # k
        BY <2>3, <2>4, <3>2 DEF Unread, ReadOf
      <3> QED BY <3>1, <3>2
    <2>6. NextSlice(<<w, Id(j)>>) = <<j, ReadOf(w, j) + 1>>
      BY <2>3 DEF NextSlice, Meta, ReadOf
    <2>7. d.bad => j = f
      <3>1. d.bad => ~d.on
        BY <2>3 DEF ChunkIsSound
      <3>2. j = k \/ j = f \/ j \in k + 1 .. f - 1
        BY <1>2, <1>3
      <3> QED BY <1>1, <1>3, <2>2, <3>1, <3>2
    <2> QED BY <2>1, <2>2, <2>3, <2>4, <2>5, <2>6, <2>7
  <1>8. ASSUME NEW key
        PROVE  key \in KeysOf(w, Id(k), n) <=> \E j \in k .. f : key = <<w, Id(j)>>
    <2>1. ASSUME key \in KeysOf(w, Id(k), n) PROVE \E j \in k .. f : key = <<w, Id(j)>>
      <3>1. PICK i \in 1 .. n + 1 : key = path[i]
        BY <1>4, <2>1 DEF KeysOf
      <3> QED BY <1>5, <3>1
    <2>2. ASSUME NEW j \in k .. f, key = <<w, Id(j)>> PROVE key \in KeysOf(w, Id(k), n)
      <3>1. PICK i \in 1 .. n + 1 : path[i] = key
        BY <1>6, <2>2
      <3>2. index_[path[i]].num_fragments > 0
        BY <1>7, <2>2, <3>1 DEF Meta
      <3> QED BY <1>4, <3>1, <3>2 DEF KeysOf
    <2> QED BY <2>1, <2>2
  <1>9. ASSUME NEW v \in Writers, NEW j \in Shelf(data_, v)
        PROVE  <<v, Id(j)>> \in KeysOf(w, Id(k), n) <=> v = w /\ j \in k .. f
    <2>1. ASSUME NEW i \in k .. f, <<v, Id(j)>> = <<w, Id(i)>> PROVE v = w /\ j = i
      <3>1. i \in Shelf(data_, w)
        BY <1>3
      <3> QED BY <1>1, <2>1, <3>1, SameKey
    <2> QED BY <1>8, <2>1
  <1>10. GoneOf(w, Id(k), n) = {}
    <2>1. ASSUME NEW key \in KeysOf(w, Id(k), n) PROVE Unread(index_[key])
      BY <1>7, <1>8 DEF Meta
    <2> QED BY <2>1 DEF GoneOf
  <1>11. f \in k .. f /\ k \in k .. f /\ f # k
    BY <1>2, <1>3
  <1>12. LostOf(w, Id(k), n) \subseteq {<<w, Id(f)>>} /\ (LostOf(w, Id(k), n) # {} => Ends(w, f))
    <2>1. ASSUME NEW key \in LostOf(w, Id(k), n) PROVE key = <<w, Id(f)>> /\ Ends(w, f)
      <3>1. key \in KeysOf(w, Id(k), n) /\ IsDropped(w, NextSlice(key))
        BY DEF LostOf
      <3>2. PICK j \in k .. f : key = <<w, Id(j)>>
        BY <1>8, <3>1
      <3>3. NextSlice(key) = <<j, ReadOf(w, j) + 1>>
        BY <1>7, <3>2
      <3>4. smb[w][j].bad /\ smb[w][j].n = ReadOf(w, j) + 1
        BY <3>1, <3>3 DEF IsDropped
      <3>5. j = f
        BY <1>7, <3>4
      <3>6. ReadOf(w, f) + 1 = 1
        <4>1. ReadOf(w, f) = 0
          BY <1>7, <1>11
        <4> QED BY <4>1
      <3> QED BY <3>2, <3>4, <3>5, <3>6 DEF Ends
    <2> QED BY <2>1
  <1>13. ASSUME Ends(w, f) PROVE LostOf(w, Id(k), n) # {}
    <2>1. PICK key : key = <<w, Id(f)>>
      OBVIOUS
    <2>2. key \in KeysOf(w, Id(k), n)
      BY <1>8, <1>11, <2>1
    <2>3. PICK slice : slice = NextSlice(key)
      OBVIOUS
    <2>4. slice[1] = f /\ slice[2] = ReadOf(w, f) + 1 /\ ReadOf(w, f) = 0
      BY <1>7, <1>11, <2>1, <2>3
    <2>5. slice[2] = 1
      <3>1. ReadOf(w, f) + 1 = 1
        BY <2>4
      <3> QED BY <2>4, <3>1
    <2>6. IsDropped(w, NextSlice(key))
      BY <1>13, <2>3, <2>4, <2>5 DEF IsDropped, Ends
    <2> QED BY <2>2, <2>6 DEF LostOf
  <1>14. path[n + 1] = <<w, Id(f)>> /\ path[1] = <<w, Id(k)>>
    <2>1. n + 1 \in 1 .. n + 1 /\ k + (n + 1) - 1 = f /\ 1 \in 1 .. n + 1 /\ k + 1 - 1 = k
      BY <1>2
    <2>2. path[n + 1] = <<w, Id(k + (n + 1) - 1)>> /\ path[1] = <<w, Id(k + 1 - 1)>>
      BY <1>5, <2>1
    <2> QED BY <2>1, <2>2
  <1>15. SlicesOf(w, Id(k), n)[1] = <<k, r + 1>> /\ SlicesOf(w, Id(k), n)[n + 1][1] = f
    <2>1. n + 1 \in 1 .. n + 1 /\ 1 \in 1 .. n + 1
      BY <1>2
    <2>2. /\ SlicesOf(w, Id(k), n)[1] = NextSlice(path[1])
          /\ SlicesOf(w, Id(k), n)[n + 1] = NextSlice(path[n + 1])
      BY <1>4, <2>1 DEF SlicesOf
    <2>3. NextSlice(path[n + 1]) = <<f, ReadOf(w, f) + 1>>
      BY <1>7, <1>11, <1>14
    <2>4. NextSlice(path[n + 1])[1] = f
      BY <2>3
    <2> QED BY <1>1, <1>14, <2>2, <2>4
  <1> QED BY <1>4, <1>9, <1>10, <1>12, <1>13, <1>14, <1>15

LEMMA ReadAheadStepsOn ==
  ASSUME NEW top, ShelfInv(top), Reading, Reader(top), ReadAhead, UNCHANGED overwrite_policy_
  PROVE  StepsOn(top)
  <1>1. /\ read_pc = "fragments" /\ Unread(CurMeta) /\ NextAction(CurMeta) = "kTryReadAhead"
        /\ UNCHANGED <<smb, data_>>
    BY DEF ReadAhead, NextFragment, LeaveRing
  <1>20. PICK w, k, c : \E r \in Nat : AtChunk(top, w, k, c, r)
    BY <1>1, AtSomeChunk DEF Reader, AtChunk
  <1>2. PICK r \in Nat : AtChunk(top, w, k, c, r)
    BY <1>20
  <1>3. /\ w \in Writers /\ w = read_iter_.seq /\ c = smb[w][k] /\ c \in Chunks /\ ChunkIsSound(c)
        /\ r < c.n /\ r = CurMeta.num_fragments_read /\ r = ReadOf(w, k) /\ k \in Nat /\ Committed(w, k)
        /\ CurMeta.num_fragments = c.n /\ CurMeta.flags = FlagsLeft(c)
        /\ CurKey = <<w, Id(k)>> /\ Stands(w, k) /\ k \in Shelf(data_, w) /\ reached[w] <= k
        /\ CurMeta = Meta(w, k)
    BY <1>2 DEF AtChunk, OnShelf, ReadOf
  <1>4. /\ r + 1 = c.n /\ c.on /\ (r >= 1 \/ ~c.from)
    <2>1. /\ CurMeta.num_fragments_read = CurMeta.num_fragments - 1
          /\ Last \in CurMeta.flags
          /\ ~(CurMeta.num_fragments_read = 0 /\ First \in CurMeta.flags)
      BY <1>1 DEF NextAction
    <2>2. (c.from => First \in FlagsLeft(c)) /\ (Last \in FlagsLeft(c) => c.on)
      BY DEF FlagsLeft, Flags, First, Last, Holes
    <2>3. PICK n \in Nat : n = c.n
      BY <1>3 DEF Chunks
    <2>4. r = n - 1
      BY <1>3, <2>1, <2>3
    <2>5. r + 1 = c.n
      BY <2>3, <2>4
    <2>6. r >= 1 \/ r = 0
      OBVIOUS
    <2> QED BY <1>3, <2>1, <2>2, <2>5, <2>6
  <1>5. PICK p \in Int, m \in Int : p = c.first + r /\ m = consumed[w]
    BY <1>3 DEF Chunks, Reader
  <1>6. /\ m < p
        /\ overwrite_policy_ = "kDiscard" => \A i \in m + 1 .. p - 1 : GivenUp(w, i)
    BY <1>2, <1>4, <1>5, NextPacketIsNew DEF Reader
  <1>7. PICK n \in ReadAheadTo(w, Id(k)) :
           \E lost \in SUBSET GoneOf(w, Id(k), n) : Glued(w, Id(k), n, lost)
    <2>1. read_iter_.cur = Id(k)
      BY <1>3 DEF CurKey
    <2> QED BY <1>3, <2>1, ReadAheadIs
  <1>8. n \in Nat /\ EndsAt(top, w, k, k + n)
    BY <1>3, <1>7, ReadAheadEndsAt
  <1>9. PICK f \in Nat : f = k + n
    BY <1>3, <1>8
  <1>10. /\ \A v \in Writers : \A j \in Shelf(data_, v) :
               <<v, Id(j)>> \in KeysOf(w, Id(k), n) <=> v = w /\ j \in k .. f
         /\ GoneOf(w, Id(k), n) = {}
         /\ LostOf(w, Id(k), n) # {} <=> Ends(w, f)
         /\ LostOf(w, Id(k), n) \subseteq {<<w, Id(f)>>}
         /\ PathOf(w, Id(k), n)[n + 1] = <<w, Id(f)>>
         /\ SlicesOf(w, Id(k), n)[1] = <<k, r + 1>>
         /\ SlicesOf(w, Id(k), n)[n + 1][1] = f
    BY <1>1, <1>2, <1>4, <1>7, <1>9, GluedIs DEF Reader
  <1>11. PICK keys, corrupt, slices, read :
            /\ keys = KeysOf(w, Id(k), n) /\ corrupt = LostOf(w, Id(k), n)
            /\ slices = SlicesOf(w, Id(k), n) /\ read = EntriesAfter(keys, corrupt)
    OBVIOUS
  <1>12. PICK lost \in SUBSET GoneOf(w, Id(k), n) : Glued(w, Id(k), n, lost)
    BY <1>7
  <1>13. LostOf(w, Id(k), n) \cup lost = corrupt
    BY <1>10, <1>11
  <1>14. PICK final : final = <<w, Id(f)>>
    OBVIOUS
  <1>15. /\ IF corrupt # {}
            THEN index_' = [read EXCEPT ![final].skipped = TRUE] /\ UNCHANGED <<read_pc, consumed>>
            ELSE index_' = read /\ ReturnPacket(slices)
         /\ read_iter_' = [read_iter_ EXCEPT !.cur = final[2]]
         /\ Reached(w, slices[n + 1][1])
    BY <1>10, <1>11, <1>12, <1>13, <1>14 DEF Glued
  <1>16. /\ slices[1] = <<k, r + 1>> /\ Reached(w, f) /\ final[2] = Id(f)
    BY <1>10, <1>11, <1>14, <1>15
  <1>17. /\ k < f /\ f <= top[w] /\ k .. f \subseteq Shelf(data_, w) /\ f \in Shelf(data_, w)
         /\ \A j \in k + 1 .. f - 1 : smb[w][j].n = 1 /\ smb[w][j].on
         /\ smb[w][f].from /\ (smb[w][f].on => smb[w][f].n > 1)
    <2>1. EndsAt(top, w, k, f) /\ f \in k .. f
      BY <1>3, <1>8, <1>9 DEF EndsAt
    <2> QED BY <2>1 DEF EndsAt
  <1>18. PICK d : d = smb[w][f]
    OBVIOUS
  <1>19. d \in Chunks /\ ChunkIsSound(d) /\ Committed(w, f) /\ d.n \in Nat /\ d.n >= 1 /\ OnShelf(top, w, f)
    <2>1. OnShelf(top, w, f)
      BY <1>3, <1>17, OnShelfIs DEF ShelfInv
    <2> QED BY <1>18, <2>1 DEF OnShelf, ChunkIsSound, Chunks
  \* The packet is the one with which both chunks have to do.
  <1>21. d.first = p
    <2>1. RunsThrough(smb[w], k, f)
      <3>1. ASSUME NEW i \in k .. f - 1 PROVE smb[w][i].on /\ (i > k => smb[w][i].n = 1)
        <4>1. i = k \/ i \in k + 1 .. f - 1
          BY <1>3
        <4> QED BY <1>3, <1>4, <1>17, <4>1
      <3> QED BY <3>1 DEF RunsThrough
    <2>2. Exists(w, k) /\ Exists(w, f) /\ ChunkTypes /\ PacketsInv
      BY <1>3, <1>19, InvParts DEF Committed, ShelfInv
    <2>3. d.first = LastPacket(c)
      BY <1>3, <1>17, <1>18, <2>1, <2>2, EarlierPackets
    <2>4. ~c.extra
      BY <1>3, <1>4 DEF ChunkIsSound
    <2>5. LastPacket(c) = c.first + c.n - 1 /\ c.first \in Int
      BY <1>3, <2>4, LastPacketIs
    <2> QED BY <1>4, <1>5, <2>3, <2>5
  <1>22. LastPacket(d) \in Int /\ p <= LastPacket(d) /\ (Ends(w, f) => d.bad /\ LastPacket(d) = p)
    <2>1. LastPacket(d) \in Int /\ d.first <= LastPacket(d)
          /\ (~d.extra => LastPacket(d) = d.first + d.n - 1)
      BY <1>19, LastPacketIs
    <2>2. Ends(w, f) => d.bad /\ d.n = 1 /\ ~d.extra
      BY <1>18, <1>19 DEF Ends, ChunkIsSound
    <2> QED BY <1>21, <2>1, <2>2
  \* The entries afterwards.
  <1>23. ASSUME NEW v \in Writers, NEW j \in Shelf(data_, v)
         PROVE  /\ <<v, Id(j)>> \in DOMAIN index_
                /\ v # w \/ j \notin k .. f => Meta(v, j)' = Meta(v, j)
                /\ v = w /\ j \in k .. f =>
                      /\ Meta(v, j)'.num_fragments = Meta(v, j).num_fragments
                      /\ Meta(v, j)'.num_fragments_read = ReadOf(v, j) + 1
    <2>1. PICK key : key = <<v, Id(j)>>
      OBVIOUS
    <2>2. /\ key \in DOMAIN index_
          /\ key \in keys <=> v = w /\ j \in k .. f
      <3>1. OnShelf(top, v, j)
        BY OnShelfIs DEF ShelfInv
      <3> QED BY <1>10, <1>11, <2>1, <3>1 DEF OnShelf
    <2>3. key = final => v = w /\ j = f
      BY <1>3, <1>14, <1>17, <2>1, SameKey
    <2>4. read[key] = IF key \in keys THEN AfterFragment(key, key \in corrupt) ELSE index_[key]
      BY <1>11, <2>2 DEF EntriesAfter
    <2>5. key \in DOMAIN read
      BY <1>11, <2>2 DEF EntriesAfter
    <2>6. f \in k .. f
      BY <1>3, <1>17
    <2>7. index_'[key] = read[key] \/ (key = final /\ index_'[key] = [read[key] EXCEPT !.skipped = TRUE])
      <3>1. CASE index_' = read
        BY <3>1
      <3>2. CASE index_' = [read EXCEPT ![final].skipped = TRUE]
        BY <2>5, <3>2
      <3> QED BY <1>15, <3>1, <3>2
    <2>8. CASE key \notin keys
      <3>1. key # final
        BY <2>2, <2>3, <2>6, <2>8
      <3>2. index_'[key] = index_[key]
        BY <2>4, <2>7, <2>8, <3>1
      <3> QED BY <2>1, <2>2, <2>8, <3>2 DEF Meta
    <2>9. CASE key \in keys
      <3>1. v = w /\ j \in k .. f /\ index_[key] \in Metas /\ index_[key] = Meta(v, j)
        BY <2>1, <2>2, <2>9, EntryIs DEF Reading, Meta
      <3>2. key \in corrupt => index_[key].num_fragments = index_[key].num_fragments_read + 1
        <4>1. ASSUME key \in corrupt PROVE index_[key].num_fragments = index_[key].num_fragments_read + 1
          <5>1. IsDropped(w, NextSlice(key))
            BY <1>11, <4>1 DEF LostOf
          <5>2. OnShelf(top, w, j)
            BY <3>1, OnShelfIs DEF ShelfInv
          <5>3. NextSlice(key)[1] = j /\ NextSlice(key)[2] = index_[key].num_fragments_read + 1
            BY <2>1, <3>1, <5>2 DEF OnShelf, NextSlice
          <5> QED BY <3>1, <5>1, <5>2, <5>3 DEF IsDropped, OnShelf
        <4> QED BY <4>1
      <3>3. PICK q : q = index_[key].num_fragments_read + 1
        OBVIOUS
      <3>4. q \in Int
        BY <3>1, <3>3 DEF Metas
      <3>5. read[key].num_fragments = index_[key].num_fragments /\ read[key].num_fragments_read = q
            /\ read[key] \in Metas
        <4>1. CASE key \in corrupt
          <5>1. read[key] = [index_[key] EXCEPT !.num_fragments_read = index_[key].num_fragments]
            BY <2>4, <2>9, <4>1 DEF AfterFragment
          <5> QED BY <3>1, <3>2, <3>3, <4>1, <5>1 DEF Metas
        <4>2. CASE key \notin corrupt
          <5>1. read[key] = [index_[key] EXCEPT !.num_fragments_read = q, !.skipped = FALSE]
            BY <2>4, <2>9, <3>3, <4>2 DEF AfterFragment
          <5> QED BY <3>1, <3>4, <5>1 DEF Metas
        <4> QED BY <4>1, <4>2
      <3>6. /\ index_'[key].num_fragments = index_[key].num_fragments
            /\ index_'[key].num_fragments_read = q
        BY <2>7, <3>5 DEF Metas
      <3>7. Meta(v, j)' = index_'[key] /\ ReadOf(v, j) + 1 = q
        BY <2>1, <3>1, <3>3 DEF Meta, ReadOf
      <3> QED BY <2>2, <3>1, <3>6, <3>7, <2>1
    <2> QED BY <2>8, <2>9
  <1>24. \A j \in Shelf(data_, w) :
            /\ Meta(w, j)'.num_fragments = Meta(w, j).num_fragments
            /\ j < f => ~Unread(Meta(w, j)')
            /\ j = f => Meta(w, j)'.num_fragments_read = 1
            /\ j > f => Meta(w, j)' = Meta(w, j)
    <2> SUFFICES ASSUME NEW j \in Shelf(data_, w)
                 PROVE  /\ Meta(w, j)'.num_fragments = Meta(w, j).num_fragments
                        /\ j < f => ~Unread(Meta(w, j)')
                        /\ j = f => Meta(w, j)'.num_fragments_read = 1
                        /\ j > f => Meta(w, j)' = Meta(w, j)
      OBVIOUS
    <2>1. /\ j \in Nat /\ Meta(w, j).num_fragments = smb[w][j].n
      BY <1>3, OnShelfIs DEF ShelfInv, OnShelf
    <2>2. CASE j < k
      <3>0. j \notin k .. f
        BY <1>3, <2>1, <2>2
      <3>1. Meta(w, j)' = Meta(w, j)
        BY <1>3, <1>23, <3>0
      <3> QED BY <1>3, <1>17, <2>1, <2>2, <3>1 DEF Stands
    <2>3. CASE j = k
      <3>1. /\ Meta(w, j)'.num_fragments = Meta(w, j).num_fragments
            /\ Meta(w, j)'.num_fragments_read = ReadOf(w, j) + 1
        BY <1>3, <1>17, <1>23, <2>1, <2>3
      <3>2. PICK i \in Nat : i = r + 1
        OBVIOUS
      <3>3. Meta(w, j)'.num_fragments_read = i /\ Meta(w, j)'.num_fragments = i
        BY <1>3, <1>4, <2>1, <2>3, <3>1, <3>2
      <3> QED BY <1>3, <1>17, <2>3, <3>1, <3>3 DEF Unread
    <2>4. CASE j > k
      <3>1. ReadOf(w, j) = 0
        <4>1. j > reached[w]
          <5>1. reached[w] \in Nat
            BY <1>3 DEF Reading
          <5> QED BY <1>3, <2>1, <2>4, <5>1
        <4> QED BY <1>3, <4>1 DEF Reader, Progress
      <3>2. CASE j > f
        <4>1. j \notin k .. f
          BY <1>3, <2>1, <3>2
        <4>2. Meta(w, j)' = Meta(w, j)
          BY <1>3, <1>23, <4>1
        <4> QED BY <2>1, <3>2, <4>2
      <3>3. CASE j <= f
        <4>1. j \in k .. f
          BY <1>3, <2>1, <2>4, <3>3
        <4>2. ReadOf(w, j) + 1 = 1
          BY <3>1
        <4>3. /\ Meta(w, j)'.num_fragments = Meta(w, j).num_fragments
              /\ Meta(w, j)'.num_fragments_read = 1
          BY <1>3, <1>23, <4>1, <4>2
        <4>4. j < f => Meta(w, j).num_fragments = 1
          <5>1. j < f => j \in k + 1 .. f - 1
            BY <1>3, <2>1, <2>4
          <5> QED BY <1>17, <2>1, <5>1
        <4> QED BY <2>1, <3>3, <4>3, <4>4 DEF Unread
      <3> QED BY <2>1, <3>2, <3>3
    <2> QED BY <1>3, <2>1, <2>2, <2>3, <2>4
  <1>25. \A v \in Writers \ {w} : \A j \in Shelf(data_, v) : Meta(v, j)' = Meta(v, j)
    BY <1>23
  <1>26. p = LET c1 == smb[w][f]
                 q == c1.first + 1 - 1
             IN  IF q < LastPacket(c1) THEN q ELSE LastPacket(c1)
    BY <1>18, <1>21, <1>22
  <1>27. reached' = [reached EXCEPT ![w] = f] /\ f >= reached[w]
    <2>1. reached[w] \in Nat /\ reached \in [Writers -> Nat]
      BY <1>3 DEF Reading
    <2>2. f >= reached[w] /\ reached[w] <= f
      BY <1>3, <1>17, <2>1
    <2> QED BY <1>3, <1>16, <2>1, <2>2, ReachedNow
  <1>28. ASSUME NEW q \in Int, q = consumed'[w], q <= p, \A v \in Writers \ {w} : consumed'[v] = consumed[v],
                overwrite_policy_ = "kDiscard" => \A i \in q + 1 .. p : GivenUp(w, i)
         PROVE  Advances(w, f, 1, p)
    <2>1. f \in Nat \ {0} /\ f \in Shelf(data_, w) /\ 1 <= smb[w][f].n /\ (smb[w][f].on => 1 < smb[w][f].n)
      BY <1>3, <1>17, <1>18, <1>19
    <2>2. \A i \in consumed'[w] + 1 .. p : i \in q + 1 .. p
      BY <1>28
    <2> QED BY <1>24, <1>25, <1>26, <1>27, <1>28, <2>1, <2>2 DEF Advances
  <1>29. read_iter_'.seq = w /\ read_iter_'.cur = Id(f)
    <2>1. read_iter_ \in [seq : Writers \cup {0}, cur : 0 .. End]
      BY DEF Reading, IterIsSound
    <2> QED BY <1>3, <1>15, <1>16, <2>1
  <1>30. consumed \in [Writers -> Int]
    BY DEF Reader
  <1>31. CASE corrupt # {}
    <2>1. UNCHANGED consumed /\ read_pc' # "returned"
      BY <1>1, <1>15, <1>31
    <2>2. GivenUp(w, p)
      <3>1. Ends(w, f)
        BY <1>10, <1>11, <1>31
      <3> QED BY <1>18, <1>19, <1>22, <3>1 DEF GivenUp
    <2>3. overwrite_policy_ = "kDiscard" => \A i \in m + 1 .. p : GivenUp(w, i)
      <3> SUFFICES ASSUME overwrite_policy_ = "kDiscard", NEW i \in m + 1 .. p PROVE GivenUp(w, i)
        OBVIOUS
      <3>1. i = p \/ i \in m + 1 .. p - 1
        OBVIOUS
      <3> QED BY <1>6, <2>2, <3>1
    <2>4. m = consumed'[w] /\ m <= p /\ \A v \in Writers \ {w} : consumed'[v] = consumed[v]
      BY <1>5, <1>6, <2>1
    <2>5. Advances(w, f, 1, p)
      BY <1>28, <2>3, <2>4
    <2> QED BY <1>1, <1>3, <1>29, <1>30, <2>1, <2>5, FragmentStepsOn, NothingReturned DEF Reader
  <1>32. CASE corrupt = {}
    <2>1. ReturnPacket(slices) /\ slices[1] = <<k, r + 1>> /\ UNCHANGED <<smb, overwrite_policy_>>
      BY <1>1, <1>15, <1>16, <1>32
    <2>2. /\ ReadInOrder' /\ NothingLostBefore'
          /\ consumed' = [consumed EXCEPT ![w] = p]
      BY <1>2, <1>5, <1>6, <1>30, <2>1, ReturnsInOrder
    <2>3. /\ p = consumed'[w] /\ \A v \in Writers \ {w} : consumed'[v] = consumed[v]
          /\ consumed' \in [Writers -> Int]
      BY <1>3, <1>30, <2>2
    <2>4. \A i \in p + 1 .. p : GivenUp(w, i)
      OBVIOUS
    <2>5. Advances(w, f, 1, p)
      BY <1>28, <2>3, <2>4
    <2> QED BY <1>1, <1>3, <1>29, <2>2, <2>3, <2>5, FragmentStepsOn DEF Reader, InOrder
  <1> QED BY <1>31, <1>32

-----------------------------------------------------------------------------
(***************************************************************************)
(* Reading without scraping, in all.                                       *)
(***************************************************************************)
ReaderInv ==
    /\ PacketsInv /\ sweep.todo = {}
    /\ \E top : WindowInv(top) /\ Reader(top)
    /\ InOrder

\* What a step of the reader that reads nothing comes to.
LEMMA NothingIsRead ==
  ASSUME NEW top, ShelfInv(top), Reader(top), Position', read_pc' # "returned",
         UNCHANGED <<smb, data_, index_, reached, consumed, overwrite_policy_>>
  PROVE  StepsOn(top)
  <1>1. Progress(top)' /\ Taken'
    BY ReadsNothing DEF Reader
  <1>2. consumed' \in [Writers -> Int]
    BY DEF Reader
  <1> QED BY <1>1, <1>2, NothingReturned DEF StepsOn

LEMMA ReadStepsOn ==
  ASSUME NEW top, ShelfInv(top), Reading, Reader(top), ReadStep, UNCHANGED overwrite_policy_
  PROVE  StepsOn(top)
  <1>1. CASE BeginRead
    <2>1. PICK it : it = read_iter_' /\ (it = NoIter \/ \E w \in SequencesInIndex : it = GetReadIterForSequence(w))
      <3>1. SequencesInIndex # {} => Min(SequencesInIndex) \in SequencesInIndex
        BY FirstSequence
      <3> QED BY <1>1, <3>1 DEF BeginRead
    <2>2. IterStands(it)
      BY <2>1, StartStands, NoIterIsSound DEF IterStands
    <2>3. UNCHANGED <<smb, data_, index_, reached, consumed>> /\ read_pc' = "chunk"
      BY <1>1 DEF BeginRead, ring, ghost
    <2>4. Position'
      BY <2>1, <2>2, <2>3, StandsNow
    <2> QED BY <2>3, <2>4, NothingIsRead
  <1>2. CASE ReadNextTracePacket
    <2>1. UNCHANGED <<smb, data_, index_, reached, consumed, read_iter_>> /\ read_pc' = "chunk"
      BY <1>2 DEF ReadNextTracePacket, ring, ghost
    <2>2. Position'
      BY <2>1, StandsNow DEF Reader, Position
    <2> QED BY <2>1, <2>2, NothingIsRead
  <1>3. CASE EnterChunk
    <2>1. UNCHANGED <<smb, data_, index_, reached, consumed>> /\ read_pc' # "returned"
      BY <1>3 DEF EnterChunk, ring, ghost
    <2>2. Position'
      BY <1>3, EnterChunkStands DEF Reader
    <2> QED BY <2>1, <2>2, NothingIsRead
  <1>4. CASE NoMoreFragments
    <2>1. UNCHANGED <<smb, data_, index_, reached, consumed>> /\ read_pc' = "chunk"
      BY <1>4 DEF NoMoreFragments, LeaveRing
    <2>2. Position'
      BY <1>4, NoMoreFragmentsStands DEF Reader
    <2> QED BY <2>1, <2>2, NothingIsRead
  <1>5. CASE ReadAheadFails
    <2>1. UNCHANGED <<smb, data_, index_, reached, consumed>> /\ read_pc' = "chunk"
      BY <1>5 DEF ReadAheadFails, LeaveRing
    <2>2. read_iter_'.cur = End
      <3>1. read_iter_ \in [seq : Writers \cup {0}, cur : 0 .. End]
        BY DEF Reading, IterIsSound
      <3> QED BY <1>5, <3>1 DEF ReadAheadFails
    <2> QED BY <2>1, <2>2, StandsNowhere, NothingIsRead
  <1>6. CASE EndRead
    <2>1. UNCHANGED <<smb, data_, index_, reached, consumed>> /\ read_pc' = "idle" /\ read_iter_' = NoIter
      BY <1>6 DEF EndRead, ring, ghost
    <2>2. read_iter_'.cur = End
      BY <2>1, NoIterIsSound
    <2> QED BY <2>1, <2>2, StandsNowhere, NothingIsRead
  <1> QED BY <1>1, <1>2, <1>3, <1>4, <1>5, <1>6, SkipFragmentStepsOn, ReadOnePacketStepsOn,
             ReadAheadStepsOn DEF ReadStep

\* A step of the reader changes neither the ring nor what of its chunks is complete.
LEMMA ReadKeepsComplete ==
  ASSUME Reading, ReadStep
  PROVE  /\ UNCHANGED <<smb, sweep, data_, wptr_, last_chunk_id_written_, discard_writes_>>
         /\ \A key \in DOMAIN index_ : index_'[key].complete = index_[key].complete
  <1>1. UNCHANGED <<smb, sweep, data_, wptr_, last_chunk_id_written_, discard_writes_>>
    BY DEF ReadStep, BeginRead, ReadNextTracePacket, EnterChunk, NoMoreFragments, SkipFragment,
           ReadOnePacket, ReadAhead, ReadAheadFails, EndRead, LeaveRing, ring
  <1>2. \A key \in DOMAIN index_ : \A invalid \in BOOLEAN :
           AfterFragment(key, invalid).complete = index_[key].complete
    BY EntryIs DEF AfterFragment, Metas, Reading
  <1>3. CASE SkipFragment \/ ReadOnePacket
    <2>1. CurKey \in DOMAIN index_
      BY <1>3, CurrentIs DEF SkipFragment, ReadOnePacket, NextFragment
    <2>2. PICK meta : meta.complete = index_[CurKey].complete /\ index_' = [index_ EXCEPT ![CurKey] = meta]
      <3>1. PICK invalid \in BOOLEAN :
               \/ index_' = [index_ EXCEPT ![CurKey] = AfterFragment(CurKey, invalid)]
               \/ index_' = [index_ EXCEPT ![CurKey] =
                                [AfterFragment(CurKey, invalid) EXCEPT !.skipped = TRUE]]
        BY <1>3 DEF SkipFragment, ReadOnePacket, IsDropped
      <3>4. PICK after : after = AfterFragment(CurKey, invalid)
        OBVIOUS
      <3>2. after \in Metas /\ after.complete = index_[CurKey].complete
        BY <1>2, <2>1, <3>4, AfterFragmentIs DEF Reading
      <3>3. [after EXCEPT !.skipped = TRUE].complete = after.complete
        BY <3>2 DEF Metas
      <3> QED BY <3>1, <3>2, <3>3, <3>4
    <2>3. \A key \in DOMAIN index_ : index_'[key].complete = index_[key].complete
      BY <2>1, <2>2
    <2> QED BY <1>1, <2>3
  <1>4. CASE ReadAhead
    <2>1. PICK n \in ReadAheadTo(read_iter_.seq, read_iter_.cur) :
             \E keys, corrupt : Glues(read_iter_.seq, read_iter_.cur, n, keys, corrupt)
      BY <1>4, ReadAheadGlues
    <2>2. PICK keys, corrupt : Glues(read_iter_.seq, read_iter_.cur, n, keys, corrupt)
      BY <2>1
    <2>3. PICK read, last : /\ read = EntriesAfter(keys, corrupt)
                            /\ index_' = read \/ index_' = [read EXCEPT ![last].skipped = TRUE]
      BY <2>2 DEF Glues
    <2>4. /\ DOMAIN read = DOMAIN index_
          /\ \A key \in DOMAIN index_ : read[key] \in Metas
      BY <2>3, EntriesAfterRead DEF Reading
    <2>5. \A key \in DOMAIN index_ : read[key].complete = index_[key].complete
      <3> SUFFICES ASSUME NEW key \in DOMAIN index_ PROVE read[key].complete = index_[key].complete
        OBVIOUS
      <3>1. CASE key \in keys
        <4>1. read[key] = AfterFragment(key, TRUE) \/ read[key] = AfterFragment(key, FALSE)
          BY <2>3, <3>1 DEF EntriesAfter, AfterFragment
        <4> QED BY <1>2, <4>1
      <3>2. CASE key \notin keys
        BY <2>3, <3>2 DEF EntriesAfter
      <3> QED BY <3>1, <3>2
    <2>6. \A key \in DOMAIN index_ : index_'[key].complete = read[key].complete
      BY <2>3, <2>4 DEF Metas
    <2> QED BY <1>1, <2>5, <2>6
  <1>5. CASE ~(SkipFragment \/ ReadOnePacket \/ ReadAhead)
    <2>1. UNCHANGED index_
      BY <1>5 DEF ReadStep, BeginRead, ReadNextTracePacket, EnterChunk, NoMoreFragments,
                  ReadAheadFails, EndRead, ring
    <2> QED BY <1>1, <2>1
  <1> QED BY <1>3, <1>4, <1>5

LEMMA ReadKeepsReader ==
  ASSUME ~Scraping, IdsLast, BufferInv, ReaderInv, ReadStep, UNCHANGED overwrite_policy_
  PROVE  ReaderInv'
  <1>1. PICK top : WindowInv(top) /\ Reader(top)
    BY DEF ReaderInv
  <1>2. Reading /\ PacketsInv /\ sweep.todo = {}
    BY ReaderMayRely DEF ReaderInv
  <1>3. StepsOn(top)
    BY <1>1, <1>2, ReadStepsOn DEF ShelfInv
  <1>4. PacketsInv' /\ WindowInv(top)' /\ sweep' = sweep
    BY <1>1, <1>2, ReadKeepsComplete, ReadKeepsWindow
  <1> QED BY <1>2, <1>3, <1>4 DEF ReaderInv, Reader, StepsOn

LEMMA RingKeepsReader ==
  ASSUME ~Scraping, IdsLast, BufferInv, ReaderInv, NEW top, WindowInv(top), Reader(top),
         RingMoves(top), read_pc = "idle",
         UNCHANGED <<sweep, read_pc, read_iter_, consumed, reached, overwrite_policy_>>
  PROVE  ReaderInv'
  <1>1. PICK new : WindowInv(new)' /\ \A v \in Writers : ShelfMoves(v, top, new)
    BY DEF RingMoves
  <1>2. new \in [Writers -> Nat] /\ PacketsInv /\ PacketsInv' /\ CommittedKeep /\ sweep'.todo = {}
    BY <1>1 DEF WindowInv, RingMoves, ReaderInv
  <1>3. Progress(new)'
    BY <1>1, <1>2, RingKeepsProgress DEF Reader
  <1>4. Taken'
    BY <1>1, <1>2, RingKeepsTaken DEF Reader
  <1>5. read_iter_'.cur = End
    BY InvParts DEF ReaderIsOnAChunk
  <1>6. Position' /\ InOrder'
    BY <1>5, StandsNowhere, NothingReturned
  <1> QED BY <1>1, <1>2, <1>3, <1>4, <1>6 DEF ReaderInv, Reader

LEMMA NextReader ==
  ASSUME ~Scraping, IdsLast
  PROVE  BufferInv /\ IdsFresh /\ ReaderInv /\ [Next]_vars => ReaderInv'
  <1> SUFFICES ASSUME BufferInv, IdsFresh, ReaderInv, [Next]_vars PROVE ReaderInv'
    OBVIOUS
  <1>1. CASE UNCHANGED vars
    <2>1. /\ UNCHANGED <<smb, data_, index_, reached, consumed, overwrite_policy_, sweep, wptr_,
                         last_chunk_id_written_, discard_writes_, read_pc, read_iter_, returned, late>>
      BY <1>1 DEF vars, ring, reader, ghost
    <2>2. PICK top : WindowInv(top) /\ Reader(top)
      BY DEF ReaderInv
    <2>3. PacketsInv' /\ WindowInv(top)' /\ sweep'.todo = {}
      BY <2>1, <2>2, ReadKeepsWindow DEF ReaderInv
    <2>4. Progress(top)' /\ Taken'
      BY <2>1, <2>2, ReadsNothing DEF Reader
    <2>5. Position'
      BY <2>1, <2>2, StandsNow DEF Reader, Position
    <2>6. InOrder'
      <3>1. ReadInOrder' /\ NothingLostBefore'
        <4>1. UNCHANGED <<ReadInOrder, NothingLostBefore>>
          BY <2>1 DEF ReadInOrder, NothingLostBefore, ReturnedPacket, PacketOf, ChunksOf, LastPacket
        <4> QED BY <4>1 DEF ReaderInv, InOrder
      <3> QED BY <3>1 DEF InOrder
    <2> QED BY <2>1, <2>2, <2>3, <2>4, <2>5, <2>6 DEF ReaderInv, Reader
  <1>2. CASE Next
    <2>1. PICK top : WindowInv(top) /\ Reader(top)
      BY DEF ReaderInv
    <2>2. CASE ReadStep
      BY <1>2, <2>2, ReadKeepsReader DEF Next
    <2>3. CASE ~ReadStep
      <3>1. /\ RingMoves(top) /\ read_pc = "idle"
            /\ UNCHANGED <<sweep, read_pc, read_iter_, consumed, reached, overwrite_policy_>>
        BY <1>2, <2>1, <2>3, RingSteps DEF ReaderInv
      <3> QED BY <2>1, <3>1, RingKeepsReader
    <2> QED BY <2>2, <2>3
  <1> QED BY <1>1, <1>2

LEMMA InitReader ==
  ASSUME ~Scraping, IdsLast
  PROVE  Init => ReaderInv
  <1> SUFFICES ASSUME Init PROVE ReaderInv
    OBVIOUS
  <1>1. PICK top : top = [w \in Writers |-> 0]
    OBVIOUS
  <1>2. PacketsInv /\ WindowInv(top)
    BY <1>1, InitWindow
  <1>3. sweep.todo = {} /\ read_pc = "idle" /\ consumed \in [Writers -> Int]
    BY DEF Init, NoSweep
  <1>4. /\ \A w \in Writers : reached[w] = 0 /\ top[w] = 0 /\ consumed[w] = 0
        /\ DOMAIN data_ = {}
    BY <1>1 DEF Init
  <1>5. \A w \in Writers : Shelf(data_, w) = {}
    BY <1>4 DEF Shelf, Of
  <1>6. Progress(top)
    BY <1>4, <1>5 DEF Progress
  <1>7. Taken
    BY <1>4 DEF Taken, TakenFrom
  <1>8. Position
    BY NoIterIsSound DEF Init, Position, IterStands
  <1>9. InOrder
    BY <1>3 DEF InOrder, ReadInOrder, NothingLostBefore
  <1> QED BY <1>2, <1>3, <1>6, <1>7, <1>8, <1>9 DEF ReaderInv, Reader

\* Where chunks are only committed: the chunks of a writer lie in the ring as one run
\* of ids, the reader has been through a beginning of it, and has returned no packet
\* beyond; as long as chunk ids do not come round to a chunk that still counts.
THEOREM ReaderInvariant ==
  ASSUME ~Scraping, IdsLast
  PROVE  Spec /\ []IdsFresh => []ReaderInv
  <1>1. Init => ReaderInv
    BY InitReader
  <1>2. BufferInv /\ IdsFresh /\ ReaderInv /\ [Next]_vars => ReaderInv'
    BY NextReader
  <1> QED BY <1>1, <1>2, BufferInvariant, PTL DEF Spec

\* For a ring of any size and any writers that are not scraped: ReadNextTracePacket
\* returns the packets of a writer in order and each once, across read passes that
\* stop anywhere, packets glued from several chunks, chunks overwritten and patched
\* in between, and ids that wrap.
THEOREM PacketsAreReadInOrder ==
  ASSUME ~Scraping, IdsLast
  PROVE  Spec /\ []IdsFresh => []ReadInOrder
  <1>1. ReaderInv => ReadInOrder
    BY DEF ReaderInv, InOrder
  <1> QED BY <1>1, ReaderInvariant, PTL

\* With kDiscard what is read of a writer's packets is a beginning of them: nothing
\* unread is overwritten, nothing is stored behind a chunk that was discarded, and
\* the packets missing are those the writer gave up for want of a chunk.
THEOREM DiscardKeepsTheBeginning ==
  ASSUME ~Scraping, IdsLast
  PROVE  Spec /\ []IdsFresh => []NothingLostBefore
  <1>1. ReaderInv => NothingLostBefore
    BY DEF ReaderInv, InOrder
  <1> QED BY <1>1, ReaderInvariant, PTL

=============================================================================
