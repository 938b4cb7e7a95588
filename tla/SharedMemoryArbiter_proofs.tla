--------------------- MODULE SharedMemoryArbiter_proofs ---------------------
(***************************************************************************)
(* Proofs about SharedMemoryArbiter, for any number of threads, writers,   *)
(* reservations and chunks: no request is left without a flush that will   *)
(* take it, nobody uses the arbiter once TryShutdown has succeeded, the    *)
(* service gets the chunks of a writer in the order they were written and  *)
(* passes none over, and each flush callback runs at most once, when what  *)
(* it covers has been copied.                                              *)
(***************************************************************************)
EXTENDS SharedMemoryArbiter, SequenceTheorems, WellFoundedInduction, FiniteSetTheorems, TLAPS

-----------------------------------------------------------------------------
(***************************************************************************)
(* Types: what threads, tasks and writers are made of.                     *)
(***************************************************************************)
FlushCalls == [op: {"Flush"}, callback: SUBSET Callbacks]
AbortCalls == [op: {"Abort"}, reservation: Reservations]
SendCalls ==
    [op: {"Send"}, msg: [type: {"Register"}, id: WriterIDs, buffer: Nat]
                           \cup [type: {"Unregister"}, id: Nat]]
Tasks == FlushCalls \cup AbortCalls \cup SendCalls

Posts    == [op: {"PostTask"}, task: Tasks]
Delays   == [op: {"PostDelayedFlush"}, kind: {"delayed", "immediate"}]
Releases == [op: {"ReleaseWriterID"}, w: Writers]
Returns  == [op: {"UpdateCommitDataRequest"}, w: Writers, chunk: Nat]
Scrapes  == [op: {"Scrape"}]

Steps == FlushCalls \cup AbortCalls \cup Posts \cup Delays \cup Releases \cup Returns \cup Scrapes

TraceWriters ==
    [state: {"none", "null", "live", "dead"}, id: Nat, target: Targets, chunks: Nat, open: Nat,
     patch_list: Seq([chunk: Nat, patched: BOOLEAN])]

Types ==
    /\ setup \in Setups
    /\ endpoint \in BOOLEAN /\ fully_bound_ \in BOOLEAN /\ may_delete \in BOOLEAN
    /\ delayed_flush_scheduled_ \in BOOLEAN /\ immediate_flush_scheduled_ \in BOOLEAN
    /\ target_buffer_reservations_ \in [Reservations -> {Absent, Unbound} \cup Nat]
    /\ pending_flush_callbacks_ \subseteq Callbacks
    /\ active_writer_ids_ \subseteq WriterIDs
    /\ last_id_ \in Nat
    /\ writer \in [Writers -> TraceWriters]
    /\ tasks \in Seq(Tasks)
    /\ timers \in [delayed: Nat, immediate: Nat]
    /\ todo \in [Threads -> Seq(Steps)]

-----------------------------------------------------------------------------
(***************************************************************************)
(* Sequences as sets, and smallest numbers.                                *)
(***************************************************************************)
\* The members of a concatenation.
LEMMA SetOfCat ==
  ASSUME NEW S, NEW a \in Seq(S), NEW b \in Seq(S)
  PROVE  /\ a \o b \in Seq(S)
         /\ ToSet(a \o b) = ToSet(a) \cup ToSet(b)
  <1>1. /\ a \o b \in Seq(S) /\ Len(a) \in Nat /\ Len(b) \in Nat
        /\ Len(a \o b) = Len(a) + Len(b)
        /\ \A i \in 1 .. Len(a) + Len(b) :
              (a \o b)[i] = IF i <= Len(a) THEN a[i] ELSE b[i - Len(a)]
    BY ConcatProperties, LenProperties
  <1>2. /\ DOMAIN a = 1 .. Len(a) /\ DOMAIN b = 1 .. Len(b)
        /\ DOMAIN (a \o b) = 1 .. Len(a) + Len(b)
    BY <1>1, LenProperties
  <1>3. ASSUME NEW x \in ToSet(a) PROVE x \in ToSet(a \o b)
    <2>1. PICK i \in 1 .. Len(a) : x = a[i]
      BY <1>2, <1>3 DEF ToSet
    <2>2. i \in 1 .. Len(a) + Len(b) /\ (a \o b)[i] = x
      BY <1>1, <2>1
    <2> QED BY <1>2, <2>2 DEF ToSet
  <1>4. ASSUME NEW x \in ToSet(b) PROVE x \in ToSet(a \o b)
    <2>1. PICK i \in 1 .. Len(b) : x = b[i]
      BY <1>2, <1>4 DEF ToSet
    <2>2. i + Len(a) \in 1 .. Len(a) + Len(b) /\ (a \o b)[i + Len(a)] = x
      BY <1>1, <2>1
    <2> QED BY <1>2, <2>2 DEF ToSet
  <1>5. ASSUME NEW x \in ToSet(a \o b) PROVE x \in ToSet(a) \cup ToSet(b)
    <2>1. PICK i \in 1 .. Len(a) + Len(b) : x = (a \o b)[i]
      BY <1>2, <1>5 DEF ToSet
    <2>2. CASE i <= Len(a)
      <3>1. i \in 1 .. Len(a) /\ x = a[i]
        BY <1>1, <2>1, <2>2
      <3> QED BY <1>2, <3>1 DEF ToSet
    <2>3. CASE ~(i <= Len(a))
      <3>1. i - Len(a) \in 1 .. Len(b) /\ x = b[i - Len(a)]
        BY <1>1, <2>1, <2>3
      <3> QED BY <1>2, <3>1 DEF ToSet
    <2> QED BY <2>2, <2>3
  <1> QED BY <1>1, <1>3, <1>4, <1>5

\* The members of short sequences.
LEMMA SetOfShort ==
  /\ ToSet(<<>>) = {}
  /\ \A x : ToSet(<<x>>) = {x}
  /\ \A x, y : ToSet(<<x, y>>) = {x, y}
  BY DEF ToSet

\* The first of a queue and the others.
LEMMA SetOfQueue ==
  ASSUME NEW S, NEW q \in Seq(S), q # <<>>
  PROVE  /\ Head(q) \in S /\ Tail(q) \in Seq(S)
         /\ ToSet(q) = {Head(q)} \cup ToSet(Tail(q))
         /\ Head(q) = q[1] /\ Len(Tail(q)) = Len(q) - 1
         /\ \A i \in 1 .. Len(q) - 1 : Tail(q)[i] = q[i + 1]
  <1>1. /\ Len(q) \in Nat \ {0} /\ DOMAIN q = 1 .. Len(q)
        /\ Head(q) = q[1] /\ Head(q) \in S
        /\ Tail(q) \in Seq(S) /\ Len(Tail(q)) = Len(q) - 1
        /\ \A i \in 1 .. Len(q) - 1 : Tail(q)[i] = q[i + 1]
    BY HeadTailProperties, LenProperties, EmptySeq
  <1>2. DOMAIN Tail(q) = 1 .. Len(q) - 1
    BY <1>1, LenProperties
  <1>3. ASSUME NEW x \in ToSet(q) PROVE x = Head(q) \/ x \in ToSet(Tail(q))
    <2>1. PICK i \in 1 .. Len(q) : x = q[i]
      BY <1>1, <1>3 DEF ToSet
    <2>2. CASE i > 1
      <3>1. i - 1 \in 1 .. Len(q) - 1 /\ Tail(q)[i - 1] = x
        BY <1>1, <2>1, <2>2
      <3> QED BY <1>2, <3>1 DEF ToSet
    <2> QED BY <1>1, <2>1, <2>2
  <1>4. ASSUME NEW x \in ToSet(Tail(q)) PROVE x \in ToSet(q)
    <2>1. PICK i \in 1 .. Len(q) - 1 : x = Tail(q)[i]
      BY <1>2, <1>4 DEF ToSet
    <2>2. i + 1 \in 1 .. Len(q) /\ q[i + 1] = x
      BY <1>1, <2>1
    <2> QED BY <1>1, <2>2 DEF ToSet
  <1>5. Head(q) \in ToSet(q)
    BY <1>1 DEF ToSet
  <1> QED BY <1>1, <1>3, <1>4, <1>5

\* A set of numbers that is not empty has a smallest one.
LEMMA LeastElement ==
  ASSUME NEW T \in SUBSET Nat, T # {}
  PROVE  \E n \in T : \A m \in T : n <= m
  <1> DEFINE R == OpToRel(<, Nat)
  <1>1. IsWellFoundedOn(R, Nat)
    BY NatLessThanWellFounded
  <1>2. \A x, y \in Nat : y < x => <<y, x>> \in R
    BY DEF OpToRel
  <1> HIDE DEF R
  <1>3. PICK x \in T : \A y \in T : ~ (<<y, x>> \in R)
    BY <1>1, WFMin
  <1>4. ASSUME NEW y \in T PROVE x <= y
    <2>1. ~ (<<y, x>> \in R) /\ x \in Nat /\ y \in Nat
      BY <1>3
    <2>2. ~ (y < x)
      BY <1>2, <2>1
    <2> QED BY <2>1, <2>2
  <1> QED BY <1>4

\* Among the members of a set on which a number is defined, one has the smallest.
LEMMA LeastValue ==
  ASSUME NEW S, S # {}, NEW f \in [S -> Nat]
  PROVE  \E x \in S : \A y \in S : f[x] <= f[y]
  <1> DEFINE T == {f[x] : x \in S}
  <1>1. T \in SUBSET Nat /\ T # {}
    OBVIOUS
  <1>2. PICK n \in T : \A m \in T : n <= m
    <2> HIDE DEF T
    <2> QED BY <1>1, LeastElement
  <1> QED BY <1>2

-----------------------------------------------------------------------------
\* AllocateId hands out an id that nobody has, or 0.
LEMMA AllocatedIdIsFree ==
  ASSUME Types
  PROVE  /\ AllocateId \in Nat
         /\ AllocateId # 0 => AllocateId \in WriterIDs \ active_writer_ids_
  <1> DEFINE free == WriterIDs \ active_writer_ids_
             f == [id \in free |-> CircleDistance(id)]
  <1>1. CASE free = {}
    BY <1>1 DEF AllocateId
  <1>2. CASE free # {}
    <2>1. f \in [free -> Nat]
      <3>1. kMaxWriterID \in Nat \ {0} /\ last_id_ \in Nat
        BY ArbiterAssumption DEF Types
      <3>2. \A x \in Int : x % kMaxWriterID \in Nat
        BY <3>1
      <3> QED BY <3>1, <3>2 DEF CircleDistance, WriterIDs
    <2>2. PICK x \in free : \A y \in free : f[x] <= f[y]
      <3> HIDE DEF f, free
      <3> QED BY <1>2, <2>1, LeastValue
    <2>3. \E id \in free : \A j \in free : CircleDistance(id) <= CircleDistance(j)
      BY <2>2
    <2>4. AllocateId \in free
      BY <1>2, <2>3 DEF AllocateId
    <2> QED BY <2>4, ArbiterAssumption DEF WriterIDs
  <1> QED BY <1>1, <1>2

\* The patches that are ready are a beginning of the list.
LEMMA PatchedPrefixIsPrefix ==
  ASSUME NEW list \in Seq([chunk: Nat, patched: BOOLEAN])
  PROVE  PatchedPrefix(list) \in 0 .. Len(list)
  <1> DEFINE open == {j \in 1 .. Len(list) : ~list[j].patched}
  <1>1. Len(list) \in Nat /\ open \in SUBSET Nat
    BY LenProperties
  <1>2. \E n \in 0 .. Len(list) : /\ \A j \in 1 .. n : list[j].patched
                                  /\ n < Len(list) => ~list[n + 1].patched
    <2>1. CASE open = {}
      BY <1>1, <2>1
    <2>2. CASE open # {}
      <3>1. PICK k \in open : \A m \in open : k <= m
        <4> HIDE DEF open
        <4> QED BY <1>1, <2>2, LeastElement
      <3>2. k - 1 \in 0 .. Len(list) /\ ~list[(k - 1) + 1].patched
        BY <1>1, <3>1
      <3>3. \A j \in 1 .. k - 1 : list[j].patched
        BY <1>1, <3>1
      <3> QED BY <3>2, <3>3
    <2> QED BY <2>1, <2>2
  <1> QED BY <1>2 DEF PatchedPrefix

-----------------------------------------------------------------------------
(***************************************************************************)
(* The inductive invariant.                                                *)
(***************************************************************************)
Ops(t) == ToSet(todo[t])

IsRelease(op) == op.op = "ReleaseWriterID"

\* Steps that use the members of the arbiter.
Uses(op) ==
    \/ op.op \in {"UpdateCommitDataRequest", "Flush", "ReleaseWriterID"}
    \/ op.op = "PostTask" /\ op.task.op = "Flush"

\* Releasing the id is the last step of destroying a writer.
ReleaseIsLast(q) == \A i \in 1 .. Len(q) - 1 : ~IsRelease(q[i])

\* Writer w is alive, or its thread is about to release its id.
HoldsId(w) ==
    \/ writer[w].state = "live"
    \/ \E op \in Ops(Home[w]) : IsRelease(op) /\ op.w = w

\* Writers have ids of their own, and a thread of the producer uses the arbiter
\* on behalf of a writer that has one.
UserInv ==
    /\ \A w \in Writers : HoldsId(w) => writer[w].id \in active_writer_ids_
    /\ \A v, w \in Writers :
          HoldsId(v) /\ HoldsId(w) /\ writer[v].id = writer[w].id => v = w
    /\ \A t \in Threads : ReleaseIsLast(todo[t])
    /\ \A t \in Threads : \A op \in Ops(t) :
          IsRelease(op) => Home[op.w] = t /\ writer[op.w].state = "dead"
    /\ \A t \in AppThreads : \A op \in Ops(t) :
          Uses(op) => \E w \in Writers : Home[w] = t /\ HoldsId(w)
    /\ may_delete => active_writer_ids_ = {}

\* A delayed flush has been posted, or is about to be.
DelayedFlushUnderWay ==
    \/ timers.delayed + timers.immediate > 0
    \/ \E t \in Threads : \E op \in Ops(t) : op.op = "PostDelayedFlush"

SomeFlushUnderWay ==
    \/ timers.delayed + timers.immediate > 0
    \/ \E op \in ToSet(tasks) : Flushes(op)
    \/ \E t \in Threads : \E op \in Ops(t) : Flushes(op)

\* There is a request, or there may be one again after scraping.
RequestIsOwed ==
    /\ fully_bound_ /\ ~may_delete
    /\ commit_data_req_ # None \/ \E op \in Ops(IPC) : op.op = "Scrape"

\* The two flags tell the truth, and so does the existence of a request.
FlushInv ==
    /\ (delayed_flush_scheduled_ \/ immediate_flush_scheduled_) /\ ~may_delete
          => DelayedFlushUnderWay
    /\ RequestIsOwed => SomeFlushUnderWay
    /\ \A op \in Ops(IPC) : op.op = "Scrape" =>
          \A other \in Ops(IPC) : other.op \in {"Scrape", "PostTask"}

ArbiterInv == Types /\ UserInv /\ FlushInv

-----------------------------------------------------------------------------
(***************************************************************************)
(* What a step does to the queue of its thread.                            *)
(***************************************************************************)
\* What is left for the thread after its step.
Rest(t) == IF todo[t] = <<>> THEN <<>> ELSE Tail(todo[t])

\* Thread t makes a step and is going to do ops.
Does(t, ops) ==
    /\ t \in Threads /\ ops \in Seq(Steps)
    /\ todo' = [todo EXCEPT ![t] = ops \o Rest(t)]

\* The members of the queues after a step.
LEMMA DoesEffect ==
  ASSUME Types, NEW t, NEW ops, Does(t, ops)
  PROVE  /\ todo' \in [Threads -> Seq(Steps)]
         /\ Rest(t) \in Seq(Steps)
         /\ Ops(t)' = ToSet(ops) \cup ToSet(Rest(t))
         /\ ToSet(Rest(t)) \subseteq Ops(t)
         /\ todo[t] # <<>> => Head(todo[t]) \in Steps
                               /\ Ops(t) = {Head(todo[t])} \cup ToSet(Rest(t))
         /\ todo[t] = <<>> => Ops(t) = {}
         /\ \A u \in Threads \ {t} : todo'[u] = todo[u] /\ Ops(u)' = Ops(u)
  <1>1. todo \in [Threads -> Seq(Steps)] /\ t \in Threads /\ ops \in Seq(Steps)
    BY DEF Types, Does
  <1>2. Rest(t) \in Seq(Steps)
    BY <1>1, SetOfQueue, EmptySeq DEF Rest
  <1>3. ops \o Rest(t) \in Seq(Steps) /\ ToSet(ops \o Rest(t)) = ToSet(ops) \cup ToSet(Rest(t))
    BY <1>1, <1>2, SetOfCat
  <1>4. /\ todo' = [todo EXCEPT ![t] = ops \o Rest(t)]
        /\ todo'[t] = ops \o Rest(t)
        /\ \A u \in Threads \ {t} : todo'[u] = todo[u]
    BY <1>1 DEF Does
  <1>5. todo' \in [Threads -> Seq(Steps)]
    BY <1>1, <1>3, <1>4
  <1>6. /\ todo[t] # <<>> => Head(todo[t]) \in Steps
                               /\ Ops(t) = {Head(todo[t])} \cup ToSet(Rest(t))
        /\ todo[t] = <<>> => Ops(t) = {} /\ ToSet(Rest(t)) = {}
    BY <1>1, SetOfQueue, SetOfShort DEF Rest, Ops
  <1> QED BY <1>2, <1>3, <1>4, <1>5, <1>6 DEF Ops

\* Releasing an id stays the last step of a thread.
LEMMA ReleaseStaysLast ==
  ASSUME Types, NEW t, NEW ops, Does(t, ops), ReleaseIsLast(todo[t]),
         \A op \in ToSet(ops) : ~IsRelease(op)
  PROVE  ReleaseIsLast(todo[t])'
  <1>1. todo \in [Threads -> Seq(Steps)] /\ t \in Threads /\ ops \in Seq(Steps)
        /\ Rest(t) \in Seq(Steps) /\ todo'[t] = ops \o Rest(t)
    BY DoesEffect DEF Types, Does
  <1>2. \A i \in 1 .. Len(Rest(t)) - 1 : ~IsRelease(Rest(t)[i])
    <2>1. CASE todo[t] = <<>>
      <3>1. Len(Rest(t)) = 0
        BY <2>1, EmptySeq DEF Rest
      <3> QED BY <3>1
    <2>2. CASE todo[t] # <<>>
      <3>1. /\ Rest(t) = Tail(todo[t]) /\ Len(todo[t]) \in Nat
            /\ Len(Tail(todo[t])) = Len(todo[t]) - 1
            /\ \A i \in 1 .. Len(todo[t]) - 1 : Tail(todo[t])[i] = todo[t][i + 1]
        BY <1>1, <2>2, SetOfQueue, LenProperties DEF Rest
      <3> QED BY <3>1 DEF ReleaseIsLast
    <2> QED BY <2>1, <2>2
  <1>3. /\ Len(ops) \in Nat /\ Len(Rest(t)) \in Nat /\ DOMAIN ops = 1 .. Len(ops)
        /\ Len(ops \o Rest(t)) = Len(ops) + Len(Rest(t))
        /\ \A i \in 1 .. Len(ops) + Len(Rest(t)) :
              (ops \o Rest(t))[i] = IF i <= Len(ops) THEN ops[i] ELSE Rest(t)[i - Len(ops)]
    BY <1>1, ConcatProperties, LenProperties
  <1>4. \A i \in 1 .. Len(ops) : ~IsRelease(ops[i])
    BY <1>3 DEF ToSet
  <1>5. ASSUME NEW i \in 1 .. Len(ops \o Rest(t)) - 1 PROVE ~IsRelease((ops \o Rest(t))[i])
    <2>1. CASE i <= Len(ops)
      <3>1. i \in 1 .. Len(ops) /\ (ops \o Rest(t))[i] = ops[i]
        BY <1>3, <2>1
      <3> QED BY <1>4, <3>1
    <2>2. CASE ~(i <= Len(ops))
      <3>1. i - Len(ops) \in 1 .. Len(Rest(t)) - 1 /\ (ops \o Rest(t))[i] = Rest(t)[i - Len(ops)]
        BY <1>3, <2>2
      <3> QED BY <1>2, <3>1
    <2> QED BY <2>1, <2>2
  <1> QED BY <1>1, <1>5 DEF ReleaseIsLast

\* What a thread is going to do is typed.
LEMMA OpsAreTyped ==
  ASSUME Types, NEW t \in Threads, NEW op \in Ops(t)
  PROVE  op \in Steps /\ (IsRelease(op) => op.w \in Writers)
  <1>1. PICK q : q = todo[t]
    OBVIOUS
  <1>2. q \in Seq(Steps) /\ op \in ToSet(q)
    BY <1>1 DEF Types, Ops
  <1>3. op \in Steps
    <2>1. DOMAIN q = 1 .. Len(q) /\ \A i \in 1 .. Len(q) : q[i] \in Steps
      BY <1>2, ElementOfSeq, LenProperties
    <2> QED BY <1>2, <2>1 DEF ToSet
  <1>4. IsRelease(op) => op.w \in Writers
    BY <1>3 DEF Steps, FlushCalls, AbortCalls, Posts, Delays, Releases, Returns, Scrapes, IsRelease
  <1> QED BY <1>3, <1>4

\* Writers keep their ids and states.
SameWriters ==
    \A w \in Writers : writer'[w].state = writer[w].state /\ writer'[w].id = writer[w].id

\* A step that neither creates nor destroys a writer nor releases an id.
LEMMA UserFrame ==
  ASSUME Types, UserInv, NEW t, NEW ops, Does(t, ops), SameWriters,
         UNCHANGED <<active_writer_ids_, may_delete>>,
         todo[t] # <<>> => ~IsRelease(Head(todo[t])),
         \A op \in ToSet(ops) : ~IsRelease(op),
         \A op \in ToSet(ops) : Uses(op) /\ t \in AppThreads =>
            \E w \in Writers : Home[w] = t /\ HoldsId(w)
  PROVE  UserInv'
  <1>1. /\ Ops(t)' = ToSet(ops) \cup ToSet(Rest(t)) /\ ToSet(Rest(t)) \subseteq Ops(t)
        /\ todo[t] # <<>> => Ops(t) = {Head(todo[t])} \cup ToSet(Rest(t))
        /\ todo[t] = <<>> => Ops(t) = {}
        /\ \A u \in Threads \ {t} : todo'[u] = todo[u] /\ Ops(u)' = Ops(u)
    BY DoesEffect
  <1>2. \A u \in Threads : \A op : IsRelease(op) => (op \in Ops(u)' <=> op \in Ops(u))
    BY <1>1
  <1>3. \A w \in Writers : Home[w] \in Threads
    BY ArbiterAssumption DEF Threads
  <1>4. \A w \in Writers : HoldsId(w)' <=> HoldsId(w)
    BY <1>2, <1>3 DEF HoldsId, SameWriters
  <1>5. \A u \in Threads : ReleaseIsLast(todo[u])'
    <2>1. ReleaseIsLast(todo[t])'
      BY ReleaseStaysLast DEF UserInv, Does
    <2> QED BY <1>1, <2>1 DEF ReleaseIsLast, UserInv
  <1>6. ASSUME NEW u \in Threads, NEW op \in Ops(u)', IsRelease(op)
        PROVE  Home[op.w] = u /\ (writer[op.w].state = "dead")'
    <2>1. op \in Ops(u) /\ Home[op.w] = u /\ writer[op.w].state = "dead"
      BY <1>2, <1>6 DEF UserInv
    <2>2. op.w \in Writers
      BY <1>6, <2>1, OpsAreTyped
    <2> QED BY <2>1, <2>2 DEF SameWriters
  <1>7. ASSUME NEW u \in AppThreads, NEW op \in Ops(u)', Uses(op)
        PROVE  \E w \in Writers : Home[w] = u /\ HoldsId(w)'
    <2>1. \E w \in Writers : Home[w] = u /\ HoldsId(w)
      BY <1>1, <1>7 DEF UserInv, Threads
    <2> QED BY <1>4, <2>1
  <1>8. \A w \in Writers : HoldsId(w)' => writer'[w].id \in active_writer_ids_'
    BY <1>4 DEF UserInv, SameWriters
  <1>9. \A v, w \in Writers :
          HoldsId(v)' /\ HoldsId(w)' /\ writer'[v].id = writer'[w].id => v = w
    BY <1>4 DEF UserInv, SameWriters
  <1> QED BY <1>5, <1>6, <1>7, <1>8, <1>9 DEF UserInv

\* A step that takes no flush away without putting another one in its place.
LEMMA FlushFrame ==
  ASSUME Types, FlushInv, NEW t, NEW ops, Does(t, ops),
         (delayed_flush_scheduled_' \/ immediate_flush_scheduled_') /\ ~may_delete' =>
            \/ (delayed_flush_scheduled_ \/ immediate_flush_scheduled_) /\ ~may_delete
            \/ DelayedFlushUnderWay',
         timers.delayed + timers.immediate > 0 => (timers.delayed + timers.immediate > 0)',
         \A op \in ToSet(tasks) : Flushes(op) => op \in ToSet(tasks'),
         todo[t] # <<>> /\ Flushes(Head(todo[t])) => SomeFlushUnderWay' \/ ~RequestIsOwed',
         todo[t] # <<>> /\ Head(todo[t]).op = "PostDelayedFlush" => DelayedFlushUnderWay',
         fully_bound_' /\ ~may_delete' => (fully_bound_ /\ ~may_delete) \/ SomeFlushUnderWay',
         commit_data_req_' # None /\ fully_bound_' /\ ~may_delete' =>
            \/ commit_data_req_ # None \/ (\E op \in Ops(IPC) : op.op = "Scrape")
            \/ SomeFlushUnderWay',
         \A op \in ToSet(ops) : op.op # "Scrape",
         t = IPC /\ todo[t] # <<>> /\ Head(todo[t]).op \in {"Scrape", "PostTask"} => ops = <<>>
  PROVE  FlushInv'
  <1>1. /\ Ops(t)' = ToSet(ops) \cup ToSet(Rest(t)) /\ ToSet(Rest(t)) \subseteq Ops(t)
        /\ todo[t] # <<>> => Ops(t) = {Head(todo[t])} \cup ToSet(Rest(t))
        /\ todo[t] = <<>> => Ops(t) = {}
        /\ \A u \in Threads \ {t} : Ops(u)' = Ops(u)
        /\ t \in Threads /\ IPC \in Threads
    BY DoesEffect DEF Does, Threads
  <1>2. DelayedFlushUnderWay => DelayedFlushUnderWay'
    <2>1. CASE timers.delayed + timers.immediate > 0
      BY <2>1 DEF DelayedFlushUnderWay
    <2>2. ASSUME NEW u \in Threads, NEW op \in Ops(u), op.op = "PostDelayedFlush"
          PROVE  DelayedFlushUnderWay'
      <3>1. CASE op \in Ops(u)'
        BY <2>2, <3>1 DEF DelayedFlushUnderWay
      <3>2. CASE op \notin Ops(u)'
        <4>1. u = t /\ todo[t] # <<>> /\ op = Head(todo[t])
          BY <1>1, <2>2, <3>2
        <4> QED BY <2>2, <4>1
      <3> QED BY <3>1, <3>2
    <2> QED BY <2>1, <2>2 DEF DelayedFlushUnderWay
  <1>3. SomeFlushUnderWay => SomeFlushUnderWay' \/ ~RequestIsOwed'
    <2>1. CASE timers.delayed + timers.immediate > 0
      BY <2>1 DEF SomeFlushUnderWay
    <2>2. CASE \E op \in ToSet(tasks) : Flushes(op)
      BY <2>2 DEF SomeFlushUnderWay
    <2>3. ASSUME NEW u \in Threads, NEW op \in Ops(u), Flushes(op)
          PROVE  SomeFlushUnderWay' \/ ~RequestIsOwed'
      <3>1. CASE op \in Ops(u)'
        BY <2>3, <3>1 DEF SomeFlushUnderWay
      <3>2. CASE op \notin Ops(u)'
        <4>1. u = t /\ todo[t] # <<>> /\ op = Head(todo[t])
          BY <1>1, <2>3, <3>2
        <4> QED BY <2>3, <4>1
      <3> QED BY <3>1, <3>2
    <2> QED BY <2>1, <2>2, <2>3 DEF SomeFlushUnderWay
  <1>4. \A op : op.op = "Scrape" /\ op \in Ops(IPC)' => op \in Ops(IPC)
    BY <1>1
  <1>5. RequestIsOwed' => RequestIsOwed \/ SomeFlushUnderWay'
    BY <1>4 DEF RequestIsOwed
  <1>6. ASSUME NEW op \in Ops(IPC)', op.op = "Scrape", NEW other \in Ops(IPC)'
        PROVE  other.op \in {"Scrape", "PostTask"}
    <2>1. op \in Ops(IPC) /\ \A x \in Ops(IPC) : x.op \in {"Scrape", "PostTask"}
      BY <1>4, <1>6 DEF FlushInv
    <2>2. CASE other \in Ops(IPC)
      BY <2>1, <2>2
    <2>3. CASE other \notin Ops(IPC)
      <3>1. t = IPC /\ other \in ToSet(ops) /\ todo[t] # <<>>
        BY <1>1, <1>6, <2>1, <2>3
      <3>2. Head(todo[t]) \in Ops(IPC)
        BY <1>1, <3>1
      <3>3. ops = <<>>
        BY <2>1, <3>1, <3>2
      <3> QED BY <3>1, <3>3, SetOfShort
    <2> QED BY <2>2, <2>3
  <1> QED BY <1>2, <1>3, <1>5, <1>6 DEF FlushInv

\* A call into a writer, or an abort, of a thread that has nothing to do.
LEMMA CallFrame ==
  ASSUME ArbiterInv, NEW t \in Threads, Idle(t), NEW ops \in Seq(Steps),
         todo' = [todo EXCEPT ![t] = ops],
         UNCHANGED <<setup, arbiter, tasks, timers, may_delete>>,
         writer' \in [Writers -> TraceWriters], SameWriters,
         \A op \in ToSet(ops) : ~IsRelease(op) /\ op.op # "Scrape",
         \A op \in ToSet(ops) : Uses(op) => \E w \in Writers : Home[w] = t /\ HoldsId(w)
  PROVE  ArbiterInv'
  <1>1. Types /\ UserInv /\ FlushInv
    BY DEF ArbiterInv
  <1>2. Does(t, ops)
    <2>1. todo[t] = <<>> /\ Rest(t) = <<>>
      BY DEF Idle, Rest
    <2>2. ops \o <<>> = ops
      BY ConcatEmptySeq
    <2> QED BY <2>1, <2>2 DEF Does
  <1>3. Types'
    <2>1. todo' \in [Threads -> Seq(Steps)]
      BY <1>1, <1>2, DoesEffect
    <2> QED BY <1>1, <2>1 DEF Types, arbiter, binding, ids, batch, flags
  <1>4. UserInv'
    <2>1. UNCHANGED <<active_writer_ids_, may_delete>> /\ todo[t] = <<>>
      BY DEF arbiter, ids, Idle
    <2> QED BY <1>1, <1>2, <2>1, UserFrame
  <1>5. FlushInv'
    <2>1. todo[t] = <<>> /\ UNCHANGED <<delayed_flush_scheduled_, immediate_flush_scheduled_,
                                        fully_bound_, commit_data_req_, tasks, timers, may_delete>>
      BY DEF arbiter, binding, batch, flags, Idle
    <2> QED BY <1>1, <1>2, <2>1, FlushFrame
  <1> QED BY <1>3, <1>4, <1>5 DEF ArbiterInv

-----------------------------------------------------------------------------
(***************************************************************************)
(* Calls of a thread into a writer or the arbiter.                         *)
(***************************************************************************)
\* What threads and tasks are going to do is well typed.
LEMMA StepsAreTyped ==
  /\ \A cb \in SUBSET Callbacks : FlushCall(cb) \in Tasks /\ FlushCall(cb) \in Steps
  /\ \A r \in Reservations : AbortCall(r) \in Tasks /\ AbortCall(r) \in Steps
  /\ \A task \in Tasks : PostTask(task) \in Steps
  /\ \A kind \in {"delayed", "immediate"} : PostFlush(kind) \in Steps
  /\ \A w \in Writers : [op |-> "ReleaseWriterID", w |-> w] \in Steps
  /\ \A w \in Writers, k \in Nat : ReturnCall(w, k) \in Steps
  /\ [op |-> "Scrape"] \in Steps
  /\ \A id \in WriterIDs, b \in Nat : SendCall(Register(id, b)) \in Tasks
  /\ \A id \in Nat : SendCall(Unregister(id)) \in Tasks
  BY DEF FlushCall, AbortCall, PostTask, PostFlush, ReturnCall, SendCall, Register, Unregister,
         Tasks, Steps, FlushCalls, AbortCalls, SendCalls, Posts, Delays, Releases, Returns, Scrapes

\* The writers in use are writers, and the bounds are numbers.
LEMMA SetupIsTyped ==
  ASSUME Types
  PROVE  /\ DOMAIN setup.chunks \subseteq Writers
         /\ \A w \in DOMAIN setup.chunks : setup.chunks[w] \in Nat
         /\ setup.patches \in Nat
         /\ setup.callbacks \subseteq Callbacks
  BY ArbiterAssumption DEF Types

\* A change of a writer that leaves its id and its state alone.
LEMMA WriterChanges ==
  ASSUME Types, NEW w \in Writers, NEW new \in TraceWriters,
         new.state = writer[w].state, new.id = writer[w].id,
         writer' = [writer EXCEPT ![w] = new]
  PROVE  writer' \in [Writers -> TraceWriters] /\ SameWriters
  BY DEF Types, SameWriters

\* The fields of a writer.
LEMMA WriterIsTyped ==
  ASSUME Types, NEW w \in Writers
  PROVE  /\ writer[w].chunks \in Nat /\ writer[w].open \in Nat /\ writer[w].id \in Nat
         /\ writer[w].patch_list \in Seq([chunk: Nat, patched: BOOLEAN])
         /\ writer[w].target \in Targets
         /\ writer[w].state \in {"none", "null", "live", "dead"}
  BY DEF Types, TraceWriters

\* GetNewBuffer.
LEMMA GetNewBufferStep ==
  ASSUME ArbiterInv, NEW t \in Threads, NEW w \in DOMAIN setup.chunks,
         NEW np \in 0 .. setup.patches, NEW sync \in BOOLEAN, GetNewBuffer(t, w, np, sync),
         UNCHANGED setup
  PROVE  ArbiterInv'
  <1> DEFINE k == writer[w].open
             ops == (IF sync THEN <<FlushCall({})>> ELSE <<>>)
                       \o (IF k = 0 THEN <<>> ELSE <<ReturnCall(w, k)>>)
  <1>1. Types /\ w \in Writers
    BY SetupIsTyped DEF ArbiterInv
  <1>2. /\ k \in Nat /\ writer[w].chunks + 1 \in Nat /\ np \in Nat
        /\ writer[w].patch_list \in Seq([chunk: Nat, patched: BOOLEAN])
    BY <1>1, SetupIsTyped, WriterIsTyped
  <1>3. /\ (IF sync THEN <<FlushCall({})>> ELSE <<>>) \in Seq(Steps)
        /\ (IF k = 0 THEN <<>> ELSE <<ReturnCall(w, k)>>) \in Seq(Steps)
    BY <1>1, <1>2, StepsAreTyped
  <1>4. ops \in Seq(Steps) /\ ToSet(ops) \subseteq {FlushCall({}), ReturnCall(w, k)}
    <2>1. PICK a : a = IF sync THEN <<FlushCall({})>> ELSE <<>>
      OBVIOUS
    <2>2. PICK b : b = IF k = 0 THEN <<>> ELSE <<ReturnCall(w, k)>>
      OBVIOUS
    <2>3. a \in Seq(Steps) /\ b \in Seq(Steps)
      BY <1>3, <2>1, <2>2
    <2>4. a \o b \in Seq(Steps) /\ ToSet(a \o b) = ToSet(a) \cup ToSet(b)
      BY <2>3, SetOfCat
    <2>5. ToSet(a) \subseteq {FlushCall({})} /\ ToSet(b) \subseteq {ReturnCall(w, k)}
      BY <2>1, <2>2, SetOfShort
    <2> QED BY <2>1, <2>2, <2>4, <2>5
  <1>5. writer' \in [Writers -> TraceWriters] /\ SameWriters
    <2>1. NewPatches(k, np) \in Seq([chunk: Nat, patched: BOOLEAN])
      <3>1. \A i \in 1 .. np : [chunk |-> k, patched |-> FALSE] \in [chunk: Nat, patched: BOOLEAN]
        BY <1>2
      <3> QED BY <1>2, <3>1, IsASeq DEF NewPatches
    <2>2. writer[w].patch_list \o NewPatches(k, np) \in Seq([chunk: Nat, patched: BOOLEAN])
      BY <1>2, <2>1, ConcatProperties
    <2>3. PICK new : new = [writer[w] EXCEPT !.chunks = writer[w].chunks + 1,
                       !.open = writer[w].chunks + 1, !.patch_list = @ \o NewPatches(k, np)]
      OBVIOUS
    <2>4. writer' = [writer EXCEPT ![w] = new]
      BY <2>3 DEF GetNewBuffer
    <2>5. new \in TraceWriters /\ new.state = writer[w].state /\ new.id = writer[w].id
      <3>1. writer[w] \in TraceWriters
        BY <1>1 DEF Types
      <3> QED BY <1>2, <2>2, <2>3, <3>1 DEF TraceWriters
    <2> QED BY <1>1, <2>4, <2>5, WriterChanges
  <1>6. /\ Idle(t) /\ Home[w] = t /\ HoldsId(w) /\ todo' = [todo EXCEPT ![t] = ops]
        /\ UNCHANGED <<setup, arbiter, tasks, timers, may_delete>>
    BY DEF GetNewBuffer, Owns, HoldsId, callers
  <1>7. \A op \in ToSet(ops) : ~IsRelease(op) /\ op.op # "Scrape"
    BY <1>4 DEF FlushCall, ReturnCall, IsRelease
  <1> QED BY <1>1, <1>4, <1>5, <1>6, <1>7, CallFrame

\* FinishTracePacket, or a dropped packet.
LEMMA ReturnCurrentChunkStep ==
  ASSUME ArbiterInv, NEW t \in Threads, NEW w \in DOMAIN setup.chunks,
         ReturnCurrentChunk(t, w), UNCHANGED setup
  PROVE  ArbiterInv'
  <1> DEFINE ops == <<ReturnCall(w, writer[w].open)>>
  <1>1. Types /\ w \in Writers
    BY SetupIsTyped DEF ArbiterInv
  <1>2. ops \in Seq(Steps) /\ ToSet(ops) = {ReturnCall(w, writer[w].open)}
    BY <1>1, WriterIsTyped, StepsAreTyped, SetOfShort
  <1>3. writer' \in [Writers -> TraceWriters] /\ SameWriters
    <2>1. writer' = [writer EXCEPT ![w].open = 0]
      BY DEF ReturnCurrentChunk
    <2> QED BY <1>1, <2>1 DEF Types, TraceWriters, SameWriters
  <1>4. /\ Idle(t) /\ Home[w] = t /\ HoldsId(w) /\ todo' = [todo EXCEPT ![t] = ops]
        /\ UNCHANGED <<setup, arbiter, tasks, timers, may_delete>>
    BY DEF ReturnCurrentChunk, Owns, HoldsId, callers
  <1>5. \A op \in ToSet(ops) : ~IsRelease(op) /\ op.op # "Scrape"
    BY <1>2 DEF ReturnCall, IsRelease
  <1> QED BY <1>1, <1>2, <1>3, <1>4, <1>5, CallFrame

\* NewTracePacket or FinishTracePacket with patches that are ready.
LEMMA SendPatchesStep ==
  ASSUME ArbiterInv, NEW t \in Threads, NEW w \in DOMAIN setup.chunks,
         SendPatches(t, w), UNCHANGED setup
  PROVE  ArbiterInv'
  <1> DEFINE ops == <<ReturnCall(w, 0)>>
  <1>1. Types /\ w \in Writers
    BY SetupIsTyped DEF ArbiterInv
  <1>2. ops \in Seq(Steps) /\ ToSet(ops) = {ReturnCall(w, 0)}
    BY <1>1, StepsAreTyped, SetOfShort
  <1>3. writer' \in [Writers -> TraceWriters] /\ SameWriters
    BY <1>1 DEF SendPatches, memory, Types, SameWriters
  <1>4. /\ Idle(t) /\ Home[w] = t /\ HoldsId(w) /\ todo' = [todo EXCEPT ![t] = ops]
        /\ UNCHANGED <<setup, arbiter, tasks, timers, may_delete>>
    BY DEF SendPatches, Owns, HoldsId, callers
  <1>5. \A op \in ToSet(ops) : ~IsRelease(op) /\ op.op # "Scrape"
    BY <1>2 DEF ReturnCall, IsRelease
  <1> QED BY <1>1, <1>2, <1>3, <1>4, <1>5, CallFrame

\* A finalized nested message touches the writer's own list only.
LEMMA FinalizeNestedMessageStep ==
  ASSUME ArbiterInv, NEW t \in Threads, NEW w \in DOMAIN setup.chunks,
         NEW j \in DOMAIN writer[w].patch_list, FinalizeNestedMessage(t, w, j), UNCHANGED setup
  PROVE  ArbiterInv'
  <1>1. Types /\ UserInv /\ FlushInv /\ w \in Writers
    BY SetupIsTyped DEF ArbiterInv
  <1>2. PICK list : list = [writer[w].patch_list EXCEPT ![j].patched = TRUE]
    OBVIOUS
  <1>3. list \in Seq([chunk: Nat, patched: BOOLEAN])
    <2>1. writer[w].patch_list \in Seq([chunk: Nat, patched: BOOLEAN])
      BY <1>1, WriterIsTyped
    <2>2. PICK new : new = [writer[w].patch_list[j] EXCEPT !.patched = TRUE]
      OBVIOUS
    <2>3. new \in [chunk: Nat, patched: BOOLEAN]
      <3>1. PICK old : old = writer[w].patch_list
        OBVIOUS
      <3>2. j \in 1 .. Len(old) /\ old \in Seq([chunk: Nat, patched: BOOLEAN])
        BY <2>1, <3>1, LenProperties
      <3>3. old[j] \in [chunk: Nat, patched: BOOLEAN]
        BY <3>2, ElementOfSeq
      <3> QED BY <2>2, <3>1, <3>3
    <2>4. list = [writer[w].patch_list EXCEPT ![j] = new]
      BY <1>2, <2>2
    <2> QED BY <2>1, <2>3, <2>4, ExceptSeq, LenProperties
  <1>4. writer' = [writer EXCEPT ![w].patch_list = list]
    BY <1>2 DEF FinalizeNestedMessage
  <1>5. writer' \in [Writers -> TraceWriters] /\ SameWriters
    BY <1>1, <1>3, <1>4 DEF Types, TraceWriters, SameWriters
  <1>6. UNCHANGED <<setup, arbiter, runner, may_delete>>
    BY DEF FinalizeNestedMessage, callers
  <1>7. Types'
    BY <1>1, <1>5, <1>6 DEF Types, arbiter, binding, ids, batch, flags, runner
  <1>8. UserInv'
    <2>1. \A v \in Writers : HoldsId(v)' <=> HoldsId(v)
      BY <1>5, <1>6 DEF HoldsId, SameWriters, Ops, runner
    <2>2. \A t1 \in Threads : \A op \in Ops(t1) : IsRelease(op) => op.w \in Writers
      BY <1>1, OpsAreTyped
    <2>3. \A t1 : Ops(t1)' = Ops(t1) /\ todo'[t1] = todo[t1]
      BY <1>6 DEF runner, Ops
    <2>4. UNCHANGED <<active_writer_ids_, may_delete>>
      BY <1>6 DEF arbiter, ids
    <2> QED BY <1>1, <1>5, <2>1, <2>2, <2>3, <2>4 DEF UserInv, SameWriters, ReleaseIsLast
  <1>9. FlushInv'
    BY <1>1, <1>6 DEF FlushInv, RequestIsOwed, SomeFlushUnderWay, DelayedFlushUnderWay, Ops,
                      arbiter, binding, batch, flags, runner
  <1> QED BY <1>7, <1>8, <1>9 DEF ArbiterInv

\* TraceWriterImpl::Flush.
LEMMA FlushStep ==
  ASSUME ArbiterInv, NEW t \in Threads, NEW w \in DOMAIN setup.chunks,
         NEW cb \in setup.callbacks, Flush(t, w, cb), UNCHANGED setup
  PROVE  ArbiterInv'
  <1> DEFINE ops == ReturnOpenChunk(w) \o <<FlushCall({cb})>>
  <1>1. Types /\ w \in Writers /\ {cb} \in SUBSET Callbacks
    BY SetupIsTyped DEF ArbiterInv
  <1>2. ops \in Seq(Steps) /\ ToSet(ops) \subseteq {ReturnCall(w, writer[w].open), FlushCall({cb})}
    <2>1. /\ ReturnOpenChunk(w) \in Seq(Steps)
          /\ ToSet(ReturnOpenChunk(w)) \subseteq {ReturnCall(w, writer[w].open)}
      BY <1>1, WriterIsTyped, StepsAreTyped, SetOfShort DEF ReturnOpenChunk
    <2>2. PICK call : call = FlushCall({cb})
      OBVIOUS
    <2>3. PICK b : b = <<call>>
      OBVIOUS
    <2>4. b \in Seq(Steps) /\ ToSet(b) = {call}
      <3>1. call \in Steps
        BY <1>1, <2>2, StepsAreTyped
      <3> QED BY <2>3, <3>1, SetOfShort
    <2>5. ReturnOpenChunk(w) \o b \in Seq(Steps)
          /\ ToSet(ReturnOpenChunk(w) \o b) = ToSet(ReturnOpenChunk(w)) \cup ToSet(b)
      BY <2>1, <2>4, SetOfCat
    <2>6. ops = ReturnOpenChunk(w) \o b
      BY <2>2, <2>3
    <2> HIDE DEF ops
    <2> QED BY <2>1, <2>2, <2>4, <2>5, <2>6
  <1>3. writer' \in [Writers -> TraceWriters] /\ SameWriters
    <2>1. writer' = [writer EXCEPT ![w].open = 0]
      BY DEF Flush
    <2> QED BY <1>1, <2>1 DEF Types, TraceWriters, SameWriters
  <1>4. /\ Idle(t) /\ Home[w] = t /\ HoldsId(w) /\ todo' = [todo EXCEPT ![t] = ops]
        /\ UNCHANGED <<setup, arbiter, tasks, timers, may_delete>>
    BY DEF Flush, Owns, HoldsId, callers
  <1>5. \A op \in ToSet(ops) : ~IsRelease(op) /\ op.op # "Scrape"
    BY <1>2 DEF ReturnCall, FlushCall, IsRelease
  <1> QED BY <1>1, <1>2, <1>3, <1>4, <1>5, CallFrame

\* An abort of a startup session.
LEMMA AbortStartupTracingStep ==
  ASSUME ArbiterInv, NEW t \in Threads, NEW r \in Reservations,
         AbortStartupTracing(t, r), UNCHANGED setup
  PROVE  ArbiterInv'
  <1> DEFINE ops == <<AbortCall(r)>>
  <1>1. Types
    BY DEF ArbiterInv
  <1>2. ops \in Seq(Steps) /\ ToSet(ops) = {AbortCall(r)}
    BY StepsAreTyped, SetOfShort
  <1>3. writer' \in [Writers -> TraceWriters] /\ SameWriters
    BY <1>1 DEF AbortStartupTracing, memory, Types, SameWriters
  <1>4. /\ Idle(t) /\ todo' = [todo EXCEPT ![t] = ops]
        /\ UNCHANGED <<setup, arbiter, tasks, timers, may_delete>>
    BY DEF AbortStartupTracing
  <1>5. \A op \in ToSet(ops) : ~IsRelease(op) /\ op.op # "Scrape" /\ ~Uses(op)
    BY <1>2 DEF AbortCall, IsRelease, Uses
  <1> QED BY <1>2, <1>3, <1>4, <1>5, CallFrame

\* ~TraceWriterImpl: the id of the writer is its own until it is released.
LEMMA DestroyWriterStep ==
  ASSUME ArbiterInv, NEW t \in Threads, NEW w \in DOMAIN setup.chunks,
         DestroyWriter(t, w), UNCHANGED setup
  PROVE  ArbiterInv'
  <1> DEFINE release == [op |-> "ReleaseWriterID", w |-> w]
             before == IF writer[w].open = 0 THEN <<>> ELSE Append(ReturnOpenChunk(w), FlushCall({}))
             used == {ReturnCall(w, writer[w].open), FlushCall({})}
  <1>1. Types /\ UserInv /\ FlushInv /\ w \in Writers
    BY SetupIsTyped DEF ArbiterInv
  <1>2. before \in Seq(Steps) /\ ToSet(before) \subseteq used
    <2>1. CASE writer[w].open = 0
      BY <2>1, SetOfShort
    <2>2. CASE writer[w].open # 0
      <3>1. PICK a : a = ReturnCall(w, writer[w].open)
        OBVIOUS
      <3>2. PICK b : b = FlushCall({})
        OBVIOUS
      <3>3. a \in Steps /\ b \in Steps
        BY <1>1, <3>1, <3>2, WriterIsTyped, StepsAreTyped
      <3>4. before = Append(<<a>>, b)
        BY <2>2, <3>1, <3>2, Zenon DEF ReturnOpenChunk
      <3>5. PICK q : q = <<a, b>>
        OBVIOUS
      <3>6. q \in Seq(Steps) /\ ToSet(q) = {a, b} /\ q = Append(<<a>>, b)
        BY <3>3, <3>5, SetOfShort
      <3> QED BY <3>1, <3>2, <3>4, <3>6, Zenon
    <2> QED BY <2>1, <2>2
  <1>3. <<release>> \in Seq(Steps) /\ ToSet(<<release>>) = {release} /\ release.w = w
        /\ IsRelease(release)
    <2>1. release \in Steps
      BY <1>1, StepsAreTyped
    <2>2. PICK x : x = release
      OBVIOUS
    <2> QED BY <2>1, <2>2, SetOfShort DEF IsRelease
  <1> DEFINE ops == before \o <<release>>
  <1>4. \A op \in used : ~IsRelease(op) /\ op.op \notin {"Scrape", "PostDelayedFlush"}
    BY DEF ReturnCall, FlushCall, IsRelease
  <1>5. /\ todo[t] = <<>> /\ Home[w] = t /\ writer[w].state = "live"
        /\ todo' = [todo EXCEPT ![t] = ops]
        /\ writer' = [writer EXCEPT ![w] = [@ EXCEPT !.state = "dead", !.open = 0]]
        /\ UNCHANGED <<setup, arbiter, tasks, timers, may_delete>>
    BY DEF DestroyWriter, Owns, Idle, callers
  <1> HIDE DEF release, before, used
  <1>6. ops \in Seq(Steps) /\ ToSet(ops) = ToSet(before) \cup {release}
    <2>1. PICK last : last = <<release>>
      OBVIOUS
    <2>2. last \in Seq(Steps) /\ ToSet(last) = {release}
      BY <1>3, <2>1
    <2>3. before \o last \in Seq(Steps) /\ ToSet(before \o last) = ToSet(before) \cup ToSet(last)
      BY <1>2, <2>2, SetOfCat
    <2> QED BY <2>1, <2>2, <2>3
  <1>7. Does(t, ops)
    <2>1. ops \o <<>> = ops
      BY <1>6, ConcatEmptySeq
    <2> QED BY <1>5, <1>6, <2>1 DEF Does, Rest
  <1>8. /\ todo' \in [Threads -> Seq(Steps)]
        /\ Ops(t) = {} /\ Ops(t)' = ToSet(before) \cup {release}
        /\ \A u \in Threads \ {t} : todo'[u] = todo[u] /\ Ops(u)' = Ops(u)
    BY <1>1, <1>5, <1>6, <1>7, DoesEffect, SetOfShort DEF Rest
  <1>9. writer' \in [Writers -> TraceWriters]
        /\ \A v \in Writers : /\ writer'[v].id = writer[v].id
                              /\ writer'[v].state = IF v = w THEN "dead" ELSE writer[v].state
    BY <1>1, <1>5 DEF Types, TraceWriters
  <1>10. Types'
    BY <1>1, <1>5, <1>8, <1>9 DEF Types, arbiter, binding, ids, batch, flags
  <1>11. UserInv'
    <2>1. \A v \in Writers : Home[v] \in Threads
      BY ArbiterAssumption DEF Threads
    <2>2. \A u \in Threads : \A op : IsRelease(op) =>
             (op \in Ops(u)' <=> op \in Ops(u) \/ (u = t /\ op = release))
      BY <1>2, <1>4, <1>8
    <2>3. \A v \in Writers : HoldsId(v)' <=> HoldsId(v)
      BY <1>3, <1>5, <1>9, <2>1, <2>2 DEF HoldsId
    <2>4. ASSUME NEW u \in Threads PROVE ReleaseIsLast(todo[u])'
      <3>1. CASE u # t
        BY <1>1, <1>8, <3>1 DEF UserInv, ReleaseIsLast
      <3>2. CASE u = t
        <4>1. todo'[t] = ops
          BY <1>1, <1>5 DEF Types
        <4>2. /\ Len(before) \in Nat /\ DOMAIN before = 1 .. Len(before)
              /\ Len(ops) = Len(before) + 1
              /\ \A i \in 1 .. Len(before) : ops[i] = before[i]
          BY <1>2, <1>3, ConcatProperties, LenProperties
        <4>3. \A i \in 1 .. Len(before) : ~IsRelease(before[i])
          BY <1>2, <1>4, <4>2 DEF ToSet
        <4> QED BY <3>2, <4>1, <4>2, <4>3 DEF ReleaseIsLast
      <3> QED BY <3>1, <3>2
    <2>5. ASSUME NEW u \in Threads, NEW op \in Ops(u)', IsRelease(op)
          PROVE  Home[op.w] = u /\ writer'[op.w].state = "dead"
      <3>1. CASE op \in Ops(u)
        BY <1>1, <1>9, <2>5, <3>1, OpsAreTyped DEF UserInv
      <3>2. CASE op = release /\ u = t
        BY <1>1, <1>3, <1>5, <1>9, <3>2
      <3> QED BY <2>2, <2>5, <3>1, <3>2
    <2>6. ASSUME NEW u \in AppThreads, NEW op \in Ops(u)', Uses(op)
          PROVE  \E v \in Writers : Home[v] = u /\ HoldsId(v)'
      <3>1. CASE u = t
        <4>1. HoldsId(w)
          BY <1>5 DEF HoldsId
        <4> QED BY <1>1, <1>5, <2>3, <3>1, <4>1
      <3>2. CASE u # t
        BY <1>1, <1>8, <2>3, <2>6, <3>2 DEF UserInv, Threads
      <3> QED BY <3>1, <3>2
    <2>7. UNCHANGED <<active_writer_ids_, may_delete>>
      BY <1>5 DEF arbiter, ids
    <2> QED BY <1>1, <1>9, <2>3, <2>4, <2>5, <2>6, <2>7 DEF UserInv
  <1>12. FlushInv'
    <2>1. UNCHANGED <<delayed_flush_scheduled_, immediate_flush_scheduled_,
                      fully_bound_, commit_data_req_, tasks, timers, may_delete>>
      BY <1>5 DEF arbiter, binding, batch, flags
    <2>2. \A op \in ToSet(ops) : op.op # "Scrape"
      BY <1>2, <1>3, <1>4, <1>6 DEF IsRelease
    <2> QED BY <1>1, <1>5, <1>7, <2>1, <2>2, FlushFrame
  <1> QED BY <1>10, <1>11, <1>12 DEF ArbiterInv

\* Direct patching changes nothing that matters here.
LEMMA EnableDirectSMBPatchingStep ==
  ASSUME ArbiterInv, NEW t \in Threads, EnableDirectSMBPatching(t), UNCHANGED setup
  PROVE  ArbiterInv'
  <1>1. Types'
    BY DEF ArbiterInv, Types, EnableDirectSMBPatching, binding, ids, flags, runner, memory, callers
  <1>2. UserInv'
    BY DEF ArbiterInv, UserInv, EnableDirectSMBPatching, ids, runner, memory, callers, HoldsId, Ops,
           ReleaseIsLast
  <1>3. FlushInv'
    BY DEF ArbiterInv, FlushInv, RequestIsOwed, SomeFlushUnderWay, DelayedFlushUnderWay, Ops,
           EnableDirectSMBPatching, binding, flags, runner, callers
  <1> QED BY <1>1, <1>2, <1>3 DEF ArbiterInv

\* A writer that was created has an id that nobody else has.
LEMMA CreatedWriterIsAlone ==
  ASSUME Types, UserInv, NEW w \in Writers, NEW id \in WriterIDs \ active_writer_ids_,
         writer[w].state = "none",
         \A v \in Writers : IF v = w THEN writer'[v].state = "live" /\ writer'[v].id = id
                            ELSE writer'[v].state = writer[v].state /\ writer'[v].id = writer[v].id,
         active_writer_ids_' = active_writer_ids_ \cup {id}, ~may_delete',
         \A u \in Threads : ReleaseIsLast(todo[u])',
         \A u \in Threads : \A op \in Ops(u)' : op \in Ops(u) \/ (~IsRelease(op) /\ ~Uses(op)),
         \A u \in Threads : \A op \in Ops(u) : IsRelease(op) => op \in Ops(u)'
  PROVE  UserInv'
  <1>1. \A v \in Writers : Home[v] \in Threads
    BY ArbiterAssumption DEF Threads
  <1>2. \A u \in Threads : \A op \in Ops(u) : IsRelease(op) => op.w \in Writers /\ op.w # w
    BY OpsAreTyped DEF UserInv
  <1>3. \A v \in Writers : v # w => (HoldsId(v)' <=> HoldsId(v))
    BY <1>1 DEF HoldsId
  <1>4. HoldsId(w)' /\ ~HoldsId(w)
    BY <1>1, <1>2 DEF HoldsId
  <1>5. \A v \in Writers : HoldsId(v)' => writer'[v].id \in active_writer_ids_'
    BY <1>3 DEF UserInv
  <1>6. \A u, v \in Writers :
          HoldsId(u)' /\ HoldsId(v)' /\ writer'[u].id = writer'[v].id => u = v
    BY <1>3 DEF UserInv
  <1>7. \A u \in Threads : \A op \in Ops(u)' :
          IsRelease(op) => Home[op.w] = u /\ writer'[op.w].state = "dead"
    BY <1>2 DEF UserInv
  <1>8. \A u \in AppThreads : \A op \in Ops(u)' :
          Uses(op) => \E v \in Writers : Home[v] = u /\ HoldsId(v)'
    BY <1>3, <1>4 DEF UserInv, Threads
  <1> QED BY <1>5, <1>6, <1>7, <1>8 DEF UserInv

\* CreateTraceWriter and CreateStartupTraceWriter.
LEMMA CreateTraceWriterStep ==
  ASSUME ArbiterInv, NEW t \in Threads, NEW w \in DOMAIN setup.chunks,
         NEW requested \in Reservations \cup Buffers,
         CreateTraceWriterInternal(t, w, requested), UNCHANGED setup
  PROVE  ArbiterInv'
  <1> DEFINE id == AllocateId
             res == target_buffer_reservations_
             reserves == /\ IsReservationTargetBufferId(requested)
                         /\ res[requested] \in {Absent, Unbound}
             target == IF IsReservationTargetBufferId(requested) /\ ~reserves
                       THEN res[requested] ELSE requested
  <1>1. Types /\ UserInv /\ FlushInv /\ w \in Writers
    BY SetupIsTyped DEF ArbiterInv
  <1>2. /\ todo[t] = <<>> /\ writer[w].state = "none" /\ ~may_delete
        /\ UNCHANGED <<batch, tasks, timers, callers>>
    BY DEF CreateTraceWriterInternal, Idle
  <1>3. id \in Nat /\ (id # 0 => id \in WriterIDs \ active_writer_ids_)
    BY <1>1, AllocatedIdIsFree
  <1>4. target \in Targets /\ (~reserves => target \in Nat)
    BY <1>1, ArbiterAssumption DEF Types, Targets, IsReservationTargetBufferId
  <1>5. CASE did_shutdown_ \/ id = 0
    <2>1. writer' = [writer EXCEPT ![w].state = "null"] /\ UNCHANGED <<binding, ids, todo>>
      BY <1>5 DEF CreateTraceWriterInternal
    <2>2. /\ writer' \in [Writers -> TraceWriters]
          /\ \A v \in Writers : /\ writer'[v].id = writer[v].id
                                /\ v # w => writer'[v].state = writer[v].state
                                /\ v = w => writer'[v].state = "null"
      BY <1>1, <2>1 DEF Types, TraceWriters
    <2>3. Types'
      BY <1>1, <1>2, <2>1, <2>2 DEF Types, binding, ids, batch, flags, callers
    <2>4. UserInv'
      <3>1. \A u : Ops(u)' = Ops(u) /\ todo'[u] = todo[u]
        BY <2>1 DEF Ops
      <3>2. \A u \in Threads : \A op \in Ops(u) : IsRelease(op) => op.w \in Writers /\ op.w # w
        BY <1>1, <1>2, OpsAreTyped DEF UserInv
      <3>3. \A v \in Writers : HoldsId(v)' <=> HoldsId(v)
        BY <1>2, <2>2, <3>1 DEF HoldsId
      <3>4. UNCHANGED <<active_writer_ids_, may_delete>>
        BY <1>2, <2>1 DEF ids, callers
      <3> QED BY <1>1, <2>2, <3>1, <3>2, <3>3, <3>4 DEF UserInv, ReleaseIsLast
    <2>5. FlushInv'
      BY <1>1, <1>2, <2>1 DEF FlushInv, RequestIsOwed, SomeFlushUnderWay, DelayedFlushUnderWay, Ops,
                              binding, batch, flags, callers
    <2> QED BY <2>3, <2>4, <2>5 DEF ArbiterInv
  <1>6. CASE ~(did_shutdown_ \/ id = 0)
    <2>1. /\ active_writer_ids_' = active_writer_ids_ \cup {id} /\ last_id_' = id
          /\ writer' = [writer EXCEPT ![w] = [@ EXCEPT !.state = "live", !.id = id, !.target = target]]
          /\ UNCHANGED <<endpoint, pending_flush_callbacks_>>
      BY <1>6 DEF CreateTraceWriterInternal
    <2>2. PICK new : new = [writer[w] EXCEPT !.state = "live", !.id = id, !.target = target]
      OBVIOUS
    <2> HIDE DEF target
    <2>3. new \in TraceWriters /\ new.state = "live" /\ new.id = id
      <3>1. writer[w] \in TraceWriters
        BY <1>1 DEF Types
      <3> QED BY <1>3, <1>4, <2>2, <3>1 DEF TraceWriters
    <2>4. writer' = [writer EXCEPT ![w] = new]
      BY <2>1, <2>2
    <2>5. /\ writer' \in [Writers -> TraceWriters]
          /\ \A v \in Writers : IF v = w THEN writer'[v].state = "live" /\ writer'[v].id = id
                                ELSE writer'[v].state = writer[v].state /\ writer'[v].id = writer[v].id
      BY <1>1, <2>3, <2>4 DEF Types
    <2>6. ~may_delete' /\ id \in WriterIDs \ active_writer_ids_
      BY <1>2, <1>3, <1>6 DEF callers
    <2>7. CASE reserves
      <3>1. /\ target_buffer_reservations_' = [res EXCEPT ![target] = Unbound]
            /\ fully_bound_' = FALSE /\ UNCHANGED todo
        BY <1>6, <2>7 DEF CreateTraceWriterInternal, target
      <3>2. target_buffer_reservations_' \in [Reservations -> {Absent, Unbound} \cup Nat]
        BY <1>1, <3>1 DEF Types
      <3>3. \A u : Ops(u)' = Ops(u) /\ todo'[u] = todo[u]
        BY <3>1 DEF Ops
      <3>4. Types'
        BY <1>1, <1>2, <1>3, <2>1, <2>5, <2>6, <3>1, <3>2 DEF Types, batch, flags, callers
      <3>5. UserInv'
        <4>1. \A u \in Threads : ReleaseIsLast(todo[u])'
          BY <1>1, <3>3 DEF UserInv, ReleaseIsLast
        <4> QED BY <1>1, <1>2, <2>1, <2>5, <2>6, <3>3, <4>1, CreatedWriterIsAlone
      <3>6. FlushInv'
        BY <1>1, <1>2, <3>1 DEF FlushInv, RequestIsOwed, DelayedFlushUnderWay, Ops, batch, flags, callers
      <3> QED BY <3>4, <3>5, <3>6 DEF ArbiterInv
    <2>8. CASE ~reserves
      <3> DEFINE post == PostTask(SendCall(Register(id, target)))
                 ops == IF target = kInvalidBufferId THEN <<>> ELSE <<post>>
      <3>1. /\ todo' = [todo EXCEPT ![t] = ops]
            /\ UNCHANGED <<target_buffer_reservations_, fully_bound_>>
        BY <1>6, <2>8 DEF CreateTraceWriterInternal, target
      <3>2. post \in Steps /\ post.op = "PostTask" /\ ~IsRelease(post) /\ ~Uses(post)
        <4>1. post \in Steps
          BY <1>4, <2>6, <2>8, StepsAreTyped
        <4> QED BY <4>1 DEF PostTask, SendCall, IsRelease, Uses
      <3> HIDE DEF post
      <3>3. ops \in Seq(Steps) /\ ToSet(ops) \subseteq {post}
        BY <3>2, SetOfShort
      <3> HIDE DEF ops
      <3>4. Does(t, ops)
        <4>1. ops \o <<>> = ops
          BY <3>3, ConcatEmptySeq
        <4> QED BY <1>2, <3>1, <3>3, <4>1 DEF Does, Rest
      <3>5. /\ todo' \in [Threads -> Seq(Steps)] /\ Ops(t) = {} /\ Ops(t)' \subseteq {post}
            /\ \A u \in Threads \ {t} : todo'[u] = todo[u] /\ Ops(u)' = Ops(u)
        BY <1>1, <1>2, <3>3, <3>4, DoesEffect, SetOfShort DEF Rest
      <3>6. Types'
        BY <1>1, <1>2, <1>3, <2>1, <2>5, <2>6, <3>1, <3>5 DEF Types, batch, flags, callers
      <3>7. UserInv'
        <4>1. ReleaseIsLast(todo[t])'
          BY <1>1, <3>2, <3>3, <3>4, ReleaseStaysLast DEF UserInv
        <4>2. \A u \in Threads : ReleaseIsLast(todo[u])'
          BY <1>1, <3>5, <4>1 DEF UserInv, ReleaseIsLast
        <4>3. \A u \in Threads : \A op \in Ops(u)' : op \in Ops(u) \/ (~IsRelease(op) /\ ~Uses(op))
          BY <3>2, <3>5
        <4>4. \A u \in Threads : \A op \in Ops(u) : IsRelease(op) => op \in Ops(u)'
          BY <3>5
        <4> QED BY <1>1, <1>2, <2>1, <2>5, <2>6, <4>2, <4>3, <4>4, CreatedWriterIsAlone
      <3>8. FlushInv'
        <4>1. UNCHANGED <<delayed_flush_scheduled_, immediate_flush_scheduled_,
                          fully_bound_, commit_data_req_, tasks, timers, may_delete>>
          BY <1>2, <3>1 DEF batch, flags, callers
        <4>2. \A op \in ToSet(ops) : op.op # "Scrape"
          BY <3>2, <3>3
        <4> QED BY <1>1, <1>2, <3>4, <4>1, <4>2, FlushFrame
      <3> QED BY <3>6, <3>7, <3>8 DEF ArbiterInv
    <2> QED BY <2>7, <2>8
  <1> QED BY <1>5, <1>6

-----------------------------------------------------------------------------
(***************************************************************************)
(* Steps of a thread that has something to do.                             *)
(***************************************************************************)
\* The next step of a thread, and what it does instead.
LEMMA NextOp ==
  ASSUME Types, NEW t \in Threads, todo[t] # <<>>
  PROVE  /\ Head(todo[t]) \in Steps /\ Head(todo[t]) \in Ops(t)
         /\ Rest(t) = Tail(todo[t])
         /\ \A ops \in Seq(Steps) : Then(t, ops) => Does(t, ops)
         /\ \A ops \in Seq(Steps) : GoOn(t, ops, Tail(todo[t])) => Does(t, ops)
  <1>1. todo[t] \in Seq(Steps) /\ todo \in [Threads -> Seq(Steps)]
    BY DEF Types
  <1>2. Head(todo[t]) \in Steps /\ Head(todo[t]) \in Ops(t)
    BY <1>1, SetOfQueue DEF Ops
  <1> QED BY <1>1, <1>2 DEF Rest, Then, GoOn, Does

\* What a step is about, by its kind.
LEMMA StepFields ==
  ASSUME NEW op \in Steps
  PROVE  /\ op.op \in {"Flush", "Abort", "PostTask", "PostDelayedFlush", "ReleaseWriterID",
                       "UpdateCommitDataRequest", "Scrape"}
         /\ op.op = "Flush" => op.callback \subseteq Callbacks /\ op \in Tasks
         /\ op.op = "Abort" => op.reservation \in Reservations
         /\ op.op = "PostTask" => op.task \in Tasks
         /\ op.op = "PostDelayedFlush" => op.kind \in {"delayed", "immediate"}
         /\ op.op = "ReleaseWriterID" => op.w \in Writers
         /\ op.op = "UpdateCommitDataRequest" => op.w \in Writers /\ op.chunk \in Nat
  <1>1. CASE op \in FlushCalls
    BY <1>1 DEF FlushCalls, Tasks
  <1>2. CASE op \in AbortCalls
    BY <1>2 DEF AbortCalls
  <1>3. CASE op \in Posts
    BY <1>3 DEF Posts
  <1>4. CASE op \in Delays
    BY <1>4 DEF Delays
  <1>5. CASE op \in Releases
    BY <1>5 DEF Releases
  <1>6. CASE op \in Returns
    BY <1>6 DEF Returns
  <1>7. CASE op \in Scrapes
    BY <1>7 DEF Scrapes
  <1> QED BY <1>1, <1>2, <1>3, <1>4, <1>5, <1>6, <1>7 DEF Steps

\* A request that comes into being makes sure of a flush.
LEMMA UpdateCommitDataRequestStep ==
  ASSUME ArbiterInv, NEW t \in Threads, UpdateCommitDataRequest(t), UNCHANGED setup
  PROVE  ArbiterInv'
  <1>1. Types /\ UserInv /\ FlushInv
    BY DEF ArbiterInv
  <1>2. PICK op : op = Head(todo[t])
    OBVIOUS
  <1>3. todo[t] # <<>> /\ op.op = "UpdateCommitDataRequest"
    BY <1>2 DEF UpdateCommitDataRequest, Doing
  <1>4. op.w \in Writers /\ op \in Ops(t) /\ ~Flushes(op) /\ ~IsRelease(op)
    BY <1>1, <1>2, <1>3, NextOp, StepFields DEF Flushes, IsRelease
  <1> DEFINE w == op.w
             list == writer[w].patch_list
             n == PatchedPrefix(list)
             rest == SubSeq(list, n + 1, Len(list))
             delayed == commit_data_req_ = None /\ fully_bound_ /\ ~delayed_flush_scheduled_
             emulated == fully_bound_ /\ use_shmem_emulation_
  <1>5. /\ writer' = [writer EXCEPT ![w].patch_list = rest]
        /\ UNCHANGED <<setup, binding, ids, tasks, timers, callers>>
    BY <1>2 DEF UpdateCommitDataRequest
  <1>6. \E immediate \in BOOLEAN :
          IF emulated /\ t = IPC
          THEN /\ delayed_flush_scheduled_' = FALSE
               /\ immediate_flush_scheduled_' = FALSE
               /\ Then(t, <<FlushCall({})>>)
          ELSE /\ delayed_flush_scheduled_' = (delayed_flush_scheduled_ \/ delayed)
               /\ immediate_flush_scheduled_' = (immediate_flush_scheduled_ \/ immediate)
               /\ Then(t, IF immediate THEN <<PostFlush("immediate")>>
                          ELSE IF delayed THEN <<PostFlush("delayed")>> ELSE <<>>)
    BY DEF UpdateCommitDataRequest
  <1>7. PICK immediate \in BOOLEAN :
          IF emulated /\ t = IPC
          THEN /\ delayed_flush_scheduled_' = FALSE
               /\ immediate_flush_scheduled_' = FALSE
               /\ Then(t, <<FlushCall({})>>)
          ELSE /\ delayed_flush_scheduled_' = (delayed_flush_scheduled_ \/ delayed)
               /\ immediate_flush_scheduled_' = (immediate_flush_scheduled_ \/ immediate)
               /\ Then(t, IF immediate THEN <<PostFlush("immediate")>>
                          ELSE IF delayed THEN <<PostFlush("delayed")>> ELSE <<>>)
    BY <1>6
  <1>8. writer' \in [Writers -> TraceWriters] /\ SameWriters
    <2>1. list \in Seq([chunk: Nat, patched: BOOLEAN])
      BY <1>1, <1>4, WriterIsTyped
    <2>2. n \in 0 .. Len(list) /\ Len(list) \in Nat
      BY <2>1, PatchedPrefixIsPrefix, LenProperties
    <2>3. rest \in Seq([chunk: Nat, patched: BOOLEAN])
      <3> HIDE DEF n, list
      <3>1. n + 1 \in Int /\ Len(list) \in Int
        BY <2>2
      <3>2. \A i \in n + 1 .. Len(list) : list[i] \in [chunk: Nat, patched: BOOLEAN]
        <4>1. \A i \in n + 1 .. Len(list) : i \in 1 .. Len(list)
          BY <2>2
        <4> QED BY <2>1, <4>1, ElementOfSeq
      <3> QED BY <3>1, <3>2, SubSeqProperties
    <2> HIDE DEF rest
    <2> QED BY <1>1, <1>4, <1>5, <2>3 DEF Types, TraceWriters, SameWriters
  <1> HIDE DEF w, list, n, rest
  <1>9. PICK ops \in Seq(Steps) :
          /\ Does(t, ops)
          /\ \A x \in ToSet(ops) : /\ ~IsRelease(x) /\ x.op # "Scrape"
                                   /\ Uses(x) => t = IPC
          /\ \/ /\ ~delayed_flush_scheduled_' /\ ~immediate_flush_scheduled_'
                /\ \E x \in ToSet(ops) : Flushes(x)
             \/ /\ delayed_flush_scheduled_' \in BOOLEAN /\ immediate_flush_scheduled_' \in BOOLEAN
                /\ \E x \in ToSet(ops) : x.op = "PostDelayedFlush" /\ Flushes(x)
             \/ /\ delayed_flush_scheduled_' = delayed_flush_scheduled_
                /\ immediate_flush_scheduled_' = immediate_flush_scheduled_
                /\ ~delayed
    <2>1. CASE emulated /\ t = IPC
      <3>1. PICK call : call = FlushCall({})
        OBVIOUS
      <3>2. call \in Steps /\ ~IsRelease(call) /\ call.op # "Scrape" /\ Flushes(call)
        BY <3>1, StepsAreTyped DEF FlushCall, IsRelease, Flushes
      <3>3. <<call>> \in Seq(Steps) /\ ToSet(<<call>>) = {call}
        BY <3>2, SetOfShort
      <3>4. Does(t, <<call>>)
        BY <1>1, <1>3, <1>7, <2>1, <3>1, <3>3, NextOp
      <3>5. ~delayed_flush_scheduled_' /\ ~immediate_flush_scheduled_'
        BY <1>7, <2>1
      <3> QED BY <2>1, <3>2, <3>3, <3>4, <3>5
    <2>2. ASSUME ~(emulated /\ t = IPC), NEW kind \in {"delayed", "immediate"},
                 Then(t, <<PostFlush(kind)>>),
                 delayed_flush_scheduled_' \in BOOLEAN, immediate_flush_scheduled_' \in BOOLEAN
          PROVE  \E ops \in Seq(Steps) :
                    /\ Does(t, ops)
                    /\ \A x \in ToSet(ops) : ~IsRelease(x) /\ x.op # "Scrape" /\ ~Uses(x)
                    /\ \E x \in ToSet(ops) : x.op = "PostDelayedFlush" /\ Flushes(x)
      <3>1. PICK call : call = PostFlush(kind)
        OBVIOUS
      <3>2. call \in Steps /\ ~IsRelease(call) /\ call.op = "PostDelayedFlush" /\ Flushes(call)
            /\ ~Uses(call)
        BY <3>1, StepsAreTyped DEF PostFlush, IsRelease, Flushes, Uses
      <3>3. <<call>> \in Seq(Steps) /\ ToSet(<<call>>) = {call}
        BY <3>2, SetOfShort
      <3>4. Does(t, <<call>>)
        BY <1>1, <1>3, <2>2, <3>1, <3>3, NextOp
      <3> QED BY <3>2, <3>3, <3>4
    <2>3. CASE ~(emulated /\ t = IPC) /\ (immediate \/ delayed)
      <3>1. /\ delayed_flush_scheduled_' \in BOOLEAN /\ immediate_flush_scheduled_' \in BOOLEAN
            /\ \E kind \in {"delayed", "immediate"} : Then(t, <<PostFlush(kind)>>)
        BY <1>7, <2>3
      <3> QED BY <2>2, <2>3, <3>1
    <2>4. CASE ~(emulated /\ t = IPC) /\ ~immediate /\ ~delayed
      <3>1. /\ Then(t, <<>>) /\ delayed_flush_scheduled_' = delayed_flush_scheduled_
            /\ immediate_flush_scheduled_' = immediate_flush_scheduled_
        BY <1>1, <1>7, <2>4 DEF Types
      <3>2. Does(t, <<>>) /\ <<>> \in Seq(Steps) /\ ToSet(<<>>) = {}
        BY <1>1, <1>3, <3>1, NextOp, SetOfShort, EmptySeq
      <3> QED BY <2>4, <3>1, <3>2
    <2> QED BY <2>1, <2>3, <2>4
  <1>10. /\ todo' \in [Threads -> Seq(Steps)]
         /\ Ops(t)' = ToSet(ops) \cup ToSet(Rest(t))
    BY <1>1, <1>9, DoesEffect
  <1>11. delayed_flush_scheduled_' \in BOOLEAN /\ immediate_flush_scheduled_' \in BOOLEAN
    BY <1>7 DEF Types
  <1>12. Types'
    BY <1>1, <1>5, <1>8, <1>10, <1>11 DEF Types, binding, ids, callers
  <1>13. UserInv'
    <2>1. UNCHANGED <<active_writer_ids_, may_delete>> /\ IPC \notin AppThreads
      BY <1>5, ArbiterAssumption DEF ids, callers
    <2> QED BY <1>1, <1>2, <1>4, <1>8, <1>9, <2>1, UserFrame
  <1>14. FlushInv'
    <2>1. UNCHANGED <<fully_bound_, tasks, timers, may_delete>>
      BY <1>5 DEF binding, callers
    <2>2. (\E x \in ToSet(ops) : Flushes(x)) => SomeFlushUnderWay'
      BY <1>10 DEF SomeFlushUnderWay
    <2>3. (\E x \in ToSet(ops) : x.op = "PostDelayedFlush") => DelayedFlushUnderWay'
      BY <1>10 DEF DelayedFlushUnderWay
    <2>4. DelayedFlushUnderWay => SomeFlushUnderWay'
      <3>1. CASE timers.delayed + timers.immediate > 0
        BY <2>1, <3>1 DEF SomeFlushUnderWay
      <3>2. ASSUME NEW u \in Threads, NEW x \in Ops(u), x.op = "PostDelayedFlush"
            PROVE  SomeFlushUnderWay'
        <4>1. x \in Ops(u)'
          BY <1>1, <1>2, <1>3, <1>9, <3>2, DoesEffect
        <4> QED BY <3>2, <4>1 DEF SomeFlushUnderWay, Flushes
      <3> QED BY <3>1, <3>2 DEF DelayedFlushUnderWay
    <2>5. commit_data_req_ = None /\ fully_bound_ /\ ~may_delete => SomeFlushUnderWay'
      <3>1. CASE \E x \in ToSet(ops) : Flushes(x)
        BY <2>2, <3>1
      <3>2. CASE ~(\E x \in ToSet(ops) : Flushes(x))
        BY <1>1, <1>9, <2>4, <3>2 DEF FlushInv
      <3> QED BY <3>1, <3>2
    <2>6. (delayed_flush_scheduled_' \/ immediate_flush_scheduled_') /\ ~may_delete' =>
             \/ (delayed_flush_scheduled_ \/ immediate_flush_scheduled_) /\ ~may_delete
             \/ DelayedFlushUnderWay'
      BY <1>9, <2>1, <2>3
    <2>7. todo[t] # <<>> /\ Head(todo[t]) = op /\ ~Flushes(op) /\ op.op = "UpdateCommitDataRequest"
      BY <1>2, <1>3, <1>4
    <2>8. \A x \in ToSet(ops) : x.op # "Scrape"
      BY <1>9
    <2> QED BY <1>1, <1>9, <2>1, <2>5, <2>6, <2>7, <2>8, FlushFrame
  <1> QED BY <1>12, <1>13, <1>14 DEF ArbiterInv

\* A step of the idle IPC thread that touches no writer.
LEMMA IpcUserFrame ==
  ASSUME Types, UserInv, NEW ops, Does(IPC, ops), Idle(IPC),
         UNCHANGED <<active_writer_ids_, may_delete, writer>>,
         \A op \in ToSet(ops) : ~IsRelease(op)
  PROVE  UserInv'
  <1>1. IPC \notin AppThreads /\ SameWriters /\ todo[IPC] = <<>>
    BY ArbiterAssumption DEF SameWriters, Idle
  <1> QED BY <1>1, UserFrame

\* The flush itself: what it leaves to its thread, and what becomes of the request.
LEMMA FlushLockedEffect ==
  ASSUME Types, NEW t \in Threads, NEW cb \in SUBSET Callbacks, NEW rest, FlushLocked(t, cb, rest)
  PROVE  /\ UNCHANGED <<endpoint, fully_bound_, target_buffer_reservations_, active_writer_ids_,
                        last_id_, delayed_flush_scheduled_, immediate_flush_scheduled_, timers,
                        writer, may_delete>>
         /\ pending_flush_callbacks_' \in SUBSET Callbacks
         /\ commit_data_req_' # None => commit_data_req_ # None
         /\ t = IPC => GoOn(t, <<>>, rest) /\ (fully_bound_ => commit_data_req_' = None)
         /\ t # IPC => IF fully_bound_ THEN GoOn(t, <<PostTask(FlushCall(cb))>>, rest)
                       ELSE GoOn(t, <<>>, rest)
  <1>1. UNCHANGED <<endpoint, fully_bound_, target_buffer_reservations_, active_writer_ids_,
                    last_id_, delayed_flush_scheduled_, immediate_flush_scheduled_, timers,
                    writer, may_delete>>
    BY DEF FlushLocked, ids, flags, callers
  <1>2. CASE FlushUnbound(t, cb, rest)
    BY <1>1, <1>2 DEF FlushUnbound, Types
  <1>3. CASE FlushElsewhere(t, cb, rest)
    BY <1>1, <1>3 DEF FlushElsewhere, Types
  <1>4. CASE FlushEmpty(t, cb, rest)
    BY <1>1, <1>4 DEF FlushEmpty, Types
  <1>5. CASE FlushRequest(t, cb, rest)
    BY <1>1, <1>5 DEF FlushRequest, Types
  <1> QED BY <1>2, <1>3, <1>4, <1>5 DEF FlushLocked

\* FlushPendingCommitDataRequests called by a thread.
LEMMA FlushPendingCommitDataRequestsStep ==
  ASSUME ArbiterInv, NEW t \in Threads, FlushPendingCommitDataRequests(t), UNCHANGED setup
  PROVE  ArbiterInv'
  <1>1. Types /\ UserInv /\ FlushInv
    BY DEF ArbiterInv
  <1>2. PICK op : op = Head(todo[t])
    OBVIOUS
  <1>3. /\ todo[t] # <<>> /\ op.op = "Flush" /\ FlushLocked(t, op.callback, Tail(todo[t]))
        /\ UNCHANGED tasks
    BY <1>2 DEF FlushPendingCommitDataRequests, Doing
  <1>4. op \in Ops(t) /\ op.callback \in SUBSET Callbacks /\ ~IsRelease(op) /\ Uses(op)
    BY <1>1, <1>2, <1>3, NextOp, StepFields DEF IsRelease, Uses
  <1>5. PICK post : post = PostTask(FlushCall(op.callback))
    OBVIOUS
  <1>6. post \in Steps /\ ~IsRelease(post) /\ post.op = "PostTask" /\ Flushes(post)
    <2>1. post \in Steps
      BY <1>4, <1>5, StepsAreTyped
    <2> QED BY <1>5, <2>1 DEF PostTask, FlushCall, IsRelease, Flushes
  <1>7. PICK ops \in Seq(Steps) :
          /\ Does(t, ops)
          /\ ToSet(ops) \subseteq {post}
          /\ t = IPC => ops = <<>> /\ (fully_bound_ => commit_data_req_' = None)
          /\ t # IPC /\ fully_bound_ => ToSet(ops) = {post}
    <2>1. CASE t = IPC \/ ~fully_bound_
      <3>1. GoOn(t, <<>>, Tail(todo[t])) /\ (t = IPC /\ fully_bound_ => commit_data_req_' = None)
        BY <1>1, <1>3, <1>4, <2>1, FlushLockedEffect
      <3>2. Does(t, <<>>) /\ <<>> \in Seq(Steps) /\ ToSet(<<>>) = {}
        BY <1>1, <1>3, <3>1, NextOp, SetOfShort, EmptySeq
      <3> QED BY <2>1, <3>1, <3>2
    <2>2. CASE t # IPC /\ fully_bound_
      <3>1. GoOn(t, <<post>>, Tail(todo[t]))
        BY <1>1, <1>3, <1>4, <1>5, <2>2, FlushLockedEffect
      <3>2. <<post>> \in Seq(Steps) /\ ToSet(<<post>>) = {post}
        BY <1>6, SetOfShort
      <3>3. Does(t, <<post>>)
        BY <1>1, <1>3, <3>1, <3>2, NextOp
      <3> QED BY <2>2, <3>2, <3>3
    <2> QED BY <2>1, <2>2
  <1>8. /\ UNCHANGED <<endpoint, fully_bound_, target_buffer_reservations_, active_writer_ids_,
                       last_id_, delayed_flush_scheduled_, immediate_flush_scheduled_, timers,
                       writer, may_delete>>
        /\ pending_flush_callbacks_' \in SUBSET Callbacks
        /\ commit_data_req_' # None => commit_data_req_ # None
    BY <1>1, <1>3, <1>4, FlushLockedEffect
  <1>9. todo' \in [Threads -> Seq(Steps)] /\ Ops(t)' = ToSet(ops) \cup ToSet(Rest(t))
        /\ ToSet(Rest(t)) \subseteq Ops(t)
    BY <1>1, <1>7, DoesEffect
  <1>10. Types'
    BY <1>1, <1>3, <1>8, <1>9 DEF Types
  <1>11. UserInv'
    <2>1. SameWriters
      BY <1>8 DEF SameWriters
    <2>2. t \in AppThreads => \E w \in Writers : Home[w] = t /\ HoldsId(w)
      BY <1>1, <1>4 DEF UserInv
    <2> QED BY <1>1, <1>2, <1>4, <1>6, <1>7, <1>8, <2>1, <2>2, UserFrame
  <1>12. FlushInv'
    <2>1. SomeFlushUnderWay' \/ ~RequestIsOwed'
      <3>1. CASE ~fully_bound_
        BY <1>8, <3>1 DEF RequestIsOwed
      <3>2. CASE fully_bound_ /\ t # IPC
        BY <1>6, <1>7, <1>9, <3>2 DEF SomeFlushUnderWay
      <3>3. CASE fully_bound_ /\ t = IPC
        <4>1. \A x \in Ops(IPC) : x.op # "Scrape"
          BY <1>1, <1>3, <1>4, <3>3 DEF FlushInv
        <4>2. Ops(IPC)' \subseteq Ops(IPC)
          BY <1>7, <1>9, <3>3, SetOfShort
        <4> QED BY <1>7, <3>3, <4>1, <4>2 DEF RequestIsOwed
      <3> QED BY <3>1, <3>2, <3>3
    <2>2. \A x \in ToSet(ops) : x.op # "Scrape"
      BY <1>6, <1>7
    <2> QED BY <1>1, <1>2, <1>3, <1>7, <1>8, <2>1, <2>2, FlushFrame
  <1> QED BY <1>10, <1>11, <1>12 DEF ArbiterInv

\* A task is posted: the flush it may be stays under way.
LEMMA DoPostTaskStep ==
  ASSUME ArbiterInv, NEW t \in Threads, DoPostTask(t), UNCHANGED setup
  PROVE  ArbiterInv'
  <1>1. Types /\ UserInv /\ FlushInv
    BY DEF ArbiterInv
  <1>2. PICK op : op = Head(todo[t])
    OBVIOUS
  <1>3. /\ todo[t] # <<>> /\ op.op = "PostTask" /\ tasks' = Append(tasks, op.task)
        /\ UNCHANGED <<setup, arbiter, timers, writer, may_delete>>
    BY <1>2 DEF DoPostTask, Doing, memory, callers
  <1>4. op \in Ops(t) /\ op.task \in Tasks /\ ~IsRelease(op)
    BY <1>1, <1>2, <1>3, NextOp, StepFields DEF IsRelease
  <1>5. Does(t, <<>>) /\ <<>> \in Seq(Steps) /\ ToSet(<<>>) = {}
    <2>1. Then(t, <<>>)
      BY DEF DoPostTask
    <2> QED BY <1>1, <1>3, <2>1, NextOp, SetOfShort, EmptySeq
  <1>6. tasks' \in Seq(Tasks) /\ ToSet(tasks') = ToSet(tasks) \cup {op.task}
    <2>1. PICK last : last = <<op.task>>
      OBVIOUS
    <2>2. last \in Seq(Tasks) /\ ToSet(last) = {op.task}
      BY <1>4, <2>1, SetOfShort
    <2>3. tasks' = tasks \o last
      BY <1>1, <1>3, <1>4, <2>1, AppendIsConcat DEF Types
    <2>4. tasks \in Seq(Tasks)
      BY <1>1 DEF Types
    <2> QED BY <2>2, <2>3, <2>4, SetOfCat
  <1>7. todo' \in [Threads -> Seq(Steps)]
    BY <1>1, <1>5, DoesEffect
  <1>8. Types'
    BY <1>1, <1>3, <1>6, <1>7 DEF Types, arbiter, binding, ids, batch, flags
  <1>9. UserInv'
    <2>1. SameWriters /\ UNCHANGED <<active_writer_ids_, may_delete>>
      BY <1>3 DEF SameWriters, arbiter, ids
    <2> QED BY <1>1, <1>2, <1>4, <1>5, <2>1, UserFrame
  <1>10. FlushInv'
    <2>1. Flushes(op) => SomeFlushUnderWay'
      BY <1>3, <1>6 DEF SomeFlushUnderWay, Flushes
    <2>2. UNCHANGED <<delayed_flush_scheduled_, immediate_flush_scheduled_,
                      fully_bound_, commit_data_req_, timers, may_delete>>
      BY <1>3 DEF arbiter, binding, batch, flags
    <2> QED BY <1>1, <1>2, <1>3, <1>5, <1>6, <2>1, <2>2, FlushFrame
  <1> QED BY <1>8, <1>9, <1>10 DEF ArbiterInv

\* A delayed flush is posted.
LEMMA DoPostDelayedFlushStep ==
  ASSUME ArbiterInv, NEW t \in Threads, DoPostDelayedFlush(t), UNCHANGED setup
  PROVE  ArbiterInv'
  <1>1. Types /\ UserInv /\ FlushInv
    BY DEF ArbiterInv
  <1>2. PICK op : op = Head(todo[t])
    OBVIOUS
  <1>3. /\ todo[t] # <<>> /\ op.op = "PostDelayedFlush"
        /\ timers' = [timers EXCEPT ![op.kind] = @ + 1]
        /\ UNCHANGED <<setup, arbiter, tasks, writer, may_delete>>
    BY <1>2 DEF DoPostDelayedFlush, Doing, memory, callers
  <1>4. op \in Ops(t) /\ op.kind \in {"delayed", "immediate"} /\ ~IsRelease(op)
    BY <1>1, <1>2, <1>3, NextOp, StepFields DEF IsRelease
  <1>5. Does(t, <<>>) /\ <<>> \in Seq(Steps) /\ ToSet(<<>>) = {}
    <2>1. Then(t, <<>>)
      BY DEF DoPostDelayedFlush
    <2> QED BY <1>1, <1>3, <2>1, NextOp, SetOfShort, EmptySeq
  <1>6. timers' \in [delayed: Nat, immediate: Nat] /\ timers'.delayed + timers'.immediate > 0
    <2>1. timers \in [delayed: Nat, immediate: Nat]
      BY <1>1 DEF Types
    <2>2. CASE op.kind = "delayed"
      BY <1>3, <2>1, <2>2
    <2>3. CASE op.kind = "immediate"
      BY <1>3, <2>1, <2>3
    <2> QED BY <1>4, <2>2, <2>3
  <1>7. todo' \in [Threads -> Seq(Steps)]
    BY <1>1, <1>5, DoesEffect
  <1>8. Types'
    BY <1>1, <1>3, <1>6, <1>7 DEF Types, arbiter, binding, ids, batch, flags
  <1>9. UserInv'
    <2>1. SameWriters /\ UNCHANGED <<active_writer_ids_, may_delete>>
      BY <1>3 DEF SameWriters, arbiter, ids
    <2> QED BY <1>1, <1>2, <1>4, <1>5, <2>1, UserFrame
  <1>10. FlushInv'
    <2>1. SomeFlushUnderWay' /\ DelayedFlushUnderWay'
      BY <1>6 DEF SomeFlushUnderWay, DelayedFlushUnderWay
    <2>2. UNCHANGED <<delayed_flush_scheduled_, immediate_flush_scheduled_,
                      fully_bound_, commit_data_req_, tasks, may_delete>>
      BY <1>3 DEF arbiter, binding, batch, flags
    <2> QED BY <1>1, <1>2, <1>3, <1>5, <1>6, <2>1, <2>2, FlushFrame
  <1> QED BY <1>8, <1>9, <1>10 DEF ArbiterInv

\* Resolving a reservation: once the arbiter is bound, the IPC thread flushes.
LEMMA BindImplEffect ==
  ASSUME Types, NEW t \in Threads, NEW r \in Reservations, NEW b \in Nat, NEW rest,
         BindStartupTargetBufferImpl(t, r, b, rest), t = IPC \/ ~endpoint
  PROVE  \E ops \in Seq(Steps) :
            /\ GoOn(t, ops, rest)
            /\ \A x \in ToSet(ops) : x.op = "Flush" /\ t = IPC
            /\ fully_bound_' => fully_bound_ \/ \E x \in ToSet(ops) : x.op = "Flush"
            /\ target_buffer_reservations_' \in [Reservations -> {Absent, Unbound} \cup Nat]
            /\ fully_bound_' \in BOOLEAN
            /\ pending_flush_callbacks_' \in SUBSET Callbacks
            /\ UNCHANGED endpoint
  <1> DEFINE res == [target_buffer_reservations_ EXCEPT ![r] = b]
             bound == UpdateFullyBound(endpoint, res)
  <1>1. /\ target_buffer_reservations_' = res
        /\ fully_bound_' = IF endpoint THEN bound ELSE fully_bound_
        /\ pending_flush_callbacks_' = CallbacksLeft(bound)
        /\ GoOn(t, FlushAfterBinding(bound), rest)
        /\ UNCHANGED endpoint
    BY DEF BindStartupTargetBufferImpl
  <1>2. bound \in BOOLEAN /\ (bound => endpoint)
    BY DEF Types, UpdateFullyBound
  <1>3. res \in [Reservations -> {Absent, Unbound} \cup Nat]
    BY DEF Types
  <1> HIDE DEF res, bound
  <1>4. /\ pending_flush_callbacks_' \in SUBSET Callbacks
        /\ fully_bound_' \in BOOLEAN
    BY <1>1, <1>2 DEF Types, CallbacksLeft
  <1>5. CASE bound
    <2>1. PICK call : call = FlushCall(pending_flush_callbacks_)
      OBVIOUS
    <2>2. call \in Steps /\ call.op = "Flush"
      <3>1. call \in Steps
        BY <2>1, StepsAreTyped DEF Types
      <3> QED BY <2>1, <3>1 DEF FlushCall
    <2>3. <<call>> \in Seq(Steps) /\ ToSet(<<call>>) = {call}
      BY <2>2, SetOfShort
    <2>4. GoOn(t, <<call>>, rest)
      BY <1>1, <1>5, <2>1 DEF FlushAfterBinding
    <2>5. t = IPC
      BY <1>2, <1>5
    <2> QED BY <1>1, <1>3, <1>4, <2>2, <2>3, <2>4, <2>5
  <1>6. CASE ~bound
    <2>1. GoOn(t, <<>>, rest)
      BY <1>1, <1>6 DEF FlushAfterBinding
    <2>2. <<>> \in Seq(Steps) /\ ToSet(<<>>) = {}
      BY SetOfShort, EmptySeq
    <2> QED BY <1>1, <1>3, <1>4, <1>6, <2>1, <2>2
  <1> QED BY <1>5, <1>6

\* What resolving a reservation preserves.
LEMMA BoundFrame ==
  ASSUME ArbiterInv, NEW t \in Threads, NEW ops \in Seq(Steps), Does(t, ops),
         \A x \in ToSet(ops) : \/ x.op = "Flush" /\ t = IPC
                               \/ x.op = "PostTask" /\ x.task.op = "Abort",
         fully_bound_' => fully_bound_ \/ \E x \in ToSet(ops) : x.op = "Flush",
         target_buffer_reservations_' \in [Reservations -> {Absent, Unbound} \cup Nat],
         fully_bound_' \in BOOLEAN, endpoint' \in BOOLEAN,
         pending_flush_callbacks_' \in SUBSET Callbacks,
         tasks' \in Seq(Tasks), \A x \in ToSet(tasks) : Flushes(x) => x \in ToSet(tasks'),
         UNCHANGED <<setup, ids, batch, timers, writer, may_delete>>,
         todo[t] # <<>> => Head(todo[t]).op = "Abort"
  PROVE  ArbiterInv'
  <1>1. Types /\ UserInv /\ FlushInv
    BY DEF ArbiterInv
  <1>2. todo' \in [Threads -> Seq(Steps)] /\ Ops(t)' = ToSet(ops) \cup ToSet(Rest(t))
    BY <1>1, DoesEffect
  <1>3. Types'
    BY <1>1, <1>2 DEF Types, ids, batch, flags
  <1>4. UserInv'
    <2>1. SameWriters /\ UNCHANGED <<active_writer_ids_, may_delete>> /\ IPC \notin AppThreads
      BY ArbiterAssumption DEF SameWriters, ids
    <2>2. todo[t] # <<>> => ~IsRelease(Head(todo[t]))
      BY DEF IsRelease
    <2>3. \A x \in ToSet(ops) : ~IsRelease(x) /\ (Uses(x) => t = IPC)
      BY DEF IsRelease, Uses
    <2> QED BY <1>1, <2>1, <2>2, <2>3, UserFrame
  <1>5. FlushInv'
    <2>1. (\E x \in ToSet(ops) : x.op = "Flush") => SomeFlushUnderWay'
      BY <1>2 DEF SomeFlushUnderWay, Flushes
    <2>2. UNCHANGED <<delayed_flush_scheduled_, immediate_flush_scheduled_, commit_data_req_,
                      timers, may_delete>>
      BY DEF batch, flags
    <2>3. todo[t] # <<>> => /\ ~Flushes(Head(todo[t])) /\ Head(todo[t]).op # "PostDelayedFlush"
                            /\ Head(todo[t]).op \notin {"Scrape", "PostTask"}
      BY DEF Flushes
    <2>4. \A x \in ToSet(ops) : x.op # "Scrape"
      OBVIOUS
    <2> QED BY <1>1, <2>1, <2>2, <2>3, <2>4, FlushFrame
  <1> QED BY <1>3, <1>4, <1>5 DEF ArbiterInv

\* AbortStartupTracingForReservation, on the spot or as a task of the IPC thread.
LEMMA AbortLockedEffect ==
  ASSUME Types, NEW t \in Threads, NEW r \in Reservations, NEW rest, AbortLocked(t, r, rest)
  PROVE  /\ UNCHANGED <<ids, batch, timers, writer, may_delete>>
         /\ \E ops \in Seq(Steps) :
            /\ GoOn(t, ops, rest)
            /\ \A x \in ToSet(ops) : \/ x.op = "Flush" /\ t = IPC
                                     \/ x.op = "PostTask" /\ x.task.op = "Abort"
            /\ fully_bound_' => fully_bound_ \/ \E x \in ToSet(ops) : x.op = "Flush"
            /\ target_buffer_reservations_' \in [Reservations -> {Absent, Unbound} \cup Nat]
            /\ fully_bound_' \in BOOLEAN /\ endpoint' \in BOOLEAN
            /\ pending_flush_callbacks_' \in SUBSET Callbacks
  <1>1. UNCHANGED <<ids, batch, timers, writer, may_delete>>
    BY DEF AbortLocked, memory, callers
  <1>2. CASE endpoint /\ t # IPC
    <2>1. PICK post : post = PostTask(AbortCall(r))
      OBVIOUS
    <2>2. post \in Steps /\ post.op = "PostTask" /\ post.task.op = "Abort"
      <3>1. post \in Steps
        BY <2>1, StepsAreTyped
      <3> QED BY <2>1, <3>1 DEF PostTask, AbortCall
    <2>3. <<post>> \in Seq(Steps) /\ ToSet(<<post>>) = {post}
      BY <2>2, SetOfShort
    <2>4. GoOn(t, <<post>>, rest) /\ UNCHANGED binding
      BY <1>2, <2>1 DEF AbortLocked
    <2>5. /\ UNCHANGED <<endpoint, fully_bound_>>
          /\ target_buffer_reservations_' \in [Reservations -> {Absent, Unbound} \cup Nat]
          /\ fully_bound_' \in BOOLEAN /\ endpoint' \in BOOLEAN
          /\ pending_flush_callbacks_' \in SUBSET Callbacks
      BY <2>4 DEF Types, binding
    <2> QED BY <1>1, <2>2, <2>3, <2>4, <2>5
  <1>3. CASE ~(endpoint /\ t # IPC)
    <2>1. BindStartupTargetBufferImpl(t, r, kInvalidBufferId, rest) /\ kInvalidBufferId \in Nat
          /\ (t = IPC \/ ~endpoint)
      BY <1>3 DEF AbortLocked, kInvalidBufferId
    <2>2. PICK ops \in Seq(Steps) :
            /\ GoOn(t, ops, rest)
            /\ \A x \in ToSet(ops) : x.op = "Flush" /\ t = IPC
            /\ fully_bound_' => fully_bound_ \/ \E x \in ToSet(ops) : x.op = "Flush"
            /\ target_buffer_reservations_' \in [Reservations -> {Absent, Unbound} \cup Nat]
            /\ fully_bound_' \in BOOLEAN
            /\ pending_flush_callbacks_' \in SUBSET Callbacks
            /\ UNCHANGED endpoint
      <3> HIDE DEF kInvalidBufferId
      <3> QED BY <2>1, BindImplEffect
    <2>3. endpoint' \in BOOLEAN
      BY <2>2 DEF Types
    <2> QED BY <1>1, <2>2, <2>3
  <1> QED BY <1>2, <1>3

\* An abort called by a thread.
LEMMA AbortStartupTracingForReservationStep ==
  ASSUME ArbiterInv, NEW t \in Threads, AbortStartupTracingForReservation(t), UNCHANGED setup
  PROVE  ArbiterInv'
  <1>1. Types
    BY DEF ArbiterInv
  <1>2. PICK op : op = Head(todo[t])
    OBVIOUS
  <1>3. /\ todo[t] # <<>> /\ op.op = "Abort" /\ AbortLocked(t, op.reservation, Tail(todo[t]))
        /\ UNCHANGED tasks
    BY <1>2 DEF AbortStartupTracingForReservation, Doing
  <1>4. op.reservation \in Reservations
    BY <1>1, <1>2, <1>3, NextOp, StepFields
  <1>5. UNCHANGED <<ids, batch, timers, writer, may_delete>>
    BY <1>1, <1>3, <1>4, AbortLockedEffect
  <1>6. PICK ops \in Seq(Steps) :
            /\ GoOn(t, ops, Tail(todo[t]))
            /\ \A x \in ToSet(ops) : \/ x.op = "Flush" /\ t = IPC
                                     \/ x.op = "PostTask" /\ x.task.op = "Abort"
            /\ fully_bound_' => fully_bound_ \/ \E x \in ToSet(ops) : x.op = "Flush"
            /\ target_buffer_reservations_' \in [Reservations -> {Absent, Unbound} \cup Nat]
            /\ fully_bound_' \in BOOLEAN /\ endpoint' \in BOOLEAN
            /\ pending_flush_callbacks_' \in SUBSET Callbacks
    BY <1>1, <1>3, <1>4, AbortLockedEffect
  <1>7. Does(t, ops)
    BY <1>1, <1>3, <1>6, NextOp
  <1>8. tasks' \in Seq(Tasks) /\ \A x \in ToSet(tasks) : Flushes(x) => x \in ToSet(tasks')
    BY <1>1, <1>3 DEF Types
  <1> QED BY <1>2, <1>3, <1>5, <1>6, <1>7, <1>8, BoundFrame

\* The IPC thread, which has nothing to do, resolves a reservation.
LEMMA BindStartupTargetBufferStep ==
  ASSUME ArbiterInv, NEW r \in Reservations, NEW b \in Buffers, BindStartupTargetBuffer(r, b),
         UNCHANGED setup
  PROVE  ArbiterInv'
  <1>1. Types /\ IPC \in Threads /\ b \in Nat
    BY ArbiterAssumption DEF ArbiterInv, Threads
  <1>2. /\ todo[IPC] = <<>> /\ BindStartupTargetBufferImpl(IPC, r, b, <<>>)
        /\ UNCHANGED <<ids, batch, tasks, timers, writer, may_delete>>
    BY DEF BindStartupTargetBuffer, Idle, memory
  <1>3. PICK ops \in Seq(Steps) :
            /\ GoOn(IPC, ops, <<>>)
            /\ \A x \in ToSet(ops) : x.op = "Flush" /\ IPC = IPC
            /\ fully_bound_' => fully_bound_ \/ \E x \in ToSet(ops) : x.op = "Flush"
            /\ target_buffer_reservations_' \in [Reservations -> {Absent, Unbound} \cup Nat]
            /\ fully_bound_' \in BOOLEAN
            /\ pending_flush_callbacks_' \in SUBSET Callbacks
            /\ UNCHANGED endpoint
    BY <1>1, <1>2, BindImplEffect
  <1>4. Does(IPC, ops)
    BY <1>1, <1>2, <1>3 DEF Does, Rest, GoOn
  <1>5. tasks' \in Seq(Tasks) /\ (\A x \in ToSet(tasks) : Flushes(x) => x \in ToSet(tasks'))
        /\ endpoint' \in BOOLEAN
    BY <1>1, <1>2, <1>3 DEF Types
  <1> QED BY <1>1, <1>2, <1>3, <1>4, <1>5, BoundFrame

\* The arbiter is bound to its endpoint, and flushes when nothing else is missing.
LEMMA BindToProducerEndpointStep ==
  ASSUME ArbiterInv, BindToProducerEndpoint, UNCHANGED setup
  PROVE  ArbiterInv'
  <1> DEFINE bound == UpdateFullyBound(TRUE, target_buffer_reservations_)
  <1>1. Types /\ IPC \in Threads
    BY DEF ArbiterInv, Threads
  <1>2. /\ todo[IPC] = <<>> /\ endpoint' = TRUE /\ fully_bound_' = bound
        /\ pending_flush_callbacks_' = CallbacksLeft(bound)
        /\ todo' = [todo EXCEPT ![IPC] = FlushAfterBinding(bound)]
        /\ UNCHANGED <<target_buffer_reservations_, ids, batch, tasks, timers, writer, may_delete>>
    BY DEF BindToProducerEndpoint, Idle, memory, callers
  <1>3. bound \in BOOLEAN
    BY DEF UpdateFullyBound
  <1> HIDE DEF bound
  <1>4. PICK ops \in Seq(Steps) :
          /\ ops = FlushAfterBinding(bound)
          /\ \A x \in ToSet(ops) : x.op = "Flush"
          /\ bound => \E x \in ToSet(ops) : x.op = "Flush"
    <2>1. PICK call : call = FlushCall(pending_flush_callbacks_)
      OBVIOUS
    <2>2. call \in Steps /\ call.op = "Flush"
      <3>1. call \in Steps
        BY <1>1, <2>1, StepsAreTyped DEF Types
      <3> QED BY <2>1, <3>1 DEF FlushCall
    <2>3. <<call>> \in Seq(Steps) /\ ToSet(<<call>>) = {call}
      BY <2>2, SetOfShort
    <2>4. CASE bound
      BY <2>1, <2>2, <2>3, <2>4 DEF FlushAfterBinding
    <2>5. CASE ~bound
      BY <2>5, SetOfShort, EmptySeq DEF FlushAfterBinding
    <2> QED BY <1>3, <2>4, <2>5
  <1>5. Does(IPC, ops)
    <2>1. ops \o <<>> = ops
      BY ConcatEmptySeq
    <2> QED BY <1>1, <1>2, <1>4, <2>1 DEF Does, Rest
  <1>6. /\ tasks' \in Seq(Tasks) /\ (\A x \in ToSet(tasks) : Flushes(x) => x \in ToSet(tasks'))
        /\ endpoint' \in BOOLEAN /\ fully_bound_' \in BOOLEAN
        /\ pending_flush_callbacks_' \in SUBSET Callbacks
        /\ target_buffer_reservations_' \in [Reservations -> {Absent, Unbound} \cup Nat]
    BY <1>1, <1>2, <1>3 DEF Types, CallbacksLeft
  <1> QED BY <1>1, <1>2, <1>4, <1>5, <1>6, BoundFrame

\* The id of a destroyed writer becomes free: nobody else has it, and its
\* thread has nothing left to do for the writer.
LEMMA ReleaseWriterIDStep ==
  ASSUME ArbiterInv, NEW t \in Threads, ReleaseWriterID(t), UNCHANGED setup
  PROVE  ArbiterInv'
  <1>1. Types /\ UserInv /\ FlushInv
    BY DEF ArbiterInv
  <1>2. PICK op : op = Head(todo[t])
    OBVIOUS
  <1> DEFINE w == op.w
             id == writer[w].id
             post == PostTask(SendCall(Unregister(id)))
             ops == IF pending_writers_[id] = None /\ endpoint THEN <<post>> ELSE <<>>
  <1>3. /\ todo[t] # <<>> /\ IsRelease(op)
        /\ active_writer_ids_' = active_writer_ids_ \ {id}
        /\ Then(t, ops)
        /\ UNCHANGED <<endpoint, fully_bound_, target_buffer_reservations_,
                       pending_flush_callbacks_, last_id_, batch, tasks, timers, writer, may_delete>>
    BY <1>2 DEF ReleaseWriterID, Doing, memory, callers, IsRelease
  <1>4. op \in Ops(t) /\ op \in Steps /\ w \in Writers /\ Home[w] = t /\ writer[w].state = "dead"
        /\ op.op = "ReleaseWriterID"
    BY <1>1, <1>2, <1>3, NextOp, OpsAreTyped DEF UserInv, IsRelease
  <1>5. id \in Nat
    BY <1>1, <1>4, WriterIsTyped
  <1>6. post \in Steps /\ post.op = "PostTask" /\ ~IsRelease(post) /\ ~Uses(post)
    <2>1. post \in Steps
      BY <1>5, StepsAreTyped
    <2> QED BY <2>1 DEF PostTask, SendCall, IsRelease, Uses
  <1> HIDE DEF post
  <1>7. ops \in Seq(Steps) /\ ToSet(ops) \subseteq {post}
    BY <1>6, SetOfShort
  <1> HIDE DEF ops, id, w
  <1>8. Does(t, ops)
    BY <1>1, <1>3, <1>7, NextOp
  <1>9. Rest(t) = <<>>
    <2>1. PICK q : q = todo[t]
      OBVIOUS
    <2>2. q \in Seq(Steps) /\ q # <<>> /\ q[1] = op /\ Len(q) \in Nat \ {0}
          /\ Tail(q) \in Seq(Steps) /\ Len(Tail(q)) = Len(q) - 1
      BY <1>1, <1>2, <1>3, <2>1, SetOfQueue, EmptySeq DEF Types
    <2>3. ReleaseIsLast(q)
      BY <1>1, <2>1 DEF UserInv
    <2>4. Len(q) = 1
      <3>1. ~(1 \in 1 .. Len(q) - 1)
        BY <1>3, <2>2, <2>3 DEF ReleaseIsLast
      <3> QED BY <2>2, <3>1
    <2>5. Tail(q) = <<>>
      <3>1. PICK r : r = Tail(q)
        OBVIOUS
      <3>2. r \in Seq(Steps) /\ Len(r) \notin Nat \ {0}
        BY <2>2, <2>4, <3>1
      <3>3. r = <<>>
        BY <3>2, EmptySeq
      <3> QED BY <3>1, <3>3
    <2>6. Rest(t) = Tail(q)
      BY <1>1, <1>3, <2>1, NextOp
    <2> QED BY <2>5, <2>6
  <1>10. /\ todo' \in [Threads -> Seq(Steps)]
         /\ Ops(t) = {op} /\ Ops(t)' = ToSet(ops)
         /\ \A u \in Threads \ {t} : todo'[u] = todo[u] /\ Ops(u)' = Ops(u)
    <2>1. /\ todo' \in [Threads -> Seq(Steps)]
          /\ Ops(t)' = ToSet(ops) \cup ToSet(Rest(t))
          /\ todo[t] # <<>> => Ops(t) = {Head(todo[t])} \cup ToSet(Rest(t))
          /\ \A u \in Threads \ {t} : todo'[u] = todo[u] /\ Ops(u)' = Ops(u)
      BY <1>1, <1>8, DoesEffect
    <2>2. ToSet(Rest(t)) = {}
      BY <1>9, SetOfShort
    <2> QED BY <1>2, <1>3, <2>1, <2>2, Zenon
  <1>11. Types'
    BY <1>1, <1>3, <1>10 DEF Types, batch, flags
  <1>12. UserInv'
    <2>1. \A v \in Writers : Home[v] \in Threads
      BY ArbiterAssumption DEF Threads
    <2>2. HoldsId(w) /\ ~HoldsId(w)'
      BY <1>3, <1>4, <1>6, <1>7, <1>10 DEF HoldsId, w
    <2>3. ASSUME NEW v \in Writers, v # w PROVE HoldsId(v)' <=> HoldsId(v)
      <3>1. writer' = writer /\ Home[v] \in Threads
        BY <1>3, <2>1
      <3>2. CASE Home[v] # t
        BY <1>10, <3>1, <3>2 DEF HoldsId
      <3>3. CASE Home[v] = t
        <4>1. \A x \in Ops(t)' : ~IsRelease(x)
          BY <1>6, <1>7, <1>10
        <4>2. \A x \in Ops(t) : x.w # v
          BY <1>10, <2>3 DEF w
        <4> QED BY <3>1, <3>3, <4>1, <4>2 DEF HoldsId
      <3> QED BY <3>2, <3>3
    <2>4. \A v \in Writers : HoldsId(v)' => writer'[v].id \in active_writer_ids_'
      BY <1>1, <1>3, <1>4, <2>2, <2>3 DEF UserInv, id
    <2>5. \A u, v \in Writers :
            HoldsId(u)' /\ HoldsId(v)' /\ writer'[u].id = writer'[v].id => u = v
      BY <1>1, <1>3, <2>2, <2>3 DEF UserInv
    <2>6. \A u \in Threads : ReleaseIsLast(todo[u])'
      <3>1. ReleaseIsLast(todo[t])'
        BY <1>1, <1>6, <1>7, <1>8, ReleaseStaysLast DEF UserInv
      <3> QED BY <1>1, <1>10, <3>1 DEF UserInv, ReleaseIsLast
    <2>7. \A u \in Threads : \A x \in Ops(u)' :
            IsRelease(x) => Home[x.w] = u /\ writer'[x.w].state = "dead"
      BY <1>1, <1>3, <1>6, <1>7, <1>10 DEF UserInv
    <2>8. ASSUME NEW u \in AppThreads, NEW x \in Ops(u)', Uses(x)
          PROVE  \E v \in Writers : Home[v] = u /\ HoldsId(v)'
      <3>1. u \in Threads /\ u # t
        BY <1>6, <1>7, <1>10, <2>8 DEF Threads
      <3>2. PICK v \in Writers : Home[v] = u /\ HoldsId(v)
        BY <1>1, <1>10, <2>8, <3>1 DEF UserInv
      <3> QED BY <1>4, <2>3, <3>1, <3>2
    <2>9. may_delete' => active_writer_ids_' = {}
      BY <1>1, <1>3 DEF UserInv
    <2> QED BY <2>4, <2>5, <2>6, <2>7, <2>8, <2>9 DEF UserInv
  <1>13. FlushInv'
    <2>1. UNCHANGED <<delayed_flush_scheduled_, immediate_flush_scheduled_,
                      fully_bound_, commit_data_req_, tasks, timers, may_delete>>
      BY <1>3 DEF batch, flags
    <2>2. \A x \in ToSet(ops) : x.op # "Scrape"
      BY <1>6, <1>7
    <2>3. ~Flushes(op) /\ op.op \notin {"PostDelayedFlush", "Scrape", "PostTask"}
      BY <1>4 DEF Flushes
    <2> QED BY <1>1, <1>2, <1>8, <2>1, <2>2, <2>3, FlushFrame
  <1> QED BY <1>11, <1>12, <1>13 DEF ArbiterInv

\* A step of the idle IPC thread that leaves it idle changes no queue.
LEMMA IpcStaysIdle ==
  ASSUME Types, Idle(IPC), GoOn(IPC, <<>>, <<>>) \/ UNCHANGED todo
  PROVE  UNCHANGED todo /\ Does(IPC, <<>>)
  <1>1. IPC \in Threads /\ todo \in [Threads -> Seq(Steps)] /\ todo[IPC] = <<>>
    BY DEF Types, Threads, Idle
  <1>2. <<>> \o <<>> = <<>> /\ <<>> \in Seq(Steps)
    OBVIOUS
  <1>3. todo' = todo
    BY <1>1, <1>2 DEF GoOn
  <1> QED BY <1>1, <1>2, <1>3 DEF Does, Rest

\* The next task runs: a flush takes the request if the arbiter is bound.
LEMMA RunTaskStep ==
  ASSUME ArbiterInv, RunTask, UNCHANGED setup
  PROVE  ArbiterInv'
  <1>1. Types /\ UserInv /\ FlushInv /\ IPC \in Threads /\ IPC \notin AppThreads
    BY ArbiterAssumption DEF ArbiterInv, Threads
  <1>2. PICK task : task = Head(tasks)
    OBVIOUS
  <1>3. Idle(IPC) /\ todo[IPC] = <<>> /\ tasks # <<>> /\ tasks' = Tail(tasks)
    BY DEF RunTask, Idle
  <1>4. /\ task \in Tasks /\ tasks' \in Seq(Tasks)
        /\ ToSet(tasks) = {task} \cup ToSet(tasks')
    <2>1. tasks \in Seq(Tasks)
      BY <1>1 DEF Types
    <2> QED BY <1>2, <1>3, <2>1, SetOfQueue
  <1>5. \/ task.op = "Flush" /\ task.callback \in SUBSET Callbacks
        \/ task.op = "Abort" /\ task.reservation \in Reservations
        \/ task.op = "Send"
    BY <1>4 DEF Tasks, FlushCalls, AbortCalls, SendCalls
  <1>6. CASE may_delete
    <2>1. UNCHANGED <<arbiter, timers, todo, writer, may_delete>>
      BY <1>6 DEF RunTask, memory, callers
    <2>2. Types'
      BY <1>1, <1>4, <2>1 DEF Types, arbiter, binding, ids, batch, flags
    <2>3. UserInv'
      BY <1>1, <2>1 DEF UserInv, HoldsId, Ops, ReleaseIsLast, arbiter, ids
    <2>4. FlushInv'
      BY <1>1, <1>6, <2>1 DEF FlushInv, RequestIsOwed, Ops
    <2> QED BY <2>2, <2>3, <2>4 DEF ArbiterInv
  <1>7. CASE ~may_delete /\ task.op = "Flush"
    <2>1. FlushLocked(IPC, task.callback, <<>>)
      BY <1>2, <1>7 DEF RunTask
    <2>2. task.callback \in SUBSET Callbacks
      BY <1>5, <1>7
    <2>3. /\ UNCHANGED <<endpoint, fully_bound_, target_buffer_reservations_, active_writer_ids_,
                         last_id_, delayed_flush_scheduled_, immediate_flush_scheduled_, timers,
                         writer, may_delete>>
          /\ pending_flush_callbacks_' \in SUBSET Callbacks
          /\ GoOn(IPC, <<>>, <<>>) /\ (fully_bound_ => commit_data_req_' = None)
      BY <1>1, <2>1, <2>2, FlushLockedEffect
    <2>4. UNCHANGED todo /\ Does(IPC, <<>>)
      BY <1>1, <1>3, <2>3, IpcStaysIdle
    <2>5. Types'
      BY <1>1, <1>4, <2>3, <2>4 DEF Types
    <2>6. UserInv'
      BY <1>1, <2>3, <2>4 DEF UserInv, HoldsId, Ops, ReleaseIsLast
    <2>7. FlushInv'
      <3>1. Ops(IPC)' = {} /\ \A u : Ops(u)' = Ops(u)
        BY <1>3, <2>4, SetOfShort DEF Ops
      <3>2. ~RequestIsOwed'
        BY <2>3, <3>1 DEF RequestIsOwed
      <3> QED BY <1>1, <2>3, <3>1, <3>2 DEF FlushInv, DelayedFlushUnderWay
    <2> QED BY <2>5, <2>6, <2>7 DEF ArbiterInv
  <1>8. CASE ~may_delete /\ task.op = "Abort"
    <2>1. AbortLocked(IPC, task.reservation, <<>>)
      BY <1>2, <1>8 DEF RunTask
    <2>2. task.reservation \in Reservations
      BY <1>5, <1>8
    <2>3. UNCHANGED <<ids, batch, timers, writer, may_delete>>
      BY <1>1, <2>1, <2>2, AbortLockedEffect
    <2>4. PICK ops \in Seq(Steps) :
            /\ GoOn(IPC, ops, <<>>)
            /\ \A x \in ToSet(ops) : \/ x.op = "Flush" /\ IPC = IPC
                                     \/ x.op = "PostTask" /\ x.task.op = "Abort"
            /\ fully_bound_' => fully_bound_ \/ \E x \in ToSet(ops) : x.op = "Flush"
            /\ target_buffer_reservations_' \in [Reservations -> {Absent, Unbound} \cup Nat]
            /\ fully_bound_' \in BOOLEAN /\ endpoint' \in BOOLEAN
            /\ pending_flush_callbacks_' \in SUBSET Callbacks
      BY <1>1, <2>1, <2>2, AbortLockedEffect
    <2>5. Does(IPC, ops)
      BY <1>1, <1>3, <2>4 DEF Does, Rest, GoOn
    <2>6. \A x \in ToSet(tasks) : Flushes(x) => x \in ToSet(tasks')
      BY <1>4, <1>8 DEF Flushes
    <2> QED BY <1>1, <1>3, <1>4, <2>3, <2>4, <2>5, <2>6, BoundFrame
  <1>9. CASE ~may_delete /\ task.op = "Send"
    <2>1. UNCHANGED <<arbiter, timers, todo, writer, may_delete>>
      BY <1>2, <1>9 DEF RunTask, memory, callers
    <2>2. Types'
      BY <1>1, <1>4, <2>1 DEF Types, arbiter, binding, ids, batch, flags
    <2>3. UserInv'
      BY <1>1, <2>1 DEF UserInv, HoldsId, Ops, ReleaseIsLast, arbiter, ids
    <2>4. FlushInv'
      <3>1. \A x \in ToSet(tasks) : Flushes(x) => x \in ToSet(tasks')
        BY <1>4, <1>9 DEF Flushes
      <3>2. \A u : Ops(u)' = Ops(u)
        BY <2>1 DEF Ops
      <3>3. SomeFlushUnderWay => SomeFlushUnderWay'
        BY <2>1, <3>1, <3>2 DEF SomeFlushUnderWay
      <3> QED BY <1>1, <2>1, <3>2, <3>3 DEF FlushInv, RequestIsOwed, DelayedFlushUnderWay,
                                            arbiter, binding, batch, flags
    <2> QED BY <2>2, <2>3, <2>4 DEF ArbiterInv
  <1> QED BY <1>5, <1>6, <1>7, <1>8, <1>9

\* A delayed flush is due: it clears the flags and flushes at once.
LEMMA RunDelayedFlushStep ==
  ASSUME ArbiterInv, NEW kind \in {"delayed", "immediate"}, RunDelayedFlush(kind), UNCHANGED setup
  PROVE  ArbiterInv'
  <1>1. Types /\ UserInv /\ FlushInv /\ IPC \in Threads
    BY DEF ArbiterInv, Threads
  <1>2. /\ Idle(IPC) /\ todo[IPC] = <<>> /\ timers[kind] > 0
        /\ timers' = [timers EXCEPT ![kind] = @ - 1]
        /\ delayed_flush_scheduled_' = (delayed_flush_scheduled_ /\ may_delete)
        /\ immediate_flush_scheduled_' = (immediate_flush_scheduled_ /\ may_delete)
        /\ todo' = [todo EXCEPT ![IPC] = IF may_delete THEN <<>> ELSE <<FlushCall({})>>]
        /\ UNCHANGED <<binding, active_writer_ids_, last_id_, commit_data_req_, tasks, writer, may_delete>>
    BY DEF RunDelayedFlush, Idle, memory, callers, ids
  <1>3. timers' \in [delayed: Nat, immediate: Nat]
    <2>1. timers \in [delayed: Nat, immediate: Nat]
      BY <1>1 DEF Types
    <2>2. CASE kind = "delayed"
      BY <1>2, <2>1, <2>2
    <2>3. CASE kind = "immediate"
      BY <1>2, <2>1, <2>3
    <2> QED BY <2>2, <2>3
  <1>4. PICK call : call = FlushCall({})
    OBVIOUS
  <1>5. call \in Steps /\ call.op = "Flush"
    <2>1. call \in Steps
      BY <1>4, StepsAreTyped
    <2> QED BY <1>4, <2>1 DEF FlushCall
  <1>6. PICK ops : ops = IF may_delete THEN <<>> ELSE <<call>>
    OBVIOUS
  <1>7. ops \in Seq(Steps) /\ ToSet(ops) = IF may_delete THEN {} ELSE {call}
    <2>1. <<call>> \in Seq(Steps) /\ ToSet(<<call>>) = {call}
      BY <1>5, SetOfShort
    <2>2. <<>> \in Seq(Steps) /\ ToSet(<<>>) = {}
      BY SetOfShort, EmptySeq
    <2>3. CASE may_delete
      BY <1>6, <2>2, <2>3
    <2>4. CASE ~may_delete
      BY <1>6, <2>1, <2>4
    <2> QED BY <2>3, <2>4
  <1>8. Does(IPC, ops)
    <2>1. ops \o <<>> = ops
      BY <1>7, ConcatEmptySeq
    <2> QED BY <1>1, <1>2, <1>4, <1>6, <1>7, <2>1 DEF Does, Rest
  <1>9. todo' \in [Threads -> Seq(Steps)] /\ Ops(IPC)' = ToSet(ops) \cup ToSet(Rest(IPC))
        /\ ToSet(Rest(IPC)) = {}
    BY <1>1, <1>2, <1>8, DoesEffect, SetOfShort DEF Rest
  <1>10. Types'
    BY <1>1, <1>2, <1>3, <1>9 DEF Types, binding
  <1>11. UserInv'
    BY <1>1, <1>2, <1>5, <1>7, <1>8, IpcUserFrame DEF IsRelease
  <1>12. FlushInv'
    <2>1. CASE may_delete
      BY <1>2, <1>7, <1>9, <2>1 DEF FlushInv, RequestIsOwed
    <2>2. CASE ~may_delete
      <3>1. SomeFlushUnderWay'
        BY <1>1, <1>5, <1>7, <1>9, <2>2 DEF SomeFlushUnderWay, Flushes
      <3> QED BY <1>2, <1>5, <1>7, <1>9, <2>2, <3>1 DEF FlushInv
    <2> QED BY <2>1, <2>2
  <1> QED BY <1>10, <1>11, <1>12 DEF ArbiterInv

\* Scraping adds to the request, for which a flush was under way before it.
LEMMA ScrapeStep ==
  ASSUME ArbiterInv, NEW found, ScrapeEmulatedSharedMemoryBuffer(found), UNCHANGED setup
  PROVE  ArbiterInv'
  <1>1. Types /\ UserInv /\ FlushInv /\ IPC \in Threads /\ IPC \notin AppThreads
    BY ArbiterAssumption DEF ArbiterInv, Threads
  <1>2. PICK op : op = Head(todo[IPC])
    OBVIOUS
  <1>3. /\ todo[IPC] # <<>> /\ op.op = "Scrape" /\ Then(IPC, <<>>)
        /\ UNCHANGED <<binding, ids, flags, tasks, timers, writer, may_delete>>
    BY <1>2 DEF ScrapeEmulatedSharedMemoryBuffer, Doing, memory, callers
  <1>4. op \in Ops(IPC) /\ ~IsRelease(op) /\ ~Flushes(op)
    BY <1>1, <1>2, <1>3, NextOp DEF IsRelease, Flushes
  <1>5. Does(IPC, <<>>) /\ ToSet(<<>>) = {}
    BY <1>1, <1>3, NextOp, SetOfShort, EmptySeq
  <1>6. todo' \in [Threads -> Seq(Steps)]
    BY <1>1, <1>5, DoesEffect
  <1>7. Types'
    BY <1>1, <1>3, <1>6 DEF Types, binding, ids, flags
  <1>8. UserInv'
    <2>1. SameWriters /\ UNCHANGED <<active_writer_ids_, may_delete>>
      BY <1>3 DEF SameWriters, ids
    <2> QED BY <1>1, <1>2, <1>4, <1>5, <2>1, UserFrame
  <1>9. FlushInv'
    <2>1. UNCHANGED <<delayed_flush_scheduled_, immediate_flush_scheduled_, fully_bound_, tasks,
                      timers, may_delete>>
      BY <1>3 DEF binding, flags
    <2>2. \E x \in Ops(IPC) : x.op = "Scrape"
      BY <1>3, <1>4
    <2> QED BY <1>1, <1>2, <1>3, <1>4, <1>5, <2>1, <2>2, FlushFrame
  <1> QED BY <1>7, <1>8, <1>9 DEF ArbiterInv

\* A reply to a flush request: if it makes a request, it posts a flush; if it
\* finds one, a flush is under way; and then it may scrape.
LEMMA NotifyFlushCompleteStep ==
  ASSUME ArbiterInv, NEW id \in FlushIDs, NotifyFlushComplete(id), UNCHANGED setup
  PROVE  ArbiterInv'
  <1> DEFINE create == commit_data_req_ = None
             post == PostTask(FlushCall({}))
             scrape == [op |-> "Scrape"]
  <1>1. Types /\ UserInv /\ FlushInv /\ IPC \in Threads
    BY DEF ArbiterInv, Threads
  <1>2. /\ Idle(IPC) /\ todo[IPC] = <<>> /\ ~may_delete
        /\ todo' = [todo EXCEPT ![IPC] =
              (IF create /\ fully_bound_ THEN <<post>> ELSE <<>>)
              \o (IF Scraping THEN <<scrape>> ELSE <<>>)]
        /\ UNCHANGED <<binding, ids, flags, tasks, timers, writer, may_delete>>
    BY DEF NotifyFlushComplete, Idle, memory
  <1>3. post \in Steps /\ post.op = "PostTask" /\ Flushes(post) /\ ~IsRelease(post)
    <2>1. post \in Steps
      BY StepsAreTyped
    <2> QED BY <2>1 DEF PostTask, FlushCall, Flushes, IsRelease
  <1>4. scrape \in Steps /\ scrape.op = "Scrape" /\ ~IsRelease(scrape)
    BY StepsAreTyped DEF IsRelease
  <1> HIDE DEF post, scrape
  <1>5. PICK a : a = IF create /\ fully_bound_ THEN <<post>> ELSE <<>>
    OBVIOUS
  <1>6. PICK b : b = IF Scraping THEN <<scrape>> ELSE <<>>
    OBVIOUS
  <1>7. a \in Seq(Steps) /\ ToSet(a) = IF create /\ fully_bound_ THEN {post} ELSE {}
    <2>1. <<post>> \in Seq(Steps) /\ ToSet(<<post>>) = {post}
          /\ <<>> \in Seq(Steps) /\ ToSet(<<>>) = {}
      BY <1>3, SetOfShort, EmptySeq
    <2>2. CASE create /\ fully_bound_
      BY <1>5, <2>1, <2>2
    <2>3. CASE ~(create /\ fully_bound_)
      BY <1>5, <2>1, <2>3
    <2> QED BY <2>2, <2>3
  <1>8. b \in Seq(Steps) /\ ToSet(b) \subseteq {scrape}
    <2>1. <<scrape>> \in Seq(Steps) /\ ToSet(<<scrape>>) = {scrape}
          /\ <<>> \in Seq(Steps) /\ ToSet(<<>>) = {}
      BY <1>4, SetOfShort, EmptySeq
    <2>2. CASE Scraping
      BY <1>6, <2>1, <2>2
    <2>3. CASE ~Scraping
      BY <1>6, <2>1, <2>3
    <2> QED BY <2>2, <2>3
  <1>9. PICK ops : ops = a \o b
    OBVIOUS
  <1>10. ops \in Seq(Steps) /\ ToSet(ops) = ToSet(a) \cup ToSet(b)
    BY <1>7, <1>8, <1>9, SetOfCat
  <1>11. Does(IPC, ops)
    <2>1. ops \o <<>> = ops
      BY <1>10, ConcatEmptySeq
    <2>2. todo' = [todo EXCEPT ![IPC] = ops]
      BY <1>2, <1>5, <1>6, <1>9
    <2> QED BY <1>1, <1>2, <1>10, <2>1, <2>2 DEF Does, Rest
  <1>12. /\ todo' \in [Threads -> Seq(Steps)] /\ Ops(IPC)' = ToSet(ops) /\ Ops(IPC) = {}
         /\ \A u \in Threads \ {IPC} : Ops(u)' = Ops(u)
    <2>1. Rest(IPC) = <<>> /\ ToSet(Rest(IPC)) = {}
      BY <1>2, SetOfShort DEF Rest
    <2>2. /\ todo' \in [Threads -> Seq(Steps)]
          /\ Ops(IPC)' = ToSet(ops) \cup ToSet(Rest(IPC))
          /\ todo[IPC] = <<>> => Ops(IPC) = {}
          /\ \A u \in Threads \ {IPC} : Ops(u)' = Ops(u)
      BY <1>1, <1>11, DoesEffect
    <2> QED BY <1>2, <2>1, <2>2
  <1>13. Types'
    BY <1>1, <1>2, <1>12 DEF Types, binding, ids, flags
  <1>14. UserInv'
    <2>1. \A x \in ToSet(ops) : ~IsRelease(x)
      BY <1>3, <1>4, <1>7, <1>8, <1>10
    <2> QED BY <1>1, <1>2, <1>11, <2>1, IpcUserFrame DEF ids
  <1>15. FlushInv'
    <2>1. UNCHANGED <<delayed_flush_scheduled_, immediate_flush_scheduled_, fully_bound_, tasks,
                      timers, may_delete>>
      BY <1>2 DEF binding, flags
    <2>2. DelayedFlushUnderWay => DelayedFlushUnderWay'
      BY <1>12, <2>1 DEF DelayedFlushUnderWay
    <2>3. SomeFlushUnderWay => SomeFlushUnderWay'
      BY <1>12, <2>1 DEF SomeFlushUnderWay
    <2>4. fully_bound_ => SomeFlushUnderWay'
      <3>1. CASE create /\ fully_bound_
        <4>1. post \in Ops(IPC)'
          BY <1>7, <1>10, <1>12, <3>1
        <4> QED BY <1>1, <1>3, <4>1 DEF SomeFlushUnderWay
      <3>2. CASE ~create /\ fully_bound_
        BY <1>1, <1>2, <2>3, <3>2 DEF FlushInv, RequestIsOwed
      <3> QED BY <3>1, <3>2
    <2>5. \A x \in Ops(IPC)' : x.op \in {"Scrape", "PostTask"}
      BY <1>3, <1>4, <1>7, <1>8, <1>10, <1>12
    <2> QED BY <1>1, <2>1, <2>2, <2>4, <2>5 DEF FlushInv, RequestIsOwed
  <1> QED BY <1>13, <1>14, <1>15 DEF ArbiterInv

\* TryShutdown succeeds only when no id is taken.
LEMMA TryShutdownStep ==
  ASSUME ArbiterInv, TryShutdown, UNCHANGED setup
  PROVE  ArbiterInv'
  <1>1. /\ ~may_delete /\ may_delete' = (active_writer_ids_ = {})
        /\ UNCHANGED <<binding, active_writer_ids_, last_id_, batch, runner, writer>>
    BY DEF TryShutdown, memory
  <1>2. Types'
    BY <1>1 DEF ArbiterInv, Types, binding, batch, flags, runner
  <1>3. UserInv'
    <2>1. UserInv
      BY DEF ArbiterInv
    <2>2. may_delete' => active_writer_ids_' = {}
      BY <1>1, Zenon
    <2>3. \A w : HoldsId(w)' <=> HoldsId(w)
      BY <1>1 DEF HoldsId, Ops, runner
    <2>4. \A t : Ops(t)' = Ops(t) /\ (ReleaseIsLast(todo[t])' <=> ReleaseIsLast(todo[t]))
      BY <1>1 DEF Ops, ReleaseIsLast, runner
    <2>5. writer' = writer /\ active_writer_ids_' = active_writer_ids_
      BY <1>1
    <2> QED BY <2>1, <2>2, <2>3, <2>4, <2>5 DEF UserInv
  <1>4. FlushInv'
    BY <1>1 DEF ArbiterInv, FlushInv, RequestIsOwed, SomeFlushUnderWay, DelayedFlushUnderWay, Ops,
                binding, batch, flags, runner
  <1> QED BY <1>2, <1>3, <1>4 DEF ArbiterInv

\* What the service does, and doing nothing.
LEMMA ElsewhereStep ==
  ASSUME ArbiterInv, UNCHANGED <<setup, arbiter, runner, writer, callers>>
  PROVE  ArbiterInv'
  <1>1. Types'
    BY DEF ArbiterInv, Types, arbiter, binding, ids, batch, flags, runner, callers
  <1>2. UserInv'
    BY DEF ArbiterInv, UserInv, HoldsId, Ops, ReleaseIsLast, arbiter, ids, runner, callers
  <1>3. FlushInv'
    BY DEF ArbiterInv, FlushInv, RequestIsOwed, SomeFlushUnderWay, DelayedFlushUnderWay, Ops,
           arbiter, binding, batch, flags, runner, callers
  <1> QED BY <1>1, <1>2, <1>3 DEF ArbiterInv

-----------------------------------------------------------------------------
(***************************************************************************)
(* The theorems.                                                           *)
(***************************************************************************)
\* The invariant holds in every state: ids are owned, a thread uses the arbiter
\* on behalf of a writer that has one, and what is owed to the service has a
\* flush under way.
THEOREM ArbiterInvariant == Spec => []ArbiterInv
  <1>1. Init => ArbiterInv
    <2> SUFFICES ASSUME Init PROVE ArbiterInv
      OBVIOUS
    <2>1. \A t \in Threads : todo[t] = <<>> /\ Ops(t) = {}
      BY SetOfShort DEF Init, Ops
    <2>2. \A w \in Writers : writer[w].state = "none" /\ Home[w] \in Threads
      BY ArbiterAssumption DEF Init, Threads
    <2>3. \A w \in Writers : ~HoldsId(w)
      BY <2>1, <2>2 DEF HoldsId
    <2>4. Types
      <3>1. todo \in [Threads -> Seq(Steps)] /\ tasks \in Seq(Tasks)
        BY DEF Init
      <3>2. writer \in [Writers -> TraceWriters]
        <4>1. [state |-> "none", id |-> 0, target |-> 0, chunks |-> 0, open |-> 0,
               patch_list |-> <<>>] \in TraceWriters
          BY EmptySeq DEF TraceWriters, Targets
        <4> QED BY <4>1 DEF Init
      <3>3. setup \in Setups /\ endpoint \in BOOLEAN /\ fully_bound_ \in BOOLEAN
        BY ArbiterAssumption DEF Init
      <3> QED BY <3>1, <3>2, <3>3 DEF Init, Types
    <2>5. UserInv
      <3>1. \A t \in Threads : ReleaseIsLast(todo[t])
        <4>1. Len(<<>>) = 0
          BY EmptySeq
        <4> QED BY <2>1, <4>1 DEF ReleaseIsLast
      <3>2. AppThreads \subseteq Threads /\ active_writer_ids_ = {}
        BY DEF Init, Threads
      <3> QED BY <2>1, <2>3, <3>1, <3>2 DEF UserInv
    <2>6. FlushInv
      BY <2>1 DEF Init, FlushInv, RequestIsOwed, Threads
    <2> QED BY <2>4, <2>5, <2>6 DEF ArbiterInv
  <1>2. ArbiterInv /\ [Next]_vars => ArbiterInv'
    <2> SUFFICES ASSUME ArbiterInv, [Next]_vars PROVE ArbiterInv'
      OBVIOUS
    <2>1. CASE UNCHANGED vars
      BY <2>1, ElsewhereStep DEF vars, memory
    <2>2. CASE Next
      <3>1. UNCHANGED setup
        BY <2>2 DEF Next
      <3>2. CASE Receive
        <4>1. UNCHANGED <<setup, arbiter, runner, writer, callers>>
          BY <3>1, <3>2 DEF Receive
        <4> QED BY <4>1, ElsewhereStep
      <3>3. ASSUME NEW t \in Threads, Call(t) PROVE ArbiterInv'
        BY <3>1, <3>3, CreateTraceWriterStep, GetNewBufferStep, ReturnCurrentChunkStep,
           FinalizeNestedMessageStep, SendPatchesStep, FlushStep, DestroyWriterStep,
           AbortStartupTracingStep, EnableDirectSMBPatchingStep DEF Call
      <3>4. ASSUME NEW t \in Threads, Continue(t) PROVE ArbiterInv'
        BY <3>1, <3>4, UpdateCommitDataRequestStep, FlushPendingCommitDataRequestsStep,
           AbortStartupTracingForReservationStep, ReleaseWriterIDStep, DoPostTaskStep,
           DoPostDelayedFlushStep DEF Continue
      <3>5. CASE RunTask
        BY <3>1, <3>5, RunTaskStep
      <3>6. ASSUME NEW kind \in {"delayed", "immediate"}, RunDelayedFlush(kind) PROVE ArbiterInv'
        BY <3>1, <3>6, RunDelayedFlushStep
      <3>7. CASE Scrape
        BY <3>1, <3>7, ScrapeStep DEF Scrape
      <3>8. ASSUME NEW id \in FlushIDs, NotifyFlushComplete(id) PROVE ArbiterInv'
        BY <3>1, <3>8, NotifyFlushCompleteStep
      <3>9. CASE TryShutdown
        BY <3>1, <3>9, TryShutdownStep
      <3>10. CASE BindToProducerEndpoint
        BY <3>1, <3>10, BindToProducerEndpointStep
      <3>11. ASSUME NEW r \in Reservations, NEW b \in Buffers, BindStartupTargetBuffer(r, b)
             PROVE  ArbiterInv'
        BY <3>1, <3>11, BindStartupTargetBufferStep
      <3> QED BY <2>2, <3>2, <3>3, <3>4, <3>5, <3>6, <3>7, <3>8, <3>9, <3>10, <3>11 DEF Next
    <2> QED BY <2>1, <2>2
  <1> QED BY <1>1, <1>2, PTL DEF Spec

\* The queues that the properties index hold the members the invariant speaks of.
LEMMA InvariantSaysSo ==
  ASSUME ArbiterInv
  PROVE  NoStrandedCommit /\ ShutdownLeavesNoUser
  <1>1. Types /\ UserInv /\ FlushInv
    BY DEF ArbiterInv
  <1>2. NoStrandedCommit
    <2> SUFFICES ASSUME commit_data_req_ # None, fully_bound_, ~may_delete PROVE FlushUnderWay
      BY DEF NoStrandedCommit
    <2>1. SomeFlushUnderWay
      BY <1>1 DEF FlushInv, RequestIsOwed
    <2>2. CASE timers.delayed + timers.immediate > 0
      BY <2>2 DEF FlushUnderWay
    <2>3. CASE \E op \in ToSet(tasks) : Flushes(op)
      BY <2>3 DEF FlushUnderWay, ToSet
    <2>4. CASE \E t \in Threads : \E op \in Ops(t) : Flushes(op)
      BY <2>4 DEF FlushUnderWay, Ops, ToSet
    <2> QED BY <2>1, <2>2, <2>3, <2>4 DEF SomeFlushUnderWay
  <1>3. ShutdownLeavesNoUser
    <2> SUFFICES ASSUME may_delete, NEW t \in AppThreads, NEW i \in DOMAIN todo[t]
                 PROVE  ~Uses(todo[t][i])
      BY DEF ShutdownLeavesNoUser, Uses
    <2>1. todo[t][i] \in Ops(t)
      BY DEF Ops, ToSet
    <2>2. \A w \in Writers : ~HoldsId(w)
      BY <1>1 DEF UserInv
    <2> QED BY <1>1, <2>1, <2>2 DEF UserInv
  <1> QED BY <1>2, <1>3

\* "If a commit_data_req_ exists it means that somebody else already posted a
\* FlushPendingCommitDataRequests() task" holds for every number of threads,
\* writers and reservations, however often the arbiter is bound and unbound.
THEOREM CommitsAreNotStranded == Spec => []NoStrandedCommit
  <1> QED BY ArbiterInvariant, InvariantSaysSo, PTL

\* Once TryShutdown returned true, no thread that writes trace data is between
\* two steps that use the arbiter's members.
THEOREM NoUserAfterShutdown == Spec => []ShutdownLeavesNoUser
  <1> QED BY ArbiterInvariant, InvariantSaysSo, PTL

-----------------------------------------------------------------------------
(***************************************************************************)
(* Where the chunks are: with a writer or about to be returned (InHand),   *)
(* in the request, in the channel, or copied by the service.               *)
(***************************************************************************)
\* The leases that a sequence of chunks names.
LeasesOf(s) == {e.lease : e \in ToSet(s)}

\* The chunks of each writer come in the order they were written.
Ascending(s) ==
    \A i, j \in DOMAIN s :
        i < j /\ s[i].lease[1] = s[j].lease[1] => s[i].lease[2] < s[j].lease[2]

\* Of each writer, the chunks of A were written before those of B.
Before(A, B) == \A a \in A, b \in B : a[1] = b[1] => a[2] < b[2]

Entries == [lease: Writers \X Nat, target: Targets, scraped: BOOLEAN]

Messages ==
    [type: {"CommitData"}, req: Requests, callback: SUBSET Callbacks]
        \cup [type: {"Register"}, id: WriterIDs, buffer: Nat]
        \cup [type: {"Unregister"}, id: Nat]

ChunksIn(m)    == IF m.type = "CommitData" THEN LeasesOf(m.req.chunks) ELSE {}
ChunksInAll(q) == UNION {ChunksIn(m) : m \in ToSet(q)}

\* A sequence of messages has the chunks of each writer in order.
InOrder(q) ==
    /\ \A i \in DOMAIN q : q[i].type = "CommitData" => Ascending(q[i].req.chunks)
    /\ \A i, j \in DOMAIN q : i < j => Before(ChunksIn(q[i]), ChunksIn(q[j]))

InChannel == ChunksInAll(channel)
Requested == IF commit_data_req_ = None THEN {} ELSE LeasesOf(commit_data_req_.chunks)
Sent      == Arrived \cup InChannel
Pipeline  == Sent \cup Requested

\* The chunk that a step of a thread is going to return; at most one does.
IsReturn(op)   == op.op = "UpdateCommitDataRequest"
ReturnedBy(op) == IF IsReturn(op) /\ op.chunk # 0 THEN {<<op.w, op.chunk>>} ELSE {}
ReturnOnce(q)  == \A i, j \in DOMAIN q : IsReturn(q[i]) /\ IsReturn(q[j]) => i = j
ReturnedByAll(q) == UNION {ReturnedBy(op) : op \in ToSet(q)}

Returning == UNION {ReturnedByAll(todo[t]) : t \in Threads}
Open      == {<<w, writer[w].open>> : w \in {v \in Writers : writer[v].open # 0}}
InHand    == Open \cup Returning

\* The chunks that a writer had so far.
Acquired == {l \in Leases : l[2] <= writer[l[1]].chunks}

DataTypes ==
    /\ commit_data_req_ \in Requests \cup {None}
    /\ channel \in Seq(Messages)
    /\ DOMAIN chunk = Leases
    /\ \A l \in Leases : DOMAIN chunk[l] = {"state", "needs_patching", "missing"}
    /\ service \in [writers: [WriterIDs -> Nat], moved: [Writers -> Seq(Entries)],
                    skipped: SUBSET (Writers \X Nat), replied: [Callbacks -> Nat],
                    flushed: SUBSET Nat]
    /\ check_failed \in BOOLEAN
    /\ \A w \in Writers : writer[w].id <= kMaxWriterID
    /\ \A w \in Writers :
          writer[w].chunks <= IF w \in DOMAIN setup.chunks THEN setup.chunks[w] ELSE 0

MayReturn(t, op) == op.w \in DOMAIN setup.chunks /\ Home[op.w] = t

\* A thread returns chunks of its own writers, one at a time, and scrapes into
\* a request that is there.
QueuesFit ==
    /\ \A t \in Threads : \A op \in Ops(t) : IsReturn(op) => MayReturn(t, op)
    /\ \A t \in Threads : ReturnOnce(todo[t])
    /\ \A op \in Ops(IPC) : op.op = "Scrape" => Scraping /\ commit_data_req_ # None

\* Every chunk that a writer had is in the pipeline or in hand.
LocationInv ==
    /\ Pipeline \cup InHand \subseteq Acquired
    /\ \A w \in Writers : \A e \in ToSet(service.moved[w]) : e.lease[1] = w
    /\ \A w \in Writers : writer[w].open # 0 => writer[w].open = writer[w].chunks
    /\ QueuesFit
    /\ ~check_failed => \A l \in Acquired \ Pipeline :
                           l \in InHand /\ chunk[l].state = "kChunkBeingWritten"
    /\ \A l \in Leases \ Acquired : chunk[l].state = "kChunkFree"
    /\ service.skipped = {}

\* Nothing overtakes, and the state of each chunk is the one its place calls for.
OrderInv ==
    /\ \A w \in Writers : Ascending(service.moved[w])
    /\ InOrder(channel)
    /\ commit_data_req_ # None => Ascending(commit_data_req_.chunks)
    /\ Before(Arrived, InChannel)
    /\ Before(Sent, Requested)
    /\ Before(Pipeline, InHand)
    /\ Before(Returning, Open)
    /\ ~check_failed
    /\ \A l \in InHand : chunk[l].state = "kChunkBeingWritten"
    /\ \A l \in Requested : chunk[l].state \in {"kChunkBeingWritten", "kChunkComplete"}
    /\ mode = "kDefault" => \A l \in InChannel : chunk[l].state = "kChunkComplete"

ChunkInv == DataTypes /\ LocationInv /\ (~Scraping => OrderInv)

-----------------------------------------------------------------------------
(***************************************************************************)
(* Sequences.                                                              *)
(***************************************************************************)
\* The places of a concatenation.
LEMMA CatPlaces ==
  ASSUME NEW S, NEW a \in Seq(S), NEW b \in Seq(S)
  PROVE  /\ a \o b \in Seq(S) /\ Len(a) \in Nat /\ Len(b) \in Nat
         /\ DOMAIN a = 1 .. Len(a) /\ DOMAIN b = 1 .. Len(b)
         /\ DOMAIN (a \o b) = 1 .. Len(a) + Len(b)
         /\ \A i \in DOMAIN a : i \in DOMAIN (a \o b) /\ (a \o b)[i] = a[i]
         /\ \A i \in DOMAIN b : i + Len(a) \in DOMAIN (a \o b) /\ (a \o b)[i + Len(a)] = b[i]
         /\ \A i \in DOMAIN (a \o b) :
               IF i <= Len(a) THEN i \in DOMAIN a /\ (a \o b)[i] = a[i]
               ELSE i - Len(a) \in DOMAIN b /\ (a \o b)[i] = b[i - Len(a)]
  <1>1. /\ a \o b \in Seq(S) /\ Len(a) \in Nat /\ Len(b) \in Nat
        /\ Len(a \o b) = Len(a) + Len(b)
        /\ \A i \in 1 .. Len(a) + Len(b) :
              (a \o b)[i] = IF i <= Len(a) THEN a[i] ELSE b[i - Len(a)]
    BY ConcatProperties, LenProperties
  <1>2. /\ DOMAIN a = 1 .. Len(a) /\ DOMAIN b = 1 .. Len(b)
        /\ DOMAIN (a \o b) = 1 .. Len(a) + Len(b)
    BY <1>1, LenProperties
  <1> QED BY <1>1, <1>2

\* The places of a queue without its first member.
LEMMA TailPlaces ==
  ASSUME NEW S, NEW q \in Seq(S), q # <<>>
  PROVE  /\ Len(q) \in Nat \ {0} /\ DOMAIN q = 1 .. Len(q)
         /\ DOMAIN Tail(q) = 1 .. Len(q) - 1 /\ Len(Tail(q)) = Len(q) - 1
         /\ Head(q) = q[1] /\ Head(q) \in S /\ Tail(q) \in Seq(S)
         /\ \A i \in DOMAIN Tail(q) : i + 1 \in DOMAIN q /\ Tail(q)[i] = q[i + 1]
  <1>1. /\ Len(q) \in Nat \ {0} /\ DOMAIN q = 1 .. Len(q)
        /\ Head(q) = q[1] /\ Head(q) \in S
        /\ Tail(q) \in Seq(S) /\ Len(Tail(q)) = Len(q) - 1
        /\ \A i \in 1 .. Len(q) - 1 : Tail(q)[i] = q[i + 1]
    BY HeadTailProperties, LenProperties, EmptySeq
  <1>2. DOMAIN Tail(q) = 1 .. Len(q) - 1
    BY <1>1, LenProperties
  <1> QED BY <1>1, <1>2

\* Order is transferred to parts of sets.
LEMMA BeforeIsMonotone ==
  ASSUME NEW A, NEW B, Before(A, B), NEW C \in SUBSET A, NEW D \in SUBSET B
  PROVE  Before(C, D)
  BY DEF Before

LEMMA BeforeUnions ==
  ASSUME NEW A, NEW B, NEW C
  PROVE  /\ Before(A \cup B, C) <=> Before(A, C) /\ Before(B, C)
         /\ Before(A, B \cup C) <=> Before(A, B) /\ Before(A, C)
  BY DEF Before

\* What was written earlier is something else.
LEMMA BeforeIsApart ==
  ASSUME NEW A, NEW B, Before(A, B), A \subseteq Writers \X Nat
  PROVE  A \cap B = {}
  <1> SUFFICES ASSUME NEW l \in A, l \in B PROVE FALSE
    OBVIOUS
  <1>1. l[1] = l[1] => l[2] < l[2]
    BY DEF Before
  <1>2. l[2] \in Nat
    OBVIOUS
  <1> QED BY <1>1, <1>2

\* The chunks of a sequence and of a concatenation.
LEMMA LeasesOfCat ==
  ASSUME NEW a \in Seq(Entries), NEW b \in Seq(Entries)
  PROVE  /\ a \o b \in Seq(Entries)
         /\ LeasesOf(a \o b) = LeasesOf(a) \cup LeasesOf(b)
         /\ LeasesOf(a) \subseteq Writers \X Nat
         /\ Ascending(a) /\ Ascending(b) /\ Before(LeasesOf(a), LeasesOf(b)) => Ascending(a \o b)
  <1>1. a \o b \in Seq(Entries) /\ ToSet(a \o b) = ToSet(a) \cup ToSet(b)
    BY SetOfCat
  <1>2. LeasesOf(a \o b) = LeasesOf(a) \cup LeasesOf(b)
    BY <1>1 DEF LeasesOf
  <1>3. LeasesOf(a) \subseteq Writers \X Nat
    <2>1. \A i \in DOMAIN a : a[i] \in Entries
      BY ElementOfSeq, LenProperties
    <2> QED BY <2>1 DEF LeasesOf, ToSet, Entries
  <1>4. ASSUME Ascending(a), Ascending(b), Before(LeasesOf(a), LeasesOf(b))
        PROVE  Ascending(a \o b)
    <2> SUFFICES ASSUME NEW i \in DOMAIN (a \o b), NEW j \in DOMAIN (a \o b), i < j,
                        (a \o b)[i].lease[1] = (a \o b)[j].lease[1]
                 PROVE  (a \o b)[i].lease[2] < (a \o b)[j].lease[2]
      BY DEF Ascending
    <2>1. PICK c : c = a \o b
      OBVIOUS
    <2>2. /\ Len(a) \in Nat /\ i \in Nat /\ j \in Nat
          /\ \A k \in {i, j} : IF k <= Len(a) THEN k \in DOMAIN a /\ c[k] = a[k]
                               ELSE k - Len(a) \in DOMAIN b /\ c[k] = b[k - Len(a)]
      BY <2>1, CatPlaces
    <2>3. CASE j <= Len(a)
      BY <1>4, <2>1, <2>2, <2>3 DEF Ascending
    <2>4. CASE ~(i <= Len(a))
      <3>1. i - Len(a) < j - Len(a) /\ ~(j <= Len(a))
        BY <2>2, <2>4
      <3> QED BY <1>4, <2>1, <2>2, <2>4, <3>1 DEF Ascending
    <2>5. CASE i <= Len(a) /\ ~(j <= Len(a))
      <3>1. c[i] \in ToSet(a) /\ c[j] \in ToSet(b)
        BY <2>2, <2>5 DEF ToSet
      <3>2. c[i].lease \in LeasesOf(a) /\ c[j].lease \in LeasesOf(b)
        BY <3>1 DEF LeasesOf
      <3> QED BY <1>4, <2>1, <3>2 DEF Before
    <2> QED BY <2>2, <2>3, <2>4, <2>5
  <1> QED BY <1>1, <1>2, <1>3, <1>4

\* No chunks, and one chunk.
LEMMA LeasesOfShort ==
  /\ LeasesOf(<<>>) = {} /\ Ascending(<<>>)
  /\ \A e : LeasesOf(<<e>>) = {e.lease} /\ Ascending(<<e>>)
  <1>1. LeasesOf(<<>>) = {} /\ \A e : LeasesOf(<<e>>) = {e.lease}
    BY SetOfShort DEF LeasesOf
  <1>2. Ascending(<<>>) /\ \A e : Ascending(<<e>>)
    BY DEF Ascending
  <1> QED BY <1>1, <1>2

\* Messages that are sent after others.
LEMMA MessagesCat ==
  ASSUME NEW a \in Seq(Messages), NEW b \in Seq(Messages)
  PROVE  /\ a \o b \in Seq(Messages)
         /\ ChunksInAll(a \o b) = ChunksInAll(a) \cup ChunksInAll(b)
         /\ InOrder(a) /\ InOrder(b) /\ Before(ChunksInAll(a), ChunksInAll(b)) => InOrder(a \o b)
  <1>1. a \o b \in Seq(Messages) /\ ToSet(a \o b) = ToSet(a) \cup ToSet(b)
    BY SetOfCat
  <1>2. ChunksInAll(a \o b) = ChunksInAll(a) \cup ChunksInAll(b)
    BY <1>1 DEF ChunksInAll
  <1>3. ASSUME InOrder(a), InOrder(b), Before(ChunksInAll(a), ChunksInAll(b))
        PROVE  InOrder(a \o b)
    <2>1. PICK c : c = a \o b
      OBVIOUS
    <2>2. /\ Len(a) \in Nat /\ DOMAIN c \subseteq Nat
          /\ \A k \in DOMAIN c : IF k <= Len(a) THEN k \in DOMAIN a /\ c[k] = a[k]
                                 ELSE k - Len(a) \in DOMAIN b /\ c[k] = b[k - Len(a)]
      BY <2>1, CatPlaces
    <2>3. \A i \in DOMAIN c : c[i].type = "CommitData" => Ascending(c[i].req.chunks)
      BY <1>3, <2>2 DEF InOrder
    <2>4. ASSUME NEW i \in DOMAIN c, NEW j \in DOMAIN c, i < j
          PROVE  Before(ChunksIn(c[i]), ChunksIn(c[j]))
      <3>1. CASE j <= Len(a)
        <4>1. i <= Len(a)
          BY <2>2, <2>4, <3>1
        <4> QED BY <1>3, <2>2, <2>4, <3>1, <4>1 DEF InOrder
      <3>2. CASE ~(i <= Len(a))
        <4>1. i - Len(a) < j - Len(a) /\ ~(j <= Len(a))
          BY <2>2, <2>4, <3>2
        <4> QED BY <1>3, <2>2, <3>2, <4>1 DEF InOrder
      <3>3. CASE i <= Len(a) /\ ~(j <= Len(a))
        <4>1. c[i] \in ToSet(a) /\ c[j] \in ToSet(b)
          BY <2>2, <3>3 DEF ToSet
        <4>2. ChunksIn(c[i]) \subseteq ChunksInAll(a) /\ ChunksIn(c[j]) \subseteq ChunksInAll(b)
          BY <4>1 DEF ChunksInAll
        <4> QED BY <1>3, <4>2, BeforeIsMonotone
      <3> QED BY <3>1, <3>2, <3>3
    <2> QED BY <2>1, <2>3, <2>4 DEF InOrder
  <1> QED BY <1>1, <1>2, <1>3

\* The first message of a channel and the others.
LEMMA MessagesQueue ==
  ASSUME NEW q \in Seq(Messages), q # <<>>
  PROVE  /\ Head(q) \in Messages /\ Tail(q) \in Seq(Messages)
         /\ ChunksInAll(q) = ChunksIn(Head(q)) \cup ChunksInAll(Tail(q))
         /\ InOrder(q) => /\ InOrder(Tail(q)) /\ Before(ChunksIn(Head(q)), ChunksInAll(Tail(q)))
                          /\ Head(q).type = "CommitData" => Ascending(Head(q).req.chunks)
  <1>1. /\ Head(q) \in Messages /\ Tail(q) \in Seq(Messages)
        /\ ToSet(q) = {Head(q)} \cup ToSet(Tail(q))
    BY SetOfQueue
  <1>2. ChunksInAll(q) = ChunksIn(Head(q)) \cup ChunksInAll(Tail(q))
    BY <1>1 DEF ChunksInAll
  <1>3. ASSUME InOrder(q)
        PROVE  /\ InOrder(Tail(q)) /\ Before(ChunksIn(Head(q)), ChunksInAll(Tail(q)))
               /\ Head(q).type = "CommitData" => Ascending(Head(q).req.chunks)
    <2>1. PICK r : r = Tail(q)
      OBVIOUS
    <2>2. /\ Head(q) = q[1] /\ 1 \in DOMAIN q /\ DOMAIN r \subseteq Nat \ {0}
          /\ \A i \in DOMAIN r : i + 1 \in DOMAIN q /\ r[i] = q[i + 1]
      BY <2>1, TailPlaces
    <2>3. InOrder(r)
      <3>1. \A i \in DOMAIN r : r[i].type = "CommitData" => Ascending(r[i].req.chunks)
        BY <1>3, <2>2 DEF InOrder
      <3>2. ASSUME NEW i \in DOMAIN r, NEW j \in DOMAIN r, i < j
            PROVE  Before(ChunksIn(r[i]), ChunksIn(r[j]))
        <4>1. i + 1 < j + 1
          BY <2>2, <3>2
        <4> QED BY <1>3, <2>2, <4>1 DEF InOrder
      <3> QED BY <3>1, <3>2 DEF InOrder
    <2>4. ASSUME NEW a \in ChunksIn(Head(q)), NEW b \in ChunksInAll(r), a[1] = b[1]
          PROVE  a[2] < b[2]
      <3>1. PICK i \in DOMAIN r : b \in ChunksIn(r[i])
        BY DEF ChunksInAll, ToSet
      <3>2. 1 < i + 1
        BY <2>2
      <3>3. Before(ChunksIn(q[1]), ChunksIn(q[i + 1]))
        BY <1>3, <2>2, <3>2 DEF InOrder
      <3> QED BY <2>2, <2>4, <3>1, <3>3 DEF Before
    <2> QED BY <1>3, <2>1, <2>2, <2>3, <2>4 DEF Before, InOrder
  <1> QED BY <1>1, <1>2, <1>3

-----------------------------------------------------------------------------
(***************************************************************************)
(* The queues of the threads.                                              *)
(***************************************************************************)
\* A thread that has nothing to do starts something.
LEMMA IdleDoes ==
  ASSUME Types, NEW t \in Threads, Idle(t)
  PROVE  /\ Rest(t) = <<>>
         /\ \A ops \in Seq(Steps) : todo' = [todo EXCEPT ![t] = ops] => Does(t, ops)
         /\ UNCHANGED todo => Does(t, <<>>)
  <1>1. todo \in [Threads -> Seq(Steps)] /\ todo[t] = <<>> /\ Rest(t) = <<>>
    BY DEF Types, Idle, Rest
  <1>2. ASSUME NEW ops \in Seq(Steps), todo' = [todo EXCEPT ![t] = ops] PROVE Does(t, ops)
    <2>1. ops \o <<>> = ops
      BY ConcatEmptySeq
    <2> QED BY <1>1, <1>2, <2>1 DEF Does
  <1>3. UNCHANGED todo => todo' = [todo EXCEPT ![t] = <<>>]
    BY <1>1
  <1>4. <<>> \in Seq(Steps)
    BY EmptySeq
  <1> QED BY <1>1, <1>2, <1>3, <1>4

\* The chunks that the other threads are going to return.
ReturnedByOthers(t) == UNION {ReturnedByAll(todo[u]) : u \in Threads \ {t}}

\* What is about to be returned after a step of thread t, and what was before it.
LEMMA ReturningEffect ==
  ASSUME Types, NEW t, NEW ops, Does(t, ops)
  PROVE  /\ Returning' = ReturnedByAll(ops) \cup ReturnedByAll(Rest(t)) \cup ReturnedByOthers(t)
         /\ Returning = (IF todo[t] = <<>> THEN {} ELSE ReturnedBy(Head(todo[t])))
                           \cup ReturnedByAll(Rest(t)) \cup ReturnedByOthers(t)
         /\ todo[t] = <<>> => ReturnedByAll(Rest(t)) = {}
  <1>1. /\ t \in Threads
        /\ Ops(t)' = ToSet(ops) \cup ToSet(Rest(t))
        /\ todo[t] # <<>> => Ops(t) = {Head(todo[t])} \cup ToSet(Rest(t))
        /\ todo[t] = <<>> => Ops(t) = {} /\ ToSet(Rest(t)) = {}
        /\ \A u \in Threads \ {t} : todo'[u] = todo[u]
    BY DoesEffect, SetOfShort DEF Does, Rest
  <1>2. Returning = ReturnedByAll(todo[t]) \cup ReturnedByOthers(t)
    BY <1>1 DEF Returning, ReturnedByOthers
  <1>3. Returning' = ReturnedByAll(todo[t])' \cup ReturnedByOthers(t)
    <2>1. \A u \in Threads \ {t} : ReturnedByAll(todo[u])' = ReturnedByAll(todo[u])
      BY <1>1 DEF ReturnedByAll
    <2> QED BY <1>1, <2>1 DEF Returning, ReturnedByOthers
  <1>4. ReturnedByAll(todo[t])' = ReturnedByAll(ops) \cup ReturnedByAll(Rest(t))
    BY <1>1 DEF ReturnedByAll, Ops
  <1>5. ReturnedByAll(todo[t]) = (IF todo[t] = <<>> THEN {} ELSE ReturnedBy(Head(todo[t])))
                                    \cup ReturnedByAll(Rest(t))
    BY <1>1 DEF ReturnedByAll, Ops
  <1>6. todo[t] = <<>> => ReturnedByAll(Rest(t)) = {}
    BY <1>1 DEF ReturnedByAll
  <1> QED BY <1>2, <1>3, <1>4, <1>5, <1>6

\* A concatenation has at most one return if one part has none.
LEMMA ReturnOnceCat ==
  ASSUME NEW a \in Seq(Steps), NEW b \in Seq(Steps), ReturnOnce(a), ReturnOnce(b),
         (\A op \in ToSet(a) : ~IsReturn(op)) \/ (\A op \in ToSet(b) : ~IsReturn(op))
  PROVE  ReturnOnce(a \o b)
  <1>1. PICK c : c = a \o b
    OBVIOUS
  <1>2. /\ Len(a) \in Nat /\ DOMAIN c \subseteq Nat
        /\ \A k \in DOMAIN c : IF k <= Len(a) THEN k \in DOMAIN a /\ c[k] = a[k]
                               ELSE k - Len(a) \in DOMAIN b /\ c[k] = b[k - Len(a)]
    BY <1>1, CatPlaces
  <1>3. ASSUME NEW i \in DOMAIN c, NEW j \in DOMAIN c, IsReturn(c[i]), IsReturn(c[j])
        PROVE  i = j
    <2>1. CASE i <= Len(a) /\ j <= Len(a)
      BY <1>2, <1>3, <2>1 DEF ReturnOnce
    <2>2. CASE ~(i <= Len(a)) /\ ~(j <= Len(a))
      <3>1. i - Len(a) = j - Len(a)
        BY <1>2, <1>3, <2>2 DEF ReturnOnce
      <3> QED BY <1>2, <3>1
    <2>3. CASE (i <= Len(a)) # (j <= Len(a))
      <3>1. (\E op \in ToSet(a) : IsReturn(op)) /\ (\E op \in ToSet(b) : IsReturn(op))
        BY <1>2, <1>3, <2>3 DEF ToSet
      <3> QED BY <3>1
    <2> QED BY <2>1, <2>2, <2>3
  <1> QED BY <1>1, <1>3 DEF ReturnOnce

\* Short queues, and the rest of a queue whose first step is a return.
LEMMA ReturnOnceShort ==
  /\ ReturnOnce(<<>>) /\ \A op : ReturnOnce(<<op>>)
  /\ \A q \in Seq(Steps) : q # <<>> /\ ReturnOnce(q) =>
        /\ ReturnOnce(Tail(q))
        /\ IsReturn(Head(q)) => \A op \in ToSet(Tail(q)) : ~IsReturn(op)
  <1>1. ReturnOnce(<<>>) /\ \A op : ReturnOnce(<<op>>)
    BY DEF ReturnOnce
  <1>2. ASSUME NEW q \in Seq(Steps), q # <<>>, ReturnOnce(q)
        PROVE  /\ ReturnOnce(Tail(q))
               /\ IsReturn(Head(q)) => \A op \in ToSet(Tail(q)) : ~IsReturn(op)
    <2>1. PICK r : r = Tail(q)
      OBVIOUS
    <2>2. /\ Head(q) = q[1] /\ 1 \in DOMAIN q /\ DOMAIN r \subseteq Nat \ {0}
          /\ \A i \in DOMAIN r : i + 1 \in DOMAIN q /\ r[i] = q[i + 1]
      BY <1>2, <2>1, TailPlaces
    <2>3. ReturnOnce(r)
      <3>1. \A i, j \in DOMAIN r : i + 1 = j + 1 => i = j
        BY <2>2
      <3> QED BY <1>2, <2>2, <3>1 DEF ReturnOnce
    <2>4. ASSUME IsReturn(Head(q)), NEW i \in DOMAIN r, IsReturn(r[i]) PROVE FALSE
      <3>1. 1 = i + 1
        BY <1>2, <2>2, <2>4 DEF ReturnOnce
      <3> QED BY <2>2, <3>1
    <2> QED BY <2>1, <2>3, <2>4 DEF ToSet
  <1> QED BY <1>1, <1>2

\* What a step may add to a queue.
LEMMA QueuesStayFit ==
  ASSUME Types, QueuesFit, UNCHANGED setup, NEW t, NEW ops, Does(t, ops),
         \/ \A op \in ToSet(ops) : ~IsReturn(op)
         \/ /\ todo[t] = <<>> /\ ReturnOnce(ops)
            /\ \A op \in ToSet(ops) : IsReturn(op) => MayReturn(t, op),
         \A op \in ToSet(ops) : op.op = "Scrape" => Scraping /\ commit_data_req_' # None,
         \/ commit_data_req_ # None => commit_data_req_' # None
         \/ \A op \in Ops(IPC) : op.op # "Scrape"
  PROVE  QueuesFit'
  <1>1. /\ t \in Threads /\ IPC \in Threads
        /\ Ops(t)' = ToSet(ops) \cup ToSet(Rest(t)) /\ ToSet(Rest(t)) \subseteq Ops(t)
        /\ todo[t] = <<>> => Ops(t) = {} /\ ToSet(Rest(t)) = {}
        /\ \A u \in Threads \ {t} : todo'[u] = todo[u] /\ Ops(u)' = Ops(u)
    BY DoesEffect, SetOfShort DEF Does, Rest, Threads
  <1>2. \A u \in Threads : \A op \in Ops(u)' : IsReturn(op) => MayReturn(u, op)'
    BY <1>1 DEF QueuesFit, MayReturn
  <1>3. ReturnOnce(todo[t])'
    <2>1. todo'[t] = ops \o Rest(t) /\ ops \in Seq(Steps) /\ Rest(t) \in Seq(Steps)
      BY DoesEffect DEF Types, Does
    <2>2. ReturnOnce(Rest(t))
      BY <1>1, ReturnOnceShort DEF QueuesFit, Rest, Types
    <2>3. CASE \A op \in ToSet(ops) : ~IsReturn(op)
      <3>1. ReturnOnce(ops)
        BY <2>3 DEF ReturnOnce, ToSet
      <3>2. ReturnOnce(ops \o Rest(t))
        BY <2>1, <2>2, <2>3, <3>1, ReturnOnceCat
      <3> QED BY <2>1, <3>2 DEF ReturnOnce
    <2>4. CASE todo[t] = <<>> /\ ReturnOnce(ops)
      <3>1. ReturnOnce(ops \o Rest(t))
        BY <1>1, <2>1, <2>2, <2>4, ReturnOnceCat
      <3> QED BY <2>1, <3>1 DEF ReturnOnce
    <2> QED BY <2>3, <2>4
  <1>4. \A u \in Threads : ReturnOnce(todo[u])'
    BY <1>1, <1>3 DEF QueuesFit, ReturnOnce
  <1>5. ASSUME NEW op \in Ops(IPC)', op.op = "Scrape"
        PROVE  (Scraping /\ commit_data_req_ # None)'
    <2>1. Scraping' = Scraping
      BY DEF Scraping, mode
    <2>2. CASE op \in Ops(IPC)
      BY <1>5, <2>1, <2>2 DEF QueuesFit
    <2>3. CASE op \in ToSet(ops)
      BY <1>5, <2>1, <2>3
    <2> QED BY <1>1, <1>5, <2>2, <2>3
  <1> QED BY <1>2, <1>4, <1>5 DEF QueuesFit, MayReturn

\* A writer has at most one open chunk.
LEMMA OpenOnce ==
  \A a, b \in Open : a[1] = b[1] => a = b
  BY DEF Open

\* A step that moves no chunk, except from a writer to the thread that returns it.
LEMMA PlacesStay ==
  ASSUME ArbiterInv, ChunkInv, NEW t, NEW ops, Does(t, ops),
         UNCHANGED <<setup, service, chunk, check_failed>>,
         \A w \in Writers : /\ writer'[w].chunks = writer[w].chunks
                            /\ writer'[w].id <= kMaxWriterID
                            /\ writer'[w].open \in {0, writer[w].open},
         ReturnedByAll(ops) = Open \ Open',
         todo[t] # <<>> => ReturnedBy(Head(todo[t])) = {},
         \/ \A op \in ToSet(ops) : ~IsReturn(op)
         \/ /\ todo[t] = <<>> /\ ReturnOnce(ops)
            /\ \A op \in ToSet(ops) : IsReturn(op) => MayReturn(t, op),
         \A op \in ToSet(ops) : op.op = "Scrape" => Scraping /\ commit_data_req_' # None,
         commit_data_req_ # None => commit_data_req_' # None,
         commit_data_req_' \in Requests \cup {None}, Requested' = Requested,
         channel' \in Seq(Messages), InChannel' = InChannel,
         OrderInv => /\ InOrder(channel)'
                     /\ commit_data_req_' # None => Ascending(commit_data_req_.chunks)'
  PROVE  ChunkInv'
  <1>1. Types /\ DataTypes /\ LocationInv /\ (~Scraping => OrderInv) /\ QueuesFit
    BY DEF ArbiterInv, ChunkInv, LocationInv
  <1>2. Scraping' = Scraping /\ mode' = mode /\ Leases' = Leases /\ Arrived' = Arrived
    BY DEF Scraping, mode, Leases, ChunksOf, Arrived
  <1>3. Sent' = Sent /\ Pipeline' = Pipeline
    BY <1>2 DEF Sent, Pipeline
  <1>4. Open' \subseteq Open
    BY DEF Open
  <1>5. Returning' = Returning \cup (Open \ Open')
    BY <1>1, ReturningEffect
  <1>6. InHand' = InHand
    BY <1>4, <1>5 DEF InHand
  <1>7. Acquired' = Acquired
    <2>1. \A l \in Leases : l[1] \in Writers
      BY <1>1, SetupIsTyped DEF Leases
    <2> QED BY <1>2, <2>1 DEF Acquired
  <1>8. DataTypes'
    BY <1>1, <1>2 DEF DataTypes
  <1>9. QueuesFit'
    BY <1>1, QueuesStayFit
  <1>10. LocationInv'
    <2>1. \A w \in Writers : writer'[w].open # 0 => writer'[w].open = writer'[w].chunks
      BY <1>1 DEF LocationInv
    <2> QED BY <1>1, <1>2, <1>3, <1>6, <1>7, <1>9, <2>1 DEF LocationInv
  <1>11. ASSUME OrderInv PROVE OrderInv'
    <2>1. Before(Returning', Open')
      <3>1. Before(Returning, Open')
        BY <1>4, <1>11, BeforeIsMonotone DEF OrderInv
      <3>2. Before(Open \ Open', Open')
        BY <1>4, OpenOnce DEF Before
      <3> QED BY <1>5, <3>1, <3>2, BeforeUnions
    <2> QED BY <1>2, <1>3, <1>6, <1>11, <2>1 DEF OrderInv
  <1> QED BY <1>1, <1>2, <1>8, <1>10, <1>11 DEF ChunkInv

\* A step that touches neither the request nor the channel.
LEMMA QuietStep ==
  ASSUME ArbiterInv, ChunkInv, NEW t, NEW ops, Does(t, ops),
         UNCHANGED <<setup, commit_data_req_, channel, service, chunk, check_failed>>,
         \A w \in Writers : /\ writer'[w].chunks = writer[w].chunks
                            /\ writer'[w].id <= kMaxWriterID
                            /\ writer'[w].open \in {0, writer[w].open},
         ReturnedByAll(ops) = Open \ Open',
         todo[t] # <<>> => ReturnedBy(Head(todo[t])) = {},
         \/ \A op \in ToSet(ops) : ~IsReturn(op)
         \/ /\ todo[t] = <<>> /\ ReturnOnce(ops)
            /\ \A op \in ToSet(ops) : IsReturn(op) => MayReturn(t, op),
         \A op \in ToSet(ops) : op.op # "Scrape"
  PROVE  ChunkInv'
  <1>1. Requested' = Requested /\ InChannel' = InChannel
    BY DEF Requested, InChannel, ChunksInAll
  <1>2. commit_data_req_' \in Requests \cup {None} /\ channel' \in Seq(Messages)
    BY DEF ChunkInv, DataTypes
  <1>3. OrderInv => /\ InOrder(channel)'
                    /\ commit_data_req_' # None => Ascending(commit_data_req_.chunks)'
    BY DEF OrderInv
  <1> QED BY <1>1, <1>2, <1>3, PlacesStay

-----------------------------------------------------------------------------
(***************************************************************************)
(* Steps that leave the chunks where they are.                             *)
(***************************************************************************)
\* Which chunks a few steps return.
LEMMA ReturnsOfShort ==
  /\ ReturnedByAll(<<>>) = {}
  /\ \A op : ReturnedByAll(<<op>>) = ReturnedBy(op)
  /\ \A a, b : ReturnedByAll(<<a, b>>) = ReturnedBy(a) \cup ReturnedBy(b)
  /\ \A op : ~IsReturn(op) => ReturnedBy(op) = {}
  /\ \A q : (\A op \in ToSet(q) : ~IsReturn(op)) => ReturnedByAll(q) = {}
  BY SetOfShort DEF ReturnedByAll, ReturnedBy

\* Steps of a concatenation.
LEMMA ReturnsOfCat ==
  ASSUME NEW a \in Seq(Steps), NEW b \in Seq(Steps)
  PROVE  ReturnedByAll(a \o b) = ReturnedByAll(a) \cup ReturnedByAll(b)
  BY SetOfCat DEF ReturnedByAll

\* The steps that a writer asks its thread to make.
LEMMA CallKinds ==
  /\ \A w, k : /\ IsReturn(ReturnCall(w, k)) /\ ReturnCall(w, k).w = w
               /\ ReturnCall(w, k).op # "Scrape"
               /\ ReturnedBy(ReturnCall(w, k)) = IF k = 0 THEN {} ELSE {<<w, k>>}
  /\ \A cb : ~IsReturn(FlushCall(cb)) /\ FlushCall(cb).op = "Flush"
  /\ \A r : ~IsReturn(AbortCall(r)) /\ AbortCall(r).op = "Abort"
  /\ \A task : ~IsReturn(PostTask(task)) /\ PostTask(task).op = "PostTask"
  /\ \A kind : ~IsReturn(PostFlush(kind)) /\ PostFlush(kind).op = "PostDelayedFlush"
  BY DEF ReturnCall, FlushCall, AbortCall, PostTask, PostFlush, IsReturn, ReturnedBy

\* A writer closes its chunk, if it has one open.
LEMMA ClosedChunk ==
  ASSUME Types, NEW w \in Writers, NEW new, new.open = 0, writer' = [writer EXCEPT ![w] = new]
  PROVE  Open \ Open' = IF writer[w].open = 0 THEN {} ELSE {<<w, writer[w].open>>}
  <1>1. /\ writer'[w].open = 0
        /\ \A v \in Writers \ {w} : writer'[v].open = writer[v].open
    BY DEF Types
  <1> QED BY <1>1 DEF Open

\* Most calls leave the writers' chunks alone.
LEMMA QuietCall ==
  ASSUME ArbiterInv, ChunkInv, NEW t, NEW ops, Does(t, ops),
         UNCHANGED <<setup, commit_data_req_, channel, service, chunk, check_failed>>,
         \A w \in Writers : /\ writer'[w].chunks = writer[w].chunks
                            /\ writer'[w].id = writer[w].id
                            /\ writer'[w].open = writer[w].open,
         todo[t] # <<>> => ~IsReturn(Head(todo[t])),
         \A op \in ToSet(ops) : ~IsReturn(op) /\ op.op # "Scrape"
  PROVE  ChunkInv'
  <1>1. Open' = Open
    BY DEF Open
  <1>2. ReturnedByAll(ops) = {} /\ (todo[t] # <<>> => ReturnedBy(Head(todo[t])) = {})
    BY ReturnsOfShort
  <1>3. \A w \in Writers : writer'[w].id <= kMaxWriterID
    BY DEF ChunkInv, DataTypes
  <1> QED BY <1>1, <1>2, <1>3, QuietStep

\* FinishTracePacket, or a dropped packet: the chunk is about to be returned.
LEMMA ReturnCurrentChunkKeepsChunks ==
  ASSUME ArbiterInv, ChunkInv, NEW t \in Threads, NEW w \in DOMAIN setup.chunks,
         ReturnCurrentChunk(t, w), UNCHANGED setup
  PROVE  ChunkInv'
  <1>1. Types /\ w \in Writers
    BY SetupIsTyped DEF ArbiterInv
  <1>2. PICK call : call = ReturnCall(w, writer[w].open)
    OBVIOUS
  <1>3. PICK new : new = [writer[w] EXCEPT !.open = 0]
    OBVIOUS
  <1>4. /\ Idle(t) /\ Home[w] = t /\ writer[w].open # 0
        /\ todo' = [todo EXCEPT ![t] = <<call>>]
        /\ writer' = [writer EXCEPT ![w] = new]
        /\ UNCHANGED <<setup, commit_data_req_, channel, service, chunk, check_failed>>
    BY <1>2, <1>3 DEF ReturnCurrentChunk, Owns, arbiter, batch, port
  <1>5. call \in Steps /\ <<call>> \in Seq(Steps) /\ ToSet(<<call>>) = {call}
    BY <1>1, <1>2, WriterIsTyped, StepsAreTyped, SetOfShort
  <1>6. Does(t, <<call>>) /\ todo[t] = <<>>
    BY <1>1, <1>4, <1>5, IdleDoes DEF Idle
  <1>7. \A v \in Writers : /\ writer'[v].chunks = writer[v].chunks
                           /\ writer'[v].id <= kMaxWriterID
                           /\ writer'[v].open \in {0, writer[v].open}
    BY <1>1, <1>3, <1>4 DEF Types, TraceWriters, ChunkInv, DataTypes
  <1>8. ReturnedByAll(<<call>>) = Open \ Open'
    <2>1. new.open = 0
      BY <1>1, <1>3 DEF Types, TraceWriters
    <2>2. Open \ Open' = {<<w, writer[w].open>>}
      BY <1>1, <1>4, <2>1, ClosedChunk
    <2>3. ReturnedBy(call) = {<<w, writer[w].open>>}
      BY <1>2, <1>4, CallKinds
    <2> QED BY <2>2, <2>3, ReturnsOfShort
  <1>9. ReturnOnce(<<call>>) /\ IsReturn(call) /\ call.w = w /\ call.op # "Scrape"
    BY <1>2, ReturnOnceShort, CallKinds
  <1> QED BY <1>4, <1>5, <1>6, <1>7, <1>8, <1>9, QuietStep DEF MayReturn

\* Sending patches returns no chunk.
LEMMA SendPatchesKeepsChunks ==
  ASSUME ArbiterInv, ChunkInv, NEW t \in Threads, NEW w \in DOMAIN setup.chunks,
         SendPatches(t, w), UNCHANGED setup
  PROVE  ChunkInv'
  <1>1. Types /\ w \in Writers
    BY SetupIsTyped DEF ArbiterInv
  <1>2. PICK call : call = ReturnCall(w, 0)
    OBVIOUS
  <1>3. /\ Idle(t) /\ Home[w] = t /\ todo' = [todo EXCEPT ![t] = <<call>>]
        /\ UNCHANGED <<setup, commit_data_req_, channel, service, chunk, check_failed, writer>>
    BY <1>2 DEF SendPatches, Owns, arbiter, batch, port, memory
  <1>4. call \in Steps /\ <<call>> \in Seq(Steps) /\ ToSet(<<call>>) = {call}
    BY <1>1, <1>2, StepsAreTyped, SetOfShort
  <1>5. Does(t, <<call>>) /\ todo[t] = <<>>
    BY <1>1, <1>3, <1>4, IdleDoes DEF Idle
  <1>6. Open' = Open /\ ReturnedByAll(<<call>>) = {}
    BY <1>2, <1>3, ReturnsOfShort, CallKinds DEF Open
  <1>7. ReturnOnce(<<call>>) /\ IsReturn(call) /\ call.w = w /\ call.op # "Scrape"
    BY <1>2, ReturnOnceShort, CallKinds
  <1>8. \A v \in Writers : writer'[v] = writer[v] /\ writer'[v].id <= kMaxWriterID
    BY <1>3 DEF ChunkInv, DataTypes
  <1> QED BY <1>3, <1>4, <1>5, <1>6, <1>7, <1>8, QuietStep DEF MayReturn

\* A finalized nested message touches a patch list only.
LEMMA FinalizeNestedMessageKeepsChunks ==
  ASSUME ArbiterInv, ChunkInv, NEW t \in Threads, NEW w \in DOMAIN setup.chunks,
         NEW j \in DOMAIN writer[w].patch_list, FinalizeNestedMessage(t, w, j), UNCHANGED setup
  PROVE  ChunkInv'
  <1>1. Types /\ w \in Writers
    BY SetupIsTyped DEF ArbiterInv
  <1>2. PICK list : list = [writer[w].patch_list EXCEPT ![j].patched = TRUE]
    OBVIOUS
  <1>3. /\ Idle(t) /\ writer' = [writer EXCEPT ![w].patch_list = list]
        /\ UNCHANGED <<setup, commit_data_req_, channel, service, chunk, check_failed, todo>>
    BY <1>2 DEF FinalizeNestedMessage, Owns, arbiter, batch, runner, port
  <1>4. \A v \in Writers : /\ writer'[v].chunks = writer[v].chunks /\ writer'[v].id = writer[v].id
                           /\ writer'[v].open = writer[v].open
    BY <1>1, <1>3 DEF Types, TraceWriters
  <1>5. Does(t, <<>>) /\ ToSet(<<>>) = {} /\ todo[t] = <<>>
    BY <1>1, <1>3, IdleDoes, SetOfShort DEF Idle
  <1> QED BY <1>3, <1>4, <1>5, QuietCall

\* What a writer does with its chunk before something else.
LEMMA ReturnOpenChunkDoes ==
  ASSUME Types, NEW w \in Writers, NEW a, a = ReturnOpenChunk(w)
  PROVE  /\ a \in Seq(Steps) /\ ReturnOnce(a)
         /\ ReturnedByAll(a) = IF writer[w].open = 0 THEN {} ELSE {<<w, writer[w].open>>}
         /\ \A op \in ToSet(a) : IsReturn(op) /\ op.w = w /\ op.op # "Scrape"
  <1>1. CASE writer[w].open = 0
    BY <1>1, EmptySeq, SetOfShort, ReturnOnceShort, ReturnsOfShort DEF ReturnOpenChunk
  <1>2. CASE writer[w].open # 0
    <2>1. PICK call : call = ReturnCall(w, writer[w].open)
      OBVIOUS
    <2>2. a = <<call>>
      BY <1>2, <2>1 DEF ReturnOpenChunk
    <2>3. call \in Steps /\ ToSet(a) = {call} /\ ReturnOnce(a) /\ ReturnedByAll(a) = ReturnedBy(call)
      BY <2>1, <2>2, WriterIsTyped, StepsAreTyped, SetOfShort, ReturnOnceShort, ReturnsOfShort
    <2>4. IsReturn(call) /\ call.w = w /\ call.op # "Scrape"
          /\ ReturnedBy(call) = {<<w, writer[w].open>>}
      BY <1>2, <2>1, CallKinds
    <2> QED BY <1>2, <2>2, <2>3, <2>4
  <1> QED BY <1>1, <1>2

\* The chunk of a writer and then steps that return nothing.
LEMMA ReturnThen ==
  ASSUME NEW a \in Seq(Steps), ReturnOnce(a), NEW b \in Seq(Steps),
         \A op \in ToSet(b) : ~IsReturn(op)
  PROVE  /\ a \o b \in Seq(Steps) /\ ReturnOnce(a \o b)
         /\ ReturnedByAll(a \o b) = ReturnedByAll(a)
         /\ ToSet(a \o b) = ToSet(a) \cup ToSet(b)
  <1>1. ReturnOnce(b)
    BY DEF ReturnOnce, ToSet
  <1>2. ReturnOnce(a \o b)
    BY <1>1, ReturnOnceCat
  <1>3. a \o b \in Seq(Steps) /\ ToSet(a \o b) = ToSet(a) \cup ToSet(b)
    BY SetOfCat
  <1>4. ReturnedByAll(a \o b) = ReturnedByAll(a)
    <2>1. ReturnedByAll(b) = {}
      BY ReturnsOfShort
    <2>2. ReturnedByAll(a \o b) = ReturnedByAll(a) \cup ReturnedByAll(b)
      BY ReturnsOfCat
    <2> QED BY <2>1, <2>2
  <1> QED BY <1>2, <1>3, <1>4

\* A writer closes its chunk and asks its thread to return it, before other steps.
LEMMA ClosingStep ==
  ASSUME ArbiterInv, ChunkInv, NEW t \in Threads, NEW w \in DOMAIN setup.chunks, Owns(t, w),
         NEW ops \in Seq(Steps), ReturnOnce(ops),
         ReturnedByAll(ops) = (IF writer[w].open = 0 THEN {} ELSE {<<w, writer[w].open>>}),
         \A op \in ToSet(ops) : (IsReturn(op) => op.w = w) /\ op.op # "Scrape",
         todo' = [todo EXCEPT ![t] = ops],
         NEW new, writer' = [writer EXCEPT ![w] = new],
         new.open = 0, new.chunks = writer[w].chunks, new.id = writer[w].id,
         UNCHANGED <<setup, commit_data_req_, channel, service, chunk, check_failed>>
  PROVE  ChunkInv'
  <1>1. Types /\ todo[t] = <<>> /\ Does(t, ops) /\ Home[w] = t /\ w \in Writers
    BY IdleDoes, SetupIsTyped DEF ArbiterInv, Owns, Idle
  <1>2. Open \ Open' = ReturnedByAll(ops)
    BY <1>1, ClosedChunk
  <1>3. \A v \in Writers : /\ writer'[v].chunks = writer[v].chunks
                           /\ writer'[v].id <= kMaxWriterID
                           /\ writer'[v].open \in {0, writer[v].open}
    BY <1>1 DEF Types, TraceWriters, ChunkInv, DataTypes
  <1> QED BY <1>1, <1>2, <1>3, QuietStep DEF MayReturn

\* TraceWriterImpl::Flush.
LEMMA FlushKeepsChunks ==
  ASSUME ArbiterInv, ChunkInv, NEW t \in Threads, NEW w \in DOMAIN setup.chunks,
         NEW cb \in setup.callbacks, Flush(t, w, cb), UNCHANGED setup
  PROVE  ChunkInv'
  <1>1. Types /\ w \in Writers /\ {cb} \in SUBSET Callbacks
    BY SetupIsTyped DEF ArbiterInv
  <1>2. PICK a : a = ReturnOpenChunk(w)
    OBVIOUS
  <1>3. PICK call : call = FlushCall({cb})
    OBVIOUS
  <1>4. PICK b : b = <<call>>
    OBVIOUS
  <1>5. PICK ops : ops = a \o b
    OBVIOUS
  <1>6. b \in Seq(Steps) /\ \A op \in ToSet(b) : ~IsReturn(op) /\ op.op # "Scrape"
    <2>1. call \in Steps /\ ~IsReturn(call) /\ call.op # "Scrape"
      BY <1>1, <1>3, StepsAreTyped, CallKinds
    <2> QED BY <1>4, <2>1, SetOfShort
  <1>7. /\ a \in Seq(Steps) /\ ReturnOnce(a)
        /\ ReturnedByAll(a) = IF writer[w].open = 0 THEN {} ELSE {<<w, writer[w].open>>}
        /\ \A op \in ToSet(a) : IsReturn(op) /\ op.w = w /\ op.op # "Scrape"
    BY <1>1, <1>2, ReturnOpenChunkDoes
  <1>8. /\ ops \in Seq(Steps) /\ ReturnOnce(ops) /\ ReturnedByAll(ops) = ReturnedByAll(a)
        /\ \A op \in ToSet(ops) : (IsReturn(op) => op.w = w) /\ op.op # "Scrape"
    BY <1>5, <1>6, <1>7, ReturnThen
  <1>9. PICK new : new = [writer[w] EXCEPT !.open = 0]
    OBVIOUS
  <1>10. new.open = 0 /\ new.chunks = writer[w].chunks /\ new.id = writer[w].id
    BY <1>1, <1>9 DEF Types, TraceWriters
  <1>11. /\ Owns(t, w) /\ todo' = [todo EXCEPT ![t] = ops]
         /\ writer' = [writer EXCEPT ![w] = new]
         /\ UNCHANGED <<setup, commit_data_req_, channel, service, chunk, check_failed>>
    BY <1>2, <1>3, <1>4, <1>5, <1>9 DEF Flush, arbiter, batch, port
  <1> QED BY <1>1, <1>7, <1>8, <1>10, <1>11, ClosingStep

\* ~TraceWriterImpl.
LEMMA DestroyWriterKeepsChunks ==
  ASSUME ArbiterInv, ChunkInv, NEW t \in Threads, NEW w \in DOMAIN setup.chunks,
         DestroyWriter(t, w), UNCHANGED setup
  PROVE  ChunkInv'
  <1>1. Types /\ w \in Writers
    BY SetupIsTyped DEF ArbiterInv
  <1>2. PICK call : call = FlushCall({})
    OBVIOUS
  <1>3. PICK release : release = [op |-> "ReleaseWriterID", w |-> w]
    OBVIOUS
  <1>4. PICK a : a = ReturnOpenChunk(w)
    OBVIOUS
  <1>5. PICK b : b = IF writer[w].open = 0 THEN <<>> ELSE Append(a, call)
    OBVIOUS
  <1>6. PICK ops : ops = b \o <<release>>
    OBVIOUS
  <1>7. /\ call \in Steps /\ ~IsReturn(call) /\ call.op # "Scrape"
        /\ release \in Steps /\ ~IsReturn(release) /\ release.op # "Scrape"
    <2>1. call \in Steps /\ release \in Steps
      BY <1>1, <1>2, <1>3, StepsAreTyped
    <2> QED BY <1>2, <1>3, <2>1, CallKinds DEF IsReturn
  <1>8. /\ a \in Seq(Steps) /\ ReturnOnce(a)
        /\ ReturnedByAll(a) = IF writer[w].open = 0 THEN {} ELSE {<<w, writer[w].open>>}
        /\ \A op \in ToSet(a) : IsReturn(op) /\ op.w = w /\ op.op # "Scrape"
    BY <1>1, <1>4, ReturnOpenChunkDoes
  <1>9. /\ b \in Seq(Steps) /\ ReturnOnce(b) /\ ReturnedByAll(b) = ReturnedByAll(a)
        /\ \A op \in ToSet(b) : (IsReturn(op) => op.w = w) /\ op.op # "Scrape"
    <2>1. CASE writer[w].open = 0
      BY <1>5, <1>8, <2>1, EmptySeq, SetOfShort, ReturnOnceShort, ReturnsOfShort
    <2>2. CASE writer[w].open # 0
      <3>1. PICK c : c = <<call>>
        OBVIOUS
      <3>2. c \in Seq(Steps) /\ \A op \in ToSet(c) : ~IsReturn(op) /\ op.op # "Scrape"
        BY <1>7, <3>1, SetOfShort
      <3>3. b = a \o c
        BY <1>5, <1>7, <1>8, <2>2, <3>1, AppendIsConcat
      <3> QED BY <1>8, <3>2, <3>3, ReturnThen
    <2> QED BY <2>1, <2>2
  <1>10. /\ ops \in Seq(Steps) /\ ReturnOnce(ops) /\ ReturnedByAll(ops) = ReturnedByAll(b)
         /\ \A op \in ToSet(ops) : (IsReturn(op) => op.w = w) /\ op.op # "Scrape"
    <2>1. PICK c : c = <<release>>
      OBVIOUS
    <2>2. c \in Seq(Steps) /\ \A op \in ToSet(c) : ~IsReturn(op) /\ op.op # "Scrape"
      BY <1>7, <2>1, SetOfShort
    <2> QED BY <1>6, <1>9, <2>1, <2>2, ReturnThen
  <1>11. PICK new : new = [writer[w] EXCEPT !.state = "dead", !.open = 0]
    OBVIOUS
  <1>12. new.open = 0 /\ new.chunks = writer[w].chunks /\ new.id = writer[w].id
    BY <1>1, <1>11 DEF Types, TraceWriters
  <1>13. /\ Owns(t, w) /\ todo' = [todo EXCEPT ![t] = ops]
         /\ writer' = [writer EXCEPT ![w] = new]
         /\ UNCHANGED <<setup, commit_data_req_, channel, service, chunk, check_failed>>
    BY <1>2, <1>3, <1>4, <1>5, <1>6, <1>11 DEF DestroyWriter, arbiter, batch, port
  <1> QED BY <1>1, <1>8, <1>9, <1>10, <1>12, <1>13, ClosingStep

-----------------------------------------------------------------------------
(***************************************************************************)
(* Sorting a finite set of numbers.                                        *)
(***************************************************************************)
\* The members of a finite set of numbers have each a place in their order.
LEMMA NthIsSound ==
  ASSUME NEW S, S \subseteq Nat, IsFiniteSet(S)
  PROVE  /\ Cardinality(S) \in Nat
         /\ \A i \in 1 .. Cardinality(S) : Nth(S, i) \in S
         /\ \A i, j \in 1 .. Cardinality(S) : i < j => Nth(S, i) < Nth(S, j)
         /\ \A x \in S : \E i \in 1 .. Cardinality(S) : Nth(S, i) = x
  <1> DEFINE Upto(x) == {y \in S : y <= x}
             rank == [x \in S |-> Cardinality(Upto(x))]
  <1>1. Cardinality(S) \in Nat
    BY FS_CardinalityType
  <1>2. ASSUME NEW x \in S
        PROVE  IsFiniteSet(Upto(x)) /\ Cardinality(Upto(x)) \in 1 .. Cardinality(S)
    <2>1. Upto(x) \in SUBSET S /\ x \in Upto(x)
      OBVIOUS
    <2>2. IsFiniteSet(Upto(x)) /\ Cardinality(Upto(x)) <= Cardinality(S)
      BY <2>1, FS_Subset
    <2>3. Cardinality(Upto(x)) \in Nat /\ Cardinality(Upto(x)) # 0
      BY <2>1, <2>2, FS_CardinalityType, FS_EmptySet
    <2> QED BY <1>1, <2>2, <2>3
  <1>3. ASSUME NEW x \in S, NEW y \in S, x < y
        PROVE  Cardinality(Upto(x)) < Cardinality(Upto(y))
    <2>1. \A z \in S : z \in Nat
      OBVIOUS
    <2>2. \A z \in S : z <= x => z <= y
      BY <1>3, <2>1
    <2>3. y <= y /\ ~(y <= x)
      BY <1>3, <2>1
    <2>4. Upto(x) \in SUBSET Upto(y) /\ y \in Upto(y) /\ y \notin Upto(x)
      BY <2>2, <2>3
    <2>5. /\ Cardinality(Upto(x)) <= Cardinality(Upto(y))
          /\ Cardinality(Upto(x)) # Cardinality(Upto(y))
      BY <1>2, <2>4, FS_Subset
    <2> QED BY <1>2, <2>5
  <1>4. \A x, y \in S : rank[x] = rank[y] => x = y
    <2> SUFFICES ASSUME NEW x \in S, NEW y \in S, x # y PROVE rank[x] # rank[y]
      OBVIOUS
    <2>1. x < y \/ y < x
      OBVIOUS
    <2>2. rank[x] \in Nat /\ rank[y] \in Nat
      BY <1>2
    <2> QED BY <1>3, <2>1, <2>2
  <1>5. rank \in [S -> 1 .. Cardinality(S)]
    BY <1>2
  <1>6. rank \in Injection(S, 1 .. Cardinality(S))
    BY <1>4, <1>5 DEF Injection, IsInjective
  <1>7. IsFiniteSet(1 .. Cardinality(S)) /\ Cardinality(1 .. Cardinality(S)) = Cardinality(S)
    BY <1>1, FS_Interval
  <1>8. rank \in Surjection(S, 1 .. Cardinality(S))
    BY <1>6, <1>7, FS_Injection
  <1>9. \A i \in 1 .. Cardinality(S) : \E x \in S : Cardinality(Upto(x)) = i
    BY <1>8 DEF Surjection
  <1>10. \A i \in 1 .. Cardinality(S) : Nth(S, i) \in S /\ Cardinality(Upto(Nth(S, i))) = i
    BY <1>9 DEF Nth
  <1>11. ASSUME NEW x \in S PROVE \E i \in 1 .. Cardinality(S) : Nth(S, i) = x
    <2>1. rank[x] \in 1 .. Cardinality(S)
      BY <1>5
    <2>2. Nth(S, rank[x]) \in S /\ rank[Nth(S, rank[x])] = rank[x]
      BY <1>10, <2>1
    <2> QED BY <1>4, <2>1, <2>2
  <1>12. ASSUME NEW i \in 1 .. Cardinality(S), NEW j \in 1 .. Cardinality(S), i < j
         PROVE  Nth(S, i) < Nth(S, j)
    <2>1. PICK x \in S, y \in S : x = Nth(S, i) /\ y = Nth(S, j)
      BY <1>10
    <2>2. Cardinality(Upto(x)) = i /\ Cardinality(Upto(y)) = j
      BY <1>10, <2>1
    <2>3. x \in Nat /\ y \in Nat /\ i \in Nat /\ j \in Nat
      BY <1>1
    <2>4. x # y
      BY <1>12, <2>2, <2>3
    <2>5. ~(y < x)
      <3>1. ~(j < i)
        BY <1>12, <2>3
      <3> QED BY <1>3, <2>2, <3>1
    <2> QED BY <2>1, <2>3, <2>4, <2>5
  <1> QED BY <1>1, <1>10, <1>11, <1>12

\* Sorting keeps the members and puts them in order.
LEMMA SortedIsSound ==
  ASSUME NEW S, S \subseteq Nat, IsFiniteSet(S)
  PROVE  /\ Sorted(S) \in Seq(S) /\ ToSet(Sorted(S)) = S
         /\ Cardinality(S) \in Nat /\ DOMAIN Sorted(S) = 1 .. Cardinality(S)
         /\ \A i, j \in DOMAIN Sorted(S) : i < j => Sorted(S)[i] < Sorted(S)[j]
  <1>1. /\ Cardinality(S) \in Nat
        /\ \A i \in 1 .. Cardinality(S) : Nth(S, i) \in S
        /\ \A i, j \in 1 .. Cardinality(S) : i < j => Nth(S, i) < Nth(S, j)
        /\ \A x \in S : \E i \in 1 .. Cardinality(S) : Nth(S, i) = x
    BY NthIsSound
  <1>2. DOMAIN Sorted(S) = 1 .. Cardinality(S)
        /\ \A i \in 1 .. Cardinality(S) : Sorted(S)[i] = Nth(S, i)
    BY DEF Sorted
  <1>3. Sorted(S) \in Seq(S)
    BY <1>1, IsASeq DEF Sorted
  <1>4. ToSet(Sorted(S)) = S
    BY <1>1, <1>2 DEF ToSet
  <1> QED BY <1>1, <1>2, <1>3, <1>4

-----------------------------------------------------------------------------
(***************************************************************************)
(* Steps that send control messages or nothing.                            *)
(***************************************************************************)
\* Messages without chunks change nothing about the chunks that are under way.
LEMMA ChunklessMessages ==
  ASSUME channel \in Seq(Messages), NEW q \in Seq(Messages), channel' = channel \o q,
         \A m \in ToSet(q) : m.type = "CommitData" => m.req.chunks = <<>>
  PROVE  /\ channel' \in Seq(Messages) /\ InChannel' = InChannel
         /\ InOrder(channel) => InOrder(channel)'
  <1>1. \A m \in ToSet(q) : ChunksIn(m) = {}
    BY LeasesOfShort DEF ChunksIn
  <1>2. ChunksInAll(q) = {}
    BY <1>1 DEF ChunksInAll
  <1>3. InOrder(q)
    <2>1. \A i \in DOMAIN q : q[i] \in ToSet(q)
      BY DEF ToSet
    <2>2. Ascending(<<>>)
      BY LeasesOfShort
    <2> QED BY <1>1, <2>1, <2>2 DEF InOrder, Before
  <1>4. Before(ChunksInAll(channel), ChunksInAll(q))
    BY <1>2 DEF Before
  <1>5. /\ channel \o q \in Seq(Messages)
        /\ ChunksInAll(channel \o q) = ChunksInAll(channel) \cup ChunksInAll(q)
        /\ InOrder(channel) => InOrder(channel \o q)
    BY <1>3, <1>4, MessagesCat
  <1>6. InChannel' = InChannel
    BY <1>2, <1>5 DEF InChannel
  <1> QED BY <1>5, <1>6 DEF InOrder

\* A step that sends messages without chunks.
LEMMA ControlStep ==
  ASSUME ArbiterInv, ChunkInv, NEW t, NEW ops, Does(t, ops),
         UNCHANGED <<setup, commit_data_req_, service, chunk, check_failed, writer>>,
         NEW q \in Seq(Messages), channel' = channel \o q,
         \A m \in ToSet(q) : m.type = "CommitData" => m.req.chunks = <<>>,
         todo[t] # <<>> => ~IsReturn(Head(todo[t])),
         \A op \in ToSet(ops) : ~IsReturn(op) /\ op.op # "Scrape"
  PROVE  ChunkInv'
  <1>1. Open' = Open /\ Requested' = Requested
    BY DEF Open, Requested
  <1>2. ReturnedByAll(ops) = {} /\ (todo[t] # <<>> => ReturnedBy(Head(todo[t])) = {})
    BY ReturnsOfShort
  <1>3. /\ channel' \in Seq(Messages) /\ InChannel' = InChannel
        /\ InOrder(channel) => InOrder(channel)'
    BY ChunklessMessages DEF ChunkInv, DataTypes
  <1>4. \A w \in Writers : writer'[w] = writer[w] /\ writer'[w].id <= kMaxWriterID
    BY DEF ChunkInv, DataTypes
  <1>5. commit_data_req_' \in Requests \cup {None}
    BY DEF ChunkInv, DataTypes
  <1>6. OrderInv => /\ InOrder(channel)'
                    /\ commit_data_req_' # None => Ascending(commit_data_req_.chunks)'
    BY <1>3 DEF OrderInv
  <1> QED BY <1>1, <1>2, <1>3, <1>4, <1>5, <1>6, PlacesStay

\* Steps that leave the queues, the writers, the request and the channel alone.
LEMMA NothingMoves ==
  ASSUME ChunkInv,
         UNCHANGED <<setup, commit_data_req_, channel, service, chunk, check_failed, writer, todo>>
  PROVE  ChunkInv'
  <1>1. /\ Scraping' = Scraping /\ mode' = mode /\ Leases' = Leases /\ Arrived' = Arrived
        /\ InChannel' = InChannel /\ Requested' = Requested
        /\ Returning' = Returning /\ Open' = Open
    BY DEF Scraping, mode, Leases, ChunksOf, Arrived, InChannel, ChunksInAll, Requested, Returning,
           ReturnedByAll, Open
  <1>2. Sent' = Sent /\ Pipeline' = Pipeline /\ InHand' = InHand /\ Acquired' = Acquired
    BY <1>1 DEF Sent, Pipeline, InHand, Acquired
  <1>3. DataTypes'
    BY <1>1 DEF ChunkInv, DataTypes
  <1>4. LocationInv'
    <2>1. QueuesFit'
      BY <1>1 DEF ChunkInv, LocationInv, QueuesFit, Ops, ReturnOnce, MayReturn
    <2> QED BY <1>1, <1>2, <2>1 DEF ChunkInv, LocationInv
  <1>5. OrderInv => OrderInv'
    BY <1>1, <1>2 DEF OrderInv
  <1> QED BY <1>1, <1>3, <1>4, <1>5 DEF ChunkInv

\* A new writer has no chunks yet.
LEMMA CreateTraceWriterKeepsChunks ==
  ASSUME ArbiterInv, ChunkInv, NEW t \in Threads, NEW w \in DOMAIN setup.chunks,
         NEW requested \in Reservations \cup Buffers,
         CreateTraceWriterInternal(t, w, requested), UNCHANGED setup
  PROVE  ChunkInv'
  <1> DEFINE id == AllocateId
             res == target_buffer_reservations_
             reserves == /\ IsReservationTargetBufferId(requested)
                         /\ res[requested] \in {Absent, Unbound}
             target == IF IsReservationTargetBufferId(requested) /\ ~reserves
                       THEN res[requested] ELSE requested
  <1>1. Types /\ w \in Writers
    BY SetupIsTyped DEF ArbiterInv
  <1>2. /\ Idle(t)
        /\ UNCHANGED <<setup, commit_data_req_, channel, service, chunk, check_failed>>
    BY DEF CreateTraceWriterInternal, batch, port
  <1>3. id \in Nat /\ (id # 0 => id \in WriterIDs)
    BY <1>1, AllocatedIdIsFree
  <1>4. CASE did_shutdown_ \/ id = 0
    <2>1. writer' = [writer EXCEPT ![w].state = "null"] /\ UNCHANGED todo
      BY <1>4 DEF CreateTraceWriterInternal
    <2>2. \A v \in Writers : /\ writer'[v].chunks = writer[v].chunks
                             /\ writer'[v].id = writer[v].id /\ writer'[v].open = writer[v].open
      BY <1>1, <2>1 DEF Types, TraceWriters
    <2>3. Does(t, <<>>) /\ ToSet(<<>>) = {} /\ todo[t] = <<>>
      BY <1>1, <1>2, <2>1, IdleDoes, SetOfShort DEF Idle
    <2> QED BY <1>2, <2>2, <2>3, QuietCall
  <1>5. CASE ~(did_shutdown_ \/ id = 0)
    <2>1. writer' = [writer EXCEPT ![w] = [@ EXCEPT !.state = "live", !.id = id, !.target = target]]
      BY <1>5 DEF CreateTraceWriterInternal
    <2>2. PICK post : post = PostTask(SendCall(Register(id, target)))
      OBVIOUS
    <2>3. UNCHANGED todo \/ todo' = [todo EXCEPT ![t] = <<>>]
             \/ (~reserves /\ todo' = [todo EXCEPT ![t] = <<post>>])
      BY <1>5, <2>2 DEF CreateTraceWriterInternal
    <2>4. ~reserves => target \in Nat
      BY <1>1, ArbiterAssumption DEF Types, Targets, IsReservationTargetBufferId
    <2>5. \A v \in Writers : /\ writer'[v].chunks = writer[v].chunks
                             /\ writer'[v].id <= kMaxWriterID /\ writer'[v].open = writer[v].open
      <3> HIDE DEF target
      <3>1. /\ writer'[w].chunks = writer[w].chunks /\ writer'[w].open = writer[w].open
            /\ writer'[w].id = id
        BY <1>1, <2>1 DEF Types, TraceWriters
      <3>2. \A v \in Writers \ {w} : writer'[v] = writer[v]
        BY <1>1, <2>1 DEF Types
      <3>3. id <= kMaxWriterID
        BY <1>3, <1>5, ArbiterAssumption DEF WriterIDs
      <3> QED BY <3>1, <3>2, <3>3 DEF ChunkInv, DataTypes
    <2>6. PICK ops \in Seq(Steps) :
             Does(t, ops) /\ \A op \in ToSet(ops) : ~IsReturn(op) /\ op.op # "Scrape"
      <3>1. Does(t, <<>>) \/ (~reserves /\ todo' = [todo EXCEPT ![t] = <<post>>])
        BY <1>1, <1>2, <2>3, IdleDoes, EmptySeq
      <3>2. <<>> \in Seq(Steps) /\ ToSet(<<>>) = {}
        BY SetOfShort, EmptySeq
      <3>3. ASSUME ~reserves, todo' = [todo EXCEPT ![t] = <<post>>]
            PROVE  /\ <<post>> \in Seq(Steps) /\ Does(t, <<post>>)
                   /\ \A op \in ToSet(<<post>>) : ~IsReturn(op) /\ op.op # "Scrape"
        <4>1. post \in Steps
          <5>1. id \in WriterIDs /\ target \in Nat
            BY <1>3, <1>5, <2>4, <3>3
          <5> HIDE DEF id, target
          <5> QED BY <2>2, <5>1, StepsAreTyped
        <4>2. <<post>> \in Seq(Steps) /\ ToSet(<<post>>) = {post}
          BY <4>1, SetOfShort
        <4>3. ~IsReturn(post) /\ post.op # "Scrape"
          BY <2>2, CallKinds
        <4> QED BY <1>1, <1>2, <3>3, <4>2, <4>3, IdleDoes
      <3> QED BY <3>1, <3>2, <3>3
    <2>7. Open' = Open /\ ReturnedByAll(ops) = {} /\ todo[t] = <<>>
      BY <1>2, <2>5, <2>6, ReturnsOfShort DEF Open, Idle
    <2> QED BY <1>2, <2>5, <2>6, <2>7, QuietStep
  <1> QED BY <1>4, <1>5

\* An abort is called.
LEMMA AbortStartupTracingKeepsChunks ==
  ASSUME ArbiterInv, ChunkInv, NEW t \in Threads, NEW r \in Reservations,
         AbortStartupTracing(t, r), UNCHANGED setup
  PROVE  ChunkInv'
  <1>1. PICK call : call = AbortCall(r)
    OBVIOUS
  <1>2. /\ Idle(t) /\ todo' = [todo EXCEPT ![t] = <<call>>]
        /\ UNCHANGED <<setup, commit_data_req_, channel, service, chunk, check_failed, writer>>
    BY <1>1 DEF AbortStartupTracing, arbiter, batch, memory, port
  <1>3. call \in Steps /\ ~IsReturn(call) /\ call.op # "Scrape"
    BY <1>1, StepsAreTyped, CallKinds
  <1>4. <<call>> \in Seq(Steps) /\ ToSet(<<call>>) = {call}
    BY <1>3, SetOfShort
  <1>5. Does(t, <<call>>) /\ todo[t] = <<>>
    BY <1>2, <1>4, IdleDoes DEF ArbiterInv, Idle
  <1> QED BY <1>2, <1>3, <1>4, <1>5, QuietCall

\* Steps that are taken from the queue of a thread, with nothing to follow.
LEMMA DoneStep ==
  ASSUME ArbiterInv, ChunkInv, NEW t \in Threads, todo[t] # <<>>, ~IsReturn(Head(todo[t])),
         Then(t, <<>>),
         UNCHANGED <<setup, commit_data_req_, channel, service, chunk, check_failed, writer>>
  PROVE  ChunkInv'
  <1>1. <<>> \in Seq(Steps) /\ ToSet(<<>>) = {}
    BY SetOfShort, EmptySeq
  <1>2. Does(t, <<>>)
    BY <1>1, NextOp DEF ArbiterInv
  <1> QED BY <1>1, <1>2, QuietCall

\* A task or a delayed flush is posted.
LEMMA PostingKeepsChunks ==
  ASSUME ArbiterInv, ChunkInv, NEW t \in Threads, DoPostTask(t) \/ DoPostDelayedFlush(t),
         UNCHANGED setup
  PROVE  ChunkInv'
  <1>1. /\ todo[t] # <<>> /\ Head(todo[t]).op \in {"PostTask", "PostDelayedFlush"} /\ Then(t, <<>>)
        /\ UNCHANGED <<setup, commit_data_req_, channel, service, chunk, check_failed, writer>>
    BY DEF DoPostTask, DoPostDelayedFlush, Doing, arbiter, batch, memory, port
  <1>2. ~IsReturn(Head(todo[t]))
    BY <1>1 DEF IsReturn
  <1> QED BY <1>1, <1>2, DoneStep

\* A writer gives its id back.
LEMMA ReleaseWriterIDKeepsChunks ==
  ASSUME ArbiterInv, ChunkInv, NEW t \in Threads, ReleaseWriterID(t), UNCHANGED setup
  PROVE  ChunkInv'
  <1> DEFINE id == writer[Head(todo[t]).w].id
  <1>1. Types
    BY DEF ArbiterInv
  <1>2. PICK op : op = Head(todo[t])
    OBVIOUS
  <1>3. /\ todo[t] # <<>> /\ op.op = "ReleaseWriterID" /\ ~IsReturn(op)
        /\ UNCHANGED <<setup, commit_data_req_, channel, service, chunk, check_failed, writer>>
    BY <1>2 DEF ReleaseWriterID, Doing, IsReturn, batch, memory, port
  <1>4. id \in Nat
    BY <1>1, <1>2, <1>3, NextOp, StepFields, WriterIsTyped
  <1>5. PICK post : post = PostTask(SendCall(Unregister(id)))
    OBVIOUS
  <1>6. Then(t, <<>>) \/ Then(t, <<post>>)
    BY <1>5 DEF ReleaseWriterID
  <1>7. /\ <<>> \in Seq(Steps) /\ ToSet(<<>>) = {}
        /\ <<post>> \in Seq(Steps) /\ \A x \in ToSet(<<post>>) : ~IsReturn(x) /\ x.op # "Scrape"
    <2> HIDE DEF id
    <2>1. post \in Steps /\ ~IsReturn(post) /\ post.op # "Scrape"
      BY <1>4, <1>5, StepsAreTyped, CallKinds
    <2> QED BY <2>1, SetOfShort, EmptySeq
  <1>8. Does(t, <<>>) \/ Does(t, <<post>>)
    BY <1>1, <1>3, <1>6, <1>7, NextOp
  <1> QED BY <1>2, <1>3, <1>7, <1>8, QuietCall

\* A delayed flush is due: the IPC thread is going to flush.
LEMMA RunDelayedFlushKeepsChunks ==
  ASSUME ArbiterInv, ChunkInv, NEW kind \in {"delayed", "immediate"}, RunDelayedFlush(kind),
         UNCHANGED setup
  PROVE  ChunkInv'
  <1>1. PICK call : call = FlushCall({})
    OBVIOUS
  <1>2. /\ Idle(IPC) /\ IPC \in Threads
        /\ todo' = [todo EXCEPT ![IPC] = IF may_delete THEN <<>> ELSE <<call>>]
        /\ UNCHANGED <<setup, commit_data_req_, channel, service, chunk, check_failed, writer>>
    BY <1>1 DEF RunDelayedFlush, memory, port, Threads
  <1>3. PICK ops : ops = IF may_delete THEN <<>> ELSE <<call>>
    OBVIOUS
  <1>4. ops \in Seq(Steps) /\ \A op \in ToSet(ops) : ~IsReturn(op) /\ op.op # "Scrape"
    <2>1. call \in Steps /\ ~IsReturn(call) /\ call.op # "Scrape"
      BY <1>1, StepsAreTyped, CallKinds
    <2> QED BY <1>3, <2>1, SetOfShort, EmptySeq
  <1>5. Does(IPC, ops) /\ todo[IPC] = <<>>
    BY <1>2, <1>3, <1>4, IdleDoes DEF ArbiterInv, Idle
  <1> QED BY <1>2, <1>4, <1>5, QuietCall

\* The registrations that a binding sends.
LEMMA BindImplSends ==
  ASSUME NEW t, NEW r \in Reservations, NEW b \in Nat, NEW rest,
         BindStartupTargetBufferImpl(t, r, b, rest)
  PROVE  \E q \in Seq(Messages) : channel' = channel \o q /\ \A m \in ToSet(q) : m.type # "CommitData"
  <1> DEFINE pending == {i \in WriterIDs : pending_writers_[i] = r}
             to_register == IF b = kInvalidBufferId THEN <<>> ELSE Sorted(pending)
             sent == [i \in DOMAIN to_register |-> Register(to_register[i], b)]
  <1>1. channel' = channel \o sent
    BY DEF BindStartupTargetBufferImpl
  <1>2. PICK n \in Nat : /\ DOMAIN to_register = 1 .. n
                         /\ \A i \in 1 .. n : to_register[i] \in WriterIDs
    <2>1. CASE b = kInvalidBufferId
      <3>1. DOMAIN to_register = 1 .. 0 /\ \A i \in 1 .. 0 : to_register[i] \in WriterIDs
        BY <2>1
      <3> HIDE DEF to_register
      <3> QED BY <3>1
    <2>2. CASE b # kInvalidBufferId
      <3>1. pending \subseteq Nat /\ IsFiniteSet(pending)
        <4>1. IsFiniteSet(WriterIDs) /\ WriterIDs \subseteq Nat
          BY ArbiterAssumption, FS_Interval DEF WriterIDs
        <4> QED BY <4>1, FS_Subset
      <3>2. /\ Sorted(pending) \in Seq(pending) /\ Cardinality(pending) \in Nat
            /\ DOMAIN Sorted(pending) = 1 .. Cardinality(pending)
        <4> HIDE DEF pending
        <4> QED BY <3>1, SortedIsSound
      <3>3. \A i \in 1 .. Cardinality(pending) : Sorted(pending)[i] \in pending
        <4> HIDE DEF pending
        <4> QED BY <3>2, ElementOfSeq, LenProperties
      <3> QED BY <2>2, <3>2, <3>3
    <2> QED BY <2>1, <2>2
  <1> HIDE DEF to_register
  <1>3. \A i \in 1 .. n : /\ Register(to_register[i], b) \in Messages
                          /\ Register(to_register[i], b).type # "CommitData"
    BY <1>2 DEF Register, Messages
  <1>4. sent \in Seq(Messages) /\ \A m \in ToSet(sent) : m.type # "CommitData"
    <2>1. sent \in Seq(Messages)
      BY <1>2, <1>3, IsASeq
    <2>2. \A i \in DOMAIN sent : sent[i].type # "CommitData"
      BY <1>2, <1>3
    <2> QED BY <2>1, <2>2 DEF ToSet
  <1> HIDE DEF sent
  <1> QED BY <1>1, <1>4

\* The writers that waited for a reservation are registered, once it has a buffer.
LEMMA BindImplKeepsChunks ==
  ASSUME ArbiterInv, ChunkInv, NEW t \in Threads, NEW r \in Reservations, NEW b \in Nat, NEW rest,
         BindStartupTargetBufferImpl(t, r, b, rest), t = IPC \/ ~endpoint,
         UNCHANGED <<setup, batch, memory, service>>,
         \A ops \in Seq(Steps) : GoOn(t, ops, rest) => Does(t, ops),
         todo[t] # <<>> => ~IsReturn(Head(todo[t]))
  PROVE  ChunkInv'
  <1>1. Types
    BY DEF ArbiterInv
  <1>2. PICK q \in Seq(Messages) :
           channel' = channel \o q /\ \A m \in ToSet(q) : m.type # "CommitData"
    BY BindImplSends
  <1>3. PICK ops \in Seq(Steps) : GoOn(t, ops, rest) /\ \A x \in ToSet(ops) : x.op = "Flush"
    BY <1>1, BindImplEffect
  <1>4. Does(t, ops) /\ \A x \in ToSet(ops) : ~IsReturn(x) /\ x.op # "Scrape"
    BY <1>3 DEF IsReturn
  <1>5. UNCHANGED <<setup, commit_data_req_, service, chunk, check_failed, writer>>
    BY DEF batch, memory
  <1> QED BY <1>2, <1>4, <1>5, ControlStep

\* An abort resolves the reservation, or is passed on to the IPC thread.
LEMMA AbortLockedKeepsChunks ==
  ASSUME ArbiterInv, ChunkInv, NEW t \in Threads, NEW r \in Reservations, NEW rest,
         AbortLocked(t, r, rest), UNCHANGED setup,
         \A ops \in Seq(Steps) : GoOn(t, ops, rest) => Does(t, ops),
         todo[t] # <<>> => ~IsReturn(Head(todo[t]))
  PROVE  ChunkInv'
  <1>1. UNCHANGED <<setup, batch, memory, service>>
    BY DEF AbortLocked
  <1>2. CASE endpoint /\ t # IPC
    <2>1. PICK post : post = PostTask(AbortCall(r))
      OBVIOUS
    <2>2. post \in Steps /\ ~IsReturn(post) /\ post.op # "Scrape"
      BY <2>1, StepsAreTyped, CallKinds
    <2>3. <<post>> \in Seq(Steps) /\ ToSet(<<post>>) = {post}
      BY <2>2, SetOfShort
    <2>4. GoOn(t, <<post>>, rest) /\ UNCHANGED channel
      BY <1>2, <2>1 DEF AbortLocked
    <2>5. Does(t, <<post>>)
      BY <2>3, <2>4
    <2>6. \A w \in Writers : /\ writer'[w].chunks = writer[w].chunks
                             /\ writer'[w].id = writer[w].id /\ writer'[w].open = writer[w].open
      BY <1>1 DEF memory
    <2>7. UNCHANGED <<setup, commit_data_req_, channel, service, chunk, check_failed>>
      BY <1>1, <2>4 DEF batch, memory
    <2> QED BY <2>2, <2>3, <2>5, <2>6, <2>7, QuietCall
  <1>3. CASE ~(endpoint /\ t # IPC)
    <2>1. BindStartupTargetBufferImpl(t, r, kInvalidBufferId, rest) /\ kInvalidBufferId \in Nat
          /\ (t = IPC \/ ~endpoint)
      BY <1>3 DEF AbortLocked, kInvalidBufferId
    <2> HIDE DEF kInvalidBufferId
    <2> QED BY <1>1, <2>1, BindImplKeepsChunks
  <1> QED BY <1>2, <1>3

\* The three ways in which a reservation is resolved: on the IPC thread, by a
\* thread that aborts, and by a task.
LEMMA ResolvingKeepsChunks ==
  ASSUME ArbiterInv, ChunkInv, UNCHANGED setup
  PROVE  /\ \A r \in Reservations, b \in Buffers : BindStartupTargetBuffer(r, b) => ChunkInv'
         /\ \A t \in Threads : AbortStartupTracingForReservation(t) => ChunkInv'
         /\ \A r \in Reservations : Idle(IPC) /\ AbortLocked(IPC, r, <<>>) => ChunkInv'
  <1>1. Types /\ IPC \in Threads
    BY DEF ArbiterInv, Threads
  <1>2. ASSUME Idle(IPC)
        PROVE  todo[IPC] = <<>> /\ \A ops \in Seq(Steps) : GoOn(IPC, ops, <<>>) => Does(IPC, ops)
    BY <1>1, <1>2 DEF GoOn, Does, Rest, Idle
  <1>3. ASSUME NEW r \in Reservations, NEW b \in Buffers, BindStartupTargetBuffer(r, b)
        PROVE  ChunkInv'
    <2>1. /\ Idle(IPC) /\ BindStartupTargetBufferImpl(IPC, r, b, <<>>) /\ b \in Nat
          /\ UNCHANGED <<setup, batch, memory, service>>
      BY <1>3, ArbiterAssumption DEF BindStartupTargetBuffer
    <2> QED BY <1>1, <1>2, <2>1, BindImplKeepsChunks
  <1>4. ASSUME NEW t \in Threads, AbortStartupTracingForReservation(t)
        PROVE  ChunkInv'
    <2>1. PICK op : op = Head(todo[t])
      OBVIOUS
    <2>2. /\ todo[t] # <<>> /\ op.op = "Abort" /\ AbortLocked(t, op.reservation, Tail(todo[t]))
      BY <1>4, <2>1 DEF AbortStartupTracingForReservation, Doing
    <2>3. op.reservation \in Reservations /\ ~IsReturn(op)
      BY <1>1, <2>1, <2>2, NextOp, StepFields DEF IsReturn
    <2>4. \A ops \in Seq(Steps) : GoOn(t, ops, Tail(todo[t])) => Does(t, ops)
      BY <1>1, <2>2, NextOp
    <2> QED BY <2>1, <2>2, <2>3, <2>4, AbortLockedKeepsChunks
  <1>5. ASSUME NEW r \in Reservations, Idle(IPC), AbortLocked(IPC, r, <<>>)
        PROVE  ChunkInv'
    BY <1>1, <1>2, <1>5, AbortLockedKeepsChunks
  <1> QED BY <1>3, <1>4, <1>5

\* The arbiter is bound to its endpoint.
LEMMA BindToProducerEndpointKeepsChunks ==
  ASSUME ArbiterInv, ChunkInv, BindToProducerEndpoint, UNCHANGED setup
  PROVE  ChunkInv'
  <1> DEFINE bound == UpdateFullyBound(TRUE, target_buffer_reservations_)
  <1>1. Types /\ IPC \in Threads
    BY DEF ArbiterInv, Threads
  <1>2. /\ Idle(IPC) /\ todo' = [todo EXCEPT ![IPC] = FlushAfterBinding(bound)]
        /\ UNCHANGED <<setup, commit_data_req_, channel, service, chunk, check_failed, writer>>
    BY DEF BindToProducerEndpoint, batch, memory, port
  <1>3. PICK call : call = FlushCall(pending_flush_callbacks_)
    OBVIOUS
  <1>4. PICK ops : ops = IF bound THEN <<call>> ELSE <<>>
    OBVIOUS
  <1>5. ops \in Seq(Steps) /\ \A x \in ToSet(ops) : ~IsReturn(x) /\ x.op # "Scrape"
    <2> HIDE DEF bound
    <2>1. call \in Steps /\ ~IsReturn(call) /\ call.op # "Scrape"
      BY <1>1, <1>3, StepsAreTyped, CallKinds DEF Types
    <2> QED BY <1>4, <2>1, SetOfShort, EmptySeq
  <1>6. Does(IPC, ops) /\ todo[IPC] = <<>>
    <2>1. ops = FlushAfterBinding(bound)
      BY <1>3, <1>4 DEF FlushAfterBinding
    <2> HIDE DEF bound
    <2> QED BY <1>1, <1>2, <1>5, <2>1, IdleDoes DEF Idle
  <1> QED BY <1>2, <1>5, <1>6, QuietCall

\* A flush reply joins the request, or makes one; then the IPC thread may scrape.
LEMMA NotifyFlushCompleteKeepsChunks ==
  ASSUME ArbiterInv, ChunkInv, NEW id \in FlushIDs, NotifyFlushComplete(id), UNCHANGED setup
  PROVE  ChunkInv'
  <1> DEFINE create == commit_data_req_ = None
  <1>1. Types /\ IPC \in Threads /\ id \in Nat /\ commit_data_req_ \in Requests \cup {None}
    BY ArbiterAssumption DEF ArbiterInv, Threads, ChunkInv, DataTypes
  <1>2. PICK post : post = PostTask(FlushCall({}))
    OBVIOUS
  <1>3. PICK scrape : scrape = [op |-> "Scrape"]
    OBVIOUS
  <1>4. PICK a : a = IF create /\ fully_bound_ THEN <<post>> ELSE <<>>
    OBVIOUS
  <1>5. PICK b : b = IF Scraping THEN <<scrape>> ELSE <<>>
    OBVIOUS
  <1>6. PICK req : req = IF create THEN EmptyReq ELSE commit_data_req_
    OBVIOUS
  <1>7. /\ Idle(IPC) /\ todo' = [todo EXCEPT ![IPC] = a \o b]
        /\ commit_data_req_' = [req EXCEPT !.flush_request_id = IF id > @ THEN id ELSE @]
        /\ UNCHANGED <<setup, channel, service, chunk, check_failed, writer>>
    BY <1>2, <1>3, <1>4, <1>5, <1>6 DEF NotifyFlushComplete, memory, port
  <1>8. a \in Seq(Steps) /\ \A x \in ToSet(a) : ~IsReturn(x) /\ x.op # "Scrape"
    <2>1. post \in Steps /\ ~IsReturn(post) /\ post.op # "Scrape"
      BY <1>2, StepsAreTyped, CallKinds
    <2> QED BY <1>4, <2>1, SetOfShort, EmptySeq
  <1>9. b \in Seq(Steps) /\ \A x \in ToSet(b) : ~IsReturn(x) /\ Scraping
    <2>1. scrape \in Steps /\ ~IsReturn(scrape)
      BY <1>3, StepsAreTyped DEF IsReturn
    <2> QED BY <1>5, <2>1, SetOfShort, EmptySeq
  <1>10. PICK ops : ops = a \o b
    OBVIOUS
  <1>11. ops \in Seq(Steps) /\ ToSet(ops) = ToSet(a) \cup ToSet(b)
    BY <1>8, <1>9, <1>10, SetOfCat
  <1>12. Does(IPC, ops) /\ todo[IPC] = <<>>
    BY <1>1, <1>7, <1>10, <1>11, IdleDoes DEF Idle
  <1>13. /\ req \in Requests /\ LeasesOf(req.chunks) = Requested
         /\ OrderInv => Ascending(req.chunks)
    <2>1. CASE create
      <3>1. EmptyReq \in Requests /\ EmptyReq.chunks = <<>>
        BY EmptySeq DEF EmptyReq, Requests
      <3> QED BY <1>6, <2>1, <3>1, LeasesOfShort DEF Requested
    <2>2. CASE ~create
      BY <1>1, <1>6, <2>2 DEF Requested, OrderInv
    <2> QED BY <2>1, <2>2
  <1>14. /\ commit_data_req_' \in Requests /\ commit_data_req_' # None
         /\ commit_data_req_'.chunks = req.chunks
    <2>1. commit_data_req_' \in Requests /\ commit_data_req_'.chunks = req.chunks
      BY <1>1, <1>7, <1>13 DEF Requests
    <2> QED BY <2>1, NoneAssumption
  <1>15. Requested' = Requested
    BY <1>13, <1>14 DEF Requested, LeasesOf
  <1>16. OrderInv => Ascending(commit_data_req_.chunks)'
    BY <1>13, <1>14 DEF Ascending
  <1>17. /\ Open' = Open /\ InChannel' = InChannel /\ channel' \in Seq(Messages)
         /\ OrderInv => InOrder(channel)'
    BY <1>7 DEF Open, InChannel, ChunksInAll, OrderInv, ChunkInv, DataTypes
  <1>18. \A x \in ToSet(ops) : ~IsReturn(x) /\ (x.op = "Scrape" => Scraping)
    BY <1>8, <1>9, <1>11
  <1>19. ReturnedByAll(ops) = {}
    BY <1>18, ReturnsOfShort
  <1>20. \A w \in Writers : writer'[w] = writer[w] /\ writer'[w].id <= kMaxWriterID
    BY <1>7 DEF ChunkInv, DataTypes
  <1> QED BY <1>7, <1>12, <1>14, <1>15, <1>16, <1>17, <1>18, <1>19, <1>20, PlacesStay

-----------------------------------------------------------------------------
(***************************************************************************)
(* A writer gets a new chunk.                                              *)
(***************************************************************************)
\* The chunks that writers had are chunks of writers, numbered from 1.
LEMMA LeasesAreTyped ==
  ASSUME Types
  PROVE  /\ \A w, k : <<w, k>> \in Leases <=>
                         w \in DOMAIN setup.chunks /\ k \in 1 .. setup.chunks[w]
         /\ \A l \in Leases : /\ l = <<l[1], l[2]>> /\ l[1] \in DOMAIN setup.chunks
                              /\ l[1] \in Writers /\ l[2] \in Nat \ {0}
         /\ Leases \subseteq Writers \X Nat
  <1>1. \A w \in DOMAIN setup.chunks : w \in Writers /\ setup.chunks[w] \in Nat
    BY SetupIsTyped
  <1>2. \A w, k : <<w, k>> \in Leases <=> w \in DOMAIN setup.chunks /\ k \in 1 .. setup.chunks[w]
    BY DEF Leases, ChunksOf
  <1>3. ASSUME NEW l \in Leases
        PROVE  \E w \in DOMAIN setup.chunks : \E k \in 1 .. setup.chunks[w] : l = <<w, k>>
    BY <1>3 DEF Leases, ChunksOf
  <1>4. \A l \in Leases : /\ l = <<l[1], l[2]>> /\ l[1] \in DOMAIN setup.chunks
                          /\ l[1] \in Writers /\ l[2] \in Nat \ {0}
    BY <1>1, <1>3
  <1> QED BY <1>2, <1>4

\* GetNewBuffer: the new chunk comes after all others of its writer.
LEMMA GetNewBufferKeepsChunks ==
  ASSUME ArbiterInv, ChunkInv, NEW t \in Threads, NEW w \in DOMAIN setup.chunks,
         NEW np \in 0 .. setup.patches, NEW sync \in BOOLEAN, GetNewBuffer(t, w, np, sync),
         UNCHANGED setup
  PROVE  ChunkInv'
  <1> DEFINE k == writer[w].open
             next == writer[w].chunks + 1
             new == <<w, next>>
  <1>1. /\ Types /\ DataTypes /\ LocationInv /\ QueuesFit /\ (~Scraping => OrderInv)
        /\ w \in Writers /\ setup.chunks[w] \in Nat
    BY SetupIsTyped DEF ArbiterInv, ChunkInv, LocationInv
  <1>2. k \in Nat /\ writer[w].chunks \in Nat
    BY <1>1, WriterIsTyped
  <1>3. PICK flush : flush = FlushCall({})
    OBVIOUS
  <1>4. PICK a : a = IF sync THEN <<flush>> ELSE <<>>
    OBVIOUS
  <1>5. PICK b : b = ReturnOpenChunk(w)
    OBVIOUS
  <1>6. PICK ops : ops = a \o b
    OBVIOUS
  <1>7. /\ Idle(t) /\ Home[w] = t /\ next <= setup.chunks[w] /\ (k = 0 => np = 0)
        /\ chunk' = [Annotated(w, np) EXCEPT ![new] = [@ EXCEPT !.state = "kChunkBeingWritten"]]
        /\ todo' = [todo EXCEPT ![t] = ops]
        /\ UNCHANGED <<setup, commit_data_req_, channel, service, check_failed>>
    BY <1>3, <1>4, <1>5, <1>6
       DEF GetNewBuffer, Owns, ReturnOpenChunk, arbiter, batch, port
  <1>8. /\ writer'[w].chunks = next /\ writer'[w].open = next
        /\ \A v \in Writers \ {w} : writer'[v] = writer[v]
        /\ \A v \in Writers : writer'[v].id = writer[v].id
    <2>1. PICK list : list = writer[w].patch_list \o NewPatches(k, np)
      OBVIOUS
    <2>2. writer' = [writer EXCEPT ![w].chunks = next, ![w].open = next, ![w].patch_list = list]
      BY <2>1 DEF GetNewBuffer
    <2> QED BY <1>1, <2>2 DEF Types, TraceWriters
  <1> DEFINE closed == IF k = 0 THEN {} ELSE {<<w, k>>}
  <1>9. a \in Seq(Steps) /\ \A op \in ToSet(a) : ~IsReturn(op) /\ op.op # "Scrape"
    <2>1. flush \in Steps /\ ~IsReturn(flush) /\ flush.op # "Scrape"
      BY <1>3, StepsAreTyped, CallKinds
    <2> QED BY <1>4, <2>1, SetOfShort, EmptySeq
  <1>10. /\ b \in Seq(Steps) /\ ReturnOnce(b)
         /\ ReturnedByAll(b) = closed
         /\ \A op \in ToSet(b) : IsReturn(op) /\ op.w = w /\ op.op # "Scrape"
    BY <1>1, <1>5, ReturnOpenChunkDoes
  <1>11. /\ ops \in Seq(Steps) /\ ReturnOnce(ops)
         /\ ReturnedByAll(ops) = closed
         /\ \A op \in ToSet(ops) : (IsReturn(op) => op.w = w) /\ op.op # "Scrape"
    <2>1. ReturnOnce(a) /\ ReturnedByAll(a) = {}
      BY <1>9, ReturnsOfShort DEF ReturnOnce, ToSet
    <2>2. /\ ops \in Seq(Steps) /\ ToSet(ops) = ToSet(a) \cup ToSet(b)
          /\ ReturnedByAll(ops) = ReturnedByAll(a) \cup ReturnedByAll(b)
      BY <1>6, <1>9, <1>10, SetOfCat, ReturnsOfCat
    <2>3. ReturnOnce(ops)
      BY <1>6, <1>9, <1>10, <2>1, ReturnOnceCat
    <2>4. ReturnedByAll(ops) = ReturnedByAll(b)
      BY <2>1, <2>2
    <2> QED BY <1>9, <1>10, <2>2, <2>3, <2>4
  <1>12. Does(t, ops) /\ todo[t] = <<>>
    BY <1>1, <1>7, <1>11, IdleDoes DEF Idle
  <1>13. /\ Scraping' = Scraping /\ mode' = mode /\ Leases' = Leases
         /\ InChannel' = InChannel /\ Requested' = Requested /\ Arrived' = Arrived
    BY <1>7 DEF Scraping, mode, Leases, ChunksOf, InChannel, ChunksInAll, Requested, Arrived
  <1>14. Sent' = Sent /\ Pipeline' = Pipeline
    BY <1>13 DEF Sent, Pipeline
  <1>15. new \in Leases /\ next \in Nat \ {0}
    BY <1>1, <1>2, <1>7, LeasesAreTyped
  <1>16. Acquired' = Acquired \cup {new}
    <2>1. \A l \in Leases : /\ l = <<l[1], l[2]>> /\ l[1] \in Writers /\ l[2] \in Nat
      BY <1>1, LeasesAreTyped
    <2>2. ASSUME NEW l \in Leases
          PROVE  l[2] <= writer'[l[1]].chunks <=> l[2] <= writer[l[1]].chunks \/ l = new
      <3>1. CASE l[1] # w
        BY <1>8, <2>1, <3>1
      <3>2. CASE l[1] = w
        <4>1. l[2] <= next <=> l[2] <= writer[w].chunks \/ l[2] = next
          BY <1>2, <2>1
        <4>2. l = new <=> l[2] = next
          BY <2>1, <3>2
        <4> QED BY <1>8, <3>2, <4>1, <4>2
      <3> QED BY <3>1, <3>2
    <2> QED BY <1>13, <1>15, <2>2 DEF Acquired
  <1>17. \A l \in Acquired : l \in Writers \X Nat /\ (l[1] = w => l[2] < next) /\ l # new
    <2>1. ASSUME NEW l \in Acquired PROVE l \in Writers \X Nat /\ (l[1] = w => l[2] < next)
      BY <1>1, <1>2, LeasesAreTyped DEF Acquired
    <2>2. ~(next < next) /\ new[1] = w /\ new[2] = next
      BY <1>2
    <2> QED BY <2>1, <2>2
  <1>18. Returning' = Returning \cup closed
    <2>1. /\ Returning' = ReturnedByAll(ops) \cup ReturnedByAll(Rest(t)) \cup ReturnedByOthers(t)
          /\ Returning = ReturnedByAll(Rest(t)) \cup ReturnedByOthers(t)
      BY <1>1, <1>12, ReturningEffect
    <2> QED BY <1>11, <2>1
  <1>19. Open' = (Open \ closed) \cup {new}
    <2>1. next # 0
      BY <1>15
    <2>2. ASSUME NEW l \in Open' PROVE l \in (Open \ closed) \cup {new}
      BY <1>8, <2>2 DEF Open
    <2>3. ASSUME NEW l \in (Open \ closed) \cup {new} PROVE l \in Open'
      <3>1. CASE l = new
        BY <1>1, <1>8, <2>1, <3>1 DEF Open
      <3>2. CASE l # new
        <4>1. PICK v \in Writers : writer[v].open # 0 /\ l = <<v, writer[v].open>>
          BY <2>3, <3>2 DEF Open
        <4>2. v # w
          BY <2>3, <3>2, <4>1
        <4> QED BY <1>8, <4>1, <4>2 DEF Open
      <3> QED BY <3>1, <3>2
    <2> QED BY <2>2, <2>3
  <1>20. InHand' = InHand \cup {new}
    <2>1. closed \subseteq Open
      BY <1>1 DEF Open
    <2> QED BY <1>18, <1>19, <2>1 DEF InHand
  <1>21. /\ DOMAIN chunk' = Leases
         /\ \A l \in Leases : /\ DOMAIN chunk'[l] = {"state", "needs_patching", "missing"}
                              /\ chunk'[l].state = IF l = new THEN "kChunkBeingWritten" ELSE chunk[l].state
    <2>1. PICK c : c = Annotated(w, np)
      OBVIOUS
    <2>2. /\ DOMAIN c = Leases
          /\ \A l \in Leases : /\ DOMAIN c[l] = {"state", "needs_patching", "missing"}
                               /\ c[l].state = chunk[l].state
      <3>1. CASE np = 0
        BY <1>1, <2>1, <3>1 DEF Annotated, DataTypes
      <3>2. CASE np # 0
        <4>1. PICK old : old = <<w, k>>
          OBVIOUS
        <4>2. c = [chunk EXCEPT ![old] = [@ EXCEPT !.needs_patching = TRUE, !.missing = np]]
          BY <2>1, <3>2, <4>1 DEF Annotated
        <4> QED BY <1>1, <4>2 DEF DataTypes
      <3> QED BY <3>1, <3>2
    <2>3. chunk' = [c EXCEPT ![new] = [@ EXCEPT !.state = "kChunkBeingWritten"]]
      BY <1>7, <2>1
    <2> HIDE DEF new
    <2> QED BY <2>2, <2>3
  <1>22. DataTypes'
    <2>1. \A v \in Writers : writer'[v].id <= kMaxWriterID
      BY <1>1, <1>8 DEF DataTypes
    <2>2. \A v \in Writers :
             writer'[v].chunks <= IF v \in DOMAIN setup.chunks THEN setup.chunks[v] ELSE 0
      BY <1>1, <1>7, <1>8 DEF DataTypes
    <2> QED BY <1>1, <1>7, <1>13, <1>21, <2>1, <2>2 DEF DataTypes
  <1>23. QueuesFit'
    BY <1>1, <1>7, <1>11, <1>12, QueuesStayFit DEF MayReturn
  <1> HIDE DEF new
  <1>24. LocationInv'
    <2>1. Pipeline' \cup InHand' \subseteq Acquired'
      BY <1>1, <1>14, <1>16, <1>20 DEF LocationInv
    <2>2. \A v \in Writers : writer'[v].open # 0 => writer'[v].open = writer'[v].chunks
      BY <1>1, <1>8 DEF LocationInv
    <2>3. ASSUME ~check_failed, NEW l \in Acquired' \ Pipeline'
          PROVE  l \in InHand' /\ chunk'[l].state = "kChunkBeingWritten"
      <3>1. CASE l = new
        BY <1>15, <1>20, <1>21, <3>1
      <3>2. CASE l # new
        <4>1. l \in Acquired \ Pipeline /\ l \in Leases
          BY <1>14, <1>16, <2>3, <3>2 DEF Acquired
        <4> QED BY <1>1, <1>20, <1>21, <2>3, <3>2, <4>1 DEF LocationInv
      <3> QED BY <3>1, <3>2
    <2>4. \A l \in Leases' \ Acquired' : chunk'[l].state = "kChunkFree"
      BY <1>1, <1>13, <1>16, <1>21 DEF LocationInv
    <2> QED BY <1>1, <1>7, <1>23, <2>1, <2>2, <2>3, <2>4 DEF LocationInv
  <1>25. ASSUME OrderInv PROVE OrderInv'
    <2>1. Pipeline \cup InHand \subseteq Acquired /\ new[1] = w /\ new[2] = next
      BY <1>1 DEF LocationInv, new
    <2>2. Before(Pipeline', InHand')
      <3>1. Before(Pipeline, {new})
        BY <1>17, <2>1 DEF Before
      <3> QED BY <1>14, <1>20, <1>25, <3>1, BeforeUnions DEF OrderInv
    <2>3. Before(Returning', Open')
      <3>1. Returning' \cup Open \subseteq Acquired
        <4>1. closed \subseteq Open
          BY <1>1 DEF Open
        <4> QED BY <1>18, <2>1, <4>1 DEF InHand
      <3>2. Before(Returning', {new})
        BY <1>17, <2>1, <3>1 DEF Before
      <3>3. Before(Returning', Open \ closed)
        <4>1. closed \subseteq Open
          BY <1>1 DEF Open
        <4> HIDE DEF closed
        <4>2. Before(Returning, Open \ closed)
          BY <1>25, BeforeIsMonotone DEF OrderInv
        <4>3. Before(closed, Open \ closed)
          BY <4>1, OpenOnce DEF Before
        <4> QED BY <1>18, <4>2, <4>3, BeforeUnions
      <3> HIDE DEF closed
      <3> QED BY <1>19, <3>2, <3>3, BeforeUnions
    <2>4. \A l \in InHand' : chunk'[l].state = "kChunkBeingWritten"
      BY <1>15, <1>20, <1>21, <1>25, <2>1 DEF OrderInv, Acquired
    <2>5. \A l \in Requested' \cup InChannel' : chunk'[l].state = chunk[l].state
      <3>1. Requested \cup InChannel \subseteq Acquired
        BY <2>1 DEF Pipeline, Sent
      <3> QED BY <1>13, <1>17, <1>21, <3>1 DEF Acquired
    <2> QED BY <1>7, <1>13, <1>14, <1>25, <2>2, <2>3, <2>4, <2>5 DEF OrderInv
  <1> QED BY <1>1, <1>13, <1>22, <1>24, <1>25 DEF ChunkInv

-----------------------------------------------------------------------------
(***************************************************************************)
(* UpdateCommitDataRequest.                                                *)
(***************************************************************************)
\* The request that a returned chunk joins.
Collecting == IF commit_data_req_ = None THEN EmptyReq ELSE commit_data_req_

LEMMA CollectingIsRequested ==
  ASSUME DataTypes
  PROVE  /\ Collecting \in Requests /\ Collecting.chunks \in Seq(Entries)
         /\ LeasesOf(Collecting.chunks) = Requested
         /\ OrderInv => Ascending(Collecting.chunks)
  <1>1. CASE commit_data_req_ = None
    <2>1. EmptyReq \in Requests /\ EmptyReq.chunks = <<>>
      BY EmptySeq DEF EmptyReq, Requests
    <2> QED BY <1>1, <2>1, LeasesOfShort, EmptySeq DEF Collecting, Requested
  <1>2. CASE commit_data_req_ # None
    <2>1. commit_data_req_ \in Requests
      BY <1>2 DEF DataTypes
    <2> QED BY <1>2, <2>1 DEF Collecting, Requested, OrderInv, Requests, Entries
  <1> QED BY <1>1, <1>2

\* What the call does to the request, to the chunks and to the queue of its thread.
LEMMA UpdateEffect ==
  ASSUME Types, DataTypes, NEW t \in Threads, UpdateCommitDataRequest(t),
         NEW op, op = Head(todo[t]), op.w \in DOMAIN setup.chunks
  PROVE  /\ commit_data_req_' \in Requests /\ commit_data_req_' # None
         /\ commit_data_req_'.chunks = WithChunk(Collecting, op.w, op.chunk).chunks
         /\ commit_data_req_'.flush_request_id = Collecting.flush_request_id
         /\ DOMAIN chunk' = Leases
         /\ \A l \in Leases :
               /\ DOMAIN chunk'[l] = {"state", "needs_patching", "missing"}
               /\ \/ chunk'[l].state = chunk[l].state
                  \/ /\ chunk'[l].state = "kChunkComplete"
                     /\ \/ l = <<op.w, op.chunk>>
                        \/ l \in LeasesOf(commit_data_req_'.chunks)
         /\ check_failed' = (check_failed \/
               (op.chunk # 0 /\ chunk[<<op.w, op.chunk>>].state # "kChunkBeingWritten"))
         /\ \A v \in Writers : /\ writer'[v].chunks = writer[v].chunks
                               /\ writer'[v].id = writer[v].id /\ writer'[v].open = writer[v].open
         /\ \E ops \in Seq(Steps) :
               /\ Does(t, ops)
               /\ \A x \in ToSet(ops) : x \in {FlushCall({}), PostFlush("immediate"), PostFlush("delayed")}
  <1> DEFINE w == Head(todo[t]).w
             k == Head(todo[t]).chunk
             list == writer[w].patch_list
             n == PatchedPrefix(list)
             rest == SubSeq(list, n + 1, Len(list))
             req == WithChunk(Collecting, w, k)
             ready(c) == Cardinality({j \in 1 .. n : list[j].chunk = c})
             more(c) == rest # <<>> /\ rest[1].chunk = c
             direct(l) == l[1] = w /\ ready(l[2]) > 0 /\ DirectlyPatchable(req, l)
             remote == Sorted({c \in ChunksOf(w) : ready(c) > 0 /\ ~direct(<<w, c>>)})
             patches == [i \in DOMAIN remote |->
                           [lease |-> <<w, remote[i]>>, target |-> writer[w].target,
                            count |-> ready(remote[i]), has_more |-> more(remote[i])]]
  <1>1. /\ todo[t] # <<>> /\ op.op = "UpdateCommitDataRequest"
        /\ w \in Writers /\ k \in Nat /\ setup.chunks[w] \in Nat
        /\ writer[w].target \in Targets
        /\ list \in Seq([chunk: Nat, patched: BOOLEAN])
    <2>1. todo[t] # <<>> /\ op.op = "UpdateCommitDataRequest"
      BY DEF UpdateCommitDataRequest, Doing
    <2>2. w \in Writers /\ k \in Nat
      BY <2>1, NextOp, StepFields
    <2> QED BY <2>1, <2>2, SetupIsTyped, WriterIsTyped
  <1>2. Collecting \in Requests
    BY CollectingIsRequested
  <1>3. /\ commit_data_req_' = [req EXCEPT !.patches = @ \o patches]
        /\ chunk' = [l \in Leases |->
              IF direct(l) THEN TryDirectPatchLocked(chunk[l], ready(l[2]), more(l[2]))
              ELSE IF l = <<w, k>> /\ ~StaysOpen(l) THEN ReleaseAsComplete(chunk[l])
              ELSE chunk[l]]
        /\ writer' = [writer EXCEPT ![w].patch_list = rest]
    <2>1. commit_data_req_' = [req EXCEPT !.patches = @ \o patches]
      BY Zenon DEF UpdateCommitDataRequest, Collecting
    <2>2. chunk' = [l \in Leases |->
              IF direct(l) THEN TryDirectPatchLocked(chunk[l], ready(l[2]), more(l[2]))
              ELSE IF l = <<w, k>> /\ ~StaysOpen(l) THEN ReleaseAsComplete(chunk[l])
              ELSE chunk[l]]
      BY DEF UpdateCommitDataRequest, Collecting
    <2>3. writer' = [writer EXCEPT ![w].patch_list = rest]
      BY DEF UpdateCommitDataRequest, Collecting
    <2> QED BY <2>1, <2>2, <2>3
  <1>4. check_failed' = (check_failed \/ (k # 0 /\ chunk[<<w, k>>].state # "kChunkBeingWritten"))
    BY DEF UpdateCommitDataRequest
  <1>5. req \in Requests /\ req.flush_request_id = Collecting.flush_request_id
    <2>1. CASE k = 0
      BY <1>2, <2>1 DEF WithChunk
    <2>2. CASE k # 0
      <3>1. PICK e : e = [lease |-> <<w, k>>, target |-> writer[w].target, scraped |-> FALSE]
        OBVIOUS
      <3>2. req = [Collecting EXCEPT !.chunks = Append(@, e)]
        BY <2>2, <3>1 DEF WithChunk
      <3>3. e \in Entries
        BY <1>1, <3>1 DEF Entries
      <3>4. Append(Collecting.chunks, e) \in Seq(Entries)
        BY <3>3, CollectingIsRequested, AppendProperties
      <3> QED BY <1>2, <3>2, <3>4 DEF Requests, Entries
    <2> QED BY <2>1, <2>2
  <1>6. /\ commit_data_req_' \in Requests
        /\ commit_data_req_'.chunks = req.chunks
        /\ commit_data_req_'.flush_request_id = req.flush_request_id
    <2>1. patches \in Seq([lease: Writers \X Nat, target: Targets, count: Nat, has_more: BOOLEAN])
      <3>1. n \in Nat /\ IsFiniteSet(1 .. n)
        <4>1. n \in 0 .. Len(list) /\ Len(list) \in Nat
          BY <1>1, PatchedPrefixIsPrefix, LenProperties
        <4> QED BY <4>1, FS_Interval
      <3>2. ASSUME NEW c PROVE ready(c) \in Nat
        <4>1. {j \in 1 .. n : list[j].chunk = c} \in SUBSET (1 .. n)
          OBVIOUS
        <4> QED BY <3>1, <4>1, FS_Subset, FS_CardinalityType
      <3>3. PICK S : S = {c \in ChunksOf(w) : ready(c) > 0 /\ ~direct(<<w, c>>)}
        OBVIOUS
      <3>4. S \subseteq Nat /\ IsFiniteSet(S)
        <4>1. S \in SUBSET ChunksOf(w)
          <5> HIDE DEF ready, direct, w
          <5>1. \A x \in S : x \in ChunksOf(w)
            BY <3>3
          <5> QED BY <5>1
        <4>2. IsFiniteSet(ChunksOf(w)) /\ ChunksOf(w) \subseteq Nat
          <5>1. PICK m \in Nat : m = setup.chunks[w]
            BY <1>1
          <5>2. ChunksOf(w) = 1 .. m
            BY <5>1 DEF ChunksOf
          <5>3. IsFiniteSet(1 .. m) /\ 1 .. m \subseteq Nat
            BY FS_Interval
          <5> QED BY <5>2, <5>3
        <4> HIDE DEF w
        <4> QED BY <4>1, <4>2, FS_Subset
      <3>5. /\ Sorted(S) \in Seq(S) /\ Cardinality(S) \in Nat
            /\ DOMAIN Sorted(S) = 1 .. Cardinality(S)
        BY <3>4, SortedIsSound
      <3>6. \A i \in 1 .. Cardinality(S) : Sorted(S)[i] \in Nat
        BY <3>4, <3>5, ElementOfSeq, LenProperties
      <3>7. remote = Sorted(S)
        BY <3>3
      <3> HIDE DEF remote
      <3>8. \A c \in Nat : [lease |-> <<w, c>>, target |-> writer[w].target,
                            count |-> ready(c), has_more |-> more(c)]
                \in [lease: Writers \X Nat, target: Targets, count: Nat, has_more: BOOLEAN]
        <4>1. \A c : more(c) \in BOOLEAN
          OBVIOUS
        <4> HIDE DEF ready, more, w
        <4> QED BY <1>1, <3>2, <4>1 DEF w
      <3> HIDE DEF ready, more
      <3>9. PICK m \in Nat : DOMAIN remote = 1 .. m /\ \A i \in 1 .. m : remote[i] \in Nat
        BY <3>5, <3>6, <3>7
      <3>10. \A i \in 1 .. m :
               [lease |-> <<w, remote[i]>>, target |-> writer[w].target,
                count |-> ready(remote[i]), has_more |-> more(remote[i])]
                  \in [lease: Writers \X Nat, target: Targets, count: Nat, has_more: BOOLEAN]
        BY <3>8, <3>9
      <3> QED BY <3>9, <3>10, IsASeq
    <2>2. PICK p : p = patches
      OBVIOUS
    <2>3. commit_data_req_' = [req EXCEPT !.patches = @ \o p]
      BY <1>3, <2>2
    <2>4. req.patches \o p
             \in Seq([lease: Writers \X Nat, target: Targets, count: Nat, has_more: BOOLEAN])
      BY <1>5, <2>1, <2>2, ConcatProperties DEF Requests
    <2> HIDE DEF req
    <2> QED BY <1>5, <2>3, <2>4 DEF Requests
  <1>7. ASSUME NEW l \in Leases
        PROVE  /\ DOMAIN chunk'[l] = {"state", "needs_patching", "missing"}
               /\ \/ chunk'[l].state = chunk[l].state
                  \/ /\ chunk'[l].state = "kChunkComplete"
                     /\ l = <<w, k>> \/ l \in LeasesOf(req.chunks)
    <2>1. DOMAIN chunk[l] = {"state", "needs_patching", "missing"}
      BY DEF DataTypes
    <2>2. CASE direct(l)
      <3>1. chunk'[l] = TryDirectPatchLocked(chunk[l], ready(l[2]), more(l[2]))
        BY <1>3, <2>2
      <3>2. /\ DOMAIN chunk'[l] = {"state", "needs_patching", "missing"}
            /\ chunk'[l].state \in {chunk[l].state, "kChunkComplete"}
        <4> HIDE DEF ready, more
        <4> QED BY <3>1 DEF TryDirectPatchLocked
      <3>3. l \in LeasesOf(req.chunks)
        <4>1. DirectlyPatchable(req, l)
          BY <2>2
        <4> HIDE DEF req
        <4> QED BY <4>1 DEF DirectlyPatchable, LeasesOf, ToSet
      <3> QED BY <3>2, <3>3
    <2>3. CASE ~direct(l)
      <3>1. chunk'[l] = IF l = <<w, k>> /\ ~StaysOpen(l) THEN ReleaseAsComplete(chunk[l]) ELSE chunk[l]
        BY <1>3, <2>3
      <3> QED BY <2>1, <3>1 DEF ReleaseAsComplete
    <2> QED BY <2>2, <2>3
  <1>8. \A v \in Writers : /\ writer'[v].chunks = writer[v].chunks
                           /\ writer'[v].id = writer[v].id /\ writer'[v].open = writer[v].open
    <2>1. PICK r : r = rest
      OBVIOUS
    <2>2. writer' = [writer EXCEPT ![w].patch_list = r]
      BY <1>3, <2>1
    <2> QED BY <1>1, <2>2 DEF Types, TraceWriters
  <1>9. \E ops \in Seq(Steps) :
               /\ Does(t, ops)
               /\ \A x \in ToSet(ops) : x \in {FlushCall({}), PostFlush("immediate"), PostFlush("delayed")}
    <2>1. \E x \in {FlushCall({}), PostFlush("immediate"), PostFlush("delayed")} :
             Then(t, <<x>>) \/ Then(t, <<>>)
      BY DEF UpdateCommitDataRequest
    <2>2. PICK x \in {FlushCall({}), PostFlush("immediate"), PostFlush("delayed")} :
             Then(t, <<x>>) \/ Then(t, <<>>)
      BY <2>1
    <2>3. x \in Steps /\ <<x>> \in Seq(Steps) /\ ToSet(<<x>>) = {x}
          /\ <<>> \in Seq(Steps) /\ ToSet(<<>>) = {}
      <3>1. x \in Steps
        BY StepsAreTyped
      <3> QED BY <3>1, SetOfShort, EmptySeq
    <2>4. Does(t, <<x>>) \/ Does(t, <<>>)
      BY <1>1, <2>2, <2>3, NextOp
    <2> QED BY <2>3, <2>4
  <1>10. DOMAIN chunk' = Leases
    BY <1>3
  <1> HIDE DEF req
  <1> QED BY <1>4, <1>5, <1>6, <1>7, <1>8, <1>9, <1>10, NoneAssumption DEF req

\* The request with the chunk that the call returns.
LEMMA WithChunkAdds ==
  ASSUME Types, DataTypes, NEW w \in Writers, NEW k \in Nat
  PROVE  /\ WithChunk(Collecting, w, k).chunks \in Seq(Entries)
         /\ LeasesOf(WithChunk(Collecting, w, k).chunks)
               = Requested \cup (IF k = 0 THEN {} ELSE {<<w, k>>})
         /\ OrderInv /\ (k # 0 => Before(Requested, {<<w, k>>}))
               => Ascending(WithChunk(Collecting, w, k).chunks)
  <1>1. /\ Collecting \in Requests /\ Collecting.chunks \in Seq(Entries)
        /\ LeasesOf(Collecting.chunks) = Requested
        /\ OrderInv => Ascending(Collecting.chunks)
    BY CollectingIsRequested
  <1>2. CASE k = 0
    <2>1. WithChunk(Collecting, w, k) = Collecting
      BY <1>2 DEF WithChunk
    <2> QED BY <1>1, <1>2, <2>1
  <1>3. CASE k # 0
    <2>1. PICK e : e = [lease |-> <<w, k>>, target |-> writer[w].target, scraped |-> FALSE]
      OBVIOUS
    <2>2. e \in Entries /\ e.lease = <<w, k>>
      BY <2>1, WriterIsTyped DEF Entries
    <2>3. WithChunk(Collecting, w, k).chunks = Append(Collecting.chunks, e)
      BY <1>1, <1>3, <2>1 DEF WithChunk, Requests
    <2>4. PICK s : s = <<e>>
      OBVIOUS
    <2>5. /\ Append(Collecting.chunks, e) = Collecting.chunks \o s
          /\ s \in Seq(Entries) /\ LeasesOf(s) = {<<w, k>>} /\ Ascending(s)
      <3>1. Append(Collecting.chunks, e) = Collecting.chunks \o s
        BY <1>1, <2>2, <2>4, AppendIsConcat
      <3>2. s \in Seq(Entries)
        BY <2>2, <2>4
      <3>3. LeasesOf(s) = {<<w, k>>} /\ Ascending(s)
        BY <2>2, <2>4, LeasesOfShort
      <3> QED BY <3>1, <3>2, <3>3
    <2>6. /\ Collecting.chunks \o s \in Seq(Entries)
          /\ LeasesOf(Collecting.chunks \o s) = Requested \cup {<<w, k>>}
          /\ OrderInv /\ Before(Requested, {<<w, k>>}) => Ascending(Collecting.chunks \o s)
      BY <1>1, <2>5, LeasesOfCat
    <2> QED BY <1>3, <2>3, <2>5, <2>6
  <1> QED BY <1>2, <1>3

\* A chunk is returned, or only patches are sent.
LEMMA UpdateCommitDataRequestKeepsChunks ==
  ASSUME ArbiterInv, ChunkInv, NEW t \in Threads, UpdateCommitDataRequest(t), UNCHANGED setup
  PROVE  ChunkInv'
  <1>1. /\ Types /\ DataTypes /\ LocationInv /\ QueuesFit /\ (~Scraping => OrderInv)
    BY DEF ArbiterInv, ChunkInv, LocationInv
  <1>2. PICK op : op = Head(todo[t])
    OBVIOUS
  <1>3. /\ todo[t] # <<>> /\ IsReturn(op) /\ op.op = "UpdateCommitDataRequest"
        /\ UNCHANGED <<channel, service>>
    BY <1>2 DEF UpdateCommitDataRequest, Doing, IsReturn, port
  <1>4. op \in Ops(t) /\ op.w \in Writers /\ op.chunk \in Nat
    BY <1>1, <1>2, <1>3, NextOp, StepFields
  <1>5. op.w \in DOMAIN setup.chunks /\ Home[op.w] = t
    BY <1>1, <1>3, <1>4 DEF QueuesFit, MayReturn
  <1>6. PICK w \in Writers, k \in Nat : w = op.w /\ k = op.chunk
    BY <1>4
  <1> DEFINE ret == IF k = 0 THEN {} ELSE {<<w, k>>}
  <1>7. ReturnedBy(op) = ret
    BY <1>3, <1>6 DEF ReturnedBy
  <1>8. PICK c : c = WithChunk(Collecting, w, k).chunks
    OBVIOUS
  <1>9. /\ c \in Seq(Entries) /\ LeasesOf(c) = Requested \cup ret
        /\ OrderInv /\ (k # 0 => Before(Requested, {<<w, k>>})) => Ascending(c)
    BY <1>1, <1>8, WithChunkAdds
  <1>10. /\ commit_data_req_' \in Requests /\ commit_data_req_' # None
         /\ commit_data_req_'.chunks = c
         /\ DOMAIN chunk' = Leases
         /\ \A l \in Leases :
               /\ DOMAIN chunk'[l] = {"state", "needs_patching", "missing"}
               /\ \/ chunk'[l].state = chunk[l].state
                  \/ /\ chunk'[l].state = "kChunkComplete"
                     /\ l = <<w, k>> \/ l \in LeasesOf(c)
         /\ check_failed' = (check_failed \/
               (k # 0 /\ chunk[<<w, k>>].state # "kChunkBeingWritten"))
         /\ \A v \in Writers : /\ writer'[v].chunks = writer[v].chunks
                               /\ writer'[v].id = writer[v].id /\ writer'[v].open = writer[v].open
         /\ \E ops \in Seq(Steps) :
               /\ Does(t, ops)
               /\ \A x \in ToSet(ops) : x \in {FlushCall({}), PostFlush("immediate"), PostFlush("delayed")}
    BY <1>1, <1>2, <1>5, <1>6, <1>8, UpdateEffect
  <1>11. PICK ops \in Seq(Steps) : Does(t, ops) /\ \A x \in ToSet(ops) : ~IsReturn(x) /\ x.op # "Scrape"
    BY <1>10, CallKinds
  <1>12. /\ Scraping' = Scraping /\ mode' = mode /\ Leases' = Leases
         /\ Arrived' = Arrived /\ InChannel' = InChannel /\ Open' = Open
    BY <1>3, <1>10 DEF Scraping, mode, Leases, ChunksOf, Arrived, InChannel, ChunksInAll, Open
  <1>13. Requested' = Requested \cup ret
    BY <1>9, <1>10 DEF Requested, LeasesOf
  <1>14. Sent' = Sent /\ Pipeline' = Pipeline \cup ret
    BY <1>12, <1>13 DEF Sent, Pipeline
  <1>15. Returning = Returning' \cup ret /\ Returning' = ReturnedByOthers(t)
    <2>1. ReturnedByAll(ops) = {}
      BY <1>11, ReturnsOfShort
    <2>2. ReturnedByAll(Rest(t)) = {}
      <3>1. ReturnOnce(todo[t]) /\ todo[t] \in Seq(Steps)
        BY <1>1 DEF QueuesFit, Types
      <3>2. \A x \in ToSet(Tail(todo[t])) : ~IsReturn(x)
        BY <1>2, <1>3, <3>1, ReturnOnceShort
      <3> QED BY <1>3, <3>2, ReturnsOfShort DEF Rest
    <2>3. /\ Returning' = ReturnedByAll(ops) \cup ReturnedByAll(Rest(t)) \cup ReturnedByOthers(t)
          /\ Returning = ReturnedBy(op) \cup ReturnedByAll(Rest(t)) \cup ReturnedByOthers(t)
      BY <1>1, <1>2, <1>3, <1>11, ReturningEffect
    <2> QED BY <1>7, <2>1, <2>2, <2>3
  <1>16. \A l \in Returning' : l[1] # w
    <2>1. ASSUME NEW u \in Threads \ {t}, NEW x \in ToSet(todo[u]), NEW l \in ReturnedBy(x)
          PROVE  l[1] # w
      <3>1. IsReturn(x) /\ l = <<x.w, x.chunk>>
        BY <2>1 DEF ReturnedBy
      <3>2. Home[x.w] = u
        BY <1>1, <3>1 DEF QueuesFit, MayReturn, Ops
      <3> QED BY <1>5, <1>6, <3>1, <3>2
    <2> QED BY <1>15, <2>1 DEF ReturnedByOthers, ReturnedByAll
  <1>17. InHand = InHand' \cup ret
    BY <1>12, <1>15 DEF InHand
  <1>18. Acquired' = Acquired
    <2>1. \A l \in Leases : l[1] \in Writers
      BY <1>1, LeasesAreTyped
    <2> QED BY <1>10, <1>12, <2>1 DEF Acquired
  <1>19. \A l \in Leases : l = <<w, k>> => l \in ret
    <2>1. \A l \in Leases : l[2] \in Nat \ {0}
      BY <1>1, LeasesAreTyped
    <2>2. <<w, k>>[2] = k
      OBVIOUS
    <2> QED BY <2>1, <2>2
  <1>20. DataTypes'
    <2>1. check_failed' \in BOOLEAN
      BY <1>10
    <2>2. commit_data_req_' \in Requests \cup {None} /\ channel' \in Seq(Messages)
      BY <1>1, <1>3, <1>10 DEF DataTypes
    <2>3. \A v \in Writers :
             /\ writer'[v].id <= kMaxWriterID
             /\ writer'[v].chunks <= IF v \in DOMAIN setup.chunks THEN setup.chunks[v] ELSE 0
      BY <1>1, <1>10 DEF DataTypes
    <2> QED BY <1>1, <1>3, <1>10, <1>12, <2>1, <2>2, <2>3 DEF DataTypes
  <1>21. QueuesFit'
    BY <1>1, <1>10, <1>11, QueuesStayFit
  <1> HIDE DEF ret
  <1>22. \A l \in Leases : \/ chunk'[l].state = chunk[l].state
                           \/ chunk'[l].state = "kChunkComplete" /\ l \in Requested'
    BY <1>9, <1>10, <1>13, <1>19
  <1>23. ret \subseteq Acquired /\ Pipeline \cup InHand \subseteq Acquired /\ Acquired \subseteq Leases
    BY <1>1, <1>17 DEF LocationInv, Acquired
  <1>24. LocationInv'
    <2>1. Pipeline' \cup InHand' \subseteq Acquired'
      BY <1>14, <1>17, <1>18, <1>23
    <2>2. \A v \in Writers : writer'[v].open # 0 => writer'[v].open = writer'[v].chunks
      BY <1>1, <1>10 DEF LocationInv
    <2>3. ASSUME ~check_failed', NEW l \in Acquired' \ Pipeline'
          PROVE  l \in InHand' /\ chunk'[l].state = "kChunkBeingWritten"
      <3>1. ~check_failed /\ l \in Acquired \ Pipeline /\ l \notin ret /\ l \notin Requested'
        BY <1>10, <1>14, <1>18, <2>3 DEF Pipeline
      <3>2. l \in InHand /\ chunk[l].state = "kChunkBeingWritten"
        BY <1>1, <3>1 DEF LocationInv
      <3> QED BY <1>17, <1>22, <1>23, <3>1, <3>2
    <2>4. \A l \in Leases' \ Acquired' : chunk'[l].state = "kChunkFree"
      <3>1. Requested' \subseteq Acquired'
        BY <2>1 DEF Pipeline
      <3> QED BY <1>1, <1>12, <1>18, <1>22, <3>1 DEF LocationInv
    <2> QED BY <1>1, <1>3, <1>21, <2>1, <2>2, <2>3, <2>4 DEF LocationInv
  <1>25. ASSUME OrderInv PROVE OrderInv'
    <2>1. Before(Pipeline, ret) /\ Before(Pipeline, InHand')
      BY <1>17, <1>25, BeforeUnions DEF OrderInv
    <2>2. Before(Sent', Requested')
      <3>1. Before(Sent, ret)
        BY <2>1, BeforeUnions DEF Pipeline
      <3> QED BY <1>13, <1>14, <1>25, <3>1, BeforeUnions DEF OrderInv
    <2>3. Ascending(commit_data_req_'.chunks)
      <3>1. Before(Requested, ret)
        BY <2>1, BeforeUnions DEF Pipeline
      <3>2. k # 0 => Before(Requested, {<<w, k>>})
        BY <3>1 DEF ret
      <3> QED BY <1>9, <1>10, <1>25, <3>2
    <2>4. Before(Returning', Open') /\ Before(ret, Open')
      BY <1>12, <1>15, <1>25, BeforeUnions DEF OrderInv
    <2>5. Before(Pipeline', InHand')
      <3>1. Before(ret, Returning')
        BY <1>16 DEF Before, ret
      <3>2. Before(ret, InHand')
        BY <2>4, <3>1, BeforeUnions DEF InHand
      <3> QED BY <1>14, <2>1, <3>2, BeforeUnions
    <2>6. \A l \in InHand' : chunk'[l].state = "kChunkBeingWritten"
      <3>1. Pipeline' \subseteq Writers \X Nat
        BY <1>1, <1>14, <1>23, LeasesAreTyped
      <3>2. Pipeline' \cap InHand' = {}
        BY <2>5, <3>1, BeforeIsApart
      <3>3. ASSUME NEW l \in InHand' PROVE l \in Leases /\ l \in InHand /\ l \notin Requested'
        BY <1>17, <1>23, <3>2 DEF Pipeline
      <3> QED BY <1>22, <1>25, <3>3 DEF OrderInv
    <2>7. ~check_failed'
      <3>1. k # 0 => <<w, k>> \in InHand
        BY <1>17 DEF ret
      <3> QED BY <1>10, <1>25, <3>1 DEF OrderInv
    <2>8. \A l \in Requested' : chunk'[l].state \in {"kChunkBeingWritten", "kChunkComplete"}
      <3>1. \A l \in Requested' : l \in Leases /\ (l \in Requested \/ l \in InHand)
        BY <1>13, <1>17, <1>23 DEF Pipeline
      <3> QED BY <1>22, <1>25, <3>1 DEF OrderInv
    <2>9. mode' = "kDefault" => \A l \in InChannel' : chunk'[l].state = "kChunkComplete"
      <3>1. InChannel \subseteq Leases
        BY <1>23 DEF Pipeline, Sent
      <3> QED BY <1>12, <1>22, <1>25, <3>1 DEF OrderInv
    <2> QED BY <1>3, <1>12, <1>25, <2>2, <2>3, <2>4, <2>5, <2>6, <2>7, <2>8, <2>9 DEF OrderInv
  <1> QED BY <1>1, <1>12, <1>20, <1>24, <1>25 DEF ChunkInv

-----------------------------------------------------------------------------
(***************************************************************************)
(* Committing a request.                                                   *)
(***************************************************************************)
\* Whole parts of n things, d to a part.
LEMMA Division ==
  ASSUME NEW n \in Nat, NEW d \in Nat \ {0}
  PROVE  /\ n \div d \in Nat /\ (n \div d) * d <= n
         /\ n < (n \div d + 1) * d
  <1>1. n = d * (n \div d) + (n % d) /\ n % d \in 0 .. d - 1 /\ n \div d \in Int
    OBVIOUS
  <1>2. PICK q \in Int, r \in 0 .. d - 1 : q = n \div d /\ n = d * q + r
    BY <1>1
  <1>3. q >= 0
    <2> SUFFICES ASSUME q <= -1 PROVE FALSE
      OBVIOUS
    <2>1. d * q <= -d
      OBVIOUS
    <2> QED BY <1>2, <2>1
  <1>4. q * d = d * q /\ (q + 1) * d = d * q + d
    OBVIOUS
  <1>5. q * d <= n /\ n < (q + 1) * d
    BY <1>2, <1>4
  <1> QED BY <1>2, <1>3, <1>5

\* Larger numbers have larger multiples.
LEMMA Multiples ==
  ASSUME NEW d \in Nat \ {0}, NEW a \in Nat, NEW b \in Nat
  PROVE  /\ a * d \in Nat /\ (a + 1) * d = a * d + d
         /\ a <= b => a * d <= b * d
         /\ a * d < b * d => a < b
  OBVIOUS

\* A part of a sequence of chunks.
LEMMA PartOfChunks ==
  ASSUME NEW s \in Seq(Entries), NEW m \in Nat \ {0}, NEW n \in Nat, n <= Len(s), NEW p,
         p = SubSeq(s, m, n)
  PROVE  /\ p \in Seq(Entries)
         /\ LeasesOf(p) = {s[j].lease : j \in m .. n}
         /\ Ascending(s) => Ascending(p)
  <1>1. Len(s) \in Nat /\ DOMAIN s = 1 .. Len(s) /\ \A i \in 1 .. Len(s) : s[i] \in Entries
    BY LenProperties, ElementOfSeq
  <1>2. \A i \in m .. n : i \in 1 .. Len(s)
    BY <1>1
  <1>3. /\ p \in Seq(Entries) /\ Len(p) = IF m <= n THEN n - m + 1 ELSE 0
        /\ \A i \in 1 .. n - m + 1 : p[i] = s[m + i - 1]
    BY <1>1, <1>2, SubSeqProperties
  <1>4. DOMAIN p = 1 .. n - m + 1
    <2>1. DOMAIN p = 1 .. Len(p)
      BY <1>3, LenProperties
    <2> QED BY <1>3, <2>1
  <1>5. \A i \in DOMAIN p : m + i - 1 \in m .. n /\ p[i] = s[m + i - 1]
    BY <1>3, <1>4
  <1>6. \A j \in m .. n : j - m + 1 \in DOMAIN p /\ p[j - m + 1] = s[j]
    <2> SUFFICES ASSUME NEW j \in m .. n PROVE j - m + 1 \in DOMAIN p /\ p[j - m + 1] = s[j]
      OBVIOUS
    <2>1. j - m + 1 \in 1 .. n - m + 1 /\ m + (j - m + 1) - 1 = j
      OBVIOUS
    <2> QED BY <1>3, <1>4, <2>1
  <1>7. LeasesOf(p) = {s[j].lease : j \in m .. n}
    <2>1. LeasesOf(p) = {p[i].lease : i \in DOMAIN p}
      BY DEF LeasesOf, ToSet
    <2>2. \A i \in DOMAIN p : \E j \in m .. n : p[i].lease = s[j].lease
      BY <1>5
    <2>3. \A j \in m .. n : \E i \in DOMAIN p : p[i].lease = s[j].lease
      BY <1>6
    <2> DEFINE A == {p[i].lease : i \in DOMAIN p}
               B == {s[j].lease : j \in m .. n}
    <2>4. ASSUME NEW x \in A PROVE x \in B
      <3>1. PICK i \in DOMAIN p : x = p[i].lease
        OBVIOUS
      <3> QED BY <2>2, <3>1
    <2>5. ASSUME NEW x \in B PROVE x \in A
      <3>1. PICK j \in m .. n : x = s[j].lease
        OBVIOUS
      <3> QED BY <2>3, <3>1
    <2> HIDE DEF A, B
    <2>6. A = B
      BY <2>4, <2>5
    <2> QED BY <2>1, <2>6 DEF A, B
  <1>8. ASSUME Ascending(s) PROVE Ascending(p)
    <2> SUFFICES ASSUME NEW i \in DOMAIN p, NEW j \in DOMAIN p, i < j, p[i].lease[1] = p[j].lease[1]
                 PROVE  p[i].lease[2] < p[j].lease[2]
      BY DEF Ascending
    <2>1. m + i - 1 < m + j - 1 /\ m + i - 1 \in DOMAIN s /\ m + j - 1 \in DOMAIN s
      BY <1>1, <1>2, <1>4, <1>5
    <2> QED BY <1>5, <1>8, <2>1 DEF Ascending
  <1> QED BY <1>3, <1>7, <1>8

\* The chunks of two parts, one before the other.
LEMMA PartsAreInOrder ==
  ASSUME NEW s, Ascending(s), NEW m \in Nat, NEW n \in Nat, NEW i \in Nat, NEW j \in Nat,
         n < i, \A x \in (m .. n) \cup (i .. j) : x \in DOMAIN s
  PROVE  Before({s[x].lease : x \in m .. n}, {s[x].lease : x \in i .. j})
  <1> SUFFICES ASSUME NEW x \in m .. n, NEW y \in i .. j, s[x].lease[1] = s[y].lease[1]
               PROVE  s[x].lease[2] < s[y].lease[2]
    BY DEF Before
  <1>1. x < y /\ x \in DOMAIN s /\ y \in DOMAIN s
    OBVIOUS
  <1> QED BY <1>1 DEF Ascending

\* How many full messages there are.
LEMMA FullMessages ==
  ASSUME NEW len \in Nat, NEW per, per = kMaxCommitSize - 1,
         NEW full, full = IF len < kMaxCommitSize THEN 0 ELSE (len - 1) \div per
  PROVE  per \in Nat \ {0} /\ full \in Nat /\ full * per <= len
  <1>1. per \in Nat \ {0} /\ kMaxCommitSize \in Nat \ {0, 1}
    BY ArbiterAssumption
  <1>2. CASE len < kMaxCommitSize
    BY <1>1, <1>2
  <1>3. CASE ~(len < kMaxCommitSize)
    <2>1. PICK n \in Nat : n = len - 1
      BY <1>1, <1>3
    <2>2. full = n \div per
      BY <1>3, <2>1
    <2>3. full \in Nat /\ full * per <= n
      BY <1>1, <2>2, Division
    <2>4. full * per \in Nat
      BY <1>1, <2>3, Multiples
    <2> QED BY <1>1, <2>1, <2>3, <2>4
  <1> QED BY <1>2, <1>3

\* CommitDataWithSplitting sends every chunk, in the order of the request.
LEMMA SplittingKeepsOrder ==
  ASSUME NEW req \in Requests, NEW cb \in SUBSET Callbacks
  PROVE  /\ CommitDataWithSplitting(req, cb) \in Seq(Messages)
         /\ ChunksInAll(CommitDataWithSplitting(req, cb)) = LeasesOf(req.chunks)
         /\ Ascending(req.chunks) => InOrder(CommitDataWithSplitting(req, cb))
  <1>1. PICK s : s = req.chunks
    OBVIOUS
  <1>2. s \in Seq(Entries) /\ Len(s) \in Nat /\ DOMAIN s = 1 .. Len(s)
    BY <1>1, LenProperties DEF Requests, Entries
  <1>3. PICK per \in Nat \ {0} : per = kMaxCommitSize - 1
    BY ArbiterAssumption
  <1>4. PICK full : full = IF Len(s) < kMaxCommitSize THEN 0 ELSE (Len(s) - 1) \div per
    OBVIOUS
  <1>5. full \in Nat /\ full * per <= Len(s)
    BY <1>2, <1>3, <1>4, FullMessages
  <1>6. PICK last : last = [req EXCEPT !.chunks = SubSeq(s, full * per + 1, Len(s))]
    OBVIOUS
  <1>7. PICK head : head = [i \in 1 .. full |-> CommitData(SplitPart(req, i, per), {})]
    OBVIOUS
  <1>8. CommitDataWithSplitting(req, cb) = Append(head, CommitData(last, cb))
    BY <1>1, <1>3, <1>4, <1>6, <1>7 DEF CommitDataWithSplitting
  <1>9. ASSUME NEW i \in 1 .. full
        PROVE  /\ (i - 1) * per \in Nat /\ i * per \in Nat
               /\ i * per = (i - 1) * per + per /\ i * per <= full * per
    <2>1. i - 1 \in Nat /\ i \in Nat /\ (i - 1) + 1 = i /\ i <= full
      BY <1>5
    <2>2. (i - 1) * per \in Nat /\ ((i - 1) + 1) * per = (i - 1) * per + per
      BY <1>3, <2>1, Multiples
    <2>3. i * per \in Nat /\ i * per <= full * per
      BY <1>3, <1>5, <2>1, Multiples
    <2> QED BY <2>1, <2>2, <2>3
  <1> DEFINE lo(i) == (i - 1) * per + 1
             hi(i) == IF i <= full THEN i * per ELSE Len(s)
             part(i) == {s[j].lease : j \in lo(i) .. hi(i)}
  <1>10. full * per \in Nat
    BY <1>3, <1>5, Multiples
  <1>11. ASSUME NEW i \in 1 .. full
         PROVE  /\ head[i] \in Messages /\ head[i].type = "CommitData"
                /\ ChunksIn(head[i]) = part(i)
                /\ Ascending(s) => Ascending(head[i].req.chunks)
    <2>1. PICK m \in Nat, n \in Nat : m = (i - 1) * per /\ n = i * per /\ n <= Len(s)
      BY <1>2, <1>5, <1>9, <1>10
    <2>0. PICK a \in Nat \ {0} : a = m + 1
      BY <2>1
    <2>2. PICK c : c = SubSeq(s, a, n)
      OBVIOUS
    <2>3. /\ c \in Seq(Entries) /\ LeasesOf(c) = {s[j].lease : j \in a .. n}
          /\ Ascending(s) => Ascending(c)
      BY <1>2, <2>1, <2>2, PartOfChunks
    <2>4. head[i] = CommitData([EmptyReq EXCEPT !.chunks = c], {})
      BY <1>1, <1>7, <2>0, <2>1, <2>2 DEF SplitPart
    <2>5. PICK r \in Requests : r.chunks = c /\ head[i] = CommitData(r, {})
      BY <2>3, <2>4, EmptySeq DEF EmptyReq, Requests, Entries
    <2>6. head[i] \in Messages /\ head[i].type = "CommitData" /\ head[i].req.chunks = c
      BY <2>5 DEF CommitData, Messages
    <2>7. part(i) = {s[j].lease : j \in a .. n}
      BY <1>5, <2>1, <2>0
    <2> QED BY <2>3, <2>6, <2>7 DEF ChunksIn
  <1>12. PICK tail : tail = CommitData(last, cb)
    OBVIOUS
  <1>13. /\ tail \in Messages /\ tail.type = "CommitData" /\ ChunksIn(tail) = part(full + 1)
         /\ Ascending(s) => Ascending(tail.req.chunks)
    <2>1. PICK m \in Nat : m = full * per
      BY <1>10
    <2>0. PICK a \in Nat \ {0} : a = m + 1
      BY <2>1
    <2>2. PICK c : c = SubSeq(s, a, Len(s))
      OBVIOUS
    <2>3. /\ c \in Seq(Entries) /\ LeasesOf(c) = {s[j].lease : j \in a .. Len(s)}
          /\ Ascending(s) => Ascending(c)
      <3>1. PICK n \in Nat : n = Len(s)
        BY <1>2
      <3>2. n <= Len(s)
        BY <3>1
      <3> QED BY <1>2, <2>1, <2>2, <3>1, <3>2, PartOfChunks
    <2>4. last \in Requests /\ last.chunks = c
      BY <1>6, <2>1, <2>0, <2>2, <2>3 DEF Requests, Entries
    <2>5. tail \in Messages /\ tail.type = "CommitData" /\ tail.req.chunks = c
      BY <1>12, <2>4 DEF CommitData, Messages
    <2>6. part(full + 1) = {s[j].lease : j \in a .. Len(s)}
      <3>1. (full + 1) - 1 = full /\ ~(full + 1 <= full)
        BY <1>5
      <3> QED BY <2>1, <2>0, <3>1
    <2> QED BY <2>3, <2>5, <2>6 DEF ChunksIn
  <1>14. PICK q : q = Append(head, tail)
    OBVIOUS
  <1>15. head \in Seq(Messages) /\ Len(head) = full
    <2>1. head \in Seq(Messages)
      BY <1>5, <1>7, <1>11, IsASeq
    <2>2. DOMAIN head = 1 .. full /\ DOMAIN head = 1 .. Len(head) /\ Len(head) \in Nat
      BY <1>7, <2>1, LenProperties
    <2> QED BY <1>5, <2>1, <2>2
  <1>16. /\ q \in Seq(Messages) /\ DOMAIN q = 1 .. full + 1
         /\ \A i \in 1 .. full + 1 : /\ q[i].type = "CommitData" /\ ChunksIn(q[i]) = part(i)
                                     /\ Ascending(s) => Ascending(q[i].req.chunks)
    <2> HIDE DEF part
    <2>1. /\ q \in Seq(Messages) /\ Len(q) = full + 1
          /\ \A i \in 1 .. full : q[i] = head[i]
          /\ q[full + 1] = tail
      BY <1>13, <1>14, <1>15, AppendProperties
    <2>2. DOMAIN q = 1 .. full + 1
      BY <2>1, LenProperties
    <2>3. \A i \in 1 .. full + 1 : i \in 1 .. full \/ i = full + 1
      BY <1>5
    <2> QED BY <1>11, <1>13, <2>1, <2>2, <2>3
  <1>17. \A i \in 1 .. full + 1 : \A j \in lo(i) .. hi(i) : j \in DOMAIN s
    <2> SUFFICES ASSUME NEW i \in 1 .. full + 1, NEW j \in lo(i) .. hi(i) PROVE j \in DOMAIN s
      OBVIOUS
    <2>1. CASE i \in 1 .. full
      <3>1. (i - 1) * per \in Nat /\ i * per \in Nat /\ i * per <= Len(s) /\ i <= full
        BY <1>2, <1>5, <1>9, <1>10, <2>1
      <3>2. j \in Int /\ (i - 1) * per + 1 <= j /\ j <= i * per
        BY <3>1
      <3> QED BY <1>2, <3>1, <3>2
    <2>2. CASE i = full + 1
      <3>1. (i - 1) * per = full * per /\ ~(i <= full)
        BY <1>5, <2>2
      <3>2. j \in Int /\ full * per + 1 <= j /\ j <= Len(s)
        BY <1>2, <1>10, <3>1
      <3> QED BY <1>2, <1>10, <3>2
    <2> QED BY <1>5, <2>1, <2>2
  <1>18. ASSUME NEW j \in DOMAIN s
         PROVE  \E i \in 1 .. full + 1 : j \in lo(i) .. hi(i)
    <2>1. CASE j <= full * per
      <3>1. PICK n \in Nat : n = j - 1
        BY <1>2
      <3>2. PICK d \in Nat : d * per <= n /\ n < (d + 1) * per
        BY <1>3, Division
      <3>3. d * per < full * per /\ (d + 1) * per \in Nat /\ d * per \in Nat
        BY <1>2, <1>3, <1>10, <2>1, <3>1, <3>2, Multiples
      <3>4. d < full
        BY <1>3, <1>5, <3>3, Multiples
      <3>5. PICK i \in 1 .. full : i = d + 1
        BY <1>5, <3>4
      <3>6. i - 1 = d /\ i <= full /\ i \in 1 .. full + 1
        BY <1>5, <3>5
      <3>7. lo(i) <= j /\ j <= hi(i) /\ lo(i) \in Int /\ hi(i) \in Int
        <4>1. lo(i) = d * per + 1 /\ hi(i) = (d + 1) * per
          BY <3>5, <3>6
        <4> QED BY <1>2, <3>1, <3>2, <3>3, <4>1
      <3> HIDE DEF lo, hi
      <3> QED BY <1>2, <3>6, <3>7
    <2>2. CASE ~(j <= full * per)
      <3>1. lo(full + 1) = full * per + 1 /\ hi(full + 1) = Len(s)
        <4>1. (full + 1) - 1 = full /\ ~(full + 1 <= full)
          BY <1>5
        <4> QED BY <4>1
      <3>2. j \in lo(full + 1) .. hi(full + 1)
        <4> HIDE DEF lo, hi
        <4> QED BY <1>2, <1>10, <2>2, <3>1
      <3> HIDE DEF lo, hi
      <3> QED BY <1>5, <3>2
    <2> QED BY <2>1, <2>2
  <1>19. ChunksInAll(q) = LeasesOf(s)
    <2>1. ChunksInAll(q) = UNION {part(i) : i \in 1 .. full + 1}
      <3> HIDE DEF part
      <3> QED BY <1>16 DEF ChunksInAll, ToSet
    <2>2. LeasesOf(s) = {s[j].lease : j \in DOMAIN s}
      BY DEF LeasesOf, ToSet
    <2> HIDE DEF lo, hi
    <2> QED BY <1>17, <1>18, <2>1, <2>2
  <1>20. ASSUME Ascending(s) PROVE InOrder(q)
    <2>1. ASSUME NEW i \in 1 .. full + 1, NEW j \in 1 .. full + 1, i < j
          PROVE  Before(part(i), part(j))
      <3>1. i \in 1 .. full /\ j - 1 \in Nat /\ i \in Nat /\ i <= j - 1
        BY <1>5, <2>1
      <3>2. i * per <= (j - 1) * per /\ (j - 1) * per \in Nat
        BY <1>3, <3>1, Multiples
      <3>3. hi(i) = i * per /\ i * per \in Nat /\ lo(i) \in Nat
        BY <1>9, <3>1
      <3>4. lo(j) \in Nat /\ hi(i) < lo(j)
        BY <3>2, <3>3
      <3>5. hi(j) \in Nat
        <4>1. CASE j <= full
          <5>1. j \in 1 .. full
            BY <1>5, <4>1
          <5> QED BY <1>9, <4>1, <5>1
        <4>2. CASE ~(j <= full)
          BY <1>2, <4>2
        <4> QED BY <4>1, <4>2
      <3> HIDE DEF lo, hi
      <3> QED BY <1>17, <1>20, <3>3, <3>4, <3>5, PartsAreInOrder
    <2> HIDE DEF part
    <2> QED BY <1>16, <1>20, <2>1 DEF InOrder
  <1> QED BY <1>1, <1>8, <1>12, <1>14, <1>16, <1>19, <1>20

\* How often a request names a chunk.
LEMMA MentionsCount ==
  ASSUME NEW req, req.chunks \in Seq(Entries), NEW l
  PROVE  /\ Mentions(req, l) \in Nat
         /\ Mentions(req, l) = 0 <=> l \notin LeasesOf(req.chunks)
         /\ Ascending(req.chunks) => Mentions(req, l) <= 1
  <1>1. PICK s \in Seq(Entries) : s = req.chunks
    OBVIOUS
  <1>2. /\ Len(s) \in Nat /\ DOMAIN s = 1 .. Len(s)
        /\ \A i \in DOMAIN s : s[i].lease[2] \in Nat
    <2>1. Len(s) \in Nat /\ DOMAIN s = 1 .. Len(s) /\ \A i \in DOMAIN s : s[i] \in Entries
      BY LenProperties, ElementOfSeq
    <2> QED BY <2>1 DEF Entries
  <1>3. PICK P : P = {i \in DOMAIN s : s[i].lease = l}
    OBVIOUS
  <1>4. Mentions(req, l) = Cardinality(P)
    BY <1>1, <1>3 DEF Mentions
  <1>5. IsFiniteSet(P)
    <2>1. P \subseteq 1 .. Len(s) /\ IsFiniteSet(1 .. Len(s))
      BY <1>2, <1>3, FS_Interval
    <2> QED BY <2>1, FS_Subset
  <1>6. Cardinality(P) \in Nat /\ (Cardinality(P) = 0 <=> P = {})
    BY <1>5, FS_CardinalityType, FS_EmptySet
  <1>7. P = {} <=> l \notin LeasesOf(s)
    BY <1>3 DEF LeasesOf, ToSet
  <1>8. ASSUME Ascending(s) PROVE Cardinality(P) <= 1
    <2>1. ASSUME NEW i \in P, NEW j \in P PROVE i = j
      <3>1. i \in DOMAIN s /\ j \in DOMAIN s /\ s[i].lease = s[j].lease /\ i \in Int /\ j \in Int
        BY <1>2, <1>3
      <3>2. ~(i < j) /\ ~(j < i)
        BY <1>2, <1>8, <3>1 DEF Ascending
      <3> QED BY <3>1, <3>2
    <2>2. CASE P = {}
      BY <1>6, <2>2
    <2>3. CASE P # {}
      <3>1. PICK i \in P : P = {i}
        <4>1. PICK i \in P : TRUE
          BY <2>3
        <4>2. P = {i}
          BY <2>1
        <4> QED BY <4>2
      <3>2. Cardinality({i}) = 1
        BY FS_Singleton
      <3> QED BY <3>1, <3>2
    <2> QED BY <2>2, <2>3
  <1> QED BY <1>1, <1>4, <1>6, <1>7, <1>8

\* Resolving the targets leaves everything else as it is.
LEMMA ResolvedRequest ==
  ASSUME Types, NEW req \in Requests, NEW r, r = ReplaceCommitPlaceholderBufferIds(req)
  PROVE  /\ r \in Requests /\ r.chunks \in Seq(Entries)
         /\ r.flush_request_id = req.flush_request_id
         /\ LeasesOf(r.chunks) = LeasesOf(req.chunks)
         /\ Ascending(req.chunks) => Ascending(r.chunks)
  <1>1. PICK s, p : s = req.chunks /\ p = req.patches
    OBVIOUS
  <1> DEFINE Patches == [lease: Writers \X Nat, target: Targets, count: Nat, has_more: BOOLEAN]
  <1>2. s \in Seq(Entries) /\ p \in Seq(Patches)
    BY <1>1 DEF Requests, Entries
  <1>3. \A x \in Targets : Resolve(x) \in Targets
    <2>1. \A x \in Reservations : target_buffer_reservations_[x] >= 0 =>
             target_buffer_reservations_[x] \in Nat
      BY DEF Types, Absent, Unbound
    <2> QED BY <2>1 DEF Resolve, IsReservationTargetBufferId, Targets
  <1>4. PICK c : c = [i \in DOMAIN s |-> Resolved(s[i])]
    OBVIOUS
  <1>5. PICK d : d = [i \in DOMAIN p |-> Resolved(p[i])]
    OBVIOUS
  <1>6. r = [req EXCEPT !.chunks = c, !.patches = d]
    BY <1>1, <1>4, <1>5 DEF ReplaceCommitPlaceholderBufferIds
  <1>7. /\ Len(s) \in Nat /\ DOMAIN s = 1 .. Len(s) /\ \A i \in DOMAIN s : s[i] \in Entries
        /\ Len(p) \in Nat /\ DOMAIN p = 1 .. Len(p) /\ \A i \in DOMAIN p : p[i] \in Patches
    BY <1>2, LenProperties, ElementOfSeq
  <1>8. \A e \in Entries : Resolved(e) \in Entries /\ Resolved(e).lease = e.lease
    BY <1>3 DEF Resolved, Entries
  <1>9. \A e \in Patches : Resolved(e) \in Patches
    BY <1>3 DEF Resolved
  <1> HIDE DEF Patches
  <1>10. c \in Seq(Entries) /\ d \in Seq(Patches)
    <2>1. \A i \in 1 .. Len(s) : Resolved(s[i]) \in Entries
      BY <1>7, <1>8
    <2>2. \A i \in 1 .. Len(p) : Resolved(p[i]) \in Patches
      BY <1>7, <1>9
    <2>3. c \in Seq(Entries)
      BY <1>4, <1>7, <2>1, IsASeq
    <2>4. d \in Seq(Patches)
      BY <1>5, <1>7, <2>2, IsASeq
    <2> QED BY <2>3, <2>4
  <1>11. r \in Requests /\ r.chunks = c /\ r.flush_request_id = req.flush_request_id
    BY <1>6, <1>10 DEF Requests, Entries, Patches
  <1>12. DOMAIN c = DOMAIN s /\ \A i \in DOMAIN s : c[i].lease = s[i].lease
    BY <1>4, <1>7, <1>8
  <1>13. LeasesOf(c) = LeasesOf(s)
    <2>1. \A x : x \in LeasesOf(c) <=> \E i \in DOMAIN c : x = c[i].lease
      BY DEF LeasesOf, ToSet
    <2>2. \A x : x \in LeasesOf(s) <=> \E i \in DOMAIN s : x = s[i].lease
      BY DEF LeasesOf, ToSet
    <2>3. \A x : x \in LeasesOf(c) <=> x \in LeasesOf(s)
      BY <1>12, <2>1, <2>2
    <2> QED BY <2>3
  <1>14. Ascending(s) => Ascending(c)
    BY <1>12 DEF Ascending
  <1> QED BY <1>1, <1>10, <1>11, <1>13, <1>14

\* What is sent when a request is committed.
LEMMA CommittedMessages ==
  ASSUME Types, NEW req \in Requests, NEW cb \in SUBSET Callbacks, NEW r,
         r = ReplaceCommitPlaceholderBufferIds(req),
         NEW q, q = CommitDataWithSplitting(r, cb) \/ q = <<CommitData(r, cb)>>
  PROVE  /\ q \in Seq(Messages) /\ ChunksInAll(q) = LeasesOf(req.chunks)
         /\ Ascending(req.chunks) => InOrder(q)
  <1>1. /\ r \in Requests /\ LeasesOf(r.chunks) = LeasesOf(req.chunks)
        /\ Ascending(req.chunks) => Ascending(r.chunks)
    BY ResolvedRequest
  <1>2. CASE q = CommitDataWithSplitting(r, cb)
    BY <1>1, <1>2, SplittingKeepsOrder
  <1>3. CASE q = <<CommitData(r, cb)>>
    <2>1. PICK m : m = CommitData(r, cb)
      OBVIOUS
    <2>2. m \in Messages /\ m.type = "CommitData" /\ m.req = r
      BY <1>1, <2>1 DEF CommitData, Messages
    <2>3. q = <<m>> /\ q \in Seq(Messages) /\ ToSet(q) = {m}
      BY <1>3, <2>1, <2>2, SetOfShort
    <2>4. ChunksInAll(q) = LeasesOf(r.chunks)
      <3>1. ChunksIn(m) = LeasesOf(r.chunks)
        BY <2>2 DEF ChunksIn
      <3> QED BY <2>3, <3>1 DEF ChunksInAll
    <2>5. Ascending(r.chunks) => InOrder(q)
      <3>1. DOMAIN q = {1} /\ q[1] = m
        BY <2>3
      <3>2. ~(1 < 1)
        OBVIOUS
      <3> QED BY <2>2, <3>1, <3>2 DEF InOrder
    <2> QED BY <1>1, <2>3, <2>4, <2>5
  <1> QED BY <1>2, <1>3

\* A step that returns nothing and asks for no return.
LEMMA ReturningStays ==
  ASSUME Types, NEW t, NEW ops, Does(t, ops),
         todo[t] # <<>> => ~IsReturn(Head(todo[t])),
         \A op \in ToSet(ops) : ~IsReturn(op)
  PROVE  Returning' = Returning
  <1>1. /\ Returning' = ReturnedByAll(ops) \cup ReturnedByAll(Rest(t)) \cup ReturnedByOthers(t)
        /\ Returning = (IF todo[t] = <<>> THEN {} ELSE ReturnedBy(Head(todo[t])))
                          \cup ReturnedByAll(Rest(t)) \cup ReturnedByOthers(t)
    BY ReturningEffect
  <1>2. ReturnedByAll(ops) = {} /\ (todo[t] # <<>> => ReturnedBy(Head(todo[t])) = {})
    BY ReturnsOfShort
  <1>3. (IF todo[t] = <<>> THEN {} ELSE ReturnedBy(Head(todo[t]))) = {}
    BY <1>2
  <1>4. Returning' = ReturnedByAll(Rest(t)) \cup ReturnedByOthers(t)
    BY <1>1, <1>2
  <1> QED BY <1>1, <1>3, <1>4

\* The request is committed: its chunks go from the request into the channel.
LEMMA FlushRequestKeepsChunks ==
  ASSUME ArbiterInv, ChunkInv, NEW cb \in SUBSET Callbacks, NEW rest, FlushRequest(IPC, cb, rest),
         UNCHANGED <<setup, writer>>,
         \A ops \in Seq(Steps) : GoOn(IPC, ops, rest) => Does(IPC, ops),
         todo[IPC] # <<>> => ~IsReturn(Head(todo[IPC])),
         \A op \in Ops(IPC) : op.op # "Scrape"
  PROVE  ChunkInv'
  <1>1. Types /\ DataTypes /\ LocationInv /\ QueuesFit /\ (~Scraping => OrderInv)
    BY DEF ArbiterInv, ChunkInv, LocationInv
  <1>2. PICK req : req = commit_data_req_
    OBVIOUS
  <1>3. PICK r : r = ReplaceCommitPlaceholderBufferIds(req)
    OBVIOUS
  <1>4. /\ req # None /\ commit_data_req_' = None
        /\ chunk' = [l \in Leases |->
              IF Mentions(req, l) = 0 THEN chunk[l] ELSE FlushedChunk(chunk[l])]
        /\ check_failed' = (check_failed \/
              /\ use_shmem_emulation_
              /\ \E l \in Leases : \/ Mentions(req, l) > 1
                                   \/ Mentions(req, l) = 1 /\ chunk[l].state = "kChunkFree")
        /\ channel' = channel \o (CASE check_failed' -> <<>>
                                    [] ~check_failed' /\ use_shmem_emulation_ ->
                                         CommitDataWithSplitting(r, cb)
                                    [] OTHER -> <<CommitData(r, cb)>>)
        /\ GoOn(IPC, <<>>, rest) /\ UNCHANGED service
    BY <1>2, <1>3 DEF FlushRequest
  <1>5. /\ req \in Requests /\ req.chunks \in Seq(Entries) /\ LeasesOf(req.chunks) = Requested
        /\ OrderInv => Ascending(req.chunks)
    BY <1>1, <1>2, <1>4 DEF DataTypes, Requests, Entries, Requested, OrderInv
  <1>6. check_failed' \in BOOLEAN /\ (check_failed => check_failed')
    BY <1>1, <1>4 DEF DataTypes
  <1>7. PICK q \in Seq(Messages) :
           /\ channel' = channel \o q
           /\ check_failed' => ChunksInAll(q) = {}
           /\ ~check_failed' => ChunksInAll(q) = Requested
           /\ OrderInv => InOrder(q)
    <2>1. CASE check_failed'
      <3>1. channel' = channel \o <<>> /\ <<>> \in Seq(Messages)
        <4>1. PICK x, y : x = CommitDataWithSplitting(r, cb) /\ y = <<CommitData(r, cb)>>
          OBVIOUS
        <4>2. channel' = channel \o (CASE check_failed' -> <<>>
                                       [] ~check_failed' /\ use_shmem_emulation_ -> x
                                       [] OTHER -> y)
          BY <1>4, <4>1
        <4>3. channel' = channel \o <<>>
          BY <2>1, <4>2
        <4> QED BY <4>3, EmptySeq
      <3>2. ChunksInAll(<<>>) = {} /\ InOrder(<<>>)
        BY SetOfShort DEF ChunksInAll, InOrder
      <3> QED BY <2>1, <3>1, <3>2
    <2>2. CASE ~check_failed'
      <3>1. PICK q : q = IF use_shmem_emulation_ THEN CommitDataWithSplitting(r, cb)
                         ELSE <<CommitData(r, cb)>>
        OBVIOUS
      <3>2. channel' = channel \o q
        BY <1>4, <2>2, <3>1
      <3>3. /\ q \in Seq(Messages) /\ ChunksInAll(q) = LeasesOf(req.chunks)
            /\ Ascending(req.chunks) => InOrder(q)
        BY <1>1, <1>3, <1>5, <3>1, CommittedMessages
      <3> QED BY <1>5, <2>2, <3>2, <3>3
    <2> QED BY <2>1, <2>2
  <1>8. /\ channel' \in Seq(Messages) /\ InChannel' = InChannel \cup ChunksInAll(q)
        /\ OrderInv => InOrder(channel')
    <2>1. /\ channel \o q \in Seq(Messages)
          /\ ChunksInAll(channel \o q) = ChunksInAll(channel) \cup ChunksInAll(q)
          /\ InOrder(channel) /\ InOrder(q) /\ Before(ChunksInAll(channel), ChunksInAll(q))
                => InOrder(channel \o q)
      BY <1>1, MessagesCat DEF DataTypes
    <2>2. InChannel' = ChunksInAll(channel')
      BY DEF InChannel, ChunksInAll
    <2>3. ASSUME OrderInv PROVE Before(ChunksInAll(channel), ChunksInAll(q))
      <3>1. Before(InChannel, Requested)
        BY <2>3, BeforeUnions DEF OrderInv, Sent
      <3> QED BY <1>6, <1>7, <3>1 DEF InChannel, Before
    <2> QED BY <1>7, <2>1, <2>2, <2>3 DEF InChannel, OrderInv
  <1>9. /\ Scraping' = Scraping /\ mode' = mode /\ Leases' = Leases
        /\ Arrived' = Arrived /\ Open' = Open /\ Requested' = {}
    BY <1>4 DEF Scraping, mode, Leases, ChunksOf, Arrived, Open, Requested
  <1>10. Does(IPC, <<>>) /\ ToSet(<<>>) = {}
    BY <1>4, EmptySeq, SetOfShort
  <1>11. Returning' = Returning /\ InHand' = InHand
    <2>1. Returning' = Returning
      BY <1>1, <1>10, ReturningStays
    <2> QED BY <1>9, <2>1 DEF InHand
  <1>12. Pipeline' \subseteq Pipeline /\ (~check_failed' => Pipeline' = Pipeline)
    BY <1>6, <1>7, <1>8, <1>9 DEF Pipeline, Sent
  <1>13. Acquired' = Acquired
    BY <1>9 DEF Acquired
  <1>14. ASSUME NEW l \in Leases
         PROVE  /\ DOMAIN chunk'[l] = {"state", "needs_patching", "missing"}
                /\ l \notin Requested => chunk'[l] = chunk[l]
                /\ mode = "kDefault" /\ chunk[l].state \in {"kChunkBeingWritten", "kChunkComplete"}
                      /\ (l \notin Requested => chunk[l].state = "kChunkComplete")
                      => chunk'[l].state = "kChunkComplete"
    <2>1. Mentions(req, l) = 0 <=> l \notin Requested
      BY <1>5, MentionsCount
    <2>2. DOMAIN chunk[l] = {"state", "needs_patching", "missing"}
      BY <1>1 DEF DataTypes
    <2>3. /\ DOMAIN FlushedChunk(chunk[l]) = {"state", "needs_patching", "missing"}
          /\ mode = "kDefault" /\ chunk[l].state \in {"kChunkBeingWritten", "kChunkComplete"}
                => FlushedChunk(chunk[l]).state = "kChunkComplete"
      BY <2>2 DEF FlushedChunk, ReleaseAsComplete, use_shmem_emulation_
    <2>4. chunk'[l] = IF Mentions(req, l) = 0 THEN chunk[l] ELSE FlushedChunk(chunk[l])
      BY <1>4
    <2> QED BY <2>1, <2>2, <2>3, <2>4
  <1>15. DataTypes'
    <2>1. DOMAIN chunk' = Leases
      BY <1>4
    <2> QED BY <1>1, <1>4, <1>6, <1>8, <1>9, <1>14, <2>1 DEF DataTypes
  <1>16. QueuesFit'
    <2>1. \A op \in ToSet(<<>>) : ~IsReturn(op)
      BY <1>10
    <2>2. \A op \in ToSet(<<>>) : op.op = "Scrape" => Scraping /\ commit_data_req_' # None
      BY <1>10
    <2> QED BY <1>1, <1>10, <2>1, <2>2, QueuesStayFit
  <1>17. Pipeline \cup InHand \subseteq Acquired /\ Acquired \subseteq Leases
    BY <1>1 DEF LocationInv, Acquired
  <1>18. LocationInv'
    <2>1. Pipeline' \cup InHand' \subseteq Acquired'
      BY <1>11, <1>12, <1>13, <1>17
    <2>2. ASSUME ~check_failed', NEW l \in Acquired' \ Pipeline'
          PROVE  l \in InHand' /\ chunk'[l].state = "kChunkBeingWritten"
      <3>1. ~check_failed /\ l \in Acquired \ Pipeline /\ l \notin Requested
        BY <1>6, <1>12, <1>13, <2>2 DEF Pipeline
      <3> QED BY <1>1, <1>11, <1>14, <1>17, <3>1 DEF LocationInv
    <2>3. \A l \in Leases' \ Acquired' : chunk'[l].state = "kChunkFree"
      <3>1. Requested \subseteq Acquired
        BY <1>17 DEF Pipeline
      <3> QED BY <1>1, <1>9, <1>13, <1>14, <3>1 DEF LocationInv
    <2> QED BY <1>1, <1>4, <1>16, <2>1, <2>2, <2>3 DEF LocationInv
  <1>19. ASSUME OrderInv PROVE OrderInv'
    <2>1. Before(Arrived', InChannel')
      <3>1. Before(Arrived, InChannel) /\ Before(Arrived, Requested)
        BY <1>19, BeforeUnions DEF OrderInv, Sent
      <3> QED BY <1>6, <1>7, <1>8, <1>9, <3>1, BeforeUnions DEF Before
    <2>2. Before(Sent', Requested')
      BY <1>9 DEF Before
    <2>3. Before(Pipeline', InHand')
      BY <1>11, <1>12, <1>19, BeforeIsMonotone DEF OrderInv
    <2>4. Before(Returning', Open')
      BY <1>9, <1>11, <1>19 DEF OrderInv
    <2>5. ~check_failed'
      <3>1. ASSUME NEW l \in Leases
            PROVE  ~(Mentions(req, l) > 1) /\ ~(Mentions(req, l) = 1 /\ chunk[l].state = "kChunkFree")
        <4>1. Mentions(req, l) \in Nat /\ Mentions(req, l) <= 1
          BY <1>5, <1>19, MentionsCount
        <4>2. Mentions(req, l) = 1 => l \in Requested
          BY <1>5, MentionsCount
        <4> QED BY <1>19, <4>1, <4>2 DEF OrderInv
      <3> QED BY <1>4, <1>19, <3>1 DEF OrderInv
    <2>6. \A l \in InHand' : chunk'[l].state = "kChunkBeingWritten"
      <3>1. Pipeline \subseteq Writers \X Nat
        BY <1>1, <1>17, LeasesAreTyped
      <3>2. Pipeline \cap InHand = {}
        BY <1>19, <3>1, BeforeIsApart DEF OrderInv
      <3> QED BY <1>11, <1>14, <1>17, <1>19, <3>2 DEF OrderInv, Pipeline
    <2>7. mode' = "kDefault" => \A l \in InChannel' : chunk'[l].state = "kChunkComplete"
      <3>1. ASSUME mode = "kDefault", NEW l \in InChannel \cup Requested
            PROVE  chunk'[l].state = "kChunkComplete"
        <4>1. l \in Leases
          BY <1>17 DEF Pipeline, Sent
        <4> QED BY <1>14, <1>19, <3>1, <4>1 DEF OrderInv
      <3> QED BY <1>6, <1>7, <1>8, <1>9, <3>1
    <2>8. commit_data_req_' = None /\ \A w \in Writers : Ascending(service.moved[w])'
      BY <1>4, <1>19 DEF OrderInv, Ascending
    <2> QED BY <1>8, <1>9, <1>19, <2>1, <2>2, <2>3, <2>4, <2>5, <2>6, <2>7, <2>8 DEF OrderInv
  <1> QED BY <1>1, <1>9, <1>15, <1>18, <1>19 DEF ChunkInv

\* FlushPendingCommitDataRequests, called or run as a task.
LEMMA FlushLockedKeepsChunks ==
  ASSUME ArbiterInv, ChunkInv, NEW t \in Threads, NEW cb \in SUBSET Callbacks, NEW rest,
         FlushLocked(t, cb, rest), UNCHANGED setup,
         \A ops \in Seq(Steps) : GoOn(t, ops, rest) => Does(t, ops),
         todo[t] # <<>> => ~IsReturn(Head(todo[t])),
         t = IPC => \A op \in Ops(IPC) : op.op # "Scrape"
  PROVE  ChunkInv'
  <1>1. Types /\ DataTypes
    BY DEF ArbiterInv, ChunkInv
  <1>2. UNCHANGED writer
    BY DEF FlushLocked
  <1>3. \A w \in Writers : /\ writer'[w].chunks = writer[w].chunks
                           /\ writer'[w].id = writer[w].id /\ writer'[w].open = writer[w].open
    BY <1>2
  <1>4. <<>> \in Seq(Steps) /\ ToSet(<<>>) = {}
    BY SetOfShort, EmptySeq
  <1>5. CASE FlushUnbound(t, cb, rest)
    <2>1. /\ GoOn(t, <<>>, rest)
          /\ UNCHANGED <<setup, commit_data_req_, channel, service, chunk, check_failed>>
      BY <1>5 DEF FlushUnbound
    <2>2. Does(t, <<>>)
      BY <1>4, <2>1
    <2> QED BY <1>3, <1>4, <2>1, <2>2, QuietCall
  <1>6. CASE FlushElsewhere(t, cb, rest)
    <2>1. PICK post : post = PostTask(FlushCall(cb))
      OBVIOUS
    <2>2. post \in Steps /\ ~IsReturn(post) /\ post.op # "Scrape"
      BY <2>1, StepsAreTyped, CallKinds
    <2>3. <<post>> \in Seq(Steps) /\ ToSet(<<post>>) = {post}
      BY <2>2, SetOfShort
    <2>4. /\ GoOn(t, <<post>>, rest)
          /\ UNCHANGED <<setup, commit_data_req_, channel, service, chunk, check_failed>>
      BY <1>6, <2>1 DEF FlushElsewhere
    <2>5. Does(t, <<post>>)
      BY <2>3, <2>4
    <2> QED BY <1>3, <2>2, <2>3, <2>4, <2>5, QuietCall
  <1>7. CASE FlushEmpty(t, cb, rest)
    <2>1. PICK m : m = CommitData(EmptyReq, cb)
      OBVIOUS
    <2>2. PICK q : q = IF cb = {} THEN <<>> ELSE <<m>>
      OBVIOUS
    <2>3. m \in Messages /\ m.req.chunks = <<>>
      <3>1. EmptyReq \in Requests /\ EmptyReq.chunks = <<>>
        BY EmptySeq DEF EmptyReq, Requests
      <3> QED BY <2>1, <3>1 DEF CommitData, Messages
    <2>4. q \in Seq(Messages) /\ \A x \in ToSet(q) : x.type = "CommitData" => x.req.chunks = <<>>
      BY <2>2, <2>3, SetOfShort, EmptySeq
    <2>5. /\ GoOn(t, <<>>, rest) /\ UNCHANGED <<setup, commit_data_req_, service, chunk, check_failed>>
          /\ channel' = IF cb = {} THEN channel ELSE Append(channel, m)
      BY <1>7, <2>1 DEF FlushEmpty
    <2>6. channel' = channel \o q
      <3>1. channel \in Seq(Messages)
        BY <1>1 DEF DataTypes
      <3>2. channel \o <<>> = channel /\ Append(channel, m) = channel \o <<m>>
        BY <2>3, <3>1, ConcatEmptySeq, AppendIsConcat
      <3> QED BY <2>2, <2>5, <3>2
    <2>7. Does(t, <<>>)
      BY <1>4, <2>5
    <2> QED BY <1>2, <1>4, <2>4, <2>5, <2>6, <2>7, ControlStep
  <1>8. CASE FlushRequest(t, cb, rest)
    <2>1. t = IPC
      BY <1>8 DEF FlushRequest
    <2> QED BY <1>2, <1>8, <2>1, FlushRequestKeepsChunks
  <1> QED BY <1>5, <1>6, <1>7, <1>8 DEF FlushLocked

\* A thread flushes.
LEMMA FlushPendingKeepsChunks ==
  ASSUME ArbiterInv, ChunkInv, NEW t \in Threads, FlushPendingCommitDataRequests(t), UNCHANGED setup
  PROVE  ChunkInv'
  <1>1. Types /\ FlushInv
    BY DEF ArbiterInv
  <1>2. PICK op : op = Head(todo[t])
    OBVIOUS
  <1>3. todo[t] # <<>> /\ op.op = "Flush" /\ FlushLocked(t, op.callback, Tail(todo[t]))
    BY <1>2 DEF FlushPendingCommitDataRequests, Doing
  <1>4. /\ op \in Ops(t) /\ op.callback \in SUBSET Callbacks /\ ~IsReturn(op)
        /\ \A ops \in Seq(Steps) : GoOn(t, ops, Tail(todo[t])) => Does(t, ops)
    BY <1>1, <1>2, <1>3, NextOp, StepFields DEF IsReturn
  <1>5. t = IPC => \A x \in Ops(IPC) : x.op # "Scrape"
    BY <1>1, <1>3, <1>4 DEF FlushInv
  <1> QED BY <1>2, <1>3, <1>4, <1>5, FlushLockedKeepsChunks

\* What a task is about, by its kind.
LEMMA TaskFields ==
  ASSUME NEW task \in Tasks
  PROVE  /\ task.op \in {"Flush", "Abort", "Send"}
         /\ task.op = "Flush" => task.callback \in SUBSET Callbacks
         /\ task.op = "Abort" => task.reservation \in Reservations
         /\ task.op = "Send" => task.msg \in Messages /\ task.msg.type # "CommitData"
  <1>1. CASE task \in FlushCalls
    BY <1>1 DEF FlushCalls
  <1>2. CASE task \in AbortCalls
    BY <1>2 DEF AbortCalls
  <1>3. CASE task \in SendCalls
    BY <1>3 DEF SendCalls, Messages
  <1> QED BY <1>1, <1>2, <1>3 DEF Tasks

\* A posted task runs.
LEMMA RunTaskKeepsChunks ==
  ASSUME ArbiterInv, ChunkInv, RunTask, UNCHANGED setup
  PROVE  ChunkInv'
  <1>1. Types /\ IPC \in Threads /\ DataTypes
    BY DEF ArbiterInv, ChunkInv, Threads
  <1>2. PICK task : task = Head(tasks)
    OBVIOUS
  <1>3. /\ Idle(IPC) /\ tasks # <<>>
        /\ CASE may_delete ->
                  UNCHANGED <<arbiter, timers, todo, memory, callers, port>>
             [] ~may_delete /\ task.op = "Flush" -> FlushLocked(IPC, task.callback, <<>>)
             [] ~may_delete /\ task.op = "Abort" -> AbortLocked(IPC, task.reservation, <<>>)
             [] ~may_delete /\ task.op = "Send" ->
                  /\ channel' = Append(channel, task.msg)
                  /\ UNCHANGED <<arbiter, timers, todo, memory, callers, service>>
    BY <1>2 DEF RunTask
  <1>4. task \in Tasks
    <2>1. tasks \in Seq(Tasks)
      BY <1>1 DEF Types
    <2> QED BY <1>2, <1>3, <2>1, HeadTailProperties
  <1>5. /\ todo[IPC] = <<>> /\ Ops(IPC) = {}
        /\ \A ops \in Seq(Steps) : GoOn(IPC, ops, <<>>) => Does(IPC, ops)
    BY <1>1, <1>3, SetOfShort DEF GoOn, Does, Rest, Idle, Ops
  <1>6. CASE may_delete
    <2>1. UNCHANGED <<setup, commit_data_req_, channel, service, chunk, check_failed, writer, todo>>
      BY <1>3, <1>6 DEF arbiter, batch, memory, port
    <2> QED BY <2>1, NothingMoves
  <1>7. CASE ~may_delete /\ task.op = "Flush"
    <2>1. FlushLocked(IPC, task.callback, <<>>) /\ task.callback \in SUBSET Callbacks
      BY <1>3, <1>4, <1>7, TaskFields
    <2> QED BY <1>1, <1>5, <2>1, FlushLockedKeepsChunks
  <1>8. CASE ~may_delete /\ task.op = "Abort"
    <2>1. AbortLocked(IPC, task.reservation, <<>>) /\ task.reservation \in Reservations
      BY <1>3, <1>4, <1>8, TaskFields
    <2> QED BY <1>3, <2>1, ResolvingKeepsChunks
  <1>9. CASE ~may_delete /\ task.op = "Send"
    <2>1. PICK m : m = task.msg
      OBVIOUS
    <2>2. /\ channel' = Append(channel, m) /\ m \in Messages /\ m.type # "CommitData"
          /\ UNCHANGED <<setup, commit_data_req_, service, chunk, check_failed, writer, todo>>
      BY <1>3, <1>4, <1>9, <2>1, TaskFields DEF arbiter, batch, memory
    <2>3. channel' = channel \o <<m>>
      BY <1>1, <2>2, AppendIsConcat DEF DataTypes
    <2>4. <<m>> \in Seq(Messages) /\ ToSet(<<m>>) = {m}
      BY <2>2, SetOfShort
    <2>5. Does(IPC, <<>>) /\ ToSet(<<>>) = {}
      BY <1>1, <1>3, <2>2, IdleDoes, SetOfShort
    <2> QED BY <1>5, <2>2, <2>3, <2>4, <2>5, ControlStep
  <1> QED BY <1>4, <1>6, <1>7, <1>8, <1>9, TaskFields

-----------------------------------------------------------------------------
(***************************************************************************)
(* Scraping.                                                               *)
(***************************************************************************)
\* There are finitely many chunks.
LEMMA LeasesAreFinite ==
  ASSUME Types
  PROVE  IsFiniteSet(Leases)
  <1> DEFINE D == DOMAIN setup.chunks
             f == [w \in D |-> {w} \X ChunksOf(w)]
             T == {f[w] : w \in D}
  <1>1. IsFiniteSet(D) /\ \A w \in D : setup.chunks[w] \in Nat
    BY SetupIsTyped, ArbiterAssumption DEF Types
  <1>2. IsFiniteSet(T)
    <2>1. f \in Surjection(D, T)
      BY DEF Surjection
    <2> HIDE DEF D, f, T
    <2> QED BY <1>1, <2>1, FS_Surjection
  <1>3. ASSUME NEW w \in D PROVE IsFiniteSet(f[w])
    <2>1. IsFiniteSet({w}) /\ IsFiniteSet(ChunksOf(w))
      <3>1. PICK m \in Nat : ChunksOf(w) = 1 .. m
        BY <1>1, <1>3 DEF ChunksOf
      <3>2. IsFiniteSet(1 .. m)
        BY FS_Interval
      <3>3. IsFiniteSet({w})
        BY FS_Singleton
      <3> QED BY <3>1, <3>2, <3>3
    <2>2. f[w] = {w} \X ChunksOf(w)
      BY <1>3
    <2> QED BY <2>1, <2>2, FS_Product
  <1>4. Leases = UNION T
    BY DEF Leases
  <1>5. \A x \in T : IsFiniteSet(x)
    BY <1>3
  <1> HIDE DEF T
  <1> QED BY <1>2, <1>4, <1>5, FS_UNION

\* The members of a finite set as a sequence.
LEMMA SetToSeqIsSound ==
  ASSUME NEW S, IsFiniteSet(S)
  PROVE  SetToSeq(S) \in Seq(S) /\ ToSet(SetToSeq(S)) = S
  <1>1. Cardinality(S) \in Nat /\ ExistsBijection(1 .. Cardinality(S), S)
    BY FS_CardinalityType
  <1>2. PICK n \in Nat : n = Cardinality(S)
    BY <1>1
  <1>3. PICK g : g \in Bijection(1 .. n, S)
    BY <1>1, <1>2 DEF ExistsBijection
  <1>4. g \in [1 .. n -> S] /\ IsInjective(g)
    BY <1>3 DEF Bijection, Injection, IsInjective
  <1>5. SetToSeq(S) \in [1 .. n -> S] /\ IsInjective(SetToSeq(S))
    BY <1>2, <1>4 DEF SetToSeq
  <1>6. PICK h : h = SetToSeq(S)
    OBVIOUS
  <1>7. h \in Injection(1 .. n, S)
    BY <1>5, <1>6 DEF Injection, IsInjective
  <1>8. IsFiniteSet(1 .. n) /\ Cardinality(1 .. n) = n
    BY FS_Interval
  <1>9. h \in Surjection(1 .. n, S)
    BY <1>2, <1>7, <1>8, FS_Injection
  <1>10. ToSet(h) = S
    BY <1>5, <1>6, <1>9 DEF Surjection, ToSet
  <1>11. h \in Seq(S)
    BY <1>5, <1>6, IsASeq
  <1> QED BY <1>6, <1>10, <1>11

\* The chunks that are found join the request.
LEMMA ScrapeEffect ==
  ASSUME ArbiterInv, ChunkInv, NEW found \in SUBSET Leases,
         ScrapeEmulatedSharedMemoryBuffer(found), UNCHANGED setup
  PROVE  /\ Scraping /\ \A l \in found : Scrapable(l)
         /\ todo[IPC] # <<>> /\ ~IsReturn(Head(todo[IPC])) /\ Does(IPC, <<>>)
         /\ UNCHANGED <<channel, service, chunk, check_failed, writer>>
         /\ commit_data_req_' \in Requests /\ commit_data_req_' # None
         /\ Requested' = Requested \cup found /\ commit_data_req_ # None
         /\ commit_data_req_'.flush_request_id = commit_data_req_.flush_request_id
  <1>1. /\ Types /\ DataTypes /\ LocationInv /\ QueuesFit /\ (~Scraping => OrderInv)
        /\ IPC \in Threads
    BY DEF ArbiterInv, ChunkInv, LocationInv, Threads
  <1>2. PICK op : op = Head(todo[IPC])
    OBVIOUS
  <1>3. PICK req : req = commit_data_req_
    OBVIOUS
  <1>4. PICK E : E = {[lease |-> l, target |-> service.writers[writer[l[1]].id], scraped |-> TRUE] :
                       l \in found}
    OBVIOUS
  <1>5. PICK s : s = SetToSeq(E)
    OBVIOUS
  <1>6. /\ todo[IPC] # <<>> /\ op.op = "Scrape" /\ ~IsReturn(op) /\ Then(IPC, <<>>)
        /\ \A l \in found : Scrapable(l)
        /\ commit_data_req_' = [req EXCEPT !.chunks = @ \o s]
        /\ UNCHANGED <<setup, channel, service, chunk, check_failed, writer>>
    BY <1>2, <1>3, <1>4, <1>5 DEF ScrapeEmulatedSharedMemoryBuffer, Doing, IsReturn, memory, port
  <1>7. op \in Ops(IPC) /\ Does(IPC, <<>>) /\ ToSet(<<>>) = {}
    BY <1>1, <1>2, <1>6, NextOp, SetOfShort, EmptySeq
  <1>8. Scraping /\ req \in Requests
    BY <1>1, <1>3, <1>6, <1>7 DEF QueuesFit, DataTypes
  <1>9. s \in Seq(Entries) /\ LeasesOf(s) = found
    <2> DEFINE entry(l) == [lease |-> l, target |-> service.writers[writer[l[1]].id], scraped |-> TRUE]
               f == [l \in found |-> entry(l)]
    <2>1. ASSUME NEW l \in found PROVE entry(l) \in Entries
      <3>1. l \in Writers \X Nat /\ l[1] \in Writers
        BY <1>1, LeasesAreTyped
      <3>2. PICK id : id = writer[l[1]].id
        OBVIOUS
      <3>3. id # 0
        BY <1>6, <3>2 DEF Scrapable
      <3>4. id \in Nat /\ id <= kMaxWriterID
        BY <1>1, <3>1, <3>2, WriterIsTyped DEF DataTypes
      <3>5. id \in WriterIDs
        BY <3>3, <3>4, ArbiterAssumption DEF WriterIDs
      <3>6. service.writers[id] \in Targets
        BY <1>1, <3>5 DEF DataTypes, Targets
      <3> QED BY <3>1, <3>2, <3>6 DEF Entries
    <2>2. IsFiniteSet(found)
      BY <1>1, LeasesAreFinite, FS_Subset
    <2>3. E = {f[l] : l \in found} /\ E \subseteq Entries
      BY <1>4, <2>1
    <2>4. IsFiniteSet(E)
      <3>1. f \in Surjection(found, E)
        BY <2>3 DEF Surjection
      <3> HIDE DEF f
      <3> QED BY <2>2, <3>1, FS_Surjection
    <2>5. s \in Seq(E) /\ ToSet(s) = E
      BY <1>5, <2>4, SetToSeqIsSound
    <2>6. s \in Seq(Entries)
      BY <2>3, <2>5
    <2>7. LeasesOf(s) = {e.lease : e \in E}
      BY <2>5 DEF LeasesOf
    <2>8. \A l \in found : entry(l).lease = l
      OBVIOUS
    <2>9. {e.lease : e \in E} = found
      BY <2>3, <2>8
    <2> QED BY <2>6, <2>7, <2>9
  <1>10. /\ commit_data_req_' \in Requests /\ commit_data_req_' # None
         /\ LeasesOf(commit_data_req_'.chunks) = Requested \cup found
         /\ commit_data_req_'.flush_request_id = req.flush_request_id
    <2>1. req.chunks \in Seq(Entries) /\ LeasesOf(req.chunks) = Requested
      BY <1>3, <1>8, NoneAssumption DEF Requests, Entries, Requested
    <2>2. req.chunks \o s \in Seq(Entries) /\ LeasesOf(req.chunks \o s) = Requested \cup found
      BY <1>9, <2>1, LeasesOfCat
    <2>3. /\ commit_data_req_' \in Requests /\ commit_data_req_'.chunks = req.chunks \o s
          /\ commit_data_req_'.flush_request_id = req.flush_request_id
      BY <1>6, <1>8, <2>2 DEF Requests, Entries
    <2> QED BY <2>2, <2>3, NoneAssumption
  <1> QED BY <1>1, <1>2, <1>3, <1>6, <1>7, <1>8, <1>10 DEF QueuesFit, Requested

\* Scraping puts chunks that writers have, or had, into the request.
LEMMA ScrapeKeepsChunks ==
  ASSUME ArbiterInv, ChunkInv, NEW found \in SUBSET Leases,
         ScrapeEmulatedSharedMemoryBuffer(found), UNCHANGED setup
  PROVE  ChunkInv'
  <1>1. /\ Types /\ DataTypes /\ LocationInv /\ QueuesFit /\ (~Scraping => OrderInv)
        /\ IPC \in Threads
    BY DEF ArbiterInv, ChunkInv, LocationInv, Threads
  <1>2. /\ Scraping /\ \A l \in found : Scrapable(l)
        /\ todo[IPC] # <<>> /\ ~IsReturn(Head(todo[IPC])) /\ Does(IPC, <<>>)
        /\ UNCHANGED <<channel, service, chunk, check_failed, writer>>
        /\ commit_data_req_' \in Requests /\ commit_data_req_' # None
        /\ Requested' = Requested \cup found
    BY ScrapeEffect
  <1>3. /\ Scraping' = Scraping /\ Leases' = Leases /\ Acquired' = Acquired
        /\ Arrived' = Arrived /\ InChannel' = InChannel /\ Open' = Open
    BY <1>2 DEF Scraping, mode, Leases, ChunksOf, Acquired, Arrived, InChannel, ChunksInAll, Open
  <1>4. Pipeline' = Pipeline \cup found
    BY <1>2, <1>3 DEF Pipeline, Sent
  <1>5. InHand' = InHand
    <2>1. Returning' = Returning
      BY <1>1, <1>2, SetOfShort, ReturningStays
    <2> QED BY <1>3, <2>1 DEF InHand
  <1>6. found \subseteq Acquired
    <2>1. \A l \in found : chunk[l].state # "kChunkFree"
      BY <1>2 DEF Scrapable
    <2> QED BY <1>1, <2>1 DEF LocationInv
  <1>7. QueuesFit'
    <2>1. \A x \in ToSet(<<>>) : ~IsReturn(x) /\ x.op # "Scrape"
      BY SetOfShort
    <2> QED BY <1>1, <1>2, <2>1, QueuesStayFit
  <1>8. LocationInv'
    BY <1>1, <1>2, <1>3, <1>4, <1>5, <1>6, <1>7 DEF LocationInv
  <1>9. DataTypes'
    BY <1>1, <1>2, <1>3 DEF DataTypes
  <1> QED BY <1>2, <1>3, <1>8, <1>9 DEF ChunkInv

-----------------------------------------------------------------------------
(***************************************************************************)
(* The service.                                                            *)
(***************************************************************************)
\* The members of a sequence at some of its places stay in their order.
LEMMA SelectedIsSound ==
  ASSUME NEW s \in Seq(Entries), NEW P \in SUBSET (DOMAIN s)
  PROVE  /\ Selected(s, P) \in Seq(Entries)
         /\ ToSet(Selected(s, P)) = {s[i] : i \in P}
         /\ Ascending(s) => Ascending(Selected(s, P))
  <1> DEFINE q == Sorted(P)
             r == Selected(s, P)
  <1>1. Len(s) \in Nat /\ DOMAIN s = 1 .. Len(s) /\ \A i \in DOMAIN s : s[i] \in Entries
    BY LenProperties, ElementOfSeq
  <1>2. P \subseteq Nat /\ IsFiniteSet(P)
    <2>1. PICK n \in Nat : n = Len(s)
      BY <1>1
    <2>2. IsFiniteSet(1 .. n)
      BY FS_Interval
    <2> QED BY <1>1, <2>1, <2>2, FS_Subset
  <1>3. PICK n \in Nat : n = Cardinality(P)
    BY <1>2, FS_CardinalityType
  <1>4. /\ ToSet(q) = P /\ DOMAIN q = 1 .. n
        /\ \A i, j \in 1 .. n : i < j => q[i] < q[j]
    BY <1>2, <1>3, SortedIsSound
  <1>5. DOMAIN r = 1 .. n /\ \A i \in 1 .. n : r[i] = s[q[i]] /\ q[i] \in P
    BY <1>3, <1>4 DEF Selected, ToSet
  <1>6. r = [i \in 1 .. n |-> s[q[i]]]
    BY <1>3 DEF Selected
  <1>7. r \in Seq(Entries)
    BY <1>1, <1>5, <1>6, IsASeq
  <1>8. ToSet(r) = {s[i] : i \in P}
    <2>1. ToSet(r) = {s[q[i]] : i \in 1 .. n}
      BY <1>5 DEF ToSet
    <2>2. \A x \in P : \E i \in 1 .. n : q[i] = x
      BY <1>4 DEF ToSet
    <2> QED BY <1>5, <2>1, <2>2
  <1>9. ASSUME Ascending(s) PROVE Ascending(r)
    <2> SUFFICES ASSUME NEW i \in 1 .. n, NEW j \in 1 .. n, i < j, r[i].lease[1] = r[j].lease[1]
                 PROVE  r[i].lease[2] < r[j].lease[2]
      BY <1>5 DEF Ascending
    <2>1. q[i] < q[j] /\ q[i] \in DOMAIN s /\ q[j] \in DOMAIN s
      BY <1>4, <1>5
    <2>2. r[i] = s[q[i]] /\ r[j] = s[q[j]]
      BY <1>5
    <2> HIDE DEF q, r
    <2> QED BY <1>9, <2>1, <2>2 DEF Ascending
  <1> QED BY <1>7, <1>8, <1>9

\* Patching leaves the state of a chunk alone.
LEMMA PatchedState ==
  ASSUME NEW c, NEW patches, NEW l, DOMAIN c = {"state", "needs_patching", "missing"}
  PROVE  /\ DOMAIN Patched(c, patches, l) = {"state", "needs_patching", "missing"}
         /\ Patched(c, patches, l).state = c.state
  BY DEF Patched

\* Messages without chunks arrive.
LEMMA ControlArrives ==
  ASSUME ArbiterInv, ChunkInv, channel # <<>>, Head(channel).type # "CommitData",
         channel' = Tail(channel),
         UNCHANGED <<setup, commit_data_req_, chunk, check_failed, writer, todo>>,
         NEW writers \in [WriterIDs -> Nat], service' = [service EXCEPT !.writers = writers]
  PROVE  ChunkInv'
  <1>1. DataTypes /\ LocationInv /\ (~Scraping => OrderInv)
    BY DEF ChunkInv
  <1>2. /\ channel' \in Seq(Messages) /\ InChannel' = InChannel
        /\ InOrder(channel) => InOrder(channel')
    <2>1. channel \in Seq(Messages)
      BY <1>1 DEF DataTypes
    <2>2. ChunksIn(Head(channel)) = {}
      BY DEF ChunksIn
    <2>3. /\ Tail(channel) \in Seq(Messages)
          /\ ChunksInAll(channel) = {} \cup ChunksInAll(Tail(channel))
          /\ InOrder(channel) => InOrder(Tail(channel))
      BY <2>1, <2>2, MessagesQueue
    <2> QED BY <2>3 DEF InChannel
  <1>3. /\ service'.moved = service.moved /\ service'.skipped = service.skipped
        /\ service' \in [writers: [WriterIDs -> Nat], moved: [Writers -> Seq(Entries)],
                         skipped: SUBSET (Writers \X Nat), replied: [Callbacks -> Nat],
                         flushed: SUBSET Nat]
    BY <1>1 DEF DataTypes
  <1>4. /\ Scraping' = Scraping /\ mode' = mode /\ Leases' = Leases /\ Arrived' = Arrived
        /\ Requested' = Requested /\ Returning' = Returning /\ Open' = Open
    BY <1>3 DEF Scraping, mode, Leases, ChunksOf, Arrived, Requested, Returning, ReturnedByAll, Open
  <1>5. Sent' = Sent /\ Pipeline' = Pipeline /\ InHand' = InHand /\ Acquired' = Acquired
    BY <1>2, <1>4 DEF Sent, Pipeline, InHand, Acquired
  <1>6. DataTypes'
    BY <1>1, <1>2, <1>3, <1>4 DEF DataTypes
  <1>7. LocationInv'
    <2>1. QueuesFit'
      BY <1>1, <1>4 DEF LocationInv, QueuesFit, Ops, ReturnOnce, MayReturn
    <2> QED BY <1>1, <1>3, <1>4, <1>5, <2>1 DEF LocationInv
  <1>8. OrderInv => OrderInv'
    BY <1>2, <1>3, <1>4, <1>5 DEF OrderInv, InOrder
  <1> QED BY <1>1, <1>4, <1>6, <1>7, <1>8 DEF ChunkInv

\* All chunks of the message arrive, and nothing else about the chunks changes.
TakesAll(msg) ==
    /\ ChunksIn(msg) \subseteq Leases
    /\ DOMAIN chunk' = Leases
    /\ \A l \in Leases :
          /\ DOMAIN chunk'[l] = {"state", "needs_patching", "missing"}
          /\ l \notin ChunksIn(msg) => chunk'[l].state = chunk[l].state
    /\ service' \in [writers: [WriterIDs -> Nat], moved: [Writers -> Seq(Entries)],
                     skipped: SUBSET (Writers \X Nat), replied: [Callbacks -> Nat],
                     flushed: SUBSET Nat]
    /\ service'.skipped = service.skipped
    /\ \A w \in Writers : \E added \in Seq(Entries) :
          /\ service'.moved[w] = service.moved[w] \o added
          /\ ToSet(added) = {e \in ToSet(msg.req.chunks) : e.lease[1] = w}
          /\ Ascending(msg.req.chunks) => Ascending(added)
    /\ service'.flushed = service.flushed \cup ({msg.req.flush_request_id} \ {0})
    /\ \A cb \in Callbacks :
          service'.replied[cb] = service.replied[cb] + (IF cb \in msg.callback THEN 1 ELSE 0)

\* What CommitData does to the chunks.
LEMMA CommitDataEffect ==
  ASSUME ChunkInv, channel # <<>>, NEW msg, msg = Head(channel), msg.type = "CommitData",
         ServiceCommitData(msg), Types
  PROVE  TakesAll(msg)
  <1> DEFINE req == msg.req
             Arrives(e) == use_shmem_emulation_ \/ chunk[e.lease].state = "kChunkComplete"
             arriving == {i \in DOMAIN req.chunks : Arrives(req.chunks[i])}
             leases == {req.chunks[i].lease : i \in arriving}
             patches == PatchesFor(req.patches, Arrived \cup leases)
             added(w) == Selected(req.chunks, {i \in arriving : req.chunks[i].lease[1] = w})
  <1>1. DataTypes /\ LocationInv /\ (~Scraping => OrderInv)
    BY DEF ChunkInv
  <1>2. /\ msg \in Messages /\ req \in Requests /\ req.chunks \in Seq(Entries)
        /\ ChunksIn(msg) = LeasesOf(req.chunks) /\ ChunksIn(msg) \subseteq InChannel
        /\ msg.callback \subseteq Callbacks
    <2>1. channel \in Seq(Messages)
      BY <1>1 DEF DataTypes
    <2>2. msg \in Messages /\ ChunksIn(msg) \subseteq InChannel
      BY <2>1, MessagesQueue DEF InChannel
    <2>3. req \in Requests /\ msg.callback \subseteq Callbacks
      BY <2>2 DEF Messages
    <2>4. req.chunks \in Seq(Entries)
      BY <2>3 DEF Requests, Entries
    <2> QED BY <2>2, <2>3, <2>4 DEF ChunksIn
  <1>3. InChannel \subseteq Leases
    BY <1>1 DEF LocationInv, Pipeline, Sent, Acquired
  <1>4. arriving = DOMAIN req.chunks
    <2> SUFFICES ASSUME NEW i \in DOMAIN req.chunks PROVE Arrives(req.chunks[i])
      OBVIOUS
    <2>1. req.chunks[i].lease \in ChunksIn(msg)
      BY <1>2 DEF LeasesOf, ToSet
    <2>2. CASE mode = "kDefault"
      <3>1. OrderInv
        BY <1>1, <2>2 DEF Scraping
      <3> QED BY <1>2, <2>1, <2>2, <3>1 DEF OrderInv
    <2>3. CASE mode # "kDefault"
      BY <2>3 DEF use_shmem_emulation_
    <2> QED BY <2>2, <2>3
  <1>5. leases = ChunksIn(msg)
    BY <1>2, <1>4 DEF LeasesOf, ToSet
  <1>6. \A w \in Writers :
           /\ added(w) \in Seq(Entries)
           /\ ToSet(added(w)) = {e \in ToSet(req.chunks) : e.lease[1] = w}
           /\ Ascending(req.chunks) => Ascending(added(w))
    <2> TAKE w \in Writers
    <2>1. PICK P : P = {i \in arriving : req.chunks[i].lease[1] = w}
      OBVIOUS
    <2>2. P \in SUBSET (DOMAIN req.chunks)
      BY <2>1
    <2>3. /\ Selected(req.chunks, P) \in Seq(Entries)
          /\ ToSet(Selected(req.chunks, P)) = {req.chunks[i] : i \in P}
          /\ Ascending(req.chunks) => Ascending(Selected(req.chunks, P))
      BY <1>2, <2>2, SelectedIsSound
    <2>4. {req.chunks[i] : i \in P} = {e \in ToSet(req.chunks) : e.lease[1] = w}
      BY <1>4, <2>1 DEF ToSet
    <2> QED BY <2>1, <2>3, <2>4
  <1>7. /\ chunk' = [l \in Leases |->
              Patched(IF l \in leases /\ ~use_shmem_emulation_
                      THEN [chunk[l] EXCEPT !.state = "kChunkFree"] ELSE chunk[l], patches, l)]
        /\ service' = [service EXCEPT
              !.moved = [w \in Writers |-> @[w] \o added(w)],
              !.skipped = @ \cup ({req.chunks[i].lease : i \in DOMAIN req.chunks} \ leases),
              !.flushed = @ \cup ({req.flush_request_id} \ {0}),
              !.replied = [cb \in Callbacks |-> IF cb \in msg.callback THEN @[cb] + 1 ELSE @[cb]]]
    BY DEF ServiceCommitData
  <1>8. ASSUME NEW l \in Leases
        PROVE  /\ DOMAIN chunk'[l] = {"state", "needs_patching", "missing"}
               /\ l \notin ChunksIn(msg) => chunk'[l].state = chunk[l].state
    <2>1. DOMAIN chunk[l] = {"state", "needs_patching", "missing"}
      BY <1>1 DEF DataTypes
    <2>2. PICK c : c = IF l \in leases /\ ~use_shmem_emulation_
                       THEN [chunk[l] EXCEPT !.state = "kChunkFree"] ELSE chunk[l]
      OBVIOUS
    <2>3. /\ DOMAIN c = {"state", "needs_patching", "missing"}
          /\ l \notin leases => c.state = chunk[l].state
      BY <2>1, <2>2
    <2>4. chunk'[l] = Patched(c, patches, l)
      BY <1>7, <2>2
    <2> HIDE DEF patches, leases
    <2> QED BY <1>5, <2>3, <2>4, PatchedState
  <1>9. {req.chunks[i].lease : i \in DOMAIN req.chunks} \ leases = {}
    BY <1>4
  <1>10. /\ service'.moved = [w \in Writers |-> service.moved[w] \o added(w)]
         /\ service'.skipped = service.skipped /\ service'.writers = service.writers
         /\ service'.flushed = service.flushed \cup ({req.flush_request_id} \ {0})
         /\ service'.replied = [cb \in Callbacks |-> IF cb \in msg.callback
                                  THEN service.replied[cb] + 1 ELSE service.replied[cb]]
         /\ DOMAIN service' = DOMAIN service
         /\ service' = [writers |-> service'.writers, moved |-> service'.moved,
                        skipped |-> service'.skipped, replied |-> service'.replied,
                        flushed |-> service'.flushed]
    <2>1. PICK x : x = service.skipped \cup ({req.chunks[i].lease : i \in DOMAIN req.chunks} \ leases)
      OBVIOUS
    <2>2. x = service.skipped
      BY <1>9, <2>1
    <2>3. service \in [writers: [WriterIDs -> Nat], moved: [Writers -> Seq(Entries)],
                       skipped: SUBSET (Writers \X Nat), replied: [Callbacks -> Nat],
                       flushed: SUBSET Nat]
      BY <1>1 DEF DataTypes
    <2> HIDE DEF added, leases, arriving, Arrives, patches
    <2> QED BY <1>7, <2>1, <2>2, <2>3
  <1>11. service'.moved \in [Writers -> Seq(Entries)]
    <2>1. \A w \in Writers : service.moved[w] \in Seq(Entries)
      BY <1>1 DEF DataTypes
    <2> HIDE DEF added
    <2>2. \A w \in Writers : service.moved[w] \o added(w) \in Seq(Entries)
      BY <1>6, <2>1, ConcatProperties
    <2> QED BY <1>10, <2>2
  <1>12. service'.flushed \in SUBSET Nat
    BY <1>1, <1>2, <1>10 DEF DataTypes, Requests
  <1>13. service'.replied \in [Callbacks -> Nat]
         /\ \A cb \in Callbacks :
              service'.replied[cb] = service.replied[cb] + (IF cb \in msg.callback THEN 1 ELSE 0)
    <2>1. PICK old \in [Callbacks -> Nat] : old = service.replied
      BY <1>1 DEF DataTypes
    <2>2. PICK new : new = service'.replied
      OBVIOUS
    <2>3. new = [cb \in Callbacks |-> IF cb \in msg.callback THEN old[cb] + 1 ELSE old[cb]]
      BY <1>10, <2>1, <2>2
    <2>4. \A cb \in Callbacks : old[cb] \in Nat
      BY <2>1
    <2>5. \A cb \in Callbacks : new[cb] \in Nat /\ new[cb] = old[cb] + (IF cb \in msg.callback THEN 1 ELSE 0)
      BY <2>3, <2>4
    <2> QED BY <2>1, <2>2, <2>3, <2>5
  <1>15. service' \in [writers: [WriterIDs -> Nat], moved: [Writers -> Seq(Entries)],
                       skipped: SUBSET (Writers \X Nat), replied: [Callbacks -> Nat],
                       flushed: SUBSET Nat]
    <2>1. service.writers \in [WriterIDs -> Nat] /\ service.skipped \in SUBSET (Writers \X Nat)
      BY <1>1 DEF DataTypes
    <2> HIDE DEF added
    <2> QED BY <1>10, <1>11, <1>12, <1>13, <2>1
  <1>16. \A w \in Writers : service'.moved[w] = service.moved[w] \o added(w)
    BY <1>10
  <1>17. DOMAIN chunk' = Leases
    BY <1>7
  <1> HIDE DEF added, arriving, Arrives, leases, patches
  <1> QED BY <1>2, <1>3, <1>6, <1>8, <1>10, <1>13, <1>15, <1>16, <1>17 DEF TakesAll

\* The chunks of the message are among those that arrived.
LEMMA TakingArrives ==
  ASSUME DataTypes, NEW msg \in Messages, msg.type = "CommitData", TakesAll(msg)
  PROVE  /\ Arrived' = Arrived \cup ChunksIn(msg)
         /\ \A w \in Writers : ToSet(service'.moved[w]) = ToSet(service.moved[w])
                                  \cup {e \in ToSet(msg.req.chunks) : e.lease[1] = w}
  <1>1. PICK C : C = ChunksIn(msg)
    OBVIOUS
  <1>2. msg.req.chunks \in Seq(Entries) /\ C = LeasesOf(msg.req.chunks)
    BY <1>1 DEF Messages, Requests, Entries, ChunksIn
  <1>3. \A w \in Writers : \E added \in Seq(Entries) :
              /\ service'.moved[w] = service.moved[w] \o added
              /\ ToSet(added) = {e \in ToSet(msg.req.chunks) : e.lease[1] = w}
    BY DEF TakesAll
  <1>4. \A w \in Writers : service.moved[w] \in Seq(Entries)
    BY DEF DataTypes
  <1>5. \A w \in Writers : ToSet(service'.moved[w]) = ToSet(service.moved[w])
                              \cup {e \in ToSet(msg.req.chunks) : e.lease[1] = w}
    <2> TAKE w \in Writers
    <2>1. PICK added \in Seq(Entries) :
             /\ service'.moved[w] = service.moved[w] \o added
             /\ ToSet(added) = {e \in ToSet(msg.req.chunks) : e.lease[1] = w}
      BY <1>3
    <2>2. ToSet(service.moved[w] \o added) = ToSet(service.moved[w]) \cup ToSet(added)
      BY <1>4, SetOfCat
    <2> QED BY <2>1, <2>2
  <1>6. /\ Arrived = UNION {LeasesOf(service.moved[w]) : w \in Writers}
        /\ Arrived' = UNION {LeasesOf(service'.moved[w]) : w \in Writers}
    BY DEF Arrived, LeasesOf, ToSet
  <1>7. Arrived' = Arrived \cup C
    <2>1. \A e \in ToSet(msg.req.chunks) : e.lease[1] \in Writers
      <3>1. \A i \in DOMAIN msg.req.chunks : msg.req.chunks[i] \in Entries
        BY <1>2, ElementOfSeq, LenProperties
      <3> QED BY <3>1 DEF ToSet, Entries
    <2>2. \A w \in Writers : LeasesOf(service'.moved[w]) = LeasesOf(service.moved[w])
                                 \cup {e.lease : e \in {x \in ToSet(msg.req.chunks) : x.lease[1] = w}}
      BY <1>5 DEF LeasesOf
    <2>3. C = UNION {{e.lease : e \in {x \in ToSet(msg.req.chunks) : x.lease[1] = w}} : w \in Writers}
      <3>1. \A e \in ToSet(msg.req.chunks) :
               e.lease \in {y.lease : y \in {x \in ToSet(msg.req.chunks) : x.lease[1] = e.lease[1]}}
        OBVIOUS
      <3> QED BY <1>2, <2>1, <3>1 DEF LeasesOf
    <2>4. PICK old, new : /\ old = [w \in Writers |-> LeasesOf(service.moved[w])]
                          /\ new = [w \in Writers |-> {e.lease : e \in {x \in ToSet(msg.req.chunks) : x.lease[1] = w}}]
      OBVIOUS
    <2>5. \A w \in Writers :
             /\ LeasesOf(service.moved[w]) = old[w]
             /\ LeasesOf(service'.moved[w]) = old[w] \cup new[w]
      BY <2>2, <2>4
    <2>6. /\ Arrived = UNION {old[w] : w \in Writers}
          /\ Arrived' = UNION {old[w] \cup new[w] : w \in Writers}
      BY <1>6, <2>5
    <2>7. C = UNION {new[w] : w \in Writers}
      BY <2>3, <2>4
    <2> QED BY <2>6, <2>7
  <1> QED BY <1>1, <1>5, <1>7

\* Chunks arrive in the order in which they were sent.
LEMMA CommitDataKeepsChunks ==
  ASSUME ArbiterInv, ChunkInv, channel # <<>>, NEW msg, msg = Head(channel),
         msg.type = "CommitData", ServiceCommitData(msg), channel' = Tail(channel),
         UNCHANGED <<setup, commit_data_req_, check_failed, writer, todo>>
  PROVE  ChunkInv'
  <1>1. DataTypes /\ LocationInv /\ (~Scraping => OrderInv) /\ Types
    BY DEF ChunkInv, ArbiterInv
  <1>2. PICK C : C = ChunksIn(msg)
    OBVIOUS
  <1>3. /\ msg.req.chunks \in Seq(Entries) /\ C = LeasesOf(msg.req.chunks)
        /\ channel' \in Seq(Messages) /\ InChannel = C \cup InChannel'
        /\ InOrder(channel) => /\ InOrder(channel') /\ Before(C, InChannel')
                               /\ Ascending(msg.req.chunks)
    <2>1. channel \in Seq(Messages)
      BY <1>1 DEF DataTypes
    <2>2. /\ msg \in Messages /\ Tail(channel) \in Seq(Messages)
          /\ ChunksInAll(channel) = ChunksIn(msg) \cup ChunksInAll(Tail(channel))
          /\ InOrder(channel) => /\ InOrder(Tail(channel))
                                 /\ Before(ChunksIn(msg), ChunksInAll(Tail(channel)))
                                 /\ Ascending(msg.req.chunks)
      BY <2>1, MessagesQueue
    <2>3. msg.req.chunks \in Seq(Entries)
      BY <2>2 DEF Messages, Requests, Entries
    <2> QED BY <1>2, <2>2, <2>3 DEF InChannel, ChunksIn
  <1>4. /\ C \subseteq Leases /\ DOMAIN chunk' = Leases
        /\ \A l \in Leases :
              /\ DOMAIN chunk'[l] = {"state", "needs_patching", "missing"}
              /\ l \notin C => chunk'[l].state = chunk[l].state
        /\ service' \in [writers: [WriterIDs -> Nat], moved: [Writers -> Seq(Entries)],
                         skipped: SUBSET (Writers \X Nat), replied: [Callbacks -> Nat],
                         flushed: SUBSET Nat]
        /\ service'.skipped = service.skipped
        /\ \A w \in Writers : \E added \in Seq(Entries) :
              /\ service'.moved[w] = service.moved[w] \o added
              /\ ToSet(added) = {e \in ToSet(msg.req.chunks) : e.lease[1] = w}
              /\ Ascending(msg.req.chunks) => Ascending(added)
        /\ msg \in Messages /\ TakesAll(msg)
    <2>1. TakesAll(msg)
      BY <1>1, CommitDataEffect
    <2>2. msg \in Messages
      BY <1>1, MessagesQueue DEF DataTypes
    <2> QED BY <1>2, <2>1, <2>2 DEF TakesAll
  <1>5. \A w \in Writers : service.moved[w] \in Seq(Entries)
    BY <1>1 DEF DataTypes
  <1>6. \A w \in Writers : ToSet(service'.moved[w]) = ToSet(service.moved[w])
                              \cup {e \in ToSet(msg.req.chunks) : e.lease[1] = w}
    BY <1>1, <1>2, <1>4, TakingArrives
  <1>7. /\ Arrived = UNION {LeasesOf(service.moved[w]) : w \in Writers}
        /\ Arrived' = UNION {LeasesOf(service'.moved[w]) : w \in Writers}
    BY DEF Arrived, LeasesOf, ToSet
  <1>8. Arrived' = Arrived \cup C
    BY <1>1, <1>2, <1>4, TakingArrives
  <1>9. /\ Scraping' = Scraping /\ mode' = mode /\ Leases' = Leases /\ Requested' = Requested
        /\ Returning' = Returning /\ Open' = Open
    BY DEF Scraping, mode, Leases, ChunksOf, Requested, Returning, ReturnedByAll, Open
  <1>10. Sent' = Sent
    BY <1>3, <1>8 DEF Sent
  <1>11. Pipeline' = Pipeline /\ InHand' = InHand /\ Acquired' = Acquired
    BY <1>9, <1>10 DEF Pipeline, InHand, Acquired
  <1>12. DataTypes'
    BY <1>1, <1>3, <1>4, <1>9 DEF DataTypes
  <1>13. C \subseteq Pipeline /\ C \subseteq Acquired /\ Pipeline \subseteq Writers \X Nat
    <2>1. C \subseteq Pipeline
      BY <1>3 DEF Pipeline, Sent
    <2>2. Pipeline \subseteq Acquired /\ Acquired \subseteq Leases
      BY <1>1 DEF LocationInv, Acquired
    <2>3. Leases \subseteq Writers \X Nat
      BY <1>1, LeasesAreTyped
    <2> QED BY <2>1, <2>2, <2>3
  <1>14. LocationInv'
    <2>1. QueuesFit'
      BY <1>1, <1>9 DEF LocationInv, QueuesFit, Ops, ReturnOnce, MayReturn
    <2>2. \A w \in Writers : \A e \in ToSet(service'.moved[w]) : e.lease[1] = w
      BY <1>1, <1>6 DEF LocationInv
    <2>3. Acquired \subseteq Leases
      BY DEF Acquired
    <2>4. ~check_failed' => \A l \in Acquired \ Pipeline :
                               l \in InHand /\ chunk'[l].state = "kChunkBeingWritten"
      BY <1>1, <1>4, <1>13, <2>3 DEF LocationInv
    <2>5. \A l \in Leases \ Acquired : chunk'[l].state = "kChunkFree"
      BY <1>1, <1>4, <1>13 DEF LocationInv
    <2> QED BY <1>1, <1>4, <1>9, <1>11, <2>1, <2>2, <2>4, <2>5 DEF LocationInv
  <1>15. ASSUME OrderInv PROVE OrderInv'
    <2>1. /\ InOrder(channel') /\ Before(C, InChannel') /\ Ascending(msg.req.chunks)
      BY <1>3, <1>15 DEF OrderInv
    <2>2. Before(Arrived', InChannel')
      <3>1. Before(Arrived, InChannel')
        BY <1>3, <1>15, BeforeIsMonotone DEF OrderInv
      <3> QED BY <1>8, <2>1, <3>1, BeforeUnions
    <2>3. ASSUME NEW w \in Writers PROVE Ascending(service'.moved[w])
      <3>1. PICK added \in Seq(Entries) :
               /\ service'.moved[w] = service.moved[w] \o added
               /\ ToSet(added) = {e \in ToSet(msg.req.chunks) : e.lease[1] = w}
               /\ Ascending(added)
        BY <1>4, <2>1
      <3>2. LeasesOf(added) \subseteq InChannel /\ LeasesOf(service.moved[w]) \subseteq Arrived
        BY <1>3, <1>7, <3>1 DEF LeasesOf
      <3>3. Before(LeasesOf(service.moved[w]), LeasesOf(added))
        BY <1>15, <3>2, BeforeIsMonotone DEF OrderInv
      <3>4. Ascending(service.moved[w])
        BY <1>15 DEF OrderInv
      <3> QED BY <1>5, <3>1, <3>3, <3>4, LeasesOfCat
    <2>4. InHand \cap C = {} /\ Requested \cap C = {} /\ InChannel' \cap C = {}
      <3>1. Pipeline \cap InHand = {}
        BY <1>13, <1>15, BeforeIsApart DEF OrderInv
      <3>2. Sent \cap Requested = {}
        BY <1>13, <1>15, BeforeIsApart DEF OrderInv, Pipeline
      <3>3. C \cap InChannel' = {}
        BY <1>13, <2>1, BeforeIsApart
      <3>4. C \subseteq Sent
        BY <1>3 DEF Sent
      <3> QED BY <1>13, <3>1, <3>2, <3>3, <3>4
    <2>5. InHand \subseteq Leases /\ Requested \subseteq Leases /\ InChannel' \subseteq Leases
      BY <1>1, <1>3 DEF LocationInv, Pipeline, Sent, Acquired
    <2>6. \A l \in InHand : chunk'[l].state = "kChunkBeingWritten"
      BY <1>4, <1>15, <2>4, <2>5 DEF OrderInv
    <2>7. \A l \in Requested : chunk'[l].state \in {"kChunkBeingWritten", "kChunkComplete"}
      BY <1>4, <1>15, <2>4, <2>5 DEF OrderInv
    <2>8. mode = "kDefault" => \A l \in InChannel' : chunk'[l].state = "kChunkComplete"
      BY <1>3, <1>4, <1>15, <2>4, <2>5 DEF OrderInv
    <2>9. InOrder(channel)' /\ (commit_data_req_' # None => Ascending(commit_data_req_'.chunks))
      BY <1>15, <2>1 DEF OrderInv, InOrder
    <2> QED BY <1>9, <1>10, <1>11, <1>15, <2>2, <2>3, <2>6, <2>7, <2>8, <2>9 DEF OrderInv
  <1> QED BY <1>1, <1>9, <1>12, <1>14, <1>15 DEF ChunkInv

\* The service takes the next message.
LEMMA ReceiveKeepsChunks ==
  ASSUME ArbiterInv, ChunkInv, Receive, UNCHANGED setup
  PROVE  ChunkInv'
  <1>1. PICK msg : msg = Head(channel)
    OBVIOUS
  <1>2. /\ channel # <<>> /\ channel' = Tail(channel)
        /\ UNCHANGED <<setup, commit_data_req_, check_failed, writer, todo>>
    BY DEF Receive, arbiter, batch, runner
  <1>3. msg \in Messages
    BY <1>1, <1>2, MessagesQueue DEF ChunkInv, DataTypes
  <1>4. CASE msg.type = "CommitData"
    <2>1. ServiceCommitData(msg)
      BY <1>1, <1>4 DEF Receive
    <2> QED BY <1>1, <1>2, <1>4, <2>1, CommitDataKeepsChunks
  <1>5. CASE msg.type = "Register"
    <2>1. RegisterTraceWriter(msg)
      BY <1>1, <1>5 DEF Receive
    <2>2. PICK writers : writers = [service.writers EXCEPT ![msg.id] = msg.buffer]
      OBVIOUS
    <2>3. msg.id \in WriterIDs /\ msg.buffer \in Nat
      BY <1>3, <1>5 DEF Messages
    <2>4. writers \in [WriterIDs -> Nat]
      BY <2>2, <2>3 DEF ChunkInv, DataTypes
    <2>5. service' = [service EXCEPT !.writers = writers] /\ UNCHANGED chunk
      BY <2>1, <2>2 DEF RegisterTraceWriter
    <2> QED BY <1>1, <1>2, <1>5, <2>4, <2>5, ControlArrives
  <1>6. CASE msg.type = "Unregister"
    <2>1. UnregisterTraceWriter(msg)
      BY <1>1, <1>6 DEF Receive
    <2>2. PICK writers : writers = [service.writers EXCEPT ![msg.id] = 0]
      OBVIOUS
    <2>3. writers \in [WriterIDs -> Nat]
      BY <2>2 DEF ChunkInv, DataTypes
    <2>4. service' = [service EXCEPT !.writers = writers] /\ UNCHANGED chunk
      BY <2>1, <2>2 DEF UnregisterTraceWriter
    <2> QED BY <1>1, <1>2, <1>6, <2>3, <2>4, ControlArrives
  <1>7. msg.type \in {"CommitData", "Register", "Unregister"}
    BY <1>3 DEF Messages
  <1> QED BY <1>4, <1>5, <1>6, <1>7

-----------------------------------------------------------------------------
(***************************************************************************)
(* The order of the chunks.                                                *)
(***************************************************************************)
\* Every step keeps the chunks in order.
LEMMA NextKeepsChunks ==
  ASSUME ArbiterInv, ChunkInv, [Next]_vars
  PROVE  ChunkInv'
  <1>1. CASE UNCHANGED vars
    BY <1>1, NothingMoves DEF vars, arbiter, batch, runner, memory, port
  <1>2. CASE Next
    <2>1. UNCHANGED setup
      BY <1>2 DEF Next
    <2>2. CASE Receive
      BY <2>1, <2>2, ReceiveKeepsChunks
    <2>3. ASSUME NEW t \in Threads, Call(t) PROVE ChunkInv'
      <3>1. ASSUME EnableDirectSMBPatching(t) PROVE ChunkInv'
        BY <2>1, <3>1, NothingMoves DEF EnableDirectSMBPatching, runner, memory, port
      <3> QED
        BY <2>1, <2>3, <3>1, CreateTraceWriterKeepsChunks, GetNewBufferKeepsChunks,
           ReturnCurrentChunkKeepsChunks, FinalizeNestedMessageKeepsChunks, SendPatchesKeepsChunks,
           FlushKeepsChunks, DestroyWriterKeepsChunks, AbortStartupTracingKeepsChunks DEF Call
    <2>4. ASSUME NEW t \in Threads, Continue(t) PROVE ChunkInv'
      BY <2>1, <2>4, UpdateCommitDataRequestKeepsChunks, FlushPendingKeepsChunks,
         ResolvingKeepsChunks, ReleaseWriterIDKeepsChunks, PostingKeepsChunks DEF Continue
    <2>5. CASE RunTask
      BY <2>1, <2>5, RunTaskKeepsChunks
    <2>6. ASSUME NEW kind \in {"delayed", "immediate"}, RunDelayedFlush(kind) PROVE ChunkInv'
      BY <2>1, <2>6, RunDelayedFlushKeepsChunks
    <2>7. CASE Scrape
      BY <2>1, <2>7, ScrapeKeepsChunks DEF Scrape
    <2>8. ASSUME NEW id \in FlushIDs, NotifyFlushComplete(id) PROVE ChunkInv'
      BY <2>1, <2>8, NotifyFlushCompleteKeepsChunks
    <2>9. CASE TryShutdown
      BY <2>1, <2>9, NothingMoves DEF TryShutdown, batch, runner, memory, port
    <2>10. CASE BindToProducerEndpoint
      BY <2>1, <2>10, BindToProducerEndpointKeepsChunks
    <2>11. ASSUME NEW r \in Reservations, NEW b \in Buffers, BindStartupTargetBuffer(r, b)
           PROVE  ChunkInv'
      BY <2>1, <2>11, ResolvingKeepsChunks
    <2> QED BY <1>2, <2>2, <2>3, <2>4, <2>5, <2>6, <2>7, <2>8, <2>9, <2>10, <2>11 DEF Next
  <1> QED BY <1>1, <1>2

\* At first there are no chunks anywhere.
LEMMA InitHasNoChunks ==
  ASSUME Init, Types
  PROVE  ChunkInv
  <1>1. /\ \A w \in Writers : service.moved[w] = <<>> /\ writer[w].open = 0 /\ writer[w].id = 0
                              /\ writer[w].chunks = 0
        /\ \A t \in Threads : todo[t] = <<>>
        /\ channel = <<>> /\ commit_data_req_ = None /\ ~check_failed /\ service.skipped = {}
        /\ \A l \in Leases : chunk[l].state = "kChunkFree"
    BY DEF Init
  <1>2. Arrived = {} /\ InChannel = {} /\ Requested = {} /\ Open = {} /\ Returning = {}
    <2>1. ToSet(<<>>) = {}
      BY SetOfShort
    <2>2. Arrived = {}
      BY <1>1 DEF Arrived
    <2>3. InChannel = {} /\ Returning = {}
      BY <1>1, <2>1 DEF InChannel, ChunksInAll, Returning, ReturnedByAll
    <2> QED BY <1>1, <2>2, <2>3 DEF Requested, Open
  <1>3. Sent = {} /\ Pipeline = {} /\ InHand = {}
    BY <1>2 DEF Sent, Pipeline, InHand
  <1>4. Acquired = {}
    <2>1. \A w, k : <<w, k>> \in Leases => w \in Writers /\ k \in Nat /\ k # 0
      BY LeasesAreTyped
    <2>2. \A l \in Leases : l = <<l[1], l[2]>>
      BY LeasesAreTyped
    <2>3. \A l \in Leases : ~(l[2] <= writer[l[1]].chunks)
      BY <1>1, <2>1, <2>2
    <2> QED BY <2>3 DEF Acquired
  <1>5. DataTypes
    <2>1. <<>> \in Seq(Messages) /\ <<>> \in Seq(Entries)
      BY EmptySeq
    <2>2. service \in [writers: [WriterIDs -> Nat], moved: [Writers -> Seq(Entries)],
                       skipped: SUBSET (Writers \X Nat), replied: [Callbacks -> Nat],
                       flushed: SUBSET Nat]
      BY <2>1 DEF Init
    <2>3. \A w \in DOMAIN setup.chunks : setup.chunks[w] \in Nat
      BY SetupIsTyped
    <2>4. /\ DOMAIN chunk = Leases /\ check_failed \in BOOLEAN
          /\ \A l \in Leases : DOMAIN chunk[l] = {"state", "needs_patching", "missing"}
      BY DEF Init
    <2>5. \A w \in Writers : writer[w].id <= kMaxWriterID
      BY <1>1, ArbiterAssumption
    <2>6. \A w \in Writers :
             writer[w].chunks <= IF w \in DOMAIN setup.chunks THEN setup.chunks[w] ELSE 0
      BY <1>1, <2>3
    <2> QED BY <1>1, <2>1, <2>2, <2>4, <2>5, <2>6 DEF DataTypes
  <1>6. LocationInv
    <2>1. QueuesFit
      <3>1. \A t \in Threads : Ops(t) = {} /\ ReturnOnce(todo[t])
        BY <1>1, SetOfShort DEF Ops, ReturnOnce
      <3>2. IPC \in Threads
        BY DEF Threads
      <3> QED BY <3>1, <3>2 DEF QueuesFit
    <2>2. \A w \in Writers : ToSet(service.moved[w]) = {}
      BY <1>1, SetOfShort
    <2> QED BY <1>1, <1>2, <1>3, <1>4, <2>1, <2>2 DEF LocationInv
  <1>7. OrderInv
    <2>1. Ascending(<<>>)
      BY LeasesOfShort
    <2>2. InOrder(<<>>)
      BY DEF InOrder
    <2>3. \A A, B : A = {} \/ B = {} => Before(A, B)
      BY DEF Before
    <2> QED BY <1>1, <1>2, <1>3, <2>1, <2>2, <2>3 DEF OrderInv
  <1> QED BY <1>5, <1>6, <1>7 DEF ChunkInv

\* The chunks of a writer stay in order from the writer to the service, and each
\* is in the state that its place calls for.
THEOREM ChunkInvariant == Spec => []ChunkInv
  <1>1. ArbiterInv /\ Init => ChunkInv
    BY InitHasNoChunks DEF ArbiterInv
  <1>2. ArbiterInv /\ ChunkInv /\ [Next]_vars => ChunkInv'
    BY NextKeepsChunks
  <1> QED BY <1>1, <1>2, ArbiterInvariant, PTL DEF Spec

\* What the invariant says of the chunks that arrived.
LEMMA InvariantKeepsOrder ==
  ASSUME ChunkInv
  PROVE  CommitsInOrder /\ NoCommittedChunkSkipped /\ ArbiterChecksHold
  <1>1. NoCommittedChunkSkipped
    BY DEF ChunkInv, LocationInv, NoCommittedChunkSkipped
  <1>2. ArbiterChecksHold
    BY DEF ChunkInv, OrderInv, ArbiterChecksHold
  <1>3. CommitsInOrder
    <2> SUFFICES ASSUME ~Scraping, NEW w \in Writers,
                        NEW i \in DOMAIN service.moved[w], NEW j \in DOMAIN service.moved[w], i < j
                 PROVE  service.moved[w][i].lease[2] < service.moved[w][j].lease[2]
      BY DEF CommitsInOrder
    <2>1. Ascending(service.moved[w])
      BY DEF ChunkInv, OrderInv
    <2>2. \A n \in DOMAIN service.moved[w] : service.moved[w][n].lease[1] = w
      BY DEF ChunkInv, LocationInv, ToSet
    <2> QED BY <2>1, <2>2 DEF Ascending
  <1> QED BY <1>1, <1>2, <1>3

\* "We must guarantee that we don't accidentally make commits out of order": for
\* any number of threads and writers, batches of any size, and however often the
\* arbiter is bound, the service sees the chunks of a writer as they were written.
THEOREM CommitsAreInOrder == Spec => []CommitsInOrder
  <1> QED BY ChunkInvariant, InvariantKeepsOrder, PTL

\* The service passes over no committed chunk: each is complete, or there is no
\* shared memory to look at, when its request arrives.
THEOREM CommittedChunksAreTaken == Spec => []NoCommittedChunkSkipped
  <1> QED BY ChunkInvariant, InvariantKeepsOrder, PTL

\* The PERFETTO_CHECKs of a chunk's state hold whenever chunks are not scraped.
THEOREM ChecksHold == Spec => []ArbiterChecksHold
  <1> QED BY ChunkInvariant, InvariantKeepsOrder, PTL

-----------------------------------------------------------------------------
(***************************************************************************)
(* What the callbacks of Flush and the flush replies were promised, and    *)
(* where they are.                                                         *)
(***************************************************************************)
\* The callbacks that a step, a task or a message carries.
Carries(call) == IF call.op = "Flush" THEN call.callback ELSE {}

CallbacksIn(x) ==
    IF "op" \notin DOMAIN x THEN (IF x.type = "CommitData" THEN x.callback ELSE {})
    ELSE IF x.op = "PostTask" THEN Carries(x.task) ELSE Carries(x)

Carried(q) == UNION {CallbacksIn(x) : x \in ToSet(q)}

\* No two members of a sequence carry the same callback.
Once(q) == \A i, j \in DOMAIN q : CallbacksIn(q[i]) \cap CallbacksIn(q[j]) # {} => i = j

Replied == {cb \in Callbacks : service.replied[cb] > 0}

\* The callbacks and flush ids that the service answers when it gets a message.
Answered(m) ==
    IF m.type = "CommitData" THEN m.callback \cup ({m.req.flush_request_id} \ {0}) ELSE {}

ChunksUpTo(q, j) == UNION {ChunksIn(q[i]) : i \in 1 .. j}

\* What x was promised to cover is in S; or will be, unless the process is gone.
Covered(x, S)     == x \in DOMAIN promised /\ promised[x] \subseteq S
CoveredSoon(x, S) == x \in DOMAIN promised /\ (check_failed \/ promised[x] \subseteq S)

\* When a message arrives, everything it answers for has arrived.
SentCovered ==
    \A j \in DOMAIN channel : \A x \in Answered(channel[j]) :
        Covered(x, Arrived \cup ChunksUpTo(channel, j))

RequestId == IF commit_data_req_ = None THEN 0 ELSE commit_data_req_.flush_request_id

\* The chunk that a thread returns next, before it does anything else.
ReturnedNext(q) == IF q = <<>> THEN {} ELSE ReturnedBy(Head(q))

\* Wherever a callback waits, what it was promised is further on.
CoverInv ==
    /\ \A x \in Replied \cup service.flushed : Covered(x, Arrived)
    /\ SentCovered
    /\ RequestId # 0 => CoveredSoon(RequestId, Pipeline)
    /\ \A cb \in pending_flush_callbacks_ \cup Carried(tasks) : CoveredSoon(cb, Pipeline)
    /\ \A t \in Threads : \A cb \in Carried(todo[t]) :
          CoveredSoon(cb, Pipeline \cup ReturnedNext(todo[t]))

\* Where a callback may be.
Places == ({"pending", "posted", "sent", "replied"} \X {None}) \cup ({"thread"} \X Threads)

In(p) ==
    CASE p[1] = "pending" -> pending_flush_callbacks_
      [] p[1] = "posted"  -> Carried(tasks)
      [] p[1] = "sent"    -> Carried(channel)
      [] p[1] = "replied" -> Replied
      [] p[1] = "thread"  -> Carried(todo[p[2]])

\* Every callback is in one place at most, and there once.
OnceInv ==
    /\ \A p, q \in Places : In(p) \cap In(q) # {} => p = q
    /\ Once(tasks) /\ Once(channel) /\ \A t \in Threads : Once(todo[t])
    /\ \A cb \in Callbacks : service.replied[cb] <= 1

PromiseInv == CoverInv /\ OnceInv

-----------------------------------------------------------------------------
(***************************************************************************)
(* Sequences of what may carry callbacks.                                  *)
(***************************************************************************)
\* What the steps, the tasks and the messages carry.
LEMMA WhatCarries ==
  /\ \A cb : CallbacksIn(FlushCall(cb)) = cb /\ CallbacksIn(PostTask(FlushCall(cb))) = cb
  /\ \A task \in Tasks :
        /\ CallbacksIn(task) = IF task.op = "Flush" THEN task.callback ELSE {}
        /\ CallbacksIn(PostTask(task)) = CallbacksIn(task)
        /\ CallbacksIn(task) \subseteq Callbacks
  /\ \A op \in Steps :
        /\ op.op = "Flush" => CallbacksIn(op) = op.callback
        /\ op.op = "PostTask" => CallbacksIn(op) = CallbacksIn(op.task)
        /\ op.op \notin {"Flush", "PostTask"} => CallbacksIn(op) = {}
        /\ CallbacksIn(op) \subseteq Callbacks
  /\ \A m \in Messages :
        /\ CallbacksIn(m) = IF m.type = "CommitData" THEN m.callback ELSE {}
        /\ CallbacksIn(m) \subseteq Callbacks
        /\ CallbacksIn(m) \subseteq Answered(m)
  <1>1. \A cb : CallbacksIn(FlushCall(cb)) = cb /\ CallbacksIn(PostTask(FlushCall(cb))) = cb
    BY DEF CallbacksIn, Carries, FlushCall, PostTask
  <1>2. ASSUME NEW task \in Tasks
        PROVE  /\ CallbacksIn(task) = IF task.op = "Flush" THEN task.callback ELSE {}
               /\ CallbacksIn(PostTask(task)) = CallbacksIn(task)
               /\ CallbacksIn(task) \subseteq Callbacks
    <2>1. "op" \in DOMAIN task /\ task.op # "PostTask"
      BY <1>2 DEF Tasks, FlushCalls, AbortCalls, SendCalls
    <2>2. CallbacksIn(task) = Carries(task) /\ CallbacksIn(PostTask(task)) = Carries(task)
      BY <2>1 DEF CallbacksIn, PostTask
    <2>3. task.op = "Flush" => task.callback \subseteq Callbacks
      BY <1>2, TaskFields
    <2> QED BY <2>2, <2>3 DEF Carries
  <1>3. ASSUME NEW op \in Steps
        PROVE  /\ op.op = "Flush" => CallbacksIn(op) = op.callback
               /\ op.op = "PostTask" => CallbacksIn(op) = CallbacksIn(op.task)
               /\ op.op \notin {"Flush", "PostTask"} => CallbacksIn(op) = {}
               /\ CallbacksIn(op) \subseteq Callbacks
    <2>1. "op" \in DOMAIN op
      BY <1>3 DEF Steps, FlushCalls, AbortCalls, Posts, Delays, Releases, Returns, Scrapes
    <2>2. op.op = "Flush" => op.callback \subseteq Callbacks
      BY <1>3, StepFields
    <2>3. ASSUME op.op = "PostTask"
          PROVE  CallbacksIn(op) = CallbacksIn(op.task) /\ CallbacksIn(op) \subseteq Callbacks
      <3>1. op.task \in Tasks
        BY <1>3, <2>3, StepFields
      <3>2. CallbacksIn(op) = Carries(op.task)
        BY <2>1, <2>3 DEF CallbacksIn
      <3> QED BY <1>2, <3>1, <3>2 DEF Carries
    <2> QED BY <2>1, <2>2, <2>3 DEF CallbacksIn, Carries
  <1>4. ASSUME NEW m \in Messages
        PROVE  /\ CallbacksIn(m) = IF m.type = "CommitData" THEN m.callback ELSE {}
               /\ CallbacksIn(m) \subseteq Callbacks
               /\ CallbacksIn(m) \subseteq Answered(m)
    <2>1. "op" \notin DOMAIN m /\ (m.type = "CommitData" => m.callback \subseteq Callbacks)
      BY <1>4 DEF Messages
    <2> QED BY <2>1 DEF CallbacksIn, Answered
  <1> QED BY <1>1, <1>2, <1>3, <1>4

\* Putting sequences together.
LEMMA CarriedCat ==
  ASSUME NEW S, NEW a \in Seq(S), NEW b \in Seq(S)
  PROVE  /\ Carried(a \o b) = Carried(a) \cup Carried(b)
         /\ Once(a) /\ Once(b) /\ Carried(a) \cap Carried(b) = {} => Once(a \o b)
  <1>1. PICK c : c = a \o b
    OBVIOUS
  <1>2. ToSet(c) = ToSet(a) \cup ToSet(b)
    BY <1>1, SetOfCat
  <1>3. Carried(c) = Carried(a) \cup Carried(b)
    BY <1>2 DEF Carried
  <1>4. ASSUME Once(a), Once(b), Carried(a) \cap Carried(b) = {} PROVE Once(c)
    <2>1. /\ Len(a) \in Nat /\ DOMAIN a = 1 .. Len(a) /\ DOMAIN b = 1 .. Len(b)
          /\ \A i \in DOMAIN c : i \in Int /\
               IF i <= Len(a) THEN i \in DOMAIN a /\ c[i] = a[i]
               ELSE i - Len(a) \in DOMAIN b /\ c[i] = b[i - Len(a)]
      BY <1>1, CatPlaces
    <2>2. SUFFICES ASSUME NEW i \in DOMAIN c, NEW j \in DOMAIN c,
                          NEW cb \in CallbacksIn(c[i]), cb \in CallbacksIn(c[j])
                   PROVE  i = j
      BY DEF Once
    <2>3. i <= Len(a) => cb \in Carried(a)
      BY <2>1, <2>2 DEF Carried, ToSet
    <2>4. ~(i <= Len(a)) => cb \in Carried(b)
      BY <2>1, <2>2 DEF Carried, ToSet
    <2>5. j <= Len(a) => cb \in Carried(a)
      BY <2>1, <2>2 DEF Carried, ToSet
    <2>6. ~(j <= Len(a)) => cb \in Carried(b)
      BY <2>1, <2>2 DEF Carried, ToSet
    <2>7. CASE i <= Len(a) /\ j <= Len(a)
      BY <1>4, <2>1, <2>2, <2>7 DEF Once
    <2>8. CASE ~(i <= Len(a)) /\ ~(j <= Len(a))
      <3>1. i - Len(a) = j - Len(a)
        BY <1>4, <2>1, <2>2, <2>8 DEF Once
      <3> QED BY <2>1, <3>1
    <2> QED BY <1>4, <2>3, <2>4, <2>5, <2>6, <2>7, <2>8
  <1> QED BY <1>1, <1>3, <1>4

\* Taking the first of a sequence.
LEMMA CarriedQueue ==
  ASSUME NEW S, NEW q \in Seq(S), q # <<>>
  PROVE  /\ Carried(q) = CallbacksIn(Head(q)) \cup Carried(Tail(q))
         /\ Once(q) => Once(Tail(q)) /\ CallbacksIn(Head(q)) \cap Carried(Tail(q)) = {}
  <1>1. ToSet(q) = {Head(q)} \cup ToSet(Tail(q))
    BY SetOfQueue
  <1>2. /\ Len(q) \in Nat \ {0} /\ DOMAIN q = 1 .. Len(q)
        /\ DOMAIN Tail(q) = 1 .. Len(q) - 1 /\ Head(q) = q[1]
        /\ \A i \in DOMAIN Tail(q) : i + 1 \in DOMAIN q /\ Tail(q)[i] = q[i + 1]
    BY TailPlaces
  <1>3. ASSUME Once(q) PROVE Once(Tail(q))
    <2>1. SUFFICES ASSUME NEW i \in DOMAIN Tail(q), NEW j \in DOMAIN Tail(q),
                          CallbacksIn(Tail(q)[i]) \cap CallbacksIn(Tail(q)[j]) # {}
                   PROVE  i = j
      BY DEF Once
    <2>2. i + 1 = j + 1
      BY <1>2, <1>3, <2>1 DEF Once
    <2> QED BY <1>2, <2>2
  <1>4. ASSUME Once(q), NEW cb \in CallbacksIn(Head(q)), cb \in Carried(Tail(q)) PROVE FALSE
    <2>1. PICK i \in DOMAIN Tail(q) : cb \in CallbacksIn(Tail(q)[i])
      BY <1>4 DEF Carried, ToSet
    <2>2. i + 1 = 1 /\ i \in 1 .. Len(q) - 1
      BY <1>2, <1>4, <2>1 DEF Once
    <2> QED BY <1>2, <2>2
  <1>5. Carried(q) = CallbacksIn(Head(q)) \cup Carried(Tail(q))
    BY <1>1 DEF Carried
  <1> QED BY <1>3, <1>4, <1>5

\* Short sequences.
LEMMA CarriedShort ==
  /\ Carried(<<>>) = {} /\ Once(<<>>)
  /\ \A x : Carried(<<x>>) = CallbacksIn(x) /\ Once(<<x>>)
  <1>1. Carried(<<>>) = {} /\ Once(<<>>)
    BY SetOfShort DEF Carried, Once
  <1>2. ASSUME NEW x PROVE Carried(<<x>>) = CallbacksIn(x) /\ Once(<<x>>)
    <2>1. Carried(<<x>>) = CallbacksIn(x)
      BY SetOfShort DEF Carried
    <2>2. DOMAIN <<x>> = {1}
      OBVIOUS
    <2> QED BY <2>1, <2>2 DEF Once
  <1> QED BY <1>1, <1>2

\* A sequence whose members carry nothing.
LEMMA CarriesNothing ==
  ASSUME NEW q, \A x \in ToSet(q) : CallbacksIn(x) = {}
  PROVE  Carried(q) = {} /\ Once(q)
  BY DEF Carried, Once, ToSet

-----------------------------------------------------------------------------
(***************************************************************************)
(* Callbacks move from one place to another.                               *)
(***************************************************************************)
\* Callbacks S come to place b, and are at no other place then.
LEMMA CallbacksMove ==
  ASSUME OnceInv, NEW S, NEW b \in Places,
         In(b)' \subseteq In(b) \cup S,
         \A p \in Places \ {b} : In(p)' \subseteq In(p) /\ In(p)' \cap S = {}
  PROVE  \A p, q \in Places : In(p)' \cap In(q)' # {} => p = q
  <1> SUFFICES ASSUME NEW p \in Places, NEW q \in Places, p # q, NEW cb \in In(p)', cb \in In(q)'
               PROVE  FALSE
    OBVIOUS
  <1>1. ~(cb \in In(p) /\ cb \in In(q))
    BY DEF OnceInv
  <1>2. CASE p = b
    BY <1>1, <1>2
  <1>3. CASE q = b
    BY <1>1, <1>3
  <1> QED BY <1>1, <1>2, <1>3

\* What is where.
LEMMA AllPlaces ==
  /\ In(<<"pending", None>>) = pending_flush_callbacks_
  /\ In(<<"posted", None>>) = Carried(tasks)
  /\ In(<<"sent", None>>) = Carried(channel)
  /\ In(<<"replied", None>>) = Replied
  /\ \A t : In(<<"thread", t>>) = Carried(todo[t])
  BY DEF In

\* The first step of a queue, if there is one.
HeadCarries(q) == IF q = <<>> THEN {} ELSE CallbacksIn(Head(q))

\* What a step does to the callbacks of the queues.
LEMMA CarriedEffect ==
  ASSUME Types, OnceInv, NEW t, NEW ops, Does(t, ops)
  PROVE  /\ Carried(todo[t]) = HeadCarries(todo[t]) \cup Carried(Rest(t))
         /\ HeadCarries(todo[t]) \cap Carried(Rest(t)) = {} /\ Once(Rest(t))
         /\ Carried(todo'[t]) = Carried(ops) \cup Carried(Rest(t))
         /\ Once(ops) /\ Carried(ops) \cap Carried(Rest(t)) = {} => Once(todo'[t])
         /\ \A u \in Threads \ {t} : todo'[u] = todo[u]
  <1>1. /\ t \in Threads /\ ops \in Seq(Steps) /\ todo \in [Threads -> Seq(Steps)]
        /\ todo' = [todo EXCEPT ![t] = ops \o Rest(t)] /\ Rest(t) \in Seq(Steps)
        /\ \A u \in Threads \ {t} : todo'[u] = todo[u]
    BY DoesEffect DEF Does, Types
  <1>2. todo'[t] = ops \o Rest(t)
    BY <1>1
  <1>3. /\ Carried(todo'[t]) = Carried(ops) \cup Carried(Rest(t))
        /\ Once(ops) /\ Once(Rest(t)) /\ Carried(ops) \cap Carried(Rest(t)) = {} => Once(todo'[t])
    BY <1>1, <1>2, CarriedCat
  <1>4. Once(todo[t])
    BY <1>1 DEF OnceInv
  <1>5. /\ Carried(todo[t]) = HeadCarries(todo[t]) \cup Carried(Rest(t))
        /\ HeadCarries(todo[t]) \cap Carried(Rest(t)) = {} /\ Once(Rest(t))
    <2>1. CASE todo[t] = <<>>
      BY <2>1, CarriedShort DEF Rest, HeadCarries
    <2>2. CASE todo[t] # <<>>
      <3>1. todo[t] \in Seq(Steps)
        BY <1>1
      <3>2. /\ Carried(todo[t]) = CallbacksIn(Head(todo[t])) \cup Carried(Tail(todo[t]))
            /\ CallbacksIn(Head(todo[t])) \cap Carried(Tail(todo[t])) = {} /\ Once(Tail(todo[t]))
        BY <1>4, <2>2, <3>1, CarriedQueue
      <3> QED BY <2>2, <3>2 DEF Rest, HeadCarries
    <2> QED BY <2>1, <2>2
  <1> QED BY <1>1, <1>3, <1>5

\* Callbacks S move in a step of thread t: to its next steps, or to one of the
\* other places.
LEMMA OnceStep ==
  ASSUME Types, OnceInv, NEW t, NEW ops, Does(t, ops), UNCHANGED service,
         NEW S, S \cap Carried(Rest(t)) = {}, S \cap Replied = {},
         \A u \in Threads \ {t} : S \cap Carried(todo[u]) = {},
         NEW b \in {"thread", "pending", "posted", "sent"},
         Once(ops), Carried(ops) \subseteq IF b = "thread" THEN S ELSE {},
         pending_flush_callbacks_' \subseteq
            pending_flush_callbacks_ \cup IF b = "pending" THEN S ELSE {},
         b # "pending" => pending_flush_callbacks_' \cap S = {},
         Once(tasks'), Carried(tasks') \subseteq Carried(tasks) \cup IF b = "posted" THEN S ELSE {},
         b # "posted" => Carried(tasks') \cap S = {},
         Once(channel'),
         Carried(channel') \subseteq Carried(channel) \cup IF b = "sent" THEN S ELSE {},
         b # "sent" => Carried(channel') \cap S = {}
  PROVE  OnceInv'
  <1> DEFINE place == IF b = "thread" THEN <<"thread", t>> ELSE <<b, None>>
  <1>1. t \in Threads /\ todo \in [Threads -> Seq(Steps)] /\ todo' \in [Threads -> Seq(Steps)]
    BY DoesEffect DEF Does, Types
  <1>2. /\ Carried(todo[t]) = HeadCarries(todo[t]) \cup Carried(Rest(t)) /\ Once(Rest(t))
        /\ Carried(todo'[t]) = Carried(ops) \cup Carried(Rest(t))
        /\ Once(ops) /\ Carried(ops) \cap Carried(Rest(t)) = {} => Once(todo'[t])
        /\ \A u \in Threads \ {t} : todo'[u] = todo[u]
    BY CarriedEffect
  <1>3. Replied' = Replied
    BY DEF Replied
  <1>4. place \in Places
    BY <1>1 DEF Places
  <1>5. /\ In(<<"pending", None>>)' = pending_flush_callbacks_'
        /\ In(<<"posted", None>>)' = Carried(tasks')
        /\ In(<<"sent", None>>)' = Carried(channel')
        /\ In(<<"replied", None>>)' = Replied'
        /\ \A u : In(<<"thread", u>>)' = Carried(todo'[u])
    BY DEF In
  <1>6. In(place)' \subseteq In(place) \cup S
    <2>1. CASE b = "thread"
      <3>1. In(place)' = Carried(todo'[t]) /\ In(place) = Carried(todo[t])
        BY <1>5, <2>1, AllPlaces
      <3> QED BY <1>2, <2>1, <3>1
    <2>2. CASE b = "pending"
      BY <1>5, <2>2, AllPlaces
    <2>3. CASE b = "posted"
      BY <1>5, <2>3, AllPlaces
    <2>4. CASE b = "sent"
      BY <1>5, <2>4, AllPlaces
    <2> QED BY <2>1, <2>2, <2>3, <2>4
  <1>7. ASSUME NEW p \in Places \ {place} PROVE In(p)' \subseteq In(p) /\ In(p)' \cap S = {}
    <2>1. CASE p = <<"pending", None>>
      BY <1>5, <1>7, <2>1, AllPlaces
    <2>2. CASE p = <<"posted", None>>
      BY <1>5, <1>7, <2>2, AllPlaces
    <2>3. CASE p = <<"sent", None>>
      BY <1>5, <1>7, <2>3, AllPlaces
    <2>4. CASE p = <<"replied", None>>
      BY <1>3, <1>5, <2>4, AllPlaces
    <2>5. ASSUME NEW u \in Threads, p = <<"thread", u>>
          PROVE  In(p)' \subseteq In(p) /\ In(p)' \cap S = {}
      <3>1. In(p)' = Carried(todo'[u]) /\ In(p) = Carried(todo[u])
        BY <1>5, <2>5, AllPlaces
      <3>2. CASE u = t
        <4>1. b # "thread"
          BY <1>7, <2>5, <3>2
        <4> QED BY <1>2, <3>1, <3>2, <4>1
      <3>3. CASE u # t
        BY <1>2, <3>1, <3>3
      <3> QED BY <3>2, <3>3
    <2>6. \/ p \in {<<"pending", None>>, <<"posted", None>>, <<"sent", None>>, <<"replied", None>>}
          \/ \E u \in Threads : p = <<"thread", u>>
      BY <1>7 DEF Places
    <2> QED BY <2>1, <2>2, <2>3, <2>4, <2>5, <2>6
  <1>8. \A p, q \in Places : In(p)' \cap In(q)' # {} => p = q
    <2> HIDE DEF place
    <2> QED BY <1>4, <1>6, <1>7, CallbacksMove
  <1>9. ASSUME NEW u \in Threads PROVE Once(todo'[u])
    <2>1. Once(todo[u])
      BY <1>9 DEF OnceInv
    <2>2. Carried(ops) \cap Carried(Rest(t)) = {}
      OBVIOUS
    <2> QED BY <1>2, <2>1, <2>2
  <1>10. \A cb \in Callbacks : service'.replied[cb] <= 1
    BY DEF OnceInv
  <1>11. /\ (\A p, q \in Places : In(p) \cap In(q) # {} => p = q)'
         /\ Once(tasks)' /\ Once(channel)'
         /\ (\A u \in Threads : Once(todo[u]))'
         /\ (\A cb \in Callbacks : service.replied[cb] <= 1)'
    BY <1>8, <1>9, <1>10
  <1> QED BY <1>11 DEF OnceInv

-----------------------------------------------------------------------------
(***************************************************************************)
(* What was promised moves on.                                             *)
(***************************************************************************)
\* Promises that were made stay.
PromisesStay == \A x \in DOMAIN promised : x \in DOMAIN promised' /\ promised'[x] = promised[x]

\* A step of thread t adds nothing that was not covered before, except new.
LEMMA CoverStep ==
  ASSUME Types, CoverInv, NEW t, NEW ops, Does(t, ops), UNCHANGED service, PromisesStay,
         NEW new, \A cb \in new : CoveredSoon(cb, Pipeline \cup ReturnedNext(todo[t]))',
         check_failed => check_failed',
         ~check_failed' => Pipeline \subseteq Pipeline' /\ ReturnedNext(todo[t]) \subseteq Pipeline',
         SentCovered', RequestId' \in {0, RequestId} \/ CoveredSoon(RequestId, Pipeline)',
         pending_flush_callbacks_' \cup Carried(tasks') \cup (Carried(ops) \ new)
            \subseteq pending_flush_callbacks_ \cup Carried(tasks) \cup HeadCarries(todo[t])
  PROVE  CoverInv'
  <1>1. /\ t \in Threads /\ ops \in Seq(Steps) /\ todo \in [Threads -> Seq(Steps)]
        /\ todo' \in [Threads -> Seq(Steps)] /\ todo'[t] = ops \o Rest(t)
        /\ Rest(t) \in Seq(Steps) /\ \A u \in Threads \ {t} : todo'[u] = todo[u]
    BY DoesEffect DEF Does, Types
  <1>2. Carried(todo'[t]) = Carried(ops) \cup Carried(Rest(t))
    BY <1>1, CarriedCat
  <1>3. Carried(todo[t]) = HeadCarries(todo[t]) \cup Carried(Rest(t))
    <2>1. CASE todo[t] = <<>>
      BY <2>1, CarriedShort DEF Rest, HeadCarries
    <2>2. CASE todo[t] # <<>>
      <3>1. todo[t] \in Seq(Steps)
        BY <1>1
      <3>2. Carried(todo[t]) = CallbacksIn(Head(todo[t])) \cup Carried(Tail(todo[t]))
        BY <2>2, <3>1, CarriedQueue
      <3> QED BY <2>2, <3>2 DEF Rest, HeadCarries
    <2> QED BY <2>1, <2>2
  <1>4. /\ Arrived' = Arrived /\ Replied' = Replied /\ service'.flushed = service.flushed
        /\ \A x \in DOMAIN promised : x \in DOMAIN promised' /\ promised'[x] = promised[x]
    BY DEF Arrived, Replied, PromisesStay
  <1>5. ASSUME NEW cb \in pending_flush_callbacks_ \cup Carried(tasks) \cup Carried(todo[t])
        PROVE  cb \in DOMAIN promised' /\ (check_failed' \/ promised'[cb] \subseteq Pipeline')
    <2>1. cb \in DOMAIN promised
          /\ (check_failed \/ promised[cb] \subseteq Pipeline \cup ReturnedNext(todo[t]))
      BY <1>1, <1>5 DEF CoverInv, CoveredSoon
    <2> QED BY <1>4, <2>1
  <1>6. ASSUME NEW x \in Replied' \cup service'.flushed PROVE Covered(x, Arrived)'
    BY <1>4, <1>6 DEF CoverInv, Covered
  <1>7. RequestId' # 0 => CoveredSoon(RequestId, Pipeline)'
    <2>1. SUFFICES ASSUME RequestId' # 0, RequestId' \in {0, RequestId}
                   PROVE  CoveredSoon(RequestId, Pipeline)'
      OBVIOUS
    <2>2. RequestId' = RequestId /\ CoveredSoon(RequestId, Pipeline)
      BY <2>1 DEF CoverInv
    <2> QED BY <1>4, <2>2 DEF CoveredSoon
  <1>8. ASSUME NEW cb \in pending_flush_callbacks_' \cup Carried(tasks') \cup (Carried(ops) \ new)
        PROVE  CoveredSoon(cb, Pipeline)'
    BY <1>3, <1>5, <1>8 DEF CoveredSoon
  <1>9. ASSUME NEW u \in Threads, NEW cb \in Carried(todo'[u])
        PROVE  CoveredSoon(cb, Pipeline \cup ReturnedNext(todo[u]))'
    <2>1. CASE u = t
      <3>1. cb \in new \/ CoveredSoon(cb, Pipeline)'
        BY <1>2, <1>3, <1>5, <1>8, <1>9, <2>1 DEF CoveredSoon
      <3> QED BY <2>1, <3>1 DEF CoveredSoon
    <2>2. CASE u # t
      <3>1. todo'[u] = todo[u]
        BY <1>1, <2>2
      <3>2. cb \in DOMAIN promised
            /\ (check_failed \/ promised[cb] \subseteq Pipeline \cup ReturnedNext(todo[u]))
        BY <1>9, <3>1 DEF CoverInv, CoveredSoon
      <3> QED BY <1>4, <3>1, <3>2 DEF CoveredSoon
    <2> QED BY <2>1, <2>2
  <1>10. /\ (\A x \in Replied \cup service.flushed : Covered(x, Arrived))'
         /\ (\A cb \in pending_flush_callbacks_ \cup Carried(tasks) : CoveredSoon(cb, Pipeline))'
         /\ (\A u \in Threads : \A cb \in Carried(todo[u]) :
               CoveredSoon(cb, Pipeline \cup ReturnedNext(todo[u])))'
    BY <1>6, <1>8, <1>9
  <1> QED BY <1>7, <1>10 DEF CoverInv

\* The chunks of all messages up to the last.
LEMMA ChunksUpToAll ==
  ASSUME NEW q \in Seq(Messages)
  PROVE  /\ ChunksUpTo(q, Len(q)) = ChunksInAll(q)
         /\ \A j \in DOMAIN q : ChunksUpTo(q, j) \subseteq ChunksInAll(q)
  <1>1. DOMAIN q = 1 .. Len(q) /\ Len(q) \in Nat
    BY LenProperties
  <1> QED BY <1>1 DEF ChunksUpTo, ChunksInAll, ToSet

\* Sending messages of which only the last answers for anything.
LEMMA SendingCovers ==
  ASSUME SentCovered, channel \in Seq(Messages), UNCHANGED <<service, promised>>,
         NEW q \in Seq(Messages), channel' = channel \o q,
         \A i \in DOMAIN q : \A x \in Answered(q[i]) :
            i = Len(q) /\ Covered(x, Arrived \cup ChunksInAll(channel'))
  PROVE  SentCovered'
  <1>1. /\ channel' \in Seq(Messages) /\ Len(channel) \in Nat
        /\ DOMAIN channel = 1 .. Len(channel) /\ DOMAIN channel' = 1 .. Len(channel) + Len(q)
        /\ \A i \in DOMAIN channel : i \in DOMAIN channel' /\ channel'[i] = channel[i]
        /\ \A i \in DOMAIN channel' :
               IF i <= Len(channel) THEN i \in DOMAIN channel /\ channel'[i] = channel[i]
               ELSE i - Len(channel) \in DOMAIN q /\ channel'[i] = q[i - Len(channel)]
    BY CatPlaces
  <1>2. Arrived' = Arrived /\ promised' = promised
    BY DEF Arrived
  <1>3. Len(q) \in Nat /\ Len(channel') = Len(channel) + Len(q)
    BY ConcatProperties, LenProperties
  <1>4. ASSUME NEW j \in DOMAIN channel', NEW x \in Answered(channel'[j])
        PROVE  Covered(x, Arrived \cup ChunksUpTo(channel, j))'
    <2>1. CASE j <= Len(channel)
      <3>1. j \in DOMAIN channel /\ channel'[j] = channel[j]
        BY <1>1, <1>4, <2>1
      <3>2. Covered(x, Arrived \cup ChunksUpTo(channel, j))
        BY <1>4, <3>1 DEF SentCovered
      <3>3. \A i \in 1 .. j : channel'[i] = channel[i]
        BY <1>1, <3>1
      <3>4. ChunksUpTo(channel', j) = ChunksUpTo(channel, j)
        BY <3>3 DEF ChunksUpTo
      <3> QED BY <1>2, <3>2, <3>4 DEF Covered
    <2>2. CASE ~(j <= Len(channel))
      <3>1. j - Len(channel) \in DOMAIN q /\ channel'[j] = q[j - Len(channel)]
        BY <1>1, <1>4, <2>2
      <3>2. j - Len(channel) = Len(q) /\ Covered(x, Arrived \cup ChunksInAll(channel'))
        BY <1>4, <3>1
      <3>3. j = Len(channel')
        BY <1>1, <1>3, <1>4, <3>2
      <3>4. ChunksUpTo(channel', j) = ChunksInAll(channel')
        BY <1>1, <3>3, ChunksUpToAll
      <3> QED BY <1>2, <3>2, <3>4 DEF Covered
    <2> QED BY <2>1, <2>2
  <1>5. (\A j \in DOMAIN channel : \A x \in Answered(channel[j]) :
            Covered(x, Arrived \cup ChunksUpTo(channel, j)))'
    BY <1>4
  <1> QED BY <1>5 DEF SentCovered

\* A step of thread t that leaves every callback where it is.
LEMMA NothingMovesOnce ==
  ASSUME Types, OnceInv, NEW t, NEW ops, Does(t, ops), Carried(ops) = {}, Once(ops),
         UNCHANGED <<pending_flush_callbacks_, tasks, service>>,
         Carried(channel') = Carried(channel), Once(channel')
  PROVE  OnceInv'
  <1> DEFINE S == {}
  <1>1. S \cap Carried(Rest(t)) = {} /\ S \cap Replied = {}
        /\ \A u \in Threads \ {t} : S \cap Carried(todo[u]) = {}
    OBVIOUS
  <1>2. Once(tasks')
    BY DEF OnceInv
  <1>3. /\ Carried(ops) \subseteq IF "pending" = "thread" THEN S ELSE {}
        /\ pending_flush_callbacks_' \subseteq
             pending_flush_callbacks_ \cup IF "pending" = "pending" THEN S ELSE {}
        /\ Carried(tasks') \subseteq Carried(tasks) \cup IF "pending" = "posted" THEN S ELSE {}
        /\ Carried(tasks') \cap S = {}
        /\ Carried(channel') \subseteq Carried(channel) \cup IF "pending" = "sent" THEN S ELSE {}
        /\ Carried(channel') \cap S = {}
    OBVIOUS
  <1> HIDE DEF S
  <1> QED BY <1>1, <1>2, <1>3, OnceStep

\* A step of thread t that does nothing to callbacks, but may send messages
\* that answer for nothing.
LEMMA PromiseQuietStep ==
  ASSUME Types, DataTypes, PromiseInv, NEW t, NEW ops, Does(t, ops), Carried(ops) = {}, Once(ops),
         UNCHANGED <<pending_flush_callbacks_, tasks, service, promised>>,
         check_failed => check_failed',
         ~check_failed' => Pipeline \subseteq Pipeline' /\ ReturnedNext(todo[t]) \subseteq Pipeline',
         NEW q \in Seq(Messages), channel' = channel \o q, \A m \in ToSet(q) : Answered(m) = {},
         RequestId' \in {0, RequestId}
  PROVE  PromiseInv'
  <1>1. channel \in Seq(Messages)
    BY DEF DataTypes
  <1>2. \A i \in DOMAIN q : Answered(q[i]) = {}
    BY DEF ToSet
  <1>3. SentCovered'
    BY <1>1, <1>2, SendingCovers DEF PromiseInv, CoverInv
  <1>4. CoverInv'
    BY <1>3, CoverStep DEF PromiseInv, PromisesStay
  <1>5. Carried(q) = {} /\ Once(q)
    <2>1. ASSUME NEW m \in ToSet(q) PROVE CallbacksIn(m) = {}
      <3>1. m \in Messages
        BY <2>1 DEF ToSet
      <3> QED BY <2>1, <3>1, WhatCarries
    <2> QED BY <2>1, CarriesNothing
  <1>6. Carried(channel') = Carried(channel) /\ Once(channel')
    <2>1. Once(channel)
      BY DEF PromiseInv, OnceInv
    <2>2. /\ Carried(channel \o q) = Carried(channel) \cup Carried(q)
          /\ Once(channel) /\ Once(q) /\ Carried(channel) \cap Carried(q) = {} => Once(channel \o q)
      BY <1>1, CarriedCat
    <2> QED BY <1>5, <2>1, <2>2
  <1>7. OnceInv'
    BY <1>6, NothingMovesOnce DEF PromiseInv
  <1> QED BY <1>4, <1>7 DEF PromiseInv

-----------------------------------------------------------------------------
(***************************************************************************)
(* Steps that carry no callback.                                           *)
(***************************************************************************)
LEMMA EmptyHands ==
  /\ CallbacksIn(FlushCall({})) = {} /\ CallbacksIn(PostTask(FlushCall({}))) = {}
  /\ \A w, k : CallbacksIn(ReturnCall(w, k)) = {}
  /\ \A r : CallbacksIn(AbortCall(r)) = {} /\ CallbacksIn(PostTask(AbortCall(r))) = {}
  /\ \A m : CallbacksIn(PostTask(SendCall(m))) = {}
  /\ \A kind : CallbacksIn(PostFlush(kind)) = {}
  /\ \A w : CallbacksIn([op |-> "ReleaseWriterID", w |-> w]) = {}
  /\ CallbacksIn([op |-> "Scrape"]) = {}
  BY DEF CallbacksIn, Carries, FlushCall, PostTask, ReturnCall, AbortCall, SendCall, PostFlush

\* A step of thread t that may add to the request.
LEMMA RequestGrows ==
  ASSUME ArbiterInv, ChunkInv, PromiseInv, NEW t, NEW ops, Does(t, ops),
         \A op \in ToSet(ops) : CallbacksIn(op) = {},
         UNCHANGED <<pending_flush_callbacks_, tasks, service, promised, channel>>,
         check_failed => check_failed', RequestId' = RequestId,
         Requested \subseteq Requested', ReturnedNext(todo[t]) \subseteq Requested'
  PROVE  PromiseInv'
  <1>1. Types /\ DataTypes
    BY DEF ArbiterInv, ChunkInv
  <1>2. Carried(ops) = {} /\ Once(ops)
    BY CarriesNothing
  <1>3. Sent' = Sent
    BY DEF Sent, Arrived, InChannel, ChunksInAll
  <1>4. Pipeline \subseteq Pipeline' /\ ReturnedNext(todo[t]) \subseteq Pipeline'
    BY <1>3 DEF Pipeline
  <1>5. PICK q : q = <<>>
    OBVIOUS
  <1>6. q \in Seq(Messages) /\ channel' = channel \o q /\ \A m \in ToSet(q) : Answered(m) = {}
    <2>1. channel \in Seq(Messages)
      BY <1>1 DEF DataTypes
    <2>2. q \in Seq(Messages) /\ ToSet(q) = {} /\ channel \o q = channel
      BY <1>5, <2>1, SetOfShort, EmptySeq, ConcatEmptySeq
    <2> QED BY <2>2
  <1> QED BY <1>1, <1>2, <1>4, <1>6, PromiseQuietStep

\* A step of thread t that returns no chunk and changes nothing that is on its way.
LEMMA QuietHands ==
  ASSUME ArbiterInv, ChunkInv, PromiseInv, NEW t, NEW ops, Does(t, ops),
         \A op \in ToSet(ops) : CallbacksIn(op) = {},
         todo[t] # <<>> => ~IsReturn(Head(todo[t])),
         UNCHANGED <<pending_flush_callbacks_, tasks, service, promised, channel,
                     commit_data_req_, check_failed>>
  PROVE  PromiseInv'
  <1>1. Requested' = Requested /\ RequestId' = RequestId
    BY DEF Requested, RequestId
  <1>2. ReturnedNext(todo[t]) = {}
    BY DEF ReturnedNext, ReturnedBy
  <1> QED BY <1>1, <1>2, RequestGrows

\* Steps of a writer that return its open chunk, perhaps, and carry nothing.
LEMMA ReturnOpenCarriesNothing ==
  ASSUME Types, NEW w \in Writers
  PROVE  ReturnOpenChunk(w) \in Seq(Steps) /\ \A op \in ToSet(ReturnOpenChunk(w)) : CallbacksIn(op) = {}
  <1>1. ReturnOpenChunk(w) = <<>> \/ ReturnOpenChunk(w) = <<ReturnCall(w, writer[w].open)>>
    BY DEF ReturnOpenChunk
  <1>2. ReturnOpenChunk(w) \in Seq(Steps)
    BY ReturnOpenChunkDoes
  <1> QED BY <1>1, <1>2, SetOfShort, EmptyHands

\* Calls into a writer other than Flush.
LEMMA WriterCallKeepsPromises ==
  ASSUME ArbiterInv, ChunkInv, PromiseInv, NEW t \in Threads, NEW w \in DOMAIN setup.chunks,
         UNCHANGED setup,
         \/ \E np \in 0 .. setup.patches, sync \in BOOLEAN : GetNewBuffer(t, w, np, sync)
         \/ ReturnCurrentChunk(t, w)
         \/ \E j \in DOMAIN writer[w].patch_list : FinalizeNestedMessage(t, w, j)
         \/ SendPatches(t, w)
         \/ DestroyWriter(t, w)
  PROVE  PromiseInv'
  <1>1. Types /\ w \in Writers
    BY SetupIsTyped DEF ArbiterInv
  <1>2. /\ Idle(t) /\ UNCHANGED <<pending_flush_callbacks_, tasks, service, promised, channel,
                                  commit_data_req_, check_failed>>
    BY DEF GetNewBuffer, ReturnCurrentChunk, FinalizeNestedMessage, SendPatches, DestroyWriter, Owns,
           arbiter, binding, batch, runner, memory, callers, port
  <1>3. PICK flush : flush = FlushCall({})
    OBVIOUS
  <1>4. PICK release : release = [op |-> "ReleaseWriterID", w |-> w]
    OBVIOUS
  <1>5. PICK a : a = ReturnOpenChunk(w)
    OBVIOUS
  <1>6. /\ flush \in Steps /\ CallbacksIn(flush) = {}
        /\ release \in Steps /\ CallbacksIn(release) = {}
        /\ a \in Seq(Steps) /\ \A op \in ToSet(a) : CallbacksIn(op) = {}
    BY <1>1, <1>3, <1>4, <1>5, StepsAreTyped, EmptyHands, ReturnOpenCarriesNothing
  <1>7. /\ <<>> \in Seq(Steps) /\ ToSet(<<>>) = {}
        /\ <<flush>> \in Seq(Steps) /\ ToSet(<<flush>>) = {flush}
        /\ <<release>> \in Seq(Steps) /\ ToSet(<<release>>) = {release}
    BY <1>6, SetOfShort, EmptySeq
  <1>8. PICK ops \in Seq(Steps) : Does(t, ops) /\ \A op \in ToSet(ops) : CallbacksIn(op) = {}
    <2>1. ASSUME NEW np \in 0 .. setup.patches, NEW sync \in BOOLEAN, GetNewBuffer(t, w, np, sync)
          PROVE  \E ops \in Seq(Steps) : Does(t, ops) /\ \A op \in ToSet(ops) : CallbacksIn(op) = {}
      <3>1. PICK b : b = IF sync THEN <<flush>> ELSE <<>>
        OBVIOUS
      <3>2. todo' = [todo EXCEPT ![t] = b \o a]
        BY <1>3, <1>5, <2>1, <3>1 DEF GetNewBuffer, ReturnOpenChunk
      <3>3. b \in Seq(Steps) /\ \A op \in ToSet(b) : CallbacksIn(op) = {}
        BY <1>6, <1>7, <3>1
      <3>4. b \o a \in Seq(Steps) /\ ToSet(b \o a) = ToSet(b) \cup ToSet(a)
        BY <1>6, <3>3, SetOfCat
      <3>5. Does(t, b \o a)
        BY <1>1, <1>2, <3>2, <3>4, IdleDoes
      <3> QED BY <1>6, <3>3, <3>4, <3>5
    <2>2. ASSUME ReturnCurrentChunk(t, w)
          PROVE  \E ops \in Seq(Steps) : Does(t, ops) /\ \A op \in ToSet(ops) : CallbacksIn(op) = {}
      <3>1. todo' = [todo EXCEPT ![t] = a]
        BY <1>5, <2>2 DEF ReturnCurrentChunk, ReturnOpenChunk
      <3> QED BY <1>1, <1>2, <1>6, <3>1, IdleDoes
    <2>3. ASSUME NEW j \in DOMAIN writer[w].patch_list, FinalizeNestedMessage(t, w, j)
          PROVE  \E ops \in Seq(Steps) : Does(t, ops) /\ \A op \in ToSet(ops) : CallbacksIn(op) = {}
      <3>1. UNCHANGED todo
        BY <2>3 DEF FinalizeNestedMessage, runner
      <3> QED BY <1>1, <1>2, <1>7, <3>1, IdleDoes
    <2>4. ASSUME SendPatches(t, w)
          PROVE  \E ops \in Seq(Steps) : Does(t, ops) /\ \A op \in ToSet(ops) : CallbacksIn(op) = {}
      <3>1. PICK call : call = ReturnCall(w, 0)
        OBVIOUS
      <3>2. call \in Steps /\ CallbacksIn(call) = {}
        BY <1>1, <3>1, StepsAreTyped, EmptyHands
      <3>3. <<call>> \in Seq(Steps) /\ ToSet(<<call>>) = {call}
        BY <3>2, SetOfShort
      <3>4. todo' = [todo EXCEPT ![t] = <<call>>]
        BY <2>4, <3>1 DEF SendPatches
      <3> QED BY <1>1, <1>2, <3>2, <3>3, <3>4, IdleDoes
    <2>5. ASSUME DestroyWriter(t, w)
          PROVE  \E ops \in Seq(Steps) : Does(t, ops) /\ \A op \in ToSet(ops) : CallbacksIn(op) = {}
      <3>1. PICK b : b = IF writer[w].open = 0 THEN <<>> ELSE Append(a, flush)
        OBVIOUS
      <3>2. todo' = [todo EXCEPT ![t] = b \o <<release>>]
        BY <1>3, <1>4, <1>5, <2>5, <3>1 DEF DestroyWriter
      <3>3. b \in Seq(Steps) /\ \A op \in ToSet(b) : CallbacksIn(op) = {}
        <4>1. PICK c : c = <<flush>>
          OBVIOUS
        <4>2. c \in Seq(Steps) /\ ToSet(c) = {flush} /\ Append(a, flush) = a \o c
          BY <1>6, <1>7, <4>1, AppendIsConcat
        <4>3. a \o c \in Seq(Steps) /\ ToSet(a \o c) = ToSet(a) \cup ToSet(c)
          BY <1>6, <4>2, SetOfCat
        <4> QED BY <1>6, <1>7, <3>1, <4>2, <4>3
      <3>4. PICK c : c = <<release>>
        OBVIOUS
      <3>5. c \in Seq(Steps) /\ ToSet(c) = {release}
        BY <1>7, <3>4
      <3>6. b \o c \in Seq(Steps) /\ ToSet(b \o c) = ToSet(b) \cup ToSet(c)
        BY <3>3, <3>5, SetOfCat
      <3>7. Does(t, b \o c)
        BY <1>1, <1>2, <3>2, <3>4, <3>6, IdleDoes
      <3> QED BY <1>6, <3>3, <3>5, <3>6, <3>7
    <2> QED BY <2>1, <2>2, <2>3, <2>4, <2>5
  <1> QED BY <1>2, <1>8, QuietHands DEF Idle

\* CreateTraceWriter.
LEMMA CreateTraceWriterKeepsPromises ==
  ASSUME ArbiterInv, ChunkInv, PromiseInv, NEW t \in Threads, NEW w \in DOMAIN setup.chunks,
         NEW requested \in Reservations \cup Buffers,
         CreateTraceWriterInternal(t, w, requested), UNCHANGED setup
  PROVE  PromiseInv'
  <1> DEFINE id == AllocateId
             res == target_buffer_reservations_
             reserves == /\ IsReservationTargetBufferId(requested)
                         /\ res[requested] \in {Absent, Unbound}
             target == IF IsReservationTargetBufferId(requested) /\ ~reserves
                       THEN res[requested] ELSE requested
  <1>1. Types /\ w \in Writers
    BY SetupIsTyped DEF ArbiterInv
  <1>2. Idle(t) /\ UNCHANGED <<tasks, service, promised, channel, commit_data_req_, check_failed>>
    BY DEF CreateTraceWriterInternal, batch, callers, port
  <1>3. UNCHANGED pending_flush_callbacks_
    BY DEF CreateTraceWriterInternal, binding
  <1>4. id \in Nat /\ (id # 0 => id \in WriterIDs)
    BY <1>1, AllocatedIdIsFree
  <1>5. PICK post : post = PostTask(SendCall(Register(id, target)))
    OBVIOUS
  <1>6. \/ UNCHANGED todo \/ todo' = [todo EXCEPT ![t] = <<>>]
        \/ ~reserves /\ id # 0 /\ todo' = [todo EXCEPT ![t] = <<post>>]
    BY <1>5 DEF CreateTraceWriterInternal
  <1>7. ~reserves => target \in Nat
    BY <1>1, ArbiterAssumption DEF Types, Targets, IsReservationTargetBufferId
  <1>8. <<>> \in Seq(Steps) /\ ToSet(<<>>) = {}
    BY SetOfShort, EmptySeq
  <1>9. \E ops \in Seq(Steps) : Does(t, ops) /\ \A op \in ToSet(ops) : CallbacksIn(op) = {}
    <2>1. CASE UNCHANGED todo \/ todo' = [todo EXCEPT ![t] = <<>>]
      <3>1. Does(t, <<>>)
        BY <1>1, <1>2, <1>8, <2>1, IdleDoes
      <3> QED BY <1>8, <3>1
    <2>2. CASE ~reserves /\ id # 0 /\ todo' = [todo EXCEPT ![t] = <<post>>]
      <3>1. id \in WriterIDs /\ target \in Nat
        BY <1>4, <1>7, <2>2
      <3>2. todo' = [todo EXCEPT ![t] = <<post>>]
        BY <2>2
      <3> HIDE DEF id, target
      <3>3. post \in Steps /\ CallbacksIn(post) = {}
        BY <1>5, <3>1, StepsAreTyped, EmptyHands
      <3>4. <<post>> \in Seq(Steps) /\ ToSet(<<post>>) = {post}
        BY <3>3, SetOfShort
      <3>5. Does(t, <<post>>)
        BY <1>1, <1>2, <3>2, <3>4, IdleDoes
      <3> QED BY <3>3, <3>4, <3>5
    <2> QED BY <1>6, <2>1, <2>2
  <1> QED BY <1>2, <1>3, <1>9, QuietHands DEF Idle

\* Calls that take callbacks nowhere.
LEMMA OtherCallKeepsPromises ==
  ASSUME ArbiterInv, ChunkInv, PromiseInv, NEW t \in Threads, UNCHANGED setup,
         \/ \E r \in Reservations : AbortStartupTracing(t, r)
         \/ EnableDirectSMBPatching(t)
  PROVE  PromiseInv'
  <1>1. Types
    BY DEF ArbiterInv
  <1>2. /\ Idle(t) /\ UNCHANGED <<pending_flush_callbacks_, tasks, service, promised, channel,
                                  commit_data_req_, check_failed>>
    BY DEF AbortStartupTracing, EnableDirectSMBPatching, arbiter, binding, batch, runner, memory,
           callers, port
  <1>3. ASSUME NEW r \in Reservations, AbortStartupTracing(t, r)
        PROVE  \E ops \in Seq(Steps) : Does(t, ops) /\ \A op \in ToSet(ops) : CallbacksIn(op) = {}
    <2>1. PICK call : call = AbortCall(r)
      OBVIOUS
    <2>2. call \in Steps /\ CallbacksIn(call) = {}
      BY <2>1, StepsAreTyped, EmptyHands
    <2>3. <<call>> \in Seq(Steps) /\ ToSet(<<call>>) = {call}
      BY <2>2, SetOfShort
    <2>4. todo' = [todo EXCEPT ![t] = <<call>>]
      BY <1>3, <2>1 DEF AbortStartupTracing
    <2>5. Does(t, <<call>>)
      BY <1>1, <1>2, <2>3, <2>4, IdleDoes
    <2> QED BY <2>2, <2>3, <2>5
  <1>4. ASSUME EnableDirectSMBPatching(t)
        PROVE  \E ops \in Seq(Steps) : Does(t, ops) /\ \A op \in ToSet(ops) : CallbacksIn(op) = {}
    <2>1. UNCHANGED todo
      BY <1>4 DEF EnableDirectSMBPatching, runner
    <2>2. Does(t, <<>>) /\ <<>> \in Seq(Steps) /\ ToSet(<<>>) = {}
      BY <1>1, <1>2, <2>1, IdleDoes, SetOfShort, EmptySeq
    <2> QED BY <2>2
  <1> QED BY <1>2, <1>3, <1>4, QuietHands DEF Idle

\* Steps from the queue of a thread that carry nothing.
LEMMA QueuedStepKeepsPromises ==
  ASSUME ArbiterInv, ChunkInv, PromiseInv, NEW t \in Threads, UNCHANGED setup,
         ReleaseWriterID(t) \/ DoPostDelayedFlush(t)
  PROVE  PromiseInv'
  <1> DEFINE id == writer[Head(todo[t]).w].id
  <1>1. Types
    BY DEF ArbiterInv
  <1>2. PICK op : op = Head(todo[t])
    OBVIOUS
  <1>3. /\ todo[t] # <<>> /\ ~IsReturn(op)
        /\ UNCHANGED <<pending_flush_callbacks_, tasks, service, promised, channel,
                       commit_data_req_, check_failed>>
    BY <1>2 DEF ReleaseWriterID, DoPostDelayedFlush, Doing, IsReturn, arbiter, binding, batch,
                memory, callers, port
  <1>4. PICK post : post = PostTask(SendCall(Unregister(id)))
    OBVIOUS
  <1>5. Then(t, <<>>) \/ (ReleaseWriterID(t) /\ Then(t, <<post>>))
    BY <1>4 DEF ReleaseWriterID, DoPostDelayedFlush
  <1>6. <<>> \in Seq(Steps) /\ ToSet(<<>>) = {}
    BY SetOfShort, EmptySeq
  <1>7. CASE Then(t, <<>>)
    <2>1. Does(t, <<>>)
      BY <1>1, <1>3, <1>6, <1>7, NextOp
    <2> QED BY <1>2, <1>3, <1>6, <2>1, QuietHands
  <1>8. CASE ReleaseWriterID(t) /\ Then(t, <<post>>)
    <2>1. op.op = "ReleaseWriterID"
      BY <1>2, <1>8 DEF ReleaseWriterID, Doing
    <2>2. id \in Nat
      BY <1>1, <1>2, <1>3, <2>1, NextOp, StepFields, WriterIsTyped
    <2> HIDE DEF id
    <2>3. post \in Steps /\ CallbacksIn(post) = {}
      BY <1>4, <2>2, StepsAreTyped, EmptyHands
    <2>4. <<post>> \in Seq(Steps) /\ ToSet(<<post>>) = {post}
      BY <2>3, SetOfShort
    <2>5. Does(t, <<post>>)
      BY <1>1, <1>3, <1>8, <2>4, NextOp
    <2> QED BY <1>2, <1>3, <2>3, <2>4, <2>5, QuietHands
  <1> QED BY <1>5, <1>7, <1>8

\* A delayed flush, and shutting down.
LEMMA TimersKeepPromises ==
  ASSUME ArbiterInv, ChunkInv, PromiseInv, UNCHANGED setup,
         \/ \E kind \in {"delayed", "immediate"} : RunDelayedFlush(kind)
         \/ TryShutdown
  PROVE  PromiseInv'
  <1>1. Types /\ IPC \in Threads
    BY DEF ArbiterInv, Threads
  <1>2. PICK call : call = FlushCall({})
    OBVIOUS
  <1>3. /\ Idle(IPC)
        /\ \/ todo' = [todo EXCEPT ![IPC] = <<>>]
           \/ todo' = [todo EXCEPT ![IPC] = <<call>>]
           \/ UNCHANGED todo
        /\ UNCHANGED <<pending_flush_callbacks_, tasks, service, promised, channel,
                       commit_data_req_, check_failed>>
    BY <1>2 DEF RunDelayedFlush, TryShutdown, binding, batch, runner, memory, callers, port
  <1>4. call \in Steps /\ CallbacksIn(call) = {}
    BY <1>2, StepsAreTyped, EmptyHands
  <1>5. /\ <<>> \in Seq(Steps) /\ ToSet(<<>>) = {}
        /\ <<call>> \in Seq(Steps) /\ ToSet(<<call>>) = {call}
    BY <1>4, SetOfShort, EmptySeq
  <1>6. Does(IPC, <<>>) \/ Does(IPC, <<call>>)
    BY <1>1, <1>3, <1>5, IdleDoes
  <1> QED BY <1>3, <1>4, <1>5, <1>6, QuietHands DEF Idle

-----------------------------------------------------------------------------
(***************************************************************************)
(* Adding to the request.                                                  *)
(***************************************************************************)
\* A returned chunk is in the request before any callback of its thread is.
LEMMA UpdateKeepsPromises ==
  ASSUME ArbiterInv, ChunkInv, PromiseInv, NEW t \in Threads, UpdateCommitDataRequest(t),
         UNCHANGED setup
  PROVE  PromiseInv'
  <1>1. Types /\ DataTypes /\ QueuesFit
    BY DEF ArbiterInv, ChunkInv, LocationInv
  <1>2. PICK op : op = Head(todo[t])
    OBVIOUS
  <1>3. todo[t] # <<>> /\ IsReturn(op) /\ op \in Ops(t) /\ op \in Steps
    BY <1>1, <1>2, NextOp DEF UpdateCommitDataRequest, Doing, IsReturn
  <1>4. op.w \in DOMAIN setup.chunks /\ op.w \in Writers /\ op.chunk \in Nat
    BY <1>1, <1>3, StepFields DEF QueuesFit, MayReturn, IsReturn
  <1>5. /\ commit_data_req_' \in Requests /\ commit_data_req_' # None
        /\ commit_data_req_'.chunks = WithChunk(Collecting, op.w, op.chunk).chunks
        /\ commit_data_req_'.flush_request_id = Collecting.flush_request_id
        /\ (check_failed => check_failed')
        /\ \E ops \in Seq(Steps) :
               /\ Does(t, ops)
               /\ \A x \in ToSet(ops) : x \in {FlushCall({}), PostFlush("immediate"), PostFlush("delayed")}
    BY <1>1, <1>2, <1>4, UpdateEffect
  <1>6. LeasesOf(WithChunk(Collecting, op.w, op.chunk).chunks)
           = Requested \cup (IF op.chunk = 0 THEN {} ELSE {<<op.w, op.chunk>>})
    BY <1>1, <1>4, WithChunkAdds
  <1>7. Requested' = Requested \cup (IF op.chunk = 0 THEN {} ELSE {<<op.w, op.chunk>>})
    BY <1>5, <1>6 DEF Requested
  <1>8. ReturnedNext(todo[t]) \subseteq Requested'
    BY <1>2, <1>3, <1>7 DEF ReturnedNext, ReturnedBy
  <1>9. RequestId' = RequestId
    BY <1>5 DEF RequestId, Collecting, EmptyReq
  <1>10. PICK ops \in Seq(Steps) : Does(t, ops) /\ \A x \in ToSet(ops) : CallbacksIn(x) = {}
    BY <1>5, EmptyHands
  <1>11. UNCHANGED <<pending_flush_callbacks_, tasks, service, promised, channel>>
    BY DEF UpdateCommitDataRequest, binding, callers, port
  <1> QED BY <1>5, <1>7, <1>8, <1>9, <1>10, <1>11, RequestGrows

\* Scraping only adds chunks to the request.
LEMMA ScrapeKeepsPromises ==
  ASSUME ArbiterInv, ChunkInv, PromiseInv, NEW found \in SUBSET Leases,
         ScrapeEmulatedSharedMemoryBuffer(found), UNCHANGED setup
  PROVE  PromiseInv'
  <1>1. /\ todo[IPC] # <<>> /\ ~IsReturn(Head(todo[IPC])) /\ Does(IPC, <<>>)
        /\ UNCHANGED <<channel, service, check_failed>>
        /\ commit_data_req_' # None /\ Requested' = Requested \cup found /\ commit_data_req_ # None
        /\ commit_data_req_'.flush_request_id = commit_data_req_.flush_request_id
    BY ScrapeEffect
  <1>2. RequestId' = RequestId /\ ReturnedNext(todo[IPC]) = {} /\ ToSet(<<>>) = {}
    BY <1>1, SetOfShort DEF RequestId, ReturnedNext, ReturnedBy
  <1>3. UNCHANGED <<pending_flush_callbacks_, tasks, promised>>
    BY DEF ScrapeEmulatedSharedMemoryBuffer, binding, callers
  <1> QED BY <1>1, <1>2, <1>3, RequestGrows

-----------------------------------------------------------------------------
(***************************************************************************)
(* New promises.                                                           *)
(***************************************************************************)
\* A promise does not change what the messages in flight are going to cover.
LEMMA SentStaysCovered ==
  ASSUME SentCovered, PromisesStay, UNCHANGED <<channel, service>>
  PROVE  SentCovered'
  <1>1. Arrived' = Arrived
    BY DEF Arrived
  <1>2. ASSUME NEW j \in DOMAIN channel', NEW x \in Answered(channel'[j])
        PROVE  Covered(x, Arrived \cup ChunksUpTo(channel, j))'
    <2>1. Covered(x, Arrived \cup ChunksUpTo(channel, j))
      BY <1>2 DEF SentCovered
    <2>2. ChunksUpTo(channel, j)' = ChunksUpTo(channel, j)
      BY DEF ChunksUpTo
    <2> QED BY <1>1, <2>1, <2>2 DEF Covered, PromisesStay
  <1>3. (\A j \in DOMAIN channel : \A x \in Answered(channel[j]) :
            Covered(x, Arrived \cup ChunksUpTo(channel, j)))'
    BY <1>2
  <1> QED BY <1>3 DEF SentCovered

\* Making a promise to x.
LEMMA Promising ==
  ASSUME NEW x, x \notin DOMAIN promised, NEW X, promised' = Promised(x, X)
  PROVE  PromisesStay /\ x \in DOMAIN promised' /\ promised'[x] = X
  BY DEF PromisesStay, Promised

\* What was returned is on its way.
LEMMA ReturnedIsSent ==
  ASSUME ChunkInv, ~check_failed
  PROVE  Returned \subseteq Pipeline
  <1>1. LocationInv
    BY DEF ChunkInv
  <1> SUFFICES ASSUME NEW l \in Returned, l \notin Pipeline PROVE FALSE
    OBVIOUS
  <1>2. l \in Acquired /\ (chunk[l].state = "kChunkBeingWritten" => InRequest(l))
    BY DEF Returned, Acquired
  <1>3. InRequest(l)
    BY <1>1, <1>2 DEF LocationInv
  <1>4. l \in Requested
    BY <1>3 DEF InRequest, Requested, LeasesOf, ToSet
  <1> QED BY <1>4 DEF Pipeline

\* The chunks that an idle thread's writer had are on their way, but for the open one.
LEMMA OwnChunks ==
  ASSUME Types, ChunkInv, ~check_failed, NEW t \in Threads, NEW w \in Writers, Home[w] = t, Idle(t),
         NEW l \in Acquired, l[1] = w, l \notin Pipeline
  PROVE  writer[w].open # 0 /\ l = <<w, writer[w].open>>
  <1>1. LocationInv /\ QueuesFit
    BY DEF ChunkInv, LocationInv
  <1>2. l \in InHand
    BY <1>1 DEF LocationInv
  <1>3. l \notin Returning
    <2> SUFFICES ASSUME NEW u \in Threads, NEW op \in Ops(u), l \in ReturnedBy(op) PROVE FALSE
      BY DEF Returning, ReturnedByAll, Ops
    <2>1. IsReturn(op) /\ op.w = w
      BY DEF ReturnedBy
    <2>2. u = t
      BY <1>1, <2>1 DEF QueuesFit, MayReturn
    <2>3. Ops(t) = {}
      BY SetOfShort DEF Ops, Idle
    <2> QED BY <2>2, <2>3
  <1>4. l \in Open
    BY <1>2, <1>3 DEF InHand
  <1> QED BY <1>4 DEF Open

\* Nobody knows of a callback that was promised nothing.
LEMMA UnknownIsNowhere ==
  ASSUME DataTypes, CoverInv, NEW x, x \notin DOMAIN promised
  PROVE  /\ x \notin pending_flush_callbacks_ /\ x \notin Carried(tasks) /\ x \notin Replied
         /\ x \notin Carried(channel) /\ \A t \in Threads : x \notin Carried(todo[t])
  <1>1. /\ x \notin pending_flush_callbacks_ /\ x \notin Carried(tasks)
        /\ \A t \in Threads : x \notin Carried(todo[t])
    BY DEF CoverInv, CoveredSoon
  <1>2. x \notin Replied
    BY DEF CoverInv, Covered
  <1>3. x \notin Carried(channel)
    <2> SUFFICES ASSUME NEW j \in DOMAIN channel, x \in CallbacksIn(channel[j]) PROVE FALSE
      BY DEF Carried, ToSet
    <2>1. channel \in Seq(Messages)
      BY DEF DataTypes
    <2>2. channel[j] \in Messages
      BY <2>1, ElementOfSeq, LenProperties
    <2>3. x \in Answered(channel[j])
      BY <2>2, WhatCarries
    <2>4. SentCovered
      BY DEF CoverInv
    <2> QED BY <2>3, <2>4 DEF SentCovered, Covered
  <1> QED BY <1>1, <1>2, <1>3

\* A flush reply covers what was returned before it.
LEMMA NotifyFlushCompleteKeepsPromises ==
  ASSUME ArbiterInv, ChunkInv, PromiseInv, ~check_failed, NEW id \in FlushIDs,
         NotifyFlushComplete(id), UNCHANGED setup
  PROVE  PromiseInv'
  <1> DEFINE create == commit_data_req_ = None
  <1>1. /\ Types /\ DataTypes /\ IPC \in Threads /\ id \in Nat \ {0}
        /\ commit_data_req_ \in Requests \cup {None}
    BY ArbiterAssumption DEF ArbiterInv, Threads, ChunkInv, DataTypes
  <1>2. PICK post : post = PostTask(FlushCall({}))
    OBVIOUS
  <1>3. PICK scrape : scrape = [op |-> "Scrape"]
    OBVIOUS
  <1>4. PICK a : a = IF create /\ fully_bound_ THEN <<post>> ELSE <<>>
    OBVIOUS
  <1>5. PICK b : b = IF Scraping THEN <<scrape>> ELSE <<>>
    OBVIOUS
  <1>6. PICK req : req = IF create THEN EmptyReq ELSE commit_data_req_
    OBVIOUS
  <1>7. /\ Idle(IPC) /\ todo' = [todo EXCEPT ![IPC] = a \o b]
        /\ commit_data_req_' = [req EXCEPT !.flush_request_id = IF id > @ THEN id ELSE @]
        /\ id \notin DOMAIN promised /\ promised' = Promised(id, Returned)
        /\ UNCHANGED <<pending_flush_callbacks_, tasks, service, channel, check_failed>>
    BY <1>2, <1>3, <1>4, <1>5, <1>6 DEF NotifyFlushComplete, memory, port, binding
  <1>8. a \in Seq(Steps) /\ b \in Seq(Steps) /\ \A x \in ToSet(a) \cup ToSet(b) : CallbacksIn(x) = {}
    <2>1. /\ post \in Steps /\ CallbacksIn(post) = {}
          /\ scrape \in Steps /\ CallbacksIn(scrape) = {}
      BY <1>2, <1>3, StepsAreTyped, EmptyHands
    <2> QED BY <1>4, <1>5, <2>1, SetOfShort, EmptySeq
  <1>9. PICK ops : ops = a \o b
    OBVIOUS
  <1>10. ops \in Seq(Steps) /\ ToSet(ops) = ToSet(a) \cup ToSet(b)
    BY <1>8, <1>9, SetOfCat
  <1>11. Does(IPC, ops) /\ todo[IPC] = <<>> /\ Carried(ops) = {} /\ Once(ops)
    <2>1. Does(IPC, ops) /\ todo[IPC] = <<>>
      BY <1>1, <1>7, <1>9, <1>10, IdleDoes DEF Idle
    <2> QED BY <1>8, <1>10, <2>1, CarriesNothing
  <1>12. PromisesStay /\ id \in DOMAIN promised' /\ promised'[id] = Returned
    BY <1>7, Promising
  <1>13. /\ req \in Requests /\ LeasesOf(req.chunks) = Requested /\ req.flush_request_id = RequestId
    <2>1. CASE create
      <3>1. EmptyReq \in Requests /\ EmptyReq.chunks = <<>> /\ EmptyReq.flush_request_id = 0
        BY EmptySeq DEF EmptyReq, Requests
      <3> QED BY <1>6, <2>1, <3>1, LeasesOfShort DEF Requested, RequestId
    <2>2. CASE ~create
      BY <1>1, <1>6, <2>2 DEF Requested, RequestId
    <2> QED BY <2>1, <2>2
  <1>14. /\ Requested' = Requested /\ RequestId' = IF id > RequestId THEN id ELSE RequestId
    <2>1. /\ commit_data_req_' \in Requests /\ commit_data_req_'.chunks = req.chunks
          /\ commit_data_req_'.flush_request_id = IF id > RequestId THEN id ELSE RequestId
      BY <1>1, <1>7, <1>13 DEF Requests
    <2> QED BY <1>13, <2>1, NoneAssumption DEF Requested, RequestId, LeasesOf
  <1>15. Pipeline' = Pipeline
    BY <1>7, <1>14 DEF Pipeline, Sent, Arrived, InChannel, ChunksInAll
  <1>16. RequestId' \in {0, RequestId} \/ CoveredSoon(RequestId, Pipeline)'
    <2>1. Returned \subseteq Pipeline
      BY ReturnedIsSent
    <2>2. RequestId' = id => CoveredSoon(RequestId, Pipeline)'
      BY <1>12, <1>15, <2>1 DEF CoveredSoon
    <2> QED BY <1>14, <2>2
  <1>17. CoverInv'
    <2>1. SentCovered'
      BY <1>7, <1>12, SentStaysCovered DEF PromiseInv, CoverInv
    <2>2. ReturnedNext(todo[IPC]) = {}
      BY <1>11 DEF ReturnedNext
    <2> DEFINE new == {}
    <2>3. \A cb \in new : CoveredSoon(cb, Pipeline \cup ReturnedNext(todo[IPC]))'
      OBVIOUS
    <2>4. pending_flush_callbacks_' \cup Carried(tasks') \cup (Carried(ops) \ new)
             \subseteq pending_flush_callbacks_ \cup Carried(tasks) \cup HeadCarries(todo[IPC])
      BY <1>7, <1>11
    <2> HIDE DEF new
    <2> QED BY <1>1, <1>7, <1>11, <1>12, <1>15, <1>16, <2>1, <2>2, <2>3, <2>4, CoverStep
              DEF PromiseInv
  <1>18. OnceInv'
    <2>1. OnceInv /\ Once(channel') /\ Carried(channel') = Carried(channel)
      BY <1>7 DEF PromiseInv, OnceInv
    <2> QED BY <1>1, <1>7, <1>11, <2>1, NothingMovesOnce
  <1> QED BY <1>17, <1>18 DEF PromiseInv

\* TraceWriterImpl::Flush: its chunk is returned before the callback goes anywhere.
LEMMA FlushKeepsPromises ==
  ASSUME ArbiterInv, ChunkInv, PromiseInv, ~check_failed, NEW t \in Threads,
         NEW w \in DOMAIN setup.chunks, NEW cb \in setup.callbacks, Flush(t, w, cb), UNCHANGED setup
  PROVE  PromiseInv'
  <1>1. Types /\ DataTypes /\ w \in Writers /\ {cb} \in SUBSET Callbacks
    BY SetupIsTyped DEF ArbiterInv, ChunkInv
  <1>2. PICK a : a = ReturnOpenChunk(w)
    OBVIOUS
  <1>3. PICK call : call = FlushCall({cb})
    OBVIOUS
  <1>4. PICK b : b = <<call>>
    OBVIOUS
  <1>5. PICK ops : ops = a \o b
    OBVIOUS
  <1>6. /\ Owns(t, w) /\ cb \notin DOMAIN promised
        /\ promised' = Promised(cb, Returned \cup
                          {l \in Leases : l[1] = w /\ l[2] <= writer[w].chunks})
        /\ todo' = [todo EXCEPT ![t] = ops]
        /\ UNCHANGED <<pending_flush_callbacks_, commit_data_req_, tasks, service, channel,
                       check_failed>>
    BY <1>2, <1>3, <1>4, <1>5 DEF Flush, arbiter, binding, batch, port
  <1>7. b \in Seq(Steps) /\ Carried(b) = {cb} /\ Once(b)
    <2>1. call \in Steps /\ CallbacksIn(call) = {cb}
      BY <1>1, <1>3, StepsAreTyped, WhatCarries
    <2>2. PICK s : s = {cb}
      OBVIOUS
    <2>3. Carried(b) = CallbacksIn(call) /\ Once(b)
      BY <1>4, CarriedShort
    <2> QED BY <1>4, <2>1, <2>3, SetOfShort
  <1>8. a \in Seq(Steps) /\ Carried(a) = {} /\ Once(a)
    BY <1>1, <1>2, ReturnOpenCarriesNothing, CarriesNothing
  <1>9. ops \in Seq(Steps) /\ Carried(ops) = {cb} /\ Once(ops)
    <2>1. ops \in Seq(Steps)
      BY <1>5, <1>7, <1>8, SetOfCat
    <2>2. /\ Carried(a \o b) = Carried(a) \cup Carried(b)
          /\ Once(a) /\ Once(b) /\ Carried(a) \cap Carried(b) = {} => Once(a \o b)
      BY <1>7, <1>8, CarriedCat
    <2> QED BY <1>5, <1>7, <1>8, <2>1, <2>2
  <1>10. Idle(t) /\ Home[w] = t /\ todo[t] = <<>> /\ Does(t, ops) /\ Rest(t) = <<>>
    BY <1>1, <1>6, <1>9, IdleDoes DEF Owns, Idle
  <1>11. /\ PromisesStay /\ cb \in DOMAIN promised'
         /\ promised'[cb] = Returned \cup {l \in Leases : l[1] = w /\ l[2] <= writer[w].chunks}
    BY <1>6, Promising
  <1>12. Pipeline' = Pipeline
    BY <1>6 DEF Pipeline, Sent, Arrived, InChannel, ChunksInAll, Requested, LeasesOf
  <1>13. promised'[cb] \subseteq Pipeline \cup ReturnedNext(todo'[t])
    <2>1. Returned \subseteq Pipeline
      BY ReturnedIsSent
    <2>2. ASSUME NEW l \in Leases, l[1] = w, l[2] <= writer[w].chunks, l \notin Pipeline
          PROVE  l \in ReturnedNext(todo'[t])
      <3>1. writer[w].open # 0 /\ l = <<w, writer[w].open>>
        <4>1. l \in Acquired
          BY <2>2 DEF Acquired
        <4> QED BY <1>1, <1>10, <2>2, <4>1, OwnChunks
      <3>2. PICK ret : ret = ReturnCall(w, writer[w].open)
        OBVIOUS
      <3>3. a = <<ret>> /\ ReturnedBy(ret) = {l}
        BY <1>2, <3>1, <3>2 DEF ReturnOpenChunk, ReturnCall, ReturnedBy, IsReturn
      <3>4. todo'[t] = ops
        BY <1>1, <1>6 DEF Types
      <3>5. ops # <<>> /\ Head(ops) = ret
        <4>1. Len(a) = 1 /\ a[1] = ret /\ Len(b) = 1
          BY <1>4, <3>3
        <4>2. Len(ops) = 2 /\ ops[1] = ret
          BY <1>5, <1>7, <1>8, <4>1, ConcatProperties
        <4> QED BY <1>9, <4>2, HeadTailProperties, EmptySeq
      <3> QED BY <3>3, <3>4, <3>5 DEF ReturnedNext
    <2> QED BY <1>11, <2>1, <2>2
  <1>14. CoverInv'
    <2>1. SentCovered'
      BY <1>6, <1>11, SentStaysCovered DEF PromiseInv, CoverInv
    <2>2. ReturnedNext(todo[t]) = {} /\ RequestId' = RequestId
      BY <1>6, <1>10 DEF ReturnedNext, RequestId
    <2> DEFINE new == {cb}
    <2>3. \A x \in new : CoveredSoon(x, Pipeline \cup ReturnedNext(todo[t]))'
      BY <1>11, <1>12, <1>13 DEF CoveredSoon
    <2>4. pending_flush_callbacks_' \cup Carried(tasks') \cup (Carried(ops) \ new)
             \subseteq pending_flush_callbacks_ \cup Carried(tasks) \cup HeadCarries(todo[t])
      BY <1>6, <1>9
    <2> HIDE DEF new
    <2>5. /\ CoverInv /\ RequestId' \in {0, RequestId} /\ (check_failed => check_failed')
          /\ (~check_failed' => Pipeline \subseteq Pipeline' /\ ReturnedNext(todo[t]) \subseteq Pipeline')
      BY <1>6, <1>12, <2>2 DEF PromiseInv
    <2>6. UNCHANGED service /\ PromisesStay /\ Types /\ Does(t, ops)
      BY <1>1, <1>6, <1>10, <1>11
    <2> QED BY <2>1, <2>3, <2>4, <2>5, <2>6, CoverStep
  <1>15. OnceInv'
    <2> DEFINE S == {cb}
    <2>1. /\ S \cap Carried(Rest(t)) = {} /\ S \cap Replied = {}
          /\ \A u \in Threads \ {t} : S \cap Carried(todo[u]) = {}
          /\ S \cap pending_flush_callbacks_ = {} /\ S \cap Carried(tasks) = {}
          /\ S \cap Carried(channel) = {}
      BY <1>1, <1>6, <1>10, CarriedShort, UnknownIsNowhere DEF PromiseInv
    <2>2. OnceInv /\ Once(tasks) /\ Once(channel)
      BY DEF PromiseInv, OnceInv
    <2>3. /\ Carried(ops) \subseteq IF "thread" = "thread" THEN S ELSE {}
          /\ pending_flush_callbacks_' \subseteq
               pending_flush_callbacks_ \cup IF "thread" = "pending" THEN S ELSE {}
          /\ pending_flush_callbacks_' \cap S = {}
          /\ Carried(tasks') \subseteq Carried(tasks) \cup IF "thread" = "posted" THEN S ELSE {}
          /\ Carried(tasks') \cap S = {}
          /\ Carried(channel') \subseteq Carried(channel) \cup IF "thread" = "sent" THEN S ELSE {}
          /\ Carried(channel') \cap S = {}
          /\ Once(tasks') /\ Once(channel')
      BY <1>6, <1>9, <2>1, <2>2
    <2> HIDE DEF S
    <2> QED BY <1>1, <1>6, <1>9, <1>10, <2>1, <2>2, <2>3, OnceStep
  <1> QED BY <1>14, <1>15 DEF PromiseInv

-----------------------------------------------------------------------------
(***************************************************************************)
(* Callbacks leave one place for the next.                                 *)
(***************************************************************************)
\* The callbacks of one place are at no other.
LEMMA Apart ==
  ASSUME OnceInv, NEW p \in Places, NEW S, S \subseteq In(p)
  PROVE  /\ p # <<"pending", None>> => S \cap pending_flush_callbacks_ = {}
         /\ p # <<"posted", None>> => S \cap Carried(tasks) = {}
         /\ p # <<"sent", None>> => S \cap Carried(channel) = {}
         /\ p # <<"replied", None>> => S \cap Replied = {}
         /\ \A t \in Threads : p # <<"thread", t>> => S \cap Carried(todo[t]) = {}
  <1>1. \A q \in Places : p # q => S \cap In(q) = {}
    BY DEF OnceInv
  <1>2. /\ <<"pending", None>> \in Places /\ <<"posted", None>> \in Places
        /\ <<"sent", None>> \in Places /\ <<"replied", None>> \in Places
        /\ \A t \in Threads : <<"thread", t>> \in Places
    BY DEF Places
  <1> QED BY <1>1, <1>2, AllPlaces

\* Callbacks that a thread is about to do something with.
LEMMA HeadIsApart ==
  ASSUME Types, OnceInv, NEW t \in Threads, todo[t] # <<>>, NEW S, S = CallbacksIn(Head(todo[t]))
  PROVE  /\ S = HeadCarries(todo[t]) /\ S \cap Carried(Rest(t)) = {} /\ S \cap Replied = {}
         /\ \A u \in Threads \ {t} : S \cap Carried(todo[u]) = {}
         /\ S \cap pending_flush_callbacks_ = {} /\ S \cap Carried(tasks) = {}
         /\ S \cap Carried(channel) = {}
  <1>1. todo[t] \in Seq(Steps) /\ Once(todo[t])
    BY DEF Types, OnceInv
  <1>2. /\ Carried(todo[t]) = S \cup Carried(Tail(todo[t])) /\ S \cap Carried(Tail(todo[t])) = {}
    BY <1>1, CarriedQueue
  <1>3. S = HeadCarries(todo[t]) /\ Rest(t) = Tail(todo[t])
    BY DEF HeadCarries, Rest
  <1>4. PICK p : p = <<"thread", t>>
    OBVIOUS
  <1>5. p \in Places /\ S \subseteq In(p)
    <2>1. In(p) = Carried(todo[t])
      BY <1>4, AllPlaces
    <2> QED BY <1>2, <1>4, <2>1 DEF Places
  <1>6. /\ p # <<"pending", None>> /\ p # <<"posted", None>> /\ p # <<"sent", None>>
        /\ p # <<"replied", None>> /\ \A u \in Threads \ {t} : p # <<"thread", u>>
    BY <1>4
  <1> QED BY <1>2, <1>3, <1>5, <1>6, Apart

\* Nothing that is on its way changes.
LEMMA PipelineStays ==
  ASSUME UNCHANGED <<service, channel, commit_data_req_>>
  PROVE  Pipeline' = Pipeline /\ RequestId' = RequestId /\ (PromisesStay /\ SentCovered => SentCovered')
  BY SentStaysCovered
     DEF Pipeline, Sent, Arrived, InChannel, ChunksInAll, Requested, LeasesOf, RequestId

\* A callback goes with its task to the task runner.
LEMMA PostingKeepsPromises ==
  ASSUME ArbiterInv, ChunkInv, PromiseInv, NEW t \in Threads, DoPostTask(t), UNCHANGED setup
  PROVE  PromiseInv'
  <1>1. Types /\ todo[t] \in Seq(Steps) /\ tasks \in Seq(Tasks)
    BY DEF ArbiterInv, Types
  <1>2. PICK op : op = Head(todo[t])
    OBVIOUS
  <1>3. PICK task : task = op.task
    OBVIOUS
  <1>4. /\ todo[t] # <<>> /\ op.op = "PostTask" /\ tasks' = Append(tasks, task) /\ Then(t, <<>>)
        /\ UNCHANGED <<pending_flush_callbacks_, service, channel, commit_data_req_, check_failed,
                       promised>>
    BY <1>2, <1>3 DEF DoPostTask, Doing, arbiter, binding, batch, memory, callers, port
  <1>5. op \in Steps /\ task \in Tasks
    BY <1>1, <1>2, <1>3, <1>4, NextOp, StepFields
  <1>6. PICK S : S = CallbacksIn(op)
    OBVIOUS
  <1>7. CallbacksIn(task) = S
    BY <1>3, <1>4, <1>5, <1>6, WhatCarries
  <1>8. PICK b : b = <<task>>
    OBVIOUS
  <1>9. tasks' = tasks \o b /\ b \in Seq(Tasks) /\ Carried(b) = S /\ Once(b)
    BY <1>1, <1>4, <1>5, <1>7, <1>8, AppendIsConcat, SetOfShort, CarriedShort
  <1>10. PICK ops : ops = <<>>
    OBVIOUS
  <1>11. Does(t, ops) /\ Carried(ops) = {} /\ Once(ops)
    BY <1>1, <1>4, <1>10, NextOp, EmptySeq, CarriedShort
  <1>12. /\ S = HeadCarries(todo[t]) /\ S \cap Carried(Rest(t)) = {} /\ S \cap Replied = {}
         /\ \A u \in Threads \ {t} : S \cap Carried(todo[u]) = {}
         /\ S \cap pending_flush_callbacks_ = {} /\ S \cap Carried(tasks) = {}
         /\ S \cap Carried(channel) = {}
    BY <1>1, <1>2, <1>4, <1>6, HeadIsApart DEF PromiseInv
  <1>13. Carried(tasks') = Carried(tasks) \cup S /\ Once(tasks')
    <2>1. Once(tasks)
      BY DEF PromiseInv, OnceInv
    <2>2. /\ Carried(tasks \o b) = Carried(tasks) \cup Carried(b)
          /\ Once(tasks) /\ Once(b) /\ Carried(tasks) \cap Carried(b) = {} => Once(tasks \o b)
      BY <1>1, <1>9, CarriedCat
    <2> QED BY <1>9, <1>12, <2>1, <2>2
  <1>14. PromisesStay
    BY <1>4 DEF PromisesStay
  <1>15. CoverInv'
    <2> DEFINE new == {}
    <2>1. \A x \in new : CoveredSoon(x, Pipeline \cup ReturnedNext(todo[t]))'
      OBVIOUS
    <2>2. pending_flush_callbacks_' \cup Carried(tasks') \cup (Carried(ops) \ new)
             \subseteq pending_flush_callbacks_ \cup Carried(tasks) \cup HeadCarries(todo[t])
      BY <1>4, <1>11, <1>12, <1>13
    <2> HIDE DEF new
    <2>3. /\ CoverInv /\ SentCovered' /\ RequestId' \in {0, RequestId}
          /\ (check_failed => check_failed')
      BY <1>4, <1>14, PipelineStays DEF PromiseInv, CoverInv
    <2>4. Pipeline \subseteq Pipeline' /\ ReturnedNext(todo[t]) \subseteq Pipeline'
      <3>1. ReturnedNext(todo[t]) = {}
        BY <1>2, <1>4 DEF ReturnedNext, ReturnedBy, IsReturn
      <3> QED BY <1>4, <3>1, PipelineStays
    <2>5. UNCHANGED service
      BY <1>4
    <2> QED BY <1>1, <1>11, <1>14, <2>1, <2>2, <2>3, <2>4, <2>5, CoverStep
  <1>16. OnceInv'
    <2>1. /\ Carried(ops) \subseteq IF "posted" = "thread" THEN S ELSE {}
          /\ pending_flush_callbacks_' \subseteq
               pending_flush_callbacks_ \cup IF "posted" = "pending" THEN S ELSE {}
          /\ pending_flush_callbacks_' \cap S = {}
          /\ Carried(tasks') \subseteq Carried(tasks) \cup IF "posted" = "posted" THEN S ELSE {}
          /\ Carried(channel') \subseteq Carried(channel) \cup IF "posted" = "sent" THEN S ELSE {}
          /\ Carried(channel') \cap S = {}
      BY <1>4, <1>11, <1>12, <1>13
    <2>2. OnceInv /\ Once(channel') /\ UNCHANGED service
      BY <1>4 DEF PromiseInv, OnceInv
    <2>3. /\ S \cap Carried(Rest(t)) = {} /\ S \cap Replied = {}
          /\ \A u \in Threads \ {t} : S \cap Carried(todo[u]) = {}
      BY <1>12
    <2> QED BY <1>1, <1>11, <1>13, <2>1, <2>2, <2>3, OnceStep
  <1> QED BY <1>15, <1>16 DEF PromiseInv

\* Only the last of the messages that commit a request answers for anything.
LEMMA OnlyLastAnswers ==
  ASSUME NEW req \in Requests, NEW cb \in SUBSET Callbacks, NEW q \in Seq(Messages),
         q = CommitDataWithSplitting(req, cb) \/ q = <<CommitData(req, cb)>>
  PROVE  /\ \A i \in DOMAIN q : Answered(q[i]) # {} => i = Len(q)
         /\ Answered(q[Len(q)]) = cb \cup ({req.flush_request_id} \ {0})
         /\ Carried(q) = cb /\ Once(q)
  <1> DEFINE IsLast(m) == /\ m.type = "CommitData" /\ m.callback = cb
                          /\ m.req.flush_request_id = req.flush_request_id
  <1>1. \A m : IsLast(m) => /\ Answered(m) = cb \cup ({req.flush_request_id} \ {0})
    BY DEF Answered
  <1>2. PICK per : per = kMaxCommitSize - 1
    OBVIOUS
  <1>3. PICK full : full = IF Len(req.chunks) < kMaxCommitSize THEN 0
                           ELSE (Len(req.chunks) - 1) \div per
    OBVIOUS
  <1>4. \E M : \E head \in Seq(M), tail \in M :
           /\ q = head \o <<tail>> /\ IsLast(tail) /\ Len(q) = Len(head) + 1
           /\ \A i \in DOMAIN head : Answered(head[i]) = {}
    <2>1. CASE q = <<CommitData(req, cb)>>
      <3>1. PICK tail : tail = CommitData(req, cb)
        OBVIOUS
      <3>2. IsLast(tail)
        BY <3>1 DEF CommitData
      <3>3. PICK head : head = <<>>
        OBVIOUS
      <3>4. head \in Seq({tail}) /\ DOMAIN head = {} /\ Len(head) = 0 /\ Len(q) = 1
        BY <2>1, <3>3, EmptySeq
      <3>5. q = head \o <<tail>>
        <4>1. q = <<tail>>
          BY <2>1, <3>1
        <4>2. head \o q = q
          BY <3>3, ConcatEmptySeq
        <4> QED BY <4>1, <4>2
      <3>6. PICK M : M = {tail}
        OBVIOUS
      <3>7. head \in Seq(M) /\ tail \in M /\ \A i \in DOMAIN head : Answered(head[i]) = {}
        BY <3>4, <3>6
      <3>8. Len(q) = Len(head) + 1
        BY <3>4
      <3> HIDE DEF IsLast
      <3> QED BY <3>2, <3>5, <3>7, <3>8
    <2>2. CASE q = CommitDataWithSplitting(req, cb)
      <3>1. PICK last : last = [req EXCEPT !.chunks = SubSeq(@, full * per + 1, Len(@))]
        OBVIOUS
      <3>2. PICK head : head = [i \in 1 .. full |-> CommitData(SplitPart(req, i, per), {})]
        OBVIOUS
      <3>3. PICK tail : tail = CommitData(last, cb)
        OBVIOUS
      <3>4. q = Append(head, tail)
        BY <1>2, <1>3, <2>2, <3>1, <3>2, <3>3 DEF CommitDataWithSplitting
      <3>5. IsLast(tail)
        BY <3>1, <3>3 DEF CommitData, Requests
      <3>6. \A i \in 1 .. full : Answered(head[i]) = {}
        BY <3>2 DEF CommitData, SplitPart, EmptyReq, Answered
      <3>7. full \in Nat
        <4>1. PICK n \in Nat : n = Len(req.chunks)
          BY LenProperties DEF Requests
        <4> QED BY <1>2, <1>3, <4>1, FullMessages
      <3>8. PICK H : H = {head[i] : i \in 1 .. full}
        OBVIOUS
      <3>9. head \in Seq(H \cup {tail}) /\ DOMAIN head = 1 .. full
        BY <3>2, <3>7, <3>8, IsASeq
      <3>10. q = head \o <<tail>> /\ Len(q) = Len(head) + 1 /\ Len(head) = full
        BY <3>4, <3>7, <3>9, AppendIsConcat, LenProperties
      <3>11. PICK M : M = H \cup {tail}
        OBVIOUS
      <3>12. head \in Seq(M) /\ tail \in M /\ \A i \in DOMAIN head : Answered(head[i]) = {}
        BY <3>6, <3>9, <3>11
      <3> HIDE DEF IsLast
      <3> QED BY <3>5, <3>10, <3>12
    <2> QED BY <2>1, <2>2
  <1>0. PICK M : \E head \in Seq(M), tail \in M :
           /\ q = head \o <<tail>> /\ IsLast(tail) /\ Len(q) = Len(head) + 1
           /\ \A i \in DOMAIN head : Answered(head[i]) = {}
    BY <1>4
  <1>5. PICK head \in Seq(M), tail \in M :
           /\ q = head \o <<tail>> /\ IsLast(tail) /\ Len(q) = Len(head) + 1
           /\ \A i \in DOMAIN head : Answered(head[i]) = {}
    BY <1>0
  <1>6. PICK b : b = <<tail>>
    OBVIOUS
  <1>7. b \in Seq(M) /\ Len(b) = 1 /\ DOMAIN b = {1} /\ b[1] = tail /\ q = head \o b
    BY <1>5, <1>6
  <1>8. /\ Len(head) \in Nat /\ DOMAIN q = 1 .. Len(head) + 1
        /\ \A i \in DOMAIN q : i \in Int /\ IF i <= Len(head) THEN i \in DOMAIN head /\ q[i] = head[i]
                                ELSE i - Len(head) \in DOMAIN b /\ q[i] = b[i - Len(head)]
    BY <1>5, <1>7, CatPlaces, LenProperties
  <1>9. q[Len(q)] = tail /\ \A i \in DOMAIN q : i # Len(q) => Answered(q[i]) = {}
    BY <1>5, <1>7, <1>8
  <1>10. Len(q) \in DOMAIN q
    BY <1>5, <1>8
  <1>11. \A i \in DOMAIN q : q[i] \in Messages
    BY ElementOfSeq, LenProperties
  <1>12. CallbacksIn(q[Len(q)]) = cb /\ \A i \in DOMAIN q : i # Len(q) => CallbacksIn(q[i]) = {}
    <2>1. \A i \in DOMAIN q : i # Len(q) => CallbacksIn(q[i]) = {}
      BY <1>9, <1>11, WhatCarries
    <2>2. tail \in Messages /\ tail.type = "CommitData" /\ tail.callback = cb
      BY <1>5, <1>9, <1>10, <1>11
    <2> QED BY <1>9, <2>1, <2>2, WhatCarries
  <1>13. Carried(q) = cb /\ Once(q)
    BY <1>10, <1>12 DEF Carried, Once, ToSet
  <1> HIDE DEF IsLast
  <1> QED BY <1>1, <1>5, <1>9, <1>13

-----------------------------------------------------------------------------
(***************************************************************************)
(* Flushing.                                                               *)
(***************************************************************************)
\* Callbacks S, of any place, come to place b in a step of thread t that
\* returns no chunk.
LEMMA PromiseStep ==
  ASSUME Types, PromiseInv, NEW t, NEW ops, Does(t, ops), UNCHANGED <<service, promised>>,
         NEW S, S \subseteq pending_flush_callbacks_ \cup Carried(tasks) \cup HeadCarries(todo[t]),
         S \cap Carried(Rest(t)) = {}, S \cap Replied = {},
         \A u \in Threads \ {t} : S \cap Carried(todo[u]) = {},
         NEW b \in {"thread", "pending", "posted", "sent"},
         Once(ops), Carried(ops) \subseteq IF b = "thread" THEN S ELSE {},
         pending_flush_callbacks_' \subseteq
            pending_flush_callbacks_ \cup IF b = "pending" THEN S ELSE {},
         b # "pending" => pending_flush_callbacks_' \cap S = {},
         Once(tasks'), Carried(tasks') \subseteq Carried(tasks) \cup IF b = "posted" THEN S ELSE {},
         b # "posted" => Carried(tasks') \cap S = {},
         Once(channel'),
         Carried(channel') \subseteq Carried(channel) \cup IF b = "sent" THEN S ELSE {},
         b # "sent" => Carried(channel') \cap S = {},
         check_failed => check_failed', ~check_failed' => Pipeline \subseteq Pipeline',
         todo[t] # <<>> => ~IsReturn(Head(todo[t])),
         SentCovered', RequestId' \in {0, RequestId}
  PROVE  PromiseInv'
  <1>1. PromisesStay /\ CoverInv /\ OnceInv
    BY DEF PromisesStay, PromiseInv
  <1>2. ReturnedNext(todo[t]) = {}
    BY DEF ReturnedNext, ReturnedBy
  <1>3. OnceInv'
    BY <1>1, OnceStep
  <1>4. CoverInv'
    <2> DEFINE new == {}
    <2>1. \A x \in new : CoveredSoon(x, Pipeline \cup ReturnedNext(todo[t]))'
      OBVIOUS
    <2>2. pending_flush_callbacks_' \cup Carried(tasks') \cup (Carried(ops) \ new)
             \subseteq pending_flush_callbacks_ \cup Carried(tasks) \cup HeadCarries(todo[t])
      OBVIOUS
    <2>3. ~check_failed' => Pipeline \subseteq Pipeline' /\ ReturnedNext(todo[t]) \subseteq Pipeline'
      BY <1>2
    <2> HIDE DEF new
    <2> QED BY <1>1, <2>1, <2>2, <2>3, CoverStep
  <1> QED BY <1>3, <1>4 DEF PromiseInv

\* Thread t has taken callbacks S from the head of its queue, or from a task.
Taken(t, S) ==
    /\ S \subseteq Carried(tasks) \cup HeadCarries(todo[t])
    /\ S \cap Carried(Rest(t)) = {} /\ S \cap Replied = {}
    /\ \A u \in Threads \ {t} : S \cap Carried(todo[u]) = {}
    /\ S \cap pending_flush_callbacks_ = {} /\ S \cap Carried(channel) = {}
    /\ S \cap Carried(tasks') = {} /\ Carried(tasks') \subseteq Carried(tasks) /\ Once(tasks')

\* Not fully bound: the callbacks wait.
LEMMA FlushUnboundKeepsPromises ==
  ASSUME Types, PromiseInv, NEW t, NEW cb, NEW rest, FlushUnbound(t, cb, rest), Taken(t, cb),
         UNCHANGED promised, \A ops \in Seq(Steps) : GoOn(t, ops, rest) => Does(t, ops),
         todo[t] # <<>> => ~IsReturn(Head(todo[t]))
  PROVE  PromiseInv'
  <1>1. PICK ops : ops = <<>>
    OBVIOUS
  <1>2. /\ GoOn(t, ops, rest) /\ ops \in Seq(Steps) /\ Carried(ops) = {} /\ Once(ops)
        /\ pending_flush_callbacks_' = pending_flush_callbacks_ \cup cb
        /\ UNCHANGED <<commit_data_req_, check_failed, channel, service>>
    BY <1>1, EmptySeq, CarriedShort DEF FlushUnbound
  <1>3. Does(t, ops)
    BY <1>2
  <1>4. SentCovered /\ Once(channel) /\ PromisesStay
    BY DEF PromiseInv, CoverInv, OnceInv, PromisesStay
  <1>5. Pipeline' = Pipeline /\ RequestId' = RequestId /\ SentCovered'
    BY <1>2, <1>4, PipelineStays
  <1>6. PICK b : b = "pending"
    OBVIOUS
  <1>7. /\ Carried(ops) \subseteq IF b = "thread" THEN cb ELSE {}
        /\ pending_flush_callbacks_' \subseteq
             pending_flush_callbacks_ \cup IF b = "pending" THEN cb ELSE {}
        /\ (b # "pending" => pending_flush_callbacks_' \cap cb = {})
        /\ Carried(tasks') \subseteq Carried(tasks) \cup IF b = "posted" THEN cb ELSE {}
        /\ (b # "posted" => Carried(tasks') \cap cb = {})
        /\ Carried(channel') \subseteq Carried(channel) \cup IF b = "sent" THEN cb ELSE {}
        /\ (b # "sent" => Carried(channel') \cap cb = {})
    BY <1>2, <1>6 DEF Taken
  <1>8. /\ cb \subseteq pending_flush_callbacks_ \cup Carried(tasks) \cup HeadCarries(todo[t])
        /\ cb \cap Carried(Rest(t)) = {} /\ cb \cap Replied = {} /\ Once(tasks') /\ Once(channel')
        /\ \A u \in Threads \ {t} : cb \cap Carried(todo[u]) = {}
    BY <1>2, <1>4 DEF Taken
  <1> QED BY <1>2, <1>3, <1>5, <1>6, <1>7, <1>8, PromiseStep

\* On another thread the callbacks go to a task, which is about to be posted.
LEMMA FlushElsewhereKeepsPromises ==
  ASSUME Types, PromiseInv, NEW t \in Threads, NEW cb \in SUBSET Callbacks, NEW rest,
         FlushElsewhere(t, cb, rest), Taken(t, cb), UNCHANGED promised,
         \A ops \in Seq(Steps) : GoOn(t, ops, rest) => Does(t, ops),
         todo[t] # <<>> => ~IsReturn(Head(todo[t]))
  PROVE  PromiseInv'
  <1>1. PICK post : post = PostTask(FlushCall(cb))
    OBVIOUS
  <1>2. PICK ops : ops = <<post>>
    OBVIOUS
  <1>3. post \in Steps /\ CallbacksIn(post) = cb
    BY <1>1, StepsAreTyped, WhatCarries
  <1>4. /\ GoOn(t, ops, rest) /\ ops \in Seq(Steps) /\ Carried(ops) = cb /\ Once(ops)
        /\ UNCHANGED <<pending_flush_callbacks_, commit_data_req_, check_failed, channel, service>>
    BY <1>1, <1>2, <1>3, SetOfShort, CarriedShort DEF FlushElsewhere
  <1>5. Does(t, ops)
    BY <1>4
  <1>6. SentCovered /\ Once(channel) /\ PromisesStay
    BY DEF PromiseInv, CoverInv, OnceInv, PromisesStay
  <1>7. Pipeline' = Pipeline /\ RequestId' = RequestId /\ SentCovered'
    BY <1>4, <1>6, PipelineStays
  <1>8. PICK b : b = "thread"
    OBVIOUS
  <1>9. /\ Carried(ops) \subseteq IF b = "thread" THEN cb ELSE {}
        /\ pending_flush_callbacks_' \subseteq
             pending_flush_callbacks_ \cup IF b = "pending" THEN cb ELSE {}
        /\ (b # "pending" => pending_flush_callbacks_' \cap cb = {})
        /\ Carried(tasks') \subseteq Carried(tasks) \cup IF b = "posted" THEN cb ELSE {}
        /\ (b # "posted" => Carried(tasks') \cap cb = {})
        /\ Carried(channel') \subseteq Carried(channel) \cup IF b = "sent" THEN cb ELSE {}
        /\ (b # "sent" => Carried(channel') \cap cb = {})
    BY <1>4, <1>8 DEF Taken
  <1>10. /\ cb \subseteq pending_flush_callbacks_ \cup Carried(tasks) \cup HeadCarries(todo[t])
         /\ cb \cap Carried(Rest(t)) = {} /\ cb \cap Replied = {} /\ Once(tasks') /\ Once(channel')
         /\ \A u \in Threads \ {t} : cb \cap Carried(todo[u]) = {}
    BY <1>4, <1>6 DEF Taken
  <1> QED BY <1>4, <1>5, <1>7, <1>8, <1>9, <1>10, PromiseStep

\* What thread t has taken was promised what is on its way.
LEMMA TakenIsCovered ==
  ASSUME Types, CoverInv, ~check_failed, NEW t \in Threads, NEW S, Taken(t, S),
         todo[t] # <<>> => ~IsReturn(Head(todo[t])), NEW x \in S
  PROVE  Covered(x, Pipeline)
  <1>1. CASE x \in Carried(tasks)
    BY <1>1 DEF CoverInv, CoveredSoon, Covered
  <1>2. CASE x \in HeadCarries(todo[t])
    <2>1. todo[t] \in Seq(Steps)
      BY DEF Types
    <2>2. todo[t] # <<>> /\ x \in Carried(todo[t])
      BY <1>2, <2>1, CarriedQueue DEF HeadCarries
    <2>3. ReturnedNext(todo[t]) = {}
      BY DEF ReturnedNext, ReturnedBy
    <2>4. CoveredSoon(x, Pipeline \cup ReturnedNext(todo[t]))
      BY <2>2 DEF CoverInv
    <2> QED BY <2>3, <2>4 DEF CoveredSoon, Covered
  <1> QED BY <1>1, <1>2 DEF Taken

\* The IPC thread sends messages, the last of which answers for what it has taken
\* and for the request.
LEMMA SendingKeepsPromises ==
  ASSUME Types, DataTypes, PromiseInv, NEW t \in Threads, NEW cb, NEW rest, Taken(t, cb),
         GoOn(t, <<>>, rest), UNCHANGED <<service, promised, pending_flush_callbacks_>>,
         \A ops \in Seq(Steps) : GoOn(t, ops, rest) => Does(t, ops),
         todo[t] # <<>> => ~IsReturn(Head(todo[t])),
         NEW q \in Seq(Messages), channel' = channel \o q, Carried(q) \subseteq cb, Once(q),
         \A i \in DOMAIN q : \A x \in Answered(q[i]) :
            ~check_failed /\ i = Len(q) /\ x \in cb \cup ({RequestId} \ {0}),
         check_failed => check_failed', ~check_failed' => ChunksInAll(q) = Requested,
         check_failed' => q = <<>>,
         RequestId' \in {0, RequestId}, Requested' = {}
  PROVE  PromiseInv'
  <1>1. /\ CoverInv /\ OnceInv /\ SentCovered /\ Once(channel) /\ PromisesStay
        /\ channel \in Seq(Messages)
    BY DEF PromiseInv, CoverInv, OnceInv, PromisesStay, DataTypes
  <1>2. PICK ops : ops = <<>>
    OBVIOUS
  <1>3. GoOn(t, ops, rest) /\ ops \in Seq(Steps) /\ Carried(ops) = {} /\ Once(ops)
    BY <1>2, EmptySeq, CarriedShort
  <1>4. Does(t, ops)
    BY <1>3
  <1>5. ChunksInAll(channel') = InChannel \cup ChunksInAll(q) /\ Arrived' = Arrived
    BY <1>1, MessagesCat DEF InChannel, Arrived
  <1>6. InChannel' = ChunksInAll(channel')
    BY DEF InChannel, ChunksInAll
  <1>7. ~check_failed' => Pipeline' = Pipeline
    BY <1>5, <1>6 DEF Pipeline, Sent
  <1>8. SentCovered'
    <2>1. ASSUME NEW i \in DOMAIN q, NEW x \in Answered(q[i])
          PROVE  i = Len(q) /\ Covered(x, Arrived \cup ChunksInAll(channel'))
      <3>1. ~check_failed /\ i = Len(q) /\ x \in cb \cup ({RequestId} \ {0})
        BY <2>1
      <3>2. Covered(x, Pipeline)
        <4>1. CASE x \in cb
          BY <1>1, <3>1, <4>1, TakenIsCovered
        <4>2. CASE x = RequestId /\ x # 0
          BY <1>1, <3>1, <4>2 DEF CoverInv, CoveredSoon, Covered
        <4> QED BY <3>1, <4>1, <4>2
      <3>3. q # <<>>
        BY <2>1
      <3>4. Pipeline = Arrived \cup ChunksInAll(channel')
        BY <1>5, <3>3 DEF Pipeline, Sent
      <3> QED BY <3>1, <3>2, <3>4
    <2> QED BY <1>1, <2>1, SendingCovers
  <1>9. Carried(channel') = Carried(channel) \cup Carried(q) /\ Once(channel')
    <2>1. /\ Carried(channel \o q) = Carried(channel) \cup Carried(q)
          /\ Once(channel) /\ Once(q) /\ Carried(channel) \cap Carried(q) = {} => Once(channel \o q)
      BY <1>1, CarriedCat
    <2>2. Carried(channel) \cap Carried(q) = {}
      BY DEF Taken
    <2> QED BY <1>1, <2>1, <2>2
  <1>10. PICK b : b = "sent"
    OBVIOUS
  <1>11. /\ Carried(ops) \subseteq IF b = "thread" THEN cb ELSE {}
         /\ pending_flush_callbacks_' \subseteq
              pending_flush_callbacks_ \cup IF b = "pending" THEN cb ELSE {}
         /\ (b # "pending" => pending_flush_callbacks_' \cap cb = {})
         /\ Carried(tasks') \subseteq Carried(tasks) \cup IF b = "posted" THEN cb ELSE {}
         /\ (b # "posted" => Carried(tasks') \cap cb = {})
         /\ Carried(channel') \subseteq Carried(channel) \cup IF b = "sent" THEN cb ELSE {}
         /\ (b # "sent" => Carried(channel') \cap cb = {})
    BY <1>3, <1>9, <1>10 DEF Taken
  <1>12. /\ cb \subseteq pending_flush_callbacks_ \cup Carried(tasks) \cup HeadCarries(todo[t])
         /\ cb \cap Carried(Rest(t)) = {} /\ cb \cap Replied = {} /\ Once(tasks')
         /\ \A u \in Threads \ {t} : cb \cap Carried(todo[u]) = {}
    BY DEF Taken
  <1>13. ~check_failed' => Pipeline \subseteq Pipeline'
    BY <1>7
  <1> QED BY <1>3, <1>4, <1>8, <1>9, <1>10, <1>11, <1>12, <1>13, PromiseStep

\* Nothing to commit: the callbacks go with an empty request.
LEMMA FlushEmptyKeepsPromises ==
  ASSUME Types, DataTypes, PromiseInv, ~check_failed, NEW t \in Threads,
         NEW cb \in SUBSET Callbacks, NEW rest, FlushEmpty(t, cb, rest), Taken(t, cb),
         UNCHANGED promised, \A ops \in Seq(Steps) : GoOn(t, ops, rest) => Does(t, ops),
         todo[t] # <<>> => ~IsReturn(Head(todo[t]))
  PROVE  PromiseInv'
  <1>1. PICK m : m = CommitData(EmptyReq, cb)
    OBVIOUS
  <1>2. PICK q : q = IF cb = {} THEN <<>> ELSE <<m>>
    OBVIOUS
  <1>3. /\ GoOn(t, <<>>, rest) /\ commit_data_req_ = None
        /\ UNCHANGED <<commit_data_req_, service, pending_flush_callbacks_, check_failed>>
        /\ channel' = IF cb = {} THEN channel ELSE Append(channel, m)
    BY <1>1 DEF FlushEmpty
  <1>4. Requested = {} /\ Requested' = {} /\ RequestId' = RequestId
    BY <1>3 DEF Requested, RequestId
  <1>5. m \in Messages /\ ChunksIn(m) = {} /\ CallbacksIn(m) = cb /\ Answered(m) = cb
    <2>1. EmptyReq \in Requests /\ EmptyReq.chunks = <<>> /\ EmptyReq.flush_request_id = 0
      BY EmptySeq DEF EmptyReq, Requests
    <2>2. /\ m \in Messages /\ m.type = "CommitData" /\ m.callback = cb /\ m.req = EmptyReq
      BY <1>1, <2>1 DEF CommitData, Messages
    <2>3. CallbacksIn(m) = cb
      BY <2>2, WhatCarries
    <2> QED BY <2>1, <2>2, <2>3, LeasesOfShort DEF ChunksIn, Answered
  <1>6. channel' = channel \o q
    <2>1. channel \in Seq(Messages)
      BY DEF DataTypes
    <2>2. channel \o <<>> = channel /\ Append(channel, m) = channel \o <<m>>
      BY <1>5, <2>1, ConcatEmptySeq, AppendIsConcat
    <2> QED BY <1>2, <1>3, <2>2
  <1>7. /\ q \in Seq(Messages) /\ Carried(q) = cb /\ Once(q) /\ ChunksInAll(q) = {}
        /\ \A i \in DOMAIN q : i = Len(q) /\ Answered(q[i]) = cb
    <2>1. CASE cb = {}
      <3>1. q = <<>>
        BY <1>2, <2>1
      <3>2. ToSet(q) = {} /\ Carried(q) = {} /\ Once(q) /\ q \in Seq(Messages) /\ DOMAIN q = {}
        BY <3>1, SetOfShort, CarriedShort, EmptySeq
      <3> QED BY <2>1, <3>2 DEF ChunksInAll
    <2>2. CASE cb # {}
      <3>1. q = <<m>>
        BY <1>2, <2>2
      <3>2. ToSet(q) = {m} /\ Carried(q) = cb /\ Once(q) /\ q \in Seq(Messages)
        BY <1>5, <3>1, SetOfShort, CarriedShort
      <3>3. DOMAIN q = {1} /\ Len(q) = 1 /\ q[1] = m
        BY <3>1
      <3> QED BY <1>5, <3>2, <3>3 DEF ChunksInAll
    <2> QED BY <2>1, <2>2
  <1>8. ~check_failed'
    BY <1>3
  <1> QED BY <1>3, <1>4, <1>6, <1>7, <1>8, SendingKeepsPromises

\* The request takes the callbacks along.
LEMMA FlushRequestKeepsPromises ==
  ASSUME Types, DataTypes, PromiseInv, ~check_failed, NEW t \in Threads,
         NEW cb \in SUBSET Callbacks, NEW rest, FlushRequest(t, cb, rest), Taken(t, cb),
         UNCHANGED promised, \A ops \in Seq(Steps) : GoOn(t, ops, rest) => Does(t, ops),
         todo[t] # <<>> => ~IsReturn(Head(todo[t]))
  PROVE  PromiseInv'
  <1>1. PICK req : req = commit_data_req_
    OBVIOUS
  <1>2. PICK r : r = ReplaceCommitPlaceholderBufferIds(req)
    OBVIOUS
  <1>3. PICK x, y : x = CommitDataWithSplitting(r, cb) /\ y = <<CommitData(r, cb)>>
    OBVIOUS
  <1>4. /\ req # None /\ commit_data_req_' = None /\ GoOn(t, <<>>, rest)
        /\ UNCHANGED <<service, pending_flush_callbacks_>>
        /\ channel' = channel \o (CASE check_failed' -> <<>>
                                    [] ~check_failed' /\ use_shmem_emulation_ -> x
                                    [] OTHER -> y)
    BY <1>1, <1>2, <1>3 DEF FlushRequest
  <1>5. req \in Requests /\ LeasesOf(req.chunks) = Requested /\ req.flush_request_id = RequestId
    BY <1>1, <1>4 DEF DataTypes, Requested, RequestId
  <1>6. Requested' = {} /\ RequestId' = 0
    BY <1>4 DEF Requested, RequestId
  <1>7. r \in Requests /\ r.flush_request_id = RequestId
    BY <1>2, <1>5, ResolvedRequest
  <1>8. PICK q : q = IF check_failed' THEN <<>> ELSE IF use_shmem_emulation_ THEN x ELSE y
    OBVIOUS
  <1>9. channel' = channel \o q
    <2>1. CASE check_failed'
      BY <1>4, <1>8, <2>1
    <2>2. CASE ~check_failed' /\ use_shmem_emulation_
      BY <1>4, <1>8, <2>2
    <2>3. CASE ~check_failed' /\ ~use_shmem_emulation_
      BY <1>4, <1>8, <2>3
    <2> QED BY <2>1, <2>2, <2>3
  <1>10. CASE check_failed'
    <2>1. q = <<>>
      BY <1>8, <1>10
    <2>2. q \in Seq(Messages) /\ Carried(q) = {} /\ Once(q) /\ DOMAIN q = {}
      BY <2>1, EmptySeq, CarriedShort
    <2> QED BY <1>4, <1>6, <1>9, <1>10, <2>1, <2>2, SendingKeepsPromises
  <1>11. CASE ~check_failed'
    <2>1. q = CommitDataWithSplitting(r, cb) \/ q = <<CommitData(r, cb)>>
      BY <1>3, <1>8, <1>11
    <2>2. q \in Seq(Messages) /\ ChunksInAll(q) = Requested
      BY <1>2, <1>5, <2>1, CommittedMessages
    <2>3. /\ \A i \in DOMAIN q : Answered(q[i]) # {} => i = Len(q)
          /\ Answered(q[Len(q)]) = cb \cup ({RequestId} \ {0})
          /\ Carried(q) = cb /\ Once(q)
      BY <1>7, <2>1, <2>2, OnlyLastAnswers
    <2>4. \A i \in DOMAIN q : \A z \in Answered(q[i]) :
             ~check_failed /\ i = Len(q) /\ z \in cb \cup ({RequestId} \ {0})
      BY <2>3
    <2> QED BY <1>4, <1>6, <1>9, <1>11, <2>2, <2>3, <2>4, SendingKeepsPromises
  <1> QED BY <1>10, <1>11

\* FlushPendingCommitDataRequests, called or run as a task.
LEMMA FlushLockedKeepsPromises ==
  ASSUME ArbiterInv, ChunkInv, PromiseInv, ~check_failed, NEW t \in Threads,
         NEW cb \in SUBSET Callbacks, NEW rest, FlushLocked(t, cb, rest), Taken(t, cb),
         \A ops \in Seq(Steps) : GoOn(t, ops, rest) => Does(t, ops),
         todo[t] # <<>> => ~IsReturn(Head(todo[t]))
  PROVE  PromiseInv'
  <1>1. Types /\ DataTypes /\ UNCHANGED promised
    BY DEF ArbiterInv, ChunkInv, FlushLocked, callers
  <1> QED
    BY <1>1, FlushUnboundKeepsPromises, FlushElsewhereKeepsPromises, FlushEmptyKeepsPromises,
       FlushRequestKeepsPromises DEF FlushLocked

\* A thread flushes.
LEMMA FlushPendingKeepsPromises ==
  ASSUME ArbiterInv, ChunkInv, PromiseInv, ~check_failed, NEW t \in Threads,
         FlushPendingCommitDataRequests(t)
  PROVE  PromiseInv'
  <1>1. Types /\ OnceInv /\ Once(tasks)
    BY DEF ArbiterInv, PromiseInv, OnceInv
  <1>2. PICK op : op = Head(todo[t])
    OBVIOUS
  <1>3. /\ todo[t] # <<>> /\ op.op = "Flush" /\ FlushLocked(t, op.callback, Tail(todo[t]))
        /\ UNCHANGED tasks
    BY <1>2 DEF FlushPendingCommitDataRequests, Doing
  <1>4. /\ op \in Steps /\ op.callback \in SUBSET Callbacks /\ ~IsReturn(op)
        /\ \A ops \in Seq(Steps) : GoOn(t, ops, Tail(todo[t])) => Does(t, ops)
    BY <1>1, <1>2, <1>3, NextOp, StepFields DEF IsReturn
  <1>5. PICK cb : cb = op.callback
    OBVIOUS
  <1>6. cb = CallbacksIn(Head(todo[t]))
    BY <1>2, <1>3, <1>4, <1>5, WhatCarries
  <1>7. Taken(t, cb)
    <2>1. /\ cb = HeadCarries(todo[t]) /\ cb \cap Carried(Rest(t)) = {} /\ cb \cap Replied = {}
          /\ \A u \in Threads \ {t} : cb \cap Carried(todo[u]) = {}
          /\ cb \cap pending_flush_callbacks_ = {} /\ cb \cap Carried(tasks) = {}
          /\ cb \cap Carried(channel) = {}
      BY <1>1, <1>3, <1>6, HeadIsApart
    <2> QED BY <1>1, <1>3, <2>1 DEF Taken
  <1> QED BY <1>2, <1>3, <1>4, <1>5, <1>7, FlushLockedKeepsPromises

-----------------------------------------------------------------------------
(***************************************************************************)
(* Binding.                                                                *)
(***************************************************************************)
\* Once bound, the callbacks that waited come to the thread that binds.
LEMMA BindingKeepsPromises ==
  ASSUME Types, DataTypes, PromiseInv, NEW t \in Threads, NEW bound, NEW rest,
         GoOn(t, FlushAfterBinding(bound), rest), pending_flush_callbacks_' = CallbacksLeft(bound),
         \A ops \in Seq(Steps) : GoOn(t, ops, rest) => Does(t, ops),
         todo[t] # <<>> => ~IsReturn(Head(todo[t])),
         UNCHANGED <<service, promised, commit_data_req_, check_failed>>,
         Once(tasks'), Carried(tasks') \subseteq Carried(tasks),
         NEW q \in Seq(Messages), channel' = channel \o q, \A m \in ToSet(q) : m.type # "CommitData"
  PROVE  PromiseInv'
  <1>1. /\ CoverInv /\ OnceInv /\ SentCovered /\ Once(channel) /\ channel \in Seq(Messages)
        /\ pending_flush_callbacks_ \in SUBSET Callbacks
    BY DEF PromiseInv, CoverInv, OnceInv, DataTypes, Types
  <1>2. PICK S : S = IF bound THEN pending_flush_callbacks_ ELSE {}
    OBVIOUS
  <1>3. PICK call : call = FlushCall(pending_flush_callbacks_)
    OBVIOUS
  <1>4. PICK ops : ops = IF bound THEN <<call>> ELSE <<>>
    OBVIOUS
  <1>5. ops \in Seq(Steps) /\ Carried(ops) = S /\ Once(ops)
    <2>1. call \in Steps /\ CallbacksIn(call) = pending_flush_callbacks_
      BY <1>1, <1>3, StepsAreTyped, WhatCarries
    <2>2. CASE bound
      <3>1. ops = <<call>> /\ S = pending_flush_callbacks_
        BY <1>2, <1>4, <2>2
      <3> QED BY <2>1, <3>1, SetOfShort, CarriedShort
    <2>3. CASE ~bound
      <3>1. ops = <<>> /\ S = {}
        BY <1>2, <1>4, <2>3
      <3> QED BY <3>1, EmptySeq, CarriedShort
    <2> QED BY <2>2, <2>3
  <1>6. Does(t, ops)
    <2>1. ops = FlushAfterBinding(bound)
      BY <1>3, <1>4 DEF FlushAfterBinding
    <2> QED BY <1>5, <2>1
  <1>7. /\ S \cap Carried(tasks) = {} /\ S \cap Carried(channel) = {} /\ S \cap Replied = {}
        /\ \A u \in Threads : S \cap Carried(todo[u]) = {}
    <2>1. PICK p : p = <<"pending", None>>
      OBVIOUS
    <2>2. p \in Places /\ S \subseteq In(p)
      <3>1. In(p) = pending_flush_callbacks_
        BY <2>1, AllPlaces
      <3> QED BY <1>2, <2>1, <3>1 DEF Places
    <2>3. /\ p # <<"posted", None>> /\ p # <<"sent", None>> /\ p # <<"replied", None>>
          /\ \A u \in Threads : p # <<"thread", u>>
      BY <2>1
    <2> QED BY <1>1, <2>2, <2>3, Apart
  <1>8. S \cap Carried(Rest(t)) = {}
    <2>1. Carried(todo[t]) = HeadCarries(todo[t]) \cup Carried(Rest(t))
      BY <1>1, <1>6, CarriedEffect
    <2> QED BY <1>7, <2>1
  <1>9. /\ pending_flush_callbacks_' \subseteq pending_flush_callbacks_
        /\ pending_flush_callbacks_' \cap S = {}
    BY <1>2 DEF CallbacksLeft
  <1>10. \A m \in ToSet(q) : Answered(m) = {} /\ CallbacksIn(m) = {}
    <2> TAKE m \in ToSet(q)
    <2>1. Answered(m) = {} /\ m \in Messages
      BY DEF Answered, ToSet
    <2> QED BY <2>1, WhatCarries
  <1>11. SentCovered'
    <2>1. \A i \in DOMAIN q : Answered(q[i]) = {}
      BY <1>10 DEF ToSet
    <2> QED BY <1>1, <2>1, SendingCovers
  <1>12. Carried(channel') = Carried(channel) /\ Once(channel')
    <2>1. Carried(q) = {} /\ Once(q)
      BY <1>10, CarriesNothing
    <2>2. /\ Carried(channel \o q) = Carried(channel) \cup Carried(q)
          /\ Once(channel) /\ Once(q) /\ Carried(channel) \cap Carried(q) = {} => Once(channel \o q)
      BY <1>1, CarriedCat
    <2> QED BY <1>1, <2>1, <2>2
  <1>13. Pipeline' = Pipeline /\ RequestId' = RequestId
    <2>1. InChannel' = InChannel
      BY <1>1, ChunklessMessages
    <2>2. Requested' = Requested /\ RequestId' = RequestId /\ Arrived' = Arrived
      BY DEF Requested, RequestId, Arrived
    <2> QED BY <2>1, <2>2 DEF Pipeline, Sent
  <1>14. PICK b : b = "thread"
    OBVIOUS
  <1>15. /\ Carried(ops) \subseteq IF b = "thread" THEN S ELSE {}
         /\ pending_flush_callbacks_' \subseteq
              pending_flush_callbacks_ \cup IF b = "pending" THEN S ELSE {}
         /\ (b # "pending" => pending_flush_callbacks_' \cap S = {})
         /\ Carried(tasks') \subseteq Carried(tasks) \cup IF b = "posted" THEN S ELSE {}
         /\ (b # "posted" => Carried(tasks') \cap S = {})
         /\ Carried(channel') \subseteq Carried(channel) \cup IF b = "sent" THEN S ELSE {}
         /\ (b # "sent" => Carried(channel') \cap S = {})
    BY <1>5, <1>7, <1>9, <1>12, <1>14
  <1>16. S \subseteq pending_flush_callbacks_ \cup Carried(tasks) \cup HeadCarries(todo[t])
    BY <1>2
  <1>17. (check_failed => check_failed') /\ (~check_failed' => Pipeline \subseteq Pipeline')
         /\ RequestId' \in {0, RequestId} /\ UNCHANGED <<service, promised>>
    BY <1>13
  <1> QED BY <1>5, <1>6, <1>7, <1>8, <1>11, <1>12, <1>14, <1>15, <1>16, <1>17, PromiseStep

\* The registrations go out, and the callbacks come to the thread.
LEMMA BindImplKeepsPromises ==
  ASSUME ArbiterInv, ChunkInv, PromiseInv, NEW t \in Threads, NEW r \in Reservations,
         NEW buffer \in Nat, NEW rest, BindStartupTargetBufferImpl(t, r, buffer, rest),
         \A ops \in Seq(Steps) : GoOn(t, ops, rest) => Does(t, ops),
         todo[t] # <<>> => ~IsReturn(Head(todo[t])),
         UNCHANGED <<service, promised, commit_data_req_, check_failed>>,
         Once(tasks'), Carried(tasks') \subseteq Carried(tasks)
  PROVE  PromiseInv'
  <1> DEFINE bound == UpdateFullyBound(endpoint, [target_buffer_reservations_ EXCEPT ![r] = buffer])
  <1>1. Types /\ DataTypes
    BY DEF ArbiterInv, ChunkInv
  <1>2. PICK q \in Seq(Messages) :
           channel' = channel \o q /\ \A m \in ToSet(q) : m.type # "CommitData"
    BY BindImplSends
  <1>3. /\ GoOn(t, FlushAfterBinding(bound), rest)
        /\ pending_flush_callbacks_' = CallbacksLeft(bound)
    BY DEF BindStartupTargetBufferImpl
  <1> HIDE DEF bound
  <1> QED BY <1>1, <1>2, <1>3, BindingKeepsPromises

\* An abort.
LEMMA AbortLockedKeepsPromises ==
  ASSUME ArbiterInv, ChunkInv, PromiseInv, NEW t \in Threads, NEW r \in Reservations, NEW rest,
         AbortLocked(t, r, rest),
         \A ops \in Seq(Steps) : GoOn(t, ops, rest) => Does(t, ops),
         todo[t] # <<>> => ~IsReturn(Head(todo[t])),
         t # IPC => UNCHANGED tasks, Once(tasks'), Carried(tasks') \subseteq Carried(tasks)
  PROVE  PromiseInv'
  <1>1. UNCHANGED <<service, promised, commit_data_req_, check_failed>>
    BY DEF AbortLocked, batch, memory, callers
  <1>2. CASE endpoint /\ t # IPC
    <2>1. PICK post : post = PostTask(AbortCall(r))
      OBVIOUS
    <2>2. post \in Steps /\ CallbacksIn(post) = {}
      BY <2>1, StepsAreTyped, EmptyHands
    <2>3. <<post>> \in Seq(Steps) /\ ToSet(<<post>>) = {post}
      BY <2>2, SetOfShort
    <2>4. GoOn(t, <<post>>, rest) /\ UNCHANGED <<channel, pending_flush_callbacks_, tasks>>
      BY <1>2, <2>1 DEF AbortLocked, binding
    <2>5. Does(t, <<post>>)
      BY <2>3, <2>4
    <2> QED BY <1>1, <2>2, <2>3, <2>4, <2>5, QuietHands
  <1>3. CASE ~(endpoint /\ t # IPC)
    <2>1. BindStartupTargetBufferImpl(t, r, kInvalidBufferId, rest) /\ kInvalidBufferId \in Nat
      BY <1>3 DEF AbortLocked, kInvalidBufferId
    <2> HIDE DEF kInvalidBufferId
    <2> QED BY <1>1, <2>1, BindImplKeepsPromises
  <1> QED BY <1>2, <1>3

\* A reservation is resolved on the IPC thread, or by a thread that aborts.
LEMMA ResolvingKeepsPromises ==
  ASSUME ArbiterInv, ChunkInv, PromiseInv
  PROVE  /\ \A r \in Reservations, b \in Buffers : BindStartupTargetBuffer(r, b) => PromiseInv'
         /\ \A t \in Threads : AbortStartupTracingForReservation(t) => PromiseInv'
  <1>1. Types /\ IPC \in Threads /\ Once(tasks)
    BY DEF ArbiterInv, Threads, PromiseInv, OnceInv
  <1>2. ASSUME NEW r \in Reservations, NEW b \in Buffers, BindStartupTargetBuffer(r, b)
        PROVE  PromiseInv'
    <2>1. /\ Idle(IPC) /\ BindStartupTargetBufferImpl(IPC, r, b, <<>>) /\ b \in Nat
          /\ UNCHANGED <<service, promised, commit_data_req_, check_failed, tasks>>
      BY <1>2, ArbiterAssumption DEF BindStartupTargetBuffer, batch, memory
    <2>2. todo[IPC] = <<>> /\ \A ops \in Seq(Steps) : GoOn(IPC, ops, <<>>) => Does(IPC, ops)
      BY <1>1, <2>1 DEF GoOn, Does, Rest, Idle
    <2>3. Once(tasks') /\ Carried(tasks') \subseteq Carried(tasks)
      BY <1>1, <2>1
    <2> QED BY <1>1, <2>1, <2>2, <2>3, BindImplKeepsPromises
  <1>3. ASSUME NEW t \in Threads, AbortStartupTracingForReservation(t)
        PROVE  PromiseInv'
    <2>1. PICK op : op = Head(todo[t])
      OBVIOUS
    <2>2. /\ todo[t] # <<>> /\ op.op = "Abort" /\ AbortLocked(t, op.reservation, Tail(todo[t]))
          /\ UNCHANGED tasks
      BY <1>3, <2>1 DEF AbortStartupTracingForReservation, Doing
    <2>3. op.reservation \in Reservations /\ ~IsReturn(op)
      BY <1>1, <2>1, <2>2, NextOp, StepFields DEF IsReturn
    <2>4. \A ops \in Seq(Steps) : GoOn(t, ops, Tail(todo[t])) => Does(t, ops)
      BY <1>1, <2>2, NextOp
    <2>5. Once(tasks') /\ Carried(tasks') \subseteq Carried(tasks)
      BY <1>1, <2>2
    <2> QED BY <2>1, <2>2, <2>3, <2>4, <2>5, AbortLockedKeepsPromises
  <1> QED BY <1>2, <1>3

\* The arbiter is bound to its endpoint.
LEMMA BindToProducerEndpointKeepsPromises ==
  ASSUME ArbiterInv, ChunkInv, PromiseInv, BindToProducerEndpoint
  PROVE  PromiseInv'
  <1> DEFINE bound == UpdateFullyBound(TRUE, target_buffer_reservations_)
  <1>1. Types /\ DataTypes /\ IPC \in Threads /\ Once(tasks) /\ channel \in Seq(Messages)
    BY DEF ArbiterInv, ChunkInv, Threads, PromiseInv, OnceInv, DataTypes
  <1>2. /\ Idle(IPC) /\ todo' = [todo EXCEPT ![IPC] = FlushAfterBinding(bound)]
        /\ pending_flush_callbacks_' = CallbacksLeft(bound)
        /\ UNCHANGED <<service, promised, commit_data_req_, check_failed, tasks, channel>>
    BY DEF BindToProducerEndpoint, batch, memory, port, callers
  <1> HIDE DEF bound
  <1>3. PICK q : q = <<>>
    OBVIOUS
  <1>4. q \in Seq(Messages) /\ channel' = channel \o q /\ \A m \in ToSet(q) : m.type # "CommitData"
    BY <1>1, <1>2, <1>3, SetOfShort, EmptySeq, ConcatEmptySeq
  <1>5. PICK rest : rest = <<>>
    OBVIOUS
  <1>6. todo[IPC] = <<>> /\ \A ops \in Seq(Steps) : GoOn(IPC, ops, rest) => Does(IPC, ops)
    BY <1>1, <1>2, <1>5 DEF GoOn, Does, Rest, Idle
  <1>7. GoOn(IPC, FlushAfterBinding(bound), rest)
    <2>1. FlushAfterBinding(bound) \o rest = FlushAfterBinding(bound)
      <3>1. PICK call : call = FlushCall(pending_flush_callbacks_)
        OBVIOUS
      <3>2. <<call>> \in Seq({call}) /\ <<>> \in Seq({call})
        OBVIOUS
      <3>3. <<call>> \o rest = <<call>> /\ <<>> \o rest = <<>>
        BY <1>5, <3>2, ConcatEmptySeq
      <3> QED BY <3>1, <3>3 DEF FlushAfterBinding
    <2> QED BY <1>2, <2>1 DEF GoOn
  <1>8. Once(tasks') /\ Carried(tasks') \subseteq Carried(tasks)
    BY <1>1, <1>2
  <1> QED BY <1>1, <1>2, <1>4, <1>6, <1>7, <1>8, BindingKeepsPromises

-----------------------------------------------------------------------------
(***************************************************************************)
(* Tasks.                                                                  *)
(***************************************************************************)
\* A posted task runs.
LEMMA RunTaskKeepsPromises ==
  ASSUME ArbiterInv, ChunkInv, PromiseInv, ~check_failed, RunTask
  PROVE  PromiseInv'
  <1>1. /\ Types /\ IPC \in Threads /\ DataTypes /\ OnceInv /\ CoverInv /\ SentCovered
        /\ Once(tasks) /\ Once(channel) /\ channel \in Seq(Messages) /\ tasks \in Seq(Tasks)
    BY DEF ArbiterInv, ChunkInv, Threads, PromiseInv, OnceInv, CoverInv, Types, DataTypes
  <1>2. PICK task : task = Head(tasks)
    OBVIOUS
  <1>3. /\ Idle(IPC) /\ tasks # <<>> /\ tasks' = Tail(tasks)
        /\ CASE may_delete ->
                  UNCHANGED <<arbiter, timers, todo, memory, callers, port>>
             [] ~may_delete /\ task.op = "Flush" -> FlushLocked(IPC, task.callback, <<>>)
             [] ~may_delete /\ task.op = "Abort" -> AbortLocked(IPC, task.reservation, <<>>)
             [] ~may_delete /\ task.op = "Send" ->
                  /\ channel' = Append(channel, task.msg)
                  /\ UNCHANGED <<arbiter, timers, todo, memory, callers, service>>
    BY <1>2 DEF RunTask
  <1>4. task \in Tasks
    BY <1>1, <1>2, <1>3, HeadTailProperties
  <1>5. todo[IPC] = <<>> /\ \A ops \in Seq(Steps) : GoOn(IPC, ops, <<>>) => Does(IPC, ops)
    BY <1>1, <1>3 DEF GoOn, Does, Rest, Idle
  <1>6. /\ Carried(tasks) = CallbacksIn(task) \cup Carried(tasks')
        /\ Once(tasks') /\ CallbacksIn(task) \cap Carried(tasks') = {}
    BY <1>1, <1>2, <1>3, CarriedQueue
  <1>7. CASE may_delete \/ task.op = "Send"
    <2>1. /\ UNCHANGED <<todo, service, promised, commit_data_req_, check_failed,
                         pending_flush_callbacks_>>
          /\ channel' = channel \/ (task.op = "Send" /\ channel' = Append(channel, task.msg))
      BY <1>3, <1>7 DEF arbiter, binding, batch, memory, callers, port
    <2>2. PICK q \in Seq(Messages) : channel' = channel \o q /\ \A m \in ToSet(q) : m.type # "CommitData"
      <3>1. CASE channel' = channel
        <4>1. <<>> \in Seq(Messages) /\ ToSet(<<>>) = {} /\ channel \o <<>> = channel
          BY <1>1, SetOfShort, EmptySeq, ConcatEmptySeq
        <4> QED BY <3>1, <4>1
      <3>2. CASE task.op = "Send" /\ channel' = Append(channel, task.msg)
        <4>1. PICK m : m = task.msg
          OBVIOUS
        <4>2. m \in Messages /\ m.type # "CommitData" /\ channel' = channel \o <<m>>
          BY <1>1, <1>4, <3>2, <4>1, TaskFields, AppendIsConcat
        <4>3. <<m>> \in Seq(Messages) /\ ToSet(<<m>>) = {m}
          BY <4>2, SetOfShort
        <4> QED BY <4>2, <4>3
      <3> QED BY <2>1, <3>1, <3>2
    <2>3. PICK ops : ops = <<>>
      OBVIOUS
    <2>4. Does(IPC, ops) /\ Carried(ops) = {} /\ Once(ops)
      BY <1>1, <1>3, <2>1, <2>3, IdleDoes, CarriedShort
    <2>5. \A m \in ToSet(q) : Answered(m) = {} /\ CallbacksIn(m) = {}
      <3> TAKE m \in ToSet(q)
      <3>1. Answered(m) = {} /\ m \in Messages
        BY <2>2 DEF Answered, ToSet
      <3> QED BY <2>2, <3>1, WhatCarries
    <2>6. SentCovered'
      <3>1. \A i \in DOMAIN q : Answered(q[i]) = {}
        BY <2>5 DEF ToSet
      <3> QED BY <1>1, <2>1, <2>2, <3>1, SendingCovers
    <2>7. Carried(channel') = Carried(channel) /\ Once(channel')
      <3>1. Carried(q) = {} /\ Once(q)
        BY <2>5, CarriesNothing
      <3>2. /\ Carried(channel \o q) = Carried(channel) \cup Carried(q)
            /\ Once(channel) /\ Once(q) /\ Carried(channel) \cap Carried(q) = {} => Once(channel \o q)
        BY <1>1, CarriedCat
      <3> QED BY <1>1, <2>2, <3>1, <3>2
    <2>8. Pipeline' = Pipeline /\ RequestId' = RequestId
      <3>1. InChannel' = InChannel
        BY <1>1, <2>2, ChunklessMessages
      <3>2. Requested' = Requested /\ RequestId' = RequestId /\ Arrived' = Arrived
        BY <2>1 DEF Requested, RequestId, Arrived
      <3> QED BY <3>1, <3>2 DEF Pipeline, Sent
    <2>9. PICK S : S = {}
      OBVIOUS
    <2>10. PICK b : b = "pending"
      OBVIOUS
    <2>11. /\ S \subseteq pending_flush_callbacks_ \cup Carried(tasks) \cup HeadCarries(todo[IPC])
           /\ S \cap Carried(Rest(IPC)) = {} /\ S \cap Replied = {}
           /\ \A u \in Threads \ {IPC} : S \cap Carried(todo[u]) = {}
           /\ Carried(ops) \subseteq IF b = "thread" THEN S ELSE {}
           /\ pending_flush_callbacks_' \subseteq
                pending_flush_callbacks_ \cup IF b = "pending" THEN S ELSE {}
           /\ (b # "pending" => pending_flush_callbacks_' \cap S = {})
           /\ Carried(tasks') \subseteq Carried(tasks) \cup IF b = "posted" THEN S ELSE {}
           /\ (b # "posted" => Carried(tasks') \cap S = {})
           /\ Carried(channel') \subseteq Carried(channel) \cup IF b = "sent" THEN S ELSE {}
           /\ (b # "sent" => Carried(channel') \cap S = {})
      BY <1>6, <2>1, <2>4, <2>7, <2>9
    <2>12. (check_failed => check_failed') /\ (~check_failed' => Pipeline \subseteq Pipeline')
           /\ RequestId' \in {0, RequestId} /\ UNCHANGED <<service, promised>>
      BY <2>1, <2>8
    <2> QED BY <1>1, <1>5, <1>6, <2>4, <2>6, <2>7, <2>10, <2>11, <2>12, PromiseStep
  <1>8. CASE ~may_delete /\ task.op = "Flush"
    <2>1. PICK cb : cb = task.callback
      OBVIOUS
    <2>2. /\ FlushLocked(IPC, cb, <<>>) /\ cb \in SUBSET Callbacks /\ CallbacksIn(task) = cb
      BY <1>3, <1>4, <1>8, <2>1, TaskFields, WhatCarries
    <2>3. Taken(IPC, cb)
      <3>1. PICK p : p = <<"posted", None>>
        OBVIOUS
      <3>2. p \in Places /\ cb \subseteq In(p)
        <4>1. In(p) = Carried(tasks)
          BY <3>1, AllPlaces
        <4> QED BY <1>6, <2>2, <3>1, <4>1 DEF Places
      <3>3. /\ p # <<"pending", None>> /\ p # <<"sent", None>> /\ p # <<"replied", None>>
            /\ \A u \in Threads : p # <<"thread", u>>
        BY <3>1
      <3>4. /\ cb \cap pending_flush_callbacks_ = {} /\ cb \cap Carried(channel) = {}
            /\ cb \cap Replied = {} /\ \A u \in Threads : cb \cap Carried(todo[u]) = {}
        BY <1>1, <3>2, <3>3, Apart
      <3>5. Carried(Rest(IPC)) = {}
        BY <1>5, CarriedShort DEF Rest
      <3> QED BY <1>6, <2>2, <3>4, <3>5 DEF Taken
    <2>4. PICK rest : rest = <<>>
      OBVIOUS
    <2>5. /\ FlushLocked(IPC, cb, rest)
          /\ \A ops \in Seq(Steps) : GoOn(IPC, ops, rest) => Does(IPC, ops)
      BY <1>5, <2>2, <2>4
    <2> QED BY <1>1, <1>5, <2>2, <2>3, <2>5, FlushLockedKeepsPromises
  <1>9. CASE ~may_delete /\ task.op = "Abort"
    <2>1. AbortLocked(IPC, task.reservation, <<>>) /\ task.reservation \in Reservations
      BY <1>3, <1>4, <1>9, TaskFields
    <2>2. Carried(tasks') \subseteq Carried(tasks)
      BY <1>6
    <2>3. PICK rest : rest = <<>>
      OBVIOUS
    <2>4. /\ AbortLocked(IPC, task.reservation, rest)
          /\ \A ops \in Seq(Steps) : GoOn(IPC, ops, rest) => Does(IPC, ops)
      BY <1>5, <2>1, <2>3
    <2> QED BY <1>1, <1>5, <1>6, <2>1, <2>2, <2>4, AbortLockedKeepsPromises
  <1> QED BY <1>4, <1>7, <1>8, <1>9, TaskFields

-----------------------------------------------------------------------------
(***************************************************************************)
(* The service.                                                            *)
(***************************************************************************)
\* What the messages behind the first are going to cover.
LEMMA SentMovesUp ==
  ASSUME SentCovered, UNCHANGED promised, channel \in Seq(Messages), channel # <<>>,
         channel' = Tail(channel), Arrived' = Arrived \cup ChunksIn(Head(channel))
  PROVE  /\ \A x \in Answered(Head(channel)) : Covered(x, Arrived)'
         /\ SentCovered'
  <1>1. PICK msg : msg = Head(channel)
    OBVIOUS
  <1>2. /\ Len(channel) \in Nat \ {0} /\ DOMAIN channel = 1 .. Len(channel)
        /\ DOMAIN channel' = 1 .. Len(channel) - 1 /\ msg = channel[1]
        /\ \A i \in DOMAIN channel' : i + 1 \in DOMAIN channel /\ channel'[i] = channel[i + 1]
    BY <1>1, TailPlaces
  <1>3. ASSUME NEW x \in Answered(msg) PROVE Covered(x, Arrived)'
    <2>1. 1 \in DOMAIN channel
      BY <1>2
    <2>2. Covered(x, Arrived \cup ChunksUpTo(channel, 1))
      BY <1>2, <1>3, <2>1 DEF SentCovered
    <2>3. ChunksUpTo(channel, 1) = ChunksIn(msg)
      BY <1>2 DEF ChunksUpTo
    <2> QED BY <1>1, <2>2, <2>3 DEF Covered
  <1>4. ASSUME NEW j \in DOMAIN channel', NEW x \in Answered(channel'[j])
        PROVE  Covered(x, Arrived \cup ChunksUpTo(channel, j))'
    <2>1. j \in Nat \ {0} /\ j + 1 \in DOMAIN channel /\ channel'[j] = channel[j + 1]
      BY <1>2, <1>4
    <2>2. Covered(x, Arrived \cup ChunksUpTo(channel, j + 1))
      BY <1>4, <2>1 DEF SentCovered
    <2>3. ChunksUpTo(channel, j + 1) \subseteq ChunksIn(msg) \cup ChunksUpTo(channel', j)
      <3> SUFFICES ASSUME NEW i \in 1 .. j + 1
                   PROVE  ChunksIn(channel[i]) \subseteq ChunksIn(msg) \cup ChunksUpTo(channel', j)
        BY DEF ChunksUpTo
      <3>1. CASE i = 1
        BY <1>2, <3>1
      <3>2. CASE i # 1
        <4>1. i - 1 \in 1 .. j /\ i - 1 \in DOMAIN channel'
          BY <1>2, <1>4, <2>1, <3>2
        <4>2. channel'[i - 1] = channel[(i - 1) + 1] /\ (i - 1) + 1 = i
          BY <1>2, <4>1
        <4> QED BY <4>1, <4>2 DEF ChunksUpTo
      <3> QED BY <3>1, <3>2
    <2>4. Arrived \cup ChunksUpTo(channel, j + 1) \subseteq Arrived' \cup ChunksUpTo(channel', j)
      BY <1>1, <2>3
    <2> QED BY <2>2, <2>4 DEF Covered
  <1>5. (\A j \in DOMAIN channel : \A x \in Answered(channel[j]) :
            Covered(x, Arrived \cup ChunksUpTo(channel, j)))'
    BY <1>4
  <1> QED BY <1>1, <1>3, <1>5 DEF SentCovered

\* What a message does at the service.
LEMMA ReceiveEffect ==
  ASSUME ArbiterInv, ChunkInv, Receive, NEW msg, msg = Head(channel)
  PROVE  /\ channel # <<>> /\ channel' = Tail(channel) /\ msg \in Messages
         /\ Arrived' = Arrived \cup ChunksIn(msg) /\ Pipeline' = Pipeline
         /\ service'.flushed \cup Replied' = service.flushed \cup Replied \cup Answered(msg)
         /\ Replied' = Replied \cup CallbacksIn(msg)
         /\ \A cb \in Callbacks :
               service'.replied[cb] = service.replied[cb] + (IF cb \in CallbacksIn(msg) THEN 1 ELSE 0)
  <1>1. /\ channel # <<>> /\ channel' = Tail(channel) /\ UNCHANGED commit_data_req_
    BY DEF Receive, arbiter, batch
  <1>2. Types /\ DataTypes /\ channel \in Seq(Messages)
    BY DEF ArbiterInv, ChunkInv, DataTypes
  <1>3. /\ msg \in Messages /\ ChunksInAll(channel) = ChunksIn(msg) \cup ChunksInAll(Tail(channel))
    BY <1>1, <1>2, MessagesQueue
  <1>4. \A cb \in Callbacks : service.replied[cb] \in Nat
    BY <1>2 DEF DataTypes
  <1>5. CASE msg.type = "CommitData"
    <2>1. ServiceCommitData(msg)
      BY <1>5 DEF Receive
    <2>2. TakesAll(msg)
      BY <1>1, <1>2, <1>5, <2>1, CommitDataEffect
    <2>3. Arrived' = Arrived \cup ChunksIn(msg)
      BY <1>2, <1>3, <1>5, <2>2, TakingArrives
    <2>4. msg.callback = CallbacksIn(msg) /\ CallbacksIn(msg) \subseteq Callbacks
      BY <1>3, <1>5, WhatCarries
    <2>5. /\ service'.flushed = service.flushed \cup ({msg.req.flush_request_id} \ {0})
          /\ \A cb \in Callbacks :
                service'.replied[cb] = service.replied[cb] + (IF cb \in CallbacksIn(msg) THEN 1 ELSE 0)
      BY <2>2, <2>4 DEF TakesAll
    <2>6. Replied' = Replied \cup CallbacksIn(msg)
      BY <1>4, <2>4, <2>5 DEF Replied
    <2>7. Answered(msg) = CallbacksIn(msg) \cup ({msg.req.flush_request_id} \ {0})
      BY <1>5, <2>4 DEF Answered
    <2>8. InChannel' = ChunksInAll(Tail(channel)) /\ Requested' = Requested
      BY <1>1 DEF InChannel, ChunksInAll, Requested
    <2>9. Pipeline' = Pipeline
      BY <1>3, <2>3, <2>8 DEF Pipeline, Sent, InChannel
    <2> QED BY <1>1, <1>3, <2>3, <2>5, <2>6, <2>7, <2>9
  <1>6. CASE msg.type # "CommitData"
    <2>1. msg.type \in {"Register", "Unregister"}
      BY <1>3, <1>6 DEF Messages
    <2>2. service'.moved = service.moved /\ service'.flushed = service.flushed
          /\ service'.replied = service.replied
      <3>1. RegisterTraceWriter(msg) \/ UnregisterTraceWriter(msg)
        BY <2>1 DEF Receive
      <3>2. DOMAIN service = {"writers", "moved", "skipped", "replied", "flushed"}
        BY <1>2 DEF DataTypes
      <3> QED BY <3>1, <3>2 DEF RegisterTraceWriter, UnregisterTraceWriter
    <2>3. CallbacksIn(msg) = {} /\ Answered(msg) = {} /\ ChunksIn(msg) = {}
      BY <1>3, <1>6, WhatCarries DEF Answered, ChunksIn
    <2>4. Arrived' = Arrived /\ Replied' = Replied
      BY <2>2 DEF Arrived, Replied
    <2>5. InChannel' = ChunksInAll(Tail(channel)) /\ Requested' = Requested
      BY <1>1 DEF InChannel, ChunksInAll, Requested
    <2>6. Pipeline' = Pipeline
      BY <1>3, <2>3, <2>4, <2>5 DEF Pipeline, Sent, InChannel
    <2> QED BY <1>1, <1>3, <1>4, <2>2, <2>3, <2>4, <2>6
  <1> QED BY <1>5, <1>6

\* Callbacks run, and flush replies are noted, when what they cover has arrived.
LEMMA ReceiveKeepsPromises ==
  ASSUME ArbiterInv, ChunkInv, PromiseInv, Receive
  PROVE  PromiseInv'
  <1>1. /\ CoverInv /\ OnceInv /\ SentCovered /\ Once(channel) /\ channel \in Seq(Messages)
        /\ \A cb \in Callbacks : service.replied[cb] \in Nat /\ service.replied[cb] <= 1
    BY DEF ChunkInv, PromiseInv, CoverInv, OnceInv, DataTypes
  <1>2. UNCHANGED <<pending_flush_callbacks_, tasks, todo, promised, commit_data_req_, check_failed>>
    BY DEF Receive, arbiter, binding, batch, runner, callers
  <1>3. PICK msg : msg = Head(channel)
    OBVIOUS
  <1>4. /\ channel # <<>> /\ channel' = Tail(channel) /\ msg \in Messages
        /\ Arrived' = Arrived \cup ChunksIn(msg) /\ Pipeline' = Pipeline
        /\ service'.flushed \cup Replied' = service.flushed \cup Replied \cup Answered(msg)
        /\ Replied' = Replied \cup CallbacksIn(msg)
        /\ \A cb \in Callbacks :
              service'.replied[cb] = service.replied[cb] + (IF cb \in CallbacksIn(msg) THEN 1 ELSE 0)
    BY <1>3, ReceiveEffect
  <1>5. PICK S : S = CallbacksIn(msg)
    OBVIOUS
  <1>6. /\ Carried(channel) = S \cup Carried(channel')
        /\ Once(channel') /\ S \cap Carried(channel') = {}
    BY <1>1, <1>3, <1>4, <1>5, CarriedQueue
  <1>7. /\ S \cap pending_flush_callbacks_ = {} /\ S \cap Carried(tasks) = {} /\ S \cap Replied = {}
        /\ \A t \in Threads : S \cap Carried(todo[t]) = {}
    <2>1. PICK p : p = <<"sent", None>>
      OBVIOUS
    <2>2. p \in Places /\ S \subseteq In(p)
      <3>1. In(p) = Carried(channel)
        BY <2>1, AllPlaces
      <3> QED BY <1>6, <2>1, <3>1 DEF Places
    <2>3. /\ p # <<"pending", None>> /\ p # <<"posted", None>> /\ p # <<"replied", None>>
          /\ \A t \in Threads : p # <<"thread", t>>
      BY <2>1
    <2> QED BY <1>1, <2>2, <2>3, Apart
  <1>8. CoverInv'
    <2>1. /\ \A x \in Answered(msg) : Covered(x, Arrived)'
          /\ SentCovered'
      BY <1>1, <1>2, <1>3, <1>4, SentMovesUp
    <2>2. ASSUME NEW x \in Replied' \cup service'.flushed PROVE Covered(x, Arrived)'
      <3>1. CASE x \in Answered(msg)
        BY <2>1, <3>1
      <3>2. CASE x \in Replied \cup service.flushed
        <4>1. Covered(x, Arrived)
          BY <1>1, <3>2 DEF CoverInv
        <4> QED BY <1>2, <1>4, <4>1 DEF Covered
      <3> QED BY <1>4, <2>2, <3>1, <3>2
    <2>3. RequestId' # 0 => CoveredSoon(RequestId, Pipeline)'
      <3>1. RequestId' = RequestId
        BY <1>2 DEF RequestId
      <3> QED BY <1>1, <1>2, <1>4, <3>1 DEF CoverInv, CoveredSoon
    <2>4. ASSUME NEW cb \in pending_flush_callbacks_' \cup Carried(tasks')
          PROVE  CoveredSoon(cb, Pipeline)'
      <3>1. CoveredSoon(cb, Pipeline)
        BY <1>1, <1>2, <2>4 DEF CoverInv
      <3> QED BY <1>2, <1>4, <3>1 DEF CoveredSoon
    <2>5. ASSUME NEW t \in Threads, NEW cb \in Carried(todo'[t])
          PROVE  CoveredSoon(cb, Pipeline \cup ReturnedNext(todo[t]))'
      <3>1. CoveredSoon(cb, Pipeline \cup ReturnedNext(todo[t]))
        BY <1>1, <1>2, <2>5 DEF CoverInv
      <3> QED BY <1>2, <1>4, <3>1 DEF CoveredSoon
    <2>6. /\ (\A x \in Replied \cup service.flushed : Covered(x, Arrived))'
          /\ (\A cb \in pending_flush_callbacks_ \cup Carried(tasks) : CoveredSoon(cb, Pipeline))'
          /\ (\A t \in Threads : \A cb \in Carried(todo[t]) :
                CoveredSoon(cb, Pipeline \cup ReturnedNext(todo[t])))'
      BY <2>2, <2>4, <2>5
    <2> QED BY <2>1, <2>3, <2>6 DEF CoverInv
  <1>9. \A p, q \in Places : In(p)' \cap In(q)' # {} => p = q
    <2>1. PICK b : b = <<"replied", None>>
      OBVIOUS
    <2>2. /\ In(<<"pending", None>>)' = pending_flush_callbacks_
          /\ In(<<"posted", None>>)' = Carried(tasks)
          /\ In(<<"sent", None>>)' = Carried(channel')
          /\ In(<<"replied", None>>)' = Replied \cup S
          /\ \A u : In(<<"thread", u>>)' = Carried(todo[u])
      BY <1>2, <1>4, <1>5 DEF In
    <2>3. b \in Places /\ In(b)' \subseteq In(b) \cup S
      <3>1. In(b) = Replied
        BY <2>1, AllPlaces
      <3> QED BY <2>1, <2>2, <3>1 DEF Places
    <2>4. ASSUME NEW p \in Places \ {b} PROVE In(p)' \subseteq In(p) /\ In(p)' \cap S = {}
      <3>1. CASE p = <<"pending", None>>
        BY <1>7, <2>2, <3>1, AllPlaces
      <3>2. CASE p = <<"posted", None>>
        BY <1>7, <2>2, <3>2, AllPlaces
      <3>3. CASE p = <<"sent", None>>
        BY <1>6, <2>2, <3>3, AllPlaces
      <3>4. ASSUME NEW u \in Threads, p = <<"thread", u>>
            PROVE  In(p)' \subseteq In(p) /\ In(p)' \cap S = {}
        BY <1>7, <2>2, <3>4, AllPlaces
      <3>5. \/ p \in {<<"pending", None>>, <<"posted", None>>, <<"sent", None>>}
            \/ \E u \in Threads : p = <<"thread", u>>
        BY <2>1, <2>4 DEF Places
      <3> QED BY <3>1, <3>2, <3>3, <3>4, <3>5
    <2> QED BY <1>1, <2>3, <2>4, CallbacksMove
  <1>10. \A cb \in Callbacks : service'.replied[cb] <= 1
    <2> TAKE cb \in Callbacks
    <2>1. CASE cb \in S
      <3>1. cb \notin Replied
        BY <1>7, <2>1
      <3>2. service.replied[cb] = 0
        BY <1>1, <3>1 DEF Replied
      <3> QED BY <1>4, <1>5, <2>1, <3>2
    <2>2. CASE cb \notin S
      BY <1>1, <1>4, <1>5, <2>2
    <2> QED BY <2>1, <2>2
  <1>11. OnceInv'
    <2>1. /\ (\A p, q \in Places : In(p) \cap In(q) # {} => p = q)'
          /\ Once(channel)' /\ (\A cb \in Callbacks : service.replied[cb] <= 1)'
      BY <1>6, <1>9, <1>10
    <2>2. Once(tasks)' /\ (\A t \in Threads : Once(todo[t]))'
      BY <1>1, <1>2 DEF OnceInv
    <2> QED BY <2>1, <2>2 DEF OnceInv
  <1> QED BY <1>8, <1>11 DEF PromiseInv

-----------------------------------------------------------------------------
(***************************************************************************)
(* The promise of a flush.                                                 *)
(***************************************************************************)
\* Nothing happens.
LEMMA StutterKeepsPromises ==
  ASSUME PromiseInv, UNCHANGED vars
  PROVE  PromiseInv'
  <1>1. UNCHANGED <<pending_flush_callbacks_, tasks, todo, promised, commit_data_req_, check_failed,
                    service, channel>>
    BY DEF vars, arbiter, binding, batch, runner, memory, callers, port
  <1>2. /\ Pipeline' = Pipeline /\ RequestId' = RequestId /\ Arrived' = Arrived /\ Replied' = Replied
        /\ SentCovered'
    BY <1>1, PipelineStays DEF Arrived, Replied, PromisesStay, PromiseInv, CoverInv
  <1>3. CoverInv'
    BY <1>1, <1>2 DEF PromiseInv, CoverInv, Covered, CoveredSoon
  <1>4. OnceInv'
    <2>1. \A p \in Places : In(p)' = In(p)
      BY <1>1, <1>2 DEF In
    <2> QED BY <1>1, <2>1 DEF PromiseInv, OnceInv
  <1> QED BY <1>3, <1>4 DEF PromiseInv

\* Every step keeps the promises.
LEMMA NextKeepsPromises ==
  ASSUME ArbiterInv, ChunkInv, PromiseInv, Next
  PROVE  PromiseInv'
  <1>1. UNCHANGED setup
    BY DEF Next
  <1>2. CASE Receive
    BY <1>2, ReceiveKeepsPromises
  <1>3. CASE ~check_failed
    <2>1. ASSUME NEW t \in Threads, Call(t) PROVE PromiseInv'
      BY <1>1, <1>3, <2>1, CreateTraceWriterKeepsPromises, WriterCallKeepsPromises,
         FlushKeepsPromises, OtherCallKeepsPromises DEF Call
    <2>2. ASSUME NEW t \in Threads, Continue(t) PROVE PromiseInv'
      BY <1>1, <1>3, <2>2, UpdateKeepsPromises, FlushPendingKeepsPromises, ResolvingKeepsPromises,
         QueuedStepKeepsPromises, PostingKeepsPromises DEF Continue
    <2>3. CASE RunTask
      BY <1>3, <2>3, RunTaskKeepsPromises
    <2>4. CASE (\E kind \in {"delayed", "immediate"} : RunDelayedFlush(kind)) \/ TryShutdown
      BY <1>1, <2>4, TimersKeepPromises
    <2>5. CASE Scrape
      BY <1>1, <2>5, ScrapeKeepsPromises DEF Scrape
    <2>6. ASSUME NEW id \in FlushIDs, NotifyFlushComplete(id) PROVE PromiseInv'
      BY <1>1, <1>3, <2>6, NotifyFlushCompleteKeepsPromises
    <2>7. CASE BindToProducerEndpoint
      BY <2>7, BindToProducerEndpointKeepsPromises
    <2>8. ASSUME NEW r \in Reservations, NEW b \in Buffers, BindStartupTargetBuffer(r, b)
          PROVE  PromiseInv'
      BY <2>8, ResolvingKeepsPromises
    <2>9. \/ Receive
          \/ \E t \in Threads : Call(t) \/ Continue(t)
          \/ RunTask \/ Scrape \/ TryShutdown \/ BindToProducerEndpoint
          \/ \E kind \in {"delayed", "immediate"} : RunDelayedFlush(kind)
          \/ \E id \in FlushIDs : NotifyFlushComplete(id)
          \/ \E r \in Reservations, b \in Buffers : BindStartupTargetBuffer(r, b)
      BY DEF Next
    <2> QED BY <1>2, <2>1, <2>2, <2>3, <2>4, <2>5, <2>6, <2>7, <2>8, <2>9
  <1> QED BY <1>2, <1>3 DEF Next

\* At first nothing is promised, and there is no callback anywhere.
LEMMA InitPromisesNothing ==
  ASSUME Init
  PROVE  PromiseInv
  <1>1. /\ pending_flush_callbacks_ = {} /\ Carried(tasks) = {} /\ Carried(channel) = {}
        /\ Once(tasks) /\ Once(channel)
        /\ \A t \in Threads : Carried(todo[t]) = {} /\ Once(todo[t])
    BY CarriedShort DEF Init
  <1>2. Replied = {} /\ service.flushed = {} /\ \A cb \in Callbacks : service.replied[cb] = 0
    BY DEF Init, Replied
  <1>3. RequestId = 0 /\ DOMAIN channel = {}
    BY DEF Init, RequestId
  <1>4. CoverInv
    BY <1>1, <1>2, <1>3 DEF CoverInv, SentCovered
  <1>5. \A p \in Places : In(p) = {}
    BY <1>1, <1>2 DEF In, Places
  <1>6. OnceInv
    BY <1>1, <1>2, <1>5 DEF OnceInv
  <1> QED BY <1>4, <1>6 DEF PromiseInv

\* A callback of Flush is in one place at a time, on its way to the service; what
\* it was promised to cover is ahead of it there, and so it is for the id of a
\* flush request in the request and in the messages.
THEOREM PromiseInvariant == Spec => []PromiseInv
  <1>1. Init => PromiseInv
    BY InitPromisesNothing
  <1>2. ArbiterInv /\ ChunkInv /\ PromiseInv /\ [Next]_vars => PromiseInv'
    BY NextKeepsPromises, StutterKeepsPromises
  <1> QED BY <1>1, <1>2, ArbiterInvariant, ChunkInvariant, PTL DEF Spec

\* What the invariant says of the callbacks that ran and the ids that arrived.
LEMMA PromisesAreKept ==
  ASSUME ChunkInv, PromiseInv
  PROVE  FlushCoversEarlierData
  <1>1. \A x \in Replied \cup service.flushed : promised[x] \subseteq Arrived
    BY DEF PromiseInv, CoverInv, Covered
  <1>2. \A cb \in Callbacks : service.replied[cb] \in Nat /\ service.replied[cb] <= 1
    BY DEF ChunkInv, DataTypes, PromiseInv, OnceInv
  <1>3. \A cb \in Callbacks : service.replied[cb] > 0 => cb \in Replied /\ service.replied[cb] = 1
    BY <1>2 DEF Replied
  <1> QED BY <1>1, <1>3 DEF FlushCoversEarlierData

\* "Give the guarantee to the caller that the data has been flushed into the
\* service": each callback of TraceWriter::Flush runs at most once, and when it
\* does, or when the service notes a flush reply, it has copied every chunk that
\* was returned to the arbiter before; for any number of threads and writers, and
\* although other threads go on returning chunks, the callbacks may wait for the
\* arbiter to be bound, be taken, posted, and wait again.
THEOREM FlushesAreCovered == Spec => []FlushCoversEarlierData
  <1> QED BY ChunkInvariant, PromiseInvariant, PromisesAreKept, PTL
===========================================================================
