-------------------------- MODULE QuerySlot_proofs --------------------------
(***************************************************************************)
(* Proofs about QuerySlot, for any number of slots, any keys and any       *)
(* changes of them: every resource that a query created is owned by its    *)
(* slot, and every key that is shown as pending is worked on.              *)
(***************************************************************************)
EXTENDS QuerySlot, SequenceTheorems, TLAPS

-----------------------------------------------------------------------------
(***************************************************************************)
(* The inductive invariant.  It speaks of a state st of the slots and the  *)
(* queue, so that it can be stated of the states inside an action too; ex  *)
(* stands for exists and gone for the slots that were disposed.            *)
(***************************************************************************)
AllKeys == UNION {Keys[s] : s \in Slots}

Tasks ==
    {t \in [kind: {"query", "dispose"}, slot: Slots, key: AllKeys \cup {None},
            table: Int \cup {None}, cancelled: BOOLEAN, at: {"start", "disposing", "querying"}] :
       /\ t.kind = "query" => t.key \in AllKeys
       /\ t.at = "querying" => t.kind = "query"}

Members ==
    [cache: [key: AllKeys, data: Int] \cup {NoCache}, pendingKey: AllKeys \cup {None},
     disposed: BOOLEAN, error: AllKeys \cup {None}]

States == [slot: [Slots -> Members], pending: Seq(Tasks), running: Tasks \cup {NoTask}]

\* The Map is keyed by slot.
OnePerSlot(q) == \A i, j \in DOMAIN q : q[i].slot = q[j].slot => i = j

\* A resource is the one in the cache of its slot; a query of a slot that creates
\* resources runs with an empty cache.
Owned(st, ex) ==
    /\ \A s \in Disposable :
          ex[s] = IF st.slot[s].cache = NoCache THEN {} ELSE {st.slot[s].cache.data}
    /\ st.running.at = "querying" /\ st.running.slot \in Disposable
          => st.slot[st.running.slot].cache = NoCache

\* The query of a pending key waits or runs.
WorkedOn(st) ==
    \A s \in Slots :
        st.slot[s].pendingKey # None
            => \E t \in ToSet(st.pending) \cup {st.running} :
                  t.slot = s /\ t.kind = "query" /\ t.key = st.slot[s].pendingKey

\* A disposed slot waits for its disposal, or is being disposed, or has nothing
\* left to dispose and no query that could bring something.
Leaves(st, ex, gone) ==
    \A s \in gone :
        /\ \A t \in ToSet(st.pending) : t.slot = s => t.kind = "dispose"
        /\ \/ \E t \in ToSet(st.pending) : t.slot = s
           \/ st.running.slot = s /\ st.running.kind = "dispose"
           \/ st.running.slot # s /\ (s \in Disposable \ Fallible => ex[s] = {})

Fits(st, ex, gone) ==
    /\ st \in States
    /\ OnePerSlot(st.pending)
    /\ Owned(st, ex)
    /\ WorkedOn(st)
    /\ Leaves(st, ex, gone)

Gone == {s \in Slots : ~mounted /\ s \notin ToSet(todo)}

SlotInv ==
    /\ Fits(Now, exists, Gone)
    /\ running = NoTask => pending = <<>>
    /\ exists \in [Slots -> SUBSET Int]
    /\ todo \in Seq(Slots)
    /\ want \in [Slots -> AllKeys]
    /\ mounted \in BOOLEAN

-----------------------------------------------------------------------------
(***************************************************************************)
(* The Map of the queue, as a set of tasks.                                *)
(***************************************************************************)
\* The tasks of a queue are those at its places.
LEMMA Members1 ==
  ASSUME NEW q \in Seq(Tasks)
  PROVE  /\ DOMAIN q = 1 .. Len(q) /\ Len(q) \in Nat
         /\ \A i \in 1 .. Len(q) : q[i] \in ToSet(q) /\ q[i] \in Tasks
         /\ \A t \in ToSet(q) : t \in Tasks /\ \E i \in 1 .. Len(q) : t = q[i]
  <1>1. DOMAIN q = 1 .. Len(q) /\ Len(q) \in Nat /\ \A i \in 1 .. Len(q) : q[i] \in Tasks
    BY LenProperties, ElementOfSeq
  <1> QED BY <1>1 DEF ToSet

\* The first task is taken out.
LEMMA TakeFirst ==
  ASSUME NEW q \in Seq(Tasks), OnePerSlot(q), q # <<>>
  PROVE  /\ Head(q) \in Tasks /\ Head(q) \in ToSet(q)
         /\ Tail(q) \in Seq(Tasks) /\ OnePerSlot(Tail(q))
         /\ \A t \in ToSet(Tail(q)) : t \in ToSet(q) /\ t.slot # Head(q).slot
         /\ \A t \in ToSet(q) : t = Head(q) \/ t \in ToSet(Tail(q))
  <1>1. /\ Tail(q) \in Seq(Tasks) /\ Len(Tail(q)) = Len(q) - 1
        /\ \A i \in 1 .. Len(Tail(q)) : Tail(q)[i] = q[i + 1]
    BY HeadTailProperties
  <1>2. Head(q) = q[1] /\ Len(q) # 0
    BY EmptySeq
  <1>3. Len(q) \in Nat /\ DOMAIN q = 1 .. Len(q) /\ DOMAIN Tail(q) = 1 .. Len(Tail(q))
    BY <1>1, Members1
  <1>4. Head(q) \in Tasks /\ Head(q) \in ToSet(q)
    BY <1>2, <1>3, Members1
  <1>5. OnePerSlot(Tail(q))
    <2> SUFFICES ASSUME NEW i \in 1 .. Len(Tail(q)), NEW j \in 1 .. Len(Tail(q)),
                        Tail(q)[i].slot = Tail(q)[j].slot
                 PROVE  i = j
      BY <1>3 DEF OnePerSlot
    <2>1. i + 1 \in 1 .. Len(q) /\ j + 1 \in 1 .. Len(q) /\ q[i + 1].slot = q[j + 1].slot
      BY <1>1, <1>3
    <2>2. i + 1 = j + 1
      BY <1>3, <2>1 DEF OnePerSlot
    <2> QED BY <1>1, <1>3, <2>2
  <1>6. ASSUME NEW t \in ToSet(Tail(q))
        PROVE  t \in ToSet(q) /\ t.slot # Head(q).slot
    <2>1. PICK i \in 1 .. Len(Tail(q)) : t = Tail(q)[i]
      BY <1>1, Members1
    <2>2. t = q[i + 1] /\ i + 1 \in 1 .. Len(q) /\ i + 1 # 1 /\ 1 \in 1 .. Len(q)
      BY <1>1, <1>3, <2>1
    <2> QED BY <1>2, <1>3, <2>2, Members1 DEF OnePerSlot
  <1>7. ASSUME NEW t \in ToSet(q)
        PROVE  t = Head(q) \/ t \in ToSet(Tail(q))
    <2>1. PICK i \in 1 .. Len(q) : t = q[i]
      BY Members1
    <2>2. CASE i = 1
      BY <1>2, <2>1, <2>2
    <2>3. CASE i # 1
      <3>1. i - 1 \in 1 .. Len(Tail(q)) /\ Tail(q)[i - 1] = t
        BY <1>1, <1>3, <2>1, <2>3
      <3> QED BY <1>1, <3>1, Members1
    <2> QED BY <2>2, <2>3
  <1> QED BY <1>1, <1>4, <1>5, <1>6, <1>7

\* Map.set: t replaces the task of its slot, or is the last.
Put(q, t) ==
    IF {i \in DOMAIN q : q[i].slot = t.slot} = {} THEN Append(q, t)
    ELSE [i \in DOMAIN q |-> IF i \in {j \in DOMAIN q : q[j].slot = t.slot} THEN t ELSE q[i]]

\* The queue keeps one task per slot, and the others stay.
LEMMA PutTask ==
  ASSUME NEW q \in Seq(Tasks), OnePerSlot(q), NEW t \in Tasks
  PROVE  /\ Put(q, t) \in Seq(Tasks) /\ OnePerSlot(Put(q, t)) /\ t \in ToSet(Put(q, t))
         /\ \A u \in ToSet(Put(q, t)) : u = t \/ (u \in ToSet(q) /\ u.slot # t.slot)
         /\ \A u \in ToSet(q) : u.slot = t.slot \/ u \in ToSet(Put(q, t))
  <1>1. Len(q) \in Nat /\ DOMAIN q = 1 .. Len(q) /\ \A i \in 1 .. Len(q) : q[i] \in Tasks
    BY Members1
  <1>2. PICK p : p = Put(q, t)
    OBVIOUS
  <1>3. CASE {i \in DOMAIN q : q[i].slot = t.slot} = {}
    <2>1. p = Append(q, t)
      BY <1>2, <1>3 DEF Put
    <2>2. /\ p \in Seq(Tasks) /\ Len(p) = Len(q) + 1
          /\ \A i \in 1 .. Len(q) : p[i] = q[i]
          /\ p[Len(q) + 1] = t
      BY <2>1, AppendProperties
    <2>3. \A i \in 1 .. Len(q) : q[i].slot # t.slot
      BY <1>1, <1>3
    <2>4. DOMAIN p = 1 .. Len(p)
      BY <2>2, Members1
    <2>5. OnePerSlot(p)
      BY <1>1, <2>2, <2>3, <2>4 DEF OnePerSlot
    <2>6. t \in ToSet(p)
      BY <1>1, <2>2, Members1
    <2>7. \A u \in ToSet(p) : u = t \/ (u \in ToSet(q) /\ u.slot # t.slot)
      <3> SUFFICES ASSUME NEW u \in ToSet(p), u # t
                   PROVE  u \in ToSet(q) /\ u.slot # t.slot
        OBVIOUS
      <3>1. PICK i \in 1 .. Len(p) : u = p[i]
        BY <2>2, Members1
      <3>2. i \in 1 .. Len(q) /\ u = q[i]
        BY <1>1, <2>2, <3>1
      <3> QED BY <2>3, <3>2, Members1
    <2>8. \A u \in ToSet(q) : u \in ToSet(p)
      <3> SUFFICES ASSUME NEW u \in ToSet(q)
                   PROVE  u \in ToSet(p)
        OBVIOUS
      <3>1. PICK i \in 1 .. Len(q) : u = q[i]
        BY Members1
      <3>2. i \in 1 .. Len(p) /\ u = p[i]
        BY <1>1, <2>2, <3>1
      <3> QED BY <2>2, <3>2, Members1
    <2> QED BY <1>2, <2>2, <2>5, <2>6, <2>7, <2>8
  <1>4. CASE {i \in DOMAIN q : q[i].slot = t.slot} # {}
    <2>1. p = [i \in 1 .. Len(q) |-> IF i \in {j \in 1 .. Len(q) : q[j].slot = t.slot} THEN t ELSE q[i]]
      BY <1>1, <1>2, <1>4 DEF Put
    <2>2. /\ \A i \in 1 .. Len(q) : q[i].slot = t.slot => p[i] = t
          /\ \A i \in 1 .. Len(q) : q[i].slot # t.slot => p[i] = q[i]
      BY <2>1
    <2>3. p \in Seq(Tasks) /\ Len(p) = Len(q) /\ DOMAIN p = 1 .. Len(q)
      <3>1. \A i \in 1 .. Len(q) : p[i] \in Tasks
        BY <1>1, <2>2
      <3>2. p \in [1 .. Len(q) -> Tasks]
        BY <2>1, <3>1
      <3> QED BY <1>1, <3>2, IsASeq, LenProperties
    <2>4. PICK k \in 1 .. Len(q) : q[k].slot = t.slot
      BY <1>1, <1>4
    <2>5. OnePerSlot(p)
      <3> SUFFICES ASSUME NEW i \in 1 .. Len(q), NEW j \in 1 .. Len(q), p[i].slot = p[j].slot
                   PROVE  i = j
        BY <2>3 DEF OnePerSlot
      <3>1. p[i].slot = q[i].slot /\ p[j].slot = q[j].slot
        BY <2>2
      <3> QED BY <1>1, <3>1 DEF OnePerSlot
    <2>6. t \in ToSet(p)
      BY <2>2, <2>3, <2>4, Members1
    <2>7. \A u \in ToSet(p) : u = t \/ (u \in ToSet(q) /\ u.slot # t.slot)
      <3> SUFFICES ASSUME NEW u \in ToSet(p), u # t
                   PROVE  u \in ToSet(q) /\ u.slot # t.slot
        OBVIOUS
      <3>1. PICK i \in 1 .. Len(q) : u = p[i]
        BY <2>3, Members1
      <3>2. u = q[i] /\ q[i].slot # t.slot
        BY <2>2, <3>1
      <3> QED BY <3>2, Members1
    <2>8. \A u \in ToSet(q) : u.slot = t.slot \/ u \in ToSet(p)
      <3> SUFFICES ASSUME NEW u \in ToSet(q), u.slot # t.slot
                   PROVE  u \in ToSet(p)
        OBVIOUS
      <3>1. PICK i \in 1 .. Len(q) : u = q[i]
        BY Members1
      <3>2. u = p[i]
        BY <2>2, <3>1
      <3> QED BY <2>3, <3>2, Members1
    <2> QED BY <1>2, <2>3, <2>5, <2>6, <2>7, <2>8
  <1> QED BY <1>3, <1>4

\* Map.delete: the task of a slot is taken out.
LEMMA DropTask ==
  ASSUME NEW q \in Seq(Tasks), OnePerSlot(q), NEW k \in DOMAIN q
  PROVE  /\ RemoveAt(q, k) \in Seq(Tasks) /\ OnePerSlot(RemoveAt(q, k))
         /\ \A u \in ToSet(RemoveAt(q, k)) : u \in ToSet(q) /\ u.slot # q[k].slot
         /\ \A u \in ToSet(q) : u.slot = q[k].slot \/ u \in ToSet(RemoveAt(q, k))
  <1>1. /\ Len(q) \in Nat /\ DOMAIN q = 1 .. Len(q) /\ k \in 1 .. Len(q)
        /\ \A i \in 1 .. Len(q) : q[i] \in Tasks
    BY Members1
  <1>2. PICK p, a, b : p = RemoveAt(q, k) /\ a = SubSeq(q, 1, k - 1) /\ b = SubSeq(q, k + 1, Len(q))
    OBVIOUS
  <1>3. /\ a \in Seq(Tasks) /\ Len(a) = k - 1
        /\ \A i \in 1 .. k - 1 : a[i] = q[i]
    <2>1. \A i \in 1 .. k - 1 : q[i] \in Tasks
      BY <1>1
    <2>2. /\ a \in Seq(Tasks) /\ Len(a) = IF 1 <= k - 1 THEN (k - 1) - 1 + 1 ELSE 0
          /\ \A i \in 1 .. (k - 1) - 1 + 1 : a[i] = q[1 + i - 1]
      BY <1>1, <1>2, <2>1, SubSeqProperties
    <2> QED BY <1>1, <2>2
  <1>4. /\ b \in Seq(Tasks) /\ Len(b) = Len(q) - k
        /\ \A i \in 1 .. Len(q) - k : b[i] = q[k + i]
    <2>1. \A i \in k + 1 .. Len(q) : q[i] \in Tasks
      BY <1>1
    <2>2. /\ b \in Seq(Tasks) /\ Len(b) = IF k + 1 <= Len(q) THEN Len(q) - (k + 1) + 1 ELSE 0
          /\ \A i \in 1 .. Len(q) - (k + 1) + 1 : b[i] = q[(k + 1) + i - 1]
      BY <1>1, <1>2, <2>1, SubSeqProperties
    <2>3. Len(b) = Len(q) - k /\ Len(q) - (k + 1) + 1 = Len(q) - k
      BY <1>1, <2>2
    <2>4. \A i \in 1 .. Len(q) - k : (k + 1) + i - 1 = k + i
      BY <1>1
    <2> QED BY <2>2, <2>3, <2>4
  <1>5. /\ p \in Seq(Tasks) /\ Len(p) = Len(q) - 1 /\ DOMAIN p = 1 .. Len(q) - 1
        /\ \A i \in 1 .. Len(q) - 1 : p[i] = IF i < k THEN q[i] ELSE q[i + 1]
    <2>1. p = a \o b
      BY <1>2 DEF RemoveAt
    <2>2. /\ p \in Seq(Tasks) /\ Len(p) = Len(a) + Len(b)
          /\ \A i \in 1 .. Len(a) + Len(b) : p[i] = IF i <= Len(a) THEN a[i] ELSE b[i - Len(a)]
      BY <1>3, <1>4, <2>1, ConcatProperties
    <2>3. Len(p) = Len(q) - 1
      BY <1>1, <1>3, <1>4, <2>2
    <2>4. \A i \in 1 .. Len(q) - 1 : p[i] = IF i < k THEN q[i] ELSE q[i + 1]
      <3> SUFFICES ASSUME NEW i \in 1 .. Len(q) - 1
                   PROVE  p[i] = IF i < k THEN q[i] ELSE q[i + 1]
        OBVIOUS
      <3>1. i \in 1 .. Len(a) + Len(b)
        BY <1>1, <1>3, <1>4
      <3>2. CASE i < k
        <4>1. i \in 1 .. k - 1 /\ i <= Len(a)
          BY <1>1, <1>3, <3>2
        <4> QED BY <1>3, <2>2, <3>1, <3>2, <4>1
      <3>3. CASE ~(i < k)
        <4>1. i - Len(a) \in 1 .. Len(q) - k /\ ~(i <= Len(a)) /\ k + (i - Len(a)) = i + 1
          BY <1>1, <1>3, <3>3
        <4> QED BY <1>4, <2>2, <3>1, <3>3, <4>1
      <3> QED BY <3>2, <3>3
    <2> QED BY <2>2, <2>3, <2>4, Members1
  <1>6. OnePerSlot(p)
    <2> SUFFICES ASSUME NEW i \in 1 .. Len(q) - 1, NEW j \in 1 .. Len(q) - 1, p[i].slot = p[j].slot
                 PROVE  i = j
      BY <1>5 DEF OnePerSlot
    <2>1. PICK m \in 1 .. Len(q) : p[i] = q[m] /\ m = IF i < k THEN i ELSE i + 1
      BY <1>1, <1>5
    <2>2. PICK n \in 1 .. Len(q) : p[j] = q[n] /\ n = IF j < k THEN j ELSE j + 1
      BY <1>1, <1>5
    <2>3. m = n
      BY <1>1, <2>1, <2>2 DEF OnePerSlot
    <2> QED BY <1>1, <2>1, <2>2, <2>3
  <1>7. ASSUME NEW u \in ToSet(p)
        PROVE  u \in ToSet(q) /\ u.slot # q[k].slot
    <2>1. PICK i \in 1 .. Len(q) - 1 : u = p[i]
      BY <1>5, Members1
    <2>2. PICK m \in 1 .. Len(q) : u = q[m] /\ m # k
      BY <1>1, <1>5, <2>1
    <2> QED BY <1>1, <2>2, Members1 DEF OnePerSlot
  <1>8. ASSUME NEW u \in ToSet(q), u.slot # q[k].slot
        PROVE  u \in ToSet(p)
    <2>1. PICK m \in 1 .. Len(q) : u = q[m]
      BY Members1
    <2>2. PICK i \in 1 .. Len(q) - 1 : p[i] = u
      <3>1. CASE m < k
        BY <1>1, <1>5, <2>1, <3>1
      <3>2. CASE m > k
        <4>1. m - 1 \in 1 .. Len(q) - 1 /\ ~(m - 1 < k) /\ (m - 1) + 1 = m
          BY <1>1, <3>2
        <4>2. p[m - 1] = u
          BY <1>5, <2>1, <4>1
        <4> QED BY <4>1, <4>2
      <3> QED BY <1>1, <1>8, <2>1, <3>1, <3>2
    <2> QED BY <1>5, <2>2, Members1
  <1> QED BY <1>2, <1>5, <1>6, <1>7, <1>8

-----------------------------------------------------------------------------
(***************************************************************************)
(* The steps of the queue.                                                 *)
(***************************************************************************)
\* Neither None nor the empty task is a task.
LEMMA NoTaskIsNone ==
  /\ NoTask \notin Tasks /\ None \notin AllKeys
  /\ NoTask.slot = None /\ NoTask.at = "start" /\ NoTask.kind = "none"
  <1>1. None \notin AllKeys
    BY QuerySlotAssumption DEF AllKeys
  <1> QED BY <1>1 DEF NoTask, Task, Tasks

\* A task that starts keeps its slot, its kind and its key, and queries at once
\* only if it is a query and finds no resource in the cache.
LEMMA StartTask ==
  ASSUME NEW st, NEW t \in Tasks
  PROVE  /\ Started(st, t) \in Tasks /\ Started(st, t).slot = t.slot
         /\ Started(st, t).kind = t.kind /\ Started(st, t).key = t.key
         /\ Started(st, t).at = "querying" => ~HasResource(st, t.slot)
  <1>1. PICK p \in {"disposing", "querying"} :
          /\ Started(st, t) = [t EXCEPT !.at = p]
          /\ p = "querying" => t.kind = "query" /\ ~HasResource(st, t.slot)
    <2>1. CASE t.kind = "dispose" \/ HasResource(st, t.slot)
      BY <2>1 DEF Started
    <2>2. CASE ~(t.kind = "dispose" \/ HasResource(st, t.slot))
      BY <2>2 DEF Started, Tasks
    <2> QED BY <2>1, <2>2
  <1> QED BY <1>1 DEF Tasks

\* The next task starts, if there is one and none runs.
LEMMA RunNextFits ==
  ASSUME NEW st, NEW ex, NEW gone, gone \subseteq Slots, Fits(st, ex, gone)
  PROVE  /\ Fits(RunNext(st), ex, gone)
         /\ RunNext(st).running = NoTask => RunNext(st).pending = <<>>
  <1>1. CASE st.running # NoTask \/ st.pending = <<>>
    BY <1>1 DEF RunNext
  <1>2. CASE st.running = NoTask /\ st.pending # <<>>
    <2>0. /\ st \in States /\ OnePerSlot(st.pending) /\ Owned(st, ex)
          /\ WorkedOn(st) /\ Leaves(st, ex, gone)
      BY DEF Fits
    <2>1. st.pending \in Seq(Tasks) /\ st.slot \in [Slots -> Members]
      BY <2>0 DEF States
    <2>2. PICK h, q : h = Head(st.pending) /\ q = Tail(st.pending)
      OBVIOUS
    <2>3. /\ h \in Tasks /\ h \in ToSet(st.pending) /\ q \in Seq(Tasks) /\ OnePerSlot(q)
          /\ \A t \in ToSet(q) : t \in ToSet(st.pending) /\ t.slot # h.slot
          /\ \A t \in ToSet(st.pending) : t = h \/ t \in ToSet(q)
      BY <1>2, <2>0, <2>1, <2>2, TakeFirst
    <2>4. PICK r : r = Started(st, h)
      OBVIOUS
    <2>5. /\ r \in Tasks /\ r.slot = h.slot /\ r.kind = h.kind /\ r.key = h.key
          /\ r.at = "querying" => ~HasResource(st, h.slot)
      BY <2>3, <2>4, StartTask
    <2>6. PICK new : new = RunNext(st)
      OBVIOUS
    <2>7. new \in States /\ new.slot = st.slot /\ new.pending = q /\ new.running = r
      <3>1. new = [st EXCEPT !.running = r, !.pending = q]
        BY <1>2, <2>2, <2>4, <2>6 DEF RunNext
      <3> QED BY <2>0, <2>3, <2>5, <3>1 DEF States
    <2>8. Owned(new, ex)
      BY <2>0, <2>5, <2>7 DEF Owned, HasResource
    <2>9. WorkedOn(new)
      <3> SUFFICES ASSUME NEW s \in Slots, st.slot[s].pendingKey # None
                   PROVE  \E t \in ToSet(q) \cup {r} :
                             t.slot = s /\ t.kind = "query" /\ t.key = st.slot[s].pendingKey
        BY <2>7 DEF WorkedOn
      <3>1. PICK t \in ToSet(st.pending) \cup {NoTask} :
               t.slot = s /\ t.kind = "query" /\ t.key = st.slot[s].pendingKey
        BY <1>2, <2>0 DEF WorkedOn
      <3>2. t \in ToSet(st.pending)
        BY <3>1, NoTaskIsNone
      <3>3. CASE t = h
        BY <2>5, <3>1, <3>3
      <3>4. CASE t \in ToSet(q)
        BY <3>1, <3>4
      <3> QED BY <2>3, <3>2, <3>3, <3>4
    <2>10. Leaves(new, ex, gone)
      <3> SUFFICES ASSUME NEW s \in gone
                   PROVE  /\ \A t \in ToSet(q) : t.slot = s => t.kind = "dispose"
                          /\ \/ \E t \in ToSet(q) : t.slot = s
                             \/ r.slot = s /\ r.kind = "dispose"
                             \/ r.slot # s /\ (s \in Disposable \ Fallible => ex[s] = {})
        BY <2>7 DEF Leaves
      <3>1. /\ \A t \in ToSet(st.pending) : t.slot = s => t.kind = "dispose"
            /\ \/ \E t \in ToSet(st.pending) : t.slot = s
               \/ s \in Disposable \ Fallible => ex[s] = {}
        BY <1>2, <2>0, NoTaskIsNone DEF Leaves
      <3>2. CASE h.slot = s
        BY <2>3, <2>5, <3>1, <3>2
      <3>3. CASE h.slot # s
        BY <2>3, <2>5, <3>1, <3>3
      <3> QED BY <3>2, <3>3
    <2>11. new.running # NoTask
      BY <2>5, <2>7, NoTaskIsNone
    <2> QED BY <2>3, <2>6, <2>7, <2>8, <2>9, <2>10, <2>11 DEF Fits
  <1> QED BY <1>1, <1>2

\* Scheduling replaces the task of a slot, and may start one.
LEMMA ScheduleIs ==
  ASSUME NEW st, NEW t
  PROVE  Schedule(st, t) = RunNext([st EXCEPT !.pending = Put(st.pending, t)])
  BY DEF Schedule, Places, Put

\* A state that an action ends in is the state of the slots and the queue.
LEMMA BecomeIs ==
  ASSUME NEW st \in States, Become(st)
  PROVE  Now' = st
  BY DEF Become, Now, States

\* An action that ends with the queue running the next task.
LEMMA EndsInRunNext ==
  ASSUME NEW st, Fits(st, exists', Gone'), Become(RunNext(st)),
         exists' \in [Slots -> SUBSET Int], todo' \in Seq(Slots),
         want' \in [Slots -> AllKeys], mounted' \in BOOLEAN
  PROVE  SlotInv'
  <1>1. Gone' \subseteq Slots
    BY DEF Gone
  <1>2. PICK new : new = RunNext(st)
    OBVIOUS
  <1>3. Fits(new, exists', Gone') /\ (new.running = NoTask => new.pending = <<>>)
    BY <1>1, <1>2, RunNextFits
  <1>4. Now' = new
    BY <1>2, <1>3, BecomeIs DEF Fits
  <1>5. running' = new.running /\ pending' = new.pending
    BY <1>2 DEF Become
  <1>6. Fits(Now', exists', Gone')
    BY <1>3, <1>4, Zenon
  <1> QED BY <1>3, <1>5, <1>6 DEF SlotInv

-----------------------------------------------------------------------------
(***************************************************************************)
(* The actions.                                                            *)
(***************************************************************************)
LEMMA SlotInit == Init => SlotInv
  <1> SUFFICES ASSUME Init
               PROVE  SlotInv
    OBVIOUS
  <1>1. /\ slot = [s \in Slots |->
                     [cache |-> NoCache, pendingKey |-> None, disposed |-> FALSE, error |-> None]]
        /\ pending = <<>> /\ running = NoTask /\ exists = [s \in Slots |-> {}]
        /\ mounted = TRUE /\ todo = <<>> /\ want \in [Slots -> AllKeys]
    BY DEF Init, AllKeys
  <1>2. Now \in States /\ OnePerSlot(pending)
    <2>1. slot \in [Slots -> Members]
      BY <1>1 DEF Members
    <2>2. pending \in Seq(Tasks) /\ DOMAIN pending = {}
      BY <1>1, EmptySeq
    <2> QED BY <1>1, <2>1, <2>2 DEF Now, States, OnePerSlot
  <1>3. Owned(Now, exists)
    BY <1>1, NoTaskIsNone, QuerySlotAssumption DEF Now, Owned
  <1>4. WorkedOn(Now)
    BY <1>1 DEF Now, WorkedOn
  <1>5. Leaves(Now, exists, Gone)
    BY <1>1 DEF Leaves, Gone
  <1> QED BY <1>1, <1>2, <1>3, <1>4, <1>5 DEF SlotInv, Fits, Now

\* A render uses a slot.
LEMMA UseStep ==
  ASSUME SlotInv, Use
  PROVE  SlotInv'
  <1>0. /\ mounted /\ todo # <<>> /\ UNCHANGED <<exists, mounted, want, changes>>
        /\ todo \in Seq(Slots) /\ exists \in [Slots -> SUBSET Int]
        /\ want \in [Slots -> AllKeys] /\ mounted \in BOOLEAN
        /\ Fits(Now, exists, Gone) /\ (running = NoTask => pending = <<>>)
    BY DEF Use, SlotInv
  <1>1. PICK s \in Slots : s = Head(todo)
    BY <1>0, HeadTailProperties
  <1>2. todo' \in Seq(Slots)
    <2>1. todo' = <<>> \/ todo' = Tail(todo)
      BY DEF Use
    <2>2. Tail(todo) \in Seq(Slots) /\ <<>> \in Seq(Slots)
      BY <1>0, HeadTailProperties, EmptySeq
    <2> QED BY <2>1, <2>2
  <1>3. Gone' = {} /\ Gone = {}
    BY <1>0 DEF Gone
  <1>4. CASE UNCHANGED <<slot, pending, running>>
    <2>1. Now' = Now
      BY <1>4 DEF Now
    <2>2. Fits(Now', exists', Gone')
      BY <1>0, <1>3, <2>1
    <2> QED BY <1>0, <1>2, <1>4, <2>2 DEF SlotInv
  <1>5. PICK task : task = Task("query", s, want[s], TableOf(s))
    OBVIOUS
  <1>6. PICK r : r = [running EXCEPT !.cancelled = @ \/ running.slot = s]
    OBVIOUS
  <1>7. PICK st : st = [slot |-> [slot EXCEPT ![s].pendingKey = want[s]],
                        pending |-> Put(pending, task), running |-> r]
    OBVIOUS
  <1>8. CASE Become(Schedule([CancelInFlight(Now, s) EXCEPT !.slot[s].pendingKey = want[s]], task))
    <2>1. Become(RunNext(st))
      <3>1. PICK a : a = [CancelInFlight(Now, s) EXCEPT !.slot[s].pendingKey = want[s]]
        OBVIOUS
      <3>2. a = [slot |-> [slot EXCEPT ![s].pendingKey = want[s]], pending |-> pending, running |-> r]
        BY <1>6, <3>1 DEF CancelInFlight, Now
      <3>3. [a EXCEPT !.pending = Put(a.pending, task)] = st
        BY <1>7, <3>2
      <3> QED BY <1>8, <3>1, <3>3, ScheduleIs
    <2>2. /\ Now \in States /\ OnePerSlot(pending) /\ Owned(Now, exists) /\ WorkedOn(Now)
          /\ slot \in [Slots -> Members] /\ pending \in Seq(Tasks) /\ running \in Tasks \cup {NoTask}
      BY <1>0 DEF Fits, Now, States
    <2>3. want[s] \in AllKeys /\ want[s] # None
      BY <1>0, NoTaskIsNone
    <2>4. TableOf(s) \in Int \cup {None}
      <3>1. Needs[s] \in Slots \cup {None}
        BY QuerySlotAssumption
      <3>2. \A c \in Slots : DataOf(c) \in Int \cup {None}
        BY <2>2 DEF DataOf, Members, NoCache
      <3> QED BY <3>1, <3>2 DEF TableOf
    <2>5. task \in Tasks /\ task.slot = s /\ task.kind = "query" /\ task.key = want[s]
      BY <1>5, <2>3, <2>4 DEF Task, Tasks
    <2>6. /\ r \in Tasks \cup {NoTask} /\ r.slot = running.slot /\ r.kind = running.kind
          /\ r.key = running.key /\ r.at = running.at
      <3>1. CASE running \in Tasks
        <4>1. PICK c \in BOOLEAN : r = [running EXCEPT !.cancelled = c]
          BY <1>6, <3>1 DEF Tasks
        <4> QED BY <3>1, <4>1 DEF Tasks
      <3>2. CASE running = NoTask
        <4>1. s # None
          BY QuerySlotAssumption
        <4>2. r = [running EXCEPT !.cancelled = FALSE]
          BY <1>6, <3>2, <4>1 DEF NoTask, Task
        <4> QED BY <3>2, <4>2 DEF NoTask, Task
      <3> QED BY <2>2, <3>1, <3>2
    <2>7. /\ Put(pending, task) \in Seq(Tasks) /\ OnePerSlot(Put(pending, task))
          /\ task \in ToSet(Put(pending, task))
          /\ \A u \in ToSet(pending) : u.slot = s \/ u \in ToSet(Put(pending, task))
      BY <2>2, <2>5, PutTask
    <2>8. /\ st.slot \in [Slots -> Members] /\ st.slot[s].pendingKey = want[s]
          /\ st.slot[s].cache = slot[s].cache
          /\ \A c \in Slots \ {s} : st.slot[c] = slot[c]
      BY <1>7, <2>2, <2>3 DEF Members
    <2>9. st \in States
      BY <1>7, <2>6, <2>7, <2>8 DEF States
    <2>10. Owned(st, exists')
      <3>1. \A c \in Slots : st.slot[c].cache = slot[c].cache
        BY <2>8
      <3>2. Disposable \subseteq Slots
        BY QuerySlotAssumption
      <3> QED BY <1>0, <1>7, <2>2, <2>6, <3>1, <3>2 DEF Owned, Now
    <2>11. WorkedOn(st)
      <3> SUFFICES ASSUME NEW c \in Slots, st.slot[c].pendingKey # None
                   PROVE  \E t \in ToSet(Put(pending, task)) \cup {r} :
                             t.slot = c /\ t.kind = "query" /\ t.key = st.slot[c].pendingKey
        BY <1>7 DEF WorkedOn
      <3>1. CASE c = s
        BY <2>5, <2>7, <2>8, <3>1
      <3>2. CASE c # s
        <4>1. PICK t \in ToSet(pending) \cup {running} :
                 t.slot = c /\ t.kind = "query" /\ t.key = st.slot[c].pendingKey
          BY <2>2, <2>8, <3>2 DEF WorkedOn, Now
        <4> QED BY <2>6, <2>7, <3>2, <4>1
      <3> QED BY <3>1, <3>2
    <2>12. Leaves(st, exists', Gone')
      BY <1>3 DEF Leaves
    <2>13. Fits(st, exists', Gone')
      BY <1>7, <2>7, <2>9, <2>10, <2>11, <2>12 DEF Fits
    <2> QED BY <1>0, <1>2, <2>1, <2>13, EndsInRunNext
  <1>9. CASE Become(Now)
    BY <1>4, <1>9 DEF Become, Now
  <1> QED BY <1>1, <1>4, <1>5, <1>8, <1>9 DEF Use

\* A removal disposes a slot.
LEMMA DisposeStep ==
  ASSUME SlotInv, Dispose
  PROVE  SlotInv'
  <1>0. /\ ~mounted /\ todo # <<>> /\ todo' = Tail(todo) /\ UNCHANGED <<exists, mounted, want, changes>>
        /\ todo \in Seq(Slots) /\ exists \in [Slots -> SUBSET Int]
        /\ want \in [Slots -> AllKeys] /\ mounted \in BOOLEAN /\ Fits(Now, exists, Gone)
    BY DEF Dispose, SlotInv
  <1>1. PICK s \in Slots : s = Head(todo)
    BY <1>0, HeadTailProperties
  <1>2. todo' \in Seq(Slots)
    BY <1>0, HeadTailProperties
  <1>3. \A c \in Gone' : c \in Slots /\ (c = s \/ c \in Gone)
    <2> SUFFICES ASSUME NEW c \in Slots, c \notin ToSet(Tail(todo)), c # s
                 PROVE  c \notin ToSet(todo)
      BY <1>0 DEF Gone
    <2>1. /\ DOMAIN todo = 1 .. Len(todo) /\ Len(todo) \in Nat
          /\ DOMAIN Tail(todo) = 1 .. Len(Tail(todo)) /\ Len(Tail(todo)) = Len(todo) - 1
          /\ \A i \in 1 .. Len(Tail(todo)) : Tail(todo)[i] = todo[i + 1]
      BY <1>0, HeadTailProperties, LenProperties
    <2>2. SUFFICES ASSUME NEW i \in 1 .. Len(todo), c = todo[i]
                   PROVE  FALSE
      BY <2>1 DEF ToSet
    <2>3. i # 1
      BY <1>1, <2>2
    <2>4. i - 1 \in DOMAIN Tail(todo) /\ Tail(todo)[i - 1] = c
      BY <2>1, <2>2, <2>3
    <2> QED BY <2>4 DEF ToSet
  <1>4. /\ Now \in States /\ OnePerSlot(pending) /\ Owned(Now, exists) /\ WorkedOn(Now)
        /\ Leaves(Now, exists, Gone)
        /\ slot \in [Slots -> Members] /\ pending \in Seq(Tasks) /\ running \in Tasks \cup {NoTask}
    BY <1>0 DEF Fits, Now, States
  <1>5. PICK task : task = Task("dispose", s, None, None)
    OBVIOUS
  <1>6. task \in Tasks /\ task.slot = s /\ task.kind = "dispose"
    BY <1>5 DEF Task, Tasks
  <1>7. PICK mem : mem = [slot EXCEPT ![s] = [slot[s] EXCEPT !.disposed = TRUE, !.pendingKey = None]]
    OBVIOUS
  <1>8. PICK q : /\ q \in Seq(Tasks) /\ OnePerSlot(q)
                 /\ \A u \in ToSet(q) : u \in ToSet(pending) /\ u.slot # s
                 /\ \A u \in ToSet(pending) : u.slot = s \/ u \in ToSet(q)
                 /\ Become(Schedule([slot |-> mem, pending |-> q, running |-> running], task))
    <2>1. PICK a : a = [Now EXCEPT !.slot[s].disposed = TRUE, !.slot[s].pendingKey = None]
      OBVIOUS
    <2>2. a = [slot |-> mem, pending |-> pending, running |-> running]
      BY <1>1, <1>4, <1>7, <2>1 DEF Now, Members
    <2>3. Become(Schedule(Cancel(a, s), task))
      BY <1>1, <1>5, <2>1 DEF Dispose
    <2>4. CASE Places(a, s) = {}
      <3>1. \A i \in DOMAIN pending : pending[i].slot # s
        BY <2>2, <2>4 DEF Places
      <3>2. \A u \in ToSet(pending) : u.slot # s
        BY <3>1 DEF ToSet
      <3>3. Cancel(a, s) = [slot |-> mem, pending |-> pending, running |-> running]
        BY <2>2, <2>4 DEF Cancel
      <3> QED BY <1>4, <2>3, <3>2, <3>3
    <2>5. CASE Places(a, s) # {}
      <3>1. PICK k \in DOMAIN pending :
               /\ pending[k].slot = s
               /\ Cancel(a, s) = [slot |-> mem, pending |-> RemoveAt(pending, k), running |-> running]
        <4>1. PICK k : k = CHOOSE i \in Places(a, s) : TRUE
          OBVIOUS
        <4>2. k \in Places(a, s)
          BY <2>5, <4>1
        <4>3. k \in DOMAIN pending /\ pending[k].slot = s
          BY <2>2, <4>2 DEF Places
        <4>4. Cancel(a, s) = [a EXCEPT !.pending = RemoveAt(a.pending, k)]
          BY <2>5, <4>1 DEF Cancel
        <4> QED BY <2>2, <4>3, <4>4
      <3>2. /\ RemoveAt(pending, k) \in Seq(Tasks) /\ OnePerSlot(RemoveAt(pending, k))
            /\ \A u \in ToSet(RemoveAt(pending, k)) : u \in ToSet(pending) /\ u.slot # s
            /\ \A u \in ToSet(pending) : u.slot = s \/ u \in ToSet(RemoveAt(pending, k))
        BY <1>4, <3>1, DropTask
      <3> QED BY <2>3, <3>1, <3>2
    <2> QED BY <2>4, <2>5
  <1>9. PICK st : st = [slot |-> mem, pending |-> Put(q, task), running |-> running]
    OBVIOUS
  <1>10. Become(RunNext(st))
    <2>1. PICK a : a = [slot |-> mem, pending |-> q, running |-> running]
      OBVIOUS
    <2>2. [a EXCEPT !.pending = Put(a.pending, task)] = st
      BY <1>9, <2>1
    <2> QED BY <1>8, <2>1, <2>2, ScheduleIs
  <1>11. /\ Put(q, task) \in Seq(Tasks) /\ OnePerSlot(Put(q, task)) /\ task \in ToSet(Put(q, task))
         /\ \A u \in ToSet(Put(q, task)) : u = task \/ (u \in ToSet(pending) /\ u.slot # s)
         /\ \A u \in ToSet(pending) : u.slot = s \/ u \in ToSet(Put(q, task))
    <2>1. /\ Put(q, task) \in Seq(Tasks) /\ OnePerSlot(Put(q, task)) /\ task \in ToSet(Put(q, task))
          /\ \A u \in ToSet(Put(q, task)) : u = task \/ (u \in ToSet(q) /\ u.slot # s)
          /\ \A u \in ToSet(q) : u.slot = s \/ u \in ToSet(Put(q, task))
      BY <1>6, <1>8, PutTask
    <2> QED BY <1>8, <2>1
  <1>12. /\ mem \in [Slots -> Members] /\ mem[s].pendingKey = None
         /\ \A c \in Slots : mem[c].cache = slot[c].cache
         /\ \A c \in Slots \ {s} : mem[c] = slot[c]
    BY <1>4, <1>7 DEF Members
  <1>13. st \in States
    BY <1>4, <1>9, <1>11, <1>12 DEF States
  <1>14. Owned(st, exists')
    <2>1. Disposable \subseteq Slots
      BY QuerySlotAssumption
    <2> QED BY <1>0, <1>4, <1>9, <1>12, <2>1 DEF Owned, Now
  <1>15. WorkedOn(st)
    <2> SUFFICES ASSUME NEW c \in Slots, mem[c].pendingKey # None
                 PROVE  \E t \in ToSet(Put(q, task)) \cup {running} :
                           t.slot = c /\ t.kind = "query" /\ t.key = mem[c].pendingKey
      BY <1>9 DEF WorkedOn
    <2>1. c # s /\ mem[c] = slot[c]
      BY <1>12
    <2>2. PICK t \in ToSet(pending) \cup {running} :
             t.slot = c /\ t.kind = "query" /\ t.key = slot[c].pendingKey
      BY <1>4, <2>1 DEF WorkedOn, Now
    <2> QED BY <1>11, <2>1, <2>2
  <1>16. Leaves(st, exists', Gone')
    <2> SUFFICES ASSUME NEW c \in Gone'
                 PROVE  /\ \A t \in ToSet(Put(q, task)) : t.slot = c => t.kind = "dispose"
                        /\ \/ \E t \in ToSet(Put(q, task)) : t.slot = c
                           \/ running.slot = c /\ running.kind = "dispose"
                           \/ running.slot # c /\ (c \in Disposable \ Fallible => exists[c] = {})
      BY <1>0, <1>9 DEF Leaves
    <2>1. CASE c = s
      BY <1>6, <1>11, <2>1
    <2>2. CASE c # s
      <3>1. c \in Gone
        BY <1>3, <2>2
      <3>2. /\ \A t \in ToSet(pending) : t.slot = c => t.kind = "dispose"
            /\ \/ \E t \in ToSet(pending) : t.slot = c
               \/ running.slot = c /\ running.kind = "dispose"
               \/ running.slot # c /\ (c \in Disposable \ Fallible => exists[c] = {})
        BY <1>4, <3>1 DEF Leaves, Now
      <3> QED BY <1>6, <1>11, <2>2, <3>2
    <2> QED BY <2>1, <2>2
  <1>17. Fits(st, exists', Gone')
    BY <1>9, <1>11, <1>13, <1>14, <1>15, <1>16 DEF Fits
  <1> QED BY <1>0, <1>2, <1>10, <1>17, EndsInRunNext

\* The running task ends with the members me of its slot: it no longer waits for
\* what the task worked on, its resources are those of the cache, and a disposal
\* that succeeded has left none.
LEMMA TaskEnds ==
  ASSUME SlotInv, running \in Tasks, NEW me \in Members, EndTask(me),
         UNCHANGED <<mounted, todo, want>>, exists' \in [Slots -> SUBSET Int],
         me.pendingKey # None =>
             /\ me.pendingKey = slot[running.slot].pendingKey
             /\ running.kind = "query" => running.key # me.pendingKey,
         \A c \in Slots \ {running.slot} : exists'[c] = exists[c],
         running.slot \in Disposable =>
             exists'[running.slot] = IF me.cache = NoCache THEN {} ELSE {me.cache.data},
         running.kind = "dispose" /\ running.slot \in Disposable \ Fallible => me.cache = NoCache
  PROVE  SlotInv'
  <1>0. /\ todo \in Seq(Slots) /\ want \in [Slots -> AllKeys] /\ mounted \in BOOLEAN
        /\ Fits(Now, exists, Gone)
    BY DEF SlotInv
  <1>1. PICK s \in Slots : s = running.slot
    BY DEF Tasks
  <1>2. PICK mem : mem = [slot EXCEPT ![s] = me]
    OBVIOUS
  <1>3. PICK st : st = [slot |-> mem, pending |-> pending, running |-> NoTask]
    OBVIOUS
  <1>4. Become(RunNext(st))
    <2>1. PICK a : a = [Now EXCEPT !.slot[running.slot] = me, !.running = NoTask]
      OBVIOUS
    <2>2. a = [slot |-> [slot EXCEPT ![running.slot] = me], pending |-> pending, running |-> NoTask]
      BY <2>1 DEF Now
    <2>3. a = st
      BY <1>1, <1>2, <1>3, <2>2
    <2> QED BY <2>1, <2>3 DEF EndTask
  <1>5. /\ Now \in States /\ OnePerSlot(pending) /\ Owned(Now, exists) /\ WorkedOn(Now)
        /\ Leaves(Now, exists, Gone) /\ slot \in [Slots -> Members] /\ pending \in Seq(Tasks)
    BY <1>0 DEF Fits, Now, States
  <1>6. /\ mem \in [Slots -> Members] /\ mem[s] = me
        /\ \A c \in Slots \ {s} : mem[c] = slot[c]
    BY <1>2, <1>5
  <1>7. Gone' = Gone /\ Gone \subseteq Slots
    BY DEF Gone
  <1>8. st \in States
    BY <1>3, <1>5, <1>6 DEF States
  <1>9. Owned(st, exists')
    <2>1. Disposable \subseteq Slots
      BY QuerySlotAssumption
    <2>2. \A c \in Disposable : exists'[c] = IF mem[c].cache = NoCache THEN {} ELSE {mem[c].cache.data}
      BY <1>1, <1>5, <1>6, <2>1 DEF Owned, Now
    <2> QED BY <1>3, <2>2, NoTaskIsNone DEF Owned
  <1>10. WorkedOn(st)
    <2> SUFFICES ASSUME NEW c \in Slots, mem[c].pendingKey # None
                 PROVE  \E t \in ToSet(pending) \cup {NoTask} :
                           t.slot = c /\ t.kind = "query" /\ t.key = mem[c].pendingKey
      BY <1>3 DEF WorkedOn
    <2>1. mem[c].pendingKey = slot[c].pendingKey
      BY <1>1, <1>6
    <2>2. PICK t \in ToSet(pending) \cup {running} :
             t.slot = c /\ t.kind = "query" /\ t.key = slot[c].pendingKey
      BY <1>5, <2>1 DEF WorkedOn, Now
    <2>3. t \in ToSet(pending)
      BY <1>1, <1>6, <2>1, <2>2
    <2> QED BY <2>1, <2>2, <2>3
  <1>11. Leaves(st, exists', Gone')
    <2> SUFFICES ASSUME NEW c \in Gone
                 PROVE  /\ \A t \in ToSet(pending) : t.slot = c => t.kind = "dispose"
                        /\ \/ \E t \in ToSet(pending) : t.slot = c
                           \/ c \in Disposable \ Fallible => exists'[c] = {}
      <3>1. \A c \in Gone : c # None
        BY <1>7, QuerySlotAssumption
      <3> QED BY <1>3, <1>7, <3>1, NoTaskIsNone DEF Leaves
    <2>1. /\ \A t \in ToSet(pending) : t.slot = c => t.kind = "dispose"
          /\ \/ \E t \in ToSet(pending) : t.slot = c
             \/ running.slot = c /\ running.kind = "dispose"
             \/ running.slot # c /\ (c \in Disposable \ Fallible => exists[c] = {})
      BY <1>5 DEF Leaves, Now
    <2>2. CASE running.slot = c
      BY <1>1, <2>1, <2>2
    <2>3. CASE running.slot # c
      BY <1>7, <2>1, <2>3
    <2> QED BY <2>2, <2>3
  <1>12. Fits(st, exists', Gone')
    BY <1>3, <1>5, <1>8, <1>9, <1>10, <1>11 DEF Fits
  <1> QED BY <1>0, <1>4, <1>12, EndsInRunNext

\* What finaliseQuery() and finaliseError() leave of the members of a slot.
LEMMA Finalised ==
  ASSUME NEW me \in Members, NEW key \in AllKeys, NEW cache \in [key: AllKeys, data: Int] \cup {NoCache}
  PROVE  /\ FinaliseQuery(me, key, cache) \in Members /\ FinaliseError(me, key) \in Members
         /\ FinaliseQuery(me, key, cache).cache = cache
         /\ FinaliseError(me, key).cache = me.cache
         /\ FinaliseQuery(me, key, cache).pendingKey = IF me.pendingKey = key THEN None ELSE me.pendingKey
         /\ FinaliseError(me, key).pendingKey = IF me.pendingKey = key THEN None ELSE me.pendingKey
  <1>1. PICK m : m = ClearPending(me, key)
    OBVIOUS
  <1>2. /\ m \in Members /\ m.cache = me.cache
        /\ m.pendingKey = IF me.pendingKey = key THEN None ELSE me.pendingKey
    BY <1>1 DEF ClearPending, Members
  <1>3. FinaliseQuery(me, key, cache) = [m EXCEPT !.cache = cache]
    BY <1>1 DEF FinaliseQuery
  <1>4. FinaliseError(me, key) = [m EXCEPT !.error = key]
    BY <1>1 DEF FinaliseError
  <1> QED BY <1>2, <1>3, <1>4 DEF Members

\* A step of the running task.
LEMMA TaskStep ==
  ASSUME SlotInv, RunningTask
  PROVE  SlotInv'
  <1>0. /\ todo \in Seq(Slots) /\ want \in [Slots -> AllKeys] /\ mounted \in BOOLEAN
        /\ exists \in [Slots -> SUBSET Int] /\ Fits(Now, exists, Gone)
    BY DEF SlotInv
  <1>1. /\ Now \in States /\ OnePerSlot(pending) /\ Owned(Now, exists) /\ WorkedOn(Now)
        /\ Leaves(Now, exists, Gone) /\ slot \in [Slots -> Members] /\ pending \in Seq(Tasks)
        /\ running \in Tasks \cup {NoTask}
    BY <1>0 DEF Fits, Now, States
  <1>2. running.at \in {"disposing", "querying"} /\ UNCHANGED <<mounted, todo, want, changes>>
    BY DEF RunningTask, DisposeCacheDone, DisposeCacheFails, QueryReturns, QueryCancelled, QueryFails
  <1>3. running \in Tasks
    BY <1>1, <1>2, NoTaskIsNone
  <1>4. PICK s \in Slots : s = running.slot
    BY <1>3 DEF Tasks
  <1>5. PICK me \in Members : me = slot[s]
    BY <1>1
  <1>6. /\ me.cache \in [key: AllKeys, data: Int] \cup {NoCache} /\ Disposable \subseteq Slots
        /\ s \in Disposable => exists[s] = IF me.cache = NoCache THEN {} ELSE {me.cache.data}
    BY <1>1, <1>5, QuerySlotAssumption DEF Owned, Now, Members
  <1>7. /\ running.kind \in {"query", "dispose"} /\ (running.kind = "query" => running.key \in AllKeys)
        /\ running.at = "querying" => running.kind = "query"
    BY <1>3 DEF Tasks
  <1>8. CASE DisposeCacheDone
    <2>1. PICK empty : empty = [me EXCEPT !.cache = IF s \in Disposable THEN NoCache ELSE me.cache]
      OBVIOUS
    <2>2. /\ empty \in Members /\ empty.pendingKey = me.pendingKey
          /\ s \in Disposable => empty.cache = NoCache
      BY <1>6, <2>1 DEF Members
    <2>3. /\ exists' \in [Slots -> SUBSET Int]
          /\ \A c \in Slots \ {s} : exists'[c] = exists[c]
          /\ s \in Disposable => exists'[s] = {}
      <3>1. exists' = [exists EXCEPT ![s] = IF s \in Disposable /\ me.cache # NoCache
                                            THEN exists[s] \ {me.cache.data} ELSE exists[s]]
        BY <1>4, <1>5, <1>8 DEF DisposeCacheDone, HasResource, Now
      <3> QED BY <1>0, <1>6, <3>1
    <2>4. CASE running.kind = "dispose"
      <3>1. EndTask(empty)
        BY <1>4, <1>5, <1>8, <2>1, <2>4 DEF DisposeCacheDone
      <3> QED BY <1>2, <1>3, <1>4, <1>5, <2>2, <2>3, <2>4, <3>1, TaskEnds
    <2>5. CASE running.kind # "dispose"
      <3>1. /\ slot' = [slot EXCEPT ![s] = empty] /\ UNCHANGED pending
            /\ running' = [running EXCEPT !.at = "querying"]
        BY <1>4, <1>5, <1>8, <2>1, <2>5 DEF DisposeCacheDone
      <3>2. PICK st : st = [slot |-> slot', pending |-> pending', running |-> running']
        OBVIOUS
      <3>3. /\ running' \in Tasks /\ running'.slot = s /\ running'.kind = running.kind
            /\ running'.key = running.key
        BY <1>3, <1>4, <1>7, <2>5, <3>1 DEF Tasks
      <3>4. /\ slot' \in [Slots -> Members] /\ slot'[s] = empty
            /\ \A c \in Slots \ {s} : slot'[c] = slot[c]
        BY <1>1, <2>2, <3>1
      <3>5. st \in States /\ OnePerSlot(st.pending)
        BY <1>1, <3>1, <3>2, <3>3, <3>4 DEF States
      <3>6. Owned(st, exists')
        <4>1. \A c \in Disposable :
                exists'[c] = IF slot'[c].cache = NoCache THEN {} ELSE {slot'[c].cache.data}
          BY <1>1, <1>6, <2>2, <2>3, <3>4 DEF Owned, Now
        <4> QED BY <2>2, <3>2, <3>3, <3>4, <4>1 DEF Owned
      <3>7. WorkedOn(st)
        <4> SUFFICES ASSUME NEW c \in Slots, slot'[c].pendingKey # None
                     PROVE  \E t \in ToSet(pending) \cup {running'} :
                               t.slot = c /\ t.kind = "query" /\ t.key = slot'[c].pendingKey
          BY <3>1, <3>2 DEF WorkedOn
        <4>1. slot'[c].pendingKey = slot[c].pendingKey
          BY <1>5, <2>2, <3>4
        <4>2. PICK t \in ToSet(pending) \cup {running} :
                 t.slot = c /\ t.kind = "query" /\ t.key = slot[c].pendingKey
          BY <1>1, <4>1 DEF WorkedOn, Now
        <4> QED BY <1>4, <3>3, <4>1, <4>2
      <3>8. Leaves(st, exists', Gone')
        <4>1. Gone' = Gone
          BY <1>2 DEF Gone
        <4>2. \A c \in Gone : c \in Slots
          BY DEF Gone
        <4> SUFFICES ASSUME NEW c \in Gone
                     PROVE  /\ \A t \in ToSet(pending) : t.slot = c => t.kind = "dispose"
                            /\ \/ \E t \in ToSet(pending) : t.slot = c
                               \/ running'.slot = c /\ running'.kind = "dispose"
                               \/ running'.slot # c /\ (c \in Disposable \ Fallible => exists'[c] = {})
          BY <3>1, <3>2, <4>1 DEF Leaves
        <4>3. /\ \A t \in ToSet(pending) : t.slot = c => t.kind = "dispose"
              /\ \/ \E t \in ToSet(pending) : t.slot = c
                 \/ running.slot = c /\ running.kind = "dispose"
                 \/ running.slot # c /\ (c \in Disposable \ Fallible => exists[c] = {})
          BY <1>1 DEF Leaves, Now
        <4> QED BY <1>4, <2>3, <3>3, <4>2, <4>3
      <3>9. Fits(Now', exists', Gone')
        <4>1. Now' = st
          BY <3>2 DEF Now
        <4>2. Fits(st, exists', Gone')
          BY <3>5, <3>6, <3>7, <3>8 DEF Fits
        <4> QED BY <4>1, <4>2, Zenon
      <3>10. running' # NoTask
        BY <3>3, NoTaskIsNone
      <3> QED BY <1>0, <1>2, <2>3, <3>9, <3>10 DEF SlotInv
    <2> QED BY <2>4, <2>5
  <1>9. CASE DisposeCacheFails
    <2>1. /\ s \in Fallible /\ s \in Disposable /\ UNCHANGED exists
          /\ EndTask(IF running.kind = "dispose" THEN me ELSE FinaliseError(me, running.key))
      BY <1>4, <1>5, <1>9 DEF DisposeCacheFails, HasResource
    <2>2. CASE running.kind = "dispose"
      <3>1. EndTask(me)
        BY <2>1, <2>2
      <3> QED BY <1>0, <1>2, <1>3, <1>4, <1>5, <1>6, <2>1, <2>2, <3>1, TaskEnds
    <2>3. CASE running.kind # "dispose"
      <3>1. PICK m : m = FinaliseError(me, running.key)
        OBVIOUS
      <3>2. /\ m \in Members /\ m.cache = me.cache
            /\ m.pendingKey = IF me.pendingKey = running.key THEN None ELSE me.pendingKey
        BY <1>6, <1>7, <2>3, <3>1, Finalised
      <3>3. EndTask(m)
        BY <2>1, <2>3, <3>1
      <3> QED BY <1>0, <1>2, <1>3, <1>4, <1>5, <1>6, <2>1, <2>3, <3>2, <3>3, TaskEnds
    <2> QED BY <2>2, <2>3
  <1>10. CASE QueryReturns
    <2>1. running.key \in AllKeys /\ running.kind = "query" /\ running.at = "querying"
      BY <1>7, <1>10 DEF QueryReturns
    <2>2. PICK r \in Int :
            /\ exists' = [exists EXCEPT ![s] = IF s \in Disposable THEN exists[s] \cup {r} ELSE exists[s]]
            /\ EndTask(FinaliseQuery(me, running.key, [key |-> running.key, data |-> r]))
      <3>1. PICK r \in 1 .. Cardinality(Known(running.slot)) + 1 :
              /\ exists' = [exists EXCEPT ![running.slot] =
                              IF running.slot \in Disposable THEN exists[running.slot] \cup {r}
                              ELSE exists[running.slot]]
              /\ EndTask(FinaliseQuery(slot[running.slot], running.key, [key |-> running.key, data |-> r]))
        BY <1>10 DEF QueryReturns
      <3>2. r \in Int
        BY <3>1
      <3> QED BY <1>4, <1>5, <3>1, <3>2
    <2>3. PICK cache : cache = [key |-> running.key, data |-> r]
      OBVIOUS
    <2>4. cache \in [key: AllKeys, data: Int] /\ cache.data = r /\ cache # NoCache
      BY <2>1, <2>3, NoTaskIsNone DEF NoCache
    <2>5. PICK m : m = FinaliseQuery(me, running.key, cache)
      OBVIOUS
    <2>6. /\ m \in Members /\ m.cache = cache
          /\ m.pendingKey = IF me.pendingKey = running.key THEN None ELSE me.pendingKey
      BY <2>1, <2>4, <2>5, Finalised
    <2>7. EndTask(m)
      BY <2>2, <2>3, <2>5
    <2>8. s \in Disposable => me.cache = NoCache
      BY <1>1, <1>4, <1>5, <2>1 DEF Owned, Now
    <2>9. /\ exists' \in [Slots -> SUBSET Int]
          /\ \A c \in Slots \ {s} : exists'[c] = exists[c]
          /\ s \in Disposable => exists'[s] = {r}
      BY <1>0, <1>6, <2>2, <2>8
    <2> QED BY <1>2, <1>3, <1>4, <1>5, <2>1, <2>4, <2>6, <2>7, <2>9, TaskEnds
  <1>11. CASE QueryCancelled
    <2>1. /\ running.key \in AllKeys /\ running.kind = "query" /\ UNCHANGED exists
          /\ EndTask(FinaliseQuery(me, running.key, me.cache))
      BY <1>4, <1>5, <1>7, <1>11 DEF QueryCancelled
    <2>2. PICK m : m = FinaliseQuery(me, running.key, me.cache)
      OBVIOUS
    <2>3. /\ m \in Members /\ m.cache = me.cache
          /\ m.pendingKey = IF me.pendingKey = running.key THEN None ELSE me.pendingKey
      BY <1>6, <2>1, <2>2, Finalised
    <2>4. EndTask(m)
      BY <2>1, <2>2
    <2> QED BY <1>0, <1>2, <1>3, <1>4, <1>5, <1>6, <2>1, <2>3, <2>4, TaskEnds
  <1>12. CASE QueryFails
    <2>1. /\ running.key \in AllKeys /\ running.kind = "query" /\ UNCHANGED exists
          /\ EndTask(FinaliseError(me, running.key))
      BY <1>4, <1>5, <1>7, <1>12 DEF QueryFails
    <2>2. PICK m : m = FinaliseError(me, running.key)
      OBVIOUS
    <2>3. /\ m \in Members /\ m.cache = me.cache
          /\ m.pendingKey = IF me.pendingKey = running.key THEN None ELSE me.pendingKey
      BY <1>6, <2>1, <2>2, Finalised
    <2>4. EndTask(m)
      BY <2>1, <2>2
    <2> QED BY <1>0, <1>2, <1>3, <1>4, <1>5, <1>6, <2>1, <2>3, <2>4, TaskEnds
  <1> QED BY <1>8, <1>9, <1>10, <1>11, <1>12 DEF RunningTask

\* A step that touches neither the slots nor the queue.
LEMMA OtherSteps ==
  ASSUME SlotInv,
         UNCHANGED <<slot, pending, running, exists>>,
         todo' \in Seq(Slots), want' \in [Slots -> AllKeys], mounted' \in BOOLEAN, Gone' \subseteq Gone
  PROVE  SlotInv'
  <1>1. Now' = Now
    BY DEF Now
  <1>2. Fits(Now, exists, Gone')
    BY DEF SlotInv, Fits, Leaves
  <1>3. Fits(Now', exists', Gone')
    BY <1>1, <1>2
  <1> QED BY <1>3 DEF SlotInv

\* The caches, pending keys, queued tasks and the running one agree with the
\* resources that exist, whatever order renders, results and removal come in.
THEOREM SlotInvariant == Spec => []SlotInv
  <1>1. ASSUME SlotInv, [Next]_vars
        PROVE  SlotInv'
    <2>0. /\ todo \in Seq(Slots) /\ want \in [Slots -> AllKeys] /\ mounted \in BOOLEAN
      BY <1>1 DEF SlotInv
    <2>1. CASE Render
      <3>1. /\ UNCHANGED <<slot, pending, running, exists, mounted, want>> /\ mounted /\ todo' = Order
        BY <2>1 DEF Render
      <3>2. todo' \in Seq(Slots) /\ Gone' = {}
        BY <3>1, QuerySlotAssumption DEF Gone
      <3> QED BY <1>1, <2>0, <3>1, <3>2, OtherSteps
    <2>2. CASE Use
      BY <1>1, <2>2, UseStep
    <2>3. ASSUME NEW s \in Slots, ChangeKey(s)
          PROVE  SlotInv'
      <3>1. UNCHANGED <<slot, pending, running, exists, mounted, todo>>
        BY <2>3 DEF ChangeKey
      <3>2. PICK k \in Keys[s] : want' = [want EXCEPT ![s] = k]
        BY <2>3 DEF ChangeKey
      <3>3. want' \in [Slots -> AllKeys]
        BY <2>0, <3>2 DEF AllKeys
      <3>4. Gone' = Gone
        BY <3>1 DEF Gone
      <3> QED BY <1>1, <2>0, <3>1, <3>3, <3>4, OtherSteps
    <2>4. CASE OnRemove
      <3>1. /\ UNCHANGED <<slot, pending, running, exists, want>> /\ mounted' = FALSE /\ todo' = Order
        BY <2>4 DEF OnRemove
      <3>2. todo' \in Seq(Slots) /\ Gone' = {}
        BY <3>1, QuerySlotAssumption DEF Gone, Slots
      <3> QED BY <1>1, <2>0, <3>1, <3>2, OtherSteps
    <2>5. CASE Dispose
      BY <1>1, <2>5, DisposeStep
    <2>6. CASE RunningTask
      BY <1>1, <2>6, TaskStep
    <2>7. CASE UNCHANGED vars
      <3>1. UNCHANGED <<slot, pending, running, exists, mounted, todo, want>>
        BY <2>7 DEF vars
      <3>2. Gone' = Gone
        BY <3>1 DEF Gone
      <3> QED BY <1>1, <2>0, <3>1, <3>2, OtherSteps
    <2> QED BY <1>1, <2>1, <2>2, <2>3, <2>4, <2>5, <2>6, <2>7 DEF Next
  <1> QED BY <1>1, SlotInit, PTL DEF Spec

-----------------------------------------------------------------------------
(***************************************************************************)
(* The theorems.                                                           *)
(***************************************************************************)
\* Every temporary table that a query created is in the cache of its slot, and
\* the cache holds none that is gone; once the queue of a removed component has
\* drained, only a disposal that may fail leaves one.
THEOREM SlotsOwnTheirResources == Spec => []ResourcesAreOwned
  <1>1. SlotInv => ResourcesAreOwned
    <2> SUFFICES ASSUME SlotInv
                 PROVE  ResourcesAreOwned
      OBVIOUS
    <2>1. /\ Owned(Now, exists) /\ Leaves(Now, exists, Gone)
          /\ running = NoTask => pending = <<>>
      BY DEF SlotInv, Fits
    <2>2. \A s \in Disposable :
            exists[s] = IF slot[s].cache = NoCache THEN {} ELSE {slot[s].cache.data}
      BY <2>1 DEF Owned, Now
    <2>3. ASSUME ~mounted, todo = <<>>, running = NoTask, NEW s \in Disposable \ Fallible
          PROVE  exists[s] = {}
      <3>1. s \in Slots /\ s # None
        BY QuerySlotAssumption
      <3>2. s \in Gone
        BY <2>3, <3>1 DEF Gone, ToSet
      <3>3. ToSet(pending) = {}
        BY <2>1, <2>3 DEF ToSet
      <3> QED BY <2>1, <2>3, <3>1, <3>2, <3>3, NoTaskIsNone DEF Leaves, Now
    <2> QED BY <2>1, <2>2, <2>3 DEF ResourcesAreOwned
  <1> QED BY <1>1, SlotInvariant, PTL

\* The query of the key that a slot shows as pending waits in the queue or runs.
THEOREM PendingKeysAreWorkedOn == Spec => []PendingIsWorkedOn
  <1>1. SlotInv => PendingIsWorkedOn
    <2> SUFFICES ASSUME SlotInv, NEW s \in Slots, slot[s].pendingKey # None
                 PROVE  \E t \in Outstanding(s) : t.kind = "query" /\ t.key = slot[s].pendingKey
      BY DEF PendingIsWorkedOn
    <2>1. PICK t \in ToSet(pending) \cup {running} :
             t.slot = s /\ t.kind = "query" /\ t.key = slot[s].pendingKey
      BY DEF SlotInv, Fits, WorkedOn, Now
    <2>2. t \in Outstanding(s)
      BY <2>1 DEF Outstanding, ToSet
    <2> QED BY <2>1, <2>2
  <1> QED BY <1>1, SlotInvariant, PTL
=============================================================================
