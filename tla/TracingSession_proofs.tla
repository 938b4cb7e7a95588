------------------------ MODULE TracingSession_proofs ------------------------
(***************************************************************************)
(* Proofs about TracingSession, for any number of producers, any configs   *)
(* and any number of flushes, triggers and instances.                      *)
(*                                                                         *)
(* The invariant is a conjunction of parts over different fields of the    *)
(* service state: the settings, the instances, the flushes and the clone.  *)
(* A lemma for each operator of TracingSession says what it does to them.  *)
(***************************************************************************)
EXTENDS TracingSession, FiniteSetTheorems, SequenceTheorems, TLAPS

-----------------------------------------------------------------------------
(***************************************************************************)
(* The invariant of a service state s.                                     *)
(***************************************************************************)
Fields == DOMAIN NoSession

TimerOps == {"OnDisableTracingTimeout", "StopOnDurationMsExpiry", "OnStopTrigger",
             "OnStartTriggersTimeout", "ReadBuffersIntoFile", "PeriodicFlushTask"}

Settings(s) ==
    /\ DOMAIN s = Fields
    /\ s.state \in States \ {"NONE"}
    /\ s.config \in Config \cup {None}
    /\ Alive(s) => s.config \in Config
    /\ \A timer \in s.timers : timer.op \in TimerOps

\* The states that an instance may have beside that of the session.
Fitting(state) ==
    CASE state = "CONFIGURED" -> {"CONFIGURED"}
      [] state = "STARTED" -> {"STARTING", "STARTED"}
      [] state = "DISABLING_WAITING_STOP_ACKS" -> {"STOPPING", "STOPPED"}
      [] state = "DISABLED" -> {"STOPPED"}
      [] OTHER -> {}

Running(instances) ==
    {instances[p].id : p \in {q \in DOMAIN instances :
                                 instances[q].state \in {"STARTING", "STARTED"}}}

\* The instances of data sources of the producers in R have ids of their own, so
\* that what one of them runs is not stopped for another.
TypedInstances(s, R) ==
    /\ s.last_id \in Nat
    /\ DOMAIN s.instances \subseteq R
    /\ s.instances \in [DOMAIN s.instances -> [id : 1 .. s.last_id, state : InstanceStates]]
    /\ \A p, q \in DOMAIN s.instances : s.instances[p].id = s.instances[q].id => p = q

\* Who runs has been told to start and not to stop.
SoundInstances(s, R) ==
    /\ TypedInstances(s, R)
    /\ s.running = Running(s.instances)

FittingInstances(s) ==
    /\ \A p \in DOMAIN s.instances : s.instances[p].state \in Fitting(s.state)
    /\ s.state = "DISABLING_WAITING_STOP_ACKS" =>
          \E p \in DOMAIN s.instances : s.instances[p].state = "STOPPING"

Notified(s) ==
    /\ s.state = "STARTED" /\ s.consumer /\ s.observing
    /\ AllDataSourceInstancesStarted(s)
    => s.did_notify_all_data_source_started

Disabled(s) == s.disabled = IF s.state \in {"DISABLED", "ERASED"} THEN 1 ELSE 0

Instances(s, R) ==
    /\ SoundInstances(s, R)
    /\ FittingInstances(s)
    /\ Notified(s)
    /\ Disabled(s)

Tasks == [op : {"CompleteFlush"}, f : Nat, callback : Callbacks] \cup [op : {"OnSessionCloned"}]

\* Task i completes flush f.
Completes(s, i, f) ==
    i \in DOMAIN s.tasks /\ s.tasks[i].op = "CompleteFlush" /\ s.tasks[i].f = f

Queued(s, f) == \E i \in DOMAIN s.tasks : Completes(s, i, f)

TypedFlushes(s) ==
    /\ s.flushes \in Seq([answers : Nat, owed : SUBSET Producers])
    /\ s.tasks \in Seq(Tasks)
    /\ \A i \in DOMAIN s.tasks : s.tasks[i].op = "OnSessionCloned" => ~Alive(s)
    /\ DOMAIN s.pending_flushes \subseteq DOMAIN s.flushes
    /\ s.pending_flushes \in
          [DOMAIN s.pending_flushes -> [producers : SUBSET Producers, callback : Callbacks]]

\* A flush is pending, queued or answered; one of F is about to be answered.
\* Producers owe a pending flush what the service waits for, and one that is
\* queued nothing.
OnceEach(s, F) ==
    /\ \A f \in DOMAIN s.pending_flushes :
          /\ s.flushes[f].answers = 0
          /\ ~Queued(s, f)
          /\ s.flushes[f].owed \subseteq s.pending_flushes[f].producers
    /\ \A f \in Nat : Queued(s, f) =>
          /\ f \in DOMAIN s.flushes
          /\ s.flushes[f].answers = 0
          /\ s.flushes[f].owed = {}
    /\ \A f \in Nat : \A i, j \in DOMAIN s.tasks :
          Completes(s, i, f) /\ Completes(s, j, f) => i = j
    /\ \A f \in DOMAIN s.flushes :
          /\ s.flushes[f].answers \in {0, 1}
          /\ s.flushes[f].answers = 1 => s.flushes[f].owed = {}
          /\ Alive(s) /\ s.flushes[f].answers = 0 =>
                f \in F \/ f \in DOMAIN s.pending_flushes \/ Queued(s, f)

\* F are not pending, not queued and not answered.
AboutToAnswer(s, F) ==
    \A f \in F : /\ f \in DOMAIN s.flushes /\ f \notin DOMAIN s.pending_flushes
                 /\ ~Queued(s, f) /\ s.flushes[f].answers = 0

Flushes(s, F) == TypedFlushes(s) /\ OnceEach(s, F) /\ AboutToAnswer(s, F)

\* The flushes whose answer is for the clone.
OfClone(s) ==
    {f \in DOMAIN s.pending_flushes : s.pending_flushes[f].callback = "kTraceClone"}
    \cup {f \in Nat : \E i \in DOMAIN s.tasks :
             Completes(s, i, f) /\ s.tasks[i].callback = "kTraceClone"}

AtMost(S, n) ==
    \/ n = 0 /\ S = {}
    \/ n = 1 /\ \E x \in Nat : S \subseteq {x}
    \/ n = 2 /\ \E x, y \in Nat : S \subseteq {x, y}

Clones == [pending_flush_cnt : 1 .. 2, flush_failed : BOOLEAN]

TypedClone(s) ==
    /\ s.clone_flushes \in Nat
    /\ s.cloner \in {"idle", "waiting", "gone", "answered"}
    /\ s.cloner # "answered" => s.clone_replies = <<>>
    /\ s.cloner = "answered" =>
          \E reply \in {"failed", "unflushed", "flushed"} : s.clone_replies = <<reply>>
    /\ s.pending_clone # None =>
          Alive(s) /\ s.pending_clone \in Clones /\ s.cloner \in {"waiting", "gone"}

\* No more flushes are under way for the clone than it waits for.
Clone(s) ==
    /\ TypedClone(s)
    /\ s.cloner = "idle" => OfClone(s) = {} /\ s.clone_flushes = 0
    /\ s.clone_replies = <<"flushed">> => OfClone(s) = {} /\ s.clone_flushes = 2
    /\ s.pending_clone # None =>
          /\ AtMost(OfClone(s), s.pending_clone.pending_flush_cnt)
          /\ ~s.pending_clone.flush_failed =>
                s.clone_flushes = 2 - s.pending_clone.pending_flush_cnt

\* One of its flushes, which is not counted in OfClone, is about to be answered.
CloneIsDue(s, success) ==
    /\ TypedClone(s)
    /\ s.cloner # "idle" /\ s.clone_replies # <<"flushed">>
    /\ s.pending_clone # None =>
          /\ AtMost(OfClone(s), s.pending_clone.pending_flush_cnt - 1)
          /\ success /\ ~s.pending_clone.flush_failed =>
                s.clone_flushes = 3 - s.pending_clone.pending_flush_cnt

Registered == {p \in Producers : producers[p] = "registered"}

ServiceInv(s, R) ==
    /\ Settings(s)
    /\ Instances(s, R)
    /\ Flushes(s, {})
    /\ Clone(s)

SessionInv ==
    /\ producers \in [Producers -> {"connected", "registered", "gone"}]
    /\ svc = NoSession \/ ServiceInv(svc, Registered)

-----------------------------------------------------------------------------
(***************************************************************************)
(* Which fields an operator leaves alone.                                  *)
(***************************************************************************)
Except(s, t, changed) ==
    /\ DOMAIN t = DOMAIN s
    /\ \A field \in Fields \ changed : t[field] = s[field]

\* The fields of a service state.
LEMMA FieldNames ==
  Fields = {"state", "config", "consumer", "instances", "did_notify_all_data_source_started",
            "received_triggers", "pending_flushes", "final_flush_outcome", "write_into_file",
            "write_period_ms", "pending_clone", "cloner", "last_id", "tasks", "timers",
            "flushes", "running", "triggers", "triggered", "observing", "disabled",
            "clone_flushes", "clone_replies"}
  BY DEF Fields, NoSession

\* Only the instances part tells what the consumer was told.
LEMMA NotifyEffect ==
  ASSUME NEW s, DOMAIN s = Fields
  PROVE  LET t == MaybeNotifyAllDataSourcesStarted(s)
         IN  /\ Except(s, t, {"did_notify_all_data_source_started"})
             /\ s.consumer /\ AllDataSourceInstancesStarted(s) =>
                   t.did_notify_all_data_source_started
             /\ s.did_notify_all_data_source_started => t.did_notify_all_data_source_started
  BY FieldNames DEF Except, MaybeNotifyAllDataSourcesStarted

\* One operator after another.
LEMMA ExceptBoth ==
  ASSUME NEW s, NEW u, NEW t, NEW X, NEW Y, Except(s, u, X), Except(u, t, Y)
  PROVE  Except(s, t, X \cup Y)
  BY DEF Except

\* Each part of the invariant is about some fields only.
LEMMA SettingsAreKept ==
  ASSUME NEW s, NEW t, NEW X, Except(s, t, X), X \cap {"state", "config", "timers"} = {}
  PROVE  Settings(s) => Settings(t)
  <1> SUFFICES ASSUME Settings(s) PROVE Settings(t)
    OBVIOUS
  <1>1. /\ t.state = s.state /\ t.config = s.config /\ t.timers = s.timers
        /\ DOMAIN t = DOMAIN s
    BY FieldNames DEF Except
  <1> QED BY <1>1 DEF Settings, Alive

LEMMA InstancesAreKept ==
  ASSUME NEW s, NEW t, NEW X, NEW R, Except(s, t, X),
         X \cap {"state", "instances", "running", "last_id", "consumer", "observing",
                 "did_notify_all_data_source_started", "disabled"} = {}
  PROVE  Instances(s, R) => Instances(t, R)
  <1>1. /\ t.state = s.state /\ t.instances = s.instances /\ t.running = s.running
        /\ t.last_id = s.last_id /\ t.consumer = s.consumer /\ t.observing = s.observing
        /\ t.did_notify_all_data_source_started = s.did_notify_all_data_source_started
        /\ t.disabled = s.disabled
    BY FieldNames DEF Except
  <1> QED BY <1>1 DEF Instances, SoundInstances, TypedInstances, FittingInstances, Notified,
                      Disabled, AllDataSourceInstancesStarted

LEMMA FlushesAreKept ==
  ASSUME NEW s, NEW t, NEW X, NEW F, Except(s, t, X), Alive(t) => Alive(s),
         X \cap {"flushes", "pending_flushes", "tasks"} = {}
  PROVE  Flushes(s, F) => Flushes(t, F)
  <1>1. t.flushes = s.flushes /\ t.tasks = s.tasks /\ t.pending_flushes = s.pending_flushes
    BY FieldNames DEF Except
  <1>2. \A f : Queued(t, f) <=> Queued(s, f)
    BY <1>1 DEF Queued, Completes
  <1>3. \A i, f : Completes(t, i, f) <=> Completes(s, i, f)
    BY <1>1 DEF Completes
  <1>4. TypedFlushes(s) => TypedFlushes(t)
    BY <1>1 DEF TypedFlushes
  <1>5. AboutToAnswer(s, F) => AboutToAnswer(t, F)
    BY <1>1, <1>2 DEF AboutToAnswer
  <1>6. OnceEach(s, F) => OnceEach(t, F)
    BY <1>1, <1>2, <1>3 DEF OnceEach
  <1> QED BY <1>4, <1>5, <1>6 DEF Flushes

LEMMA CloneIsKept ==
  ASSUME NEW s, NEW t, NEW X, Except(s, t, X), Alive(s) => Alive(t),
         X \cap {"pending_flushes", "tasks",
                 "clone_flushes", "cloner", "clone_replies", "pending_clone"} = {}
  PROVE  /\ Clone(s) => Clone(t)
         /\ \A success : CloneIsDue(s, success) => CloneIsDue(t, success)
  <1>1. /\ t.tasks = s.tasks /\ t.pending_flushes = s.pending_flushes
        /\ t.clone_flushes = s.clone_flushes /\ t.cloner = s.cloner
        /\ t.clone_replies = s.clone_replies /\ t.pending_clone = s.pending_clone
    BY FieldNames DEF Except
  <1>2. OfClone(t) = OfClone(s) /\ (TypedClone(s) => TypedClone(t))
    BY <1>1 DEF OfClone, Completes, TypedClone
  <1> QED BY <1>1, <1>2 DEF Clone, CloneIsDue

-----------------------------------------------------------------------------
(***************************************************************************)
(* Numbering a finite set.                                                 *)
(***************************************************************************)
\* The members of a finite set can be numbered.
LEMMA SetIsNumbered ==
  ASSUME NEW P, IsFiniteSet(P)
  PROVE  /\ Cardinality(P) \in Nat
         /\ \E f \in [P -> 1 .. Cardinality(P)] : IsInjective(f)
  <1>1. Cardinality(P) \in Nat /\ ExistsBijection(1 .. Cardinality(P), P)
    BY FS_CardinalityType
  <1>2. PICK b \in Bijection(1 .. Cardinality(P), P) : TRUE
    BY <1>1 DEF ExistsBijection
  <1>3. /\ b \in [1 .. Cardinality(P) -> P]
        /\ \A x \in P : \E i \in 1 .. Cardinality(P) : b[i] = x
    BY <1>2 DEF Bijection, Surjection, Injection
  <1> DEFINE g == [x \in P |-> CHOOSE i \in 1 .. Cardinality(P) : b[i] = x]
  <1>4. \A x \in P : g[x] \in 1 .. Cardinality(P) /\ b[g[x]] = x
    BY <1>3
  <1>5. g \in [P -> 1 .. Cardinality(P)] /\ IsInjective(g)
    BY <1>4 DEF IsInjective
  <1> QED BY <1>1, <1>5

\* The members of a finite set of numbers have each a place in their order.
LEMMA NthIsSound ==
  ASSUME NEW S, S \subseteq Nat, IsFiniteSet(S)
  PROVE  /\ Cardinality(S) \in Nat
         /\ \A i \in 1 .. Cardinality(S) : Nth(S, i) \in S
         /\ \A i, j \in 1 .. Cardinality(S) : Nth(S, i) = Nth(S, j) => i = j
         /\ \A x \in S : \E i \in 1 .. Cardinality(S) : Nth(S, i) = x
  <1> DEFINE Upto(x) == {y \in S : y <= x}
             rank == [x \in S |-> Cardinality(Upto(x))]
  <1>1. Cardinality(S) \in Nat
    BY FS_CardinalityType
  <1>2. ASSUME NEW x \in S
        PROVE  IsFiniteSet(Upto(x)) /\ Cardinality(Upto(x)) \in 1 .. Cardinality(S)
    <2>1. Upto(x) \in SUBSET S /\ x \in Upto(x)
      OBVIOUS
    <2>2. IsFiniteSet(Upto(x)) /\ Cardinality(Upto(x)) <= Cardinality(S)
      BY <2>1, FS_Subset
    <2>3. Cardinality(Upto(x)) \in Nat /\ Cardinality(Upto(x)) # 0
      BY <2>1, <2>2, FS_CardinalityType, FS_EmptySet
    <2> QED BY <1>1, <2>2, <2>3
  <1>3. ASSUME NEW x \in S, NEW y \in S, x < y
        PROVE  Cardinality(Upto(x)) # Cardinality(Upto(y))
    <2>1. \A z \in S : z \in Nat
      OBVIOUS
    <2>2. \A z \in S : z <= x => z <= y
      BY <1>3, <2>1
    <2>3. y <= y /\ ~(y <= x)
      BY <1>3, <2>1
    <2>4. Upto(x) \in SUBSET Upto(y) /\ y \in Upto(y) /\ y \notin Upto(x)
      BY <2>2, <2>3
    <2> QED BY <1>2, <2>4, FS_Subset
  <1>4. \A x, y \in S : rank[x] = rank[y] => x = y
    <2> SUFFICES ASSUME NEW x \in S, NEW y \in S, x # y PROVE rank[x] # rank[y]
      OBVIOUS
    <2>1. x < y \/ y < x
      OBVIOUS
    <2> QED BY <1>3, <2>1
  <1>5. rank \in [S -> 1 .. Cardinality(S)]
    BY <1>2
  <1>6. rank \in Injection(S, 1 .. Cardinality(S))
    BY <1>4, <1>5 DEF Injection, IsInjective
  <1>7. IsFiniteSet(1 .. Cardinality(S)) /\ Cardinality(1 .. Cardinality(S)) = Cardinality(S)
    BY <1>1, FS_Interval
  <1>8. rank \in Surjection(S, 1 .. Cardinality(S))
    BY <1>6, <1>7, FS_Injection
  <1>9. \A i \in 1 .. Cardinality(S) : \E x \in S : Cardinality(Upto(x)) = i
    BY <1>8 DEF Surjection
  <1>10. \A i \in 1 .. Cardinality(S) : Nth(S, i) \in S /\ Cardinality(Upto(Nth(S, i))) = i
    BY <1>9 DEF Nth
  <1>11. ASSUME NEW x \in S PROVE \E i \in 1 .. Cardinality(S) : Nth(S, i) = x
    <2>1. rank[x] \in 1 .. Cardinality(S)
      BY <1>5
    <2>2. Nth(S, rank[x]) \in S /\ rank[Nth(S, rank[x])] = rank[x]
      BY <1>10, <2>1
    <2> QED BY <1>4, <2>1, <2>2
  <1> QED BY <1>1, <1>10, <1>11

-----------------------------------------------------------------------------
(***************************************************************************)
(* Setting up, starting, stopping and erasing instances.                   *)
(***************************************************************************)
\* What runs is told by the states of the instances.
LEMMA SetupEffect ==
  ASSUME NEW s, DOMAIN s = Fields, NEW R, TypedInstances(s, R),
         NEW P, IsFiniteSet(P), P \subseteq R, P \cap DOMAIN s.instances = {}
  PROVE  LET t == SetupDataSources(s, P)
         IN  /\ Except(s, t, {"last_id", "instances"})
             /\ TypedInstances(t, R)
             /\ DOMAIN t.instances = DOMAIN s.instances \cup P
             /\ \A p \in DOMAIN s.instances : t.instances[p] = s.instances[p]
             /\ \A p \in P : t.instances[p].state = "CONFIGURED"
  <1> DEFINE n == Cardinality(P)
             nth == CHOOSE f \in [P -> 1 .. n] : IsInjective(f)
             t == SetupDataSources(s, P)
  <1>1. n \in Nat /\ nth \in [P -> 1 .. n] /\ IsInjective(nth)
    BY SetIsNumbered
  <1>2. \A p \in P : nth[p] \in 1 .. n
    BY <1>1
  <1>3. \A p, q \in P : nth[p] = nth[q] => p = q
    BY <1>1 DEF IsInjective
  <1>4. /\ t.last_id = s.last_id + n
        /\ t.instances = [p \in DOMAIN s.instances \cup P |->
               IF p \in P THEN [id |-> s.last_id + nth[p], state |-> "CONFIGURED"]
               ELSE s.instances[p]]
        /\ Except(s, t, {"last_id", "instances"})
    BY FieldNames DEF SetupDataSources, Except
  <1> HIDE DEF t, nth, n
  <1>5. s.last_id \in Nat /\ t.last_id \in Nat /\ s.last_id <= t.last_id
    BY <1>1, <1>4 DEF TypedInstances
  <1>6. ASSUME NEW p \in DOMAIN s.instances
        PROVE  /\ t.instances[p] = s.instances[p]
               /\ t.instances[p].id \in 1 .. s.last_id /\ t.instances[p].state \in InstanceStates
               /\ t.instances[p] \in [id : 1 .. t.last_id, state : InstanceStates]
    <2>1. s.instances[p] \in [id : 1 .. s.last_id, state : InstanceStates]
      BY DEF TypedInstances
    <2> QED BY <1>4, <1>5, <2>1
  <1>7. ASSUME NEW p \in P
        PROVE  /\ t.instances[p].id = s.last_id + nth[p] /\ t.instances[p].state = "CONFIGURED"
               /\ t.instances[p].id > s.last_id
               /\ t.instances[p] \in [id : 1 .. t.last_id, state : InstanceStates]
    <2>1. s.last_id + nth[p] \in 1 .. t.last_id /\ s.last_id + nth[p] > s.last_id
      BY <1>1, <1>2, <1>4, <1>5
    <2> QED BY <1>4, <2>1 DEF InstanceStates
  <1>8. t.instances \in [DOMAIN t.instances -> [id : 1 .. t.last_id, state : InstanceStates]]
    BY <1>4, <1>6, <1>7
  <1>9. ASSUME NEW p \in DOMAIN t.instances, NEW q \in DOMAIN t.instances,
               t.instances[p].id = t.instances[q].id
        PROVE  p = q
    <2>1. CASE p \in P /\ q \in P
      <3>1. s.last_id + nth[p] = s.last_id + nth[q]
        BY <1>7, <1>9, <2>1
      <3>2. nth[p] = nth[q]
        BY <1>1, <1>2, <1>5, <2>1, <3>1
      <3> QED BY <1>3, <2>1, <3>2
    <2>2. CASE p \notin P /\ q \notin P
      BY <1>4, <1>6, <1>9, <2>2 DEF TypedInstances
    <2>3. CASE p \in P /\ q \notin P
      <3>1. q \in DOMAIN s.instances
        BY <1>4, <2>3
      <3>2. t.instances[p].id > s.last_id /\ t.instances[q].id \in 1 .. s.last_id
        BY <1>6, <1>7, <2>3, <3>1
      <3> QED BY <1>5, <1>9, <3>2
    <2>4. CASE p \notin P /\ q \in P
      <3>1. p \in DOMAIN s.instances
        BY <1>4, <2>4
      <3>2. t.instances[q].id > s.last_id /\ t.instances[p].id \in 1 .. s.last_id
        BY <1>6, <1>7, <2>4, <3>1
      <3> QED BY <1>5, <1>9, <3>2
    <2> QED BY <2>1, <2>2, <2>3, <2>4
  <1>10. TypedInstances(t, R)
    <2>1. DOMAIN t.instances \subseteq R
      BY <1>4 DEF TypedInstances
    <2> QED BY <1>5, <1>8, <1>9, <2>1 DEF TypedInstances
  <1> QED BY <1>4, <1>6, <1>7, <1>10 DEF t

\* Instances change their states or go, and keep their ids.
LEMMA IdsAreKept ==
  ASSUME NEW s, NEW t, NEW R, TypedInstances(s, R), t.last_id = s.last_id,
         DOMAIN t.instances \subseteq DOMAIN s.instances,
         t.instances = [p \in DOMAIN t.instances |-> t.instances[p]],
         \A p \in DOMAIN t.instances :
            /\ t.instances[p] = [s.instances[p] EXCEPT !.state = t.instances[p].state]
            /\ t.instances[p].state \in InstanceStates
  PROVE  /\ TypedInstances(t, R)
         /\ \A p \in DOMAIN t.instances : t.instances[p].id = s.instances[p].id
  <1>1. ASSUME NEW p \in DOMAIN t.instances
        PROVE  /\ t.instances[p].id = s.instances[p].id
               /\ t.instances[p] \in [id : 1 .. t.last_id, state : InstanceStates]
    <2>1. s.instances[p] \in [id : 1 .. s.last_id, state : InstanceStates]
      BY DEF TypedInstances
    <2> QED BY <2>1
  <1>2. t.instances \in [DOMAIN t.instances -> [id : 1 .. t.last_id, state : InstanceStates]]
    BY <1>1
  <1>3. \A p, q \in DOMAIN t.instances : t.instances[p].id = t.instances[q].id => p = q
    BY <1>1 DEF TypedInstances
  <1>4. t.last_id \in Nat /\ DOMAIN t.instances \subseteq R
    BY DEF TypedInstances
  <1> QED BY <1>1, <1>2, <1>3, <1>4 DEF TypedInstances

\* Starting instances, of which none runs.
LEMMA StartEffect ==
  ASSUME NEW s, DOMAIN s = Fields, NEW e, NEW R, SoundInstances(s, R),
         NEW P, P \subseteq DOMAIN s.instances
  PROVE  LET t == StartDataSourceInstances(s, e, P)
         IN  /\ Except(s, t, {"instances", "running", "did_notify_all_data_source_started"})
             /\ SoundInstances(t, R)
             /\ DOMAIN t.instances = DOMAIN s.instances
             /\ \A p \in DOMAIN s.instances \ P : t.instances[p] = s.instances[p]
             /\ \A p \in P : t.instances[p].state \in {"STARTING", "STARTED"}
             /\ s.consumer /\ AllDataSourceInstancesStarted(t) =>
                   t.did_notify_all_data_source_started
  <1> DEFINE waits(p) == p \in NotifyOnStart \ e.frozen
             u == [s EXCEPT
                     !.instances = [p \in DOMAIN @ |-> IF p \notin P THEN @[p] ELSE
                         [@[p] EXCEPT !.state = IF waits(p) THEN "STARTING" ELSE "STARTED"]],
                     !.running = @ \cup InstanceIds(s, P)]
             t == MaybeNotifyAllDataSourcesStarted(u)
  <1>1. t = StartDataSourceInstances(s, e, P)
    BY DEF StartDataSourceInstances
  <1>2. /\ DOMAIN u = Fields /\ u.last_id = s.last_id /\ u.consumer = s.consumer
        /\ u.instances = [p \in DOMAIN s.instances |-> IF p \notin P THEN s.instances[p] ELSE
              [s.instances[p] EXCEPT !.state = IF waits(p) THEN "STARTING" ELSE "STARTED"]]
        /\ u.running = s.running \cup InstanceIds(s, P)
        /\ Except(s, u, {"instances", "running"})
    BY FieldNames DEF Except
  <1> HIDE DEF u
  <1>3. /\ Except(u, t, {"did_notify_all_data_source_started"})
        /\ u.consumer /\ AllDataSourceInstancesStarted(u) => t.did_notify_all_data_source_started
    BY <1>2, NotifyEffect
  <1>4. /\ t.instances = u.instances /\ t.running = u.running /\ t.last_id = s.last_id
        /\ DOMAIN t = Fields
        /\ Except(s, t, {"instances", "running", "did_notify_all_data_source_started"})
    BY <1>2, <1>3, FieldNames DEF Except
  <1> HIDE DEF t
  <1>5. ASSUME NEW p \in DOMAIN s.instances
        PROVE  /\ s.instances[p] \in [id : 1 .. s.last_id, state : InstanceStates]
               /\ p \notin P => t.instances[p] = s.instances[p]
               /\ p \in P => t.instances[p].state \in {"STARTING", "STARTED"}
               /\ t.instances[p] = [s.instances[p] EXCEPT !.state = t.instances[p].state]
               /\ t.instances[p].state \in InstanceStates
    <2>1. s.instances[p] \in [id : 1 .. s.last_id, state : InstanceStates]
      BY DEF SoundInstances, TypedInstances
    <2>2. CASE p \notin P
      BY <1>2, <1>4, <2>1, <2>2
    <2>3. CASE p \in P
      BY <1>2, <1>4, <2>1, <2>3 DEF InstanceStates
    <2> QED BY <2>1, <2>2, <2>3
  <1>6. DOMAIN t.instances = DOMAIN s.instances
        /\ t.instances = [p \in DOMAIN t.instances |-> t.instances[p]]
    BY <1>2, <1>4
  <1>7. /\ TypedInstances(t, R)
        /\ \A p \in DOMAIN t.instances : t.instances[p].id = s.instances[p].id
    <2>1. TypedInstances(s, R)
      BY DEF SoundInstances
    <2>2. \A p \in DOMAIN t.instances :
             /\ t.instances[p] = [s.instances[p] EXCEPT !.state = t.instances[p].state]
             /\ t.instances[p].state \in InstanceStates
      BY <1>5, <1>6
    <2> QED BY <1>4, <1>6, <2>1, <2>2, IdsAreKept
  <1>8. t.running = Running(t.instances)
    <2>1. s.running = Running(s.instances)
      BY DEF SoundInstances
    <2>2. ASSUME NEW x \in Running(t.instances) PROVE x \in t.running
      BY <1>2, <1>4, <1>5, <1>6, <1>7, <2>1, <2>2 DEF Running, InstanceIds
    <2>3. ASSUME NEW x \in t.running PROVE x \in Running(t.instances)
      <3>1. CASE x \in s.running
        <4>1. PICK p \in DOMAIN s.instances :
                 s.instances[p].state \in {"STARTING", "STARTED"} /\ x = s.instances[p].id
          BY <2>1, <3>1 DEF Running
        <4>2. /\ p \in DOMAIN t.instances /\ t.instances[p].id = x
              /\ t.instances[p].state \in {"STARTING", "STARTED"}
          BY <1>5, <1>6, <1>7, <4>1
        <4> QED BY <4>2 DEF Running
      <3>2. CASE x \in InstanceIds(s, P)
        <4>1. PICK p \in P : x = s.instances[p].id
          BY <3>2 DEF InstanceIds
        <4>2. /\ p \in DOMAIN t.instances /\ t.instances[p].id = x
              /\ t.instances[p].state \in {"STARTING", "STARTED"}
          BY <1>5, <1>6, <1>7, <4>1
        <4> QED BY <4>2 DEF Running
      <3> QED BY <1>2, <1>4, <2>3, <3>1, <3>2
    <2> QED BY <2>2, <2>3
  <1>9. AllDataSourceInstancesStarted(u) <=> AllDataSourceInstancesStarted(t)
    BY <1>4 DEF AllDataSourceInstancesStarted
  <1> QED BY <1>1, <1>2, <1>3, <1>4, <1>5, <1>6, <1>7, <1>8, <1>9 DEF SoundInstances

\* Stopping instances: nobody else's id is among theirs.
LEMMA StopEffect ==
  ASSUME NEW s, DOMAIN s = Fields, NEW e, NEW R, SoundInstances(s, R),
         NEW P, P \subseteq DOMAIN s.instances, NEW now \in BOOLEAN
  PROVE  LET t == StopDataSourceInstances(s, e, P, now)
         IN  /\ Except(s, t, {"instances", "running"})
             /\ SoundInstances(t, R)
             /\ DOMAIN t.instances = DOMAIN s.instances
             /\ \A p \in DOMAIN s.instances \ P : t.instances[p] = s.instances[p]
             /\ \A p \in P : t.instances[p].state \in {"STOPPING", "STOPPED"}
             /\ now => \A p \in P : t.instances[p].state = "STOPPED"
  <1> DEFINE waits(p) == p \in NotifyOnStop \ e.frozen /\ ~now
             t == StopDataSourceInstances(s, e, P, now)
  <1>1. /\ DOMAIN t = Fields /\ t.last_id = s.last_id
        /\ t.instances = [p \in DOMAIN s.instances |-> IF p \notin P THEN s.instances[p] ELSE
              [s.instances[p] EXCEPT !.state = IF waits(p) THEN "STOPPING" ELSE "STOPPED"]]
        /\ t.running = s.running \ InstanceIds(s, P)
        /\ Except(s, t, {"instances", "running"})
    BY FieldNames DEF Except, StopDataSourceInstances
  <1>0. t = StopDataSourceInstances(s, e, P, now)
    OBVIOUS
  <1> HIDE DEF t
  <1>2. ASSUME NEW p \in DOMAIN s.instances
        PROVE  /\ p \notin P => t.instances[p] = s.instances[p]
               /\ p \in P => t.instances[p].state \in {"STOPPING", "STOPPED"}
               /\ p \in P /\ now => t.instances[p].state = "STOPPED"
               /\ t.instances[p] = [s.instances[p] EXCEPT !.state = t.instances[p].state]
               /\ t.instances[p].state \in InstanceStates
    <2>1. s.instances[p] \in [id : 1 .. s.last_id, state : InstanceStates]
      BY DEF SoundInstances, TypedInstances
    <2>2. CASE p \notin P
      BY <1>1, <2>1, <2>2
    <2>3. CASE p \in P
      BY <1>1, <2>1, <2>3 DEF InstanceStates
    <2> QED BY <2>1, <2>2, <2>3
  <1>3. DOMAIN t.instances = DOMAIN s.instances
        /\ t.instances = [p \in DOMAIN t.instances |-> t.instances[p]]
    BY <1>1
  <1>4. /\ TypedInstances(t, R)
        /\ \A p \in DOMAIN t.instances : t.instances[p].id = s.instances[p].id
    <2>1. TypedInstances(s, R) /\ t.last_id = s.last_id
      BY <1>1 DEF SoundInstances
    <2>2. DOMAIN t.instances \subseteq DOMAIN s.instances
      BY <1>3
    <2>3. \A p \in DOMAIN t.instances :
             /\ t.instances[p] = [s.instances[p] EXCEPT !.state = t.instances[p].state]
             /\ t.instances[p].state \in InstanceStates
      BY <1>2, <1>3
    <2> QED BY <1>3, <2>1, <2>2, <2>3, IdsAreKept
  <1>5. t.running = Running(t.instances)
    <2>1. s.running = Running(s.instances)
      BY DEF SoundInstances
    <2>2. \A p, q \in DOMAIN s.instances : s.instances[p].id = s.instances[q].id => p = q
      BY DEF SoundInstances, TypedInstances
    <2>3. ASSUME NEW x \in Running(t.instances) PROVE x \in t.running
      <3>1. PICK p \in DOMAIN s.instances :
               t.instances[p].state \in {"STARTING", "STARTED"} /\ x = s.instances[p].id
        BY <1>3, <1>4, <2>3 DEF Running
      <3>2. p \notin P
        BY <1>2, <3>1
      <3>3. x \in s.running
        BY <1>2, <2>1, <3>1, <3>2 DEF Running
      <3>4. x \notin InstanceIds(s, P)
        BY <2>2, <3>1, <3>2 DEF InstanceIds
      <3> QED BY <1>1, <3>3, <3>4
    <2>4. ASSUME NEW x \in t.running PROVE x \in Running(t.instances)
      <3>1. x \in s.running /\ x \notin InstanceIds(s, P)
        BY <1>1, <2>4
      <3>2. PICK p \in DOMAIN s.instances :
               s.instances[p].state \in {"STARTING", "STARTED"} /\ x = s.instances[p].id
        BY <2>1, <3>1 DEF Running
      <3>3. p \notin P
        BY <3>1, <3>2 DEF InstanceIds
      <3> QED BY <1>2, <1>3, <1>4, <3>2, <3>3 DEF Running
    <2> QED BY <2>3, <2>4
  <1>6. SoundInstances(t, R)
    BY <1>4, <1>5 DEF SoundInstances
  <1>7. \A p \in P : p \in DOMAIN s.instances
    OBVIOUS
  <1> QED BY <1>0, <1>1, <1>2, <1>3, <1>6, <1>7

\* Stopping all of them.
LEMMA StopAllEffect ==
  ASSUME NEW s, DOMAIN s = Fields, NEW e, NEW R, SoundInstances(s, R), NEW now \in BOOLEAN
  PROVE  LET t == StopDataSourceInstances(s, e, DOMAIN s.instances, now)
         IN  /\ Except(s, t, {"instances", "running"})
             /\ SoundInstances(t, R)
             /\ DOMAIN t.instances = DOMAIN s.instances
             /\ \A p \in DOMAIN s.instances : t.instances[p].state \in {"STOPPING", "STOPPED"}
             /\ now => \A p \in DOMAIN s.instances : t.instances[p].state = "STOPPED"
  <1>1. \A P \in SUBSET DOMAIN s.instances :
           LET t == StopDataSourceInstances(s, e, P, now)
           IN  /\ Except(s, t, {"instances", "running"})
               /\ SoundInstances(t, R)
               /\ DOMAIN t.instances = DOMAIN s.instances
               /\ \A p \in P : t.instances[p].state \in {"STOPPING", "STOPPED"}
               /\ now => \A p \in P : t.instances[p].state = "STOPPED"
    BY StopEffect
  <1>2. DOMAIN s.instances \in SUBSET DOMAIN s.instances
    OBVIOUS
  <1> QED BY <1>1, <1>2, Zenon

-----------------------------------------------------------------------------
(***************************************************************************)
(* Disabling and freeing the session.                                      *)
(***************************************************************************)
\* Nobody is left running when the session is disabled.
LEMMA EndEffect ==
  ASSUME NEW s, DOMAIN s = Fields, NEW R, SoundInstances(s, R), s.disabled = 0,
         \A p \in DOMAIN s.instances : s.instances[p].state \in {"STOPPING", "STOPPED"}
  PROVE  LET t == DisableTracingNotifyConsumerAndFlushFile(s)
         IN  /\ Except(s, t, {"state", "instances", "disabled", "write_period_ms",
                              "write_into_file"})
             /\ t.state = "DISABLED"
             /\ Instances(t, R)
  <1> DEFINE t == DisableTracingNotifyConsumerAndFlushFile(s)
  <1>1. /\ DOMAIN t = Fields /\ t.last_id = s.last_id /\ t.running = s.running
        /\ t.instances = [p \in DOMAIN s.instances |-> [s.instances[p] EXCEPT !.state = "STOPPED"]]
        /\ t.state = "DISABLED" /\ t.disabled = s.disabled + 1
        /\ Except(s, t, {"state", "instances", "disabled", "write_period_ms", "write_into_file"})
    BY FieldNames DEF Except, DisableTracingNotifyConsumerAndFlushFile
  <1>0. t = DisableTracingNotifyConsumerAndFlushFile(s)
    OBVIOUS
  <1> HIDE DEF t
  <1>2. DOMAIN t.instances = DOMAIN s.instances
        /\ t.instances = [p \in DOMAIN t.instances |-> t.instances[p]]
    BY <1>1
  <1>3. TypedInstances(s, R) /\ s.running = Running(s.instances)
    BY DEF SoundInstances
  <1>4. ASSUME NEW p \in DOMAIN s.instances
        PROVE  /\ t.instances[p] = [s.instances[p] EXCEPT !.state = t.instances[p].state]
               /\ t.instances[p].state = "STOPPED" /\ t.instances[p].state \in InstanceStates
    <2>1. s.instances[p] \in [id : 1 .. s.last_id, state : InstanceStates]
      BY <1>3 DEF TypedInstances
    <2> QED BY <1>1, <2>1 DEF InstanceStates
  <1>5. TypedInstances(t, R)
    <2>1. DOMAIN t.instances \subseteq DOMAIN s.instances
      BY <1>2
    <2>2. \A p \in DOMAIN t.instances :
             /\ t.instances[p] = [s.instances[p] EXCEPT !.state = t.instances[p].state]
             /\ t.instances[p].state \in InstanceStates
      BY <1>2, <1>4
    <2> QED BY <1>1, <1>2, <1>3, <2>1, <2>2, IdsAreKept
  <1>6. Running(s.instances) = {} /\ Running(t.instances) = {}
    BY <1>2, <1>4 DEF Running
  <1>7. SoundInstances(t, R)
    BY <1>1, <1>3, <1>5, <1>6 DEF SoundInstances
  <1>8. FittingInstances(t)
    BY <1>1, <1>2, <1>4 DEF FittingInstances, Fitting
  <1>9. Notified(t) /\ Disabled(t)
    BY <1>1 DEF Notified, Disabled
  <1> QED BY <1>0, <1>1, <1>7, <1>8, <1>9 DEF Instances

\* DisableTracing, called now or to wait for acknowledgements.
LEMMA DisableEffect ==
  ASSUME NEW s, NEW e, NEW R, Settings(s), Instances(s, R), NEW now \in BOOLEAN
  PROVE  LET t == DisableTracing(s, e, now)
         IN  /\ Except(s, t, {"state", "instances", "running", "disabled", "write_period_ms",
                              "write_into_file", "timers"})
             /\ Settings(t) /\ Instances(t, R)
             /\ Alive(t) <=> Alive(s)
             /\ now /\ Alive(s) => t.state = "DISABLED"
  <1> DEFINE t == DisableTracing(s, e, now)
             changed == {"state", "instances", "running", "disabled", "write_period_ms",
                         "write_into_file", "timers"}
             atOnce == now \/ s.state = "CONFIGURED"
             stopped == StopDataSourceInstances(s, e, DOMAIN s.instances, atOnce)
  <1> SUFFICES /\ Except(s, t, changed)
               /\ Settings(t) /\ Instances(t, R)
               /\ Alive(t) <=> Alive(s)
               /\ now /\ Alive(s) => t.state = "DISABLED"
    OBVIOUS
  <1>1. /\ DOMAIN s = Fields /\ s.state \in States
        /\ SoundInstances(s, R) /\ FittingInstances(s) /\ Notified(s) /\ Disabled(s)
    BY DEF Settings, Instances
  <1>2. CASE \/ s.state \notin {"CONFIGURED", "STARTED", "DISABLING_WAITING_STOP_ACKS"}
             \/ s.state = "DISABLING_WAITING_STOP_ACKS" /\ ~now
    <2>1. t = s
      BY <1>2 DEF DisableTracing
    <2> QED BY <1>1, <1>2, <2>1 DEF Except, Alive, States
  <1>3. CASE s.state = "DISABLING_WAITING_STOP_ACKS" /\ now
    <2>1. t = DisableTracingNotifyConsumerAndFlushFile(s)
      BY <1>3 DEF DisableTracing
    <2>2. \A p \in DOMAIN s.instances : s.instances[p].state \in {"STOPPING", "STOPPED"}
      BY <1>1, <1>3 DEF FittingInstances, Fitting
    <2>3. s.disabled = 0
      BY <1>1, <1>3 DEF Disabled
    <2>4. /\ Except(s, t, {"state", "instances", "disabled", "write_period_ms",
                           "write_into_file"})
          /\ t.state = "DISABLED" /\ Instances(t, R)
      BY <1>1, <2>1, <2>2, <2>3, EndEffect
    <2>5. Settings(t)
      <3>1. t.config = s.config /\ t.timers = s.timers /\ DOMAIN t = Fields
        BY <1>1, <2>4, FieldNames DEF Except
      <3> QED BY <1>3, <2>4, <3>1 DEF Settings, Alive, States
    <2>6. Except(s, t, changed)
      BY <2>4 DEF Except
    <2> QED BY <1>3, <2>4, <2>5, <2>6 DEF Alive
  <1>4. CASE s.state \in {"CONFIGURED", "STARTED"}
    <2>1. /\ Except(s, stopped, {"instances", "running"})
          /\ SoundInstances(stopped, R)
          /\ DOMAIN stopped.instances = DOMAIN s.instances
          /\ \A p \in DOMAIN s.instances : stopped.instances[p].state \in {"STOPPING", "STOPPED"}
          /\ atOnce => \A p \in DOMAIN s.instances : stopped.instances[p].state = "STOPPED"
      BY <1>1, StopAllEffect
    <2>2. /\ DOMAIN stopped = Fields /\ stopped.state = s.state /\ stopped.disabled = 0
          /\ stopped.config = s.config /\ stopped.timers = s.timers
      BY <1>1, <1>4, <2>1, FieldNames DEF Except, Disabled
    <2> HIDE DEF stopped
    <2>3. CASE AllDataSourceInstancesStopped(stopped)
      <3>1. t = DisableTracingNotifyConsumerAndFlushFile(stopped)
        BY <1>4, <2>3 DEF DisableTracing, stopped
      <3>2. /\ Except(stopped, t, {"state", "instances", "disabled", "write_period_ms",
                                   "write_into_file"})
            /\ t.state = "DISABLED" /\ Instances(t, R)
        BY <2>1, <2>2, <3>1, EndEffect
      <3>3. Except(s, t, changed)
        BY <2>1, <3>2 DEF Except
      <3>4. t.config = s.config /\ t.timers = s.timers /\ DOMAIN t = Fields
        BY <2>2, <3>2, FieldNames DEF Except
      <3>5. Settings(t)
        BY <1>4, <3>2, <3>4 DEF Settings, Alive, States
      <3> QED BY <1>4, <3>2, <3>3, <3>5 DEF Alive
    <2>4. CASE ~AllDataSourceInstancesStopped(stopped)
      <3>1. t = WaitForStopAcks(stopped)
        BY <1>4, <2>4 DEF DisableTracing, stopped
      <3>2. /\ Except(stopped, t, {"state", "timers"})
            /\ t.state = "DISABLING_WAITING_STOP_ACKS"
            /\ t.timers = stopped.timers \cup {Timer("OnDisableTracingTimeout", 0)}
        BY <2>2, <3>1, FieldNames DEF Except, WaitForStopAcks, PostDelayedTask
      <3>3. Except(s, t, changed)
        BY <2>1, <3>2 DEF Except
      <3>4. /\ DOMAIN t = Fields /\ t.instances = stopped.instances /\ t.running = stopped.running
            /\ t.last_id = stopped.last_id /\ t.disabled = 0 /\ t.config = s.config
        BY <2>2, <3>2, FieldNames DEF Except
      <3>5. Settings(t)
        BY <1>4, <2>2, <3>2, <3>4 DEF Settings, Alive, States, Timer, TimerOps
      <3>6. SoundInstances(t, R)
        BY <2>1, <3>4 DEF SoundInstances, TypedInstances
      <3>7. FittingInstances(t)
        <4>1. \A p \in DOMAIN t.instances : t.instances[p].state \in {"STOPPING", "STOPPED"}
          BY <2>1, <3>4
        <4>2. \E p \in DOMAIN t.instances : t.instances[p].state # "STOPPED"
          BY <2>4, <3>4 DEF AllDataSourceInstancesStopped
        <4> QED BY <3>2, <4>1, <4>2 DEF FittingInstances, Fitting
      <3>8. Notified(t) /\ Disabled(t)
        BY <3>2, <3>4 DEF Notified, Disabled
      <3>9. ~now
        BY <2>1, <2>4 DEF AllDataSourceInstancesStopped
      <3>10. Alive(t) <=> Alive(s)
        BY <1>4, <3>2 DEF Alive
      <3> QED BY <3>3, <3>5, <3>6, <3>7, <3>8, <3>9, <3>10 DEF Instances
    <2> QED BY <2>3, <2>4
  <1> QED BY <1>2, <1>3, <1>4

\* A posted answer to the clone completes no flush.
LEMMA ReplyIsPosted ==
  ASSUME NEW s, NEW t, s.tasks \in Seq(Tasks),
         t.tasks = Append(s.tasks, [op |-> "OnSessionCloned"])
  PROVE  /\ t.tasks \in Seq(Tasks)
         /\ \A i, f : Completes(t, i, f) <=> Completes(s, i, f)
         /\ \A i, f : Completes(s, i, f) => t.tasks[i] = s.tasks[i]
  <1> DEFINE task == [op |-> "OnSessionCloned"]
  <1>1. task \in Tasks /\ task.op # "CompleteFlush"
    BY DEF Tasks
  <1> HIDE DEF task
  <1>2. /\ Append(s.tasks, task) \in Seq(Tasks) /\ Len(s.tasks) \in Nat
        /\ Len(Append(s.tasks, task)) = Len(s.tasks) + 1
        /\ Append(s.tasks, task)[Len(s.tasks) + 1] = task
        /\ \A i \in 1 .. Len(s.tasks) : Append(s.tasks, task)[i] = s.tasks[i]
    BY <1>1, AppendProperties, LenProperties
  <1>3. t.tasks = Append(s.tasks, task)
    BY DEF task
  <1>4. DOMAIN s.tasks = 1 .. Len(s.tasks) /\ DOMAIN t.tasks = 1 .. Len(s.tasks) + 1
    BY <1>2, <1>3, LenProperties
  <1>5. \A i \in DOMAIN t.tasks : i \in DOMAIN s.tasks \/ i = Len(s.tasks) + 1
    BY <1>2, <1>4
  <1>6. \A i \in DOMAIN s.tasks : i \in DOMAIN t.tasks /\ t.tasks[i] = s.tasks[i]
    BY <1>2, <1>3, <1>4
  <1> QED BY <1>1, <1>2, <1>3, <1>5, <1>6 DEF Completes

\* The session goes with its instances, none of which runs, and its pending
\* flushes; who waits for the clone will be answered.
LEMMA FreeEffect ==
  ASSUME NEW s, NEW e, NEW R, ServiceInv(s, R), Alive(s)
  PROVE  ServiceInv(FreeBuffers(s, e), R)
  <1> DEFINE t == DisableTracing(s, e, TRUE)
             u == FreeBuffers(s, e)
             changed == {"state", "instances", "running", "disabled", "write_period_ms",
                         "write_into_file", "timers"}
  <1>1. Settings(s) /\ Instances(s, R) /\ Flushes(s, {}) /\ Clone(s) /\ DOMAIN s = Fields
    BY DEF ServiceInv, Settings
  <1>2. Except(s, t, changed) /\ Settings(t) /\ Instances(t, R) /\ t.state = "DISABLED"
    BY <1>1, DisableEffect
  <1> HIDE DEF t
  <1>3. /\ DOMAIN t = Fields /\ t.flushes = s.flushes /\ t.tasks = s.tasks /\ t.config = s.config
        /\ t.pending_flushes = s.pending_flushes
        /\ t.clone_flushes = s.clone_flushes /\ t.cloner = s.cloner
        /\ t.clone_replies = s.clone_replies /\ t.pending_clone = s.pending_clone
    BY <1>1, <1>2, FieldNames DEF Except
  <1>4. /\ DOMAIN u = Fields /\ u.state = "ERASED" /\ u.instances = <<>>
        /\ u.pending_flushes = <<>> /\ u.pending_clone = None /\ u.timers = {}
        /\ u.tasks = IF s.pending_clone = None THEN s.tasks
                     ELSE Append(s.tasks, [op |-> "OnSessionCloned"])
        /\ u.running = t.running /\ u.last_id = t.last_id /\ u.disabled = t.disabled
        /\ u.config = s.config /\ u.flushes = s.flushes
        /\ u.clone_flushes = s.clone_flushes /\ u.cloner = s.cloner
        /\ u.clone_replies = s.clone_replies
    BY <1>3, FieldNames DEF FreeBuffers, AnswerPendingClone, t
  <1> HIDE DEF u
  <1>5. Settings(u)
    BY <1>1, <1>4 DEF Settings, Alive, States
  <1>6. Instances(u, R)
    <2>1. DOMAIN u.instances = {} /\ u.instances = [p \in DOMAIN u.instances |-> u.instances[p]]
      BY <1>4
    <2>2. TypedInstances(u, R)
      BY <1>2, <1>4, <2>1 DEF Instances, SoundInstances, TypedInstances
    <2>3. Running(t.instances) = {}
      BY <1>2 DEF Instances, FittingInstances, Fitting, Running
    <2>4. u.running = Running(u.instances)
      BY <1>2, <1>4, <2>1, <2>3 DEF Instances, SoundInstances, Running
    <2>5. FittingInstances(u) /\ Notified(u)
      BY <1>4, <2>1 DEF FittingInstances, Notified
    <2>6. Disabled(u)
      BY <1>2, <1>4 DEF Instances, Disabled
    <2> QED BY <2>2, <2>4, <2>5, <2>6 DEF Instances, SoundInstances
  <1>7. TypedFlushes(s) /\ OnceEach(s, {})
    BY <1>1 DEF Flushes
  <1>8. /\ u.tasks \in Seq(Tasks)
        /\ \A i, f : Completes(u, i, f) <=> Completes(s, i, f)
        /\ \A i, f : Completes(s, i, f) => u.tasks[i] = s.tasks[i]
        /\ \A f : Queued(u, f) <=> Queued(s, f)
    <2>1. s.tasks \in Seq(Tasks)
      BY <1>7 DEF TypedFlushes
    <2>2. CASE s.pending_clone = None
      BY <1>4, <2>1, <2>2 DEF Completes, Queued
    <2>3. CASE s.pending_clone # None
      <3>1. /\ u.tasks \in Seq(Tasks)
            /\ \A i, f : Completes(u, i, f) <=> Completes(s, i, f)
            /\ \A i, f : Completes(s, i, f) => u.tasks[i] = s.tasks[i]
        <4>1. u.tasks = Append(s.tasks, [op |-> "OnSessionCloned"])
          BY <1>4, <2>3
        <4> QED BY <2>1, <4>1, ReplyIsPosted
      <3>2. \A f : Queued(u, f) <=> Queued(s, f)
        <4>1. \A f : Queued(u, f) <=> \E i : Completes(u, i, f)
          BY DEF Queued, Completes
        <4>2. \A f : Queued(s, f) <=> \E i : Completes(s, i, f)
          BY DEF Queued, Completes
        <4> QED BY <3>1, <4>1, <4>2
      <3> QED BY <3>1, <3>2
    <2> QED BY <2>2, <2>3
  <1>9. DOMAIN u.pending_flushes = {}
        /\ u.pending_flushes = [f \in DOMAIN u.pending_flushes |-> u.pending_flushes[f]]
    BY <1>4
  <1>10. Flushes(u, {})
    <2>1. TypedFlushes(u)
      BY <1>4, <1>7, <1>8, <1>9 DEF TypedFlushes, Alive
    <2>2. ~Alive(u)
      BY <1>4 DEF Alive
    <2>3. \A f \in Nat : \A i, j \in DOMAIN u.tasks :
             Completes(u, i, f) /\ Completes(u, j, f) => i = j
      <3>1. \A f \in Nat : \A i, j \in DOMAIN s.tasks :
               Completes(s, i, f) /\ Completes(s, j, f) => i = j
        BY <1>7 DEF OnceEach
      <3>2. \A i, f : Completes(s, i, f) => i \in DOMAIN s.tasks
        BY DEF Completes
      <3> QED BY <1>8, <3>1, <3>2
    <2>4. OnceEach(u, {})
      <3>1. \A f \in Nat : Queued(u, f) =>
               f \in DOMAIN u.flushes /\ u.flushes[f].answers = 0 /\ u.flushes[f].owed = {}
        BY <1>4, <1>7, <1>8 DEF OnceEach
      <3>2. \A f \in DOMAIN u.flushes :
               /\ u.flushes[f].answers \in {0, 1}
               /\ u.flushes[f].answers = 1 => u.flushes[f].owed = {}
        BY <1>4, <1>7 DEF OnceEach
      <3> QED BY <1>9, <2>2, <2>3, <3>1, <3>2 DEF OnceEach
    <2> QED BY <2>1, <2>4 DEF Flushes, AboutToAnswer
  <1>11. OfClone(u) \subseteq OfClone(s)
    <2>1. ASSUME NEW f \in OfClone(u) PROVE f \in OfClone(s)
      <3>1. f \in Nat
            /\ \E i \in DOMAIN u.tasks : Completes(u, i, f) /\ u.tasks[i].callback = "kTraceClone"
        BY <1>9, <2>1 DEF OfClone
      <3>2. PICK i \in DOMAIN u.tasks : Completes(u, i, f) /\ u.tasks[i].callback = "kTraceClone"
        BY <3>1
      <3>3. Completes(s, i, f) /\ s.tasks[i].callback = "kTraceClone" /\ i \in DOMAIN s.tasks
        BY <1>8, <3>2 DEF Completes
      <3> QED BY <3>1, <3>3 DEF OfClone
    <2> QED BY <2>1
  <1>12. Clone(u)
    BY <1>1, <1>4, <1>11 DEF Clone, TypedClone
  <1> QED BY <1>5, <1>6, <1>10, <1>12 DEF ServiceInv, u

-----------------------------------------------------------------------------
(***************************************************************************)
(* The clone.                                                              *)
(***************************************************************************)
\* The consumer is answered if it waits, and only then.
LEMMA ReplyEffect ==
  ASSUME NEW s, DOMAIN s = Fields, NEW answer
  PROVE  LET t == OnSessionCloned(s, answer)
         IN  /\ Except(s, t, {"cloner", "clone_replies"})
             /\ s.cloner # "waiting" => t.cloner = s.cloner /\ t.clone_replies = s.clone_replies
             /\ s.cloner = "waiting" =>
                   t.cloner = "answered" /\ t.clone_replies = Append(s.clone_replies, answer)
  BY FieldNames DEF OnSessionCloned, Except

\* To be told nothing is not to be told of a success.
LEMMA NoReply == <<>> # <<"flushed">>
  <1>1. Len(<<>>) = 0 /\ Len(<<"flushed">>) = 1
    OBVIOUS
  <1> QED BY <1>1

\* From s to t the clone is given up or done, and its consumer answered.
CloneAnswers(s, t, answer) ==
    /\ s.cloner \in {"waiting", "gone"} /\ s.clone_replies = <<>> /\ s.clone_flushes \in Nat
    /\ answer \in {"failed", "unflushed", "flushed"}
    /\ answer = "flushed" => OfClone(s) = {} /\ s.clone_flushes = 2
    /\ t.clone_flushes = s.clone_flushes /\ t.pending_clone = None
    /\ OfClone(t) = OfClone(s)
    /\ s.cloner # "waiting" => t.cloner = s.cloner /\ t.clone_replies = s.clone_replies
    /\ s.cloner = "waiting" =>
          t.cloner = "answered" /\ t.clone_replies = Append(s.clone_replies, answer)

\* No flush is under way for a clone that succeeded.
LEMMA CloneEnds ==
  ASSUME NEW s, NEW t, NEW answer, CloneAnswers(s, t, answer)
  PROVE  Clone(t)
  <1> USE DEF CloneAnswers
  <1>1. CASE s.cloner # "waiting"
    <2>1. t.cloner = "gone" /\ t.clone_replies = <<>>
      BY <1>1
    <2>2. t.clone_replies # <<"flushed">>
      BY <2>1, NoReply
    <2> QED BY <2>1, <2>2 DEF Clone, TypedClone
  <1>2. CASE s.cloner = "waiting"
    <2>1. t.cloner = "answered" /\ t.clone_replies = <<answer>>
      BY <1>2
    <2>2. t.clone_replies = <<"flushed">> => answer = "flushed"
      BY <2>1
    <2> QED BY <2>1, <2>2 DEF Clone, TypedClone
  <1> QED BY <1>1, <1>2

\* A flush of the clone is answered.
LEMMA CloneFlushEffect ==
  ASSUME NEW s, NEW e, Settings(s), NEW success \in BOOLEAN, CloneIsDue(s, success)
  PROVE  LET t == OnFlushDoneForClone(s, e, success)
         IN  /\ Except(s, t, {"pending_clone", "cloner", "clone_replies", "received_triggers"})
             /\ Clone(t)
  <1> DEFINE t == OnFlushDoneForClone(s, e, success)
             changed == {"pending_clone", "cloner", "clone_replies", "received_triggers"}
             op == [pending_flush_cnt |-> s.pending_clone.pending_flush_cnt - 1,
                    flush_failed |-> s.pending_clone.flush_failed \/ ~success]
             u == [s EXCEPT !.pending_clone = op]
  <1> SUFFICES Except(s, t, changed) /\ Clone(t)
    OBVIOUS
  <1>1. DOMAIN s = Fields /\ TypedClone(s) /\ s.cloner # "idle" /\ s.clone_replies # <<"flushed">>
    BY DEF Settings, CloneIsDue
  <1>2. CASE ~Alive(s) \/ s.pending_clone = None
    <2>1. t = s /\ s.pending_clone = None
      BY <1>1, <1>2 DEF OnFlushDoneForClone, TypedClone
    <2> QED BY <1>1, <2>1 DEF Except, Clone
  <1>3. CASE Alive(s) /\ s.pending_clone # None
    <2>1. /\ s.pending_clone \in Clones /\ s.cloner \in {"waiting", "gone"}
          /\ s.clone_replies = <<>> /\ s.clone_flushes \in Nat
          /\ AtMost(OfClone(s), s.pending_clone.pending_flush_cnt - 1)
          /\ success /\ ~s.pending_clone.flush_failed =>
                s.clone_flushes = 3 - s.pending_clone.pending_flush_cnt
      BY <1>1, <1>3 DEF CloneIsDue, TypedClone
    <2>2. /\ s.pending_clone.pending_flush_cnt \in 1 .. 2
          /\ s.pending_clone.flush_failed \in BOOLEAN
          /\ op.pending_flush_cnt = s.pending_clone.pending_flush_cnt - 1
          /\ ~op.flush_failed => success /\ ~s.pending_clone.flush_failed
          /\ op.flush_failed \in BOOLEAN
      BY <2>1 DEF Clones
    <2> HIDE DEF op
    <2>3. /\ DOMAIN u = Fields /\ u.pending_clone = op /\ u.tasks = s.tasks /\ u.state = s.state
          /\ u.pending_flushes = s.pending_flushes /\ u.cloner = s.cloner
          /\ u.clone_replies = s.clone_replies /\ u.clone_flushes = s.clone_flushes
          /\ Except(s, u, {"pending_clone"})
      BY <1>1, FieldNames DEF Except
    <2> HIDE DEF u
    <2>4. CASE e.clone # "no_buffers" /\ op.pending_flush_cnt # 0
      <3>1. t = u
        BY <1>3, <2>4 DEF OnFlushDoneForClone, op, u
      <3>2. op.pending_flush_cnt = 1 /\ s.pending_clone.pending_flush_cnt = 2
        BY <2>2, <2>4
      <3>3. op \in Clones
        BY <2>2, <3>2 DEF op, Clones
      <3>4. t.clone_flushes = s.clone_flushes /\ OfClone(t) = OfClone(s)
            /\ t.pending_clone = op /\ t.cloner = s.cloner /\ t.clone_replies = <<>>
            /\ Alive(t)
        BY <1>3, <2>1, <2>3, <3>1 DEF OfClone, Completes, Alive
      <3>5. AtMost(OfClone(t), 1)
        BY <2>1, <3>2, <3>4
      <3>6. ~op.flush_failed => t.clone_flushes = 2 - 1
        BY <2>1, <2>2, <3>2, <3>4
      <3>7. t.clone_replies # <<"flushed">>
        BY <3>4
      <3>8. Clone(t)
        BY <2>1, <3>2, <3>3, <3>4, <3>5, <3>6, <3>7 DEF Clone, TypedClone
      <3> QED BY <2>3, <3>1, <3>8 DEF Except
    <2>5. CASE e.clone = "no_buffers"
      <3> DEFINE v == OnSessionCloned(u, "failed")
      <3>1. t = [v EXCEPT !.pending_clone = None]
        BY <1>3, <2>5 DEF OnFlushDoneForClone, op, u
      <3>2. /\ Except(u, v, {"cloner", "clone_replies"})
            /\ u.cloner # "waiting" => v.cloner = u.cloner /\ v.clone_replies = u.clone_replies
            /\ u.cloner = "waiting" =>
                  v.cloner = "answered" /\ v.clone_replies = Append(u.clone_replies, "failed")
        BY <2>3, ReplyEffect
      <3> HIDE DEF v
      <3>3. /\ t.pending_clone = None /\ t.tasks = s.tasks
            /\ t.pending_flushes = s.pending_flushes /\ t.clone_flushes = s.clone_flushes
            /\ t.cloner = v.cloner /\ t.clone_replies = v.clone_replies
            /\ Except(s, t, changed)
        BY <2>3, <3>1, <3>2, FieldNames DEF Except
      <3>4. OfClone(t) = OfClone(s)
        BY <3>3 DEF OfClone, Completes
      <3>5. /\ s.cloner # "waiting" => t.cloner = s.cloner /\ t.clone_replies = s.clone_replies
            /\ s.cloner = "waiting" =>
                  t.cloner = "answered" /\ t.clone_replies = Append(s.clone_replies, "failed")
        BY <2>3, <3>2, <3>3
      <3>6. t.clone_flushes = s.clone_flushes /\ t.pending_clone = None
        BY <3>3
      <3>7. CloneAnswers(s, t, "failed")
        BY <2>1, <3>4, <3>5, <3>6 DEF CloneAnswers
      <3>8. Clone(t)
        BY <3>7, CloneEnds
      <3> QED BY <3>3, <3>8
    <2>6. CASE e.clone # "no_buffers" /\ op.pending_flush_cnt = 0
      <3> DEFINE answer == IF e.clone = "no_session" THEN "failed"
                           ELSE IF op.flush_failed THEN "unflushed" ELSE "flushed"
                 v == OnSessionCloned(u, answer)
      <3>1. /\ t.pending_clone = None
            /\ Except(v, t, {"pending_clone", "received_triggers"})
        <4>1. DOMAIN v = Fields
          BY <2>3, ReplyEffect DEF Except
        <4>2. CASE s.cloner = "waiting"
          <5>1. t = [FinishCloneSession(u, e) EXCEPT !.pending_clone = None]
            BY <1>3, <2>3, <2>6, <4>2 DEF OnFlushDoneForClone, op, u
          <5>2. FinishCloneSession(u, e) = v
                \/ FinishCloneSession(u, e) = [v EXCEPT !.received_triggers = FALSE]
            BY <2>3 DEF FinishCloneSession
          <5> HIDE DEF v
          <5> QED BY <4>1, <5>1, <5>2, FieldNames DEF Except
        <4>3. CASE s.cloner # "waiting"
          <5>1. t = [u EXCEPT !.pending_clone = None]
            BY <1>3, <2>3, <2>6, <4>3 DEF OnFlushDoneForClone, op, u
          <5>2. v = u
            BY <2>3, <4>3 DEF OnSessionCloned
          <5> QED BY <2>3, <5>1, <5>2, FieldNames DEF Except
        <4> QED BY <4>2, <4>3
      <3>2. /\ Except(u, v, {"cloner", "clone_replies"})
            /\ u.cloner # "waiting" => v.cloner = u.cloner /\ v.clone_replies = u.clone_replies
            /\ u.cloner = "waiting" =>
                  v.cloner = "answered" /\ v.clone_replies = Append(u.clone_replies, answer)
        BY <2>3, ReplyEffect
      <3> HIDE DEF v
      <3>3. /\ t.tasks = s.tasks
            /\ t.pending_flushes = s.pending_flushes /\ t.clone_flushes = s.clone_flushes
            /\ t.cloner = v.cloner /\ t.clone_replies = v.clone_replies
            /\ Except(s, t, changed)
        BY <2>3, <3>1, <3>2, FieldNames DEF Except
      <3>4. OfClone(t) = OfClone(s)
        BY <3>3 DEF OfClone, Completes
      <3>5. answer \in {"failed", "unflushed", "flushed"}
        OBVIOUS
      <3>6. ASSUME answer = "flushed" PROVE OfClone(s) = {} /\ s.clone_flushes = 2
        <4>1. s.pending_clone.pending_flush_cnt = 1 /\ ~op.flush_failed
          BY <2>2, <2>6, <3>6
        <4>2. s.clone_flushes = 2
          BY <2>1, <2>2, <4>1
        <4>3. AtMost(OfClone(s), 0)
          BY <2>1, <4>1
        <4> QED BY <4>2, <4>3 DEF AtMost
      <3> HIDE DEF answer
      <3>7. /\ s.cloner # "waiting" => t.cloner = s.cloner /\ t.clone_replies = s.clone_replies
            /\ s.cloner = "waiting" =>
                  t.cloner = "answered" /\ t.clone_replies = Append(s.clone_replies, answer)
        BY <2>3, <3>2, <3>3
      <3>8. t.clone_flushes = s.clone_flushes /\ t.pending_clone = None
        BY <3>1, <3>3
      <3>9. CloneAnswers(s, t, answer)
        BY <2>1, <3>4, <3>5, <3>6, <3>7, <3>8 DEF CloneAnswers
      <3>10. Clone(t)
        BY <3>9, CloneEnds
      <3> QED BY <3>3, <3>10
    <2> QED BY <2>4, <2>5, <2>6
  <1> QED BY <1>2, <1>3

-----------------------------------------------------------------------------
(***************************************************************************)
(* Operators that keep the invariant.                                      *)
(***************************************************************************)
\* The fields that the invariant says nothing about.
LEMMA OtherFields ==
  ASSUME NEW s, NEW t, NEW R, ServiceInv(s, R),
         Except(s, t, {"write_into_file", "write_period_ms", "final_flush_outcome",
                       "received_triggers", "triggers", "triggered"})
  PROVE  ServiceInv(t, R) /\ t.state = s.state
  <1> DEFINE X == {"write_into_file", "write_period_ms", "final_flush_outcome",
                   "received_triggers", "triggers", "triggered"}
  <1>1. Except(s, t, X) /\ t.state = s.state
    BY FieldNames DEF Except
  <1>2. Settings(t)
    BY <1>1, SettingsAreKept DEF ServiceInv
  <1>3. Instances(t, R)
    BY <1>1, InstancesAreKept DEF ServiceInv
  <1>4. Alive(t) <=> Alive(s)
    BY <1>1 DEF Alive
  <1>5. Flushes(t, {})
    BY <1>1, <1>4, FlushesAreKept DEF ServiceInv
  <1>6. Clone(t)
    BY <1>1, <1>4, CloneIsKept DEF ServiceInv
  <1> QED BY <1>1, <1>2, <1>3, <1>5, <1>6 DEF ServiceInv

LEMMA DelayedKeeps ==
  ASSUME NEW s, NEW R, ServiceInv(s, R), NEW op \in TimerOps, NEW n
  PROVE  LET t == PostDelayedTask(s, Timer(op, n))
         IN  ServiceInv(t, R) /\ Except(s, t, {"timers"})
  <1> DEFINE t == PostDelayedTask(s, Timer(op, n))
  <1>1. Settings(s) /\ DOMAIN s = Fields
    BY DEF ServiceInv, Settings
  <1>2. Except(s, t, {"timers"}) /\ t.timers = s.timers \cup {Timer(op, n)}
    BY <1>1, FieldNames DEF PostDelayedTask, Except
  <1> HIDE DEF t
  <1>3. t.state = s.state /\ t.config = s.config /\ DOMAIN t = Fields
    BY <1>1, <1>2, FieldNames DEF Except
  <1>4. Settings(t)
    BY <1>1, <1>2, <1>3 DEF Settings, Alive, Timer
  <1>5. Instances(t, R)
    BY <1>2, InstancesAreKept DEF ServiceInv
  <1>6. Alive(t) <=> Alive(s)
    BY <1>3 DEF Alive
  <1>7. Flushes(t, {})
    BY <1>2, <1>6, FlushesAreKept DEF ServiceInv
  <1>8. Clone(t)
    BY <1>2, <1>6, CloneIsKept DEF ServiceInv
  <1> QED BY <1>2, <1>4, <1>5, <1>7, <1>8 DEF ServiceInv, t

LEMMA DisableKeeps ==
  ASSUME NEW s, NEW e, NEW R, ServiceInv(s, R), NEW now \in BOOLEAN
  PROVE  ServiceInv(DisableTracing(s, e, now), R)
  <1> DEFINE t == DisableTracing(s, e, now)
             changed == {"state", "instances", "running", "disabled", "write_period_ms",
                         "write_into_file", "timers"}
  <1>1. Settings(s) /\ Instances(s, R)
    BY DEF ServiceInv
  <1>2. Except(s, t, changed) /\ Settings(t) /\ Instances(t, R) /\ (Alive(t) <=> Alive(s))
    BY <1>1, DisableEffect
  <1> HIDE DEF t
  <1>3. Flushes(t, {})
    BY <1>2, FlushesAreKept DEF ServiceInv
  <1>4. Clone(t)
    BY <1>2, CloneIsKept DEF ServiceInv
  <1> QED BY <1>2, <1>3, <1>4 DEF ServiceInv, t

\* A write into the file, after which it may be closed and the session over.
LEMMA FileKeeps ==
  ASSUME NEW s, NEW e, NEW R, ServiceInv(s, R)
  PROVE  ServiceInv(DoReadBuffersIntoFile(s, e), R)
  <1> DEFINE closed == [s EXCEPT !.write_into_file = FALSE, !.write_period_ms = FALSE]
  <1>1. DOMAIN s = Fields
    BY DEF ServiceInv, Settings
  <1>2. Except(s, closed, {"write_into_file", "write_period_ms", "final_flush_outcome",
                           "received_triggers", "triggers", "triggered"})
    BY <1>1, FieldNames DEF Except
  <1> HIDE DEF closed
  <1>3. ServiceInv(closed, R)
    BY <1>2, OtherFields
  <1>4. ServiceInv(DisableTracing(closed, e, FALSE), R)
    BY <1>3, DisableKeeps
  <1>5. ServiceInv(PostDelayedTask(s, Timer("ReadBuffersIntoFile", 0)), R)
    BY DelayedKeeps DEF TimerOps
  <1> QED BY <1>3, <1>4, <1>5 DEF DoReadBuffersIntoFile, closed

\* What is known when a callback is called.
CallbackIsDue(s, R, callback, success) ==
    /\ Settings(s) /\ Instances(s, R) /\ Flushes(s, {})
    /\ callback = "kTraceClone" => CloneIsDue(s, success)
    /\ callback # "kTraceClone" => Clone(s)

LEMMA CallbackKeeps ==
  ASSUME NEW s, NEW e, NEW R, NEW callback, NEW success \in BOOLEAN,
         CallbackIsDue(s, R, callback, success)
  PROVE  ServiceInv(RunCallback(s, e, callback, success), R)
  <1>1. Settings(s) /\ Instances(s, R) /\ Flushes(s, {}) /\ DOMAIN s = Fields
    BY DEF CallbackIsDue, Settings
  <1>2. CASE callback = "kTraceClone"
    <2> DEFINE t == OnFlushDoneForClone(s, e, success)
    <2>1. /\ Except(s, t, {"pending_clone", "cloner", "clone_replies", "received_triggers"})
          /\ Clone(t)
      BY <1>1, <1>2, CloneFlushEffect DEF CallbackIsDue
    <2>2. RunCallback(s, e, callback, success) = t
      BY <1>2 DEF RunCallback
    <2> HIDE DEF t
    <2>3. Settings(t)
      BY <1>1, <2>1, SettingsAreKept
    <2>4. Instances(t, R)
      BY <1>1, <2>1, InstancesAreKept
    <2>5. Alive(t) <=> Alive(s)
      BY <2>1, FieldNames DEF Alive, Except
    <2>6. Flushes(t, {})
      BY <1>1, <2>1, <2>5, FlushesAreKept
    <2> QED BY <2>1, <2>2, <2>3, <2>4, <2>6 DEF ServiceInv
  <1>3. CASE callback # "kTraceClone"
    <2>1. ServiceInv(s, R)
      BY <1>3 DEF CallbackIsDue, ServiceInv
    <2>2. CASE callback = "kTraceStop"
      <3> DEFINE t == [s EXCEPT !.final_flush_outcome =
                          IF success THEN "FINAL_FLUSH_SUCCEEDED" ELSE "FINAL_FLUSH_FAILED"]
      <3>1. Except(s, t, {"write_into_file", "write_period_ms", "final_flush_outcome",
                          "received_triggers", "triggers", "triggered"})
        BY <1>1, FieldNames DEF Except
      <3> HIDE DEF t
      <3>2. ServiceInv(t, R) /\ t.state = s.state
        BY <2>1, <3>1, OtherFields
      <3>3. ServiceInv(DisableTracing(t, e, FALSE), R)
        BY <3>2, DisableKeeps
      <3>4. Alive(s) => ServiceInv(FreeBuffers(t, e), R)
        BY <3>2, FreeEffect DEF Alive
      <3>5. RunCallback(s, e, callback, success) = FinalFlushDone(s, e, success)
        BY <2>2 DEF RunCallback
      <3> QED BY <2>1, <3>3, <3>4, <3>5 DEF FinalFlushDone, t
    <2>3. CASE callback = "file"
      BY <2>1, <2>3, FileKeeps DEF RunCallback
    <2>4. CASE callback \notin {"kTraceStop", "kTraceClone", "file"}
      BY <2>1, <2>4 DEF RunCallback
    <2> QED BY <1>3, <2>2, <2>3, <2>4
  <1> QED BY <1>2, <1>3

-----------------------------------------------------------------------------
(***************************************************************************)
(* Answering flushes.                                                      *)
(***************************************************************************)
\* The clone waits for one flush more than OfClone has.
CloneIsOwed(s) ==
    /\ TypedClone(s)
    /\ s.cloner # "idle" /\ s.clone_replies # <<"flushed">>
    /\ s.pending_clone # None =>
          /\ AtMost(OfClone(s), s.pending_clone.pending_flush_cnt - 1)
          /\ ~s.pending_clone.flush_failed =>
                s.clone_flushes = 2 - s.pending_clone.pending_flush_cnt

\* A flush is taken out of those that are pending or queued, to be answered.
AnswerIsDue(s, R, f, callback, success) ==
    /\ Settings(s) /\ Instances(s, R) /\ Flushes(s, {f})
    /\ success => s.flushes[f].owed = {}
    /\ callback = "kTraceClone" => CloneIsOwed(s)
    /\ callback # "kTraceClone" => Clone(s)

LEMMA CompleteKeeps ==
  ASSUME NEW s, NEW e, NEW R, NEW f, NEW callback, NEW success \in BOOLEAN,
         AnswerIsDue(s, R, f, callback, success)
  PROVE  ServiceInv(CompleteFlush(s, e, f, callback, success), R)
  <1> DEFINE ok == success /\ Alive(s)
             answered == [answers |-> s.flushes[f].answers + 1,
                          owed |-> IF ok THEN s.flushes[f].owed ELSE {}]
             more == IF ok /\ callback = "kTraceClone" THEN 1 ELSE 0
             t == [s EXCEPT !.flushes[f] = [answers |-> @.answers + 1,
                                            owed |-> IF ok THEN @.owed ELSE {}],
                            !.clone_flushes = @ + more]
  <1>1. /\ DOMAIN s = Fields /\ Settings(s) /\ Instances(s, R) /\ Flushes(s, {f})
        /\ TypedFlushes(s) /\ OnceEach(s, {f})
        /\ success => s.flushes[f].owed = {}
    BY DEF AnswerIsDue, Settings, Flushes
  <1>2. /\ f \in DOMAIN s.flushes /\ f \notin DOMAIN s.pending_flushes
        /\ ~Queued(s, f) /\ s.flushes[f].answers = 0
    BY <1>1 DEF Flushes, AboutToAnswer
  <1>3. /\ DOMAIN t = Fields /\ t.flushes = [s.flushes EXCEPT ![f] = answered]
        /\ t.clone_flushes = s.clone_flushes + more
        /\ Except(s, t, {"flushes", "clone_flushes"})
    BY <1>1, FieldNames DEF Except
  <1>4. CompleteFlush(s, e, f, callback, success) = RunCallback(t, e, callback, ok)
    BY DEF CompleteFlush
  <1>5. answered = [answers |-> 1, owed |-> {}]
    BY <1>1, <1>2
  <1>6. ok \in BOOLEAN /\ more \in {0, 1}
    OBVIOUS
  <1> HIDE DEF t, answered
  <1>7. /\ t.state = s.state /\ t.tasks = s.tasks /\ t.pending_flushes = s.pending_flushes
        /\ t.cloner = s.cloner /\ t.clone_replies = s.clone_replies
        /\ t.pending_clone = s.pending_clone
    BY <1>1, <1>3, FieldNames DEF Except
  <1>8. Settings(t) /\ Instances(t, R)
    BY <1>1, <1>3, SettingsAreKept, InstancesAreKept
  <1>9. Flushes(t, {})
    <2>1. /\ s.flushes \in Seq([answers : Nat, owed : SUBSET Producers])
          /\ DOMAIN s.flushes = 1 .. Len(s.flushes)
      BY <1>1, LenProperties DEF TypedFlushes
    <2>2. answered \in [answers : Nat, owed : SUBSET Producers]
      BY <1>5
    <2>3. /\ t.flushes \in Seq([answers : Nat, owed : SUBSET Producers])
          /\ DOMAIN t.flushes = DOMAIN s.flushes
          /\ t.flushes[f] = answered
          /\ \A g \in DOMAIN s.flushes \ {f} : t.flushes[g] = s.flushes[g]
      BY <1>2, <1>3, <2>1, <2>2, ExceptSeq
    <2>4. TypedFlushes(t)
      BY <1>1, <1>7, <2>3 DEF TypedFlushes, Alive
    <2>5. \A g : Queued(t, g) <=> Queued(s, g)
      BY <1>7 DEF Queued, Completes
    <2>6. \A g \in DOMAIN t.pending_flushes :
             /\ t.flushes[g].answers = 0 /\ ~Queued(t, g)
             /\ t.flushes[g].owed \subseteq t.pending_flushes[g].producers
      <3> SUFFICES ASSUME NEW g \in DOMAIN s.pending_flushes
                   PROVE  /\ t.flushes[g].answers = 0 /\ ~Queued(t, g)
                          /\ t.flushes[g].owed \subseteq s.pending_flushes[g].producers
        BY <1>7
      <3>1. g # f /\ g \in DOMAIN s.flushes
        BY <1>1, <1>2 DEF TypedFlushes
      <3> QED BY <1>1, <2>3, <2>5, <3>1 DEF OnceEach
    <2>7. \A g \in Nat : Queued(t, g) =>
             g \in DOMAIN t.flushes /\ t.flushes[g].answers = 0 /\ t.flushes[g].owed = {}
      <3> SUFFICES ASSUME NEW g \in Nat, Queued(s, g)
                   PROVE  /\ g \in DOMAIN t.flushes /\ t.flushes[g].answers = 0
                          /\ t.flushes[g].owed = {}
        BY <2>5
      <3>1. g # f /\ g \in DOMAIN s.flushes
        BY <1>1, <1>2 DEF OnceEach
      <3> QED BY <1>1, <2>3, <3>1 DEF OnceEach
    <2>8. \A g \in Nat : \A i, j \in DOMAIN t.tasks :
             Completes(t, i, g) /\ Completes(t, j, g) => i = j
      <3>1. \A g, i : Completes(t, i, g) <=> Completes(s, i, g)
        BY <1>7 DEF Completes
      <3> QED BY <1>1, <1>7, <3>1 DEF OnceEach
    <2>9. \A g \in DOMAIN t.flushes :
             /\ t.flushes[g].answers \in {0, 1}
             /\ t.flushes[g].answers = 1 => t.flushes[g].owed = {}
             /\ Alive(t) /\ t.flushes[g].answers = 0 =>
                   g \in DOMAIN t.pending_flushes \/ Queued(t, g)
      <3> SUFFICES ASSUME NEW g \in DOMAIN t.flushes
                   PROVE  /\ t.flushes[g].answers \in {0, 1}
                          /\ t.flushes[g].answers = 1 => t.flushes[g].owed = {}
                          /\ Alive(t) /\ t.flushes[g].answers = 0 =>
                                g \in DOMAIN t.pending_flushes \/ Queued(t, g)
        OBVIOUS
      <3>1. CASE g = f
        BY <1>5, <2>3, <3>1
      <3>2. CASE g # f
        BY <1>1, <1>7, <2>3, <2>5, <3>2 DEF OnceEach, Alive
      <3> QED BY <3>1, <3>2
    <2>10. OnceEach(t, {})
      BY <2>6, <2>7, <2>8, <2>9 DEF OnceEach
    <2> QED BY <2>4, <2>10 DEF Flushes, AboutToAnswer
  <1>10. OfClone(t) = OfClone(s)
    BY <1>7 DEF OfClone, Completes
  <1>11. CallbackIsDue(t, R, callback, ok)
    <2>1. CASE callback = "kTraceClone"
      <3>1. CloneIsOwed(s)
        BY <2>1 DEF AnswerIsDue
      <3>2. TypedClone(t)
        BY <1>3, <1>6, <1>7, <3>1 DEF CloneIsOwed, TypedClone, Alive
      <3>3. ASSUME t.pending_clone # None, ok, ~t.pending_clone.flush_failed
            PROVE  t.clone_flushes = 3 - t.pending_clone.pending_flush_cnt
        <4>1. s.pending_clone.pending_flush_cnt \in 1 .. 2
          BY <1>7, <3>1, <3>3 DEF CloneIsOwed, TypedClone, Clones
        <4>2. more = 1 /\ s.clone_flushes = 2 - s.pending_clone.pending_flush_cnt
          BY <1>7, <2>1, <3>1, <3>3 DEF CloneIsOwed
        <4> QED BY <1>3, <1>7, <4>1, <4>2
      <3>4. CloneIsDue(t, ok)
        BY <1>7, <1>10, <3>1, <3>2, <3>3 DEF CloneIsOwed, CloneIsDue
      <3> QED BY <1>8, <1>9, <2>1, <3>4 DEF CallbackIsDue
    <2>2. CASE callback # "kTraceClone"
      <3>1. Clone(s)
        BY <2>2 DEF AnswerIsDue
      <3>2. t.clone_flushes = s.clone_flushes
        BY <1>3, <2>2, <3>1 DEF Clone, TypedClone
      <3>3. Clone(t)
        BY <1>7, <1>10, <3>1, <3>2 DEF Clone, TypedClone, Alive
      <3> QED BY <1>8, <1>9, <2>2, <3>3 DEF CallbackIsDue
    <2> QED BY <2>1, <2>2
  <1> HIDE DEF ok
  <1> QED BY <1>4, <1>6, <1>11, CallbackKeeps

\* What is true of more flushes of the clone is true of less.
LEMMA AtMostLess ==
  ASSUME NEW S, NEW n, AtMost(S, n), NEW T
  PROVE  /\ T \subseteq S => AtMost(T, n)
         /\ \A x : x \in S /\ T \subseteq S \ {x} => AtMost(T, n - 1)
  <1>1. ASSUME T \subseteq S PROVE AtMost(T, n)
    BY <1>1 DEF AtMost
  <1>2. ASSUME NEW x, x \in S, T \subseteq S \ {x} PROVE AtMost(T, n - 1)
    <2>1. CASE n = 0
      BY <1>2, <2>1 DEF AtMost
    <2>2. CASE n = 1
      BY <1>2, <2>2 DEF AtMost
    <2>3. CASE n = 2
      <3>1. PICK y \in Nat, z \in Nat : S \subseteq {y, z}
        BY <2>3 DEF AtMost
      <3>2. CASE x = y
        BY <1>2, <2>3, <3>1, <3>2 DEF AtMost
      <3>3. CASE x = z
        BY <1>2, <2>3, <3>1, <3>3 DEF AtMost
      <3> QED BY <1>2, <3>1, <3>2, <3>3
    <2> QED BY <2>1, <2>2, <2>3 DEF AtMost
  <1> QED BY <1>1, <1>2

\* From s to t a flush is taken out.
LEMMA FewerForClone ==
  ASSUME NEW s, Clone(s), NEW t, Alive(t) <=> Alive(s),
         t.cloner = s.cloner, t.clone_replies = s.clone_replies,
         t.pending_clone = s.pending_clone, t.clone_flushes = s.clone_flushes
  PROVE  /\ OfClone(t) \subseteq OfClone(s) => Clone(t)
         /\ \A f : f \in OfClone(s) /\ OfClone(t) \subseteq OfClone(s) \ {f} => CloneIsOwed(t)
  <1>1. TypedClone(t)
    BY DEF Clone, TypedClone
  <1>2. ASSUME OfClone(t) \subseteq OfClone(s) PROVE Clone(t)
    <2>1. t.pending_clone # None => AtMost(OfClone(t), t.pending_clone.pending_flush_cnt)
      BY <1>2, AtMostLess DEF Clone
    <2> QED BY <1>1, <1>2, <2>1 DEF Clone
  <1>3. ASSUME NEW f, f \in OfClone(s), OfClone(t) \subseteq OfClone(s) \ {f}
        PROVE  CloneIsOwed(t)
    <2>1. t.pending_clone # None => AtMost(OfClone(t), t.pending_clone.pending_flush_cnt - 1)
      BY <1>3, AtMostLess DEF Clone
    <2>2. t.cloner # "idle" /\ t.clone_replies # <<"flushed">>
      BY <1>3 DEF Clone
    <2> QED BY <1>1, <2>1, <2>2 DEF Clone, CloneIsOwed
  <1> QED BY <1>2, <1>3

\* The timeout answers a flush that is still pending.
LEMMA TimeoutKeeps ==
  ASSUME NEW s, NEW e, NEW R, ServiceInv(s, R), NEW f
  PROVE  ServiceInv(OnFlushTimeout(s, e, f), R)
  <1> SUFFICES ASSUME f \in DOMAIN s.pending_flushes
               PROVE  ServiceInv(OnFlushTimeout(s, e, f), R)
    BY DEF OnFlushTimeout
  <1> DEFINE t == [s EXCEPT !.pending_flushes = Without(@, {f})]
             callback == s.pending_flushes[f].callback
             success == s.pending_flushes[f].producers = {}
  <1>1. Settings(s) /\ Instances(s, R) /\ Flushes(s, {}) /\ Clone(s) /\ DOMAIN s = Fields
        /\ TypedFlushes(s) /\ OnceEach(s, {})
    BY DEF ServiceInv, Settings, Flushes
  <1>2. /\ t.pending_flushes = [g \in DOMAIN s.pending_flushes \ {f} |-> s.pending_flushes[g]]
        /\ Except(s, t, {"pending_flushes"})
    BY <1>1, FieldNames DEF Except, Without
  <1>3. OnFlushTimeout(s, e, f) = CompleteFlush(t, e, f, callback, success)
    BY DEF OnFlushTimeout
  <1> HIDE DEF t
  <1>4. /\ t.flushes = s.flushes /\ t.tasks = s.tasks /\ t.state = s.state
        /\ t.cloner = s.cloner /\ t.clone_replies = s.clone_replies
        /\ t.pending_clone = s.pending_clone /\ t.clone_flushes = s.clone_flushes
        /\ Alive(t) <=> Alive(s)
    BY <1>1, <1>2, FieldNames DEF Except, Alive
  <1>5. Settings(t) /\ Instances(t, R)
    BY <1>1, <1>2, SettingsAreKept, InstancesAreKept
  <1>6. /\ \A g : Queued(t, g) <=> Queued(s, g)
        /\ \A g, i : Completes(t, i, g) <=> Completes(s, i, g)
    BY <1>4 DEF Queued, Completes
  <1>7. f \in DOMAIN s.flushes /\ s.flushes[f].answers = 0 /\ ~Queued(s, f)
        /\ s.flushes[f].owed \subseteq s.pending_flushes[f].producers
    BY <1>1 DEF TypedFlushes, OnceEach
  <1>8. Flushes(t, {f})
    <2>1. DOMAIN t.pending_flushes = DOMAIN s.pending_flushes \ {f}
      BY <1>2
    <2>2. \A g \in DOMAIN t.pending_flushes : t.pending_flushes[g] = s.pending_flushes[g]
      BY <1>2
    <2>3. t.pending_flushes \in
             [DOMAIN t.pending_flushes -> [producers : SUBSET Producers, callback : Callbacks]]
      BY <1>1, <1>2 DEF TypedFlushes
    <2>4. TypedFlushes(t)
      BY <1>1, <1>4, <2>1, <2>3 DEF TypedFlushes
    <2>5. AboutToAnswer(t, {f})
      BY <1>4, <1>6, <1>7, <2>1 DEF AboutToAnswer
    <2>6. OnceEach(t, {f})
      BY <1>1, <1>4, <1>6, <2>1, <2>2 DEF OnceEach
    <2> QED BY <2>4, <2>5, <2>6 DEF Flushes
  <1>9. success => t.flushes[f].owed = {}
    BY <1>4, <1>7
  <1>10. OfClone(t) \subseteq OfClone(s) /\ (callback = "kTraceClone" =>
            f \in OfClone(s) /\ OfClone(t) \subseteq OfClone(s) \ {f})
    <2>1. OfClone(t) \subseteq OfClone(s)
      BY <1>2, <1>4, <1>6 DEF OfClone
    <2>2. f \notin OfClone(t)
      BY <1>2, <1>6, <1>7 DEF OfClone, Queued, Completes
    <2>3. callback = "kTraceClone" => f \in OfClone(s)
      BY DEF OfClone
    <2> QED BY <2>1, <2>2, <2>3
  <1>11. /\ callback = "kTraceClone" => CloneIsOwed(t)
         /\ Clone(t)
    BY <1>1, <1>4, <1>10, FewerForClone
  <1>12. success \in BOOLEAN
    OBVIOUS
  <1> HIDE DEF success, callback
  <1>13. AnswerIsDue(t, R, f, callback, success)
    BY <1>5, <1>8, <1>9, <1>11 DEF AnswerIsDue
  <1> QED BY <1>3, <1>12, <1>13, CompleteKeeps

\* A posted task answers a flush that everybody has acknowledged, or a clone.
LEMMA TaskKeeps ==
  ASSUME NEW s, NEW e, NEW R, ServiceInv(s, R), s.tasks # <<>>
  PROVE  ServiceInv(RunTask(s, e), R)
  <1> DEFINE task == Head(s.tasks)
             t == [s EXCEPT !.tasks = Tail(@)]
  <1>1. Settings(s) /\ Instances(s, R) /\ Flushes(s, {}) /\ Clone(s) /\ DOMAIN s = Fields
        /\ TypedFlushes(s) /\ OnceEach(s, {})
    BY DEF ServiceInv, Settings, Flushes
  <1>2. t.tasks = Tail(s.tasks) /\ Except(s, t, {"tasks"})
    BY <1>1, FieldNames DEF Except
  <1>3. s.tasks \in Seq(Tasks)
    BY <1>1 DEF TypedFlushes
  <1>4. /\ Len(s.tasks) \in Nat \ {0} /\ DOMAIN s.tasks = 1 .. Len(s.tasks)
        /\ Head(s.tasks) = s.tasks[1] /\ Head(s.tasks) \in Tasks
        /\ Tail(s.tasks) \in Seq(Tasks) /\ Len(Tail(s.tasks)) = Len(s.tasks) - 1
        /\ \A i \in 1 .. Len(s.tasks) - 1 : Tail(s.tasks)[i] = s.tasks[i + 1]
    BY <1>3, HeadTailProperties, LenProperties, EmptySeq
  <1>5. DOMAIN Tail(s.tasks) = 1 .. Len(s.tasks) - 1
    BY <1>4, LenProperties
  <1>6. /\ t.tasks \in Seq(Tasks) /\ DOMAIN t.tasks = 1 .. Len(s.tasks) - 1
        /\ \A i \in DOMAIN t.tasks : i + 1 \in DOMAIN s.tasks /\ t.tasks[i] = s.tasks[i + 1]
        /\ \A i \in DOMAIN s.tasks : i = 1 \/ i - 1 \in DOMAIN t.tasks
    BY <1>2, <1>4, <1>5
  <1> HIDE DEF t
  <1>7. /\ t.flushes = s.flushes /\ t.pending_flushes = s.pending_flushes /\ t.state = s.state
        /\ t.cloner = s.cloner /\ t.clone_replies = s.clone_replies
        /\ t.pending_clone = s.pending_clone /\ t.clone_flushes = s.clone_flushes
        /\ DOMAIN t = Fields
        /\ Alive(t) <=> Alive(s)
    BY <1>1, <1>2, FieldNames DEF Except, Alive
  <1>8. Settings(t) /\ Instances(t, R)
    BY <1>1, <1>2, SettingsAreKept, InstancesAreKept
  <1>9. \A i, g : Completes(t, i, g) =>
           /\ Completes(s, i + 1, g) /\ i + 1 \in DOMAIN s.tasks
           /\ s.tasks[i + 1] = t.tasks[i]
    BY <1>6 DEF Completes
  <1>10. \A g : Queued(t, g) => Queued(s, g)
    BY <1>9 DEF Queued
  <1>11. \A g : Queued(s, g) => Queued(t, g) \/ Completes(s, 1, g)
    <2> SUFFICES ASSUME NEW g, Queued(s, g), ~Completes(s, 1, g) PROVE Queued(t, g)
      OBVIOUS
    <2>1. PICK i \in DOMAIN s.tasks : Completes(s, i, g)
      BY DEF Queued
    <2>2. i - 1 \in DOMAIN t.tasks /\ i - 1 + 1 = i
      BY <1>4, <1>6, <2>1
    <2>3. Completes(t, i - 1, g)
      BY <1>6, <2>1, <2>2 DEF Completes
    <2> QED BY <2>2, <2>3 DEF Queued
  <1>12. OfClone(t) \subseteq OfClone(s)
    <2>1. ASSUME NEW g \in Nat, NEW i \in DOMAIN t.tasks, Completes(t, i, g),
                 t.tasks[i].callback = "kTraceClone"
          PROVE  g \in OfClone(s)
      BY <1>9, <2>1 DEF OfClone
    <2> QED BY <1>7, <2>1 DEF OfClone
  <1>13. TypedFlushes(t)
    BY <1>1, <1>6, <1>7 DEF TypedFlushes
  <1>14. \A g \in Nat : \A i, j \in DOMAIN t.tasks :
            Completes(t, i, g) /\ Completes(t, j, g) => i = j
    <2> SUFFICES ASSUME NEW g \in Nat, NEW i \in DOMAIN t.tasks, NEW j \in DOMAIN t.tasks,
                        Completes(t, i, g), Completes(t, j, g)
                 PROVE  i = j
      OBVIOUS
    <2>1. i + 1 = j + 1
      BY <1>1, <1>9 DEF OnceEach
    <2>2. i \in Int /\ j \in Int
      BY <1>4, <1>6
    <2> QED BY <2>1, <2>2
  <1>15. ASSUME NEW F, \A g : Completes(s, 1, g) => g \in F
         PROVE  OnceEach(t, F)
    <2>1. \A g \in DOMAIN t.pending_flushes :
             /\ t.flushes[g].answers = 0 /\ ~Queued(t, g)
             /\ t.flushes[g].owed \subseteq t.pending_flushes[g].producers
      BY <1>1, <1>7, <1>10 DEF OnceEach
    <2>2. \A g \in Nat : Queued(t, g) =>
             g \in DOMAIN t.flushes /\ t.flushes[g].answers = 0 /\ t.flushes[g].owed = {}
      BY <1>1, <1>7, <1>10 DEF OnceEach
    <2>3. \A g \in DOMAIN t.flushes :
             /\ t.flushes[g].answers \in {0, 1}
             /\ t.flushes[g].answers = 1 => t.flushes[g].owed = {}
             /\ Alive(t) /\ t.flushes[g].answers = 0 =>
                   g \in F \/ g \in DOMAIN t.pending_flushes \/ Queued(t, g)
      BY <1>1, <1>7, <1>11, <1>15 DEF OnceEach
    <2> QED BY <1>14, <2>1, <2>2, <2>3 DEF OnceEach
  <1>16. CASE task.op = "CompleteFlush"
    <2> DEFINE f == task.f
               callback == task.callback
    <2>1. f \in Nat /\ callback \in Callbacks /\ Completes(s, 1, f)
          /\ \A g : Completes(s, 1, g) => g = f
      BY <1>4, <1>16 DEF Tasks, Completes
    <2>2. RunTask(s, e) = CompleteFlush(t, e, f, callback, TRUE)
      BY <1>16 DEF RunTask, t
    <2> HIDE DEF f, callback
    <2>3. Queued(s, f)
      BY <2>1 DEF Queued, Completes
    <2>4. /\ f \in DOMAIN s.flushes /\ s.flushes[f].answers = 0 /\ s.flushes[f].owed = {}
          /\ f \notin DOMAIN s.pending_flushes
      BY <1>1, <2>1, <2>3 DEF OnceEach
    <2>5. ~Queued(t, f)
      <3> SUFFICES ASSUME NEW i \in DOMAIN t.tasks, Completes(t, i, f) PROVE FALSE
        BY DEF Queued
      <3>1. i + 1 = 1
        BY <1>1, <1>4, <1>9, <2>1 DEF OnceEach
      <3> QED BY <1>4, <1>6, <3>1
    <2>6. Flushes(t, {f})
      BY <1>7, <1>13, <1>15, <2>1, <2>4, <2>5 DEF Flushes, AboutToAnswer
    <2>7. Clone(t)
      BY <1>1, <1>7, <1>12, FewerForClone
    <2>8. CASE callback = "kTraceClone"
      <3>1. f \in OfClone(s)
        BY <1>4, <2>1, <2>8 DEF OfClone, callback
      <3>2. f \notin OfClone(t)
        BY <1>7, <2>4, <2>5 DEF OfClone, Queued
      <3>3. OfClone(t) \subseteq OfClone(s) \ {f}
        BY <1>12, <3>2
      <3>4. CloneIsOwed(t)
        BY <1>1, <1>7, <3>1, <3>3, FewerForClone
      <3>5. AnswerIsDue(t, R, f, callback, TRUE)
        BY <1>7, <1>8, <2>4, <2>6, <2>8, <3>4 DEF AnswerIsDue
      <3> QED BY <2>2, <3>5, CompleteKeeps
    <2>9. CASE callback # "kTraceClone"
      <3>1. AnswerIsDue(t, R, f, callback, TRUE)
        BY <1>7, <1>8, <2>4, <2>6, <2>7, <2>9 DEF AnswerIsDue
      <3> QED BY <2>2, <3>1, CompleteKeeps
    <2> QED BY <2>8, <2>9
  <1>17. CASE task.op = "OnSessionCloned"
    <2> DEFINE u == OnSessionCloned(t, "failed")
    <2>1. RunTask(s, e) = u
      BY <1>17 DEF RunTask, t
    <2>2. /\ Except(t, u, {"cloner", "clone_replies"})
          /\ t.cloner # "waiting" => u.cloner = t.cloner /\ u.clone_replies = t.clone_replies
          /\ t.cloner = "waiting" =>
                u.cloner = "answered" /\ u.clone_replies = Append(t.clone_replies, "failed")
      BY <1>7, ReplyEffect
    <2> HIDE DEF u
    <2>3. \A g : ~Completes(s, 1, g)
      BY <1>4, <1>17 DEF Completes
    <2>4. Flushes(t, {})
      BY <1>13, <1>15, <2>3 DEF Flushes, AboutToAnswer
    <2>5. /\ u.state = t.state /\ u.tasks = t.tasks /\ u.pending_flushes = t.pending_flushes
          /\ u.pending_clone = t.pending_clone /\ u.clone_flushes = t.clone_flushes
          /\ Alive(u) <=> Alive(t)
      BY <2>2, FieldNames DEF Except, Alive
    <2>6. Settings(u) /\ Instances(u, R)
      BY <1>8, <2>2, SettingsAreKept, InstancesAreKept
    <2>7. Flushes(u, {})
      BY <2>2, <2>4, <2>5, FlushesAreKept
    <2>8. Clone(t) /\ OfClone(u) = OfClone(t)
      BY <1>1, <1>7, <1>12, <2>5, FewerForClone DEF OfClone, Completes
    <2>9. Clone(u)
      <3>1. CASE t.cloner # "waiting"
        BY <2>2, <2>5, <2>8, <3>1 DEF Clone, TypedClone
      <3>2. CASE t.cloner = "waiting"
        <4>1. ~Alive(s)
          BY <1>1, <1>4, <1>17 DEF TypedFlushes
        <4>2. u.pending_clone = None
          BY <1>7, <2>5, <2>8, <4>1 DEF Clone, TypedClone
        <4>3. CloneAnswers(t, u, "failed")
          BY <2>2, <2>5, <2>8, <3>2, <4>2 DEF Clone, TypedClone, CloneAnswers
        <4> QED BY <4>3, CloneEnds
      <3> QED BY <3>1, <3>2
    <2> QED BY <2>1, <2>6, <2>7, <2>9 DEF ServiceInv
  <1> QED BY <1>4, <1>16, <1>17 DEF Tasks

-----------------------------------------------------------------------------
(***************************************************************************)
(* Requesting flushes.                                                     *)
(***************************************************************************)
\* What is known when a flush is requested: the clone waits for it already.
RequestIsDue(s, R, callback) ==
    /\ Settings(s) /\ Instances(s, R) /\ Flushes(s, {})
    /\ callback = "kTraceClone" => CloneIsOwed(s)
    /\ callback # "kTraceClone" => Clone(s)

\* A request is pending afterwards, or it is answered at once.
LEMMA RequestKeeps ==
  ASSUME NEW s, NEW e, NEW R, NEW callback \in Callbacks, RequestIsDue(s, R, callback),
         NEW asked \in SUBSET Producers
  PROVE  ServiceInv(FlushDataSourceInstances(s, e, asked, callback), R)
  <1> DEFINE f == Len(s.flushes) + 1
             owed == asked \ e.frozen
             rejected == \/ Cardinality(DOMAIN s.pending_flushes) > kMaxPendingFlushes
                         \/ s.state # "STARTED"
             t == [s EXCEPT
                     !.pending_flushes = [g \in DOMAIN @ \cup {f} |->
                         IF g = f THEN [producers |-> owed, callback |-> callback] ELSE @[g]],
                     !.flushes = Append(@, [answers |-> 0, owed |-> owed])]
  <1>1. /\ DOMAIN s = Fields /\ Settings(s) /\ Instances(s, R) /\ Flushes(s, {})
        /\ TypedFlushes(s) /\ OnceEach(s, {})
        /\ callback = "kTraceClone" => CloneIsOwed(s)
        /\ callback # "kTraceClone" => Clone(s)
    BY DEF RequestIsDue, Settings, Flushes
  <1>2. CASE rejected
    <2>1. FlushDataSourceInstances(s, e, asked, callback) = RunCallback(s, e, callback, FALSE)
      BY <1>2 DEF FlushDataSourceInstances
    <2>2. CallbackIsDue(s, R, callback, FALSE)
      BY <1>1 DEF CallbackIsDue, CloneIsOwed, CloneIsDue
    <2> QED BY <2>1, <2>2, CallbackKeeps
  <1>3. CASE ~rejected
    <2>1. FlushDataSourceInstances(s, e, asked, callback) = t /\ Alive(s)
      BY <1>3 DEF FlushDataSourceInstances, Alive
    <2>2. /\ t.pending_flushes = [g \in DOMAIN s.pending_flushes \cup {f} |->
                IF g = f THEN [producers |-> owed, callback |-> callback]
                ELSE s.pending_flushes[g]]
          /\ t.flushes = Append(s.flushes, [answers |-> 0, owed |-> owed])
          /\ Except(s, t, {"pending_flushes", "flushes"})
      BY <1>1, FieldNames DEF Except
    <2> HIDE DEF t
    <2>3. /\ t.tasks = s.tasks /\ t.state = s.state
          /\ t.cloner = s.cloner /\ t.clone_replies = s.clone_replies
          /\ t.pending_clone = s.pending_clone /\ t.clone_flushes = s.clone_flushes
          /\ Alive(t)
      BY <1>1, <2>1, <2>2, FieldNames DEF Except, Alive
    <2>4. Settings(t) /\ Instances(t, R)
      BY <1>1, <2>2, SettingsAreKept, InstancesAreKept
    <2>5. /\ s.flushes \in Seq([answers : Nat, owed : SUBSET Producers])
          /\ Len(s.flushes) \in Nat /\ DOMAIN s.flushes = 1 .. Len(s.flushes)
          /\ owed \in SUBSET Producers
      BY <1>1, LenProperties DEF TypedFlushes
    <2> HIDE DEF owed
    <2>6. /\ f \in Nat /\ f \notin DOMAIN s.flushes /\ f \notin DOMAIN s.pending_flushes
          /\ ~Queued(s, f)
      <3>1. f \in Nat /\ f \notin DOMAIN s.flushes
        BY <2>5
      <3> QED BY <1>1, <3>1 DEF TypedFlushes, OnceEach
    <2>7. /\ t.flushes \in Seq([answers : Nat, owed : SUBSET Producers])
          /\ DOMAIN t.flushes = DOMAIN s.flushes \cup {f}
          /\ t.flushes[f] = [answers |-> 0, owed |-> owed]
          /\ \A g \in DOMAIN s.flushes : t.flushes[g] = s.flushes[g]
      <3>1. [answers |-> 0, owed |-> owed] \in [answers : Nat, owed : SUBSET Producers]
        BY <2>5
      <3> DEFINE new == [answers |-> 0, owed |-> owed]
      <3> HIDE DEF new
      <3>2. new \in [answers : Nat, owed : SUBSET Producers] /\ t.flushes = Append(s.flushes, new)
        BY <2>2, <3>1 DEF new
      <3>3. /\ t.flushes \in Seq([answers : Nat, owed : SUBSET Producers])
            /\ Len(t.flushes) = Len(s.flushes) + 1
            /\ t.flushes[Len(s.flushes) + 1] = new
            /\ \A g \in 1 .. Len(s.flushes) : t.flushes[g] = s.flushes[g]
        BY <2>5, <3>2, AppendProperties
      <3>4. DOMAIN t.flushes = 1 .. Len(s.flushes) + 1
        BY <3>3, LenProperties
      <3> QED BY <2>5, <3>3, <3>4 DEF new
    <2>8. /\ DOMAIN t.pending_flushes = DOMAIN s.pending_flushes \cup {f}
          /\ t.pending_flushes[f] = [producers |-> owed, callback |-> callback]
          /\ \A g \in DOMAIN s.pending_flushes : t.pending_flushes[g] = s.pending_flushes[g]
      BY <2>2, <2>6
    <2>9. t.pending_flushes \in
             [DOMAIN t.pending_flushes -> [producers : SUBSET Producers, callback : Callbacks]]
      BY <1>1, <2>2, <2>5 DEF TypedFlushes
    <2> HIDE DEF f
    <2>10. TypedFlushes(t)
      BY <1>1, <2>1, <2>3, <2>7, <2>8, <2>9 DEF TypedFlushes
    <2>11. /\ \A g, i : Completes(t, i, g) <=> Completes(s, i, g)
           /\ \A g : Queued(t, g) <=> Queued(s, g)
      BY <2>3 DEF Completes, Queued
    <2>12. OnceEach(t, {})
      <3>1. \A g \in DOMAIN t.pending_flushes :
               /\ t.flushes[g].answers = 0 /\ ~Queued(t, g)
               /\ t.flushes[g].owed \subseteq t.pending_flushes[g].producers
        <4> SUFFICES ASSUME NEW g \in DOMAIN t.pending_flushes
                     PROVE  /\ t.flushes[g].answers = 0 /\ ~Queued(t, g)
                            /\ t.flushes[g].owed \subseteq t.pending_flushes[g].producers
          OBVIOUS
        <4>1. CASE g = f
          BY <2>6, <2>7, <2>8, <2>11, <4>1
        <4>2. CASE g # f
          <5>1. g \in DOMAIN s.pending_flushes /\ g \in DOMAIN s.flushes
            BY <1>1, <2>8, <4>2 DEF TypedFlushes
          <5> QED BY <1>1, <2>7, <2>8, <2>11, <5>1 DEF OnceEach
        <4> QED BY <4>1, <4>2
      <3>2. \A g \in Nat : Queued(t, g) =>
               g \in DOMAIN t.flushes /\ t.flushes[g].answers = 0 /\ t.flushes[g].owed = {}
        BY <1>1, <2>7, <2>11 DEF OnceEach
      <3>3. \A g \in Nat : \A i, j \in DOMAIN t.tasks :
               Completes(t, i, g) /\ Completes(t, j, g) => i = j
        BY <1>1, <2>3, <2>11 DEF OnceEach
      <3>4. \A g \in DOMAIN t.flushes :
               /\ t.flushes[g].answers \in {0, 1}
               /\ t.flushes[g].answers = 1 => t.flushes[g].owed = {}
               /\ Alive(t) /\ t.flushes[g].answers = 0 =>
                     g \in DOMAIN t.pending_flushes \/ Queued(t, g)
        <4> SUFFICES ASSUME NEW g \in DOMAIN t.flushes
                     PROVE  /\ t.flushes[g].answers \in {0, 1}
                            /\ t.flushes[g].answers = 1 => t.flushes[g].owed = {}
                            /\ t.flushes[g].answers = 0 =>
                                  g \in DOMAIN t.pending_flushes \/ Queued(t, g)
          OBVIOUS
        <4>1. CASE g = f
          BY <2>7, <2>8, <4>1
        <4>2. CASE g # f
          BY <1>1, <2>1, <2>7, <2>8, <2>11, <4>2 DEF OnceEach
        <4> QED BY <4>1, <4>2
      <3> QED BY <3>1, <3>2, <3>3, <3>4 DEF OnceEach
    <2>13. Flushes(t, {})
      BY <2>10, <2>12 DEF Flushes, AboutToAnswer
    <2>14. Clone(t)
      <3>1. CASE callback = "kTraceClone"
        <4>1. CloneIsOwed(s)
          BY <1>1, <3>1
        <4>2. OfClone(t) \subseteq OfClone(s) \cup {f}
          BY <2>3, <2>8, <2>11 DEF OfClone
        <4>3. s.pending_clone # None => s.pending_clone.pending_flush_cnt \in 1 .. 2
          BY <4>1 DEF CloneIsOwed, TypedClone, Clones
        <4>4. s.pending_clone # None => AtMost(OfClone(t), s.pending_clone.pending_flush_cnt)
          <5> SUFFICES ASSUME s.pending_clone # None
                       PROVE  AtMost(OfClone(t), s.pending_clone.pending_flush_cnt)
            OBVIOUS
          <5>1. AtMost(OfClone(s), s.pending_clone.pending_flush_cnt - 1)
            BY <4>1 DEF CloneIsOwed
          <5>2. CASE s.pending_clone.pending_flush_cnt = 1
            BY <2>6, <4>2, <5>1, <5>2 DEF AtMost
          <5>3. CASE s.pending_clone.pending_flush_cnt = 2
            <6>1. PICK x \in Nat : OfClone(s) \subseteq {x}
              BY <5>1, <5>3 DEF AtMost
            <6>2. OfClone(t) \subseteq {x, f}
              BY <4>2, <6>1
            <6> QED BY <2>6, <5>3, <6>2 DEF AtMost
          <5> QED BY <4>3, <5>2, <5>3
        <4> QED BY <2>1, <2>3, <4>1, <4>4 DEF Clone, CloneIsOwed, TypedClone
      <3>2. CASE callback # "kTraceClone"
        <4>1. OfClone(t) = OfClone(s)
          BY <2>3, <2>6, <2>8, <2>11, <3>2 DEF OfClone
        <4> QED BY <1>1, <2>1, <2>3, <3>2, <4>1 DEF Clone, TypedClone
      <3> QED BY <3>1, <3>2
    <2> QED BY <2>1, <2>4, <2>13, <2>14 DEF ServiceInv
  <1> QED BY <1>2, <1>3

\* A flush of all the data sources that want one.
LEMMA FlushKeeps ==
  ASSUME NEW s, NEW e, NEW R, ServiceInv(s, R), R \subseteq Producers,
         NEW callback \in Callbacks \ {"kTraceClone"}
  PROVE  ServiceInv(Flush(s, e, callback), R)
  <1> DEFINE asked == {p \in DOMAIN s.instances : p \notin NoFlush \/ p \in SelfScraped}
  <1>1. DOMAIN s.instances \subseteq R
    BY DEF ServiceInv, Instances, SoundInstances, TypedInstances
  <1>2. asked \in SUBSET Producers
    BY <1>1
  <1>3. Flush(s, e, callback) = IF ~Alive(s) THEN s
                                ELSE FlushDataSourceInstances(s, e, asked, callback)
    BY DEF Flush
  <1> HIDE DEF asked
  <1>4. RequestIsDue(s, R, callback)
    BY DEF ServiceInv, RequestIsDue
  <1>5. ServiceInv(FlushDataSourceInstances(s, e, asked, callback), R)
    BY <1>2, <1>4, RequestKeeps
  <1> QED BY <1>3, <1>5

-----------------------------------------------------------------------------
(***************************************************************************)
(* Acknowledging flushes.                                                  *)
(***************************************************************************)
\* Each of the pending flushes in done gets one task, with its callback.
LEMMA CompletionsEffect ==
  ASSUME NEW s, TypedFlushes(s), NEW done, done \subseteq DOMAIN s.pending_flushes
  PROVE  LET c == CompletionsOf(s, done)
         IN  /\ c \in Seq(Tasks)
             /\ \A i \in DOMAIN c : /\ c[i].op = "CompleteFlush" /\ c[i].f \in done
                                    /\ c[i].callback = s.pending_flushes[c[i].f].callback
             /\ \A i, j \in DOMAIN c : c[i].f = c[j].f => i = j
             /\ \A f \in done : \E i \in DOMAIN c : c[i].f = f
  <1> DEFINE n == Cardinality(done)
             c == CompletionsOf(s, done)
  <1>1. done \subseteq Nat /\ IsFiniteSet(done)
    <2>1. Len(s.flushes) \in Nat /\ DOMAIN s.flushes = 1 .. Len(s.flushes)
      BY LenProperties DEF TypedFlushes
    <2>2. IsFiniteSet(1 .. Len(s.flushes))
      BY <2>1, FS_Interval
    <2>3. done \in SUBSET (1 .. Len(s.flushes))
      BY <2>1 DEF TypedFlushes
    <2> QED BY <2>1, <2>2, <2>3, FS_Subset
  <1>2. /\ n \in Nat
        /\ \A i \in 1 .. n : Nth(done, i) \in done
        /\ \A i, j \in 1 .. n : Nth(done, i) = Nth(done, j) => i = j
        /\ \A x \in done : \E i \in 1 .. n : Nth(done, i) = x
    BY <1>1, NthIsSound
  <1>3. /\ DOMAIN c = 1 .. n
        /\ \A i \in 1 .. n : c[i] = [op |-> "CompleteFlush", f |-> Nth(done, i),
                                     callback |-> s.pending_flushes[Nth(done, i)].callback]
        /\ c = [i \in 1 .. n |-> c[i]]
    BY DEF CompletionsOf
  <1> HIDE DEF c, n
  <1>4. ASSUME NEW i \in 1 .. n
        PROVE  c[i] \in Tasks /\ c[i].op = "CompleteFlush" /\ c[i].f = Nth(done, i)
               /\ c[i].callback = s.pending_flushes[c[i].f].callback
    <2>1. /\ Nth(done, i) \in Nat
          /\ s.pending_flushes[Nth(done, i)] \in [producers : SUBSET Producers, callback : Callbacks]
      BY <1>1, <1>2 DEF TypedFlushes
    <2> QED BY <1>3, <2>1 DEF Tasks
  <1>5. c \in [1 .. n -> Tasks]
    BY <1>3, <1>4
  <1>6. c \in Seq(Tasks)
    BY <1>2, <1>5, SeqDef
  <1> QED BY <1>2, <1>3, <1>4, <1>6 DEF c

\* Flushes that p was the last to owe are queued instead of pending.
LEMMA AcknowledgeKeeps ==
  ASSUME NEW s, NEW R, ServiceInv(s, R), NEW p, NEW f \in Nat
  PROVE  ServiceInv(NotifyFlushDoneForProducer(s, p, f), R)
  <1> DEFINE done == FlushedBy(s, p, f)
             c == CompletionsOf(s, done)
             L == Len(s.tasks)
             t == NotifyFlushDoneForProducer(s, p, f)
             flushed == [g \in DOMAIN s.pending_flushes |->
                            IF g > f THEN s.pending_flushes[g]
                            ELSE [s.pending_flushes[g] EXCEPT !.producers = @ \ {p}]]
  <1>1. Settings(s) /\ Instances(s, R) /\ Flushes(s, {}) /\ Clone(s) /\ DOMAIN s = Fields
        /\ TypedFlushes(s) /\ OnceEach(s, {})
    BY DEF ServiceInv, Settings, Flushes
  <1>2. /\ t.pending_flushes = Without(flushed, done)
        /\ t.tasks = s.tasks \o c
        /\ t.flushes = [g \in DOMAIN s.flushes |->
                           IF g > f THEN s.flushes[g] ELSE Acknowledged(s.flushes[g], p)]
        /\ Except(s, t, {"pending_flushes", "tasks", "flushes"})
    BY <1>1, FieldNames DEF NotifyFlushDoneForProducer, Except
  <1>3. /\ done \subseteq DOMAIN s.pending_flushes
        /\ \A g \in done : g <= f /\ s.pending_flushes[g].producers \subseteq {p}
    BY DEF FlushedBy
  <1>4. /\ c \in Seq(Tasks)
        /\ \A i \in DOMAIN c : /\ c[i].op = "CompleteFlush" /\ c[i].f \in done
                               /\ c[i].callback = s.pending_flushes[c[i].f].callback
        /\ \A i, j \in DOMAIN c : c[i].f = c[j].f => i = j
        /\ \A g \in done : \E i \in DOMAIN c : c[i].f = g
    BY <1>1, <1>3, CompletionsEffect
  <1> HIDE DEF c, t, done
  <1>5. /\ t.state = s.state /\ (Alive(t) <=> Alive(s))
        /\ t.cloner = s.cloner /\ t.clone_replies = s.clone_replies
        /\ t.pending_clone = s.pending_clone /\ t.clone_flushes = s.clone_flushes
    BY <1>1, <1>2, FieldNames DEF Except, Alive
  <1>6. Settings(t) /\ Instances(t, R)
    BY <1>1, <1>2, SettingsAreKept, InstancesAreKept
  <1>7. /\ DOMAIN s.flushes \subseteq Nat
        /\ \A g \in DOMAIN s.flushes : s.flushes[g] \in [answers : Nat, owed : SUBSET Producers]
        /\ DOMAIN s.flushes = 1 .. Len(s.flushes) /\ Len(s.flushes) \in Nat
    <2>1. s.flushes \in Seq([answers : Nat, owed : SUBSET Producers])
      BY <1>1 DEF TypedFlushes
    <2>2. /\ Len(s.flushes) \in Nat /\ DOMAIN s.flushes = 1 .. Len(s.flushes)
          /\ s.flushes \in [1 .. Len(s.flushes) -> [answers : Nat, owed : SUBSET Producers]]
      BY <2>1, LenProperties
    <2> QED BY <2>2
  <1>8. ASSUME NEW g \in DOMAIN s.pending_flushes
        PROVE  /\ s.pending_flushes[g] \in [producers : SUBSET Producers, callback : Callbacks]
               /\ g \in DOMAIN s.flushes /\ g \in Nat
               /\ flushed[g] \in [producers : SUBSET Producers, callback : Callbacks]
               /\ flushed[g].callback = s.pending_flushes[g].callback
               /\ flushed[g].producers = IF g > f THEN s.pending_flushes[g].producers
                                         ELSE s.pending_flushes[g].producers \ {p}
    <2>1. /\ s.pending_flushes[g] \in [producers : SUBSET Producers, callback : Callbacks]
          /\ g \in DOMAIN s.flushes
      BY <1>1 DEF TypedFlushes
    <2> QED BY <1>7, <2>1
  <1>9. ASSUME NEW g \in DOMAIN s.flushes
        PROVE  /\ t.flushes[g] \in [answers : Nat, owed : SUBSET Producers]
               /\ t.flushes[g].answers = s.flushes[g].answers
               /\ t.flushes[g].owed = IF g > f THEN s.flushes[g].owed ELSE s.flushes[g].owed \ {p}
    <2>1. s.flushes[g] \in [answers : Nat, owed : SUBSET Producers]
      BY <1>7
    <2>2. t.flushes[g] = IF g > f THEN s.flushes[g]
                         ELSE [s.flushes[g] EXCEPT !.owed = s.flushes[g].owed \ {p}]
      BY <1>2 DEF Acknowledged
    <2>3. CASE g > f
      BY <2>1, <2>2, <2>3
    <2>4. CASE ~(g > f)
      BY <2>1, <2>2, <2>4
    <2> QED BY <2>3, <2>4
  <1>10. DOMAIN t.flushes = DOMAIN s.flushes
         /\ t.flushes \in Seq([answers : Nat, owed : SUBSET Producers])
    <2>1. DOMAIN t.flushes = DOMAIN s.flushes
      BY <1>2
    <2>2. t.flushes = [g \in DOMAIN s.flushes |-> t.flushes[g]]
      BY <1>2
    <2>3. t.flushes \in [DOMAIN s.flushes -> [answers : Nat, owed : SUBSET Producers]]
      BY <1>9, <2>2, Zenon
    <2>4. t.flushes \in [1 .. Len(s.flushes) -> [answers : Nat, owed : SUBSET Producers]]
      BY <1>7, <2>3
    <2>5. \A S : \A n \in Nat : [1 .. n -> S] \subseteq Seq(S)
      BY SeqDef
    <2> QED BY <1>7, <2>1, <2>4, <2>5, Zenon
  <1>11. /\ DOMAIN t.pending_flushes = DOMAIN s.pending_flushes \ done
         /\ \A g \in DOMAIN s.pending_flushes \ done : t.pending_flushes[g] = flushed[g]
         /\ t.pending_flushes \in
               [DOMAIN t.pending_flushes -> [producers : SUBSET Producers, callback : Callbacks]]
    <2>1. t.pending_flushes = [g \in DOMAIN flushed \ done |-> flushed[g]]
      BY <1>2 DEF Without
    <2>2. DOMAIN flushed = DOMAIN s.pending_flushes
      OBVIOUS
    <2> HIDE DEF flushed
    <2> QED BY <1>8, <2>1, <2>2
  <1> HIDE DEF flushed
  <1>12. /\ L \in Nat /\ DOMAIN s.tasks = 1 .. L
         /\ Len(c) \in Nat /\ DOMAIN c = 1 .. Len(c)
         /\ t.tasks \in Seq(Tasks) /\ DOMAIN t.tasks = 1 .. L + Len(c)
         /\ \A i \in 1 .. L + Len(c) : t.tasks[i] = IF i <= L THEN s.tasks[i] ELSE c[i - L]
    <2>1. s.tasks \in Seq(Tasks)
      BY <1>1 DEF TypedFlushes
    <2>2. /\ s.tasks \o c \in Seq(Tasks) /\ Len(s.tasks \o c) = L + Len(c)
          /\ \A i \in 1 .. L + Len(c) : (s.tasks \o c)[i] = IF i <= L THEN s.tasks[i] ELSE c[i - L]
      BY <1>4, <2>1, ConcatProperties
    <2> QED BY <1>2, <1>4, <2>1, <2>2, LenProperties
  <1>13. /\ \A i \in DOMAIN s.tasks : i \in DOMAIN t.tasks /\ t.tasks[i] = s.tasks[i]
         /\ \A i \in DOMAIN c : i + L \in DOMAIN t.tasks /\ t.tasks[i + L] = c[i]
         /\ \A i \in DOMAIN t.tasks : \/ i \in DOMAIN s.tasks
                                      \/ i \notin DOMAIN s.tasks /\ i - L \in DOMAIN c
                                         /\ t.tasks[i] = c[i - L]
    <2>1. \A i \in DOMAIN s.tasks : i \in DOMAIN t.tasks /\ t.tasks[i] = s.tasks[i]
      BY <1>12
    <2>2. ASSUME NEW i \in DOMAIN c PROVE i + L \in DOMAIN t.tasks /\ t.tasks[i + L] = c[i]
      <3>1. i \in 1 .. Len(c)
        BY <1>12
      <3>2. i + L \in 1 .. L + Len(c) /\ ~(i + L <= L) /\ (i + L) - L = i
        BY <1>12, <3>1
      <3> QED BY <1>12, <3>2
    <2>3. ASSUME NEW i \in DOMAIN t.tasks, i \notin DOMAIN s.tasks
          PROVE  i - L \in DOMAIN c /\ t.tasks[i] = c[i - L]
      <3>1. i \in 1 .. L + Len(c) /\ i \notin 1 .. L
        BY <1>12, <2>3
      <3>2. ~(i <= L) /\ i - L \in 1 .. Len(c)
        BY <1>12, <3>1
      <3> QED BY <1>12, <3>1, <3>2
    <2> QED BY <2>1, <2>2, <2>3
  <1>14. \A g : Queued(t, g) <=> Queued(s, g) \/ g \in done
    <2>1. ASSUME NEW g, Queued(t, g) PROVE Queued(s, g) \/ g \in done
      <3>1. PICK i \in DOMAIN t.tasks : t.tasks[i].op = "CompleteFlush" /\ t.tasks[i].f = g
        BY <2>1 DEF Queued, Completes
      <3> QED BY <1>4, <1>13, <3>1 DEF Queued, Completes
    <2>2. ASSUME NEW g, Queued(s, g) PROVE Queued(t, g)
      BY <1>13, <2>2 DEF Queued, Completes
    <2>3. ASSUME NEW g, g \in done PROVE Queued(t, g)
      <3>1. PICK i \in DOMAIN c : c[i].f = g /\ c[i].op = "CompleteFlush"
        BY <1>4, <2>3
      <3>2. Completes(t, i + L, g)
        BY <1>13, <3>1 DEF Completes
      <3>3. i + L \in DOMAIN t.tasks
        BY <1>13
      <3> QED BY <3>2, <3>3 DEF Queued
    <2> QED BY <2>1, <2>2, <2>3
  <1>15. TypedFlushes(t)
    <2>1. \A i \in DOMAIN t.tasks : t.tasks[i].op = "OnSessionCloned" => ~Alive(t)
      BY <1>1, <1>4, <1>5, <1>13 DEF TypedFlushes
    <2> QED BY <1>8, <1>10, <1>11, <1>12, <2>1 DEF TypedFlushes
  <1>16. ASSUME NEW g \in done
         PROVE  /\ g \in DOMAIN s.flushes /\ g \in Nat /\ s.flushes[g].answers = 0 /\ ~Queued(s, g)
                /\ t.flushes[g].owed = {}
    <2>1. /\ g \in DOMAIN s.flushes /\ g \in Nat /\ s.flushes[g].answers = 0 /\ ~Queued(s, g)
          /\ s.flushes[g].owed \subseteq {p} /\ g <= f
      <3>1. g \in DOMAIN s.pending_flushes /\ g <= f /\ s.pending_flushes[g].producers \subseteq {p}
        BY <1>3
      <3>2. /\ s.flushes[g].answers = 0 /\ ~Queued(s, g)
            /\ s.flushes[g].owed \subseteq s.pending_flushes[g].producers
        BY <1>1, <3>1 DEF OnceEach
      <3> QED BY <1>8, <3>1, <3>2
    <2>2. ~(g > f)
      BY <2>1
    <2> QED BY <1>9, <2>1, <2>2
  <1>17. OnceEach(t, {})
    <2>1. ASSUME NEW g \in DOMAIN t.pending_flushes
          PROVE  /\ t.flushes[g].answers = 0 /\ ~Queued(t, g)
                 /\ t.flushes[g].owed \subseteq t.pending_flushes[g].producers
      <3>1. g \in DOMAIN s.pending_flushes /\ g \notin done /\ g \in DOMAIN s.flushes
        BY <1>8, <1>11
      <3>2. s.flushes[g].answers = 0 /\ ~Queued(s, g)
            /\ s.flushes[g].owed \subseteq s.pending_flushes[g].producers
        BY <1>1, <3>1 DEF OnceEach
      <3> QED BY <1>8, <1>9, <1>11, <1>14, <3>1, <3>2
    <2>2. ASSUME NEW g \in Nat, Queued(t, g)
          PROVE  g \in DOMAIN t.flushes /\ t.flushes[g].answers = 0 /\ t.flushes[g].owed = {}
      <3>1. CASE g \in done
        BY <1>9, <1>10, <1>16, <3>1
      <3>2. CASE Queued(s, g)
        <4>1. g \in DOMAIN s.flushes /\ s.flushes[g].answers = 0 /\ s.flushes[g].owed = {}
          BY <1>1, <3>2 DEF OnceEach
        <4> QED BY <1>9, <1>10, <4>1
      <3> QED BY <1>14, <2>2, <3>1, <3>2
    <2>3. ASSUME NEW g \in Nat, NEW i \in DOMAIN t.tasks, NEW j \in DOMAIN t.tasks,
                 Completes(t, i, g), Completes(t, j, g)
          PROVE  i = j
      <3>1. CASE i \in DOMAIN s.tasks
        <4>1. Completes(s, i, g) /\ Queued(s, g)
          BY <1>13, <2>3, <3>1 DEF Completes, Queued
        <4>2. g \notin done
          BY <1>16, <4>1
        <4>3. j \in DOMAIN s.tasks
          BY <1>4, <1>13, <2>3, <4>2 DEF Completes
        <4>4. Completes(s, j, g)
          BY <1>13, <2>3, <4>3 DEF Completes
        <4> QED BY <1>1, <3>1, <4>1, <4>3, <4>4 DEF OnceEach
      <3>2. CASE i \notin DOMAIN s.tasks
        <4>1. i - L \in DOMAIN c /\ c[i - L].f = g
          BY <1>13, <2>3, <3>2 DEF Completes
        <4>2. g \in done
          BY <1>4, <4>1
        <4>3. ~Queued(s, g)
          BY <1>16, <4>2
        <4>4. j \notin DOMAIN s.tasks
          BY <1>13, <2>3, <4>3 DEF Completes, Queued
        <4>5. j - L \in DOMAIN c /\ c[j - L].f = g
          BY <1>13, <2>3, <4>4 DEF Completes
        <4>6. i - L = j - L
          BY <1>4, <4>1, <4>5
        <4> QED BY <1>12, <4>6
      <3> QED BY <3>1, <3>2
    <2>4. ASSUME NEW g \in DOMAIN t.flushes
          PROVE  /\ t.flushes[g].answers \in {0, 1}
                 /\ t.flushes[g].answers = 1 => t.flushes[g].owed = {}
                 /\ Alive(t) /\ t.flushes[g].answers = 0 =>
                       g \in DOMAIN t.pending_flushes \/ Queued(t, g)
      <3>1. g \in DOMAIN s.flushes
        BY <1>10
      <3>2. /\ s.flushes[g].answers \in {0, 1}
            /\ s.flushes[g].answers = 1 => s.flushes[g].owed = {}
            /\ Alive(s) /\ s.flushes[g].answers = 0 =>
                  g \in DOMAIN s.pending_flushes \/ Queued(s, g)
        BY <1>1, <3>1 DEF OnceEach
      <3> QED BY <1>5, <1>9, <1>11, <1>14, <3>1, <3>2
    <2> QED BY <2>1, <2>2, <2>3, <2>4 DEF OnceEach
  <1>18. OfClone(t) \subseteq OfClone(s)
    <2> SUFFICES ASSUME NEW g \in OfClone(t) PROVE g \in OfClone(s)
      OBVIOUS
    <2>1. CASE g \in DOMAIN t.pending_flushes /\ t.pending_flushes[g].callback = "kTraceClone"
      BY <1>8, <1>11, <2>1 DEF OfClone
    <2>2. CASE g \in Nat /\ \E i \in DOMAIN t.tasks :
                 Completes(t, i, g) /\ t.tasks[i].callback = "kTraceClone"
      <3>1. PICK i \in DOMAIN t.tasks : Completes(t, i, g) /\ t.tasks[i].callback = "kTraceClone"
        BY <2>2
      <3>2. CASE i \in DOMAIN s.tasks
        BY <1>13, <2>2, <3>1, <3>2 DEF OfClone, Completes
      <3>3. CASE i \notin DOMAIN s.tasks
        <4>1. c[i - L].f = g /\ c[i - L].callback = "kTraceClone" /\ i - L \in DOMAIN c
          BY <1>13, <3>1, <3>3 DEF Completes
        <4>2. g \in DOMAIN s.pending_flushes /\ s.pending_flushes[g].callback = "kTraceClone"
          BY <1>3, <1>4, <4>1
        <4> QED BY <4>2 DEF OfClone
      <3> QED BY <3>2, <3>3
    <2> QED BY <2>1, <2>2 DEF OfClone
  <1>19. Clone(t)
    BY <1>1, <1>5, <1>18, FewerForClone
  <1>20. Flushes(t, {})
    BY <1>15, <1>17 DEF Flushes, AboutToAnswer
  <1> QED BY <1>6, <1>19, <1>20 DEF ServiceInv, t

-----------------------------------------------------------------------------
(***************************************************************************)
(* Starting the session, and what runs later.                              *)
(***************************************************************************)
\* A step that leaves flushes and the clone alone.
LEMMA RestIsKept ==
  ASSUME NEW s, NEW t, NEW X, NEW R, NEW newR, ServiceInv(s, R), Except(s, t, X),
         Alive(t) <=> Alive(s),
         X \cap {"flushes", "pending_flushes", "tasks",
                 "clone_flushes", "cloner", "clone_replies", "pending_clone"} = {},
         Settings(t), Instances(t, newR)
  PROVE  ServiceInv(t, newR)
  <1>1. Flushes(t, {})
    BY FlushesAreKept DEF ServiceInv
  <1>2. Clone(t)
    BY CloneIsKept DEF ServiceInv
  <1> QED BY <1>1, <1>2 DEF ServiceInv

LEMMA StartAllEffect ==
  ASSUME NEW s, DOMAIN s = Fields, NEW e, NEW R, SoundInstances(s, R)
  PROVE  LET t == StartDataSourceInstances(s, e, DOMAIN s.instances)
         IN  /\ Except(s, t, {"instances", "running", "did_notify_all_data_source_started"})
             /\ SoundInstances(t, R)
             /\ DOMAIN t.instances = DOMAIN s.instances
             /\ \A p \in DOMAIN s.instances : t.instances[p].state \in {"STARTING", "STARTED"}
             /\ s.consumer /\ AllDataSourceInstancesStarted(t) =>
                   t.did_notify_all_data_source_started
  <1>1. \A P \in SUBSET DOMAIN s.instances :
           LET t == StartDataSourceInstances(s, e, P)
           IN  /\ Except(s, t, {"instances", "running", "did_notify_all_data_source_started"})
               /\ SoundInstances(t, R)
               /\ DOMAIN t.instances = DOMAIN s.instances
               /\ \A p \in P : t.instances[p].state \in {"STARTING", "STARTED"}
               /\ s.consumer /\ AllDataSourceInstancesStarted(t) =>
                     t.did_notify_all_data_source_started
    BY StartEffect
  <1>2. DOMAIN s.instances \in SUBSET DOMAIN s.instances
    OBVIOUS
  <1> QED BY <1>1, <1>2, Zenon

\* All instances are started, and the consumer is told if none is waited for.
LEMMA StartKeeps ==
  ASSUME NEW s, NEW e, NEW R, ServiceInv(s, R)
  PROVE  ServiceInv(StartTracing(s, e), R)
  <1> DEFINE t0 == [s EXCEPT !.state = "STARTED"]
             t1 == IF s.config.timed
                   THEN PostDelayedTask(t0, Timer("StopOnDurationMsExpiry", 0)) ELSE t0
             t2 == IF s.config.file
                   THEN PostDelayedTask(t1, Timer("ReadBuffersIntoFile", 0)) ELSE t1
             t3 == IF s.config.flush = "kPeriodic" THEN PeriodicFlushTask(t2, e, TRUE) ELSE t2
             t == StartDataSourceInstances(t3, e, DOMAIN t3.instances)
             ops(u) == \A timer \in u.timers : timer.op \in TimerOps
  <1> SUFFICES ASSUME s.state = "CONFIGURED" PROVE ServiceInv(StartTracing(s, e), R)
    BY DEF StartTracing
  <1>1. /\ DOMAIN s = Fields /\ Settings(s) /\ Instances(s, R)
        /\ s.config \in Config /\ ops(s) /\ Alive(s)
    BY DEF ServiceInv, Settings, Alive
  <1>2. Except(s, t0, {"state", "timers"}) /\ t0.state = "STARTED" /\ ops(t0)
    BY <1>1, FieldNames DEF Except
  <1> HIDE DEF t0
  <1>3. Except(s, t1, {"state", "timers"}) /\ t1.state = "STARTED" /\ ops(t1)
    BY <1>1, <1>2, FieldNames DEF Except, PostDelayedTask, Timer, TimerOps
  <1> HIDE DEF t1
  <1>4. Except(s, t2, {"state", "timers"}) /\ t2.state = "STARTED" /\ ops(t2)
    BY <1>1, <1>3, FieldNames DEF Except, PostDelayedTask, Timer, TimerOps
  <1> HIDE DEF t2
  <1>5. Except(s, t3, {"state", "timers"}) /\ t3.state = "STARTED" /\ ops(t3)
    BY <1>1, <1>4, FieldNames DEF Except, PeriodicFlushTask, PostDelayedTask, Timer, TimerOps
  <1>6. t = StartTracing(s, e)
    BY DEF StartTracing, t0, t1, t2
  <1> HIDE DEF t3
  <1>7. /\ DOMAIN t3 = Fields /\ t3.instances = s.instances /\ t3.running = s.running
        /\ t3.last_id = s.last_id /\ t3.config = s.config /\ t3.disabled = s.disabled
    BY <1>1, <1>5, FieldNames DEF Except
  <1>8. SoundInstances(t3, R)
    BY <1>1, <1>7 DEF Instances, SoundInstances, TypedInstances
  <1>9. /\ Except(t3, t, {"instances", "running", "did_notify_all_data_source_started"})
        /\ SoundInstances(t, R)
        /\ DOMAIN t.instances = DOMAIN t3.instances
        /\ \A p \in DOMAIN t3.instances : t.instances[p].state \in {"STARTING", "STARTED"}
        /\ t3.consumer /\ AllDataSourceInstancesStarted(t) =>
              t.did_notify_all_data_source_started
    BY <1>7, <1>8, StartAllEffect
  <1> HIDE DEF t
  <1>10. /\ DOMAIN t = Fields /\ t.state = "STARTED" /\ t.timers = t3.timers
         /\ t.config = s.config /\ t.disabled = s.disabled /\ t.consumer = t3.consumer
    BY <1>5, <1>7, <1>9, FieldNames DEF Except
  <1>11. Settings(t)
    BY <1>1, <1>5, <1>10 DEF Settings, States
  <1>12. Instances(t, R)
    <2>1. FittingInstances(t)
      BY <1>9, <1>10 DEF FittingInstances, Fitting
    <2>2. Notified(t)
      BY <1>9, <1>10 DEF Notified
    <2>3. Disabled(t)
      BY <1>1, <1>10 DEF Instances, Disabled
    <2> QED BY <1>9, <2>1, <2>2, <2>3 DEF Instances
  <1> DEFINE changed == {"state", "timers", "instances", "running",
                         "did_notify_all_data_source_started"}
  <1>13. Except(s, t, changed)
    BY <1>5, <1>9 DEF Except
  <1>14. Alive(t) <=> Alive(s)
    BY <1>1, <1>10 DEF Alive
  <1>15. ServiceInv(t, R)
    BY <1>11, <1>12, <1>13, <1>14, RestIsKept
  <1> QED BY <1>6, <1>15

\* The next periodic flush is posted before this one is asked for.
LEMMA PeriodicKeeps ==
  ASSUME NEW s, NEW e, NEW R, ServiceInv(s, R), R \subseteq Producers, NEW next_only \in BOOLEAN
  PROVE  ServiceInv(PeriodicFlushTask(s, e, next_only), R)
  <1> DEFINE t == PostDelayedTask(s, Timer("PeriodicFlushTask", 0))
  <1>1. ServiceInv(t, R)
    BY DelayedKeeps DEF TimerOps
  <1> HIDE DEF t
  <1>2. ServiceInv(Flush(t, e, "kPeriodic"), R)
    BY <1>1, FlushKeeps DEF Callbacks
  <1> QED BY <1>1, <1>2 DEF PeriodicFlushTask, t

\* A delayed task is taken out of the timers and run.
LEMMA TimerKeeps ==
  ASSUME NEW s, NEW e, NEW R, ServiceInv(s, R), R \subseteq Producers, NEW timer \in s.timers
  PROVE  ServiceInv(RunTimer(s, e, timer), R)
  <1> DEFINE t == [s EXCEPT !.timers = @ \ {timer}]
  <1>1. Settings(s) /\ Instances(s, R) /\ DOMAIN s = Fields /\ timer.op \in TimerOps
    BY DEF ServiceInv, Settings
  <1>2. Except(s, t, {"timers"}) /\ t.timers = s.timers \ {timer}
    BY <1>1, FieldNames DEF Except
  <1> HIDE DEF t
  <1>3. DOMAIN t = Fields /\ t.state = s.state /\ t.config = s.config
    BY <1>1, <1>2, FieldNames DEF Except
  <1>4. ServiceInv(t, R)
    <2>1. Settings(t)
      BY <1>1, <1>2, <1>3 DEF Settings, Alive
    <2>2. Instances(t, R)
      BY <1>1, <1>2, InstancesAreKept
    <2>3. Alive(t) <=> Alive(s)
      BY <1>3 DEF Alive
    <2> QED BY <1>2, <2>1, <2>2, <2>3, RestIsKept
  <1>5. ServiceInv(FlushAndDisableTracing(t, e), R)
    BY <1>4, FlushKeeps DEF FlushAndDisableTracing, Callbacks
  <1>6. ServiceInv(DisableTracing(t, e, FALSE), R)
    BY <1>4, DisableKeeps
  <1>7. ServiceInv(OnDisableTracingTimeout(t), R)
    <2> DEFINE u == DisableTracingNotifyConsumerAndFlushFile(t)
    <2>1. CASE t.state = "DISABLING_WAITING_STOP_ACKS"
      <3>1. /\ DOMAIN t = Fields /\ SoundInstances(t, R) /\ t.disabled = 0
            /\ \A p \in DOMAIN t.instances : t.instances[p].state \in {"STOPPING", "STOPPED"}
        BY <1>4, <2>1 DEF ServiceInv, Settings, Instances, FittingInstances, Fitting, Disabled
      <3>2. /\ Except(t, u, {"state", "instances", "disabled", "write_period_ms",
                             "write_into_file"})
            /\ u.state = "DISABLED" /\ Instances(u, R)
        BY <3>1, EndEffect
      <3> HIDE DEF u
      <3>3. DOMAIN u = Fields /\ u.config = t.config /\ u.timers = t.timers
        BY <3>1, <3>2, FieldNames DEF Except
      <3>4. Settings(u)
        BY <1>4, <2>1, <3>2, <3>3 DEF ServiceInv, Settings, Alive, States
      <3>5. Alive(u) <=> Alive(t)
        BY <2>1, <3>2 DEF Alive
      <3>6. ServiceInv(u, R)
        BY <1>4, <3>2, <3>4, <3>5, RestIsKept
      <3> QED BY <2>1, <3>6 DEF OnDisableTracingTimeout, u
    <2>2. CASE t.state # "DISABLING_WAITING_STOP_ACKS"
      BY <1>4, <2>2 DEF OnDisableTracingTimeout
    <2> QED BY <2>1, <2>2
  <1>8. ServiceInv(ReadBuffersIntoFile(t, e), R)
    <2>1. ServiceInv(Flush(t, e, "file"), R)
      BY <1>4, FlushKeeps DEF Callbacks
    <2>2. ServiceInv(DoReadBuffersIntoFile(t, e), R)
      BY <1>4, FileKeeps
    <2> QED BY <1>4, <2>1, <2>2 DEF ReadBuffersIntoFile
  <1>9. ServiceInv(PeriodicFlushTask(t, e, FALSE), R)
    BY <1>4, PeriodicKeeps
  <1>10. ServiceInv(StopOnDurationMsExpiry(t, e), R)
    BY <1>4, <1>5 DEF StopOnDurationMsExpiry
  <1>11. ServiceInv(OnStartTriggersTimeout(t, e), R)
    BY <1>4, <1>6 DEF OnStartTriggersTimeout
  <1> QED BY <1>1, <1>5, <1>7, <1>8, <1>9, <1>10, <1>11 DEF RunTimer, TimerOps, t

-----------------------------------------------------------------------------
(***************************************************************************)
(* Acknowledged starts and stops, registration of data sources.            *)
(***************************************************************************)
\* From s to t the instance of p gets another state.
ChangesState(s, t, p, state) ==
    /\ p \in DOMAIN s.instances /\ state \in InstanceStates
    /\ t.last_id = s.last_id /\ t.running = s.running
    /\ t.instances = [s.instances EXCEPT ![p].state = state]
    /\ s.instances[p].state \in {"STARTING", "STARTED"} <=> state \in {"STARTING", "STARTED"}

\* It runs on, or does not run as before.
LEMMA ChangeEffect ==
  ASSUME NEW s, NEW t, NEW R, SoundInstances(s, R), NEW p, NEW state, ChangesState(s, t, p, state)
  PROVE  /\ SoundInstances(t, R)
         /\ DOMAIN t.instances = DOMAIN s.instances
         /\ t.instances[p].state = state
         /\ \A q \in DOMAIN s.instances \ {p} : t.instances[q] = s.instances[q]
  <1> USE DEF ChangesState
  <1>1. /\ DOMAIN t.instances = DOMAIN s.instances
        /\ t.instances = [q \in DOMAIN t.instances |-> t.instances[q]]
        /\ \A q \in DOMAIN s.instances \ {p} : t.instances[q] = s.instances[q]
        /\ t.instances[p] = [s.instances[p] EXCEPT !.state = state]
    BY DEF SoundInstances, TypedInstances
  <1>2. \A q \in DOMAIN s.instances : s.instances[q] \in [id : 1 .. s.last_id, state : InstanceStates]
    BY DEF SoundInstances, TypedInstances
  <1>3. t.instances[p].state = state
    BY <1>1, <1>2
  <1>4. \A q \in DOMAIN t.instances :
           /\ t.instances[q] = [s.instances[q] EXCEPT !.state = t.instances[q].state]
           /\ t.instances[q].state \in InstanceStates
    BY <1>1, <1>2, <1>3
  <1>5. TypedInstances(t, R) /\ \A q \in DOMAIN t.instances : t.instances[q].id = s.instances[q].id
    <2>1. TypedInstances(s, R) /\ DOMAIN t.instances \subseteq DOMAIN s.instances
      BY <1>1 DEF SoundInstances
    <2>2. t.last_id = s.last_id
      OBVIOUS
    <2> HIDE DEF ChangesState
    <2> QED BY <1>1, <1>4, <2>1, <2>2, IdsAreKept
  <1>6. \A q \in DOMAIN s.instances :
           t.instances[q].state \in {"STARTING", "STARTED"}
           <=> s.instances[q].state \in {"STARTING", "STARTED"}
    BY <1>1, <1>3
  <1>7. Running(t.instances) = Running(s.instances)
    BY <1>1, <1>5, <1>6 DEF Running
  <1> QED BY <1>1, <1>3, <1>5, <1>7 DEF SoundInstances

\* A start that is acknowledged may be the one the consumer waits for.
LEMMA StartedKeeps ==
  ASSUME NEW s, NEW R, ServiceInv(s, R), NEW p, NEW id
  PROVE  ServiceInv(NotifyDataSourceStarted(s, p, id), R)
  <1> SUFFICES ASSUME s.state = "STARTED", HasInstance(s, p, id, "STARTING")
               PROVE  ServiceInv(NotifyDataSourceStarted(s, p, id), R)
    BY DEF NotifyDataSourceStarted
  <1> DEFINE u == [s EXCEPT !.instances[p].state = "STARTED"]
             t == MaybeNotifyAllDataSourcesStarted(u)
             changed == {"instances", "did_notify_all_data_source_started"}
  <1>1. /\ DOMAIN s = Fields /\ Settings(s) /\ SoundInstances(s, R) /\ FittingInstances(s)
        /\ Disabled(s) /\ p \in DOMAIN s.instances /\ s.instances[p].state = "STARTING"
    BY DEF ServiceInv, Settings, Instances, HasInstance
  <1>2. /\ DOMAIN u = Fields /\ u.last_id = s.last_id /\ u.running = s.running
        /\ u.instances = [s.instances EXCEPT ![p].state = "STARTED"] /\ u.state = s.state
        /\ Except(s, u, {"instances"})
    BY <1>1, FieldNames DEF Except
  <1> HIDE DEF u
  <1>3. ChangesState(s, u, p, "STARTED")
    BY <1>1, <1>2 DEF ChangesState, InstanceStates
  <1>4. /\ SoundInstances(u, R) /\ DOMAIN u.instances = DOMAIN s.instances
        /\ u.instances[p].state = "STARTED"
        /\ \A q \in DOMAIN s.instances \ {p} : u.instances[q] = s.instances[q]
    BY <1>1, <1>3, ChangeEffect
  <1>5. /\ Except(u, t, {"did_notify_all_data_source_started"})
        /\ u.consumer /\ AllDataSourceInstancesStarted(u) => t.did_notify_all_data_source_started
    BY <1>2, NotifyEffect
  <1> HIDE DEF t
  <1>6. /\ DOMAIN t = Fields /\ t.instances = u.instances /\ t.running = u.running
        /\ t.last_id = u.last_id /\ t.state = "STARTED" /\ t.consumer = u.consumer
        /\ t.disabled = s.disabled /\ t.config = s.config /\ t.timers = s.timers
    BY <1>1, <1>2, <1>5, FieldNames DEF Except
  <1>7. Except(s, t, changed)
    BY <1>2, <1>5 DEF Except
  <1>8. Instances(t, R)
    <2>1. SoundInstances(t, R)
      BY <1>4, <1>6 DEF SoundInstances, TypedInstances
    <2>2. FittingInstances(t)
      BY <1>1, <1>4, <1>6 DEF FittingInstances, Fitting
    <2>3. Notified(t)
      BY <1>5, <1>6 DEF Notified, AllDataSourceInstancesStarted
    <2>4. Disabled(t)
      BY <1>1, <1>6 DEF Disabled
    <2> QED BY <2>1, <2>2, <2>3, <2>4 DEF Instances
  <1>9. Settings(t)
    BY <1>1, <1>6 DEF Settings, Alive
  <1>10. Alive(t) <=> Alive(s)
    BY <1>6 DEF Alive
  <1>11. ServiceInv(t, R)
    BY <1>7, <1>8, <1>9, <1>10, RestIsKept
  <1> QED BY <1>11 DEF NotifyDataSourceStarted, t, u

\* All but the instance of p fit the session, and that one counts as stopped.
AllButOne(s, R, p) ==
    /\ Settings(s) /\ SoundInstances(s, R) /\ Disabled(s)
    /\ \A q \in DOMAIN s.instances \ {p} : s.instances[q].state \in Fitting(s.state)
    /\ p \in DOMAIN s.instances =>
          s.instances[p].state \in {"STOPPING", "STOPPED"}

\* A stop that is acknowledged may be the one that the session waits for.
LEMMA StoppedEffect ==
  ASSUME NEW s, NEW R, NEW p, AllButOne(s, R, p), NEW id
  PROVE  LET t == NotifyDataSourceStopped(s, p, id)
         IN  /\ Except(s, t, {"state", "instances", "disabled", "write_period_ms",
                              "write_into_file"})
             /\ Alive(t) <=> Alive(s)
             /\ AllButOne(t, R, p)
             /\ DOMAIN t.instances = DOMAIN s.instances
             /\ s.state # "DISABLING_WAITING_STOP_ACKS" => t.state = s.state
             /\ t.state = "DISABLING_WAITING_STOP_ACKS" =>
                   t = s \/ ~AllDataSourceInstancesStopped(t)
             /\ p \in DOMAIN s.instances /\ id = s.instances[p].id =>
                   t.instances[p].state = "STOPPED"
  <1> DEFINE u == [s EXCEPT !.instances[p].state = "STOPPED"]
             v == DisableTracingNotifyConsumerAndFlushFile(u)
             t == NotifyDataSourceStopped(s, p, id)
             changed == {"state", "instances", "disabled", "write_period_ms", "write_into_file"}
  <1>1. /\ DOMAIN s = Fields /\ Settings(s) /\ SoundInstances(s, R) /\ Disabled(s)
        /\ \A q \in DOMAIN s.instances \ {p} : s.instances[q].state \in Fitting(s.state)
        /\ p \in DOMAIN s.instances => s.instances[p].state \in {"STOPPING", "STOPPED"}
    BY DEF AllButOne, Settings
  <1>2. CASE ~HasInstance(s, p, id, "STOPPING")
    <2>1. t = s
      BY <1>2 DEF NotifyDataSourceStopped
    <2>2. ASSUME p \in DOMAIN s.instances, id = s.instances[p].id
          PROVE  s.instances[p].state = "STOPPED"
      <3>1. s.instances[p] \in [id : 1 .. s.last_id, state : InstanceStates]
        BY <1>1, <2>2 DEF SoundInstances, TypedInstances
      <3>2. s.instances[p] = [id |-> s.instances[p].id, state |-> s.instances[p].state]
        BY <3>1
      <3> QED BY <1>1, <1>2, <2>2, <3>2 DEF HasInstance
    <2> QED BY <2>1, <2>2 DEF Except
  <1>3. CASE HasInstance(s, p, id, "STOPPING")
    <2>1. p \in DOMAIN s.instances /\ s.instances[p].state = "STOPPING"
      BY <1>3 DEF HasInstance
    <2>2. /\ DOMAIN u = Fields /\ u.last_id = s.last_id /\ u.running = s.running
          /\ u.instances = [s.instances EXCEPT ![p].state = "STOPPED"] /\ u.state = s.state
          /\ u.disabled = s.disabled /\ u.config = s.config /\ u.timers = s.timers
          /\ Except(s, u, {"instances"})
      BY <1>1, FieldNames DEF Except
    <2>3. t = IF AllDataSourceInstancesStopped(u) /\ s.state = "DISABLING_WAITING_STOP_ACKS"
              THEN v ELSE u
      BY <1>3 DEF NotifyDataSourceStopped
    <2> HIDE DEF u
    <2>4. ChangesState(s, u, p, "STOPPED")
      BY <2>1, <2>2 DEF ChangesState, InstanceStates
    <2>5. /\ SoundInstances(u, R) /\ DOMAIN u.instances = DOMAIN s.instances
          /\ u.instances[p].state = "STOPPED"
          /\ \A q \in DOMAIN s.instances \ {p} : u.instances[q] = s.instances[q]
      BY <1>1, <2>4, ChangeEffect
    <2>6. AllButOne(u, R, p)
      <3>1. Settings(u)
        BY <1>1, <2>2 DEF Settings, Alive
      <3>2. Disabled(u)
        BY <1>1, <2>2 DEF Disabled
      <3> QED BY <1>1, <2>2, <2>5, <3>1, <3>2 DEF AllButOne
    <2>7. CASE AllDataSourceInstancesStopped(u) /\ s.state = "DISABLING_WAITING_STOP_ACKS"
      <3>1. /\ u.disabled = 0
            /\ \A q \in DOMAIN u.instances : u.instances[q].state \in {"STOPPING", "STOPPED"}
        BY <1>1, <2>2, <2>7 DEF AllDataSourceInstancesStopped, Disabled
      <3>2. /\ Except(u, v, changed)
            /\ v.state = "DISABLED" /\ Instances(v, R)
        BY <2>2, <2>5, <3>1, EndEffect
      <3>3. /\ DOMAIN v.instances = DOMAIN u.instances
        BY <2>2, FieldNames DEF DisableTracingNotifyConsumerAndFlushFile
      <3> HIDE DEF v
      <3>4. DOMAIN v = Fields /\ v.config = u.config /\ v.timers = u.timers
        BY <2>2, <3>2, FieldNames DEF Except
      <3>5. Settings(v)
        BY <1>1, <2>2, <2>7, <3>2, <3>4 DEF Settings, Alive, States
      <3>6. \A q \in DOMAIN v.instances : v.instances[q].state = "STOPPED"
        BY <3>2 DEF Instances, FittingInstances, Fitting
      <3>7. AllButOne(v, R, p)
        BY <3>2, <3>5, <3>6 DEF Instances, AllButOne, Fitting
      <3>8. Except(s, v, changed)
        BY <2>2, <3>2 DEF Except
      <3>9. Alive(v) <=> Alive(s)
        BY <2>7, <3>2 DEF Alive
      <3>10. t = v
        BY <2>3, <2>7
      <3> HIDE DEF t
      <3>11. DOMAIN t.instances = DOMAIN s.instances
        BY <2>5, <3>3, <3>10
      <3>12. p \in DOMAIN s.instances => t.instances[p].state = "STOPPED"
        BY <3>6, <3>10, <3>11
      <3> QED BY <2>7, <3>2, <3>7, <3>8, <3>9, <3>10, <3>11, <3>12 DEF t
    <2>8. CASE ~(AllDataSourceInstancesStopped(u) /\ s.state = "DISABLING_WAITING_STOP_ACKS")
      <3>1. t = u
        BY <2>3, <2>8
      <3>2. Except(s, u, changed) /\ (Alive(u) <=> Alive(s))
        BY <2>2 DEF Except, Alive
      <3> HIDE DEF t
      <3> QED BY <2>2, <2>5, <2>6, <2>8, <3>1, <3>2 DEF t
    <2> QED BY <2>7, <2>8
  <1> QED BY <1>2, <1>3

LEMMA StoppedKeeps ==
  ASSUME NEW s, NEW R, ServiceInv(s, R), NEW p, NEW id
  PROVE  ServiceInv(NotifyDataSourceStopped(s, p, id), R)
  <1> DEFINE t == NotifyDataSourceStopped(s, p, id)
             changed == {"state", "instances", "disabled", "write_period_ms", "write_into_file"}
  <1>1. CASE ~HasInstance(s, p, id, "STOPPING")
    BY <1>1 DEF NotifyDataSourceStopped
  <1>2. CASE HasInstance(s, p, id, "STOPPING")
    <2>1. /\ Settings(s) /\ SoundInstances(s, R) /\ FittingInstances(s) /\ Disabled(s)
          /\ p \in DOMAIN s.instances /\ s.instances[p].state = "STOPPING"
          /\ id = s.instances[p].id
      BY <1>2 DEF ServiceInv, Instances, HasInstance
    <2>2. /\ AllButOne(s, R, p)
          /\ s.state = "DISABLING_WAITING_STOP_ACKS"
      BY <2>1 DEF AllButOne, FittingInstances, Fitting
    <2>3. /\ Except(s, t, changed) /\ (Alive(t) <=> Alive(s)) /\ AllButOne(t, R, p)
          /\ DOMAIN t.instances = DOMAIN s.instances
          /\ t.state = "DISABLING_WAITING_STOP_ACKS" => t = s \/ ~AllDataSourceInstancesStopped(t)
          /\ t.instances[p].state = "STOPPED"
      BY <2>1, <2>2, StoppedEffect
    <2>4. t.state \in {"DISABLING_WAITING_STOP_ACKS", "DISABLED"}
      BY <2>2, FieldNames DEF NotifyDataSourceStopped, DisableTracingNotifyConsumerAndFlushFile
    <2> HIDE DEF t
    <2>5. FittingInstances(t)
      <3>1. \A q \in DOMAIN t.instances : t.instances[q].state \in Fitting(t.state)
        BY <2>3, <2>4 DEF AllButOne, Fitting
      <3>2. ASSUME t.state = "DISABLING_WAITING_STOP_ACKS"
            PROVE  \E q \in DOMAIN t.instances : t.instances[q].state = "STOPPING"
        BY <2>1, <2>3, <3>1, <3>2 DEF AllDataSourceInstancesStopped, Fitting
      <3> QED BY <3>1, <3>2 DEF FittingInstances
    <2>6. Instances(t, R)
      BY <2>3, <2>4, <2>5 DEF AllButOne, Instances, Notified
    <2>7. Settings(t)
      BY <2>3 DEF AllButOne
    <2>8. ServiceInv(t, R)
      BY <2>3, <2>6, <2>7, RestIsKept
    <2> QED BY <2>8 DEF t
  <1> QED BY <1>1, <1>2

\* A data source that is registered gets an instance, which is started if the
\* session is.
LEMMA RegisterKeeps ==
  ASSUME NEW s, NEW e, NEW R, ServiceInv(s, R), NEW p, p \notin R
  PROVE  ServiceInv(RegisterDataSource(s, e, p), R \cup {p})
  <1> DEFINE P == R \cup {p}
             u == SetupDataSources(s, {p})
             v == StartDataSourceInstances(u, e, {p})
             changed == {"last_id", "instances", "running", "did_notify_all_data_source_started"}
  <1>1. /\ DOMAIN s = Fields /\ Settings(s) /\ Instances(s, R)
        /\ SoundInstances(s, R) /\ FittingInstances(s) /\ Notified(s) /\ Disabled(s)
        /\ DOMAIN s.instances \subseteq R /\ TypedInstances(s, R)
    BY DEF ServiceInv, Settings, Instances, SoundInstances, TypedInstances
  <1>2. TypedInstances(s, P) /\ SoundInstances(s, P) /\ Instances(s, P)
    BY <1>1 DEF Instances, SoundInstances, TypedInstances
  <1>3. /\ Except(s, u, {"last_id", "instances"})
        /\ TypedInstances(u, P)
        /\ DOMAIN u.instances = DOMAIN s.instances \cup {p}
        /\ \A q \in DOMAIN s.instances : u.instances[q] = s.instances[q]
        /\ \A q \in {p} : u.instances[q].state = "CONFIGURED"
    <2>1. IsFiniteSet({p}) /\ {p} \subseteq P /\ {p} \cap DOMAIN s.instances = {}
      BY <1>1, FS_Singleton
    <2> HIDE DEF P, u
    <2>2. \A S : IsFiniteSet(S) /\ S \subseteq P /\ S \cap DOMAIN s.instances = {} =>
             LET w == SetupDataSources(s, S)
             IN  /\ Except(s, w, {"last_id", "instances"})
                 /\ TypedInstances(w, P)
                 /\ DOMAIN w.instances = DOMAIN s.instances \cup S
                 /\ \A q \in DOMAIN s.instances : w.instances[q] = s.instances[q]
                 /\ \A q \in S : w.instances[q].state = "CONFIGURED"
      BY <1>1, <1>2, SetupEffect
    <2> QED BY <2>1, <2>2, Zenon DEF u
  <1> HIDE DEF u
  <1>4. /\ DOMAIN u = Fields /\ u.state = s.state /\ u.config = s.config /\ u.timers = s.timers
        /\ u.running = s.running /\ u.disabled = s.disabled /\ u.consumer = s.consumer
    BY <1>1, <1>3, FieldNames DEF Except
  <1>5. Running(u.instances) = Running(s.instances)
    <2>1. \A q \in DOMAIN u.instances : u.instances[q].state \in {"STARTING", "STARTED"} =>
             q \in DOMAIN s.instances
      BY <1>3
    <2> QED BY <1>3, <2>1 DEF Running
  <1>6. SoundInstances(u, P)
    BY <1>1, <1>3, <1>4, <1>5 DEF SoundInstances
  <1>7. CASE s.state = "CONFIGURED"
    <2>1. Settings(u) /\ Disabled(u)
      BY <1>1, <1>4 DEF Settings, Alive, Disabled
    <2>2. FittingInstances(u)
      BY <1>1, <1>3, <1>4, <1>7 DEF FittingInstances, Fitting
    <2>3. Notified(u)
      BY <1>4, <1>7 DEF Notified
    <2>4. Instances(u, P)
      BY <1>6, <2>1, <2>2, <2>3 DEF Instances
    <2>5. Alive(u) <=> Alive(s)
      BY <1>4 DEF Alive
    <2>6. ServiceInv(u, P)
      BY <1>3, <2>1, <2>4, <2>5, RestIsKept
    <2> QED BY <1>7, <2>6 DEF RegisterDataSource, u
  <1>8. CASE s.state = "STARTED"
    <2>1. /\ Except(u, v, {"instances", "running", "did_notify_all_data_source_started"})
          /\ SoundInstances(v, P)
          /\ DOMAIN v.instances = DOMAIN u.instances
          /\ \A q \in DOMAIN u.instances \ {p} : v.instances[q] = u.instances[q]
          /\ \A q \in {p} : v.instances[q].state \in {"STARTING", "STARTED"}
          /\ u.consumer /\ AllDataSourceInstancesStarted(v) =>
                v.did_notify_all_data_source_started
      <3>1. {p} \in SUBSET DOMAIN u.instances
        BY <1>3
      <3> HIDE DEF P, v
      <3>2. \A S \in SUBSET DOMAIN u.instances :
               LET w == StartDataSourceInstances(u, e, S)
               IN  /\ Except(u, w, {"instances", "running", "did_notify_all_data_source_started"})
                   /\ SoundInstances(w, P)
                   /\ DOMAIN w.instances = DOMAIN u.instances
                   /\ \A q \in DOMAIN u.instances \ S : w.instances[q] = u.instances[q]
                   /\ \A q \in S : w.instances[q].state \in {"STARTING", "STARTED"}
                   /\ u.consumer /\ AllDataSourceInstancesStarted(w) =>
                         w.did_notify_all_data_source_started
        BY <1>4, <1>6, StartEffect
      <3> QED BY <3>1, <3>2, Zenon DEF v
    <2> HIDE DEF v
    <2>2. /\ DOMAIN v = Fields /\ v.state = "STARTED" /\ v.config = s.config
          /\ v.timers = s.timers /\ v.disabled = s.disabled /\ v.consumer = u.consumer
      BY <1>4, <1>8, <2>1, FieldNames DEF Except
    <2>3. Settings(v) /\ Disabled(v)
      BY <1>1, <1>8, <2>2 DEF Settings, Alive, Disabled
    <2>4. FittingInstances(v)
      BY <1>1, <1>3, <1>8, <2>1, <2>2 DEF FittingInstances, Fitting
    <2>5. Notified(v)
      BY <2>1, <2>2 DEF Notified
    <2>6. Instances(v, P)
      BY <2>1, <2>3, <2>4, <2>5 DEF Instances
    <2>7. Alive(v) <=> Alive(s)
      BY <1>8, <2>2 DEF Alive
    <2>8. Except(s, v, changed)
      BY <1>3, <2>1 DEF Except
    <2>9. ServiceInv(v, P)
      BY <2>3, <2>6, <2>7, <2>8, RestIsKept
    <2> QED BY <1>8, <2>9 DEF RegisterDataSource, u, v
  <1>9. CASE s.state \notin {"CONFIGURED", "STARTED"}
    <2>1. ServiceInv(s, P)
      BY <1>2 DEF ServiceInv
    <2> QED BY <1>9, <2>1 DEF RegisterDataSource
  <1> QED BY <1>7, <1>8, <1>9

\* A data source that goes is told to stop.
LEMMA ToldEffect ==
  ASSUME NEW s, NEW e, NEW R, ServiceInv(s, R), NEW p \in DOMAIN s.instances
  PROVE  LET t == ToldToStop(s, e, p)
         IN  /\ Except(s, t, {"instances", "running"})
             /\ t.state = s.state
             /\ t.instances[p].id = s.instances[p].id
             /\ DOMAIN t.instances = DOMAIN s.instances
             /\ AllButOne(t, R, p)
             /\ s.state = "DISABLING_WAITING_STOP_ACKS" => t = s
  <1> DEFINE t == ToldToStop(s, e, p)
             u == StopDataSourceInstances(s, e, {p}, FALSE)
  <1>1. /\ DOMAIN s = Fields /\ Settings(s) /\ SoundInstances(s, R) /\ FittingInstances(s)
        /\ Disabled(s)
    BY DEF ServiceInv, Settings, Instances
  <1>2. CASE s.instances[p].state \in {"STOPPING", "STOPPED"}
    <2>1. t = s
      BY <1>2 DEF ToldToStop
    <2>2. AllButOne(s, R, p)
      BY <1>1, <1>2 DEF AllButOne, FittingInstances
    <2> QED BY <2>1, <2>2 DEF Except
  <1>3. CASE s.instances[p].state \notin {"STOPPING", "STOPPED"}
    <2>1. t = u
      BY <1>3 DEF ToldToStop
    <2>2. /\ Except(s, u, {"instances", "running"})
          /\ SoundInstances(u, R)
          /\ DOMAIN u.instances = DOMAIN s.instances
          /\ \A q \in DOMAIN s.instances \ {p} : u.instances[q] = s.instances[q]
          /\ \A q \in {p} : u.instances[q].state \in {"STOPPING", "STOPPED"}
      <3>1. {p} \in SUBSET DOMAIN s.instances /\ FALSE \in BOOLEAN
        OBVIOUS
      <3> HIDE DEF u
      <3>2. \A S \in SUBSET DOMAIN s.instances : \A now \in BOOLEAN :
               LET w == StopDataSourceInstances(s, e, S, now)
               IN  /\ Except(s, w, {"instances", "running"})
                   /\ SoundInstances(w, R)
                   /\ DOMAIN w.instances = DOMAIN s.instances
                   /\ \A q \in DOMAIN s.instances \ S : w.instances[q] = s.instances[q]
                   /\ \A q \in S : w.instances[q].state \in {"STOPPING", "STOPPED"}
        BY <1>1, StopEffect
      <3> QED BY <3>1, <3>2, Zenon DEF u
    <2>3. u.instances[p].id = s.instances[p].id
      <3>1. u.instances[p] = [s.instances[p] EXCEPT !.state =
                IF p \in NotifyOnStop \ e.frozen THEN "STOPPING" ELSE "STOPPED"]
        BY <1>1, FieldNames DEF StopDataSourceInstances
      <3>2. s.instances[p] \in [id : 1 .. s.last_id, state : InstanceStates]
        BY <1>1 DEF SoundInstances, TypedInstances
      <3> HIDE DEF u
      <3> QED BY <3>1, <3>2
    <2> HIDE DEF u
    <2>4. /\ DOMAIN u = Fields /\ u.state = s.state /\ u.disabled = s.disabled
          /\ u.config = s.config /\ u.timers = s.timers
      BY <1>1, <2>2, FieldNames DEF Except
    <2>5. Settings(u) /\ Disabled(u)
      BY <1>1, <2>4 DEF Settings, Alive, Disabled
    <2>6. AllButOne(u, R, p)
      BY <1>1, <2>2, <2>4, <2>5 DEF AllButOne, FittingInstances
    <2>7. s.state # "DISABLING_WAITING_STOP_ACKS"
      BY <1>1, <1>3 DEF FittingInstances, Fitting
    <2> QED BY <2>1, <2>2, <2>3, <2>4, <2>6, <2>7
  <1> QED BY <1>2, <1>3

\* Without it the consumer may have all the starts it waits for.
LEMMA UnregisterKeeps ==
  ASSUME NEW s, NEW e, NEW R, ServiceInv(s, R), NEW p
  PROVE  ServiceInv(UnregisterDataSource(s, e, p), R \ {p})
  <1> DEFINE a == ToldToStop(s, e, p)
             b == CountedAsStopped(a, p)
             c == [b EXCEPT !.instances = [q \in DOMAIN @ \ {p} |-> @[q]]]
             t == MaybeNotifyAllDataSourcesStarted(c)
             changed == {"state", "instances", "running", "disabled", "write_period_ms",
                         "write_into_file", "did_notify_all_data_source_started"}
  <1>1. CASE p \notin DOMAIN s.instances
    <2>1. Instances(s, R \ {p})
      BY <1>1 DEF ServiceInv, Instances, SoundInstances, TypedInstances
    <2>2. UnregisterDataSource(s, e, p) = s
      BY <1>1 DEF UnregisterDataSource
    <2> QED BY <2>1, <2>2 DEF ServiceInv
  <1>2. CASE p \in DOMAIN s.instances
    <2>1. UnregisterDataSource(s, e, p) = t
      BY <1>2 DEF UnregisterDataSource, EraseInstance
    <2>2. /\ Except(s, a, {"instances", "running"}) /\ a.state = s.state
          /\ DOMAIN a.instances = DOMAIN s.instances
          /\ AllButOne(a, R, p)
          /\ s.state = "DISABLING_WAITING_STOP_ACKS" => a = s
      BY <1>2, ToldEffect
    <2> HIDE DEF a
    <2>3. /\ Except(a, b, {"state", "instances", "disabled", "write_period_ms",
                           "write_into_file"})
          /\ Alive(b) <=> Alive(a)
          /\ AllButOne(b, R, p)
          /\ DOMAIN b.instances = DOMAIN a.instances
          /\ a.state # "DISABLING_WAITING_STOP_ACKS" => b.state = a.state
          /\ b.state = "DISABLING_WAITING_STOP_ACKS" =>
                b = a \/ ~AllDataSourceInstancesStopped(b)
          /\ b.instances[p].state = "STOPPED"
      <3>1. b = NotifyDataSourceStopped(a, p, a.instances[p].id)
        BY DEF CountedAsStopped
      <3> QED BY <1>2, <2>2, <3>1, StoppedEffect
    <2> HIDE DEF b
    <2>4. /\ DOMAIN b = Fields /\ Settings(b) /\ SoundInstances(b, R) /\ Disabled(b)
          /\ p \in DOMAIN b.instances
          /\ \A q \in DOMAIN b.instances \ {p} : b.instances[q].state \in Fitting(b.state)
      BY <1>2, <2>2, <2>3 DEF AllButOne, Settings
    <2>5. /\ DOMAIN c = Fields
          /\ c.instances = [q \in DOMAIN b.instances \ {p} |-> b.instances[q]]
          /\ Except(b, c, {"instances"})
      BY <2>4, FieldNames DEF Except
    <2> HIDE DEF c
    <2>6. /\ Except(c, t, {"did_notify_all_data_source_started"})
          /\ c.consumer /\ AllDataSourceInstancesStarted(c) => t.did_notify_all_data_source_started
      BY <2>5, NotifyEffect
    <2> HIDE DEF t
    <2>7. /\ DOMAIN t = Fields /\ t.instances = c.instances /\ t.consumer = c.consumer
          /\ t.state = b.state /\ t.running = b.running /\ t.last_id = b.last_id
          /\ t.disabled = b.disabled /\ t.config = b.config /\ t.timers = b.timers
      BY <2>4, <2>5, <2>6, FieldNames DEF Except
    <2>8. /\ DOMAIN t.instances = DOMAIN b.instances \ {p}
          /\ t.instances = [q \in DOMAIN t.instances |-> t.instances[q]]
          /\ \A q \in DOMAIN t.instances : t.instances[q] = b.instances[q]
      BY <2>5, <2>7
    <2>9. SoundInstances(t, R \ {p})
      <3>1. \A q \in DOMAIN t.instances :
               /\ t.instances[q] = [b.instances[q] EXCEPT !.state = t.instances[q].state]
               /\ t.instances[q].state \in InstanceStates
        <4>1. \A q \in DOMAIN b.instances :
                 b.instances[q] \in [id : 1 .. b.last_id, state : InstanceStates]
          BY <2>4 DEF SoundInstances, TypedInstances
        <4> QED BY <2>8, <4>1
      <3>2. TypedInstances(t, R)
        BY <2>4, <2>7, <2>8, <3>1, IdsAreKept DEF SoundInstances
      <3>3. TypedInstances(t, R \ {p})
        BY <2>8, <3>2 DEF TypedInstances
      <3>4. \A q \in DOMAIN b.instances : b.instances[q].state \in {"STARTING", "STARTED"} =>
               q \in DOMAIN t.instances
        BY <2>3, <2>8
      <3>5. Running(t.instances) = Running(b.instances)
        BY <2>8, <3>4 DEF Running
      <3> QED BY <2>4, <2>7, <3>3, <3>5 DEF SoundInstances
    <2>10. FittingInstances(t)
      <3>1. \A q \in DOMAIN t.instances : t.instances[q].state \in Fitting(t.state)
        BY <2>4, <2>7, <2>8
      <3>2. ASSUME t.state = "DISABLING_WAITING_STOP_ACKS"
            PROVE  \E q \in DOMAIN t.instances : t.instances[q].state = "STOPPING"
        <4>1. a.state = "DISABLING_WAITING_STOP_ACKS" /\ a = s
          BY <2>2, <2>3, <2>7, <3>2
        <4>2. CASE b = a
          <5>1. PICK q \in DOMAIN s.instances : s.instances[q].state = "STOPPING"
            BY <2>2, <4>1 DEF ServiceInv, Instances, FittingInstances
          <5> QED BY <2>3, <2>8, <4>1, <4>2, <5>1
        <4>3. CASE ~AllDataSourceInstancesStopped(b)
          <5>1. PICK q \in DOMAIN b.instances : b.instances[q].state # "STOPPED"
            BY <4>3 DEF AllDataSourceInstancesStopped
          <5>2. q # p /\ b.instances[q].state = "STOPPING"
            BY <2>3, <2>4, <2>7, <3>2, <5>1 DEF Fitting
          <5> QED BY <2>8, <5>1, <5>2
        <4> QED BY <2>3, <2>7, <3>2, <4>2, <4>3
      <3> QED BY <3>1, <3>2 DEF FittingInstances
    <2>11. Notified(t)
      BY <2>6, <2>7 DEF Notified, AllDataSourceInstancesStarted
    <2>12. Settings(t) /\ Disabled(t)
      BY <2>4, <2>7 DEF Settings, Alive, Disabled
    <2>13. Instances(t, R \ {p})
      BY <2>9, <2>10, <2>11, <2>12 DEF Instances
    <2>14. Except(s, t, changed)
      BY <2>2, <2>3, <2>5, <2>6 DEF Except
    <2>15. Alive(t) <=> Alive(s)
      BY <2>2, <2>3, <2>7 DEF Alive
    <2>16. ServiceInv(t, R \ {p})
      BY <2>12, <2>13, <2>14, <2>15, RestIsKept
    <2> QED BY <2>1, <2>16
  <1> QED BY <1>1, <1>2

-----------------------------------------------------------------------------
(***************************************************************************)
(* Triggers, the clone and the beginning of a session.                     *)
(***************************************************************************)
\* A trigger may start the session, or stop it later.
LEMMA TriggersKeep ==
  ASSUME NEW s, NEW e, NEW R, ServiceInv(s, R), Alive(s), NEW delay \in BOOLEAN
  PROVE  ServiceInv(ActivateTriggers(s, e, delay), R)
  <1> DEFINE t == [s EXCEPT !.received_triggers = TRUE, !.triggers = @ + 1,
                            !.triggered = @ \/ s.state \in {"CONFIGURED", "STARTED"}]
             u == [t EXCEPT !.config.timed = delay]
  <1>1. DOMAIN s = Fields /\ Settings(s) /\ Instances(s, R) /\ s.config \in Config
    BY DEF ServiceInv, Settings
  <1>2. Except(s, t, {"write_into_file", "write_period_ms", "final_flush_outcome",
                      "received_triggers", "triggers", "triggered"})
    BY <1>1, FieldNames DEF Except
  <1> HIDE DEF t
  <1>3. ServiceInv(t, R) /\ DOMAIN t = Fields /\ t.config = s.config /\ t.state = s.state
    BY <1>1, <1>2, OtherFields, FieldNames DEF Except
  <1>4. /\ Except(t, u, {"config"}) /\ u.config = [t.config EXCEPT !.timed = delay]
    BY <1>3, FieldNames DEF Except
  <1> HIDE DEF u
  <1>5. /\ DOMAIN u = Fields /\ u.state = s.state /\ u.timers = t.timers
    BY <1>3, <1>4, FieldNames DEF Except
  <1>6. u.config \in Config
    BY <1>1, <1>3, <1>4 DEF Config
  <1>7. Settings(u)
    BY <1>3, <1>5, <1>6 DEF ServiceInv, Settings, Alive
  <1>8. Instances(u, R)
    BY <1>3, <1>4, InstancesAreKept DEF ServiceInv
  <1>9. Alive(u) <=> Alive(t)
    BY <1>3, <1>5 DEF Alive
  <1>10. ServiceInv(u, R)
    BY <1>3, <1>4, <1>7, <1>8, <1>9, RestIsKept
  <1>11. ServiceInv(StartTracing(u, e), R)
    BY <1>10, StartKeeps
  <1>12. ServiceInv(PostDelayedTask(t, Timer("OnStopTrigger", t.triggers)), R)
    BY <1>3, DelayedKeeps DEF TimerOps
  <1> QED BY <1>3, <1>11, <1>12 DEF ActivateTriggers, t, u

\* The first of the two flushes of a clone leaves the second owed.
LEMMA SecondIsOwed ==
  ASSUME NEW s, NEW e, NEW R, RequestIsDue(s, R, "kTraceClone"), OfClone(s) = {},
         s.pending_clone = [pending_flush_cnt |-> 2, flush_failed |-> FALSE],
         s.cloner = "waiting", NEW asked \in SUBSET Producers
  PROVE  RequestIsDue(FlushDataSourceInstances(s, e, asked, "kTraceClone"), R, "kTraceClone")
  <1> DEFINE t == FlushDataSourceInstances(s, e, asked, "kTraceClone")
             f == Len(s.flushes) + 1
             owed == asked \ e.frozen
             rejected == \/ Cardinality(DOMAIN s.pending_flushes) > kMaxPendingFlushes
                         \/ s.state # "STARTED"
  <1>1. /\ DOMAIN s = Fields /\ TypedFlushes(s) /\ CloneIsOwed(s)
        /\ s.clone_replies = <<>> /\ s.clone_replies # <<"flushed">>
        /\ s.pending_clone.pending_flush_cnt = 2
    BY DEF RequestIsDue, Flushes, Settings, CloneIsOwed, TypedClone
  <1>2. ServiceInv(t, R)
    BY RequestKeeps DEF Callbacks
  <1>3. /\ t.cloner # "idle" /\ t.clone_replies # <<"flushed">>
        /\ t.pending_clone # None => AtMost(OfClone(t), t.pending_clone.pending_flush_cnt - 1)
    <2>1. CASE rejected
      <3>1. t = OnFlushDoneForClone(s, e, FALSE)
        BY <2>1 DEF FlushDataSourceInstances, RunCallback
      <3>2. CASE ~Alive(s) \/ s.pending_clone = None
        <4>1. t = s
          BY <3>1, <3>2 DEF OnFlushDoneForClone
        <4> QED BY <1>1, <4>1 DEF CloneIsOwed
      <3>3. CASE Alive(s) /\ s.pending_clone # None
        <4> DEFINE op == [pending_flush_cnt |-> s.pending_clone.pending_flush_cnt - 1,
                          flush_failed |-> s.pending_clone.flush_failed \/ ~FALSE]
                   u == [s EXCEPT !.pending_clone = op]
                   v == OnSessionCloned(u, "failed")
        <4>1. op.pending_flush_cnt = 1
          BY <1>1
        <4>2. t = IF e.clone = "no_buffers" THEN [v EXCEPT !.pending_clone = None] ELSE u
          BY <3>1, <3>3, <4>1 DEF OnFlushDoneForClone
        <4>3. /\ DOMAIN u = Fields /\ u.pending_clone = op /\ u.tasks = s.tasks
              /\ u.pending_flushes = s.pending_flushes
              /\ u.cloner = "waiting" /\ u.clone_replies = <<>>
          BY <1>1, FieldNames
        <4> HIDE DEF u, op
        <4>4. CASE e.clone = "no_buffers"
          <5>1. DOMAIN v = Fields /\ v.cloner = "answered" /\ v.clone_replies = <<"failed">>
            BY <4>3, FieldNames DEF OnSessionCloned
          <5> HIDE DEF v
          <5>2. /\ t.cloner = "answered" /\ t.clone_replies = <<"failed">>
                /\ t.pending_clone = None
            BY <4>2, <4>4, <5>1, FieldNames
          <5> QED BY <5>2
        <4>5. CASE e.clone # "no_buffers"
          <5>1. t = u
            BY <4>2, <4>5
          <5>2. OfClone(u) = OfClone(s)
            BY <4>3 DEF OfClone, Completes
          <5>3. t.pending_clone.pending_flush_cnt - 1 = 0 /\ OfClone(t) = {}
            BY <4>1, <4>3, <5>1, <5>2
          <5>4. AtMost(OfClone(t), t.pending_clone.pending_flush_cnt - 1)
            BY <5>3 DEF AtMost
          <5>5. t.cloner = "waiting" /\ t.clone_replies = <<>>
            BY <4>3, <5>1
          <5> QED BY <1>1, <5>4, <5>5
        <4> QED BY <4>4, <4>5
      <3> QED BY <3>2, <3>3
    <2>2. CASE ~rejected
      <3>1. /\ t.pending_flushes = [g \in DOMAIN s.pending_flushes \cup {f} |->
                  IF g = f THEN [producers |-> owed, callback |-> "kTraceClone"]
                  ELSE s.pending_flushes[g]]
            /\ t.tasks = s.tasks /\ t.pending_clone = s.pending_clone /\ t.cloner = s.cloner
            /\ t.clone_replies = s.clone_replies
        BY <1>1, <2>2, FieldNames DEF FlushDataSourceInstances
      <3> HIDE DEF t
      <3>2. f \in Nat
        BY <1>1, LenProperties DEF TypedFlushes
      <3>3. OfClone(t) \subseteq OfClone(s) \cup {f}
        BY <3>1 DEF OfClone, Completes
      <3>4. AtMost(OfClone(t), 1)
        BY <3>2, <3>3 DEF AtMost
      <3> QED BY <1>1, <3>1, <3>4
    <2> QED BY <2>1, <2>2
  <1> HIDE DEF t
  <1>4. CloneIsOwed(t)
    BY <1>2, <1>3 DEF ServiceInv, Clone, CloneIsOwed
  <1>5. RequestIsDue(t, R, "kTraceClone")
    BY <1>2, <1>4 DEF ServiceInv, RequestIsDue
  <1> QED BY <1>5 DEF t

\* A clone is rejected at once or waits for its two flushes.
LEMMA CloneKeeps ==
  ASSUME NEW s, NEW e, NEW R, ServiceInv(s, R), R \subseteq Producers, s.cloner = "idle"
  PROVE  ServiceInv(FlushAndCloneSession(s, e), R)
  <1> DEFINE asked(P) == (DOMAIN s.instances \cap P) \ NoFlush
             w == [s EXCEPT !.cloner = "waiting"]
             r == OnSessionCloned(w, "failed")
             t0 == [s EXCEPT !.cloner = "waiting",
                             !.pending_clone = [pending_flush_cnt |-> 2, flush_failed |-> FALSE]]
             t1 == FlushDataSourceInstances(t0, e, asked(TransferOnClone), "kTraceClone")
  <1>1. /\ DOMAIN s = Fields /\ Settings(s) /\ Instances(s, R) /\ Flushes(s, {}) /\ Clone(s)
        /\ TypedClone(s) /\ DOMAIN s.instances \subseteq R
    BY DEF ServiceInv, Settings, Clone, Instances, SoundInstances, TypedInstances
  <1>2. /\ OfClone(s) = {} /\ s.clone_flushes = 0 /\ s.clone_replies = <<>>
        /\ s.pending_clone = None
    BY <1>1 DEF Clone, TypedClone
  <1>3. ServiceInv(r, R)
    <2>1. /\ DOMAIN w = Fields /\ w.cloner = "waiting" /\ w.clone_replies = <<>>
          /\ Except(s, w, {"cloner"})
      BY <1>1, <1>2, FieldNames DEF Except
    <2> HIDE DEF w
    <2>2. /\ Except(w, r, {"cloner", "clone_replies"})
          /\ r.cloner = "answered" /\ r.clone_replies = Append(w.clone_replies, "failed")
      BY <2>1, ReplyEffect
    <2> HIDE DEF r
    <2>3. Except(s, r, {"cloner", "clone_replies"})
      BY <2>1, <2>2 DEF Except
    <2>4. /\ w.pending_flushes = s.pending_flushes /\ w.tasks = s.tasks
          /\ w.clone_flushes = s.clone_flushes /\ w.pending_clone = s.pending_clone
          /\ r.pending_flushes = s.pending_flushes /\ r.tasks = s.tasks
          /\ r.clone_flushes = s.clone_flushes /\ r.pending_clone = s.pending_clone
          /\ r.state = s.state
      BY <1>1, <2>1, <2>3, FieldNames DEF Except
    <2>5. OfClone(r) = OfClone(w)
      BY <2>4 DEF OfClone, Completes
    <2>6. CloneAnswers(w, r, "failed")
      BY <1>2, <2>1, <2>2, <2>4, <2>5 DEF CloneAnswers
    <2>7. Clone(r)
      BY <2>6, CloneEnds
    <2>8. Alive(r) <=> Alive(s)
      BY <2>4 DEF Alive
    <2>9. Settings(r) /\ Instances(r, R)
      BY <1>1, <2>3, SettingsAreKept, InstancesAreKept
    <2>10. Flushes(r, {})
      BY <1>1, <2>3, <2>8, FlushesAreKept
    <2> QED BY <2>7, <2>9, <2>10 DEF ServiceInv
  <1>4. ASSUME Alive(s)
        PROVE  ServiceInv(FlushDataSourceInstances(t1, e, asked(Producers \ TransferOnClone),
                                                   "kTraceClone"), R)
    <2>1. /\ DOMAIN t0 = Fields /\ t0.cloner = "waiting"
          /\ t0.pending_clone = [pending_flush_cnt |-> 2, flush_failed |-> FALSE]
          /\ t0.pending_flushes = s.pending_flushes /\ t0.tasks = s.tasks
          /\ t0.clone_flushes = 0 /\ t0.clone_replies = <<>> /\ t0.state = s.state
          /\ Except(s, t0, {"cloner", "pending_clone"})
      BY <1>1, <1>2, FieldNames DEF Except
    <2> HIDE DEF t0
    <2>2. OfClone(t0) = {}
      BY <1>2, <2>1 DEF OfClone, Completes
    <2>3. Alive(t0) /\ (Alive(t0) <=> Alive(s))
      BY <1>4, <2>1 DEF Alive
    <2>4. Settings(t0) /\ Instances(t0, R)
      BY <1>1, <2>1, SettingsAreKept, InstancesAreKept
    <2>5. Flushes(t0, {})
      BY <1>1, <2>1, <2>3, FlushesAreKept
    <2>6. CloneIsOwed(t0)
      <3>1. TypedClone(t0)
        BY <2>1, <2>3 DEF TypedClone, Clones
      <3>2. t0.clone_replies # <<"flushed">>
        BY <2>1, NoReply
      <3>3. AtMost(OfClone(t0), 1)
        BY <2>2 DEF AtMost
      <3> QED BY <2>1, <3>1, <3>2, <3>3 DEF CloneIsOwed
    <2>7. RequestIsDue(t0, R, "kTraceClone")
      BY <2>4, <2>5, <2>6 DEF RequestIsDue
    <2>8. asked(TransferOnClone) \in SUBSET Producers
          /\ asked(Producers \ TransferOnClone) \in SUBSET Producers
      BY <1>1
    <2> HIDE DEF asked
    <2>9. RequestIsDue(t1, R, "kTraceClone")
      BY <2>1, <2>2, <2>7, <2>8, SecondIsOwed
    <2> HIDE DEF t1
    <2>10. "kTraceClone" \in Callbacks
      BY DEF Callbacks
    <2> QED BY <2>8, <2>9, <2>10, RequestKeeps
  <1> QED BY <1>3, <1>4 DEF FlushAndCloneSession

\* The session as EnableTracing makes it, before data sources are set up.
LEMMA EnableKeeps ==
  ASSUME NEW e, NEW config \in Config, IsFiniteSet(Producers)
  PROVE  ServiceInv(EnableTracing(NoSession, e, config), Registered)
  <1> DEFINE timed == config.timed \/ config.trigger \in {"STOP_TRACING", "CLONE_SNAPSHOT"}
             t == [NoSession EXCEPT
                     !.state = "CONFIGURED",
                     !.config = [config EXCEPT !.timed = @ \/ config.trigger \in
                                                                 {"STOP_TRACING", "CLONE_SNAPSHOT"}],
                     !.write_into_file = config.file, !.write_period_ms = config.file]
             u == SetupDataSources(t, Registered)
  <1>1. [config EXCEPT !.timed = timed] \in Config
    BY DEF Config
  <1>2. /\ DOMAIN t = Fields /\ t.state = "CONFIGURED" /\ t.config \in Config
        /\ t.instances = <<>> /\ t.last_id = 0 /\ t.running = {} /\ t.timers = {} /\ t.tasks = <<>>
        /\ t.flushes = <<>> /\ t.pending_flushes = <<>> /\ t.pending_clone = None
        /\ t.disabled = 0 /\ t.clone_flushes = 0 /\ t.clone_replies = <<>> /\ t.cloner = "idle"
    BY <1>1, FieldNames DEF NoSession, Fields
  <1> HIDE DEF t
  <1>3. Flushes(t, {}) /\ OfClone(t) = {}
    <2>1. /\ \A S : <<>> \in Seq(S)
          /\ DOMAIN t.tasks = {} /\ DOMAIN t.pending_flushes = {} /\ DOMAIN t.flushes = {}
      BY <1>2, EmptySeq
    <2>2. \A i, f : ~Completes(t, i, f)
      BY <2>1 DEF Completes
    <2>3. TypedFlushes(t)
      BY <1>2, <2>1 DEF TypedFlushes
    <2>4. OnceEach(t, {})
      BY <2>1, <2>2 DEF OnceEach, Queued
    <2> QED BY <2>1, <2>2, <2>3, <2>4 DEF Flushes, AboutToAnswer, OfClone
  <1>4. Clone(t)
    BY <1>2, <1>3, NoReply DEF Clone, TypedClone
  <1>5. TypedInstances(t, Registered)
    <2>1. DOMAIN t.instances = {} /\ t.instances = [p \in {} |-> t.instances[p]]
      BY <1>2
    <2> QED BY <1>2, <2>1 DEF TypedInstances
  <1>6. IsFiniteSet(Registered)
    BY FS_Subset DEF Registered
  <1>7. /\ Except(t, u, {"last_id", "instances"})
        /\ TypedInstances(u, Registered)
        /\ DOMAIN u.instances = Registered
        /\ \A p \in Registered : u.instances[p].state = "CONFIGURED"
    <2>1. \A S : IsFiniteSet(S) /\ S \subseteq Registered /\ S \cap DOMAIN t.instances = {} =>
             LET w == SetupDataSources(t, S)
             IN  /\ Except(t, w, {"last_id", "instances"})
                 /\ TypedInstances(w, Registered)
                 /\ DOMAIN w.instances = DOMAIN t.instances \cup S
                 /\ \A p \in DOMAIN t.instances : w.instances[p] = t.instances[p]
                 /\ \A p \in S : w.instances[p].state = "CONFIGURED"
      <3> HIDE DEF u
      <3>1. DOMAIN t = Fields /\ TypedInstances(t, Registered)
        BY <1>2, <1>5
      <3> QED BY <3>1, SetupEffect
    <2>2. DOMAIN t.instances = {}
      BY <1>2
    <2> HIDE DEF u
    <2>3. /\ Except(t, u, {"last_id", "instances"})
          /\ TypedInstances(u, Registered)
          /\ DOMAIN u.instances = DOMAIN t.instances \cup Registered
          /\ \A p \in Registered : u.instances[p].state = "CONFIGURED"
      <3>1. Registered \subseteq Registered /\ Registered \cap DOMAIN t.instances = {}
        BY <2>2
      <3> QED BY <1>6, <2>1, <3>1, Zenon DEF u
    <2> QED BY <2>2, <2>3
  <1>8. u = SetupDataSources(t, {p \in Producers : producers[p] = "registered"})
    BY DEF Registered
  <1> HIDE DEF u
  <1>9. /\ DOMAIN u = Fields /\ u.state = "CONFIGURED" /\ u.config = t.config
        /\ u.running = {} /\ u.timers = {} /\ u.disabled = 0
    BY <1>2, <1>7, FieldNames DEF Except
  <1>10. Settings(u)
    BY <1>2, <1>9 DEF Settings, States
  <1>11. Instances(u, Registered)
    BY <1>7, <1>9 DEF Instances, SoundInstances, Running, FittingInstances, Fitting, Notified,
                      Disabled
  <1>12. Alive(u) <=> Alive(t)
    BY <1>2, <1>9 DEF Alive
  <1>13. ServiceInv(u, Registered)
    <2>1. Flushes(u, {})
      BY <1>3, <1>7, <1>12, FlushesAreKept
    <2>2. Clone(u)
      BY <1>4, <1>7, <1>12, CloneIsKept
    <2> QED BY <1>10, <1>11, <2>1, <2>2 DEF ServiceInv
  <1>14. ServiceInv(PostDelayedTask(u, Timer("OnStartTriggersTimeout", 0)), Registered)
    BY <1>13, DelayedKeeps DEF TimerOps
  <1>15. ServiceInv(StartTracing(u, e), Registered)
    BY <1>13, StartKeeps
  <1>16. config.deferred \in BOOLEAN
    BY DEF Config
  <1> QED BY <1>8, <1>13, <1>14, <1>15, <1>16 DEF EnableTracing, t

-----------------------------------------------------------------------------
(***************************************************************************)
(* The invariant.                                                          *)
(***************************************************************************)
LEMMA InitHolds == Init => SessionInv
  BY DEF Init, SessionInv

\* A handler that leaves producers alone, in a session that there is.
LEMMA HandlerKeeps ==
  ASSUME SessionInv, UNCHANGED producers, ServiceInv(svc', Registered)
  PROVE  SessionInv'
  <1>1. Registered' = Registered
    BY DEF Registered
  <1>2. ServiceInv(svc', Registered')
    BY <1>1
  <1> QED BY <1>2 DEF SessionInv

\* Before a session there is nothing to handle.
LEMMA SessionThere ==
  ASSUME SessionInv, svc # NoSession \/ svc.state # "NONE" \/ Alive(svc) \/ svc.tasks # <<>>
                     \/ svc.timers # {} \/ svc.cloner # "idle"
  PROVE  ServiceInv(svc, Registered) /\ Registered \subseteq Producers
  BY DEF SessionInv, NoSession, Alive, Registered

\* The calls of the consumer that has the session.
LEMMA ConsumerKeeps ==
  ASSUME SessionInv, SetsAssumption,
         \/ EnableTracingCall \/ StartTracingCall \/ DisableTracingCall \/ FlushCall
         \/ FreeBuffersCall \/ DetachConsumer \/ AttachConsumer \/ ObserveEvents
  PROVE  SessionInv'
  <1>1. CASE EnableTracingCall
    <2>1. svc = NoSession
      BY <1>1 DEF EnableTracingCall, SessionInv, ServiceInv, Settings
    <2>2. PICK config \in Configs[{p \in Producers : producers[p] # "gone"}], e \in Answers :
             svc' = EnableTracing(NoSession, e, config)
      BY <1>1, <2>1 DEF EnableTracingCall, Handle
    <2>3. config \in Config /\ IsFiniteSet(Producers)
      BY DEF SetsAssumption
    <2>4. ServiceInv(svc', Registered)
      BY <2>2, <2>3, EnableKeeps
    <2> QED BY <1>1, <2>4, HandlerKeeps DEF EnableTracingCall
  <1>2. CASE StartTracingCall
    <2>1. PICK e \in Answers : svc' = StartTracing(svc, e)
      BY <1>2 DEF StartTracingCall, Handle
    <2>2. ServiceInv(svc, Registered)
      BY <1>2, SessionThere DEF StartTracingCall, Attached
    <2>3. ServiceInv(svc', Registered)
      BY <2>1, <2>2, StartKeeps
    <2> QED BY <1>2, <2>3, HandlerKeeps DEF StartTracingCall
  <1>3. CASE DisableTracingCall
    <2>1. PICK e \in Answers : svc' = DisableTracing(svc, e, FALSE)
      BY <1>3 DEF DisableTracingCall, Handle
    <2>2. ServiceInv(svc, Registered)
      BY <1>3, SessionThere DEF DisableTracingCall, Attached
    <2>3. ServiceInv(svc', Registered)
      BY <2>1, <2>2, DisableKeeps
    <2> QED BY <1>3, <2>3, HandlerKeeps DEF DisableTracingCall
  <1>4. CASE FlushCall
    <2>1. PICK e \in Answers : svc' = Flush(svc, e, "consumer")
      BY <1>4 DEF FlushCall, Handle
    <2>2. ServiceInv(svc, Registered) /\ Registered \subseteq Producers
      BY <1>4, SessionThere DEF FlushCall, Attached
    <2>3. ServiceInv(svc', Registered)
      BY <2>1, <2>2, FlushKeeps DEF Callbacks
    <2> QED BY <1>4, <2>3, HandlerKeeps DEF FlushCall
  <1>5. CASE FreeBuffersCall
    <2>1. PICK e \in Answers : svc' = FreeBuffers(svc, e)
      BY <1>5 DEF FreeBuffersCall, Handle
    <2>2. ServiceInv(svc, Registered) /\ Alive(svc)
      BY <1>5, SessionThere DEF FreeBuffersCall, Attached
    <2>3. ServiceInv(svc', Registered)
      BY <2>1, <2>2, FreeEffect
    <2> QED BY <1>5, <2>3, HandlerKeeps DEF FreeBuffersCall
  <1>6. CASE DetachConsumer \/ AttachConsumer \/ ObserveEvents
    <2> DEFINE changed == {"consumer", "observing", "did_notify_all_data_source_started"}
    <2>1. /\ ServiceInv(svc, Registered) /\ UNCHANGED producers
          /\ DOMAIN svc = Fields /\ Settings(svc) /\ Instances(svc, Registered)
      BY <1>6, SessionThere DEF DetachConsumer, AttachConsumer, ObserveEvents, Attached,
                                ServiceInv, Settings
    <2>2. Except(svc, svc', changed) /\ Notified(svc')
      <3>1. CASE DetachConsumer
        BY <2>1, <3>1, FieldNames DEF DetachConsumer, Except, Notified
      <3>2. CASE AttachConsumer
        BY <2>1, <3>2, FieldNames DEF AttachConsumer, Except, Notified
      <3>3. CASE ObserveEvents
        <4> DEFINE t == MaybeNotifyAllDataSourcesStarted(svc)
        <4>1. /\ Except(svc, t, {"did_notify_all_data_source_started"})
              /\ svc.consumer /\ AllDataSourceInstancesStarted(svc) =>
                    t.did_notify_all_data_source_started
          BY <2>1, NotifyEffect
        <4>2. svc' = [t EXCEPT !.observing = TRUE] /\ svc.consumer
          BY <3>3 DEF ObserveEvents, Attached
        <4> HIDE DEF t
        <4>3. /\ svc'.instances = svc.instances
              /\ svc'.did_notify_all_data_source_started = t.did_notify_all_data_source_started
              /\ Except(svc, svc', changed)
          BY <2>1, <4>1, <4>2, FieldNames DEF Except
        <4> QED BY <4>1, <4>2, <4>3 DEF Notified, AllDataSourceInstancesStarted
      <3> QED BY <1>6, <3>1, <3>2, <3>3
    <2>3. /\ svc'.state = svc.state /\ svc'.instances = svc.instances
          /\ svc'.running = svc.running /\ svc'.last_id = svc.last_id
          /\ svc'.disabled = svc.disabled
      BY <2>1, <2>2, FieldNames DEF Except
    <2>4. Instances(svc', Registered)
      BY <2>1, <2>2, <2>3 DEF Instances, SoundInstances, TypedInstances, FittingInstances, Disabled
    <2>5. Settings(svc')
      BY <2>1, <2>2, SettingsAreKept
    <2>6. Alive(svc') <=> Alive(svc)
      BY <2>3 DEF Alive
    <2>7. ServiceInv(svc', Registered)
      BY <2>1, <2>2, <2>4, <2>5, <2>6, RestIsKept
    <2> QED BY <2>1, <2>7, HandlerKeeps
  <1> QED BY <1>1, <1>2, <1>3, <1>4, <1>5, <1>6

\* The other consumer, triggers, timeouts and tasks.
LEMMA ServiceKeeps ==
  ASSUME SessionInv,
         \/ CloneSessionCall \/ ClonerDisconnects \/ ActivateTriggersCall \/ RunPostedTask
         \/ \E f \in DOMAIN svc.flushes : FlushTimeout(f)
         \/ \E timer \in svc.timers : RunDelayedTask(timer)
  PROVE  SessionInv'
  <1>1. CASE CloneSessionCall
    <2>1. PICK e : svc' = FlushAndCloneSession(svc, e)
      BY <1>1 DEF CloneSessionCall
    <2>2. ServiceInv(svc, Registered) /\ Registered \subseteq Producers /\ svc.cloner = "idle"
      BY <1>1, SessionThere DEF CloneSessionCall
    <2>3. ServiceInv(svc', Registered)
      BY <2>1, <2>2, CloneKeeps
    <2> QED BY <1>1, <2>3, HandlerKeeps DEF CloneSessionCall
  <1>2. CASE ClonerDisconnects
    <2>1. ServiceInv(svc, Registered) /\ svc.cloner = "waiting"
          /\ DOMAIN svc = Fields /\ Clone(svc)
      BY <1>2, SessionThere DEF ClonerDisconnects, ServiceInv, Settings
    <2>2. Except(svc, svc', {"cloner"}) /\ svc'.cloner = "gone"
      BY <1>2, <2>1, FieldNames DEF ClonerDisconnects, Except
    <2>3. /\ svc'.state = svc.state /\ svc'.tasks = svc.tasks
          /\ svc'.pending_flushes = svc.pending_flushes
          /\ svc'.clone_flushes = svc.clone_flushes /\ svc'.clone_replies = svc.clone_replies
          /\ svc'.pending_clone = svc.pending_clone
      BY <2>1, <2>2, FieldNames DEF Except
    <2>4. OfClone(svc') = OfClone(svc) /\ (Alive(svc') <=> Alive(svc))
      BY <2>3 DEF OfClone, Completes, Alive
    <2>5. Clone(svc')
      BY <2>1, <2>2, <2>3, <2>4 DEF Clone, TypedClone
    <2>6. Settings(svc') /\ Instances(svc', Registered)
      BY <2>1, <2>2, SettingsAreKept, InstancesAreKept DEF ServiceInv
    <2>7. Flushes(svc', {})
      BY <2>1, <2>2, <2>4, FlushesAreKept DEF ServiceInv
    <2>8. ServiceInv(svc', Registered)
      BY <2>5, <2>6, <2>7 DEF ServiceInv
    <2> QED BY <1>2, <2>8, HandlerKeeps DEF ClonerDisconnects
  <1>3. CASE ActivateTriggersCall
    <2>1. PICK delay \in BOOLEAN, e \in Answers : svc' = ActivateTriggers(svc, e, delay)
      BY <1>3 DEF ActivateTriggersCall, Handle
    <2>2. ServiceInv(svc, Registered) /\ Alive(svc)
      BY <1>3, SessionThere DEF ActivateTriggersCall
    <2>3. ServiceInv(svc', Registered)
      BY <2>1, <2>2, TriggersKeep
    <2> QED BY <1>3, <2>3, HandlerKeeps DEF ActivateTriggersCall
  <1>4. CASE RunPostedTask
    <2>1. PICK e \in Answers : svc' = RunTask(svc, e)
      BY <1>4 DEF RunPostedTask, Handle
    <2>2. ServiceInv(svc, Registered) /\ svc.tasks # <<>>
      BY <1>4, SessionThere DEF RunPostedTask
    <2>3. ServiceInv(svc', Registered)
      BY <2>1, <2>2, TaskKeeps
    <2> QED BY <1>4, <2>3, HandlerKeeps DEF RunPostedTask
  <1>5. ASSUME NEW f \in DOMAIN svc.flushes, FlushTimeout(f) PROVE SessionInv'
    <2>1. PICK e \in Answers : svc' = OnFlushTimeout(svc, e, f)
      BY <1>5 DEF FlushTimeout, Handle
    <2>2. ServiceInv(svc, Registered)
      BY <1>5, SessionThere DEF FlushTimeout
    <2>3. ServiceInv(svc', Registered)
      BY <2>1, <2>2, TimeoutKeeps
    <2> QED BY <1>5, <2>3, HandlerKeeps DEF FlushTimeout
  <1>6. ASSUME NEW timer \in svc.timers, RunDelayedTask(timer) PROVE SessionInv'
    <2>1. PICK e \in Answers : svc' = RunTimer(svc, e, timer)
      BY <1>6 DEF RunDelayedTask, Handle
    <2>2. ServiceInv(svc, Registered) /\ Registered \subseteq Producers
      BY <1>6, SessionThere
    <2>3. ServiceInv(svc', Registered)
      BY <2>1, <2>2, TimerKeeps
    <2> QED BY <1>6, <2>3, HandlerKeeps DEF RunDelayedTask
  <1> QED BY <1>1, <1>2, <1>3, <1>4, <1>5, <1>6

\* Producers come, acknowledge and go.
LEMMA ProducerKeeps ==
  ASSUME SessionInv, NEW p \in Producers,
         \/ RegisterDataSourceCall(p) \/ UnregisterDataSourceCall(p) \/ DisconnectProducer(p)
         \/ \E id \in 1 .. svc.last_id : AcknowledgeStart(p, id) \/ AcknowledgeStop(p, id)
         \/ \E f \in DOMAIN svc.flushes : AcknowledgeFlush(p, f)
  PROVE  SessionInv'
  <1>1. ServiceInv(svc, Registered) /\ Registered \subseteq Producers
    BY SessionThere DEF RegisterDataSourceCall, UnregisterDataSourceCall, DisconnectProducer,
                        AcknowledgeStart, AcknowledgeStop, AcknowledgeFlush
  <1>2. producers \in [Producers -> {"connected", "registered", "gone"}]
    BY DEF SessionInv
  <1>3. CASE RegisterDataSourceCall(p)
    <2>1. PICK e \in Answers : svc' = RegisterDataSource(svc, e, p)
      BY <1>3 DEF RegisterDataSourceCall, Handle
    <2>2. p \notin Registered /\ Registered' = Registered \cup {p}
          /\ producers' \in [Producers -> {"connected", "registered", "gone"}]
      BY <1>2, <1>3 DEF RegisterDataSourceCall, Registered
    <2>3. ServiceInv(svc', Registered')
      BY <1>1, <2>1, <2>2, RegisterKeeps
    <2> QED BY <2>2, <2>3 DEF SessionInv
  <1>4. CASE UnregisterDataSourceCall(p) \/ DisconnectProducer(p)
    <2>1. PICK e \in Answers : svc' = UnregisterDataSource(svc, e, p)
      BY <1>4 DEF UnregisterDataSourceCall, DisconnectProducer, Handle
    <2>2. Registered' = Registered \ {p}
          /\ producers' \in [Producers -> {"connected", "registered", "gone"}]
      BY <1>2, <1>4 DEF UnregisterDataSourceCall, DisconnectProducer, Registered
    <2>3. ServiceInv(svc', Registered')
      BY <1>1, <2>1, <2>2, UnregisterKeeps
    <2> QED BY <2>2, <2>3 DEF SessionInv
  <1>5. ASSUME NEW id, AcknowledgeStart(p, id) PROVE SessionInv'
    <2>1. svc' = NotifyDataSourceStarted(svc, p, id)
      BY <1>5 DEF AcknowledgeStart
    <2>2. ServiceInv(svc', Registered)
      BY <1>1, <2>1, StartedKeeps
    <2> QED BY <1>5, <2>2, HandlerKeeps DEF AcknowledgeStart
  <1>6. ASSUME NEW id, AcknowledgeStop(p, id) PROVE SessionInv'
    <2>1. svc' = NotifyDataSourceStopped(svc, p, id)
      BY <1>6 DEF AcknowledgeStop
    <2>2. ServiceInv(svc', Registered)
      BY <1>1, <2>1, StoppedKeeps
    <2> QED BY <1>6, <2>2, HandlerKeeps DEF AcknowledgeStop
  <1>7. ASSUME NEW f \in DOMAIN svc.flushes, AcknowledgeFlush(p, f) PROVE SessionInv'
    <2>1. svc' = NotifyFlushDoneForProducer(svc, p, f)
      BY <1>7 DEF AcknowledgeFlush
    <2>2. f \in Nat
      BY <1>1, LenProperties DEF ServiceInv, Flushes, TypedFlushes
    <2>3. ServiceInv(svc', Registered)
      BY <1>1, <2>1, <2>2, AcknowledgeKeeps
    <2> QED BY <1>7, <2>3, HandlerKeeps DEF AcknowledgeFlush
  <1> QED BY <1>3, <1>4, <1>5, <1>6, <1>7

LEMMA StepHolds ==
  ASSUME SetsAssumption, SessionInv, [Next]_vars
  PROVE  SessionInv'
  <1>1. CASE UNCHANGED vars
    <2>1. svc' = svc /\ producers' = producers
      BY <1>1 DEF vars
    <2>2. Registered' = Registered
      BY <2>1 DEF Registered
    <2> QED BY <2>1, <2>2 DEF SessionInv
  <1>2. CASE Next
    BY <1>2, ConsumerKeeps, ServiceKeeps, ProducerKeeps DEF Next
  <1> QED BY <1>1, <1>2

-----------------------------------------------------------------------------
(***************************************************************************)
(* The theorems.                                                           *)
(***************************************************************************)
\* Whatever producers, consumers and delayed tasks do, and in which order, the
\* settings, instances, flushes and clone of the session are as TracingServiceImpl
\* keeps them: the inductive invariant.
THEOREM SessionInvariant == Spec => []SessionInv
  <1>1. Init => SessionInv
    BY InitHolds
  <1>2. SetsAssumption /\ SessionInv /\ [Next]_vars => SessionInv'
    BY StepHolds
  <1>3. SetsAssumption
    BY SetsAssumption
  <1> QED BY <1>1, <1>2, <1>3, PTL DEF Spec

LEMMA InvariantIsSound == SessionInv => SessionIsSound
  <1> SUFFICES ASSUME SessionInv PROVE SessionIsSound
    OBVIOUS
  <1>1. CASE svc = NoSession
    <2>1. /\ svc.state = "NONE" /\ svc.config = None /\ svc.instances = <<>> /\ svc.flushes = <<>>
          /\ svc.pending_flushes = <<>> /\ svc.running = {} /\ svc.pending_clone = None
          /\ svc.last_id = 0
      BY <1>1 DEF NoSession
    <2>2. DOMAIN svc.instances = {} /\ DOMAIN svc.pending_flushes = {}
      BY <2>1
    <2>3. \A S : <<>> \in Seq(S)
      BY EmptySeq
    <2>4. TypeOK
      BY <2>1, <2>2, <2>3 DEF TypeOK, SessionInv, States
    <2>5. StatesAgree /\ StartedAreStopped /\ AllStartedIsNotified
      BY <2>1, <2>2 DEF StatesAgree, StartedAreStopped, InstanceIds, AllStartedIsNotified
    <2> QED BY <2>4, <2>5 DEF SessionIsSound
  <1>2. CASE ServiceInv(svc, Registered)
    <2>1. /\ Settings(svc) /\ SoundInstances(svc, Registered) /\ FittingInstances(svc)
          /\ Notified(svc) /\ TypedFlushes(svc) /\ TypedClone(svc)
          /\ TypedInstances(svc, Registered)
      BY <1>2 DEF ServiceInv, Instances, SoundInstances, Flushes, Clone
    <2>2. TypeOK
      <3>1. \A p \in DOMAIN svc.instances :
               svc.instances[p] \in [id : 1 .. svc.last_id, state : InstanceStates]
        BY <2>1 DEF TypedInstances
      <3>2. svc.running \subseteq 1 .. svc.last_id
        BY <2>1, <3>1 DEF SoundInstances, Running
      <3>3. svc.pending_clone # None => svc.pending_clone.pending_flush_cnt \in 1 .. 2
        BY <2>1 DEF TypedClone, Clones
      <3>4. DOMAIN svc.instances \subseteq Producers
        BY <2>1 DEF TypedInstances, Registered
      <3>5. \A f \in DOMAIN svc.pending_flushes :
               svc.pending_flushes[f] \in [producers : SUBSET Producers, callback : Callbacks]
        BY <2>1 DEF TypedFlushes
      <3> QED BY <2>1, <3>1, <3>2, <3>3, <3>4, <3>5
              DEF TypeOK, SessionInv, Settings, TypedFlushes
    <2>3. StatesAgree
      <3> DEFINE states == {svc.instances[p].state : p \in DOMAIN svc.instances}
      <3>1. \A state \in states : state \in Fitting(svc.state)
        BY <2>1 DEF FittingInstances
      <3>2. svc.state = "DISABLING_WAITING_STOP_ACKS" => "STOPPING" \in states
        BY <2>1 DEF FittingInstances
      <3>3. \A p \in DOMAIN svc.instances : producers[p] = "registered"
        BY <2>1 DEF TypedInstances, Registered
      <3>4. states = {svc.instances[p].state : p \in DOMAIN svc.instances}
        OBVIOUS
      <3> HIDE DEF states
      <3>5. /\ svc.state = "CONFIGURED" => states \subseteq {"CONFIGURED"}
            /\ svc.state = "STARTED" => states \subseteq {"STARTING", "STARTED"}
            /\ svc.state = "DISABLING_WAITING_STOP_ACKS" => states \subseteq {"STOPPING", "STOPPED"}
            /\ svc.state = "DISABLED" => states \subseteq {"STOPPED"}
        BY <3>1 DEF Fitting
      <3> QED BY <3>2, <3>3, <3>4, <3>5 DEF StatesAgree
    <2>4. StartedAreStopped
      BY <2>1 DEF SoundInstances, Running, StartedAreStopped, InstanceIds
    <2>5. AllStartedIsNotified
      BY <2>1 DEF Notified, AllStartedIsNotified
    <2> QED BY <2>2, <2>3, <2>4, <2>5 DEF SessionIsSound
  <1> QED BY <1>1, <1>2 DEF SessionInv

LEMMA InvariantIsEarned == SessionInv => AnswersAreEarned
  <1> SUFFICES ASSUME SessionInv PROVE AnswersAreEarned
    OBVIOUS
  <1>1. CASE svc = NoSession
    <2>1. /\ svc.state = "NONE" /\ svc.disabled = 0 /\ svc.clone_replies = <<>>
          /\ svc.flushes = <<>>
      BY <1>1 DEF NoSession
    <2>2. DOMAIN svc.flushes = {} /\ Len(svc.clone_replies) = 0
      BY <2>1
    <2> QED BY <2>1, <2>2, NoReply DEF AnswersAreEarned, DisabledOnce, FlushAnsweredOnce,
                                       FlushSuccessIsEarned, CloneOutcomeIsEarned
  <1>2. CASE ServiceInv(svc, Registered)
    <2>1. /\ Disabled(svc) /\ TypedFlushes(svc) /\ OnceEach(svc, {}) /\ Clone(svc)
      BY <1>2 DEF ServiceInv, Instances, Flushes
    <2>2. DisabledOnce
      BY <2>1 DEF Disabled, DisabledOnce
    <2>3. DOMAIN svc.flushes \subseteq Nat
      BY <2>1, LenProperties DEF TypedFlushes
    <2>4. FlushAnsweredOnce
      <3> SUFFICES ASSUME NEW f \in DOMAIN svc.flushes
                   PROVE  LET queued == {i \in DOMAIN svc.tasks :
                                svc.tasks[i].op = "CompleteFlush" /\ svc.tasks[i].f = f}
                              n == svc.flushes[f].answers + Cardinality(queued)
                                   + (IF f \in DOMAIN svc.pending_flushes THEN 1 ELSE 0)
                          IN  IF Alive(svc) THEN n = 1 ELSE n <= 1
        BY DEF FlushAnsweredOnce
      <3> DEFINE queued == {i \in DOMAIN svc.tasks :
                                svc.tasks[i].op = "CompleteFlush" /\ svc.tasks[i].f = f}
      <3>1. svc.flushes[f].answers \in {0, 1}
        BY <2>1 DEF OnceEach
      <3>2. CASE Queued(svc, f)
        <4>1. /\ svc.flushes[f].answers = 0 /\ f \notin DOMAIN svc.pending_flushes
          BY <2>1, <2>3, <3>2 DEF OnceEach
        <4>2. PICK i \in DOMAIN svc.tasks : Completes(svc, i, f)
          BY <3>2 DEF Queued
        <4>3. \A j \in DOMAIN svc.tasks : Completes(svc, j, f) => j = i
          BY <2>1, <2>3, <4>2 DEF OnceEach
        <4>4. queued = {i}
          BY <4>2, <4>3 DEF Completes
        <4>5. Cardinality(queued) = 1
          BY <4>4, FS_Singleton
        <4> HIDE DEF queued
        <4> QED BY <4>1, <4>5 DEF queued
      <3>3. CASE ~Queued(svc, f)
        <4>1. queued = {}
          BY <3>3 DEF Queued, Completes
        <4>2. Cardinality(queued) = 0
          BY <4>1, FS_EmptySet
        <4>3. f \in DOMAIN svc.pending_flushes => svc.flushes[f].answers = 0
          BY <2>1 DEF OnceEach
        <4>4. Alive(svc) /\ svc.flushes[f].answers = 0 => f \in DOMAIN svc.pending_flushes
          BY <2>1, <3>3 DEF OnceEach
        <4> HIDE DEF queued
        <4> QED BY <3>1, <4>2, <4>3, <4>4 DEF queued
      <3> QED BY <3>2, <3>3
    <2>5. FlushSuccessIsEarned
      BY <2>1 DEF OnceEach, FlushSuccessIsEarned
    <2>6. CloneOutcomeIsEarned
      <3>1. svc.clone_replies = <<"flushed">> => svc.clone_flushes = 2
        BY <2>1 DEF Clone
      <3>2. Len(svc.clone_replies) <= 1
        <4>1. TypedClone(svc)
          BY <2>1 DEF Clone
        <4>2. CASE svc.cloner # "answered"
          BY <4>1, <4>2 DEF TypedClone
        <4>3. CASE svc.cloner = "answered"
          <5>1. PICK reply \in {"failed", "unflushed", "flushed"} : svc.clone_replies = <<reply>>
            BY <4>1, <4>3 DEF TypedClone
          <5> QED BY <5>1
        <4> QED BY <4>2, <4>3
      <3> QED BY <3>1, <3>2 DEF CloneOutcomeIsEarned
    <2> QED BY <2>2, <2>4, <2>5, <2>6 DEF AnswersAreEarned
  <1> QED BY <1>1, <1>2 DEF SessionInv

\* The PERFETTO_DCHECKs of DisableTracing, OnDisableTracingTimeout, FreeBuffers
\* and StartDataSourceInstance hold; who was told to start and not to stop is
\* known by an instance; and a consumer is told when all have started, whether
\* the last of them acknowledges, registers or goes.
THEOREM SessionSoundness == Spec => []SessionIsSound
  BY SessionInvariant, InvariantIsSound, PTL

\* A session is disabled once.  Flush, OnFlushTimeout, NotifyFlushDoneForProducer
\* and the posted CompleteFlush answer a request once between them, and report
\* success only when nobody owed it any more.  A clone is answered once, and is
\* said to be flushed only if both of its flushes succeeded.
THEOREM AnswersEarned == Spec => []AnswersAreEarned
  BY SessionInvariant, InvariantIsEarned, PTL

=============================================================================
