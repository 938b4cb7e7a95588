------------------------------ MODULE QuerySlot ------------------------------
(***************************************************************************)
(* QuerySlot and SerialTaskQueue (ui/src/base/query_slot.ts): how a view,  *)
(* which renders synchronously, gets the results of asynchronous queries.  *)
(*                                                                         *)
(* One component owns the slots in Order, which share one queue.  Every    *)
(* render calls use() on each slot with the key it wants now; a key that   *)
(* is neither cached nor pending schedules a query.  Tasks of the queue    *)
(* run one at a time, and what happens between two of their awaits happens *)
(* at once: JavaScript runs it without letting a render in, and a render   *)
(* or a removal, once begun, without letting a task in.                    *)
(*                                                                         *)
(* A key is a function from field names to values.  A result is a number;  *)
(* a result of a slot in Disposable stands for a resource of the trace     *)
(* processor (a temporary table) and exists until it is disposed.          *)
(***************************************************************************)
EXTENDS Integers, Sequences, SequencesExt, FiniteSets

CONSTANTS
    Order,        \* the slots, in the order in which a render uses them
    Keys,         \* slot -> the keys it is used with
    RetainOn,     \* slot -> the fields named in retainOn
    Needs,        \* slot -> the slot whose data enables it, or None
    Disposable,   \* slots whose results are AsyncDisposable
    Cancellable,  \* slots whose queryFn looks at its cancellation signal
    Fallible,     \* slots whose queries and disposals may fail
    MaxChanges,   \* bound on the changes of a key
    None

Slots == ToSet(Order)

ASSUME QuerySlotAssumption ==
    /\ Order \in Seq(Slots) /\ Cardinality(Slots) = Len(Order)
    /\ None \notin Slots
    /\ \A s \in Slots : Keys[s] # {} /\ None \notin Keys[s]
    /\ \A s \in Slots : Needs[s] \in Slots \cup {None}
    /\ Disposable \cup Cancellable \cup Fallible \subseteq Slots
    /\ MaxChanges \in Nat

VARIABLES
    slot,     \* slot -> its members
    pending,  \* SerialTaskQueue.pending: tasks in the order of the Map
    running,  \* the task between its awaits, or NoTask
    exists,   \* slot -> the results of it that have not been disposed
    mounted,  \* the component has not been removed
    todo,     \* the slots that the render, or the removal, has yet to call
    want,     \* slot -> the key of the next render
    changes

vars == <<slot, pending, running, exists, mounted, todo, want, changes>>

\* table is the result of another slot that the query reads, or None.
Task(kind, s, key, table) ==
    [kind |-> kind, slot |-> s, key |-> key, table |-> table,
     cancelled |-> FALSE, at |-> "start"]

NoTask == Task("none", None, None, None)

\* The cache of a slot that has none.
NoCache == [key |-> None, data |-> None]

Init ==
    /\ slot = [s \in Slots |->
                 [cache |-> NoCache, pendingKey |-> None, disposed |-> FALSE, error |-> None]]
    /\ pending = <<>>
    /\ running = NoTask
    /\ exists = [s \in Slots |-> {}]
    /\ mounted = TRUE
    /\ todo = <<>>
    /\ want \in {w \in [Slots -> UNION {Keys[s] : s \in Slots}] : \A s \in Slots : w[s] \in Keys[s]}
    /\ changes = 0

-----------------------------------------------------------------------------
(***************************************************************************)
(* The queue.  st is the part of the state that schedule(), cancel() and   *)
(* use() change: the slots, the pending tasks and the running one.         *)
(***************************************************************************)
Now == [slot |-> slot, pending |-> pending, running |-> running]

Become(st) ==
    /\ slot' = st.slot
    /\ pending' = st.pending
    /\ running' = st.running

\* disposeCache() has a resource to dispose.
HasResource(st, s) == s \in Disposable /\ st.slot[s].cache # NoCache

\* Mutant: a query replaces the cached resource without disposing it.
StartedWithoutDisposal(st, t) ==
    [t EXCEPT !.at = IF t.kind = "dispose" THEN "disposing" ELSE "querying"]

\* A task runs up to its first await: the disposal of the cached resource or,
\* without one, the query.
Started(st, t) ==
    [t EXCEPT !.at = IF t.kind = "dispose" \/ HasResource(st, t.slot)
                     THEN "disposing" ELSE "querying"]

RunNext(st) ==
    IF st.running # NoTask \/ st.pending = <<>>
    THEN st
    ELSE [st EXCEPT !.running = Started(st, Head(st.pending)),
                    !.pending = Tail(st.pending)]

\* Mutant: a task of the same slot that is still waiting is not replaced.
ScheduleKeepsFirst(st, t) ==
    RunNext(IF \E i \in DOMAIN st.pending : st.pending[i].slot = t.slot
            THEN st ELSE [st EXCEPT !.pending = Append(@, t)])

\* Where the Map has a task of the slot: it has one at most.
Places(st, s) == {i \in DOMAIN st.pending : st.pending[i].slot = s}

\* Map.set keeps the place of a key that is already there.
Schedule(st, t) ==
    LET same == Places(st, t.slot)
    IN  RunNext([st EXCEPT !.pending =
                   IF same = {} THEN Append(@, t)
                   ELSE [i \in DOMAIN @ |-> IF i \in same THEN t ELSE @[i]]])

Cancel(st, s) ==
    [st EXCEPT !.pending =
       IF Places(st, s) = {} THEN @
       ELSE RemoveAt(@, CHOOSE i \in Places(st, s) : TRUE)]

-----------------------------------------------------------------------------
(***************************************************************************)
(* QuerySlot.use()                                                         *)
(***************************************************************************)
CanUseStaleData(cached, current, retain) ==
    /\ \A f \in DOMAIN current :
          (f \in DOMAIN cached /\ cached[f] = current[f]) \/ f \in retain
    /\ DOMAIN cached \ DOMAIN current \subseteq retain

IsFresh(s) == slot[s].cache.key = want[s]

\* The data that use() returns, or None for undefined.
DataOf(s) ==
    LET cache == slot[s].cache
    IN  IF \/ cache = NoCache
           \/ ~IsFresh(s) /\ ~CanUseStaleData(cache.key, want[s], RetainOn[s])
        THEN None
        ELSE cache.data

\* The data of the slot it needs, which the queryFn of this render closes over.
TableOf(s) == IF Needs[s] = None THEN None ELSE DataOf(Needs[s])

CanRun(s) == Needs[s] = None \/ TableOf(s) # None

\* The signal that use() sets is the one of the query scheduled last; it matters
\* while that query runs.
CancelInFlight(st, s) ==
    [st EXCEPT !.running.cancelled = @ \/ st.running.slot = s]

\* There is no query for the key that a slot is used with, and one can run.
Due(s) ==
    /\ slot[s].pendingKey # want[s]
    /\ ~IsFresh(s)
    /\ CanRun(s)

\* A render begins.
Render ==
    /\ mounted /\ todo = <<>>
    /\ todo' = Order
    /\ UNCHANGED <<slot, pending, running, exists, mounted, want, changes>>

\* It uses the slots in order, up to one that throws the error of its key.
Use ==
    /\ mounted /\ todo # <<>>
    /\ LET s == Head(todo)
           scheduled == Schedule([CancelInFlight(Now, s) EXCEPT !.slot[s].pendingKey = want[s]],
                                 Task("query", s, want[s], TableOf(s)))
       IN  IF slot[s].error = want[s]
           THEN todo' = <<>> /\ UNCHANGED <<slot, pending, running>>
           ELSE todo' = Tail(todo) /\ Become(IF Due(s) THEN scheduled ELSE Now)
    /\ UNCHANGED <<exists, mounted, want, changes>>

\* The parameters of the view change.
ChangeKey(s) ==
    /\ mounted /\ todo = <<>>
    /\ changes < MaxChanges
    /\ \E k \in Keys[s] \ {want[s]} : want' = [want EXCEPT ![s] = k]
    /\ changes' = changes + 1
    /\ UNCHANGED <<slot, pending, running, exists, mounted, todo>>

\* onremove() of the component begins.
OnRemove ==
    /\ mounted /\ todo = <<>>
    /\ mounted' = FALSE
    /\ todo' = Order
    /\ UNCHANGED <<slot, pending, running, exists, want, changes>>

\* It disposes the slots in order.
Dispose ==
    /\ ~mounted /\ todo # <<>>
    /\ LET s == Head(todo)
           disposed == [Now EXCEPT !.slot[s].disposed = TRUE, !.slot[s].pendingKey = None]
       IN  Become(Schedule(Cancel(disposed, s), Task("dispose", s, None, None)))
    /\ todo' = Tail(todo)
    /\ UNCHANGED <<exists, mounted, want, changes>>

-----------------------------------------------------------------------------
(***************************************************************************)
(* The running task, from one await to the next.  When it ends, the queue  *)
(* starts the next one.                                                    *)
(***************************************************************************)
\* Mutant: the key stays pending when its query has ended.
ClearPendingNever(me, key) == me

ClearPending(me, key) ==
    IF me.pendingKey = key THEN [me EXCEPT !.pendingKey = None] ELSE me

FinaliseQuery(me, key, cache) == [ClearPending(me, key) EXCEPT !.cache = cache]

FinaliseError(me, key) == [ClearPending(me, key) EXCEPT !.error = key]

EndTask(me) ==
    Become(RunNext([Now EXCEPT !.slot[running.slot] = me, !.running = NoTask]))

\* await this.cache.data[Symbol.asyncDispose]() returns, or there was nothing
\* to dispose.
DisposeCacheDone ==
    /\ todo = <<>> /\ running.at = "disposing"
    /\ LET s  == running.slot
           me == slot[s]
           empty == [me EXCEPT !.cache = IF s \in Disposable THEN NoCache ELSE @]
       IN  /\ exists' = [exists EXCEPT ![s] = IF HasResource(Now, s) THEN @ \ {me.cache.data} ELSE @]
           /\ IF running.kind = "dispose"
              THEN EndTask(empty)
              ELSE /\ slot' = [slot EXCEPT ![s] = empty]
                   /\ running' = [running EXCEPT !.at = "querying"]
                   /\ UNCHANGED pending
    /\ UNCHANGED <<mounted, todo, want, changes>>

\* It throws: the cache keeps its entry.  A query reports the error; the queue
\* logs that of a dispose task.
DisposeCacheFails ==
    /\ todo = <<>> /\ running.at = "disposing"
    /\ running.slot \in Fallible /\ HasResource(Now, running.slot)
    /\ EndTask(IF running.kind = "dispose" THEN slot[running.slot]
               ELSE FinaliseError(slot[running.slot], running.key))
    /\ UNCHANGED <<exists, mounted, todo, want, changes>>

\* Results are told apart for as long as one exists or a task refers to it.
Known(s) ==
    LET waiting == {pending[i] : i \in DOMAIN pending} \cup {running}
    IN  exists[s] \cup {t.table : t \in {u \in waiting : u.table # None /\ Needs[u.slot] = s}}

\* The first that is free.
IsNewResult(s, r) == r \notin Known(s) /\ 1 .. r - 1 \subseteq Known(s)

QueryReturns ==
    /\ todo = <<>> /\ running.at = "querying"
    /\ LET s == running.slot
       IN  \E r \in 1 .. Cardinality(Known(s)) + 1 :
             /\ IsNewResult(s, r)
             /\ exists' = [exists EXCEPT ![s] = IF s \in Disposable THEN @ \cup {r} ELSE @]
             /\ EndTask(FinaliseQuery(slot[s], running.key, [key |-> running.key, data |-> r]))
    /\ UNCHANGED <<mounted, todo, want, changes>>

\* queryFn has seen its signal and returns, or throws, QUERY_CANCELLED.
QueryCancelled ==
    /\ todo = <<>> /\ running.at = "querying"
    /\ running.cancelled /\ running.slot \in Cancellable
    /\ EndTask(FinaliseQuery(slot[running.slot], running.key, slot[running.slot].cache))
    /\ UNCHANGED <<exists, mounted, todo, want, changes>>

QueryFails ==
    /\ todo = <<>> /\ running.at = "querying"
    /\ running.slot \in Fallible
    /\ EndTask(FinaliseError(slot[running.slot], running.key))
    /\ UNCHANGED <<exists, mounted, todo, want, changes>>

RunningTask ==
    \/ DisposeCacheDone
    \/ DisposeCacheFails
    \/ QueryReturns
    \/ QueryCancelled
    \/ QueryFails

Next ==
    \/ Render \/ Use
    \/ \E s \in Slots : ChangeKey(s)
    \/ OnRemove \/ Dispose
    \/ RunningTask

Spec == Init /\ [][Next]_vars

\* A query that was started ends, and a view that changed or whose query ended
\* (m.redraw()) is rendered.  Renders that follow each other do not keep the
\* result of a query from its callback.
Fairness ==
    /\ WF_vars(Render)
    /\ WF_vars(Use \/ Dispose)
    /\ SF_vars(RunningTask)

FairSpec == Spec /\ Fairness

-----------------------------------------------------------------------------
(***************************************************************************)
(* Properties                                                              *)
(***************************************************************************)
Outstanding(s) ==
    {t \in {pending[i] : i \in DOMAIN pending} \cup {running} : t.slot = s}

\* A temporary table that a query created is reachable from its slot, which
\* will dispose it, and the slot never hands out one that is gone: whatever
\* disposal, failure, cancellation, removal and re-query come in between.  Once
\* a removed component's queue has drained, only a failed disposal leaves one.
ResourcesAreOwned ==
    /\ \A s \in Disposable :
          exists[s] = IF slot[s].cache = NoCache THEN {} ELSE {slot[s].cache.data}
    /\ ~mounted /\ todo = <<>> /\ running = NoTask
          => /\ pending = <<>>
             /\ \A s \in Disposable \ Fallible : exists[s] = {}

\* isPending is never shown for nothing: the query whose key a slot waits for
\* is in the queue or running, after replacements, failures and removals too.
PendingIsWorkedOn ==
    \A s \in Slots :
        slot[s].pendingKey # None
            => \E t \in Outstanding(s) : t.kind = "query" /\ t.key = slot[s].pendingKey

\* Serial execution prevents races on temporary tables: the table that a query
\* reads exists while it runs.
QueriesReadLiveTables ==
    running.at = "querying" /\ running.table # None
        /\ Needs[running.slot] \in Disposable
        => running.table \in exists[Needs[running.slot]]

Settled(s) ==
    \/ ~mounted
    \/ slot[s].cache.key = want[s]
    \/ \E r \in Slots : slot[r].error = want[r]

\* A slot that depends on no other and whose query neither owns a resource nor
\* heeds its signal ends up with the data of the last key, or the view with an
\* error, however the keys changed on the way and whatever other slots do.
PlainSlotsSettle ==
    \A s \in {r \in Slots \ (Disposable \cup Cancellable) : Needs[r] = None} :
        <>[]Settled(s)
=============================================================================
