---------------------------- MODULE SurrealStore ----------------------------
(***************************************************************************)
(* The item store: any number of SurrealStore objects on one database,     *)
(* used by any number of threads.  batch() groups its operations and       *)
(* carries them out query by query under the object's lock: reads first,   *)
(* then puts, whose items and vectors live in two tables.  sweep_ttl()     *)
(* removes what has expired.                                               *)
(*                                                                         *)
(* Every query, and every call of the embedding function, is one step and  *)
(* may fail; a statement whose call failed may still have run.             *)
(***************************************************************************)
EXTENDS StoreDb

CONSTANTS Client,      \* threads that call stores
          Store,       \* SurrealStore objects
          StoreOf,     \* the object each thread calls
          Settings,    \* Settings[s]: index enabled, embeddings given, TTL enabled
          Free,        \* value of a lock nobody holds
          Calls,       \* the calls threads may make
          MaxCalls,    \* bound: calls per thread
          MaxFailures, \* bound: queries that fail
          MaxTime      \* bound: the clock stops here

CallType == [op: {"batch"}, ops: Batch] \cup [op: {"setup", "probe", "sweep"}]
NoCall   == [op |-> "none"]

ASSUME StoreOfAssumption  == StoreOf \in [Client -> Store]
ASSUME SettingsAssumption ==
    /\ Settings \in [Store -> [index: BOOLEAN, embed: BOOLEAN, ttl: BOOLEAN]]
    /\ \A s \in Store : Settings[s].embed => Settings[s].index
ASSUME FreeAssumption     == Free \notin Client
ASSUME CallsAssumption    == Calls \subseteq CallType
ASSUME BoundsAssumption   == MaxCalls \in Nat /\ MaxFailures \in Nat /\ MaxTime \in Nat

VARIABLES
    schema,   \* the schema scripts that have run: "store", "index"
    items,    \* rows of the store table
    vectors,  \* rows of the vector table
    now,      \* the time
    lock,     \* lock[s]: the thread that holds store s's lock, or Free
    is_setup, \* is_setup[s]
    cached,   \* cached[s]: the cached properties of its repositories, None before use
    pc,       \* where each thread is in its call
    call,     \* the call each thread is making
    todo,     \* operations of the batch not begun
    due,      \* expiries to write after a read
    ready,    \* puts prepared and not yet stored
    gone,     \* items swept whose vectors are still there
    result,   \* results so far, by position in the batch: items found, or namespaces
    reply,    \* what the last call returned
    made,     \* calls made so far
    failures  \* queries that failed so far

db     == <<schema, items, vectors>>
locals == <<todo, due, ready, gone, result>>
vars   == <<schema, items, vectors, now, lock, is_setup, cached, pc, call, todo, due,
            ready, gone, result, reply, made, failures>>

-----------------------------------------------------------------------------

Outcome(how) == [status |-> how, results |-> <<>>]
NoReply      == Outcome("none")
Done(r)      == [status |-> "ok", results |-> r]

My(c)    == StoreOf[c]
With(c)  == Settings[StoreOf[c]]
Ops(c)   == call[c].ops

Goto(c, label) == pc' = [pc EXCEPT ![c] = label]

\* The call ends, and its locals are gone.
End(c, r) ==
    /\ Goto(c, "idle")
    /\ reply' = [reply EXCEPT ![c] = r]
    /\ todo' = [todo EXCEPT ![c] = {}]
    /\ due' = [due EXCEPT ![c] = {}]
    /\ ready' = [ready EXCEPT ![c] = <<>>]
    /\ gone' = [gone EXCEPT ![c] = {}]
    /\ result' = [result EXCEPT ![c] = <<>>]

\* The call ends and the with-statement is left: the lock is free.
Leave(c, r) == End(c, r) /\ lock' = [lock EXCEPT ![My(c)] = Free]

\* The call raises of its own accord.
Raise(c) ==
    /\ Leave(c, Outcome("raised"))
    /\ UNCHANGED <<is_setup, cached, call, made, failures>>

\* A plain acquire() with no release on the way of an exception.
QueryErrorKeepingLock(c) ==
    /\ failures < MaxFailures
    /\ failures' = failures + 1
    /\ End(c, Outcome("raised"))
    /\ UNCHANGED <<lock, is_setup, cached, call, made>>

\* A query, or the embedding function, raised.
QueryError(c) ==
    /\ failures < MaxFailures
    /\ failures' = failures + 1
    /\ Leave(c, Outcome("raised"))
    /\ UNCHANGED <<is_setup, cached, call, made>>

\* The call goes on under the lock it has.
GoOn(c, label) ==
    /\ Goto(c, label)
    /\ UNCHANGED <<lock, is_setup, call, reply, made, failures>>

-----------------------------------------------------------------------------
(* Calls, and getting ready for them *)

Init ==
    /\ schema \in {{}, {"store"}, {"store", "index"}}
    /\ items = EmptyItems
    /\ vectors = EmptyVectors
    /\ now = 0
    /\ lock = [s \in Store |-> Free]
    /\ is_setup = [s \in Store |-> FALSE]
    /\ cached = [s \in Store |-> [installed |-> None, indexed |-> None, search |-> None]]
    /\ pc = [c \in Client |-> "idle"]
    /\ call = [c \in Client |-> NoCall]
    /\ todo = [c \in Client |-> {}]
    /\ due = [c \in Client |-> {}]
    /\ ready = [c \in Client |-> <<>>]
    /\ gone = [c \in Client |-> {}]
    /\ result = [c \in Client |-> <<>>]
    /\ reply = [c \in Client |-> NoReply]
    /\ made = [c \in Client |-> 0]
    /\ failures = 0

Begin(c, m) ==
    /\ pc[c] = "idle"
    /\ made[c] < MaxCalls
    /\ made' = [made EXCEPT ![c] = @ + 1]
    /\ call' = [call EXCEPT ![c] = m]
    /\ reply' = [reply EXCEPT ![c] = NoReply]
    /\ Goto(c, IF m.op = "setup" THEN "setup_lock"
               ELSE IF m.op = "probe" THEN "probe_lock" ELSE "ensure")
    /\ UNCHANGED <<db, now, lock, is_setup, cached, locals, failures>>

Invoke(c) == \E m \in Calls : Begin(c, m)

\* _ensure_ready reads is_setup without the lock.
EnsureReady(c) ==
    /\ pc[c] = "ensure"
    /\ Goto(c, IF is_setup[My(c)] THEN "lock" ELSE "probe_lock")
    /\ UNCHANGED <<db, now, lock, is_setup, cached, call, locals, reply, made, failures>>

Acquire(c, label) ==
    /\ lock' = [lock EXCEPT ![My(c)] = c]
    /\ Goto(c, label)
    /\ UNCHANGED <<locals, reply>>

SetupLock(c) ==
    /\ pc[c] = "setup_lock"
    /\ lock[My(c)] = Free
    /\ IF is_setup[My(c)] THEN Leave(c, Outcome("ok")) ELSE Acquire(c, "setup_store")
    /\ UNCHANGED <<db, now, is_setup, cached, call, made, failures>>

\* The object is ready, and so is the call that made it so.
SetUp(c) ==
    /\ is_setup' = [is_setup EXCEPT ![My(c)] = TRUE]
    /\ Leave(c, Outcome("ok"))
    /\ UNCHANGED <<cached, call, made, failures>>

\* A script is one step here.  What a probe looks for, is_installed or the parameter
\* behind is_index_enabled, is defined at its end, so that to the stores one that stopped
\* half-way has not run.
\* The vector repository does nothing when the index is not enabled.
SetupStore(c) ==
    /\ pc[c] = "setup_store"
    /\ \/ /\ schema' = schema \cup {"store"}
          /\ IF With(c).index
             THEN GoOn(c, "setup_vectors") /\ UNCHANGED <<cached, locals>>
             ELSE SetUp(c)
       \/ /\ schema' \in {schema, schema \cup {"store"}}
          /\ QueryError(c)
    /\ UNCHANGED <<items, vectors, now>>

SetupVectors(c) ==
    /\ pc[c] = "setup_vectors"
    /\ \/ /\ schema' = schema \cup {"index"}
          /\ SetUp(c)
       \/ /\ schema' \in {schema, schema \cup {"index"}}
          /\ QueryError(c)
    /\ UNCHANGED <<items, vectors, now>>

\* Where probe() goes when the store is ready: back to its caller, or on to the
\* call that _ensure_ready was made for.
Probed(c) ==
    IF call[c].op = "probe"
    THEN Leave(c, Outcome("ok"))
    ELSE /\ Goto(c, "lock")
         /\ lock' = [lock EXCEPT ![My(c)] = Free]
         /\ UNCHANGED <<locals, reply>>

ProbeLock(c) ==
    /\ pc[c] = "probe_lock"
    /\ lock[My(c)] = Free
    /\ IF is_setup[My(c)] THEN Probed(c) ELSE Acquire(c, "probe_store")
    /\ UNCHANGED <<db, now, is_setup, cached, call, made, failures>>

Ready(c) ==
    /\ is_setup' = [is_setup EXCEPT ![My(c)] = TRUE]
    /\ Probed(c)
    /\ UNCHANGED <<call, made, failures>>

\* is_installed, a cached property: once it has answered it is not asked again.
\* The function it calls exists only once the script has run.
ProbeStore(c) ==
    /\ pc[c] = "probe_store"
    /\ \/ /\ cached[My(c)].installed # None \/ "store" \in schema
          /\ cached' = [cached EXCEPT ![My(c)].installed = TRUE]
          /\ IF With(c).index
             THEN GoOn(c, "probe_vectors") /\ UNCHANGED locals
             ELSE Ready(c)
       \/ cached[My(c)].installed = None /\ "store" \notin schema /\ Raise(c)
       \/ cached[My(c)].installed = None /\ QueryError(c)
    /\ UNCHANGED <<db, now>>

\* Probing the store schema alone.
ProbeVectorsUnchecked(c) ==
    /\ pc[c] = "probe_vectors"
    /\ Ready(c)
    /\ UNCHANGED <<db, now, cached>>

\* is_index_enabled of the vector repository is cached as well, a false answer
\* included: a probe that came too early fails for good.
ProbeVectors(c) ==
    /\ pc[c] = "probe_vectors"
    /\ LET enabled == IF cached[My(c)].indexed # None THEN cached[My(c)].indexed
                      ELSE "index" \in schema
       IN \/ /\ cached' = [cached EXCEPT ![My(c)].indexed = enabled]
             /\ \/ enabled /\ Ready(c)
                \/ ~ enabled /\ Leave(c, Outcome("raised"))
                             /\ UNCHANGED <<is_setup, call, made, failures>>
          \/ cached[My(c)].indexed = None /\ QueryError(c)
    /\ UNCHANGED <<db, now>>

\* Under the lock: a batch starts with all its effective operations to do.
StartWork(c) ==
    /\ IF call[c].op = "sweep"
       THEN Goto(c, "sweep") /\ UNCHANGED <<todo, result>>
       ELSE /\ Goto(c, "work")
            /\ todo' = [todo EXCEPT ![c] = Effective(Ops(c))]
            /\ result' = [result EXCEPT ![c] = [i \in DOMAIN Ops(c) |-> {}]]
    /\ UNCHANGED <<db, now, is_setup, cached, call, due, ready, gone, reply, made, failures>>

\* Reading without the lock.
LockUnlessReading(c) ==
    /\ pc[c] = "lock"
    /\ IF call[c].op = "batch" /\ \A i \in DOMAIN Ops(c) : ~ IsPut(Ops(c), i)
       THEN UNCHANGED lock
       ELSE lock[My(c)] = Free /\ lock' = [lock EXCEPT ![My(c)] = c]
    /\ StartWork(c)

Lock(c) ==
    /\ pc[c] = "lock"
    /\ lock[My(c)] = Free
    /\ lock' = [lock EXCEPT ![My(c)] = c]
    /\ StartWork(c)

-----------------------------------------------------------------------------
(* Reads *)

\* Operation i is the next one of c's batch, and of kind op.
Current(c, i) == i \in todo[c] /\ \A j \in todo[c] : Before(Ops(c), i, j)
Turn(c, i, op) == pc[c] = "work" /\ Current(c, i) /\ Ops(c)[i].op = op

Begun(c, i) == todo' = [todo EXCEPT ![c] = @ \ {i}]

Report(c, i, r) == result' = [result EXCEPT ![c][i] = r]

\* The expiries to write for items read, each computed from the row as it was read.
Refreshes(keys) ==
    {[item |-> k, at |-> now + items[k].ttl] : k \in {r \in keys : items[r].ttl # None}}

GetItem(c) == \E i \in todo[c] :
    /\ Turn(c, i, "get")
    /\ LET found == {Ops(c)[i].item} \cap Rows(items)
       IN \/ /\ Begun(c, i)
             /\ Report(c, i, {Item(items, k) : k \in found})
             /\ due' = [due EXCEPT ![c] = IF Ops(c)[i].refresh_ttl /\ With(c).ttl
                                          THEN Refreshes(found) ELSE {}]
             /\ GoOn(c, IF due'[c] = {} THEN "work" ELSE "refresh")
             /\ UNCHANGED <<cached, ready, gone>>
          \/ QueryError(c)
    /\ UNCHANGED <<db, now>>

\* UPDATE ONLY of a row that is gone finds nothing; whether that is an error is
\* the database's to say.
Refresh(c) == \E d \in due[c] :
    /\ pc[c] = "refresh"
    /\ \/ /\ items' = IF items[d.item] = NoRow THEN items
                      ELSE UpdateExpiry(items, d.item, d.at)
          /\ due' = [due EXCEPT ![c] = @ \ {d}]
          /\ GoOn(c, IF due'[c] = {} THEN "work" ELSE "refresh")
          /\ UNCHANGED <<cached, todo, ready, gone, result>>
       \/ items[d.item] = NoRow /\ Raise(c) /\ UNCHANGED items
       \/ /\ \/ UNCHANGED items
             \/ items[d.item] # NoRow /\ items' = UpdateExpiry(items, d.item, d.at)
          /\ QueryError(c)
    /\ UNCHANGED <<schema, vectors, now>>

\* Queries of the batch are embedded together before its first search.  A query
\* without an index, or an index without embeddings, is an error.
BadQuery(c, i) ==
    \/ Ops(c)[i].query /\ ~ With(c).index
    \/ /\ With(c).index /\ ~ With(c).embed
       /\ \E j \in DOMAIN Ops(c) : Ops(c)[j].op = "search" /\ Ops(c)[j].query

\* The store repository's own is_index_enabled, asked by its first search.
AskIndex(c) == \E i \in todo[c] :
    /\ Turn(c, i, "search")
    /\ ~ BadQuery(c, i)
    /\ cached[My(c)].search = None
    /\ \/ /\ cached' = [cached EXCEPT ![My(c)].search = "index" \in schema]
          /\ GoOn(c, "work")
          /\ UNCHANGED locals
       \/ QueryError(c)
    /\ UNCHANGED <<db, now>>

SearchItems(c) == \E i \in todo[c] :
    /\ Turn(c, i, "search")
    /\ ~ BadQuery(c, i)
    /\ cached[My(c)].search # None
    /\ Ops(c)[i].query => cached[My(c)].search
    /\ \/ \E hits \in Hits(items, vectors, Ops(c)[i]) :
             IF hits \subseteq Rows(items)
             THEN /\ Begun(c, i)
                  /\ Report(c, i, {Item(items, k) : k \in hits})
                  /\ due' = [due EXCEPT ![c] = IF Ops(c)[i].refresh_ttl /\ With(c).ttl
                                               THEN Refreshes(hits) ELSE {}]
                  /\ GoOn(c, IF due'[c] = {} THEN "work" ELSE "refresh")
                  /\ UNCHANGED <<cached, ready, gone>>
             ELSE Raise(c)
       \/ QueryError(c)
    /\ UNCHANGED <<db, now>>

\* A search that cannot be made: see BadQuery, and search() of the repository.
SearchRefused(c) == \E i \in todo[c] :
    /\ Turn(c, i, "search")
    /\ BadQuery(c, i) \/ (Ops(c)[i].query /\ cached[My(c)].search = FALSE)
    /\ Raise(c)
    /\ UNCHANGED <<db, now>>

\* One query serves all listings of a batch.
ListNamespaces(c) ==
    /\ \E i \in todo[c] : Turn(c, i, "list_namespaces")
    /\ LET listings == {i \in todo[c] : Ops(c)[i].op = "list_namespaces"} IN
       \/ /\ todo' = [todo EXCEPT ![c] = @ \ listings]
          /\ result' = [result EXCEPT ![c] = [i \in DOMAIN @ |->
                           IF i \in listings THEN Namespaces(items) ELSE @[i]]]
          /\ GoOn(c, "work")
          /\ UNCHANGED <<cached, due, ready, gone>>
       \/ QueryError(c)
    /\ UNCHANGED <<db, now>>
-----------------------------------------------------------------------------
(* Puts *)

\* The item is looked up; a deletion is sent at once, a value is kept for later.
PreparePut(c) == \E i \in todo[c] :
    /\ Turn(c, i, "put")
    /\ LET op == Ops(c)[i] IN
       \/ /\ ~ Removes(op)
          /\ ready' = [ready EXCEPT ![c] = Append(@,
                 [item |-> op.item, row |-> NewRow(op, now),
                  fields |-> IF With(c).embed THEN op.fields ELSE <<>>])]
          /\ Begun(c, i)
          /\ GoOn(c, "work")
          /\ UNCHANGED <<cached, due, gone, result>>
       \/ /\ Removes(op) /\ items[op.item] = NoRow
          /\ Begun(c, i)
          /\ GoOn(c, "work")
          /\ UNCHANGED <<cached, due, ready, gone, result>>
       \/ /\ Removes(op) /\ items[op.item] # NoRow
          /\ GoOn(c, IF With(c).index THEN "delete_vectors" ELSE "delete_item")
          /\ UNCHANGED <<cached, locals>>
       \/ QueryError(c)
    /\ UNCHANGED <<db, now>>

\* Deleting the item first and its vectors afterwards.
DeleteItemFirst(c) == \E i \in todo[c] :
    /\ pc[c] = "delete_vectors" /\ Current(c, i)
    /\ items' = Delete(items, Ops(c)[i].item)
    /\ GoOn(c, "delete_item")
    /\ UNCHANGED <<cached, locals, schema, vectors, now>>

DeleteVectors(c) == \E i \in todo[c] :
    /\ pc[c] = "delete_vectors" /\ Current(c, i)
    /\ LET left == DeleteByItem(vectors, Ops(c)[i].item) IN
       \/ /\ vectors' = left
          /\ GoOn(c, "delete_item")
          /\ UNCHANGED <<cached, locals>>
       \/ vectors' \in {vectors, left} /\ QueryError(c)
    /\ UNCHANGED <<schema, items, now>>

\* DELETE ONLY of a row that is gone is the database's to accept or not.
DeleteItem(c) == \E i \in todo[c] :
    /\ pc[c] = "delete_item" /\ Current(c, i)
    /\ LET k == Ops(c)[i].item IN
       \/ /\ items' = Delete(items, k)
          /\ Begun(c, i)
          /\ GoOn(c, "work")
          /\ UNCHANGED <<cached, due, ready, gone, result>>
       \/ items[k] = NoRow /\ Raise(c) /\ UNCHANGED items
       \/ items' \in {items, Delete(items, k)} /\ QueryError(c)
    /\ UNCHANGED <<schema, vectors, now>>

\* All puts are prepared: their texts are embedded in one call.
Embed(c) ==
    /\ pc[c] = "work" /\ todo[c] = {} /\ ready[c] # <<>>
    /\ \/ GoOn(c, "store") /\ UNCHANGED <<cached, locals>>
       \/ With(c).embed /\ QueryError(c)
    /\ UNCHANGED <<db, now>>

\* The first of the prepared puts is stored; the next one follows.
Stored(c) ==
    /\ ready' = [ready EXCEPT ![c] = Tail(@)]
    /\ GoOn(c, IF Tail(ready[c]) = <<>> THEN "work" ELSE "store")
    /\ UNCHANGED <<cached, todo, due, gone, result>>

StoreItem(c) ==
    /\ pc[c] = "store"
    /\ LET put == Head(ready[c]) IN
       \/ /\ items' = Upsert(items, put.item, put.row)
          /\ IF With(c).index
             THEN GoOn(c, "clear_vectors") /\ UNCHANGED <<cached, locals>>
             ELSE Stored(c)
       \/ items' \in {items, Upsert(items, put.item, put.row)} /\ QueryError(c)
    /\ UNCHANGED <<schema, vectors, now>>

\* Writing the new vectors over the old ones without deleting those first.
ClearNoVectors(c) ==
    /\ pc[c] = "clear_vectors"
    /\ IF Head(ready[c]).fields = <<>>
       THEN Stored(c)
       ELSE GoOn(c, "store_vector") /\ UNCHANGED <<cached, locals>>
    /\ UNCHANGED <<db, now>>

ClearVectors(c) ==
    /\ pc[c] = "clear_vectors"
    /\ LET put  == Head(ready[c])
           left == DeleteByItem(vectors, put.item)
       IN \/ /\ vectors' = left
             /\ IF put.fields = <<>>
                THEN Stored(c)
                ELSE GoOn(c, "store_vector") /\ UNCHANGED <<cached, locals>>
          \/ vectors' \in {vectors, left} /\ QueryError(c)
    /\ UNCHANGED <<schema, items, now>>

StoreVector(c) ==
    /\ pc[c] = "store_vector"
    /\ LET put == Head(ready[c])
           new == UpsertVector(vectors, put.item, Head(put.fields), put.row.value)
       IN \/ /\ vectors' = new
             /\ IF Tail(put.fields) = <<>>
                THEN Stored(c)
                ELSE /\ ready' = [ready EXCEPT ![c][1].fields = Tail(@)]
                     /\ GoOn(c, "store_vector")
                     /\ UNCHANGED <<cached, todo, due, gone, result>>
          \/ vectors' \in {vectors, new} /\ QueryError(c)
    /\ UNCHANGED <<schema, items, now>>

Return(c) ==
    /\ pc[c] = "work" /\ todo[c] = {} /\ ready[c] = <<>>
    /\ Leave(c, Done(result[c]))
    /\ UNCHANGED <<db, now, is_setup, cached, call, made, failures>>

-----------------------------------------------------------------------------
(* sweep_ttl *)

\* A sweep that forgets the vectors of what it removes.
SweepItemsOnly(c) ==
    /\ pc[c] = "sweep"
    /\ items' = DeleteAll(items, Expired(items, now))
    /\ Leave(c, Outcome("ok"))
    /\ UNCHANGED <<schema, vectors, now, is_setup, cached, call, made, failures>>

SweepItems(c) ==
    /\ pc[c] = "sweep"
    /\ LET swept == Expired(items, now)
           left  == DeleteAll(items, swept)
       IN \/ /\ items' = left
             /\ IF With(c).index /\ swept # {}
                THEN /\ gone' = [gone EXCEPT ![c] = swept]
                     /\ GoOn(c, "sweep_vectors")
                     /\ UNCHANGED <<cached, todo, due, ready, result>>
                ELSE /\ Leave(c, Outcome("ok"))
                     /\ UNCHANGED <<is_setup, cached, call, made, failures>>
          \/ items' \in {items, left} /\ QueryError(c)
    /\ UNCHANGED <<schema, vectors, now>>

SweepVectors(c) == \E k \in gone[c] :
    /\ pc[c] = "sweep_vectors"
    /\ LET left == DeleteByItem(vectors, k) IN
       \/ /\ vectors' = left
          /\ IF gone[c] = {k}
             THEN /\ Leave(c, Outcome("ok"))
                  /\ UNCHANGED <<is_setup, cached, call, made, failures>>
             ELSE /\ gone' = [gone EXCEPT ![c] = @ \ {k}]
                  /\ GoOn(c, "sweep_vectors")
                  /\ UNCHANGED <<cached, todo, due, ready, result>>
       \/ vectors' \in {vectors, left} /\ QueryError(c)
    /\ UNCHANGED <<schema, items, now>>

-----------------------------------------------------------------------------
(* The system *)

Tick ==
    /\ now < MaxTime
    /\ now' = now + 1
    /\ UNCHANGED <<db, lock, is_setup, cached, pc, call, locals, reply, made, failures>>

Step(c) ==
    \/ EnsureReady(c)
    \/ SetupLock(c) \/ SetupStore(c) \/ SetupVectors(c)
    \/ ProbeLock(c) \/ ProbeStore(c) \/ ProbeVectors(c)
    \/ Lock(c)
    \/ GetItem(c) \/ Refresh(c)
    \/ AskIndex(c) \/ SearchItems(c) \/ SearchRefused(c) \/ ListNamespaces(c)
    \/ PreparePut(c) \/ DeleteVectors(c) \/ DeleteItem(c)
    \/ Embed(c) \/ StoreItem(c) \/ ClearVectors(c) \/ StoreVector(c)
    \/ Return(c)
    \/ SweepItems(c) \/ SweepVectors(c)

\* Every thread has made its calls.
Finished ==
    /\ \A c \in Client : pc[c] = "idle" /\ made[c] = MaxCalls
    /\ UNCHANGED vars

Next == Finished \/ Tick \/ \E c \in Client : Invoke(c) \/ Step(c)

Spec == Init /\ [][Next]_vars

-----------------------------------------------------------------------------
(* Types *)

Outcomes == {"none", "ok", "raised"}

\* A query for data is being sent, or the next one chosen.
DataQuery ==
    {"work", "refresh", "delete_vectors", "delete_item", "store", "clear_vectors",
     "store_vector", "sweep", "sweep_vectors"}

\* The lock is held from the first of these to the last.
Critical ==
    {"setup_store", "setup_vectors", "probe_store", "probe_vectors"} \cup DataQuery

Labels == {"idle", "ensure", "setup_lock", "probe_lock", "lock"} \cup Critical

\* Every variable keeps its type.
TypeOK ==
    /\ schema \subseteq {"store", "index"}
    /\ items \in ItemsTable
    /\ vectors \in VectorsTable
    /\ now \in 0 .. MaxTime
    /\ lock \in [Store -> Client \cup {Free}]
    /\ is_setup \in [Store -> BOOLEAN]
    /\ cached \in [Store -> [installed: {None, TRUE}, indexed: BOOLEAN \cup {None},
                            search: BOOLEAN \cup {None}]]
    /\ pc \in [Client -> Labels]
    /\ call \in [Client -> Calls \cup {NoCall}]
    /\ todo \in [Client -> SUBSET Nat]
    /\ due \in [Client -> SUBSET [item: DbStoreItemId, at: Nat]]
    /\ ready \in [Client -> Seq([item: DbStoreItemId, row: DbStoreItem, fields: Seq(Field)])]
    /\ gone \in [Client -> SUBSET DbStoreItemId]
    /\ LET Result == (SUBSET [item: DbStoreItemId, value: Value])
                     \cup (SUBSET [namespace: Namespace]) IN
       /\ result \in [Client -> Seq(Result)]
       /\ reply \in [Client -> [status: Outcomes, results: Seq(Result)]]
    /\ made \in [Client -> 0 .. MaxCalls]
    /\ failures \in 0 .. MaxFailures

-----------------------------------------------------------------------------
(* Safety *)

\* A store's lock is held exactly while one of its threads is inside a
\* with-statement, on every path in and out of it.
LockDiscipline ==
    \A s \in Store, c \in Client :
        lock[s] = c <=> StoreOf[c] = s /\ pc[c] \in Critical

\* In a step in which a batch returns, what each item it puts must be: as the last
\* put of it says, with exactly the vectors that put asks for.
PutsTookEffect ==
    \A c \in Client :
       pc[c] = "work" /\ pc'[c] = "idle" /\ reply'[c].status = "ok" =>
           \A i \in DOMAIN Ops(c) :
               LET op == Ops(c)[i]
                   wanted == [f \in Field |->
                       IF \E n \in DOMAIN op.fields : op.fields[n] = f
                       THEN op.value ELSE NoRow]
               IN  \/ op.op # "put"
                   \/ \E j \in DOMAIN Ops(c) :
                         j > i /\ Ops(c)[j].op = "put" /\ Ops(c)[j].item = op.item
                   \/ op.value = None /\ items[op.item] = NoRow
                   \/ /\ items[op.item] # NoRow
                      /\ items[op.item].value = op.value
                      /\ items[op.item].ttl = op.ttl
                      /\ With(c).embed => vectors[op.item] = wanted

\* A batch that returns has put what it says, whatever was there before: a value
\* with other fields, or what a batch that failed half-way left behind.
PutsTakeEffect == [][PutsTookEffect]_vars

\* Whatever fails, and wherever: an item that has vectors is removed after them,
\* so that a deletion can be repeated; only a sweep, which asks the database for
\* what has expired, removes an item first and is left to see to its vectors.
OnlySweepsOrphan ==
    [][\A k \in DbStoreItemId :
          items[k] # NoRow /\ items'[k] = NoRow /\ HasVector(vectors, k) =>
              \E c \in Client :
                  /\ pc[c] = "sweep" /\ k \in Expired(items, now)
                  /\ k \in gone'[c] \/ failures' > failures]_vars

\* As long as nothing failed, a vector belongs to an item that is there and was
\* made from the value the item has: no search by meaning finds a ghost, and none
\* finds an item by a text it no longer holds.
IndexFollowsItems ==
    failures = 0 /\ (\A s \in Store : lock[s] = Free) =>
        \A k \in DbStoreItemId, f \in Field :
            vectors[k][f] # NoRow =>
                items[k] # NoRow /\ items[k].value = vectors[k][f]

\* An item expires if and only if it has a time to live, and no later than that
\* time from now, although expiries are written by reads that looked at the item
\* in an earlier query.
ExpiryMatchesTtl ==
    \A k \in Rows(items) :
        LET row == items[k] IN
        /\ row.ttl = None <=> row.expires_at = None
        /\ row.ttl # None => row.expires_at <= now + row.ttl

\* No data is read or written before the scripts it needs have run, whatever
\* mixture of setup(), probe() and failures came before on whatever object; and a
\* store with an index never remembers that the database has none.
ReadyMeansInstalled ==
    /\ \A s \in Store : is_setup[s] =>
          "store" \in schema /\ (Settings[s].index => "index" \in schema)
    /\ \A c \in Client : pc[c] \in DataQuery => is_setup[My(c)]
    /\ \A s \in Store : cached[s].search = FALSE => ~ Settings[s].index
=============================================================================
