# langgraph-surrealdb in TLA+

langgraph-surrealdb keeps LangGraph's checkpoints and long-term memory in SurrealDB. This
directory holds a model of it: TLA+ modules translated from the source, TLC configurations that
check them on small instances, and theorems that TLAPS proves for instances of every size.
Paths below are relative to `src/langgraph_surrealdb/`.

Run everything from this directory: `tlc -config saver_atomic.cfg MCSurrealSaverAtomic` checks a
run, `tlapm SurrealSaverProofs.tla` checks the proofs of a module.

## 1. The system

| Part | State it keeps | Operations |
|---|---|---|
| `SurrealSaver` (`checkpoint/base.py`) | a `threading.Lock`, `is_setup` | `setup`, `probe`, `get_tuple`, `list` (a generator), `put`, `put_writes`, `delete_thread` |
| `AsyncSurrealSaver` (`checkpoint/aio.py`) | an `asyncio.Lock`, the event loop, `is_setup` | the same as coroutines, and blocking bridges for other threads |
| Checkpoint repositories (`database/repository/checkpoints.py`, `writes.py`) | none: queries on two tables | upsert, select, latest, list, fetch, delete by thread |
| `SurrealStore` (`store/base.py`) | a lock, `is_setup`, the sweeper's thread, future and stop event | `batch` of gets, searches, listings and puts, `sweep_ttl`, `start_ttl_sweeper`, `stop_ttl_sweeper` |
| `AsyncSurrealStore` (`store/aio.py`) | the same with asyncio, a sweeper task | the same as coroutines |
| Store repositories (`database/repository/store.py`, `store_vector.py`) | cached answers, cached tasks | item and vector upsert, delete, search, refresh of an expiry, sweep |
| Store schema (`assets/schemas/*.surql`) | two tables, a parameter | search, filter and index functions the server runs |
| Client (`database/client/*`) | a connection | query, select, upsert, delete, call; turns results and errors into values and exceptions |
| Models, settings, errors | none | record ids, rows, environment variables, exception classes |

How they interact: a saver or a store calls its repositories, a repository sends one query and
waits for the answer, and the database executes one query at a time. There are no transactions
and no conditional statements, so **whatever is longer than one query is atomic only because of
the lock of the object that sends it**, and only towards calls of the same object. Two objects on
one database share the tables and nothing else.

What is hard about it:

* an operation is several queries: read a row and then its writes, look for a row and then
  upsert it, delete from one table and then from the other;
* a query can fail at any point, before or after it took effect, and leave an operation half done;
* `list()` is a generator that keeps the lock while its consumer runs;
* `_ensure_ready` is double-checked locking on `is_setup`;
* the async classes can be cancelled at every await, and bridge to the loop from other threads;
* the sweepers run beside everything else and are started and stopped without the lock.

What makes each part correct:

* *savers*: a lock is held exactly inside the with-statement, no query for data precedes the
  schema, pending writes are first-writer-wins, tuples are whole, listings are snapshots, a
  batch lands at the right indices, calls end, and each call is atomic as a whole;
* *stores*: an item and its vectors agree when no query failed, a sweep removes only what has
  expired, vectors have an item, a batch answers from the state before it and a put is last in it;
* *async classes*: the same under cancellation at every await, with the lock given back each time and
  other callers unharmed; a call from the wrong thread is refused;
* *sweepers*: at most one loop, a stop is heeded, a stop that succeeded leaves nothing behind, a
  sweeper that is not stopped sweeps again and again;
* *client and schema*: every result or error becomes a value or one of the error classes, and a search
  returns rows whose namespace begins with its prefix and that pass its filter.

## 2. Modules

    CheckpointDb                the tables and their queries, as operators
      |--- SurrealSaver         the sync saver: one step per query
      |      |--- SurrealSaverAtomic    plus a history variable; refines CheckpointStore
      |      |--- SurrealSaverProofs    theorems about SurrealSaver
      |      |--- AsyncSurrealSaver     the async saver: the same steps on an event loop
      |      |--- AsyncSurrealSaverProofs    theorems about it, from those about SurrealSaver
      |      |--- MCSurrealSaver, MCSurrealSaverAtomic, MCAsyncSurrealSaver    instances for TLC
      |--- CheckpointStore      what a saver promises: every call at one instant
    SurrealSaverAtomicProofs    the refinement, proved
    StoreDb                     items, vectors and their queries; what a batch amounts to
      |--- SurrealStore         the sync item store: one step per query
      |      |--- SurrealStoreProofs    theorems about SurrealStore
      |      |--- SurrealStoreAtomic    plus a history variable; refines ItemStore
      |      |      |--- AsyncSurrealStore    the async store: the same steps, cancellation
      |      |      |--- AsyncSurrealStoreProofs    theorems about it, from those about SurrealStore
      |      |--- MCSurrealStore, MCSurrealStoreAtomic, MCAsyncSurrealStore    instances for TLC
      |--- ItemStore            what a store promises: every batch at one instant
    SurrealStoreAtomicProofs    the refinement, proved
    TtlSweeper                  the sweeper thread of the sync store (MCTtlSweeper, TtlSweeperProofs)
    AsyncTtlSweeper             the sweeper task of the async store (MCAsyncTtlSweeper,
                                AsyncTtlSweeperProofs)

**CheckpointDb.** A table is a total function from record ids to rows, with `NoRow` for an absent
record. An id is the record of the fields it is made from: `DbRecordId.from_raw` joins the fields
with "|" and hashes them, which keeps ids apart as long as no two lists of fields join to the same
text. Checkpoint payload, metadata, parent id and type tag are one opaque value. Queries are
operators: `Upsert`, `DeleteThread`, `GetLatest`, `ListRows` (where-clauses, newest first, limit;
among equally new rows of several threads the database chooses) and `Fetch`. `Replace` and `UseIdx`
are what `put_writes` computes from a batch: whether rows are replaced, and the index of each write.

**SurrealSaver.** `Client` is the set of threads, `Saver` the set of objects, `SaverOf` says which
object a thread calls. Per thread: `pc` (where it is in its call), `call`, `idx` (writes of the batch
dealt with), `rows` (checkpoints read and not yet turned into tuples), `reply` (what the caller was last
given). Per object: `lock`, `is_setup`. Shared: `tables` (what is defined of the schema), `checkpoints`,
`writes`. `made` and `failures` count against the bounds `MaxCalls` and `MaxFailures`.

| Code | Actions |
|---|---|
| argument handling, up to `_ensure_ready` | `Invoke`, `EnsureReady` |
| `setup` | `SetupLock`, `SetupCheckpoints` (two steps), `SetupWrites`, `SetupDone` |
| `probe` | `ProbeLock`, `ProbeCheckpoints`, `ProbeWrites` |
| `with self.lock` | `Lock`; `Leave` is the way out of it |
| `put` | `Put` |
| `put_writes` | `PutWritesReplace`, or `PutWritesCheck` and `PutWritesUpsert`, per write; `PutWritesDone` |
| `get_tuple` | `GetCheckpoint`, `GetWrites` |
| `list` | `ListCheckpoints`, `ListYield` per tuple, `ListEnd`; its consumer is `Resume`, `Close` or `Reenter` |
| `delete_thread` | `DeleteCheckpoints`, `DeleteWrites` |
| a query that raises | the `QueryError` disjunct of each query, with or without the statement's effect |

Each action that sends a query ends with what the code does before the next query or before it waits, so the
steps of different threads interleave exactly at queries, locks and yields. The exception is a set-up
script, which is several statements in one query and no transaction: it takes two steps, the table and then
its fields and index (`Defines`), and may stop after the first. A probe looks for the table alone, so the
difference shows; a probe of a table that does not exist raises (`MissingTable`). `DeleteWrites` has no
effect on the tables because the statement the code sends does not name one (see section 5).

**CheckpointStore** is the abstract specification: `Put`, `PutWrites`, `Delete`, `Tell` and `Forget`
on two tables and on the tuples clients have been told, with no locks and no queries. What a batch does is
stated as a relation between the table before and after (`Applies`): last write wins at an index if all
channels of the batch are reserved, otherwise a stored row wins, then the first write. A call that
raises may have stored a prefix of its batch, and a deletion may or may not reach the writes: the
store allows both because the code does.

**SurrealSaverAtomic** adds the history variable `committed`, the tables as they were when the
object's lock was last free, and maps `CheckpointStore` to it (`ImplementsStore`).

**StoreDb.** The item table and the vector table, again total functions, and their queries. A row is a
value, a time to live and an expiry; created_at and updated_at are left out. A vector stands for the value
it was made from, because its text and embedding are functions of that value and of the field. The second
half says what a batch amounts to: gets, searches, listings and puts in that order (`Rank`, `Before`), of
the puts of one item only the last (`Effective`), at the place of the first (`Place`), as the dict in
`_batch_put` has it. A namespace is a sequence of parts, and a search is about the rows whose namespace
begins with its prefix (`cmp_namespace`) and whose value is in its filter (`Matching`). Without a query its
page has exactly the length that offset and limit leave (`PageLength`), and which rows are on it is the
server's choice, because the statement has no ORDER BY (`SearchPages`). With a query it is at most a page of
the matching items that have a vector (`IndexedPages`): their ranking is the server's.

**SurrealStore** (`store/base.py`, `database/repository/store.py`, `store_vector.py`). `Settings[s]` says
whether object s has the index, embeddings and TTL enabled. A thread's locals are `todo` (operations not
begun), `due` (expiries to write for what a read has found), `ready` (puts prepared and not stored), `gone`
(items swept whose vectors are still there) and `result`; they vanish when the call leaves the
with-statement (`End`, `Leave`).

| Code | Actions |
|---|---|
| `setup`, `probe`, `_ensure_ready` | `SetupLock`, `SetupStore`, `SetupVectors`, `EnsureReady`, `ProbeLock`, `ProbeStore`, `ProbeVectors` |
| `_batch_get`, `refresh_expiry` | `GetItem`, then one `Refresh` per item found |
| `_batch_search` | `AskIndex` (the repository's cached property), `SearchItems`, `SearchRefused`, `Refresh` |
| `_batch_list_namespaces` | `ListNamespaces` |
| `_batch_put` | `PreparePut`, with `DeleteVectors` and `DeleteItem` for a put of nothing; `Embed`; `StoreItem`, `ClearVectors`, `StoreVector` for each item |
| end of `batch` | `Return` |
| `sweep_ttl` | `SweepItems`, then one `SweepVectors` per item |
| time | `Tick`; client and server share one clock |

The answers `is_installed` and `is_index_enabled`, cached properties, are in `cached`, false answers
included. `UPDATE ONLY` and `DELETE ONLY` of a row another object has removed may raise or not. A search
that hits a vector whose item is gone raises: the item the schema function returns has none of the
fields its declared type asks for. A set-up script is one step: what a probe looks for is defined at its
end, so to the stores a script that stopped half-way has not run.

**ItemStore** is the abstract specification: a batch answers from the store before its puts, then the last
put of each item counts; a batch that raises has carried out its puts for some items and for the others
not; items with a time to live may go at any time. What a search finds it says in its own words (`Sought`,
`Pages`). **SurrealStoreAtomic** maps it to the items as they
were when the lock was last free.

**AsyncSurrealSaver** (`checkpoint/aio.py`). The coroutines send the queries of the sync saver in the
same order, so the module EXTENDS `SurrealSaver` and its actions, named after the methods, take that
module's steps while the loop runs (`OnLoop`). Only `delete_thread` of the writes repository differs
(`delete_writes`). `Elsewhere` are the callers that are threads and not coroutines. New state:

| Variable | Code |
|---|---|
| `loop` | the coroutine that blocks the loop's thread in a synchronous method |
| `unheard` | the lock was released in another thread and the loop has not been woken since |
| `astray`, `strayed` | statements of cancelled calls still on their way; whether one has run |
| `cancels` | counts against `MaxCancels` |

| Code | Actions |
|---|---|
| a coroutine calls; a thread calls `get_tuple`, `list`, `put`, ... | `Coroutine`; `FromThread` |
| a coroutine calls one of the synchronous methods | `get_tuple` (and `list`), which refuse, `put` (and `put_writes`, `delete_thread`), which block |
| the consumer of `alist` | `Consume`, or `Break` and, when the loop's finalizer closes the generator, `Finalize` |
| the consumer of the iterator `list` returns | `Consume`, or `DropIterator`: dropping it closes the async generator in that thread |
| `Task.cancel` | `Cancel`: at a query (`CancelAtQuery`), in the lock's queue (`CancelWaiting`), in the loop body around a generator (`CancelConsumer`) |

A coroutine cancelled at a query leaves the lock at once. Its statement has run, never runs, or goes
astray and is run later (`RunAstray`; the two halves of a script one after the other, `RestOf`). The properties named `Async...` are the sync ones until a statement
has run late; from then on nothing is promised, because the code cannot call a statement back.

**AsyncSurrealStore** (`store/aio.py`) is built the same way on `SurrealStoreAtomic`. The async repositories
keep their two questions, `is_installed` and `is_index_enabled`, as tasks: a task that fails is dropped
(`except Exception`), a cancelled one stays, and everybody who awaits it is cancelled
(`lazy_call_cancelled`). `spoilt` holds the questions this happened to, `Asking` says which question a call
waits for. `heard` is what callers were told, with a cancellation read as an exception, so that
`ItemStore` can serve as the specification. `AsyncBatchedBaseStore` of langgraph puts a queue and a
task in front of `abatch`; whoever cancels `aget` or `aput` then cancels a wait for that task, so real
programs cancel `abatch` less often than the model does.

**TtlSweeper** (`store/base.py:318-406`). One step per read or write of an attribute or of the stop event,
without a lock, as in the code; `Sweeper` are the threads that `start_ttl_sweeper` creates, in order.
`Start`, `StartAlive`, `StartClear`, `StartTrack`, `StartRun` and `StartHook` are one start; `Stop`,
`StopAlive`, `StopSet`, `StopJoin`, `StopWait` (the join, which may time out), `StopVerify` and `StopForget`
one stop; `Cancel` cancels a future that a start has returned. The loop is `LoopHead`, `Woken`,
`Interval`, `Swept`. `wanted` is a history variable: a start was the last thing asked for.

**AsyncTtlSweeper** (`store/aio.py:317-412`). A start is one step, a stop is `Stop` and, after its await,
`StopReturns`; `TimeOut` is what `wait_for` does when the time is up (it cancels the sweeper and waits on),
`CancelStop` a cancellation of the caller, which an await passes on to the sweeper, `CancelTask` a
cancellation of the task a start returned, `Exit` is `__aexit__`. A sweeper that is cancelled returns
normally (`Cancelled`), except before its first step.

## 3. What TLC checks

| Run | Instance | Distinct states | Shows |
|---|---|---|---|
| `saver_atomic` | one saver, 2 threads, 2 calls each, 1 failing query, 14 kinds of call on one conversation with 2 checkpoints | 736,422 | types, `LockDiscipline`, `FirstWriteWins`, `NoTornTuple`, `ListSnapshot`, and that the saver implements `CheckpointStore` |
| `saver_shared_db` | 2 savers, 3 threads (two on one saver), 1 call each, 8 kinds of call, 1 failing query, tables that exist or not at the start | 496,086 | `NoQueryBeforeSchema`, `WritesLand` |
| `saver_liveness` | 1 saver, 2 threads, 2 calls each, 8 kinds of call, 1 failing query, re-entered generators | 110,600 | under fairness, `CallsReturn` |
| `saver_delete` | 1 thread, 2 conversations, no failures | | `DeleteErasesWrites` is violated |
| `store_atomic` | one store with index, embeddings and TTL, 2 threads, 2 calls each out of a sweep and 4 batches on 2 items in nested namespaces and 2 fields, 1 failing query, 3 instants | 469,802 | types, `LockDiscipline`, `IndexFollowsItems`, `ExpiryMatchesTtl`, `PutsTakeEffect`, `OnlySweepsOrphan`, and that the store implements `ItemStore` |
| `store_shared_db` | an indexed store with 2 threads and a plain one on one database, 1 call each of 6 kinds, 1 failing query, schema that exists, exists without index or does not | 394,113 | `ReadyMeansInstalled` |
| `async_saver` | one async saver, a coroutine of its loop and another thread, 2 calls each of 8 kinds, 1 cancellation, generators dropped or re-entered, sync methods on the loop | 429,072 | types, `AsyncLockDiscipline`, `AsyncFirstWriteWins`, `AsyncNoTornTuple`, `AsyncListSnapshot`, `DeleteErasesBoth`, and, under fairness, `AsyncCallsReturn` |
| `async_bridge` | one coroutine, 2 calls | | `SyncCallsAreRefused` is violated |
| `async_store` | one async store with index, embeddings and TTL, 2 coroutines, 2 calls each out of a set-up, a sweep and 3 batches on one item, 1 cancellation, 2 instants | 1,066,663 | types, `LockDiscipline`, `ReadyMeansInstalled`, `AsyncPutsTakeEffect`, `CancellationSpares`, and that the store implements `ItemStore` until a statement runs late |
| `ttl_sweeper` | 1 caller, 4 sweeper threads, any number of stops and cancellations | 3,791 | types, `AtMostOne`, `StopMeansStopped` and, under fairness, `StopsAreHeeded`, `SweepsRecur` |
| `ttl_sweeper_restart` | the same with 3 threads | | `StartMeansSweeping` is violated |
| `async_ttl_sweeper` | 1 caller, 4 sweeper tasks, time-outs, cancellations of the stop and of the sweeper, `__aexit__` | 3,483 | the same five properties as `ttl_sweeper` |

Why the bounds are enough. A race takes two threads and, to be seen, a call of each; a second
call of a thread observes what the first left behind, and a retry after a failure is a second call.
Batches of two writes have a write before and a write after every point of failure, and the four
batches cover all, none and some reserved channels and the empty batch; two of them disagree on the
value of the same index, so an overwrite shows. Two checkpoint ids make "latest", "before" and
"limit" differ. One failure anywhere reaches every error path, and its effect is seen by the calls after
it. Two savers with one and two threads are the least in which an object has company of both kinds.
`MaxCalls` and `MaxFailures` bound nothing but the length of a behaviour. In `saver_liveness`,
`async_saver` and `async_bridge` a re-entered generator, or a coroutine that blocks its loop, waits for
ever, so deadlock is not checked there; in the other runs it is, and the only state without a successor
but itself is `Finished`.

For the store: the batches put one item with different values, fields and times to live, twice in one batch,
read it in the batch that changes it, delete it beside a put of another item, and search and refresh it; the
two items have the same key in a namespace and in one below it, and the searches differ in prefix, filter
and limit; two fields make a stale vector possible, three instants let an item expire, be refreshed and
expire again.

For the async classes: failures are cancellations here (`MaxFailures = 0`), one of them at any await and
with every fate of its statement; a second caller, and a second call of each, observe what it left
behind. A thread calls through a bridge what a second coroutine would call, so that the pair of a
coroutine and a thread also covers two coroutines, except that only the first is cancelled. Batches of
`async_store` put an item with a vector, put it without one, delete and read it, and search and list.

For the sweepers: a bound on the threads created is the only one; four of them leave room for a start
that finds the last sweeper alive, dead, told to stop, or given up on, and one more after that.

Fairness. `FairSpec` makes `Step(c)` weakly fair for each thread: a thread in a call keeps
running, which the operating system's scheduler provides, and the consumer of a generator goes on
with it or drops it, which is what a caller of `list()` has to do and is the assumption the property is
about. `Invoke` is not fair. `threading.Lock` promises no order among waiters; weak fairness of a waiter's
`Lock` suffices here only because the other threads make finitely many calls. `CallsReturn` says that
every call ends unless a thread of the same saver called it from inside its own `list()` loop: that
thread waits for itself, and so does everyone after it. `AsyncFairSpec` is the same for the tasks of the
loop, which runs every task that can run; `Wake` (something else happens on the loop), `Cancel` and
`RunAstray` are not fair, because nothing in the code makes them happen. `AsyncCallsReturn` names the
three ways in which a call may never end: re-entry, a coroutine that blocks the loop, and a lock released
in another thread while the loop sleeps. The sweepers' `Spec` makes each loop and each call in
progress weakly fair: threads and tasks that can run do. A stop without a time-out waits for the
sweeper, which these assumptions let finish.

What is *not* claimed: with two savers on one database, `FirstWriteWins` and `NoTornTuple` do not
hold, because each saver has its own lock. For the same reason `PutsTakeEffect`, `IndexFollowsItems` and
`ExpiryMatchesTtl` are claims about one store object. The sweepers' properties are claims about one
caller, or callers that take turns: the code reads its attributes several times without a lock, and two
callers at once can make it raise, or lose track of a sweeper. `IndexFollowsItems` is claimed for behaviours
without a failure, because the code does not restore it after one (section 5).

## 4. What is proved

**The sync saver**: `SurrealSaverProofs` and `SurrealSaverAtomicProofs`, for every number of threads,
savers, calls, failures, keys, batches and values. The assumptions on constants are those of the modules:
checkpoint ids are numbers, every thread has a saver, the calls are well-formed, `NoRow` is not a row and
`Free` is not a thread.

| Theorem | States | Argument |
|---|---|---|
| `TypeInvariant` | `[](TypeOK /\ PcInv)` | `TypeOK` is not inductive: `Lock` goes to `FirstQuery[call[c].op]`, so one has to know that the thread's label and its call agree, and that `idx` stays within the batch. `PcInv` says so. |
| `Locks` | `[]LockDiscipline` | Inductive together with the types: every way in takes a free lock, every way out is taken by the holder. |
| `SchemaFirst` | `[]NoQueryBeforeSchema` | Strengthened by `SchemaInv`: a thread that waits for the lock has seen `is_setup`, a second set-up or probe query follows a first, and while nothing failed a table without its fields and index has a thread about to define them (`ScriptsEnd`); tables are never dropped and `is_setup` never reset (`SchemaGrows`). |
| `FirstWriterWins` | `FirstWriteWins` | For one saver. `ReadInv`: what a thread read under the lock still holds when it acts on it, because by `LockDiscipline` nobody else is inside (`Alone`) and only a thread inside changes a row (`DataSteps`). |
| `ListsAreSnapshots` | `ListSnapshot` | For one saver, from `Alone` and `DataSteps`. |
| `TuplesAreWhole` | `NoTornTuple` | For one saver, from `ReadInv` and `TupleSteps`: only two steps hand out a tuple. |
| `BatchesLand` | `WritesLand` | For any number of savers. `LandInv`: the writes of the batch dealt with so far have a row. `WritesStay`: no step of anyone takes a row from that table. `SilentInv`: the answer comes with the last step of the call. |
| `Implements` | `AtomicSpec => ImplementsStore` | For one saver. `HistoryInv` relates the tables to `committed` by label: equal when nobody is inside; inside `put_writes`, the first `idx` writes have been applied (`Applies`, one more write at a time by `AppliesReplace` and `AppliesFill`); between the two queries of `delete_thread`, the checkpoints are gone and the writes are not. The step that leaves the lock is the abstract call (`CommitIsCall`), a step that hands out a tuple is `Tell` (`ToldStep`), every other step changes nothing abstract. |

**The async saver**: `AsyncSurrealSaverProofs`, for every number of coroutines, threads, calls and
cancellations, with the sync saver's assumptions. A step of the async saver is a step of the sync saver, or
one of eight others (`StepKinds`, `OwnKinds`), so that the sync saver's lemmas about single steps (types,
lock, data, tuples) are stated for any set of labels that count as inside the lock (`Types(L, R)`, `Sides`,
`Held(inside)`) and cited from here.

| Theorem | States | Argument |
|---|---|---|
| `TypesAsync` | `[]AsyncTypeOK` | `AsyncTypeOK` is not inductive: `PcInv`, and `StrayInv`, that a statement gone astray is one some call could have sent. |
| `AsyncLocks` | `[]AsyncLockDiscipline` | `Held(Inside)`, with the generators that are being closed counted as inside: every cancellation inside the lock is a way out. |
| `AsyncFirstWriterWins`, `AsyncListsAreSnapshots`, `AsyncTuplesAreWhole` | the sync properties, until a statement has run late | For one saver. `KnownInv`: while no stray statement has run, `ReadInv` of the sync saver. A cancellation either has its statement's effect or none, and in both cases its sender is no longer inside (`CancelData`). |
| `DeletesAreComplete` | `DeleteErasesBoth` | For one saver. `ErasedInv`: between the two queries of `delete_thread` the conversation has no checkpoints; nobody else is inside to add one. |

**The item store**: `SurrealStoreProofs` and `SurrealStoreAtomicProofs`, for every number of threads,
stores, calls, batches, items, fields and values, every time to live, and any settings. Assumed of the
constants: every thread has a store, calls are well-formed, times are numbers, `NoRow` is not a row, `Free`
not a thread, `None` neither an answer nor a time, and (for the refinement) that a put of nothing is not a
value (`ContentAssumption`).

| Theorem | States | Argument |
|---|---|---|
| `TypeInvariant` | `[](TypeOK /\ PcInv)` | `PcInv`: the label agrees with the call, what is left to do are operations of its batch, and a label that takes the head of `ready`, `due` or `gone` has one to take. |
| `Locks` | `[]LockDiscipline` | Every step keeps its thread inside, enters through a free lock or exits as holder (`StepMoves`). |
| `SchemaFirst` | `[]ReadyMeansInstalled` | `SetupInv`: whatever a store remembers about the schema, positive answers in the cache and `is_setup`, is true, and stays true because the schema only grows. |
| `ExpiryFollowsTtl` | `[]ExpiryMatchesTtl` | For one store. `ExpiryInv`: rows, prepared rows and expiries waiting to be written all fit a time to live; a refresh that waits was computed from the row that is still there. |
| `SweepsAloneOrphan` | `OnlySweepsOrphan` | For one store. `DeletingInv`: when `_batch_put` comes to delete an item, its vectors are gone already and nobody has put them back. |
| `VectorsFollow` | `[]IndexFollowsItems` | For one store and behaviours without a failing query. `VectorInv`: item and vectors agree except for the item the thread inside is writing, which `Lags` names. |
| `PutsLast` | `PutsTakeEffect` | For one store. `PutInv`: an effective put that the call has begun is either still in `ready`, at the only place with its item, or settled in the tables. `OneTurn` has the fact about the dict in `_batch_put` it rests on: of the effective puts no two have the same item. |
| `Implements` | `AtomicSpec => ImplementsItemStore` | For one store. `HistoryInv`: of the items at `committed`, those for which a put has been carried out have its value, the others are unchanged or refreshed. The step that leaves the lock is the abstract batch or sweep. |

**The async store**: `AsyncSurrealStoreProofs`, for every number of coroutines, stores, calls, failures and
cancellations, with the item store's assumptions. A step is an orderly one, which the sync store takes too,
a cancellation, or a statement run late (`StepKinds`). Whatever the sync store's lemmas say of a step they
say of an orderly one; a cancellation, direct or through a spoilt question, ends its call, gives back the
lock it has and has its statement's effect or none (`Cancelled`, `CancelKinds`), as a failing query does; a
late statement keeps types, lock and schema (`RunsType`) and ends the claims about one store.

| Theorem | States | Argument |
|---|---|---|
| `AsyncTypes` | `[]AsyncTypeOK` | `AsyncTypeInv`: the sync store's `PcInv`; `StrayInv`, that a statement gone astray is one some call could have sent (`StatementFits`); `SpoiltOK`, that a spoilt question has no answer, because only who is told the answer writes it and a spoilt question is answered to nobody (`AnswersOpen`). |
| `AsyncStoreLocks` | `[]LockDiscipline` | A cancellation inside the lock is a way out, one in the lock's queue is not. |
| `AsyncSchemaFirst` | `[]ReadyMeansInstalled` | `SetupInv` of the sync store; a cancelled probe has learnt nothing, a script that runs late takes nothing away. |
| `CancelsSpare` | `CancellationSpares` | `SparesInv`: who is in a call has not been told of a cancellation, nothing is spoilt before the first one, and no probe asks about a store that is set up, because `is_setup` is set by a coroutine inside the lock on its way out (`StepReadies`). |
| `AsyncPutsLast` | `AsyncPutsTakeEffect` | For one store. `Undisturbed`: until a statement has run late, `StoreInv`, all the invariants of the one sync store; a cancelled call keeps them (`CancelledKeeps`) since nobody else is inside and it leaves no locals. |
| `AsyncExpiryFollowsTtl` | `[](strayed \/ ExpiryMatchesTtl)` | For one store, from `Undisturbed`. |
| `AsyncImplements` | `AsyncSpec => AsyncImplementsItemStore` | For one store. `Remembered`: until a statement has run late, `HistoryInv` of the sync store, and `heard` is what callers were told. An orderly step is one of `ItemStore` as told, hence as heard (`PromiseStep`); a cancelled batch is `BatchRaises`, a cancelled sweep `Expire`, any other cancelled call `Other` (`CancelledRefines`); afterwards both variables stand still. |

**The sweepers**: `TtlSweeperProofs` and `AsyncTtlSweeperProofs`, for any number of starts, stops, time-outs
and cancellations; the assumption on constants is that `None` is not a sweeper.

| Theorem | States | Argument |
|---|---|---|
| `TypeInvariant` (both) | `[]TypeOK` | For any number of callers. `CallInv` of the thread: a start that has created its sweeper remembers which. The assertion in `start_ttl_sweeper` never fails. |
| `OneSweeper` (both) | `[]AtMostOne` | For callers that take turns (`OneCaller`). `AtMostOne` is not inductive: `SoleInv` says that what is alive is what the object tracks, and that a start past its look at the old thread, or a stop past its last one, knows nothing is alive; of the task, that a stop waits for what is tracked. |
| `SuccessfulStops`, `StopsLeaveNone` | `StopMeansStopped` | From `SoleInv`: only the last step of a stop ends one, and what it waited for, the tracked sweeper, has ended. |

Only checked by TLC: liveness under fairness (`CallsReturn`, `AsyncCallsReturn`, `StopsAreHeeded`,
`SweepsRecur`), which is out of the prover's reach.

## 5. What the model shows of the code

* `SurrealSaver.delete_thread` does not delete pending writes. `DbWritesRepository.delete_thread`
  (`database/repository/writes.py:101`) sends `DELETE FROM type::table($table) WHERE thread_id =
  $thread_id` and binds only `thread_id`; all its other queries, and the async repository
  (`writes.py:142`), bind `table`. Whether the server rejects the statement or runs it on a table nobody
  uses, the writes stay. The run `saver_delete` shows it with no failing query. `CheckpointStore` allows
  it, so that everything else can still be stated.
* A probe of the savers asks for the two tables, which set-up scripts define before their fields and index.
  A saver can therefore call itself ready while another's script is half-way, and, if a script failed there,
  every later saver is content with a bare table until somebody calls `setup()` on one that is not ready
  yet. `NoQueryBeforeSchema` says that this takes a failure, or a script that is running.
* `list()` holds the saver's lock while it is suspended. A loop body that calls the same saver
  blocks for ever, and with it every other thread of that saver.
* `sweep_ttl` deletes expired items first and their vectors afterwards, and every later deletion of
  vectors starts from an item that is there (`_batch_put`, `store/base.py:201`). If the second step fails,
  the vectors stay until the same item is put again, and an indexed search that hits one raises. Deleting
  a single item goes the other way round, vectors first, and can be repeated.
* `is_index_enabled` and `is_installed` are cached properties: an indexed store probed before its index
  existed keeps refusing to work until its own `setup()` is called, as its error message demands, even if
  another object has set the database up meanwhile. `ReadyMeansInstalled` says this is the only harm.
* `put`, `put_writes`, `delete_thread` and `get_delta_channel_history` of the async saver, called from a
  coroutine of the saver's own loop, block the loop for ever; `get_tuple` and `list` refuse such calls with
  the message "Synchronous calls to AsyncSurrealSaver are only allowed from a different thread."
  (`checkpoint/aio.py:87`). The run `async_bridge` shows the first step of it.
* An iterator of `AsyncSurrealSaver.list` that its thread drops early gives the lock back in that
  thread. The waiter is marked to run next, and the loop learns of it only when something else wakes it.
* `start_ttl_sweeper` after a stop that gave up, or after a cancellation, may find the old thread still
  alive: it returns that thread's future, the thread ends, and nothing sweeps (`ttl_sweeper_restart`). The
  async start has the same gap while a cancellation is on its way or the stop event is set.
* A coroutine cancelled while it waits for the async store's first answer to `is_installed` or
  `is_index_enabled` leaves a cancelled task in the cache: from then on every call that has to ask is
  cancelled too, and a sweeper whose sweep meets it ends silently. `CancellationSpares` says that this can
  happen only before the store has been set up, or before its first search.
* A `stop_ttl_sweeper` of the async store whose caller is cancelled swallows the cancellation: the sweeper
  takes it for its own and returns, and so does the stop.
* The sweeper's closure holds the store, so `__del__` does not run, and does not stop the sweeper, while
  the thread lives (`store/base.py:403`).
* A store without an index on a database that has one changes and deletes items and leaves their vectors
  alone (`store/base.py:202`, `233`).

## 6. What is not modelled

Logging, wording of errors, serialization of payloads, settings and package plumbing. The server's own
execution of a statement is one atomic step. How a filter is evaluated is not said (it is the set of values
it lets through), nor how a search with a query ranks, nor the conditions and paging of `list_namespaces`,
which work on the answer to one query. A store's set-up script runs as a whole or not at all; a statement
refused in its middle, which leaves a store that looks installed, is listed under the hazards. Identifiers
are opaque: that `thread_id` is stripped of white space in some methods and not in others, and that record
ids are made by joining fields with "|", is listed under the hazards. Of the client only this is modelled: a
query returns, raises before it ran, or raises after it ran. In the sync modules a query that raises has had
its effect by then or never has it. Over a web socket a connection that raised without an answer is of no
further use; over HTTP the server may still come to run the statement after others. The async modules show
what such a late statement does (`RunAstray`), and as there nothing would be promised from then on.
`get_next_version` and `get_delta_channel_history` keep no state. Two store objects that write to one
database are modelled (`store_shared_db`), but nothing is promised of the order of their queries. Garbage
collection (`__del__`) and the queue of langgraph's `AsyncBatchedBaseStore` are left out.

## 7. Plan

The modules are complete as far as the plan goes, and of the properties the runs check all but the
four of liveness are proved. What is left to prove goes beyond the runs: that the async saver
implements `CheckpointStore` until a statement runs late, as the async store does `ItemStore`; that a
batch of the async saver lands (`WritesLand`) and that it sends no query for data before the schema is
there; and which of the sweepers' claims survive callers that do not take turns.
