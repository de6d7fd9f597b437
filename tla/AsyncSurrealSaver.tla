------------------------- MODULE AsyncSurrealSaver -------------------------
(***************************************************************************)
(* The asynchronous checkpoint saver.  Its coroutines send the queries of  *)
(* the synchronous one in the same order, with an asyncio.Lock, so their   *)
(* steps are the steps of SurrealSaver, taken while the event loop runs.   *)
(* New are the ways they end and who calls them:                           *)
(*                                                                         *)
(*  - a task can be cancelled wherever it waits.  The statement it waits   *)
(*    for may have run, may never run, or may go astray: the server runs   *)
(*    it after the lock has been given back;                               *)
(*  - a generator that a coroutine drops keeps the lock until the loop's   *)
(*    finalizer has closed it;                                             *)
(*  - other threads call through bridges, which run a coroutine on the     *)
(*    loop and wait.  A list() iterator dropped there gives the lock back  *)
(*    in that thread, and the loop hears of it at its next event;          *)
(*  - a coroutine that calls a bridge waits for itself.                    *)
(*                                                                         *)
(* asyncio.Lock serves waiters in order and a coroutine gives way only     *)
(* where it waits; the model allows any order and more interleavings.      *)
(***************************************************************************)
EXTENDS SurrealSaver

CONSTANTS Elsewhere,  \* callers that are threads and not coroutines of the loop
          MaxCancels, \* bound: cancelled tasks
          SyncOnLoop  \* whether coroutines call the methods meant for other threads

ASSUME ElsewhereAssumption  == Elsewhere \subseteq Client
ASSUME MaxCancelsAssumption == MaxCancels \in Nat

VARIABLES
    loop,    \* the coroutine whose sync call blocks the loop's thread, or Free
    unheard, \* the lock was released in another thread and the loop sleeps on
    astray,  \* statements of cancelled calls that the server has yet to run
    strayed, \* whether one of them has run late
    cancels  \* tasks cancelled so far

aio   == <<loop, unheard, astray, strayed, cancels>>
avars == <<vars, aio>>

AsyncInit ==
    /\ Init
    /\ loop = Free
    /\ unheard = FALSE
    /\ astray = {}
    /\ strayed = FALSE
    /\ cancels = 0

\* A step of a coroutine: the loop is running it.
OnLoop == loop = Free /\ ~ unheard /\ UNCHANGED aio

-----------------------------------------------------------------------------
(* Calls *)

Coroutine(c) == c \notin Elsewhere /\ Invoke(c) /\ OnLoop

\* run_coroutine_threadsafe wakes the loop.  setup and probe have no bridge.
FromThread(c) ==
    /\ c \in Elsewhere
    /\ Invoke(c)
    /\ call'[c].op \notin {"setup", "probe"}
    /\ unheard' = FALSE
    /\ UNCHANGED <<loop, astray, strayed, cancels>>

\* A sync method called by a coroutine, before anything else happens.
SyncCall(c, ops) ==
    /\ SyncOnLoop
    /\ c \notin Elsewhere
    /\ pc[c] = "idle"
    /\ made[c] < MaxCalls
    /\ made' = [made EXCEPT ![c] = @ + 1]
    /\ call' \in {[call EXCEPT ![c] = m] : m \in {n \in Calls : n.op \in ops}}
    /\ loop = Free /\ ~ unheard
    /\ UNCHANGED <<db, savers, idx, rows, failures, unheard, astray, strayed, cancels>>

\* get_tuple and list look which loop is running in their thread.
get_tuple(c) ==
    /\ SyncCall(c, {"get_tuple", "list"})
    /\ reply' = [reply EXCEPT ![c] = Outcome("refused")]
    /\ UNCHANGED <<pc, loop>>

\* put, put_writes and delete_thread do not, and wait for a task of the loop they
\* keep from running.
put(c) ==
    /\ SyncCall(c, {"put", "put_writes", "delete_thread"})
    /\ Goto(c, "blocking")
    /\ loop' = c
    /\ reply' = [reply EXCEPT ![c] = NoReply]

-----------------------------------------------------------------------------
(* The coroutines *)

setup(c) == (SetupLock(c) \/ SetupCheckpoints(c) \/ SetupWrites(c) \/ SetupDone(c)) /\ OnLoop

probe(c) == (ProbeLock(c) \/ ProbeCheckpoints(c) \/ ProbeWrites(c)) /\ OnLoop

ensure_ready(c) == EnsureReady(c) /\ OnLoop

\* async with self.lock
enter(c) == Lock(c) /\ OnLoop

aput(c) == Put(c) /\ OnLoop

aput_writes(c) ==
    /\ PutWritesDone(c) \/ PutWritesReplace(c) \/ PutWritesCheck(c) \/ PutWritesUpsert(c)
    /\ OnLoop

aget_tuple(c) == GetCheckpoint(c) /\ OnLoop

fetch_checkpoint_tuple(c) == GetWrites(c) /\ OnLoop

alist(c) == (ListCheckpoints(c) \/ ListYield(c) \/ ListEnd(c)) /\ OnLoop

\* Deleting from one of the two tables.
adelete_half(c) == (DeleteCheckpoints(c) \/ DeleteWrites(c)) /\ OnLoop

\* Unlike the sync repository, the async one binds the table's name.
delete_writes(c) ==
    /\ pc[c] = "del_wr"
    /\ LET left == DeleteThread(writes, call[c].thread_id) IN
       \/ /\ writes' = left
          /\ Leave(c, Outcome("ok"))
          /\ UNCHANGED <<is_setup, call, idx, rows, made, failures>>
       \/ /\ writes' \in {writes, left}
          /\ QueryError(c)
    /\ UNCHANGED <<tables, checkpoints>>

adelete_thread(c) == (DeleteCheckpoints(c) \/ delete_writes(c)) /\ OnLoop

-----------------------------------------------------------------------------
(* The consumers of a generator *)

Consume(c) == (Resume(c) \/ Reenter(c)) /\ OnLoop

\* The generator is suspended with the lock and nobody is going to resume it.
Drop(c, how) ==
    /\ Goto(c, "dropped")
    /\ rows' = [rows EXCEPT ![c] = {}]
    /\ reply' = [reply EXCEPT ![c] = Outcome(how)]
    /\ UNCHANGED <<db, savers, call, idx, made, failures>>

Break(c) ==
    /\ c \notin Elsewhere
    /\ pc[c] = "yielded"
    /\ Drop(c, "closed")
    /\ OnLoop

Finalize(c) ==
    /\ pc[c] = "dropped"
    /\ Leave(c, reply[c])
    /\ UNCHANGED <<db, is_setup, call, idx, rows, made, failures>>
    /\ OnLoop

Waiting == {"setup_lock", "probe_lock", "lock"}

\* The iterator's thread closes the generator itself.  Whoever waits for the lock
\* is marked to run next, but nothing wakes the loop.
DropIterator(c) ==
    /\ c \in Elsewhere
    /\ Close(c)
    /\ unheard' = (unheard \/ \E d \in Client : pc[d] \in Waiting)
    /\ UNCHANGED <<loop, astray, strayed, cancels>>

\* Whatever else wakes the loop.
Wake ==
    /\ unheard
    /\ unheard' = FALSE
    /\ UNCHANGED <<vars, loop, astray, strayed, cancels>>

-----------------------------------------------------------------------------
(* Cancellation *)

\* The statement a coroutine waits for, if it changes anything.
Statements(c) ==
    IF \/ pc[c] \in {"setup_cp", "setup_cp_rest", "setup_wr", "setup_wr_rest", "put",
                    "pw_upsert", "del_cp", "del_wr"}
       \/ pc[c] = "pw" /\ Replace(Batch(c))
    THEN {[at |-> pc[c], call |-> call[c], idx |-> idx[c]]}
    ELSE {}

Runs(s) ==
    LET i == s.idx + 1 IN
    /\ tables' = tables \cup
           (CASE s.at = "setup_cp" -> {"checkpoints"}
              [] s.at = "setup_cp_rest" -> {"checkpoints_rest"}
              [] s.at = "setup_wr" -> {"writes"}
              [] s.at = "setup_wr_rest" -> {"writes_rest"}
              [] OTHER -> {})
    /\ checkpoints' = CASE s.at = "put" -> Upsert(checkpoints, s.call.key, s.call.value)
                        [] s.at = "del_cp" -> DeleteThread(checkpoints, s.call.thread_id)
                        [] OTHER -> checkpoints
    /\ writes' = CASE s.at \in {"pw", "pw_upsert"} ->
                        Upsert(writes, WriteId(s.call.key, s.call.task_id, UseIdx(s.call.batch, i)),
                               s.call.batch[i])
                   [] s.at = "del_wr" -> DeleteThread(writes, s.call.thread_id)
                   [] OTHER -> writes

\* What is left of a script when its first part has run.
RestOf(s) ==
    CASE s.at = "setup_cp" -> {[s EXCEPT !.at = "setup_cp_rest"]}
      [] s.at = "setup_wr" -> {[s EXCEPT !.at = "setup_wr_rest"]}
      [] OTHER -> {}

\* Where a coroutine waits for a query under the lock.
AtQuery(c) ==
    /\ pc[c] \in Critical \ {"yielded", "reentered"}
    /\ pc[c] = "pw" => idx[c] < Len(Batch(c))
    /\ pc[c] = "list_next" => rows[c] # {}

CancelAtQuery(c) ==
    /\ AtQuery(c)
    /\ Leave(c, Outcome("cancelled"))
    /\ rows' = [rows EXCEPT ![c] = {}]
    /\ \/ UNCHANGED <<db, astray>>
       \/ \E s \in Statements(c) : Runs(s) /\ UNCHANGED astray
       \/ /\ Statements(c) # {}
          /\ astray' = astray \cup Statements(c)
          /\ UNCHANGED db
    /\ UNCHANGED <<is_setup, call, idx, made, failures>>

CancelWaiting(c) ==
    /\ pc[c] \in Waiting \cup {"ensure"}
    /\ Goto(c, "idle")
    /\ reply' = [reply EXCEPT ![c] = Outcome("cancelled")]
    /\ UNCHANGED <<db, savers, call, idx, rows, made, failures, astray>>

\* The loop around a generator is cancelled, in a call of its body perhaps.
CancelConsumer(c) ==
    /\ pc[c] \in {"yielded", "reentered"}
    /\ Drop(c, "cancelled")
    /\ UNCHANGED astray

\* A lock that a cancelled task does not give back.
CancelKeepingLock(c) ==
    /\ c \notin Elsewhere /\ loop = Free /\ cancels < MaxCancels
    /\ cancels' = cancels + 1
    /\ AtQuery(c)
    /\ Goto(c, "idle")
    /\ reply' = [reply EXCEPT ![c] = Outcome("cancelled")]
    /\ UNCHANGED <<db, savers, call, idx, rows, made, failures, loop, unheard, astray, strayed>>

\* Cancelling is an event of the loop, and only its own tasks can be cancelled.
Cancel(c) ==
    /\ c \notin Elsewhere
    /\ loop = Free
    /\ cancels < MaxCancels
    /\ cancels' = cancels + 1
    /\ CancelAtQuery(c) \/ CancelWaiting(c) \/ CancelConsumer(c)
    /\ unheard' = FALSE
    /\ UNCHANGED <<loop, strayed>>

\* The server gets round to a statement whose caller is gone.
RunAstray == \E s \in astray :
    /\ Runs(s)
    /\ astray' = (astray \ {s}) \cup RestOf(s)
    /\ strayed' = TRUE
    /\ UNCHANGED <<savers, threads, failures, loop, unheard, cancels>>

-----------------------------------------------------------------------------
(* The system *)

Task(c) ==
    \/ ensure_ready(c) \/ setup(c) \/ probe(c) \/ enter(c)
    \/ aput(c) \/ aput_writes(c) \/ aget_tuple(c) \/ fetch_checkpoint_tuple(c)
    \/ alist(c) \/ Consume(c) \/ Break(c) \/ Finalize(c) \/ DropIterator(c)
    \/ adelete_thread(c)

AsyncNext ==
    \/ \E c \in Client :
          \/ Coroutine(c) \/ FromThread(c) \/ get_tuple(c) \/ put(c)
          \/ Task(c) \/ Cancel(c)
    \/ Wake
    \/ RunAstray

AsyncSpec == AsyncInit /\ [][AsyncNext]_avars

\* The loop runs every task that can run; the consumer of a generator goes on with
\* it or drops it.  Nobody has to cancel, and nothing else has to wake the loop.
AsyncFairSpec == AsyncSpec /\ \A c \in Client : WF_avars(Task(c))

-----------------------------------------------------------------------------
(* Properties *)

AsyncLabels == Labels \cup {"dropped", "blocking"}

\* Every variable keeps its type.
AsyncTypeOK ==
    /\ tables \subseteq Schema
    /\ checkpoints \in CheckpointsTable
    /\ writes \in WritesTable
    /\ lock \in [Saver -> Client \cup {Free}]
    /\ is_setup \in [Saver -> BOOLEAN]
    /\ pc \in [Client -> AsyncLabels]
    /\ call \in [Client -> Calls \cup {NoCall}]
    /\ idx \in [Client -> 0 .. MaxBatch]
    /\ rows \in [Client -> SUBSET [key: DbCheckpointId, value: Value]]
    /\ reply \in [Client -> TupleReply \cup [status: Outcomes \cup {"cancelled", "refused"}]]
    /\ made \in [Client -> 0 .. MaxCalls]
    /\ failures \in 0 .. MaxFailures
    /\ loop \in Client \cup {Free}
    /\ unheard \in BOOLEAN
    /\ astray \subseteq [at: Critical, call: Calls, idx: 0 .. MaxBatch]
    /\ strayed \in BOOLEAN
    /\ cancels \in 0 .. MaxCancels

\* The lock is held exactly by the call that is inside the async with, or by the
\* generator it left behind: cancellation gives it back wherever it strikes.
AsyncLockDiscipline ==
    \A s \in Saver, c \in Client :
        lock[s] = c <=> SaverOf[c] = s /\ pc[c] \in Critical \cup {"dropped"}

\* Until a statement of a cancelled call runs late, a pending write at an ordinary
\* index never changes: a batch cut short by a cancellation is met, not
\* overwritten, by its own retry.
AsyncFirstWriteWins ==
    [][strayed' \/ \A w \in DbWriteId :
          w.idx >= 0 /\ writes[w] # NoRow => writes'[w] \in {writes[w], NoRow}]_avars

\* Until then, every tuple handed out is what the tables hold.
AsyncNoTornTuple ==
    [][strayed' \/ \A c \in Client :
          reply'[c] # reply[c] /\ reply'[c].status = "tuple" =>
              /\ checkpoints[reply'[c].key] = reply'[c].value
              /\ Fetch(writes, reply'[c].key) = reply'[c].pending]_avars

\* Until then, nothing changes while a generator has not ended, one that was
\* dropped and waits for the finalizer included.
AsyncListSnapshot ==
    [][strayed' \/ ((\E c \in Client : pc[c] \in {"list_next", "yielded", "dropped"})
                       => UNCHANGED <<checkpoints, writes>>)]_avars

\* Until then, an adelete_thread that returns leaves neither checkpoint nor pending
\* write of its thread.
DeleteErasesBoth ==
    [][strayed' \/ \A c \in Client :
          pc[c] = "del_wr" /\ reply'[c] = Outcome("ok") =>
              /\ \A k \in Rows(checkpoints') : k.thread_id # call[c].thread_id
              /\ \A w \in Rows(writes') : w.thread_id # call[c].thread_id]_avars

\* Every call ends, cancellations and dropped generators notwithstanding, unless a
\* call was made from inside a list loop, a coroutine blocks the loop, or the lock
\* was released in another thread while the loop slept.
AsyncCallsReturn ==
    \A c \in Client :
        pc[c] # "idle" ~> \/ pc[c] = "idle"
                          \/ \E d \in Client : pc[d] = "reentered"
                          \/ loop # Free
                          \/ unheard

\* Synchronous calls are only allowed from a different thread: none made by a
\* coroutine of the loop starts to wait.
SyncCallsAreRefused == loop = Free
=============================================================================
