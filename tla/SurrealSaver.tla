---------------------------- MODULE SurrealSaver ----------------------------
(***************************************************************************)
(* The synchronous checkpoint saver: any number of SurrealSaver objects on *)
(* one database, used by any number of threads.  Each object has a         *)
(* threading.Lock of its own, so calls on one object take turns while      *)
(* calls on two objects interleave query by query.                         *)
(*                                                                         *)
(* Every query is one step.  A query may fail: then the call raises, the   *)
(* with-statement releases the lock, and the statement may or may not have *)
(* taken effect (the connection can drop before or after the server ran    *)
(* it).  A failed serialization between two writes of a batch looks like a *)
(* query that did not run.  One that is still running when its caller has  *)
(* given up is left out: AsyncSurrealSaver shows what such a one can do.   *)
(*                                                                         *)
(* A set-up script is several statements and takes two steps: the table,   *)
(* which is what a probe looks for, and its fields and index.              *)
(***************************************************************************)
EXTENDS CheckpointDb

CONSTANTS Client,      \* threads that call savers
          Saver,       \* SurrealSaver objects
          SaverOf,     \* the object each thread calls
          Free,        \* value of a lock nobody holds
          Calls,       \* the calls threads may make
          MaxCalls,    \* bound: calls per thread
          MaxFailures, \* bound: queries that fail
          Reentrant    \* whether a thread may call the saver inside its list() loop

GetCall    == [op: {"get_tuple"}, thread_id: ThreadId, checkpoint_ns: Namespace,
               checkpoint_id: CheckpointId \cup {None}]
ListCall   == [op: {"list"}, thread_id: ThreadId \cup {None},
               checkpoint_ns: Namespace \cup {None}, checkpoint_id: CheckpointId \cup {None},
               before: CheckpointId \cup {None}, limit: Nat \cup {None}]
PutCall    == [op: {"put"}, key: DbCheckpointId, value: Value]
PutWritesCall == [op: {"put_writes"}, key: DbCheckpointId, task_id: TaskId,
                  batch: {b \in Seq(DbWrite) : Len(b) <= MaxBatch}]
DeleteCall == [op: {"delete_thread"}, thread_id: ThreadId]
AdminCall  == [op: {"setup", "probe"}]

CallType == GetCall \cup ListCall \cup PutCall \cup PutWritesCall \cup DeleteCall
            \cup AdminCall

NoCall == [op |-> "none"]

ASSUME SaverOfAssumption == SaverOf \in [Client -> Saver]
ASSUME FreeAssumption    == Free \notin Client
ASSUME CallsAssumption   == Calls \subseteq CallType
ASSUME BoundsAssumption  == MaxCalls \in Nat /\ MaxFailures \in Nat

VARIABLES
    tables,      \* what is defined of the schema
    checkpoints, \* rows of the checkpoints table
    writes,      \* rows of the writes table
    lock,        \* lock[s]: the thread that holds saver s's lock, or Free
    is_setup,    \* is_setup[s]
    pc,          \* where each thread is in its call
    call,        \* the call each thread is making
    idx,         \* writes of the batch already dealt with
    rows,        \* checkpoints read and not yet turned into tuples
    reply,       \* what the call last handed to its caller
    made,        \* calls made so far
    failures     \* queries that failed so far

db      == <<tables, checkpoints, writes>>
savers  == <<lock, is_setup>>
threads == <<pc, call, idx, rows, reply, made>>
vars    == <<tables, checkpoints, writes, lock, is_setup, pc, call, idx, rows, reply,
             made, failures>>

-----------------------------------------------------------------------------
(* Replies: nothing yet, an outcome, or a checkpoint tuple. *)

NoReply      == [status |-> "none"]
Outcome(how) == [status |-> how]
Tuple(row, table) ==
    [status |-> "tuple", key |-> row.key, value |-> row.value,
     pending |-> Fetch(table, row.key)]

Row(table, k) == [key |-> k, value |-> table[k]]

My(c) == SaverOf[c]

Goto(c, label) == pc' = [pc EXCEPT ![c] = label]

\* The call is over and the with-statement is left: the lock is free again.
Leave(c, r) ==
    /\ pc' = [pc EXCEPT ![c] = "idle"]
    /\ reply' = [reply EXCEPT ![c] = r]
    /\ lock' = [lock EXCEPT ![My(c)] = Free]

\* A plain acquire() with no release on the way of an exception.
QueryErrorKeepingLock(c) ==
    /\ failures < MaxFailures
    /\ failures' = failures + 1
    /\ pc' = [pc EXCEPT ![c] = "idle"]
    /\ reply' = [reply EXCEPT ![c] = Outcome("raised")]
    /\ UNCHANGED <<lock, is_setup, call, idx, rows, made>>

\* A query raised: the exception leaves the with-statement, and so the call.
QueryError(c) ==
    /\ failures < MaxFailures
    /\ failures' = failures + 1
    /\ Leave(c, Outcome("raised"))
    /\ UNCHANGED <<is_setup, call, idx, rows, made>>

\* The call goes on under the lock it holds.
GoOn(c, label) ==
    /\ Goto(c, label)
    /\ UNCHANGED <<lock, is_setup, call, reply, made, failures>>

-----------------------------------------------------------------------------
(* Calls, and getting ready for them *)

\* What the two scripts define: a table each, then its fields and index.
Schema == {"checkpoints", "checkpoints_rest", "writes", "writes_rest"}

\* Scripts that ran in another life of the database ran to their end.
Init ==
    /\ tables \in {UNION ran : ran \in SUBSET {{"checkpoints", "checkpoints_rest"},
                                             {"writes", "writes_rest"}}}
    /\ checkpoints = EmptyCheckpoints
    /\ writes = EmptyWrites
    /\ lock = [s \in Saver |-> Free]
    /\ is_setup = [s \in Saver |-> FALSE]
    /\ pc = [c \in Client |-> "idle"]
    /\ call = [c \in Client |-> NoCall]
    /\ idx = [c \in Client |-> 0]
    /\ rows = [c \in Client |-> {}]
    /\ reply = [c \in Client |-> NoReply]
    /\ made = [c \in Client |-> 0]
    /\ failures = 0

Begin(c, m) ==
    /\ pc[c] = "idle"
    /\ made[c] < MaxCalls
    /\ made' = [made EXCEPT ![c] = @ + 1]
    /\ call' = [call EXCEPT ![c] = m]
    /\ idx' = [idx EXCEPT ![c] = 0]
    /\ rows' = [rows EXCEPT ![c] = {}]
    /\ reply' = [reply EXCEPT ![c] = NoReply]
    /\ Goto(c, IF m.op = "setup" THEN "setup_lock"
               ELSE IF m.op = "probe" THEN "probe_lock" ELSE "ensure")
    /\ UNCHANGED <<db, savers, failures>>

Invoke(c) == \E m \in Calls : Begin(c, m)

\* _ensure_ready reads is_setup without the lock.
EnsureReady(c) ==
    /\ pc[c] = "ensure"
    /\ Goto(c, IF is_setup[My(c)] THEN "lock" ELSE "probe_lock")
    /\ UNCHANGED <<db, savers, call, idx, rows, reply, made, failures>>

\* setup() and probe() take the lock and look at is_setup again under it.
SetupLock(c) ==
    /\ pc[c] = "setup_lock"
    /\ lock[My(c)] = Free
    /\ IF is_setup[My(c)]
       THEN Leave(c, Outcome("ok"))
       ELSE /\ lock' = [lock EXCEPT ![My(c)] = c]
            /\ Goto(c, "setup_cp")
            /\ UNCHANGED reply
    /\ UNCHANGED <<db, is_setup, call, idx, rows, made, failures>>

\* A part of a script is run, and the next one follows.
Defines(c, label, part, next) ==
    /\ pc[c] = label
    /\ \/ /\ tables' = tables \cup {part}
          /\ GoOn(c, next)
          /\ UNCHANGED <<idx, rows>>
       \/ /\ tables' \in {tables, tables \cup {part}}
          /\ QueryError(c)
    /\ UNCHANGED <<checkpoints, writes>>

SetupCheckpoints(c) ==
    \/ Defines(c, "setup_cp", "checkpoints", "setup_cp_rest")
    \/ Defines(c, "setup_cp_rest", "checkpoints_rest", "setup_wr")

SetupWrites(c) == Defines(c, "setup_wr", "writes", "setup_wr_rest")

\* The second script is at its end, and the saver is ready.
SetupDone(c) ==
    /\ pc[c] = "setup_wr_rest"
    /\ \/ /\ tables' = tables \cup {"writes_rest"}
          /\ is_setup' = [is_setup EXCEPT ![My(c)] = TRUE]
          /\ Leave(c, Outcome("ok"))
          /\ UNCHANGED <<call, idx, rows, made, failures>>
       \/ /\ tables' \in {tables, tables \cup {"writes_rest"}}
          /\ QueryError(c)
    /\ UNCHANGED <<checkpoints, writes>>

\* Where probe() goes when the saver is ready: back to its caller, or on to the
\* call that _ensure_ready was made for.
Probed(c) ==
    IF call[c].op = "probe"
    THEN Leave(c, Outcome("ok"))
    ELSE /\ Goto(c, "lock")
         /\ lock' = [lock EXCEPT ![My(c)] = Free]
         /\ UNCHANGED reply

ProbeLock(c) ==
    /\ pc[c] = "probe_lock"
    /\ lock[My(c)] = Free
    /\ IF is_setup[My(c)]
       THEN Probed(c)
       ELSE /\ lock' = [lock EXCEPT ![My(c)] = c]
            /\ Goto(c, "probe_cp")
            /\ UNCHANGED reply
    /\ UNCHANGED <<db, is_setup, call, idx, rows, made, failures>>

\* A probe of a table that is not defined is an error of the database's own.
MissingTable(c) ==
    /\ Leave(c, Outcome("raised"))
    /\ UNCHANGED <<is_setup, call, idx, rows, made, failures>>

ProbeCheckpoints(c) ==
    /\ pc[c] = "probe_cp"
    /\ \/ /\ "checkpoints" \in tables
          /\ GoOn(c, "probe_wr")
          /\ UNCHANGED <<idx, rows>>
       \/ "checkpoints" \notin tables /\ MissingTable(c)
       \/ QueryError(c)
    /\ UNCHANGED db

\* Reporting the saver ready after the first of the two probes.
ProbeWritesUnchecked(c) ==
    /\ pc[c] = "probe_wr"
    /\ is_setup' = [is_setup EXCEPT ![My(c)] = TRUE]
    /\ Probed(c)
    /\ UNCHANGED <<db, call, idx, rows, made, failures>>

ProbeWrites(c) ==
    /\ pc[c] = "probe_wr"
    /\ \/ /\ "writes" \in tables
          /\ is_setup' = [is_setup EXCEPT ![My(c)] = TRUE]
          /\ Probed(c)
          /\ UNCHANGED <<call, idx, rows, made, failures>>
       \/ "writes" \notin tables /\ MissingTable(c)
       \/ QueryError(c)
    /\ UNCHANGED db

FirstQuery ==
    [put |-> "put", put_writes |-> "pw", get_tuple |-> "get", list |-> "list",
     delete_thread |-> "del_cp"]

\* Reading without the lock.
LockUnlessReading(c) ==
    /\ pc[c] = "lock"
    /\ IF call[c].op = "get_tuple"
       THEN UNCHANGED lock
       ELSE lock[My(c)] = Free /\ lock' = [lock EXCEPT ![My(c)] = c]
    /\ Goto(c, FirstQuery[call[c].op])
    /\ UNCHANGED <<db, is_setup, call, idx, rows, reply, made, failures>>

\* with self.lock: the first query of the call is next.
Lock(c) ==
    /\ pc[c] = "lock"
    /\ lock[My(c)] = Free
    /\ lock' = [lock EXCEPT ![My(c)] = c]
    /\ Goto(c, FirstQuery[call[c].op])
    /\ UNCHANGED <<db, is_setup, call, idx, rows, reply, made, failures>>

-----------------------------------------------------------------------------
(* put *)

Put(c) ==
    /\ pc[c] = "put"
    /\ LET stored == Upsert(checkpoints, call[c].key, call[c].value) IN
       \/ /\ checkpoints' = stored
          /\ Leave(c, Outcome("ok"))
          /\ UNCHANGED <<is_setup, call, idx, rows, made, failures>>
       \/ /\ checkpoints' \in {checkpoints, stored}
          /\ QueryError(c)
    /\ UNCHANGED <<tables, writes>>

-----------------------------------------------------------------------------
(* put_writes: one pass of the loop per write, "pw" being the loop's head *)

Batch(c)     == call[c].batch
NextWrite(c) == Batch(c)[idx[c] + 1]
NextId(c)    == WriteId(call[c].key, call[c].task_id, UseIdx(Batch(c), idx[c] + 1))

\* Upserting the write at hand, and then the next one.
StoreWrite(c) ==
    LET stored == Upsert(writes, NextId(c), NextWrite(c)) IN
    /\ \/ /\ writes' = stored
          /\ idx' = [idx EXCEPT ![c] = @ + 1]
          /\ GoOn(c, "pw")
          /\ UNCHANGED rows
       \/ /\ writes' \in {writes, stored}
          /\ QueryError(c)
    /\ UNCHANGED <<tables, checkpoints>>

PutWritesDone(c) ==
    /\ pc[c] = "pw"
    /\ idx[c] = Len(Batch(c))
    /\ Leave(c, Outcome("ok"))
    /\ UNCHANGED <<db, is_setup, call, idx, rows, made, failures>>

PutWritesReplace(c) ==
    /\ pc[c] = "pw"
    /\ idx[c] < Len(Batch(c))
    /\ Replace(Batch(c))
    /\ StoreWrite(c)

\* get_by_id: a row that exists is left alone.
PutWritesCheck(c) ==
    /\ pc[c] = "pw"
    /\ idx[c] < Len(Batch(c))
    /\ ~ Replace(Batch(c))
    /\ \/ /\ writes[NextId(c)] # NoRow
          /\ idx' = [idx EXCEPT ![c] = @ + 1]
          /\ GoOn(c, "pw")
          /\ UNCHANGED rows
       \/ /\ writes[NextId(c)] = NoRow
          /\ GoOn(c, "pw_upsert")
          /\ UNCHANGED <<idx, rows>>
       \/ QueryError(c)
    /\ UNCHANGED db

PutWritesUpsert(c) ==
    /\ pc[c] = "pw_upsert"
    /\ StoreWrite(c)

-----------------------------------------------------------------------------
(* get_tuple and list *)

\* A record id taken for a record: no look at whether the row is there.
FoundById(c) ==
    LET m == call[c] IN
    IF m.checkpoint_id = None
    THEN GetLatest(checkpoints, m.thread_id, m.checkpoint_ns)
    ELSE {{[thread_id |-> m.thread_id, checkpoint_ns |-> m.checkpoint_ns,
            checkpoint_id |-> m.checkpoint_id]}}

\* get_by_id, or get_latest when the call names no checkpoint.
Found(c) ==
    LET m == call[c] IN
    IF m.checkpoint_id = None
    THEN GetLatest(checkpoints, m.thread_id, m.checkpoint_ns)
    ELSE LET id == [thread_id |-> m.thread_id, checkpoint_ns |-> m.checkpoint_ns,
                    checkpoint_id |-> m.checkpoint_id]
         IN  {IF checkpoints[id] = NoRow THEN {} ELSE {id}}

GetCheckpoint(c) ==
    /\ pc[c] = "get"
    /\ \/ \E found \in Found(c) :
            IF found = {}
            THEN /\ Leave(c, Outcome("absent"))
                 /\ UNCHANGED <<is_setup, call, idx, rows, made, failures>>
            ELSE /\ rows' = [rows EXCEPT ![c] = {Row(checkpoints, k) : k \in found}]
                 /\ GoOn(c, "fetch")
                 /\ UNCHANGED idx
       \/ QueryError(c)
    /\ UNCHANGED db

\* _fetch_checkpoint_tuple for the one checkpoint found.
GetWrites(c) ==
    /\ pc[c] = "fetch"
    /\ \/ /\ \E r \in rows[c] : Leave(c, Tuple(r, writes))
          /\ rows' = [rows EXCEPT ![c] = {}]
          /\ UNCHANGED <<is_setup, call, idx, made, failures>>
       \/ QueryError(c)
    /\ UNCHANGED db

ListCheckpoints(c) ==
    /\ pc[c] = "list"
    /\ \/ \E found \in ListRows(checkpoints, call[c]) :
            /\ rows' = [rows EXCEPT ![c] = {Row(checkpoints, k) : k \in found}]
            /\ GoOn(c, "list_next")
            /\ UNCHANGED idx
       \/ QueryError(c)
    /\ UNCHANGED db

\* The newest row left is completed and yielded; the lock stays with the
\* suspended generator.
Newest(left) ==
    {r \in left : \A o \in left : r.key.checkpoint_id >= o.key.checkpoint_id}

\* A generator that gives its lock back while it is suspended.
ListYieldUnlocked(c) ==
    /\ pc[c] = "list_next"
    /\ rows[c] # {}
    /\ \E r \in Newest(rows[c]) :
         /\ reply' = [reply EXCEPT ![c] = Tuple(r, writes)]
         /\ rows' = [rows EXCEPT ![c] = @ \ {r}]
    /\ Goto(c, "yielded")
    /\ lock' = [lock EXCEPT ![My(c)] = Free]
    /\ UNCHANGED <<db, is_setup, call, idx, made, failures>>

ListYield(c) ==
    /\ pc[c] = "list_next"
    /\ rows[c] # {}
    /\ \/ /\ \E r \in Newest(rows[c]) :
               /\ reply' = [reply EXCEPT ![c] = Tuple(r, writes)]
               /\ rows' = [rows EXCEPT ![c] = @ \ {r}]
          /\ Goto(c, "yielded")
          /\ UNCHANGED <<lock, is_setup, call, idx, made, failures>>
       \/ QueryError(c)
    /\ UNCHANGED db

ListEnd(c) ==
    /\ pc[c] = "list_next"
    /\ rows[c] = {}
    /\ Leave(c, Outcome("ok"))
    /\ UNCHANGED <<db, is_setup, call, idx, rows, made, failures>>

\* The caller asks for the next tuple, or drops the generator, whose close()
\* leaves the with-statement.
Resume(c) ==
    /\ pc[c] = "yielded"
    /\ Goto(c, "list_next")
    /\ UNCHANGED <<db, savers, call, idx, rows, reply, made, failures>>

Close(c) ==
    /\ pc[c] = "yielded"
    /\ Leave(c, Outcome("closed"))
    /\ rows' = [rows EXCEPT ![c] = {}]
    /\ UNCHANGED <<db, is_setup, call, idx, made, failures>>

\* Or it calls the saver from inside its loop and waits for the lock its own
\* generator holds: threading.Lock is not reentrant, so nothing follows.
Reenter(c) ==
    /\ Reentrant
    /\ pc[c] = "yielded"
    /\ Goto(c, "reentered")
    /\ UNCHANGED <<db, savers, call, idx, rows, reply, made, failures>>

-----------------------------------------------------------------------------
(* delete_thread *)

DeleteCheckpoints(c) ==
    /\ pc[c] = "del_cp"
    /\ LET left == DeleteThread(checkpoints, call[c].thread_id) IN
       \/ /\ checkpoints' = left
          /\ GoOn(c, "del_wr")
          /\ UNCHANGED <<idx, rows>>
       \/ /\ checkpoints' \in {checkpoints, left}
          /\ QueryError(c)
    /\ UNCHANGED <<tables, writes>>

\* The statement names $table and the call binds only $thread_id, so
\* type::table($table) is not the writes table.  Whether the database rejects
\* it or deletes from a table nobody uses is not this code's to say.
DeleteWrites(c) ==
    /\ pc[c] = "del_wr"
    /\ \/ \E how \in {"ok", "raised"} : Leave(c, Outcome(how))
          /\ UNCHANGED <<is_setup, call, idx, rows, made, failures>>
       \/ QueryError(c)
    /\ UNCHANGED db

-----------------------------------------------------------------------------
(* The system *)

Step(c) ==
    \/ EnsureReady(c)
    \/ SetupLock(c) \/ SetupCheckpoints(c) \/ SetupWrites(c) \/ SetupDone(c)
    \/ ProbeLock(c) \/ ProbeCheckpoints(c) \/ ProbeWrites(c)
    \/ Lock(c)
    \/ Put(c)
    \/ PutWritesDone(c) \/ PutWritesReplace(c) \/ PutWritesCheck(c) \/ PutWritesUpsert(c)
    \/ GetCheckpoint(c) \/ GetWrites(c)
    \/ ListCheckpoints(c) \/ ListYield(c) \/ ListEnd(c) \/ Resume(c) \/ Close(c)
    \/ Reenter(c)
    \/ DeleteCheckpoints(c) \/ DeleteWrites(c)

\* Every thread has made its calls: the only state in which nothing is left to do.
Finished ==
    /\ \A c \in Client : pc[c] = "idle" /\ made[c] = MaxCalls
    /\ UNCHANGED vars

Next == Finished \/ \E c \in Client : Invoke(c) \/ Step(c)

Spec == Init /\ [][Next]_vars

\* A thread in a call keeps running, and the consumer of a generator goes on
\* with it or drops it.  A thread with no call to make need not make one.
FairSpec == Spec /\ \A c \in Client : WF_vars(Step(c))

-----------------------------------------------------------------------------
(* Types *)

TupleReply == [status: {"tuple"}, key: DbCheckpointId, value: Value,
               pending: SUBSET [task_id: TaskId, idx: Index, row: DbWrite]]

Outcomes == {"none", "ok", "raised", "absent", "closed"}

\* The lock is held from the first of these to the last.
Critical ==
    {"setup_cp", "setup_cp_rest", "setup_wr", "setup_wr_rest", "probe_cp", "probe_wr", "put",
     "pw", "pw_upsert", "get", "fetch", "list", "list_next", "yielded", "reentered", "del_cp",
     "del_wr"}

Labels == {"idle", "ensure", "setup_lock", "probe_lock", "lock"} \cup Critical

\* Every variable keeps its type.
TypeOK ==
    /\ tables \subseteq Schema
    /\ checkpoints \in CheckpointsTable
    /\ writes \in WritesTable
    /\ lock \in [Saver -> Client \cup {Free}]
    /\ is_setup \in [Saver -> BOOLEAN]
    /\ pc \in [Client -> Labels]
    /\ call \in [Client -> Calls \cup {NoCall}]
    /\ idx \in [Client -> 0 .. MaxBatch]
    /\ rows \in [Client -> SUBSET [key: DbCheckpointId, value: Value]]
    /\ reply \in [Client -> TupleReply \cup [status: Outcomes]]
    /\ made \in [Client -> 0 .. MaxCalls]
    /\ failures \in 0 .. MaxFailures

-----------------------------------------------------------------------------
(* Safety *)

\* A saver's lock is held exactly while one of its threads is inside a
\* with-statement: by that thread, on every path in and out of it, exceptions
\* and dropped generators included.
LockDiscipline ==
    \A s \in Saver, c \in Client :
        lock[s] = c <=> SaverOf[c] = s /\ pc[c] \in Critical

\* No query for data is sent before both tables exist, whatever mixture of
\* setup(), probe() and failures of either came before, on this object or on
\* another one: an upsert would otherwise create a table without its schema.  As long
\* as nothing failed, that schema is whole or about to be: a probe, which looks for the
\* tables alone, may come while some thread is in the second half of a script.
DataQuery == {"put", "pw", "pw_upsert", "get", "fetch", "list", "list_next", "yielded",
              "reentered", "del_cp", "del_wr"}

NoQueryBeforeSchema ==
    /\ \A s \in Saver : is_setup[s] =>
          /\ {"checkpoints", "writes"} \subseteq tables
          /\ failures = 0 => \/ tables = Schema
                             \/ \E c \in Client : pc[c] \in {"setup_cp_rest", "setup_wr_rest"}
    /\ \A c \in Client : pc[c] \in DataQuery => is_setup[My(c)]

\* put_writes of one object is first-writer-wins: a pending write stored at an
\* ordinary index never changes while it exists.  The check and the upsert are
\* two queries; only the lock around them makes them one.
FirstWriteWins ==
    [][\A w \in DbWriteId :
          w.idx >= 0 /\ writes[w] # NoRow => writes'[w] \in {writes[w], NoRow}]_vars

\* A tuple handed to a caller is what the database holds at that moment: its
\* checkpoint was read one or more queries before its pending writes.
NoTornTuple ==
    [][\A c \in Client :
          reply'[c] # reply[c] /\ reply'[c].status = "tuple" =>
              /\ checkpoints[reply'[c].key] = reply'[c].value
              /\ Fetch(writes, reply'[c].key) = reply'[c].pending]_vars

\* While a list() generator is open nobody changes the tables through its
\* saver, however long its consumer takes between two tuples.
ListSnapshot ==
    [][(\E c \in Client : pc[c] \in {"list_next", "yielded"})
          => UNCHANGED <<checkpoints, writes>>]_vars

\* When put_writes returns, each write of its batch has a row at its own index:
\* an ordinary channel at its position, a reserved one at its reserved index.
WritesLand ==
    [][\A c \in Client :
          pc[c] = "pw" /\ reply'[c] = Outcome("ok") =>
              \A i \in 1 .. Len(Batch(c)) :
                  LET ch == Batch(c)[i].channel
                      at == IF ch \in RegularChannel THEN i - 1 ELSE WRITES_IDX_MAP[ch]
                  IN  writes[WriteId(call[c].key, call[c].task_id, at)] # NoRow]_vars

-----------------------------------------------------------------------------
(* Liveness *)

\* Every call returns or raises, and every generator ends, unless some thread
\* called the saver from inside its own list() loop.
CallsReturn ==
    \A c \in Client :
        pc[c] # "idle" ~> \/ pc[c] = "idle"
                          \/ \E d \in Client : My(d) = My(c) /\ pc[d] = "reentered"

-----------------------------------------------------------------------------
(* What the code does not do *)

\* When no query failed, a delete_thread that has sent its last query leaves no
\* pending write of the thread behind.
DeleteErasesWrites ==
    [][\A c \in Client :
          pc[c] = "del_wr" /\ pc'[c] = "idle" /\ failures' = 0 =>
              \A w \in Rows(writes') : w.thread_id # call[c].thread_id]_vars
=============================================================================
