------------------------- MODULE SurrealSaverProofs -------------------------
(***************************************************************************)
(* What holds of SurrealSaver for every number of threads, savers, calls,  *)
(* failures and rows.                                                      *)
(***************************************************************************)
EXTENDS SurrealSaver, TLAPS

-----------------------------------------------------------------------------
(* The queries keep the tables' types. *)

\* upsert: the new row is in place, every other row is as it was.
LEMMA UpsertCheckpoints ==
    ASSUME NEW T \in CheckpointsTable, NEW k \in DbCheckpointId, NEW v \in Value
    PROVE  Upsert(T, k, v) \in CheckpointsTable
BY DEF Upsert, CheckpointsTable

\* upsert of a pending write keeps the table's type.
LEMMA UpsertWrites ==
    ASSUME NEW T \in WritesTable, NEW w \in DbWriteId, NEW r \in DbWrite
    PROVE  Upsert(T, w, r) \in WritesTable
BY DEF Upsert, WritesTable

\* delete_thread keeps the table's type.
LEMMA DeleteCheckpointsType ==
    ASSUME NEW T \in CheckpointsTable, NEW t
    PROVE  DeleteThread(T, t) \in CheckpointsTable
BY DEF DeleteThread, CheckpointsTable

\* What a limited query returns is some of what matches.
LEMMA NewestOfSubset ==
    ASSUME NEW S, NEW limit, NEW found \in NewestOf(S, limit)
    PROVE  found \subseteq S
BY DEF NewestOf

\* A present checkpoint row, read, is a key with a payload.
LEMMA RowType ==
    ASSUME NEW T \in CheckpointsTable, NEW k \in Rows(T)
    PROVE  Row(T, k) \in [key: DbCheckpointId, value: Value]
BY DEF Row, Rows, CheckpointsTable

\* The pending writes of a checkpoint, as its tuple carries them.
LEMMA FetchType ==
    ASSUME NEW T \in WritesTable, NEW k
    PROVE  Fetch(T, k) \in SUBSET [task_id: TaskId, idx: Index, row: DbWrite]
<1>1. \A w \in Rows(T) : w \in DbWriteId /\ T[w] \in DbWrite
  BY DEF Rows, WritesTable
<1>2. \A w \in DbWriteId : w.task_id \in TaskId /\ w.idx \in Index
  BY DEF DbWriteId
<1>3. \A w \in Rows(T) : [task_id |-> w.task_id, idx |-> w.idx, row |-> T[w]]
                           \in [task_id: TaskId, idx: Index, row: DbWrite]
  BY <1>1, <1>2
<1> QED
  BY <1>3 DEF Fetch

\* What get_tuple and list hand out is a checkpoint with its pending writes.
LEMMA TupleType ==
    ASSUME NEW T \in WritesTable, NEW r \in [key: DbCheckpointId, value: Value]
    PROVE  Tuple(r, T) \in TupleReply
BY FetchType DEF Tuple, TupleReply

\* The index a write is stored at: not negative exactly for ordinary channels.
LEMMA UseIdxType ==
    ASSUME NEW b \in Seq(DbWrite), Len(b) <= MaxBatch, NEW i \in 1 .. Len(b)
    PROVE  /\ UseIdx(b, i) \in Index
           /\ b[i].channel \in SpecialChannel => UseIdx(b, i) < 0
           /\ b[i].channel \notin SpecialChannel => UseIdx(b, i) = i - 1
BY MaxBatchAssumption DEF UseIdx, Index, SpecialChannel, WRITES_IDX_MAP, DbWrite

-----------------------------------------------------------------------------
(* A call's fields are those of its operation. *)

\* A call carries the arguments of its operation.
LEMMA CallShape ==
    ASSUME NEW m \in Calls
    PROVE  /\ m.op = "put" => m \in PutCall
           /\ m.op = "put_writes" => m \in PutWritesCall
           /\ m.op = "get_tuple" => m \in GetCall
           /\ m.op = "list" => m \in ListCall
           /\ m.op = "delete_thread" => m \in DeleteCall
           /\ m.op \in {"put", "put_writes", "get_tuple", "list", "delete_thread",
                        "setup", "probe"}
BY CallsAssumption
   DEF CallType, PutCall, PutWritesCall, GetCall, ListCall, DeleteCall, AdminCall

-----------------------------------------------------------------------------
(* Where a thread is in its call says which call it is making, how far it has  *)
(* got in its batch, and that what it read is still at hand.                   *)

Replies == TupleReply \cup [status: Outcomes]

PcInv ==
    \A c \in Client :
        /\ pc[c] # "idle" => call[c] \in Calls
        /\ pc[c] \in {"ensure", "lock"} =>
              call[c].op \in {"put", "put_writes", "get_tuple", "list", "delete_thread"}
        /\ pc[c] \in {"probe_lock", "probe_cp", "probe_wr"} => call[c].op # "setup"
        /\ pc[c] \in {"ensure", "probe_lock", "probe_cp", "probe_wr", "lock"} => idx[c] = 0
        /\ pc[c] = "put" => call[c].op = "put"
        /\ pc[c] \in {"pw", "pw_upsert"} =>
              call[c].op = "put_writes" /\ idx[c] <= Len(Batch(c))
        /\ pc[c] = "pw_upsert" => idx[c] < Len(Batch(c)) /\ ~ Replace(Batch(c))
        /\ pc[c] \in {"get", "fetch"} => call[c].op = "get_tuple"
        /\ pc[c] \in {"list", "list_next", "yielded", "reentered"} => call[c].op = "list"
        /\ pc[c] \in {"del_cp", "del_wr"} => call[c].op = "delete_thread"

TypeInv == TypeOK /\ PcInv

\* An outcome without a tuple is a reply.
LEMMA OutcomeType ==
    ASSUME NEW how \in Outcomes
    PROVE  Outcome(how) \in Replies
BY DEF Outcome, Replies

\* Every variable has its type, and a label or a reply may be more than the synchronous
\* saver's: the asynchronous one takes the same steps and has a few of its own.
Typed(L, R) ==
    /\ tables \subseteq Schema
    /\ checkpoints \in CheckpointsTable
    /\ writes \in WritesTable
    /\ lock \in [Saver -> Client \cup {Free}]
    /\ is_setup \in [Saver -> BOOLEAN]
    /\ pc \in [Client -> L]
    /\ call \in [Client -> Calls \cup {NoCall}]
    /\ idx \in [Client -> 0 .. MaxBatch]
    /\ rows \in [Client -> SUBSET [key: DbCheckpointId, value: Value]]
    /\ reply \in [Client -> R]
    /\ made \in [Client -> 0 .. MaxCalls]
    /\ failures \in 0 .. MaxFailures

Types(L, R) == Labels \subseteq L /\ Replies \subseteq R /\ Typed(L, R) /\ PcInv

\* Of the synchronous saver that is the type invariant.
LEMMA TypesOfSaver == TypeInv <=> Types(Labels, Replies)
BY DEF TypeInv, TypeOK, Types, Typed, Replies

\* Leaving a call, with any reply.
LEMMA LeaveWith ==
    ASSUME NEW L, NEW R, Types(L, R), NEW c \in Client, NEW r \in R, Leave(c, r)
    PROVE  /\ pc' \in [Client -> L] /\ pc'[c] = "idle"
           /\ \A d \in Client \ {c} : pc'[d] = pc[d]
           /\ reply' \in [Client -> R]
           /\ lock' \in [Saver -> Client \cup {Free}]
<1>1. pc' \in [Client -> L] /\ pc'[c] = "idle" /\ \A d \in Client \ {c} : pc'[d] = pc[d]
  BY DEF Types, Typed, Leave, Labels
<1>2. reply' \in [Client -> R]
  BY DEF Types, Typed, Leave
<1>3. lock' \in [Saver -> Client \cup {Free}]
  BY SaverOfAssumption DEF Types, Typed, Leave, My
<1> QED
  BY <1>1, <1>2, <1>3

\* Leaving a call as the synchronous saver does.
LEMMA LeaveType ==
    ASSUME NEW L, NEW R, Types(L, R), NEW c \in Client, NEW r \in Replies, Leave(c, r)
    PROVE  /\ pc' \in [Client -> L] /\ pc'[c] = "idle"
           /\ \A d \in Client \ {c} : pc'[d] = pc[d]
           /\ reply' \in [Client -> R]
           /\ lock' \in [Saver -> Client \cup {Free}]
<1>1. r \in R
  BY DEF Types
<1> QED
  BY <1>1, LeaveWith

\* A failing query.
LEMMA QueryErrorType ==
    ASSUME NEW L, NEW R, Types(L, R), NEW c \in Client, QueryError(c)
    PROVE  /\ lock' \in [Saver -> Client \cup {Free}]
           /\ is_setup' \in [Saver -> BOOLEAN]
           /\ pc' \in [Client -> L]
           /\ call' \in [Client -> Calls \cup {NoCall}]
           /\ idx' \in [Client -> 0 .. MaxBatch]
           /\ rows' \in [Client -> SUBSET [key: DbCheckpointId, value: Value]]
           /\ reply' \in [Client -> R]
           /\ made' \in [Client -> 0 .. MaxCalls]
           /\ failures' \in 0 .. MaxFailures
           /\ PcInv'
<1>1. Outcome("raised") \in Replies
  BY OutcomeType DEF Outcomes
<1>2. Leave(c, Outcome("raised"))
  BY DEF QueryError
<1>3. /\ pc' \in [Client -> L] /\ pc'[c] = "idle"
      /\ \A d \in Client \ {c} : pc'[d] = pc[d]
      /\ reply' \in [Client -> R]
      /\ lock' \in [Saver -> Client \cup {Free}]
  BY <1>1, <1>2, LeaveType DEF Types
<1>4. PcInv'
  BY <1>3 DEF Types, PcInv, QueryError, Batch
<1>5. failures' \in 0 .. MaxFailures
  BY BoundsAssumption DEF Types, Typed, QueryError
<1> QED
  BY <1>3, <1>4, <1>5 DEF Types, Typed, QueryError

\* Going on under the lock.
LEMMA GoOnType ==
    ASSUME NEW L, NEW R, Types(L, R), NEW c \in Client, NEW l \in Labels, GoOn(c, l)
    PROVE  /\ pc' \in [Client -> L] /\ pc'[c] = l
           /\ \A d \in Client \ {c} : pc'[d] = pc[d]
           /\ lock' \in [Saver -> Client \cup {Free}]
           /\ is_setup' \in [Saver -> BOOLEAN]
           /\ call' \in [Client -> Calls \cup {NoCall}]
           /\ reply' \in [Client -> R]
           /\ made' \in [Client -> 0 .. MaxCalls]
           /\ failures' \in 0 .. MaxFailures
           /\ call' = call
BY DEF Types, Typed, GoOn, Goto

-----------------------------------------------------------------------------
(* Type correctness *)

\* The type invariant holds of a new database and new savers.
LEMMA InitType == Init => TypeInv
<1> SUFFICES ASSUME Init PROVE TypeInv
  OBVIOUS
<1>1. tables \subseteq Schema
  BY DEF Init, Schema
<1>2. checkpoints \in CheckpointsTable /\ writes \in WritesTable
  BY DEF Init, CheckpointsTable, WritesTable, EmptyCheckpoints, EmptyWrites
<1>3. TypeOK
  BY <1>1, <1>2, BoundsAssumption, MaxBatchAssumption
     DEF Init, TypeOK, Labels, NoReply, Outcomes
<1>4. PcInv
  BY DEF Init, PcInv
<1> QED
  BY <1>3, <1>4 DEF TypeInv

\* Beginning a call keeps the type invariant.
LEMMA InvokeType ==
    ASSUME NEW L, NEW R, Types(L, R), NEW c \in Client, Invoke(c)
    PROVE  Types(L, R)'
<1>1. PICK m \in Calls : Begin(c, m)
  BY DEF Invoke
<1>2. NoReply \in R
  <2>1. NoReply \in Replies
    BY DEF NoReply, Outcomes, Replies
  <2> QED
    BY <2>1 DEF Types
<1>3. made' \in [Client -> 0 .. MaxCalls]
  BY <1>1, BoundsAssumption DEF Types, Typed, Begin
<1>4. pc' \in [Client -> L]
  BY <1>1 DEF Types, Typed, Begin, Goto, Labels
<1>5. idx' \in [Client -> 0 .. MaxBatch]
  BY <1>1, MaxBatchAssumption DEF Types, Typed, Begin
<1>6. Typed(L, R)'
  BY <1>1, <1>2, <1>3, <1>4, <1>5 DEF Types, Typed, Begin, db, savers
<1>7. PcInv'
  BY <1>1, CallShape DEF Types, Typed, PcInv, Begin, Goto, Batch
<1> QED
  BY <1>6, <1>7 DEF Types

\* _ensure_ready keeps the type invariant.
LEMMA ReadyType ==
    ASSUME NEW L, NEW R, Types(L, R), NEW c \in Client, EnsureReady(c)
    PROVE  Types(L, R)'
<1>1. Typed(L, R)'
  BY DEF Types, Typed, EnsureReady, Goto, Labels, db, savers
<1>2. PcInv'
  BY DEF Types, Typed, PcInv, EnsureReady, Goto, Batch
<1> QED
  BY <1>1, <1>2 DEF Types

\* The steps of setup() keep the type invariant.
LEMMA SetupType ==
    ASSUME NEW L, NEW R, Types(L, R), NEW c \in Client,
           SetupLock(c) \/ SetupCheckpoints(c) \/ SetupWrites(c) \/ SetupDone(c)
    PROVE  Types(L, R)'
<1>1. CASE SetupLock(c)
  <2>1. Outcome("ok") \in Replies
    BY OutcomeType DEF Outcomes
  <2>2. Typed(L, R)'
    BY <1>1, <2>1, SaverOfAssumption
       DEF Types, Typed, SetupLock, Leave, Goto, Labels, Critical, db, My, Replies
  <2>3. PcInv'
    BY <1>1, CallShape DEF Types, Typed, PcInv, SetupLock, Leave, Goto, Batch
  <2> QED
    BY <2>2, <2>3 DEF Types
<1>2. CASE SetupCheckpoints(c) \/ SetupWrites(c)
  <2>1. PICK label \in Critical, part \in Schema, next \in Critical :
             /\ Defines(c, label, part, next)
             /\ next \in {"setup_cp_rest", "setup_wr", "setup_wr_rest"}
    BY <1>2, Zenon DEF SetupCheckpoints, SetupWrites, Critical, Schema
  <2>2. tables' \subseteq Schema
    BY <2>1 DEF Defines, Types, Typed
  <2>3. CASE QueryError(c)
    BY <2>1, <2>2, <2>3, QueryErrorType DEF Defines, Types, Typed, Replies
  <2>4. CASE GoOn(c, next) /\ UNCHANGED <<idx, rows>>
    <3>1. Typed(L, R)'
      BY <2>1, <2>2, <2>4, GoOnType DEF Defines, Types, Typed, Replies, Labels
    <3>2. PcInv'
      <4>1. call[c] \in Calls
        BY <2>1 DEF Defines, Types, PcInv, Critical
      <4>2. /\ pc'[c] = next /\ \A d \in Client \ {c} : pc'[d] = pc[d]
            /\ UNCHANGED <<call, idx>>
        BY <2>1, <2>4, GoOnType DEF Labels
      <4> QED
        BY <2>1, <4>1, <4>2, Zenon DEF Types, PcInv, Batch
    <3> QED
      BY <3>1, <3>2 DEF Types
  <2> QED
    BY <2>1, <2>3, <2>4 DEF Defines
<1>3. CASE SetupDone(c)
  <2>1. tables' \subseteq Schema
    BY <1>3 DEF SetupDone, Types, Typed, Schema
  <2>2. CASE QueryError(c)
    BY <1>3, <2>1, <2>2, QueryErrorType DEF SetupDone, Types, Typed, Replies
  <2>3. CASE ~ QueryError(c)
    <3>1. Leave(c, Outcome("ok")) /\ Outcome("ok") \in Replies
      BY <1>3, <2>3, OutcomeType DEF SetupDone, Outcomes
    <3>2. Typed(L, R)'
      BY <1>3, <2>1, <2>3, <3>1, LeaveType DEF SetupDone, Types, Typed, Replies
    <3>3. PcInv'
      BY <1>3, <2>3, <3>1, LeaveType DEF SetupDone, Types, PcInv, Batch
    <3> QED
      BY <3>2, <3>3 DEF Types
  <2> QED
    BY <2>2, <2>3
<1> QED
  BY <1>1, <1>2, <1>3

\* The two ways on from a successful probe.
LEMMA ProbedType ==
    ASSUME NEW L, NEW R, Types(L, R), NEW c \in Client, Probed(c),
           pc[c] \in {"probe_lock", "probe_wr"}, UNCHANGED <<call, idx>>
    PROVE  /\ pc' \in [Client -> L]
           /\ reply' \in [Client -> R]
           /\ lock' \in [Saver -> Client \cup {Free}]
           /\ PcInv'
<1>1. Outcome("ok") \in Replies
  BY OutcomeType DEF Outcomes
<1>2. CASE call[c].op = "probe"
  <2>1. Leave(c, Outcome("ok"))
    BY <1>2 DEF Probed
  <2> QED
    BY <1>1, <2>1, LeaveType DEF Types, PcInv, Batch
<1>3. CASE call[c].op # "probe"
  <2>1. /\ pc' \in [Client -> L] /\ reply' \in [Client -> R]
        /\ lock' \in [Saver -> Client \cup {Free}]
    BY <1>3, SaverOfAssumption DEF Probed, Types, Typed, Goto, Labels, Replies, My
  <2>2. PcInv'
    BY <1>3, CallShape DEF Probed, Types, Typed, PcInv, Goto, Batch
  <2> QED
    BY <2>1, <2>2
<1> QED
  BY <1>2, <1>3

\* A probe that finds a table missing keeps the type invariant.
LEMMA MissingTableType ==
    ASSUME NEW L, NEW R, Types(L, R), NEW c \in Client, MissingTable(c), UNCHANGED db
    PROVE  Types(L, R)'
<1>1. Outcome("raised") \in Replies
  BY OutcomeType DEF Outcomes
<1>2. Typed(L, R)'
  BY <1>1, LeaveType DEF MissingTable, Types, Typed, Replies, db
<1>3. PcInv'
  BY <1>1, LeaveType DEF MissingTable, Types, PcInv, Batch
<1> QED
  BY <1>2, <1>3 DEF Types

\* The steps of probe() keep the type invariant.
LEMMA ProbeType ==
    ASSUME NEW L, NEW R, Types(L, R), NEW c \in Client,
           ProbeLock(c) \/ ProbeCheckpoints(c) \/ ProbeWrites(c)
    PROVE  Types(L, R)'
<1>1. CASE ProbeLock(c)
  <2>1. CASE Probed(c)
    BY <1>1, <2>1, ProbedType DEF ProbeLock, Types, Typed, Replies, db
  <2>2. CASE ~ Probed(c)
    <3>1. Typed(L, R)'
      BY <1>1, <2>2, SaverOfAssumption
         DEF ProbeLock, Types, Typed, Goto, Labels, Critical, db, My
    <3>2. PcInv'
      BY <1>1, <2>2 DEF ProbeLock, Types, Typed, PcInv, Goto, Batch
    <3> QED
      BY <3>1, <3>2 DEF Types
  <2> QED
    BY <2>1, <2>2
<1>2. CASE ProbeCheckpoints(c)
  <2>1. CASE QueryError(c)
    BY <1>2, <2>1, QueryErrorType DEF ProbeCheckpoints, Types, Typed, Replies, db
  <2>2. CASE MissingTable(c)
    BY <1>2, <2>2, MissingTableType DEF ProbeCheckpoints
  <2>3. CASE GoOn(c, "probe_wr") /\ UNCHANGED <<idx, rows>>
    <3>1. Typed(L, R)'
      BY <1>2, <2>3, GoOnType
         DEF ProbeCheckpoints, Types, Typed, Replies, Labels, Critical, db
    <3>2. PcInv'
      BY <1>2, <2>3 DEF ProbeCheckpoints, Types, Typed, PcInv, GoOn, Goto, Batch
    <3> QED
      BY <3>1, <3>2 DEF Types
  <2> QED
    BY <1>2, <2>1, <2>2, <2>3 DEF ProbeCheckpoints
<1>3. CASE ProbeWrites(c)
  <2>1. CASE QueryError(c)
    BY <1>3, <2>1, QueryErrorType DEF ProbeWrites, Types, Typed, Replies, db
  <2>2. CASE MissingTable(c)
    BY <1>3, <2>2, MissingTableType DEF ProbeWrites
  <2>3. CASE /\ Probed(c) /\ is_setup' = [is_setup EXCEPT ![My(c)] = TRUE]
             /\ UNCHANGED <<call, idx, rows, made, failures>>
    BY <1>3, <2>3, ProbedType DEF ProbeWrites, Types, Typed, Replies, db
  <2> QED
    BY <1>3, <2>1, <2>2, <2>3 DEF ProbeWrites
<1> QED
  BY <1>1, <1>2, <1>3

\* Taking the lock leads to the first query of the call's own operation.
LEMMA LockType ==
    ASSUME NEW L, NEW R, Types(L, R), NEW c \in Client, Lock(c)
    PROVE  Types(L, R)'
<1>1. call[c].op \in {"put", "put_writes", "get_tuple", "list", "delete_thread"}
  BY DEF Lock, Types, PcInv
<1>2. Typed(L, R)'
  <2>1. FirstQuery[call[c].op] \in Labels
    BY <1>1 DEF FirstQuery, Labels, Critical
  <2>2. pc' \in [Client -> L]
    BY <2>1 DEF Lock, Types, Typed, Goto
  <2>3. lock' \in [Saver -> Client \cup {Free}]
    BY SaverOfAssumption DEF Lock, Types, Typed, My
  <2> QED
    BY <2>2, <2>3 DEF Lock, Types, Typed, db
<1>3. call[c].op = "put_writes" => idx[c] <= Len(Batch(c))
  <2>1. call[c] \in Calls /\ idx[c] = 0
    BY DEF Lock, Types, PcInv
  <2>2. call[c].op = "put_writes" => Batch(c) \in Seq(DbWrite)
    BY <2>1, CallShape DEF PutWritesCall, Batch
  <2> QED
    BY <2>1, <2>2
<1>4. PcInv'
  BY <1>1, <1>3 DEF Lock, FirstQuery, Types, Typed, PcInv, Goto, Batch
<1> QED
  BY <1>2, <1>4 DEF Types

\* put keeps the type invariant.
LEMMA PutType ==
    ASSUME NEW L, NEW R, Types(L, R), NEW c \in Client, Put(c)
    PROVE  Types(L, R)'
<1>1. call[c] \in PutCall
  BY CallShape DEF Put, Types, PcInv
<1>2. Upsert(checkpoints, call[c].key, call[c].value) \in CheckpointsTable
  BY <1>1, UpsertCheckpoints DEF PutCall, Types, Typed
<1>3. checkpoints' \in CheckpointsTable
  BY <1>2 DEF Put, Types, Typed
<1>4. CASE QueryError(c)
  BY <1>3, <1>4, QueryErrorType DEF Put, Types, Typed, Replies
<1>5. CASE ~ QueryError(c)
  <2>1. Leave(c, Outcome("ok")) /\ Outcome("ok") \in Replies
    BY <1>5, OutcomeType DEF Put, Outcomes
  <2>2. Typed(L, R)'
    BY <1>3, <1>5, <2>1, LeaveType DEF Put, Types, Typed, Replies
  <2>3. PcInv'
    BY <1>5, <2>1, LeaveType DEF Put, Types, PcInv, Batch
  <2> QED
    BY <2>2, <2>3 DEF Types
<1> QED
  BY <1>4, <1>5

\* The write at hand.
LEMMA NextWriteType ==
    ASSUME NEW L, NEW R, Types(L, R), NEW c \in Client,
           pc[c] \in {"pw", "pw_upsert"}, idx[c] # Len(Batch(c))
    PROVE  /\ idx[c] + 1 \in 1 .. Len(Batch(c))
           /\ NextWrite(c) \in DbWrite
           /\ NextId(c) \in DbWriteId
           /\ NextId(c).idx = UseIdx(Batch(c), idx[c] + 1)
           /\ NextId(c).thread_id = call[c].key.thread_id
           /\ Len(Batch(c)) \in 0 .. MaxBatch
           /\ Batch(c) \in Seq(DbWrite)
<1>1. call[c] \in PutWritesCall
  BY CallShape DEF Types, PcInv
<1>2. Batch(c) \in Seq(DbWrite) /\ Len(Batch(c)) <= MaxBatch
  BY <1>1 DEF PutWritesCall, Batch
<1>3. idx[c] + 1 \in 1 .. Len(Batch(c))
  BY <1>2, MaxBatchAssumption DEF Types, Typed, PcInv
<1>4. NextWrite(c) \in DbWrite
  BY <1>2, <1>3 DEF NextWrite
<1>5. UseIdx(Batch(c), idx[c] + 1) \in Index
  BY <1>2, <1>3, UseIdxType
<1>6. call[c].key \in DbCheckpointId /\ call[c].task_id \in TaskId
  BY <1>1 DEF PutWritesCall
<1>7. NextId(c) \in DbWriteId
  BY <1>5, <1>6 DEF NextId, WriteId, DbWriteId, DbCheckpointId
<1>8. /\ NextId(c).idx = UseIdx(Batch(c), idx[c] + 1)
      /\ NextId(c).thread_id = call[c].key.thread_id
  BY DEF NextId, WriteId
<1> QED
  BY <1>2, <1>3, <1>4, <1>7, <1>8, MaxBatchAssumption

\* Upserting the write at hand keeps the type invariant.
LEMMA StoreWriteType ==
    ASSUME NEW L, NEW R, Types(L, R), NEW c \in Client, pc[c] \in {"pw", "pw_upsert"},
           idx[c] # Len(Batch(c)), StoreWrite(c)
    PROVE  Types(L, R)'
<1>1. Upsert(writes, NextId(c), NextWrite(c)) \in WritesTable
  BY NextWriteType, UpsertWrites DEF Types, Typed
<1>2. writes' \in WritesTable
  BY <1>1 DEF StoreWrite, Types, Typed
<1>3. CASE QueryError(c)
  BY <1>2, <1>3, QueryErrorType DEF StoreWrite, Types, Typed, Replies
<1>4. CASE GoOn(c, "pw") /\ idx' = [idx EXCEPT ![c] = @ + 1] /\ UNCHANGED rows
  <2>1. idx[c] + 1 \in 0 .. MaxBatch /\ idx[c] + 1 <= Len(Batch(c))
    BY NextWriteType, MaxBatchAssumption
  <2>2. Typed(L, R)'
    BY <1>2, <1>4, <2>1, GoOnType
       DEF StoreWrite, Types, Typed, Replies, Labels, Critical
  <2>3. PcInv'
    BY <1>4, <2>1, GoOnType DEF Types, Typed, PcInv, GoOn, Goto, Batch
  <2> QED
    BY <2>2, <2>3 DEF Types
<1> QED
  BY <1>3, <1>4 DEF StoreWrite

\* The steps of put_writes keep the type invariant.
LEMMA PutWritesType ==
    ASSUME NEW L, NEW R, Types(L, R), NEW c \in Client,
           \/ PutWritesDone(c) \/ PutWritesReplace(c)
           \/ PutWritesCheck(c) \/ PutWritesUpsert(c)
    PROVE  Types(L, R)'
<1>1. CASE PutWritesDone(c)
  <2>1. Leave(c, Outcome("ok")) /\ Outcome("ok") \in Replies
    BY <1>1, OutcomeType DEF PutWritesDone, Outcomes
  <2>2. Typed(L, R)'
    BY <1>1, <2>1, LeaveType DEF PutWritesDone, Types, Typed, Replies, db
  <2>3. PcInv'
    BY <1>1, <2>1, LeaveType DEF PutWritesDone, Types, PcInv, Batch
  <2> QED
    BY <2>2, <2>3 DEF Types
<1>2. CASE PutWritesReplace(c)
  BY <1>2, StoreWriteType DEF PutWritesReplace
<1>3. CASE PutWritesCheck(c)
  <2>1. CASE QueryError(c)
    BY <1>3, <2>1, QueryErrorType DEF PutWritesCheck, Types, Typed, Replies, db
  <2>2. CASE GoOn(c, "pw") /\ idx' = [idx EXCEPT ![c] = @ + 1] /\ UNCHANGED rows
    <3>1. idx[c] + 1 \in 0 .. MaxBatch /\ idx[c] + 1 <= Len(Batch(c))
      BY <1>3, NextWriteType, MaxBatchAssumption DEF PutWritesCheck
    <3>2. Typed(L, R)'
      BY <1>3, <2>2, <3>1, GoOnType
         DEF PutWritesCheck, Types, Typed, Replies, Labels, Critical, db
    <3>3. PcInv'
      BY <1>3, <2>2, <3>1 DEF PutWritesCheck, Types, Typed, PcInv, GoOn, Goto, Batch
    <3> QED
      BY <3>2, <3>3 DEF Types
  <2>3. CASE GoOn(c, "pw_upsert") /\ UNCHANGED <<idx, rows>>
    <3>1. Typed(L, R)'
      BY <1>3, <2>3, GoOnType
         DEF PutWritesCheck, Types, Typed, Replies, Labels, Critical, db
    <3>2. PcInv'
      BY <1>3, <2>3 DEF PutWritesCheck, Types, Typed, PcInv, GoOn, Goto, Batch
    <3> QED
      BY <3>1, <3>2 DEF Types
  <2> QED
    BY <1>3, <2>1, <2>2, <2>3 DEF PutWritesCheck
<1>4. CASE PutWritesUpsert(c)
  <2>1. idx[c] # Len(Batch(c))
    BY <1>4, CallShape, MaxBatchAssumption
       DEF PutWritesUpsert, Types, Typed, PcInv, PutWritesCall, Batch
  <2> QED
    BY <1>4, <2>1, StoreWriteType DEF PutWritesUpsert
<1> QED
  BY <1>1, <1>2, <1>3, <1>4

\* The steps of get_tuple keep the type invariant.
LEMMA GetType ==
    ASSUME NEW L, NEW R, Types(L, R), NEW c \in Client, GetCheckpoint(c) \/ GetWrites(c)
    PROVE  Types(L, R)'
<1>1. CASE GetCheckpoint(c)
  <2>1. CASE QueryError(c)
    BY <1>1, <2>1, QueryErrorType DEF GetCheckpoint, Types, Typed, Replies, db
  <2>2. CASE ~ QueryError(c)
    <3>1. PICK found \in Found(c) :
            IF found = {}
            THEN /\ Leave(c, Outcome("absent"))
                 /\ UNCHANGED <<is_setup, call, idx, rows, made, failures>>
            ELSE /\ rows' = [rows EXCEPT ![c] = {Row(checkpoints, k) : k \in found}]
                 /\ GoOn(c, "fetch")
                 /\ UNCHANGED idx
      BY <1>1, <2>2 DEF GetCheckpoint
    <3>2. Outcome("absent") \in Replies
      BY OutcomeType DEF Outcomes
    <3>3. CASE found = {}
      <4>1. Typed(L, R)'
        BY <1>1, <3>1, <3>2, <3>3, LeaveType DEF GetCheckpoint, Types, Typed, Replies, db
      <4>2. PcInv'
        BY <3>1, <3>2, <3>3, LeaveType DEF Types, PcInv, Batch
      <4> QED
        BY <4>1, <4>2 DEF Types
    <3>4. CASE found # {}
      <4>1. call[c] \in GetCall
        BY <1>1, CallShape DEF GetCheckpoint, Types, PcInv
      <4>2. found \subseteq Rows(checkpoints)
        <5>1. CASE call[c].checkpoint_id = None
          BY <5>1, <3>1, NewestOfSubset DEF Found, GetLatest
        <5>2. CASE call[c].checkpoint_id # None
          <6> DEFINE id == [thread_id |-> call[c].thread_id,
                            checkpoint_ns |-> call[c].checkpoint_ns,
                            checkpoint_id |-> call[c].checkpoint_id]
          <6>1. id \in DbCheckpointId
            BY <4>1, <5>2 DEF GetCall, DbCheckpointId
          <6>2. found = IF checkpoints[id] = NoRow THEN {} ELSE {id}
            BY <3>1, <5>2 DEF Found
          <6>3. DOMAIN checkpoints = DbCheckpointId
            BY DEF Types, Typed, CheckpointsTable
          <6> HIDE DEF id
          <6> QED
            BY <6>1, <6>2, <6>3 DEF Rows
        <5> QED
          BY <5>1, <5>2
      <4>3. {Row(checkpoints, k) : k \in found} \subseteq [key: DbCheckpointId, value: Value]
        BY <4>2, RowType DEF Types, Typed
      <4>4. Typed(L, R)'
        <5>1. rows' \in [Client -> SUBSET [key: DbCheckpointId, value: Value]]
          BY <3>1, <3>4, <4>3 DEF Types, Typed
        <5>2. "fetch" \in Labels
          BY DEF Labels, Critical
        <5> QED
          BY <1>1, <3>1, <3>4, <5>1, <5>2, GoOnType DEF GetCheckpoint, Types, Typed, db
      <4>5. PcInv'
        BY <1>1, <3>1, <3>4 DEF GetCheckpoint, Types, Typed, PcInv, GoOn, Goto, Batch
      <4> QED
        BY <4>4, <4>5 DEF Types
    <3> QED
      BY <3>3, <3>4
  <2> QED
    BY <2>1, <2>2
<1>2. CASE GetWrites(c)
  <2>1. CASE QueryError(c)
    BY <1>2, <2>1, QueryErrorType DEF GetWrites, Types, Typed, Replies, db
  <2>2. CASE ~ QueryError(c)
    <3>1. PICK r \in rows[c] : Leave(c, Tuple(r, writes))
      BY <1>2, <2>2 DEF GetWrites
    <3>2. Tuple(r, writes) \in Replies
      BY TupleType DEF Types, Typed, Replies
    <3>3. Typed(L, R)'
      BY <1>2, <2>2, <3>1, <3>2, LeaveType DEF GetWrites, Types, Typed, Replies, db
    <3>4. PcInv'
      BY <1>2, <2>2, <3>1, <3>2, LeaveType DEF GetWrites, Types, PcInv, Batch
    <3> QED
      BY <3>3, <3>4 DEF Types
  <2> QED
    BY <2>1, <2>2
<1> QED
  BY <1>1, <1>2

\* The steps of list() and of its consumer keep the type invariant.
LEMMA ListType ==
    ASSUME NEW L, NEW R, Types(L, R), NEW c \in Client,
           \/ ListCheckpoints(c) \/ ListYield(c) \/ ListEnd(c)
           \/ Resume(c) \/ Close(c) \/ Reenter(c)
    PROVE  Types(L, R)'
<1>1. CASE ListCheckpoints(c)
  <2>1. CASE QueryError(c)
    BY <1>1, <2>1, QueryErrorType DEF ListCheckpoints, Types, Typed, Replies, db
  <2>2. CASE ~ QueryError(c)
    <3>1. PICK found \in ListRows(checkpoints, call[c]) :
            /\ rows' = [rows EXCEPT ![c] = {Row(checkpoints, k) : k \in found}]
            /\ GoOn(c, "list_next")
            /\ UNCHANGED idx
      BY <1>1, <2>2 DEF ListCheckpoints
    <3>2. found \subseteq Rows(checkpoints)
      BY NewestOfSubset DEF ListRows
    <3>3. {Row(checkpoints, k) : k \in found} \subseteq [key: DbCheckpointId, value: Value]
      BY <3>2, RowType DEF Types, Typed
    <3>4. Typed(L, R)'
      BY <1>1, <3>1, <3>3, GoOnType
         DEF ListCheckpoints, Types, Typed, Replies, Labels, Critical, db
    <3>5. PcInv'
      BY <1>1, <3>1 DEF ListCheckpoints, Types, Typed, PcInv, GoOn, Goto, Batch
    <3> QED
      BY <3>4, <3>5 DEF Types
  <2> QED
    BY <2>1, <2>2
<1>2. CASE ListYield(c)
  <2>1. CASE QueryError(c)
    BY <1>2, <2>1, QueryErrorType DEF ListYield, Types, Typed, Replies, db
  <2>2. CASE ~ QueryError(c)
    <3>1. PICK r \in Newest(rows[c]) :
            /\ reply' = [reply EXCEPT ![c] = Tuple(r, writes)]
            /\ rows' = [rows EXCEPT ![c] = @ \ {r}]
      BY <1>2, <2>2 DEF ListYield
    <3>2. Tuple(r, writes) \in Replies
      BY TupleType DEF Types, Typed, Replies, Newest
    <3>3. Typed(L, R)'
      BY <1>2, <2>2, <3>1, <3>2
         DEF ListYield, Types, Typed, Replies, Goto, Labels, Critical, db
    <3>4. PcInv'
      BY <1>2, <2>2 DEF ListYield, Types, Typed, PcInv, Goto, Batch
    <3> QED
      BY <3>3, <3>4 DEF Types
  <2> QED
    BY <2>1, <2>2
<1>3. CASE ListEnd(c)
  <2>1. Leave(c, Outcome("ok")) /\ Outcome("ok") \in Replies
    BY <1>3, OutcomeType DEF ListEnd, Outcomes
  <2>2. Typed(L, R)'
    BY <1>3, <2>1, LeaveType DEF ListEnd, Types, Typed, Replies, db
  <2>3. PcInv'
    BY <1>3, <2>1, LeaveType DEF ListEnd, Types, PcInv, Batch
  <2> QED
    BY <2>2, <2>3 DEF Types
<1>4. CASE Close(c)
  <2>1. Leave(c, Outcome("closed")) /\ Outcome("closed") \in Replies
    BY <1>4, OutcomeType DEF Close, Outcomes
  <2>2. Typed(L, R)'
    BY <1>4, <2>1, LeaveType DEF Close, Types, Typed, Replies, db
  <2>3. PcInv'
    BY <1>4, <2>1, LeaveType DEF Close, Types, PcInv, Batch
  <2> QED
    BY <2>2, <2>3 DEF Types
<1>5. CASE Resume(c) \/ Reenter(c)
  <2>1. Typed(L, R)'
    BY <1>5 DEF Resume, Reenter, Types, Typed, Goto, Labels, Critical, db, savers
  <2>2. PcInv'
    BY <1>5 DEF Resume, Reenter, Types, Typed, PcInv, Goto, Batch
  <2> QED
    BY <2>1, <2>2 DEF Types
<1> QED
  BY <1>1, <1>2, <1>3, <1>4, <1>5

\* The steps of delete_thread keep the type invariant.
LEMMA DeleteType ==
    ASSUME NEW L, NEW R, Types(L, R), NEW c \in Client,
           DeleteCheckpoints(c) \/ DeleteWrites(c)
    PROVE  Types(L, R)'
<1>1. CASE DeleteCheckpoints(c)
  <2>1. checkpoints' \in CheckpointsTable
    BY <1>1, DeleteCheckpointsType DEF DeleteCheckpoints, Types, Typed
  <2>2. CASE QueryError(c)
    BY <1>1, <2>1, <2>2, QueryErrorType DEF DeleteCheckpoints, Types, Typed, Replies
  <2>3. CASE GoOn(c, "del_wr") /\ UNCHANGED <<idx, rows>>
    <3>1. Typed(L, R)'
      BY <1>1, <2>1, <2>3, GoOnType
         DEF DeleteCheckpoints, Types, Typed, Replies, Labels, Critical
    <3>2. PcInv'
      BY <1>1, <2>3 DEF DeleteCheckpoints, Types, Typed, PcInv, GoOn, Goto, Batch
    <3> QED
      BY <3>1, <3>2 DEF Types
  <2> QED
    BY <1>1, <2>2, <2>3 DEF DeleteCheckpoints
<1>2. CASE DeleteWrites(c)
  <2>1. CASE QueryError(c)
    BY <1>2, <2>1, QueryErrorType DEF DeleteWrites, Types, Typed, Replies, db
  <2>2. CASE ~ QueryError(c)
    <3>1. PICK how \in {"ok", "raised"} : Leave(c, Outcome(how))
      BY <1>2, <2>2 DEF DeleteWrites
    <3>2. Outcome(how) \in Replies
      BY OutcomeType DEF Outcomes
    <3>3. Typed(L, R)'
      BY <1>2, <2>2, <3>1, <3>2, LeaveType DEF DeleteWrites, Types, Typed, Replies, db
    <3>4. PcInv'
      BY <1>2, <2>2, <3>1, <3>2, LeaveType DEF DeleteWrites, Types, PcInv, Batch
    <3> QED
      BY <3>3, <3>4 DEF Types
  <2> QED
    BY <2>1, <2>2
<1> QED
  BY <1>1, <1>2

\* Every call and every step of one keeps the types.
LEMMA StepTypes ==
    ASSUME NEW L, NEW R, Types(L, R), NEW c \in Client, Invoke(c) \/ Step(c)
    PROVE  Types(L, R)'
BY InvokeType, ReadyType, SetupType, ProbeType, LockType, PutType, PutWritesType,
   GetType, ListType, DeleteType DEF Step

\* Every step keeps the type invariant.
LEMMA NextType == TypeInv /\ [Next]_vars => TypeInv'
<1> SUFFICES ASSUME TypeInv, [Next]_vars PROVE TypeInv'
  OBVIOUS
<1>1. CASE UNCHANGED vars
  BY <1>1 DEF vars, TypeInv, TypeOK, PcInv, Batch
<1>2. ASSUME NEW c \in Client, Invoke(c) \/ Step(c) PROVE TypeInv'
  <2>1. Types(Labels, Replies)'
    BY <1>2, TypesOfSaver, StepTypes
  <2> QED
    BY <2>1 DEF TypeInv, TypeOK, Types, Typed, Replies
<1> QED
  BY <1>1, <1>2 DEF Next, Finished

\* TypeOK holds in every reachable state, together with what the program
\* counter of a thread says of its call.
THEOREM TypeInvariant == Spec => [](TypeOK /\ PcInv)
<1>1. Spec => []TypeInv
  BY InitType, NextType, PTL DEF Spec
<1> QED
  BY <1>1, PTL DEF TypeInv

-----------------------------------------------------------------------------
(* Locks *)

\* The lock of a saver is held exactly by the thread that is at one of some labels.
Held(inside) ==
    \A s \in Saver, c \in Client : lock[s] = c <=> SaverOf[c] = s /\ pc[c] \in inside

\* A step keeps to its side of the lock, takes the lock, or gives it back.
Sides(c, inside) ==
    /\ \A d \in Client \ {c} : pc'[d] = pc[d]
    /\ \/ UNCHANGED lock /\ (pc'[c] \in inside <=> pc[c] \in inside)
       \/ /\ lock[My(c)] = Free /\ lock' = [lock EXCEPT ![My(c)] = c]
          /\ pc'[c] \in inside
       \/ /\ pc[c] \in inside \/ lock[My(c)] = Free
          /\ lock' = [lock EXCEPT ![My(c)] = Free]
          /\ pc'[c] \notin inside

\* Each of the three keeps the lock with whom it belongs to.
LEMMA SidesHold ==
    ASSUME NEW inside, Held(inside), NEW c \in Client, Sides(c, inside),
           lock \in [Saver -> Client \cup {Free}]
    PROVE  Held(inside)'
<1>1. CASE UNCHANGED lock /\ (pc'[c] \in inside <=> pc[c] \in inside)
  BY <1>1 DEF Held, Sides
<1>2. CASE /\ lock[My(c)] = Free /\ lock' = [lock EXCEPT ![My(c)] = c]
           /\ pc'[c] \in inside
  BY <1>2, SaverOfAssumption, FreeAssumption DEF Held, Sides, My
<1>3. CASE /\ pc[c] \in inside \/ lock[My(c)] = Free
           /\ lock' = [lock EXCEPT ![My(c)] = Free]
           /\ pc'[c] \notin inside
  BY <1>3, SaverOfAssumption, FreeAssumption DEF Held, Sides, My
<1> QED
  BY <1>1, <1>2, <1>3 DEF Sides

\* Leaving a call, from inside the with-statement or without having entered it.
LEMMA LeaveSides ==
    ASSUME NEW L, NEW R, Types(L, R), NEW c \in Client, NEW r, Leave(c, r),
           pc[c] \in Critical \/ lock[My(c)] = Free
    PROVE  Sides(c, Critical)
BY DEF Types, Typed, Leave, Sides, Critical

\* A failing query, and going on, under the lock.
LEMMA QuerySides ==
    ASSUME NEW L, NEW R, Types(L, R), NEW c \in Client, pc[c] \in Critical,
           QueryError(c) \/ \E l \in Critical : GoOn(c, l)
    PROVE  Sides(c, Critical)
<1>1. CASE QueryError(c)
  BY <1>1, LeaveSides DEF QueryError
<1>2. CASE \E l \in Critical : GoOn(c, l)
  BY <1>2 DEF Types, Typed, GoOn, Goto, Sides
<1> QED
  BY <1>1, <1>2

\* Every call, and every step of one.
LEMMA StepSides ==
    ASSUME NEW L, NEW R, Types(L, R), NEW c \in Client, Invoke(c) \/ Step(c)
    PROVE  Sides(c, Critical)
<1> USE DEF Types
<1>1. CASE Invoke(c) \/ EnsureReady(c)
  BY <1>1 DEF Typed, Invoke, Begin, EnsureReady, Goto, savers, Sides, Critical
<1>2. CASE SetupLock(c)
  BY <1>2, LeaveSides DEF Typed, SetupLock, Goto, Sides, Critical
<1>3. CASE SetupCheckpoints(c) \/ SetupWrites(c) \/ SetupDone(c)
  <2>1. /\ pc[c] \in Critical
        /\ {"setup_cp_rest", "setup_wr", "setup_wr_rest"} \subseteq Critical
    BY <1>3 DEF SetupCheckpoints, SetupWrites, SetupDone, Defines, Critical
  <2> QED
    BY <1>3, <2>1, QuerySides, LeaveSides DEF SetupCheckpoints, SetupWrites, SetupDone, Defines
<1>4. ASSUME Probed(c), pc[c] \in Critical \/ lock[My(c)] = Free
      PROVE  Sides(c, Critical)
  <2>1. CASE call[c].op = "probe"
    BY <1>4, <2>1, LeaveSides DEF Probed
  <2>2. CASE call[c].op # "probe"
    BY <1>4, <2>2 DEF Typed, Probed, Goto, Sides, Critical
  <2> QED
    BY <2>1, <2>2
<1>5. CASE ProbeLock(c)
  <2>1. CASE is_setup[My(c)]
    BY <1>4, <1>5, <2>1 DEF ProbeLock
  <2>2. CASE ~ is_setup[My(c)]
    BY <1>5, <2>2 DEF Typed, ProbeLock, Goto, Sides, Critical
  <2> QED
    BY <2>1, <2>2
<1>6. CASE ProbeCheckpoints(c) \/ ProbeWrites(c)
  <2>1. pc[c] \in Critical /\ "probe_wr" \in Critical
    BY <1>6 DEF ProbeCheckpoints, ProbeWrites, Critical
  <2> QED
    BY <1>4, <1>6, <2>1, QuerySides, LeaveSides
       DEF ProbeCheckpoints, ProbeWrites, MissingTable
<1>7. CASE Lock(c)
  <2>1. call[c].op \in {"put", "put_writes", "get_tuple", "list", "delete_thread"}
    BY <1>7 DEF Lock, PcInv
  <2>2. FirstQuery[call[c].op] \in Critical
    BY <2>1 DEF FirstQuery, Critical
  <2> QED
    BY <1>7, <2>2 DEF Typed, Lock, Goto, Sides
<1>8. CASE Put(c) \/ PutWritesDone(c)
  <2>1. pc[c] \in Critical
    BY <1>8 DEF Put, PutWritesDone, Critical
  <2> QED
    BY <1>8, <2>1, QuerySides, LeaveSides DEF Put, PutWritesDone
<1>9. CASE PutWritesReplace(c) \/ PutWritesCheck(c) \/ PutWritesUpsert(c)
  <2>1. pc[c] \in Critical /\ "pw" \in Critical /\ "pw_upsert" \in Critical
    BY <1>9 DEF PutWritesReplace, PutWritesCheck, PutWritesUpsert, Critical
  <2> QED
    BY <1>9, <2>1, QuerySides
       DEF PutWritesReplace, PutWritesCheck, PutWritesUpsert, StoreWrite
<1>10. CASE GetCheckpoint(c) \/ GetWrites(c)
  <2>1. pc[c] \in Critical /\ "fetch" \in Critical
    BY <1>10 DEF GetCheckpoint, GetWrites, Critical
  <2> QED
    BY <1>10, <2>1, QuerySides, LeaveSides DEF GetCheckpoint, GetWrites
<1>11. CASE ListCheckpoints(c) \/ ListEnd(c) \/ Close(c)
  <2>1. pc[c] \in Critical /\ "list_next" \in Critical
    BY <1>11 DEF ListCheckpoints, ListEnd, Close, Critical
  <2> QED
    BY <1>11, <2>1, QuerySides, LeaveSides DEF ListCheckpoints, ListEnd, Close
<1>12. CASE ListYield(c) \/ Resume(c) \/ Reenter(c)
  <2>1. CASE QueryError(c)
    BY <1>12, <2>1, QuerySides DEF ListYield, Resume, Reenter, Critical
  <2>2. CASE ~ QueryError(c)
    BY <1>12, <2>2 DEF Typed, ListYield, Resume, Reenter, Goto, savers, Sides, Critical
  <2> QED
    BY <2>1, <2>2
<1>13. CASE DeleteCheckpoints(c) \/ DeleteWrites(c)
  <2>1. pc[c] \in Critical /\ "del_wr" \in Critical
    BY <1>13 DEF DeleteCheckpoints, DeleteWrites, Critical
  <2> QED
    BY <1>13, <2>1, QuerySides, LeaveSides DEF DeleteCheckpoints, DeleteWrites
<1> QED
  BY <1>1, <1>2, <1>3, <1>5, <1>6, <1>7, <1>8, <1>9, <1>10, <1>11, <1>12, <1>13 DEF Step

\* Every step keeps the lock with the thread inside the with-statement.
LEMMA NextLocks == TypeInv /\ LockDiscipline /\ [Next]_vars => LockDiscipline'
<1> SUFFICES ASSUME TypeInv, Held(Critical), [Next]_vars PROVE Held(Critical)'
  BY DEF LockDiscipline, Held
<1>1. CASE UNCHANGED vars
  BY <1>1 DEF vars, Held
<1>2. ASSUME NEW c \in Client, Invoke(c) \/ Step(c) PROVE Held(Critical)'
  <2>1. Sides(c, Critical)
    BY <1>2, TypesOfSaver, StepSides
  <2> QED
    BY <2>1, SidesHold DEF TypeInv, TypeOK
<1> QED
  BY <1>1, <1>2 DEF Next, Finished

\* A lock is held exactly by the thread inside its with-statement, however many
\* savers, threads and failures there are.
THEOREM Locks == Spec => []LockDiscipline
<1>1. Init => LockDiscipline
  BY SaverOfAssumption, FreeAssumption DEF Init, LockDiscipline, Critical
<1>2. TypeInv /\ LockDiscipline /\ [Next]_vars => (TypeInv /\ LockDiscipline)'
  BY NextType, NextLocks
<1> QED
  BY <1>1, <1>2, InitType, PTL DEF Spec

-----------------------------------------------------------------------------
(* The schema *)

\* As long as nothing failed, a table lacks its fields and index only while some thread
\* is about to define them.
ScriptsEnd ==
    failures = 0 =>
        /\ "checkpoints" \in tables =>
              "checkpoints_rest" \in tables \/ \E c \in Client : pc[c] = "setup_cp_rest"
        /\ "writes" \in tables =>
              "writes_rest" \in tables \/ \E c \in Client : pc[c] = "setup_wr_rest"

\* NoQueryBeforeSchema is not inductive: a thread waiting for the lock relies on
\* is_setup not being reset, the second set-up or probe query on the first, and a
\* saver that finds the tables on those who define the rest.
SchemaInv ==
    /\ ScriptsEnd
    /\ \A s \in Saver : is_setup[s] => {"checkpoints", "writes"} \subseteq tables
    /\ \A c \in Client : pc[c] \in DataQuery \cup {"lock"} => is_setup[My(c)]
    /\ \A c \in Client :
          pc[c] \in {"setup_cp_rest", "setup_wr", "setup_wr_rest", "probe_wr"} =>
              "checkpoints" \in tables
    /\ \A c \in Client : pc[c] = "setup_wr_rest" => "writes" \in tables

\* Both tables with their rest are the whole schema.
LEMMA SchemaWhole == ASSUME TypeInv, SchemaInv PROVE NoQueryBeforeSchema
<1>1. ASSUME NEW s \in Saver, is_setup[s], failures = 0,
             ~ \E c \in Client : pc[c] \in {"setup_cp_rest", "setup_wr_rest"}
      PROVE  tables = Schema
  <2>1. Schema \subseteq tables
    BY <1>1 DEF SchemaInv, ScriptsEnd, Schema
  <2> QED
    BY <2>1 DEF TypeInv, TypeOK
<1> QED
  BY <1>1 DEF SchemaInv, NoQueryBeforeSchema

\* Tables are never dropped and a saver that is ready stays ready.
LEMMA SchemaGrows ==
    ASSUME TypeInv, [Next]_vars
    PROVE  /\ tables \subseteq tables' /\ tables' \subseteq Schema
           /\ \A s \in Saver : is_setup[s] => is_setup'[s]
<1>1. TypeInv'
  BY NextType
<1>2. tables' \subseteq Schema
  BY <1>1 DEF TypeInv, TypeOK
<1>3. CASE UNCHANGED vars
  BY <1>2, <1>3 DEF vars
<1>4. ASSUME NEW c \in Client, Invoke(c) \/ Step(c)
      PROVE  /\ tables \subseteq tables'
             /\ \/ UNCHANGED is_setup
                \/ is_setup' = [is_setup EXCEPT ![My(c)] = TRUE]
  BY <1>4
     DEF Step, Invoke, Begin, EnsureReady, SetupLock, SetupCheckpoints, SetupWrites,
         SetupDone, Defines, ProbeLock, ProbeCheckpoints, ProbeWrites, Lock, Put,
         PutWritesDone, PutWritesReplace, PutWritesCheck, PutWritesUpsert, StoreWrite,
         GetCheckpoint, GetWrites, ListCheckpoints, ListYield, ListEnd, Resume, Close,
         Reenter, DeleteCheckpoints, DeleteWrites, GoOn, QueryError, MissingTable, db, savers
<1>5. \A s \in Saver : is_setup[s] => is_setup'[s]
  BY <1>3, <1>4 DEF Next, Finished, vars, TypeInv, TypeOK
<1> QED
  BY <1>2, <1>3, <1>4, <1>5 DEF Next, Finished, vars

\* How a step moves the thread that takes it, and what the schema has to do with it.
LEMMA StepLabels ==
    ASSUME TypeInv, NEW c \in Client, Step(c)
    PROVE  /\ \A d \in Client \ {c} : pc'[d] = pc[d]
           /\ pc'[c] \in DataQuery => pc[c] \in DataQuery \cup {"lock"}
           /\ pc'[c] = "lock" => is_setup[My(c)] \/ is_setup'[My(c)]
           /\ pc'[c] = "setup_wr" => pc[c] = "setup_cp_rest"
           /\ pc'[c] = "probe_wr" => "checkpoints" \in tables'
           /\ pc'[c] = "setup_cp_rest" => "checkpoints" \in tables'
           /\ pc'[c] = "setup_wr_rest" => pc[c] = "setup_wr" /\ "writes" \in tables'
           /\ \/ UNCHANGED is_setup
              \/ /\ is_setup' = [is_setup EXCEPT ![My(c)] = TRUE]
                 /\ \/ pc[c] = "setup_wr_rest"
                    \/ pc[c] = "probe_wr" /\ "writes" \in tables'
<1>1. CASE EnsureReady(c)
  BY <1>1 DEF EnsureReady, Goto, TypeInv, TypeOK, savers, DataQuery
<1>2. CASE SetupLock(c) \/ SetupCheckpoints(c) \/ SetupWrites(c) \/ SetupDone(c)
  BY <1>2 DEF SetupLock, SetupCheckpoints, SetupWrites, SetupDone, Defines, Goto, GoOn, Leave,
              QueryError, TypeInv, TypeOK, DataQuery
<1>3. CASE ProbeLock(c) \/ ProbeCheckpoints(c) \/ ProbeWrites(c)
  <2>1. CASE Probed(c)
    <3>1. /\ \A d \in Client \ {c} : pc'[d] = pc[d]
          /\ pc'[c] \in {"idle", "lock"}
      BY <2>1 DEF Probed, Leave, Goto, TypeInv, TypeOK
    <3>2. is_setup \in [Saver -> BOOLEAN] /\ My(c) \in Saver
      BY SaverOfAssumption DEF TypeInv, TypeOK, My
    <3>3. CASE ProbeLock(c)
      BY <2>1, <3>1, <3>3 DEF ProbeLock, DataQuery, Goto, TypeInv, TypeOK
    <3>4. CASE ProbeCheckpoints(c)
      BY <2>1, <3>1, <3>4 DEF ProbeCheckpoints, DataQuery, GoOn, Goto, QueryError, Leave,
                              MissingTable, db, TypeInv, TypeOK
    <3>5. CASE ProbeWrites(c)
      BY <2>1, <3>1, <3>2, <3>5
         DEF ProbeWrites, DataQuery, QueryError, Leave, MissingTable, db, TypeInv, TypeOK
    <3> QED
      BY <1>3, <3>3, <3>4, <3>5
  <2>2. CASE ~ Probed(c)
    BY <1>3, <2>2 DEF ProbeLock, ProbeCheckpoints, ProbeWrites, Goto, GoOn, Leave,
                      QueryError, MissingTable, TypeInv, TypeOK, DataQuery, db
  <2> QED
    BY <2>1, <2>2
<1>4. CASE Lock(c)
  BY <1>4 DEF Lock, Goto, TypeInv, TypeOK, DataQuery, FirstQuery, PcInv
<1>5. CASE Put(c) \/ DeleteCheckpoints(c) \/ DeleteWrites(c)
  BY <1>5 DEF Put, DeleteCheckpoints, DeleteWrites, Goto, GoOn, Leave, QueryError, TypeInv,
              TypeOK, DataQuery, db
<1>6. CASE PutWritesDone(c) \/ PutWritesReplace(c) \/ PutWritesCheck(c) \/ PutWritesUpsert(c)
  BY <1>6 DEF PutWritesDone, PutWritesReplace, PutWritesCheck, PutWritesUpsert, StoreWrite,
              Goto, GoOn, Leave, QueryError, TypeInv, TypeOK, DataQuery, db
<1>7. CASE GetCheckpoint(c) \/ GetWrites(c)
  BY <1>7 DEF GetCheckpoint, GetWrites, Goto, GoOn, Leave, QueryError, TypeInv, TypeOK,
              DataQuery, db
<1>8. CASE \/ ListCheckpoints(c) \/ ListYield(c) \/ ListEnd(c)
           \/ Resume(c) \/ Close(c) \/ Reenter(c)
  BY <1>8 DEF ListCheckpoints, ListYield, ListEnd, Resume, Close, Reenter, Goto, GoOn, Leave,
              QueryError, TypeInv, TypeOK, DataQuery, db, savers
<1> QED
  BY <1>1, <1>2, <1>3, <1>4, <1>5, <1>6, <1>7, <1>8 DEF Step

\* A step that does not fail defines the rest of a table at once, or is about to.
LEMMA StepDefines ==
    ASSUME TypeInv, NEW c \in Client, Step(c), failures' = 0
    PROVE  /\ failures = 0
           /\ "checkpoints" \in tables' => "checkpoints" \in tables \/ pc'[c] = "setup_cp_rest"
           /\ "writes" \in tables' => "writes" \in tables \/ pc'[c] = "setup_wr_rest"
           /\ pc[c] = "setup_cp_rest" => "checkpoints_rest" \in tables'
           /\ pc[c] = "setup_wr_rest" => "writes_rest" \in tables'
<1>1. failures \in Nat /\ pc \in [Client -> Labels]
  BY BoundsAssumption DEF TypeInv, TypeOK
<1>2. ~ QueryError(c)
  BY <1>1 DEF QueryError
<1>3. CASE SetupCheckpoints(c) \/ SetupWrites(c) \/ SetupDone(c)
  BY <1>1, <1>2, <1>3 DEF SetupCheckpoints, SetupWrites, SetupDone, Defines, GoOn, Goto
<1>4. CASE ~ (SetupCheckpoints(c) \/ SetupWrites(c) \/ SetupDone(c))
  <2>1. UNCHANGED tables /\ pc[c] \notin {"setup_cp_rest", "setup_wr_rest"}
    BY <1>2, <1>4
       DEF Step, EnsureReady, SetupLock, ProbeLock, ProbeCheckpoints, ProbeWrites, Lock, Put,
           PutWritesDone, PutWritesReplace, PutWritesCheck, PutWritesUpsert, StoreWrite,
           GetCheckpoint, GetWrites, ListCheckpoints, ListYield, ListEnd, Resume, Close,
           Reenter, DeleteCheckpoints, DeleteWrites, db
  <2>2. UNCHANGED failures
    BY <1>2, <1>4
       DEF Step, EnsureReady, SetupLock, ProbeLock, ProbeCheckpoints, ProbeWrites, Lock, Put,
           PutWritesDone, PutWritesReplace, PutWritesCheck, PutWritesUpsert, StoreWrite,
           GetCheckpoint, GetWrites, ListCheckpoints, ListYield, ListEnd, Resume, Close,
           Reenter, DeleteCheckpoints, DeleteWrites, MissingTable, GoOn
  <2> QED
    BY <2>1, <2>2
<1> QED
  BY <1>3, <1>4

\* Every step keeps the schema invariant.
LEMMA NextSchema == TypeInv /\ SchemaInv /\ [Next]_vars => SchemaInv'
<1> SUFFICES ASSUME TypeInv, SchemaInv, [Next]_vars PROVE SchemaInv'
  OBVIOUS
<1>1. /\ tables \subseteq tables' /\ tables' \subseteq Schema
      /\ \A s \in Saver : is_setup[s] => is_setup'[s]
  BY SchemaGrows
<1>2. CASE UNCHANGED vars
  BY <1>2 DEF vars, SchemaInv, ScriptsEnd, My
<1>3. ASSUME NEW c \in Client, Invoke(c) PROVE SchemaInv'
  <2>1. /\ UNCHANGED <<tables, is_setup, failures>> /\ pc[c] = "idle"
        /\ \A d \in Client \ {c} : pc'[d] = pc[d]
        /\ pc'[c] \in {"setup_lock", "probe_lock", "ensure"}
    BY <1>3 DEF Invoke, Begin, Goto, TypeInv, TypeOK, db, savers
  <2> QED
    BY <2>1 DEF SchemaInv, ScriptsEnd, DataQuery, My
<1>4. ASSUME NEW c \in Client, Step(c) PROVE SchemaInv'
  <2>1. \A d \in Client : My(d) \in Saver
    BY SaverOfAssumption DEF My
  <2>2. \A s \in Saver : is_setup'[s] => {"checkpoints", "writes"} \subseteq tables'
    <3>1. CASE UNCHANGED is_setup
      BY <1>1, <3>1 DEF SchemaInv
    <3>2. CASE /\ is_setup' = [is_setup EXCEPT ![My(c)] = TRUE]
               /\ \/ pc[c] = "setup_wr_rest"
                  \/ pc[c] = "probe_wr" /\ "writes" \in tables'
      BY <1>1, <3>2 DEF SchemaInv
    <3> QED
      BY <1>4, <3>1, <3>2, StepLabels
  <2>3. \A d \in Client : pc'[d] \in DataQuery \cup {"lock"} => is_setup'[My(d)]
    BY <1>1, <1>4, <2>1, StepLabels DEF SchemaInv
  <2>4. \A d \in Client :
          pc'[d] \in {"setup_cp_rest", "setup_wr", "setup_wr_rest", "probe_wr"} =>
              "checkpoints" \in tables'
    BY <1>1, <1>4, StepLabels DEF SchemaInv
  <2>5. \A d \in Client : pc'[d] = "setup_wr_rest" => "writes" \in tables'
    BY <1>1, <1>4, StepLabels DEF SchemaInv
  <2>6. ScriptsEnd'
    BY <1>1, <1>4, StepLabels, StepDefines DEF SchemaInv, ScriptsEnd
  <2> QED
    BY <2>2, <2>3, <2>4, <2>5, <2>6 DEF SchemaInv, My
<1> QED
  BY <1>2, <1>3, <1>4 DEF Next, Finished

\* Whatever mixture of set-ups, probes and failures came before, no query for data
\* reaches a database that lacks one of the tables; nor, as long as nothing failed, one
\* whose scripts have not run to their end and are not about to.
THEOREM SchemaFirst == Spec => []NoQueryBeforeSchema
<1>1. Init => SchemaInv
  <2> SUFFICES ASSUME Init PROVE SchemaInv
    OBVIOUS
  <2>1. "checkpoints" \in tables <=> "checkpoints_rest" \in tables
    BY DEF Init
  <2>2. "writes" \in tables <=> "writes_rest" \in tables
    BY DEF Init
  <2> QED
    BY <2>1, <2>2, SaverOfAssumption DEF Init, SchemaInv, ScriptsEnd, DataQuery
<1>2. TypeInv /\ SchemaInv /\ [Next]_vars => (TypeInv /\ SchemaInv)'
  BY NextType, NextSchema
<1>3. TypeInv /\ SchemaInv => NoQueryBeforeSchema
  BY SchemaWhole
<1> QED
  BY <1>1, <1>2, <1>3, InitType, PTL DEF Spec

-----------------------------------------------------------------------------
(* One saver: what its lock is for *)

SingleSaver == \A c, d \in Client : SaverOf[c] = SaverOf[d]

\* What a thread has read still holds when it acts on it.
ReadInv ==
    \A c \in Client :
        /\ pc[c] = "pw_upsert" => writes[NextId(c)] = NoRow
        /\ pc[c] \in {"fetch", "list_next", "yielded"} =>
              \A r \in rows[c] : checkpoints[r.key] = r.value

\* At most one thread of the saver is inside.
LEMMA Alone ==
    ASSUME SingleSaver, LockDiscipline, NEW c \in Client, NEW d \in Client,
           pc[c] \in Critical, pc[d] \in Critical
    PROVE  c = d
BY SaverOfAssumption DEF SingleSaver, LockDiscipline

\* The only steps that touch a row, and what each does to it.
LEMMA DataSteps ==
    ASSUME NEW L, NEW R, Types(L, R), NEW c \in Client, Invoke(c) \/ Step(c)
    PROVE  /\ \/ UNCHANGED writes
              \/ /\ pc[c] \in {"pw", "pw_upsert"} /\ pc[c] \in Critical
                 /\ pc[c] = "pw" => Replace(Batch(c))
                 /\ idx[c] # Len(Batch(c))
                 /\ writes' = Upsert(writes, NextId(c), NextWrite(c))
           /\ \/ UNCHANGED checkpoints
              \/ pc[c] \in {"put", "del_cp"} /\ pc[c] \in Critical
           /\ \A d \in Client \ {c} : /\ pc'[d] = pc[d] /\ rows'[d] = rows[d]
                                      /\ call'[d] = call[d] /\ idx'[d] = idx[d]
                                      /\ reply'[d] = reply[d]
           /\ call'[c] = call[c] \/ pc[c] = "idle"
<1>1. CASE Invoke(c)
  BY <1>1 DEF Invoke, Begin, Goto, Types, Typed, db
<1>2. CASE EnsureReady(c) \/ SetupLock(c) \/ SetupCheckpoints(c) \/ SetupWrites(c) \/ SetupDone(c)
  BY <1>2 DEF EnsureReady, SetupLock, SetupCheckpoints, SetupWrites, SetupDone, Defines, Goto,
              GoOn, Leave, QueryError, Types, Typed, db
<1>3. CASE ProbeLock(c) \/ ProbeCheckpoints(c) \/ ProbeWrites(c) \/ Lock(c)
  BY <1>3 DEF ProbeLock, ProbeCheckpoints, ProbeWrites, Lock, Probed, MissingTable, Goto,
              GoOn, Leave, QueryError, Types, Typed, db
<1>4. CASE Put(c) \/ DeleteCheckpoints(c) \/ DeleteWrites(c)
  BY <1>4 DEF Put, DeleteCheckpoints, DeleteWrites, Goto, GoOn, Leave, QueryError, Types,
              Typed, db, Critical
<1>5. CASE PutWritesDone(c)
  BY <1>5 DEF PutWritesDone, Leave, Types, Typed, db
<1>6. CASE PutWritesCheck(c)
  BY <1>6 DEF PutWritesCheck, Goto, GoOn, Leave, QueryError, Types, Typed, db
<1>7. CASE PutWritesReplace(c) \/ PutWritesUpsert(c)
  <2>1. /\ pc[c] \in {"pw", "pw_upsert"} /\ pc[c] \in Critical
        /\ pc[c] = "pw" => Replace(Batch(c))
        /\ StoreWrite(c)
    BY <1>7 DEF PutWritesReplace, PutWritesUpsert, Critical
  <2>2. idx[c] # Len(Batch(c))
    BY <1>7, CallShape, MaxBatchAssumption
       DEF PutWritesReplace, PutWritesUpsert, Types, Typed, PcInv, PutWritesCall, Batch
  <2> QED
    BY <2>1, <2>2 DEF StoreWrite, Goto, GoOn, Leave, QueryError, Types, Typed
<1>8. CASE GetCheckpoint(c) \/ GetWrites(c)
  BY <1>8 DEF GetCheckpoint, GetWrites, Goto, GoOn, Leave, QueryError, Types, Typed, db
<1>9. CASE \/ ListCheckpoints(c) \/ ListYield(c) \/ ListEnd(c)
           \/ Resume(c) \/ Close(c) \/ Reenter(c)
  BY <1>9 DEF ListCheckpoints, ListYield, ListEnd, Resume, Close, Reenter, Goto, GoOn, Leave,
              QueryError, Types, Typed, db, savers
<1> QED
  BY <1>1, <1>2, <1>3, <1>4, <1>5, <1>6, <1>7, <1>8, <1>9 DEF Step

\* The thread that takes the step keeps, or establishes, what it relies on.
LEMMA OwnReads ==
    ASSUME NEW L, NEW R, Types(L, R), ReadInv, NEW c \in Client, Invoke(c) \/ Step(c)
    PROVE  /\ pc'[c] = "pw_upsert" => writes'[NextId(c)'] = NoRow
           /\ pc'[c] \in {"fetch", "list_next", "yielded"} =>
                 \A r \in rows'[c] : checkpoints'[r.key] = r.value
<1>1. CASE Invoke(c)
  BY <1>1 DEF Invoke, Begin, Goto, Types, Typed
<1>2. CASE EnsureReady(c) \/ SetupLock(c) \/ SetupCheckpoints(c) \/ SetupWrites(c) \/ SetupDone(c)
  BY <1>2 DEF EnsureReady, SetupLock, SetupCheckpoints, SetupWrites, SetupDone, Defines, Goto,
              GoOn, Leave, QueryError, Types, Typed
<1>3. CASE ProbeLock(c) \/ ProbeCheckpoints(c) \/ ProbeWrites(c)
  BY <1>3 DEF ProbeLock, ProbeCheckpoints, ProbeWrites, Probed, MissingTable, Goto,
              GoOn, Leave, QueryError, Types, Typed
<1>4. CASE Lock(c)
  <2>1. FirstQuery[call[c].op] \in {"put", "pw", "get", "list", "del_cp"}
    BY <1>4 DEF Lock, Types, PcInv, FirstQuery
  <2> QED
    BY <1>4, <2>1 DEF Lock, Goto, Types, Typed
<1>5. CASE Put(c) \/ DeleteCheckpoints(c) \/ DeleteWrites(c) \/ PutWritesDone(c)
  BY <1>5 DEF Put, DeleteCheckpoints, DeleteWrites, PutWritesDone, Goto, GoOn, Leave,
              QueryError, Types, Typed
<1>6. CASE PutWritesReplace(c) \/ PutWritesUpsert(c)
  BY <1>6 DEF PutWritesReplace, PutWritesUpsert, StoreWrite, Goto, GoOn, Leave, QueryError,
              Types, Typed
<1>7. CASE PutWritesCheck(c)
  <2>1. CASE writes[NextId(c)] = NoRow /\ GoOn(c, "pw_upsert") /\ UNCHANGED <<idx, rows>>
    <3>1. NextId(c)' = NextId(c) /\ UNCHANGED writes
      BY <1>7, <2>1 DEF PutWritesCheck, NextId, Batch, GoOn, db
    <3> QED
      BY <2>1, <3>1 DEF GoOn, Goto, Types, Typed
  <2>2. CASE GoOn(c, "pw") \/ QueryError(c)
    BY <2>2 DEF Goto, GoOn, Leave, QueryError, Types, Typed
  <2> QED
    BY <1>7, <2>1, <2>2 DEF PutWritesCheck
<1>8. CASE GetCheckpoint(c) \/ ListCheckpoints(c)
  <2>1. CASE QueryError(c) \/ Leave(c, Outcome("absent"))
    BY <2>1 DEF Leave, QueryError, Types, Typed
  <2>2. ASSUME NEW found, rows' = [rows EXCEPT ![c] = {Row(checkpoints, k) : k \in found}],
               NEW l \in {"fetch", "list_next"}, GoOn(c, l)
        PROVE  /\ pc'[c] = l
               /\ \A r \in rows'[c] : checkpoints'[r.key] = r.value
    <3>1. UNCHANGED checkpoints
      BY <1>8 DEF GetCheckpoint, ListCheckpoints, db
    <3>2. \A k : Row(checkpoints, k).key = k /\ Row(checkpoints, k).value = checkpoints[k]
      BY DEF Row
    <3>3. rows'[c] = {Row(checkpoints, k) : k \in found}
      BY <2>2 DEF Types, Typed
    <3> QED
      BY <2>2, <3>1, <3>2, <3>3 DEF GoOn, Goto, Types, Typed
  <2> QED
    BY <1>8, <2>1, <2>2 DEF GetCheckpoint, ListCheckpoints
<1>9. CASE GetWrites(c) \/ ListEnd(c) \/ Close(c)
  BY <1>9 DEF GetWrites, ListEnd, Close, Leave, QueryError, Types, Typed
<1>10. CASE ListYield(c) \/ Resume(c) \/ Reenter(c)
  BY <1>10 DEF ListYield, Resume, Reenter, Goto, Leave, QueryError, Types, Typed, ReadInv,
               db
<1> QED
  BY <1>1, <1>2, <1>3, <1>4, <1>5, <1>6, <1>7, <1>8, <1>9, <1>10 DEF Step

\* No step of one thread undoes what another one read under the lock.
LEMMA NextReads ==
    ASSUME SingleSaver
    PROVE  TypeInv /\ LockDiscipline /\ ReadInv /\ [Next]_vars => ReadInv'
<1> SUFFICES ASSUME TypeInv, LockDiscipline, ReadInv, [Next]_vars PROVE ReadInv'
  OBVIOUS
<1>1. CASE UNCHANGED vars
  BY <1>1 DEF vars, ReadInv, NextId, Batch
<1>2. ASSUME NEW c \in Client, Invoke(c) \/ Step(c), NEW d \in Client, c # d,
             pc'[d] \in {"pw_upsert", "fetch", "list_next", "yielded"}
      PROVE  /\ UNCHANGED <<checkpoints, writes>>
             /\ pc[d] = pc'[d] /\ rows'[d] = rows[d] /\ NextId(d)' = NextId(d)
  <2>1. /\ pc'[d] = pc[d] /\ rows'[d] = rows[d] /\ call'[d] = call[d] /\ idx'[d] = idx[d]
    BY <1>2, TypesOfSaver, DataSteps
  <2>2. pc[d] \in Critical
    BY <1>2, <2>1 DEF Critical
  <2>3. pc[c] \notin Critical
    BY <1>2, <2>2, Alone
  <2> QED
    BY <1>2, <2>1, <2>3, TypesOfSaver, DataSteps DEF NextId, Batch
<1>3. ASSUME NEW c \in Client, Invoke(c) \/ Step(c) PROVE ReadInv'
  BY <1>2, <1>3, TypesOfSaver, OwnReads DEF ReadInv
<1> QED
  BY <1>1, <1>3 DEF Next, Finished

\* Through one saver, what a thread read under the lock is still true when it
\* acts on it.
LEMMA Reads ==
    ASSUME SingleSaver
    PROVE  Spec => [](TypeInv /\ LockDiscipline /\ ReadInv)
<1>1. Init => TypeInv /\ LockDiscipline /\ ReadInv
  <2>1. Init => LockDiscipline /\ ReadInv
    BY SaverOfAssumption, FreeAssumption DEF Init, LockDiscipline, ReadInv, Critical
  <2> QED
    BY <2>1, InitType
<1>2. TypeInv /\ LockDiscipline /\ ReadInv /\ [Next]_vars
        => (TypeInv /\ LockDiscipline /\ ReadInv)'
  BY NextType, NextLocks, NextReads
<1> QED
  BY <1>1, <1>2, PTL DEF Spec

\* A pending write at an ordinary index never changes while it exists: the lock
\* makes the check and the upsert one.
THEOREM FirstWriterWins ==
    ASSUME SingleSaver
    PROVE  Spec => FirstWriteWins
<1>1. ASSUME TypeInv, LockDiscipline, ReadInv, [Next]_vars
      PROVE  [\A w \in DbWriteId :
                w.idx >= 0 /\ writes[w] # NoRow => writes'[w] \in {writes[w], NoRow}]_vars
  <2>1. CASE UNCHANGED writes
    BY <2>1
  <2>2. CASE ~ UNCHANGED writes
    <3>1. PICK c \in Client : Invoke(c) \/ Step(c)
      BY <1>1, <2>2 DEF Next, Finished, vars
    <3>2. /\ pc[c] \in {"pw", "pw_upsert"}
          /\ pc[c] = "pw" => Replace(Batch(c))
          /\ idx[c] # Len(Batch(c))
          /\ writes' = Upsert(writes, NextId(c), NextWrite(c))
      BY <1>1, <2>2, <3>1, TypesOfSaver, DataSteps
    <3>3. ASSUME pc[c] = "pw" PROVE NextId(c).idx < 0
      BY <1>1, <3>2, <3>3, TypesOfSaver, NextWriteType, UseIdxType DEF Replace
    <3>4. ASSUME pc[c] = "pw_upsert" PROVE writes[NextId(c)] = NoRow
      BY <1>1, <3>4 DEF ReadInv
    <3>5. NextId(c) \in DbWriteId /\ NextId(c).idx \in Int
      BY <1>1, <3>2, TypesOfSaver, NextWriteType DEF DbWriteId, Index
    <3>6. \A w \in DbWriteId : w # NextId(c) => writes'[w] = writes[w]
      BY <1>1, <3>2 DEF Upsert, TypeInv, TypeOK, WritesTable
    <3>7. \A w \in DbWriteId : w.idx >= 0 /\ writes[w] # NoRow => w # NextId(c)
      BY <3>2, <3>3, <3>4, <3>5
    <3> QED
      BY <3>6, <3>7
  <2> QED
    BY <2>1, <2>2
<1> QED
  BY <1>1, Reads, PTL DEF Spec, FirstWriteWins

\* While a list() generator is open nobody changes the tables through its saver.
THEOREM ListsAreSnapshots ==
    ASSUME SingleSaver
    PROVE  Spec => ListSnapshot
<1>1. ASSUME TypeInv, LockDiscipline, [Next]_vars
      PROVE  [(\E c \in Client : pc[c] \in {"list_next", "yielded"})
                => UNCHANGED <<checkpoints, writes>>]_vars
  <2> SUFFICES ASSUME NEW c \in Client, pc[c] \in {"list_next", "yielded"}, ~ UNCHANGED vars
               PROVE  UNCHANGED <<checkpoints, writes>>
    OBVIOUS
  <2>1. CASE Finished
    BY <2>1 DEF Finished, vars
  <2>2. ASSUME NEW d \in Client, Invoke(d) \/ Step(d)
        PROVE  UNCHANGED <<checkpoints, writes>>
    <3>1. pc[c] \in Critical
      BY DEF Critical
    <3>2. pc[d] \in Critical => c = d
      BY <1>1, <3>1, Alone
    <3> QED
      BY <1>1, <2>2, <3>2, TypesOfSaver, DataSteps
  <2> QED
    BY <1>1, <2>1, <2>2 DEF Next
<1> QED
  BY <1>1, Reads, PTL DEF Spec, ListSnapshot

\* The steps that hand out a tuple.
LEMMA TupleSteps ==
    ASSUME NEW L, NEW R, Types(L, R), NEW c \in Client, Invoke(c) \/ Step(c),
           reply'[c] # reply[c], reply'[c].status = "tuple"
    PROVE  /\ pc[c] \in {"fetch", "list_next"}
           /\ UNCHANGED <<checkpoints, writes>>
           /\ \E r \in rows[c] : reply'[c] = Tuple(r, writes)
<1>1. \A how : Outcome(how).status = how
  BY DEF Outcome
<1>2. reply \in [Client -> R]
  BY DEF Types, Typed
<1>3. ~ QueryError(c) /\ ~ MissingTable(c)
  BY <1>1, <1>2 DEF QueryError, MissingTable, Leave
<1>4. ASSUME NEW how \in {"ok", "raised", "absent", "closed"}
      PROVE  ~ Leave(c, Outcome(how))
  BY <1>1, <1>2 DEF Leave
<1>5. ~ Probed(c)
  BY <1>4, <1>2 DEF Probed
<1>6. \A l : ~ GoOn(c, l)
  BY DEF GoOn
<1>7. ~ Invoke(c)
  BY <1>2 DEF Invoke, Begin, NoReply
<1>8. CASE EnsureReady(c) \/ SetupLock(c) \/ SetupCheckpoints(c) \/ SetupWrites(c) \/ SetupDone(c)
  BY <1>3, <1>4, <1>6, <1>8
     DEF EnsureReady, SetupLock, SetupCheckpoints, SetupWrites, SetupDone, Defines
<1>9. CASE ProbeLock(c) \/ ProbeCheckpoints(c) \/ ProbeWrites(c) \/ Lock(c)
  BY <1>3, <1>5, <1>6, <1>9 DEF ProbeLock, ProbeCheckpoints, ProbeWrites, Lock
<1>10. CASE Put(c) \/ DeleteCheckpoints(c) \/ DeleteWrites(c)
  BY <1>3, <1>4, <1>6, <1>10 DEF Put, DeleteCheckpoints, DeleteWrites
<1>11. CASE PutWritesDone(c) \/ PutWritesReplace(c) \/ PutWritesCheck(c) \/ PutWritesUpsert(c)
  BY <1>3, <1>4, <1>6, <1>11
     DEF PutWritesDone, PutWritesReplace, PutWritesCheck, PutWritesUpsert, StoreWrite
<1>12. CASE GetCheckpoint(c) \/ ListCheckpoints(c) \/ ListEnd(c) \/ Resume(c) \/ Close(c)
            \/ Reenter(c)
  BY <1>3, <1>4, <1>6, <1>12
     DEF GetCheckpoint, ListCheckpoints, ListEnd, Resume, Close, Reenter
<1>13. CASE GetWrites(c)
  BY <1>2, <1>3, <1>13 DEF GetWrites, Leave, db
<1>14. CASE ListYield(c)
  BY <1>2, <1>3, <1>14 DEF ListYield, Newest, db
<1> QED
  BY <1>7, <1>8, <1>9, <1>10, <1>11, <1>12, <1>13, <1>14 DEF Step

\* A tuple handed out by get_tuple or list is what the tables hold right then,
\* although its two halves are two queries.
THEOREM TuplesAreWhole ==
    ASSUME SingleSaver
    PROVE  Spec => NoTornTuple
<1>1. ASSUME TypeInv, ReadInv, [Next]_vars
      PROVE  [\A c \in Client :
                reply'[c] # reply[c] /\ reply'[c].status = "tuple" =>
                    /\ checkpoints[reply'[c].key] = reply'[c].value
                    /\ Fetch(writes, reply'[c].key) = reply'[c].pending]_vars
  <2> SUFFICES ASSUME NEW c \in Client, reply'[c] # reply[c], reply'[c].status = "tuple",
                      ~ UNCHANGED vars
               PROVE  /\ checkpoints[reply'[c].key] = reply'[c].value
                      /\ Fetch(writes, reply'[c].key) = reply'[c].pending
    OBVIOUS
  <2>1. PICK d \in Client : Invoke(d) \/ Step(d)
    BY <1>1 DEF Next, Finished
  <2>2. d = c
    BY <1>1, <2>1, TypesOfSaver, DataSteps
  <2>3. PICK r \in rows[c] : reply'[c] = Tuple(r, writes)
    BY <1>1, <2>1, <2>2, TypesOfSaver, TupleSteps
  <2>4. pc[c] \in {"fetch", "list_next"}
    BY <1>1, <2>1, <2>2, TypesOfSaver, TupleSteps
  <2>5. checkpoints[r.key] = r.value
    BY <1>1, <2>4 DEF ReadInv
  <2>6. /\ reply'[c].key = r.key /\ reply'[c].value = r.value
        /\ reply'[c].pending = Fetch(writes, r.key)
    BY <2>3 DEF Tuple
  <2> QED
    BY <2>5, <2>6
<1> QED
  BY <1>1, Reads, PTL DEF Spec, NoTornTuple

-----------------------------------------------------------------------------
(* put_writes *)

\* The id of the write at position i of a batch.
BatchId(c, i) == WriteId(call[c].key, call[c].task_id, UseIdx(Batch(c), i))

\* Every write dealt with so far has a row: one it was given, or one it found.
LandInv ==
    \A c \in Client :
        pc[c] \in {"pw", "pw_upsert"} =>
            \A i \in 1 .. idx[c] : writes[BatchId(c, i)] # NoRow

\* A batch goes on by one write, which then has a row, or starts.
LEMMA OwnWrites ==
    ASSUME TypeInv, LandInv, NEW c \in Client, Invoke(c) \/ Step(c),
           pc'[c] \in {"pw", "pw_upsert"}
    PROVE  \A i \in 1 .. idx'[c] : writes'[BatchId(c, i)'] # NoRow
<1>1. ASSUME idx'[c] = 0 PROVE \A i \in 1 .. idx'[c] : writes'[BatchId(c, i)'] # NoRow
  BY <1>1
<1>2. CASE pc[c] \notin {"pw", "pw_upsert"}
  <2>1. Lock(c)
    BY <1>2
       DEF Step, Invoke, Begin, EnsureReady, SetupLock, SetupCheckpoints, SetupWrites,
           SetupDone, Defines, ProbeLock, ProbeCheckpoints, ProbeWrites, Probed, Put,
           PutWritesDone, PutWritesReplace, PutWritesCheck, PutWritesUpsert, GetCheckpoint,
           GetWrites, ListCheckpoints, ListYield, ListEnd, Resume, Close, Reenter,
           DeleteCheckpoints, DeleteWrites, Goto, GoOn, Leave, QueryError, MissingTable,
           TypeInv, TypeOK
  <2>2. idx'[c] = 0
    BY <2>1 DEF Lock, TypeInv, PcInv
  <2> QED
    BY <1>1, <2>2
<1>3. CASE pc[c] \in {"pw", "pw_upsert"}
  <2> USE <1>3
  <2>1. call'[c] = call[c] /\ \A i : BatchId(c, i)' = BatchId(c, i)
    BY TypesOfSaver, DataSteps DEF BatchId, Batch
  <2>2. idx[c] \in 0 .. MaxBatch /\ MaxBatch \in Nat
    BY MaxBatchAssumption DEF TypeInv, TypeOK
  <2>3. \/ UNCHANGED <<writes, idx>>
        \/ /\ idx'[c] = idx[c] + 1
           /\ writes'[NextId(c)] # NoRow
           /\ \A w \in DbWriteId : writes'[w] = writes[w] \/ writes'[w] # NoRow
    <3>1. CASE PutWritesReplace(c) \/ PutWritesUpsert(c)
      <4>1. idx[c] # Len(Batch(c))
        BY <3>1, CallShape, MaxBatchAssumption
           DEF PutWritesReplace, PutWritesUpsert, TypeInv, TypeOK, PcInv, PutWritesCall, Batch
      <4>2. NextWrite(c) \in DbWrite /\ NextId(c) \in DbWriteId
        BY <4>1, TypesOfSaver, NextWriteType
      <4>3. ~ QueryError(c)
        BY DEF QueryError, Leave, TypeInv, TypeOK
      <4>4. /\ writes' = Upsert(writes, NextId(c), NextWrite(c))
            /\ idx' = [idx EXCEPT ![c] = @ + 1]
        BY <3>1, <4>3 DEF PutWritesReplace, PutWritesUpsert, StoreWrite
      <4> QED
        BY <4>2, <4>4, NoWriteRowAssumption DEF Upsert, TypeInv, TypeOK, WritesTable
    <3>2. CASE PutWritesCheck(c)
      <4>1. ~ QueryError(c)
        BY DEF QueryError, Leave, TypeInv, TypeOK
      <4> QED
        BY <3>2, <4>1 DEF PutWritesCheck, GoOn, db, TypeInv, TypeOK
    <3>3. PutWritesReplace(c) \/ PutWritesCheck(c) \/ PutWritesUpsert(c)
      BY DEF Step, Invoke, Begin, EnsureReady, SetupLock, SetupCheckpoints, SetupWrites,
             SetupDone, Defines, ProbeLock, ProbeCheckpoints, ProbeWrites, Lock, Put,
             PutWritesDone, GetCheckpoint, GetWrites, ListCheckpoints, ListYield, ListEnd,
             Resume, Close, Reenter, DeleteCheckpoints, DeleteWrites, Leave, TypeInv, TypeOK
    <3> QED
      BY <3>1, <3>2, <3>3
  <2>4. ASSUME idx'[c] = idx[c] + 1 PROVE NextId(c) = BatchId(c, idx'[c])
    BY <2>4 DEF NextId, BatchId
  <2>5. \A i \in 1 .. idx[c] : BatchId(c, i) \in DbWriteId
    <3>1. call[c] \in PutWritesCall
      BY CallShape DEF TypeInv, PcInv
    <3>2. Batch(c) \in Seq(DbWrite) /\ Len(Batch(c)) <= MaxBatch /\ idx[c] <= Len(Batch(c))
      BY <3>1 DEF PutWritesCall, Batch, TypeInv, PcInv
    <3>3. \A i \in 1 .. idx[c] : UseIdx(Batch(c), i) \in Index
      BY <2>2, <3>2, UseIdxType
    <3> QED
      BY <3>1, <3>3 DEF BatchId, WriteId, DbWriteId, DbCheckpointId, PutWritesCall
  <2>6. \A i \in 1 .. idx[c] : writes[BatchId(c, i)] # NoRow
    BY DEF LandInv
  <2>7. CASE UNCHANGED <<writes, idx>>
    BY <2>1, <2>6, <2>7
  <2>8. CASE /\ idx'[c] = idx[c] + 1
             /\ writes'[NextId(c)] # NoRow
             /\ \A w \in DbWriteId : writes'[w] = writes[w] \/ writes'[w] # NoRow
    <3> SUFFICES ASSUME NEW i \in 1 .. idx'[c] PROVE writes'[BatchId(c, i)] # NoRow
      BY <2>1
    <3>1. i \in 1 .. idx[c] \/ i = idx'[c]
      BY <2>2, <2>8
    <3> QED
      BY <2>4, <2>5, <2>6, <2>8, <3>1
  <2> QED
    BY <2>3, <2>7, <2>8
<1> QED
  BY <1>2, <1>3

\* No step takes a row from the table of writes, whichever saver it is of.
LEMMA WritesStay ==
    ASSUME TypeInv, NEW c \in Client, Invoke(c) \/ Step(c), NEW w, writes[w] # NoRow
    PROVE  writes'[w] # NoRow
<1>1. CASE UNCHANGED writes
  BY <1>1
<1>2. CASE /\ pc[c] \in {"pw", "pw_upsert"}
           /\ idx[c] # Len(Batch(c))
           /\ writes' = Upsert(writes, NextId(c), NextWrite(c))
  <2>1. NextWrite(c) \in DbWrite
    BY <1>2, TypesOfSaver, NextWriteType
  <2>2. writes'[w] = writes[w] \/ writes'[w] = NextWrite(c)
    BY <1>2 DEF Upsert
  <2> QED
    BY <2>1, <2>2, NoWriteRowAssumption
<1> QED
  BY <1>1, <1>2, TypesOfSaver, DataSteps

\* So nobody takes a row from a batch under way.
LEMMA NextLands == TypeInv /\ LandInv /\ [Next]_vars => LandInv'
<1> SUFFICES ASSUME TypeInv, LandInv, [Next]_vars PROVE LandInv'
  OBVIOUS
<1>1. CASE UNCHANGED vars
  BY <1>1 DEF vars, LandInv, BatchId, Batch
<1>2. ASSUME NEW c \in Client, Invoke(c) \/ Step(c), NEW d \in Client, c # d,
             pc'[d] \in {"pw", "pw_upsert"}
      PROVE  \A i \in 1 .. idx'[d] : writes'[BatchId(d, i)'] # NoRow
  <2>1. /\ pc'[d] = pc[d] /\ call'[d] = call[d] /\ idx'[d] = idx[d]
    BY <1>2, TypesOfSaver, DataSteps
  <2>2. \A i : BatchId(d, i)' = BatchId(d, i)
    BY <2>1 DEF BatchId, Batch
  <2>3. \A i \in 1 .. idx[d] : writes[BatchId(d, i)] # NoRow
    BY <1>2, <2>1 DEF LandInv
  <2> QED
    BY <1>2, <2>1, <2>2, <2>3, WritesStay
<1>3. ASSUME NEW c \in Client, Invoke(c) \/ Step(c) PROVE LandInv'
  BY <1>2, <1>3, OwnWrites DEF LandInv
<1> QED
  BY <1>1, <1>3 DEF Next, Finished

\* Where a caller may have been handed something.
Telling == {"idle", "list_next", "yielded", "reentered"}

\* Nothing is handed to the caller before a call ends, but by a generator.
Silent(c) == pc[c] \notin Telling => reply[c] = NoReply

SilentInv == \A c \in Client : Silent(c)

\* Every step leaves the caller of an unfinished call without a reply.
LEMMA StepSilent ==
    ASSUME NEW L, NEW R, Types(L, R), NEW c \in Client, Silent(c),
           Invoke(c) \/ Step(c), pc'[c] \notin Telling
    PROVE  reply'[c] = NoReply
<1> USE DEF Telling
<1>1. CASE Invoke(c)
  BY <1>1 DEF Invoke, Begin, Types, Typed
<1>2. CASE Step(c)
  <2>1. UNCHANGED reply
    BY <1>2
       DEF Step, EnsureReady, SetupLock, SetupCheckpoints, SetupWrites, SetupDone, Defines,
           ProbeLock, ProbeCheckpoints, ProbeWrites, Probed, Lock, Put, PutWritesDone,
           PutWritesReplace, PutWritesCheck, PutWritesUpsert, StoreWrite, GetCheckpoint,
           GetWrites, ListCheckpoints, ListYield, ListEnd, Resume, Close, Reenter,
           DeleteCheckpoints, DeleteWrites, Goto, GoOn, Leave, QueryError, MissingTable,
           Types, Typed
  <2>2. pc[c] \notin Telling
    BY <1>2
       DEF Step, EnsureReady, SetupLock, SetupCheckpoints, SetupWrites, SetupDone, Defines,
           ProbeLock, ProbeCheckpoints, ProbeWrites, Lock, Put, PutWritesDone,
           PutWritesReplace, PutWritesCheck, PutWritesUpsert, GetCheckpoint, GetWrites,
           ListCheckpoints, ListYield, ListEnd, Resume, Close, Reenter, DeleteCheckpoints,
           DeleteWrites, Goto, Leave, QueryError, Types, Typed
  <2> QED
    BY <2>1, <2>2 DEF Silent
<1> QED
  BY <1>1, <1>2

\* Nor does a step of another thread.
LEMMA NextSilent == TypeInv /\ SilentInv /\ [Next]_vars => SilentInv'
<1> SUFFICES ASSUME TypeInv, SilentInv, [Next]_vars PROVE SilentInv'
  OBVIOUS
<1>1. CASE UNCHANGED vars
  BY <1>1 DEF vars, SilentInv, Silent
<1>2. ASSUME NEW c \in Client, Invoke(c) \/ Step(c), pc'[c] \notin Telling
      PROVE  reply'[c] = NoReply
  BY <1>2, TypesOfSaver, StepSilent DEF SilentInv
<1>3. ASSUME NEW c \in Client, Invoke(c) \/ Step(c), NEW d \in Client, c # d
      PROVE  pc'[d] = pc[d] /\ reply'[d] = reply[d]
  BY <1>3, TypesOfSaver, DataSteps
<1>4. ASSUME NEW c \in Client, Invoke(c) \/ Step(c) PROVE SilentInv'
  BY <1>2, <1>3, <1>4 DEF SilentInv, Silent
<1> QED
  BY <1>1, <1>4 DEF Next, Finished

\* put_writes returns when its batch is done, without another query.
LEMMA PutWritesReturns ==
    ASSUME TypeInv, SilentInv, NEW c \in Client, Invoke(c) \/ Step(c),
           pc[c] = "pw", reply'[c] = Outcome("ok")
    PROVE  idx[c] = Len(Batch(c)) /\ UNCHANGED writes
<1>1. Outcome("ok") # Outcome("raised") /\ Outcome("ok") # NoReply
  BY DEF Outcome, NoReply
<1>2. ~ QueryError(c)
  BY <1>1 DEF QueryError, Leave, TypeInv, TypeOK
<1>3. ~ GoOn(c, "pw") /\ ~ GoOn(c, "pw_upsert")
  BY <1>1 DEF GoOn, SilentInv, Silent, Telling
<1>4. PutWritesDone(c) \/ PutWritesReplace(c) \/ PutWritesCheck(c)
  BY DEF Step, Invoke, Begin, EnsureReady, SetupLock, SetupCheckpoints, SetupWrites,
         SetupDone, Defines, ProbeLock, ProbeCheckpoints, ProbeWrites, Lock, Put,
         PutWritesUpsert, GetCheckpoint, GetWrites, ListCheckpoints, ListYield, ListEnd,
         Resume, Close, Reenter, DeleteCheckpoints, DeleteWrites
<1> QED
  BY <1>2, <1>3, <1>4 DEF PutWritesDone, PutWritesReplace, PutWritesCheck, StoreWrite, db

\* When put_writes returns, each write of its batch has a row at its own index,
\* whether it was stored by this batch or met there, whoever else is at work.
THEOREM BatchesLand == Spec => WritesLand
<1> DEFINE Inv == TypeInv /\ LandInv /\ SilentInv
           Landed ==
             \A c \in Client :
                pc[c] = "pw" /\ reply'[c] = Outcome("ok") =>
                    \A i \in 1 .. Len(Batch(c)) :
                        LET ch == Batch(c)[i].channel
                            at == IF ch \in RegularChannel THEN i - 1 ELSE WRITES_IDX_MAP[ch]
                        IN  writes[WriteId(call[c].key, call[c].task_id, at)] # NoRow
<1>1. Init => Inv
  <2>1. Init => LandInv /\ SilentInv
    BY DEF Init, LandInv, SilentInv, Silent, Telling
  <2> QED
    BY <2>1, InitType
<1>2. Inv /\ [Next]_vars => Inv'
  BY NextType, NextLands, NextSilent
<1>3. Inv /\ [Next]_vars => [Landed]_vars
  <2> SUFFICES ASSUME Inv, [Next]_vars, ~ UNCHANGED vars,
                      NEW c \in Client, pc[c] = "pw", reply'[c] = Outcome("ok"),
                      NEW i \in 1 .. Len(Batch(c))
               PROVE  LET ch == Batch(c)[i].channel
                          at == IF ch \in RegularChannel THEN i - 1 ELSE WRITES_IDX_MAP[ch]
                      IN  writes[WriteId(call[c].key, call[c].task_id, at)] # NoRow
    OBVIOUS
  <2>1. PICK d \in Client : Invoke(d) \/ Step(d)
    BY DEF Next, Finished
  <2>2. reply[c] = NoReply /\ Outcome("ok") # NoReply
    BY DEF SilentInv, Silent, Telling, Outcome, NoReply
  <2>3. d = c
    BY <2>1, <2>2, TypesOfSaver, DataSteps
  <2>4. idx[c] = Len(Batch(c))
    BY <2>1, <2>3, PutWritesReturns
  <2>5. writes[BatchId(c, i)] # NoRow
    BY <2>4 DEF LandInv
  <2>6. Batch(c) \in Seq(DbWrite)
    BY CallShape DEF TypeInv, PcInv, PutWritesCall, Batch
  <2>7. Batch(c)[i].channel \in RegularChannel \cup SpecialChannel
    <3>1. Batch(c)[i] \in DbWrite
      BY <2>6
    <3> QED
      BY <3>1 DEF DbWrite, AnyChannel
  <2>8. UseIdx(Batch(c), i) = IF Batch(c)[i].channel \in RegularChannel
                              THEN i - 1 ELSE WRITES_IDX_MAP[Batch(c)[i].channel]
    BY <2>7, RegularAssumption DEF UseIdx
  <2> QED
    BY <2>5, <2>8 DEF BatchId
<1> QED
  BY <1>1, <1>2, <1>3, PTL DEF Spec, WritesLand
=============================================================================
