------------------------ MODULE AsyncSurrealSaverProofs ------------------------
(***************************************************************************)
(* What holds of AsyncSurrealSaver for every number of coroutines,         *)
(* threads, savers, calls, failures and cancellations.                     *)
(*                                                                         *)
(* Its tasks take the steps of SurrealSaver: what SurrealSaverProofs shows *)
(* of a step, whatever the labels and replies, is cited and not repeated.  *)
(***************************************************************************)
EXTENDS AsyncSurrealSaver, SurrealSaverProofs

AsyncReplies == TupleReply \cup [status: Outcomes \cup {"cancelled", "refused"}]

\* Holding the lock, in a with-statement or as a generator left behind.
Inside == Critical \cup {"dropped"}

-----------------------------------------------------------------------------
(* A step of the saver is one of a few kinds. *)

\* What a client does short of being cancelled: a step of the synchronous saver, whose
\* deletion of pending writes is not used, or one of its own.
Shared(c) == Invoke(c) \/ (Step(c) /\ pc[c] # "del_wr")

Own(c) == \/ Shared(c)
          \/ delete_writes(c)
          \/ Break(c) \/ Finalize(c)
          \/ get_tuple(c) \/ put(c)

\* What a client does, and who else acts.
LEMMA StepKinds ==
    ASSUME AsyncNext
    PROVE  \/ \E c \in Client : Own(c) /\ UNCHANGED <<astray, strayed>>
           \/ \E c \in Client : Cancel(c)
           \/ Wake \/ RunAstray
<1>1. ASSUME NEW c \in Client, Coroutine(c) \/ FromThread(c) \/ get_tuple(c) \/ put(c)
      PROVE  Own(c) /\ UNCHANGED <<astray, strayed>>
  BY <1>1 DEF Coroutine, FromThread, get_tuple, put, SyncCall, OnLoop, aio, Own, Shared
<1>2. ASSUME NEW c \in Client, Task(c)
      PROVE  Own(c) /\ UNCHANGED <<astray, strayed>>
  <2>1. UNCHANGED <<astray, strayed>>
    BY <1>2 DEF Task, ensure_ready, setup, probe, enter, aput, aput_writes, aget_tuple,
                fetch_checkpoint_tuple, alist, Consume, Break, Finalize, DropIterator,
                adelete_thread, OnLoop, aio
  <2>2. Own(c)
    BY <1>2 DEF Task, ensure_ready, EnsureReady, setup, SetupLock, SetupCheckpoints,
                SetupWrites, SetupDone, Defines, probe, ProbeLock, ProbeCheckpoints,
                ProbeWrites, enter, Lock, aput, Put, aput_writes, PutWritesDone,
                PutWritesReplace, PutWritesCheck, PutWritesUpsert, aget_tuple, GetCheckpoint,
                fetch_checkpoint_tuple, GetWrites, alist, ListCheckpoints, ListYield, ListEnd,
                Consume, Resume, Reenter, DropIterator, Close, adelete_thread,
                DeleteCheckpoints, Own, Shared, Step
  <2> QED
    BY <2>1, <2>2
<1> QED
  BY <1>1, <1>2 DEF AsyncNext

-----------------------------------------------------------------------------
(* Type correctness *)

\* A statement that goes astray belongs to a call that sends such statements.
Sound(s) ==
    /\ s.at = "put" => s.call.op = "put"
    /\ s.at \in {"del_cp", "del_wr"} => s.call.op = "delete_thread"
    /\ s.at \in {"pw", "pw_upsert"} =>
          s.call.op = "put_writes" /\ s.idx < Len(s.call.batch)

StrayInv == \A s \in astray : Sound(s)

Statement == {s \in [at: Critical, call: Calls, idx: 0 .. MaxBatch] : Sound(s)}

AsyncTypeInv == AsyncTypeOK /\ PcInv /\ StrayInv

\* What SurrealSaverProofs asks of a state.
AsyncTypes == Types(AsyncLabels, AsyncReplies)

\* What is new in the asynchronous saver.
LoopTypes ==
    /\ loop \in Client \cup {Free}
    /\ unheard \in BOOLEAN
    /\ astray \subseteq Statement
    /\ strayed \in BOOLEAN
    /\ cancels \in 0 .. MaxCancels

\* The two halves of the type invariant.
LEMMA TypeHalves == AsyncTypeInv <=> AsyncTypes /\ LoopTypes
<1>1. Labels \subseteq AsyncLabels
  BY DEF AsyncLabels
<1>2. Replies \subseteq AsyncReplies
  BY DEF Replies, AsyncReplies
<1>3. astray \subseteq Statement
        <=> astray \subseteq [at: Critical, call: Calls, idx: 0 .. MaxBatch] /\ StrayInv
  BY DEF Statement, StrayInv
<1> QED
  BY <1>1, <1>2, <1>3
     DEF AsyncTypeInv, AsyncTypeOK, AsyncTypes, Types, Typed, LoopTypes, AsyncReplies

\* Going to a label, or leaving, with a reply of the saver's own.
LEMMA MoveTypes ==
    ASSUME AsyncTypes, NEW c \in Client, NEW l \in {"idle", "dropped", "blocking"},
           NEW r \in AsyncReplies,
           \/ Leave(c, r) /\ l = "idle"
           \/ Goto(c, l) /\ reply' = [reply EXCEPT ![c] = r] /\ UNCHANGED lock,
           rows' \in {rows, [rows EXCEPT ![c] = {}]},
           UNCHANGED <<is_setup, call, idx, failures>>,
           made' \in [Client -> 0 .. MaxCalls],
           tables' \subseteq Schema, checkpoints' \in CheckpointsTable,
           writes' \in WritesTable, l # "idle" => call[c] \in Calls
    PROVE  AsyncTypes'
<1>1. /\ pc' \in [Client -> AsyncLabels] /\ pc'[c] = l
      /\ \A d \in Client \ {c} : pc'[d] = pc[d]
      /\ reply' \in [Client -> AsyncReplies]
      /\ lock' \in [Saver -> Client \cup {Free}]
  <2>1. CASE Leave(c, r) /\ l = "idle"
    BY <2>1, LeaveWith DEF AsyncTypes
  <2>2. CASE Goto(c, l) /\ reply' = [reply EXCEPT ![c] = r] /\ UNCHANGED lock
    BY <2>2 DEF AsyncTypes, Types, Typed, Goto, AsyncLabels, Labels
  <2> QED
    BY <2>1, <2>2
<1>2. rows' \in [Client -> SUBSET [key: DbCheckpointId, value: Value]]
  BY DEF AsyncTypes, Types, Typed
<1>3. Typed(AsyncLabels, AsyncReplies)'
  BY <1>1, <1>2 DEF AsyncTypes, Types, Typed
<1>4. PcInv'
  BY <1>1 DEF AsyncTypes, Types, PcInv, Batch
<1> QED
  BY <1>3, <1>4 DEF AsyncTypes, Types

\* A call of a sync method, refused or waiting for itself.
LEMMA SyncTypes ==
    ASSUME AsyncTypes, NEW c \in Client, get_tuple(c) \/ put(c)
    PROVE  AsyncTypes'
<1>1. PICK m \in Calls : call' = [call EXCEPT ![c] = m]
  BY DEF get_tuple, put, SyncCall
<1>2. /\ pc' \in [Client -> AsyncLabels] /\ pc'[c] \in {"idle", "blocking"}
      /\ \A d \in Client \ {c} : pc'[d] = pc[d]
  BY DEF get_tuple, put, SyncCall, Goto, AsyncTypes, Types, Typed, AsyncLabels
<1>3. reply' \in [Client -> AsyncReplies]
  <2>1. PICK r \in {"none", "refused"} : reply' = [reply EXCEPT ![c] = [status |-> r]]
    BY DEF get_tuple, put, Outcome, NoReply
  <2>2. [status |-> r] \in AsyncReplies
    BY DEF AsyncReplies, Outcomes
  <2> QED
    BY <2>1, <2>2 DEF AsyncTypes, Types, Typed
<1>4. made' \in [Client -> 0 .. MaxCalls]
  BY BoundsAssumption DEF get_tuple, put, SyncCall, AsyncTypes, Types, Typed
<1>5. UNCHANGED <<db, savers, idx, rows, failures>>
  BY DEF get_tuple, put, SyncCall
<1>6. Typed(AsyncLabels, AsyncReplies)'
  BY <1>1, <1>2, <1>3, <1>4, <1>5 DEF AsyncTypes, Types, Typed, db, savers
<1>7. PcInv'
  BY <1>1, <1>2, <1>5 DEF AsyncTypes, Types, Typed, PcInv, Batch
<1> QED
  BY <1>6, <1>7 DEF AsyncTypes, Types

\* Deleting both halves of a thread keeps the types.
LEMMA DeleteWritesTypes ==
    ASSUME AsyncTypes, NEW c \in Client, delete_writes(c)
    PROVE  AsyncTypes'
<1>1. DeleteThread(writes, call[c].thread_id) \in WritesTable
  BY DEF AsyncTypes, Types, Typed, DeleteThread, WritesTable
<1>2. writes' \in WritesTable /\ UNCHANGED <<tables, checkpoints>>
  BY <1>1 DEF delete_writes, AsyncTypes, Types, Typed
<1>3. CASE QueryError(c)
  BY <1>2, <1>3, QueryErrorType DEF AsyncTypes, Types, Typed
<1>4. CASE Leave(c, Outcome("ok")) /\ UNCHANGED <<is_setup, call, idx, rows, made, failures>>
  <2>1. Outcome("ok") \in AsyncReplies
    BY DEF Outcome, AsyncReplies, Outcomes
  <2> QED
    BY <1>2, <1>4, <2>1, MoveTypes DEF AsyncTypes, Types, Typed
<1> QED
  BY <1>3, <1>4 DEF delete_writes

\* A generator left behind, and its end.
LEMMA GeneratorTypes ==
    ASSUME AsyncTypes, NEW c \in Client,
           \/ \E how \in {"closed", "cancelled"} :
                 Drop(c, how) /\ pc[c] \in {"yielded", "reentered"}
           \/ Finalize(c)
    PROVE  AsyncTypes'
<1>1. CASE \E how \in {"closed", "cancelled"} :
              Drop(c, how) /\ pc[c] \in {"yielded", "reentered"}
  <2>1. PICK how \in {"closed", "cancelled"} :
              Drop(c, how) /\ pc[c] \in {"yielded", "reentered"}
    BY <1>1
  <2>2. Outcome(how) \in AsyncReplies /\ call[c] \in Calls
    BY <2>1 DEF Outcome, AsyncReplies, Outcomes, AsyncTypes, Types, PcInv
  <2> QED
    BY <2>1, <2>2, MoveTypes DEF Drop, AsyncTypes, Types, Typed, db, savers
<1>2. CASE Finalize(c)
  <2>1. reply[c] \in AsyncReplies
    BY DEF AsyncTypes, Types, Typed
  <2> QED
    BY <1>2, <2>1, MoveTypes DEF Finalize, AsyncTypes, Types, Typed, db
<1> QED
  BY <1>1, <1>2

\* A statement that the server runs.
LEMMA RunsTypes ==
    ASSUME AsyncTypes, NEW s \in Statement, Runs(s)
    PROVE  /\ tables' \subseteq Schema
           /\ checkpoints' \in CheckpointsTable
           /\ writes' \in WritesTable
<1>1. s.call \in Calls /\ s.idx \in 0 .. MaxBatch /\ Sound(s)
  BY DEF Statement
<1>2. /\ tables \subseteq Schema
      /\ checkpoints \in CheckpointsTable /\ writes \in WritesTable
  BY DEF AsyncTypes, Types, Typed
<1>3. tables' \subseteq Schema
  <2>1. \E d \in SUBSET Schema : tables' = tables \cup d
    BY DEF Runs, Schema
  <2> QED
    BY <1>2, <2>1
<1>4. checkpoints' \in CheckpointsTable
  <2>1. CASE s.at = "put"
    <3>1. s.call \in PutCall
      BY <1>1, <2>1, CallShape DEF Sound
    <3>2. checkpoints' = Upsert(checkpoints, s.call.key, s.call.value)
      BY <2>1 DEF Runs
    <3> QED
      BY <1>2, <3>1, <3>2, UpsertCheckpoints DEF PutCall
  <2>2. CASE s.at = "del_cp"
    BY <1>2, <2>2, DeleteCheckpointsType DEF Runs
  <2>3. CASE s.at \notin {"put", "del_cp"}
    BY <1>2, <2>3 DEF Runs
  <2> QED
    BY <2>1, <2>2, <2>3
<1>5. writes' \in WritesTable
  <2>1. CASE s.at \in {"pw", "pw_upsert"}
    <3> DEFINE i == s.idx + 1
               w == WriteId(s.call.key, s.call.task_id, UseIdx(s.call.batch, i))
    <3>1. s.call \in PutWritesCall /\ s.idx < Len(s.call.batch)
      BY <1>1, <2>1, CallShape DEF Sound
    <3>2. s.call.batch \in Seq(DbWrite) /\ Len(s.call.batch) <= MaxBatch
      BY <3>1 DEF PutWritesCall
    <3>3. i \in 1 .. Len(s.call.batch)
      BY <1>1, <3>1, <3>2, MaxBatchAssumption
    <3>4. UseIdx(s.call.batch, i) \in Index /\ s.call.batch[i] \in DbWrite
      BY <3>2, <3>3, UseIdxType
    <3>5. w \in DbWriteId
      BY <3>1, <3>4 DEF WriteId, DbWriteId, DbCheckpointId, PutWritesCall
    <3>6. writes' = Upsert(writes, w, s.call.batch[i])
      BY <2>1 DEF Runs
    <3> QED
      BY <1>2, <3>4, <3>5, <3>6, UpsertWrites
  <2>2. CASE s.at = "del_wr"
    <3>1. writes' = DeleteThread(writes, s.call.thread_id)
      BY <2>2 DEF Runs
    <3> QED
      BY <1>2, <3>1 DEF DeleteThread, WritesTable
  <2>3. CASE s.at \notin {"pw", "pw_upsert", "del_wr"}
    BY <1>2, <2>3 DEF Runs
  <2> QED
    BY <2>1, <2>2, <2>3
<1> QED
  BY <1>3, <1>4, <1>5

\* The second half of a script that runs late is a statement of the same call.
LEMMA RestTypes ==
    ASSUME NEW s \in Statement
    PROVE  RestOf(s) \subseteq Statement
<1>1. ASSUME NEW at \in {"setup_cp_rest", "setup_wr_rest"}
      PROVE  [s EXCEPT !.at = at] \in Statement
  BY DEF Statement, Sound, Critical
<1> QED
  BY <1>1 DEF RestOf

\* The statement a client waits for is one of its call's.
LEMMA StatementTypes ==
    ASSUME AsyncTypes, NEW c \in Client, AtQuery(c)
    PROVE  Statements(c) \subseteq Statement
<1> SUFFICES ASSUME NEW s \in Statements(c) PROVE s \in Statement
  OBVIOUS
<1>1. s = [at |-> pc[c], call |-> call[c], idx |-> idx[c]]
  BY DEF Statements
<1>2. pc[c] \in Critical /\ call[c] \in Calls /\ idx[c] \in 0 .. MaxBatch
  BY DEF AtQuery, AsyncTypes, Types, Typed, PcInv, Critical
<1>3. Sound(s)
  <2>1. s.at = pc[c] /\ s.call = call[c] /\ s.idx = idx[c]
    BY <1>1
  <2>2. pc[c] = "pw" => idx[c] < Len(Batch(c))
    BY DEF AtQuery
  <2> QED
    BY <2>1, <2>2 DEF Sound, AsyncTypes, Types, PcInv, Batch
<1> QED
  BY <1>1, <1>2, <1>3 DEF Statement

\* A task that is cancelled, wherever it waits.
LEMMA CancelTypes ==
    ASSUME AsyncTypes, LoopTypes, NEW c \in Client, Cancel(c)
    PROVE  AsyncTypes' /\ LoopTypes'
<1>1. Outcome("cancelled") \in AsyncReplies
  BY DEF Outcome, AsyncReplies
<1>2. loop' \in Client \cup {Free} /\ unheard' \in BOOLEAN /\ strayed' \in BOOLEAN
  BY DEF Cancel, LoopTypes
<1>3. cancels' \in 0 .. MaxCancels
  BY MaxCancelsAssumption DEF Cancel, LoopTypes
<1>4. CASE CancelAtQuery(c)
  <2>1. Statements(c) \subseteq Statement
    BY <1>4, StatementTypes DEF CancelAtQuery
  <2>2. /\ tables' \subseteq Schema
        /\ checkpoints' \in CheckpointsTable /\ writes' \in WritesTable
    BY <1>4, <2>1, RunsTypes DEF CancelAtQuery, AsyncTypes, Types, Typed, db
  <2>3. astray' \subseteq Statement
    BY <1>4, <2>1 DEF CancelAtQuery, LoopTypes
  <2>4. AsyncTypes'
    BY <1>1, <1>4, <2>2, MoveTypes DEF CancelAtQuery, AsyncTypes, Types, Typed
  <2> QED
    BY <1>2, <1>3, <2>3, <2>4 DEF LoopTypes
<1>5. CASE CancelWaiting(c)
  <2>1. AsyncTypes'
    BY <1>1, <1>5, MoveTypes DEF CancelWaiting, AsyncTypes, Types, Typed, db, savers
  <2> QED
    BY <1>2, <1>3, <1>5, <2>1 DEF CancelWaiting, LoopTypes
<1>6. CASE CancelConsumer(c)
  <2>1. AsyncTypes'
    BY <1>6, GeneratorTypes DEF CancelConsumer
  <2> QED
    BY <1>2, <1>3, <1>6, <2>1 DEF CancelConsumer, LoopTypes
<1> QED
  BY <1>4, <1>5, <1>6 DEF Cancel

\* What the loop and its clients do leaves the loop's own variables typed.
LEMMA OwnLoopTypes ==
    ASSUME LoopTypes, AsyncNext, UNCHANGED <<astray, strayed>>,
           ~ \E c \in Client : Cancel(c)
    PROVE  LoopTypes'
<1>1. UNCHANGED cancels
  BY DEF AsyncNext, Coroutine, FromThread, get_tuple, put, SyncCall, Task, ensure_ready, setup,
         probe, enter, aput, aput_writes, aget_tuple, fetch_checkpoint_tuple, alist, Consume,
         Break, Finalize, DropIterator, adelete_thread, OnLoop, Wake, RunAstray, aio
<1>2. loop' \in Client \cup {Free}
  BY DEF AsyncNext, Coroutine, FromThread, get_tuple, put, SyncCall, Task, ensure_ready, setup,
         probe, enter, aput, aput_writes, aget_tuple, fetch_checkpoint_tuple, alist, Consume,
         Break, Finalize, DropIterator, adelete_thread, OnLoop, Wake, RunAstray, aio,
         LoopTypes
<1>3. unheard' \in BOOLEAN
  <2>1. ASSUME NEW c \in Client, DropIterator(c) PROVE unheard' \in BOOLEAN
    BY <2>1, Zenon DEF DropIterator
  <2> QED
    BY <2>1
       DEF AsyncNext, Coroutine, FromThread, get_tuple, put, SyncCall, Task, ensure_ready,
           setup, probe, enter, aput, aput_writes, aget_tuple, fetch_checkpoint_tuple, alist,
           Consume, Break, Finalize, adelete_thread, OnLoop, Wake, RunAstray, aio, LoopTypes
<1> QED
  BY <1>1, <1>2, <1>3 DEF LoopTypes

\* Every step keeps the type invariant.
LEMMA AsyncNextType == AsyncTypeInv /\ [AsyncNext]_avars => AsyncTypeInv'
<1> SUFFICES ASSUME AsyncTypeInv, [AsyncNext]_avars PROVE AsyncTypeInv'
  OBVIOUS
<1>1. AsyncTypes /\ LoopTypes
  BY TypeHalves
<1>2. CASE UNCHANGED avars
  BY <1>2 DEF avars, vars, aio, AsyncTypeInv, AsyncTypeOK, PcInv, Batch, StrayInv
<1>3. CASE AsyncNext
  <2>1. ASSUME NEW c \in Client, Cancel(c) PROVE AsyncTypes' /\ LoopTypes'
    BY <1>1, <2>1, CancelTypes
  <2>2. ASSUME NEW c \in Client, Own(c), UNCHANGED <<astray, strayed>>,
               ~ \E d \in Client : Cancel(d)
        PROVE  AsyncTypes' /\ LoopTypes'
    <3>1. LoopTypes'
      BY <1>1, <1>3, <2>2, OwnLoopTypes
    <3>2. AsyncTypes'
      <4>1. CASE Shared(c)
        BY <1>1, <4>1, StepTypes DEF AsyncTypes, Shared
      <4>2. CASE Break(c)
        BY <1>1, <4>2, GeneratorTypes DEF Break
      <4> QED
        BY <1>1, <2>2, <4>1, <4>2, DeleteWritesTypes, GeneratorTypes, SyncTypes DEF Own
    <3> QED
      BY <3>1, <3>2
  <2>3. ASSUME Wake PROVE AsyncTypes' /\ LoopTypes'
    <3>1. AsyncTypes'
      BY <1>1, <2>3 DEF Wake, vars, AsyncTypes, Types, Typed, PcInv, Batch
    <3>2. unheard' \in BOOLEAN /\ strayed' \in BOOLEAN
      BY <1>1, <2>3, Zenon DEF Wake, LoopTypes
    <3>3. /\ loop' \in Client \cup {Free} /\ astray' \subseteq Statement
          /\ cancels' \in 0 .. MaxCancels
      BY <1>1, <2>3 DEF Wake, LoopTypes
    <3> QED
      BY <3>1, <3>2, <3>3, Zenon DEF LoopTypes
  <2>4. ASSUME RunAstray PROVE AsyncTypes' /\ LoopTypes'
    <3>1. PICK s \in astray : Runs(s) /\ astray' = (astray \ {s}) \cup RestOf(s)
      BY <2>4 DEF RunAstray
    <3>2. s \in Statement /\ RestOf(s) \subseteq Statement
      BY <1>1, <3>1, RestTypes DEF LoopTypes
    <3>3. /\ tables' \subseteq Schema
          /\ checkpoints' \in CheckpointsTable /\ writes' \in WritesTable
      BY <1>1, <3>1, <3>2, RunsTypes
    <3>4. AsyncTypes'
      BY <1>1, <2>4, <3>3
         DEF RunAstray, AsyncTypes, Types, Typed, PcInv, Batch, savers, threads
    <3>5. unheard' \in BOOLEAN /\ strayed' \in BOOLEAN
      BY <1>1, <2>4, Zenon DEF RunAstray, LoopTypes
    <3>6. /\ loop' \in Client \cup {Free} /\ astray' \subseteq Statement
          /\ cancels' \in 0 .. MaxCancels
      BY <1>1, <2>4, <3>1, <3>2 DEF RunAstray, LoopTypes
    <3> QED
      BY <3>4, <3>5, <3>6, Zenon DEF LoopTypes
  <2>5. AsyncTypes' /\ LoopTypes'
    <3>1. CASE \E c \in Client : Cancel(c)
      BY <2>1, <3>1
    <3>2. CASE \E c \in Client : Own(c) /\ UNCHANGED <<astray, strayed>>
      BY <2>1, <2>2, <3>2
    <3> QED
      BY <1>3, <2>3, <2>4, <3>1, <3>2, StepKinds
  <2> QED
    BY <2>5 DEF AsyncTypeInv, AsyncTypeOK, AsyncTypes, Types, Typed, LoopTypes, AsyncReplies,
                Statement, StrayInv
<1> QED
  BY <1>2, <1>3

\* The type invariant holds of a new saver.
LEMMA AsyncInitType == AsyncInit => AsyncTypeInv
<1> SUFFICES ASSUME AsyncInit PROVE AsyncTypeInv
  OBVIOUS
<1>1. Types(Labels, Replies)
  BY InitType, TypesOfSaver DEF AsyncInit
<1>2. AsyncTypes
  BY <1>1 DEF AsyncTypes, Types, Typed, AsyncLabels, AsyncReplies, Replies
<1>3. LoopTypes
  <2>1. unheard \in BOOLEAN /\ strayed \in BOOLEAN
    BY Zenon DEF AsyncInit
  <2> QED
    BY <2>1, MaxCancelsAssumption DEF AsyncInit, LoopTypes
<1> QED
  BY <1>2, <1>3, TypeHalves

\* AsyncTypeOK holds in every reachable state, together with what a label says of a
\* call and with what a statement that went astray can be.
THEOREM TypesAsync == AsyncSpec => []AsyncTypeOK
<1>1. AsyncTypeInv => AsyncTypeOK
  BY DEF AsyncTypeInv
<1> QED
  BY <1>1, AsyncInitType, AsyncNextType, PTL DEF AsyncSpec

-----------------------------------------------------------------------------
(* Mutual exclusion *)

\* What ends or suspends a call in a way the synchronous saver does not have.
Ending(c) == \/ delete_writes(c) \/ Break(c) \/ Finalize(c) \/ get_tuple(c) \/ put(c)
             \/ Cancel(c)

\* Every other step is one of the synchronous saver's.
LEMMA OwnKinds ==
    ASSUME NEW c, Own(c) \/ Cancel(c)
    PROVE  Shared(c) \/ Ending(c)
BY DEF Own, Ending

\* A step of the synchronous saver neither drops a generator nor meets a dropped one.
LEMMA SharedLabels ==
    ASSUME AsyncTypes, NEW c \in Client, Invoke(c) \/ Step(c)
    PROVE  pc[c] \in Labels /\ pc'[c] \in Labels
<1> USE DEF AsyncTypes, Types, Typed, Labels, Critical
<1>1. CASE Invoke(c) \/ EnsureReady(c)
  BY <1>1 DEF Invoke, Begin, EnsureReady, Goto
<1>2. CASE SetupLock(c) \/ SetupCheckpoints(c) \/ SetupWrites(c) \/ SetupDone(c)
  BY <1>2 DEF SetupLock, SetupCheckpoints, SetupWrites, SetupDone, Defines, Goto, GoOn, Leave,
              QueryError
<1>3. CASE ProbeLock(c) \/ ProbeCheckpoints(c) \/ ProbeWrites(c)
  BY <1>3 DEF ProbeLock, ProbeCheckpoints, ProbeWrites, Probed, MissingTable, Goto, GoOn,
              Leave, QueryError
<1>4. CASE Lock(c)
  <2>1. call[c].op \in {"put", "put_writes", "get_tuple", "list", "delete_thread"}
    BY <1>4 DEF Lock, PcInv
  <2>2. FirstQuery[call[c].op] \in {"put", "pw", "get", "list", "del_cp"}
    BY <2>1 DEF FirstQuery
  <2> QED
    BY <1>4, <2>2 DEF Lock, Goto
<1>5. CASE Put(c) \/ DeleteCheckpoints(c) \/ DeleteWrites(c)
  BY <1>5 DEF Put, DeleteCheckpoints, DeleteWrites, Goto, GoOn, Leave, QueryError
<1>6. CASE PutWritesDone(c) \/ PutWritesReplace(c) \/ PutWritesCheck(c) \/ PutWritesUpsert(c)
  BY <1>6 DEF PutWritesDone, PutWritesReplace, PutWritesCheck, PutWritesUpsert, StoreWrite,
              Goto, GoOn, Leave, QueryError
<1>7. CASE GetCheckpoint(c) \/ GetWrites(c)
  BY <1>7 DEF GetCheckpoint, GetWrites, Goto, GoOn, Leave, QueryError
<1>8. CASE \/ ListCheckpoints(c) \/ ListYield(c) \/ ListEnd(c)
           \/ Resume(c) \/ Close(c) \/ Reenter(c)
  BY <1>8 DEF ListCheckpoints, ListYield, ListEnd, Resume, Close, Reenter, Goto, GoOn, Leave,
              QueryError
<1> QED
  BY <1>1, <1>2, <1>3, <1>4, <1>5, <1>6, <1>7, <1>8 DEF Step

\* What ends a call in the middle of it, and what becomes of the client.
LEMMA Ends ==
    ASSUME AsyncTypes, NEW c \in Client, Ending(c)
    PROVE  /\ pc'[c] \in {"idle", "dropped", "blocking"}
           /\ pc'[c] = "blocking" => reply'[c] = NoReply
           /\ \A d \in Client \ {c} : /\ pc'[d] = pc[d] /\ rows'[d] = rows[d]
                                      /\ call'[d] = call[d] /\ idx'[d] = idx[d]
                                      /\ reply'[d] = reply[d]
           /\ reply'[c] = reply[c] \/ reply'[c].status # "tuple"
           /\ Sides(c, Inside)
<1> USE DEF AsyncTypes, Types, Typed
<1>1. \A how : Outcome(how).status = how
  BY DEF Outcome
<1>2. ASSUME NEW r, Leave(c, r), pc[c] \in Inside PROVE Sides(c, Inside) /\ pc'[c] = "idle"
  BY <1>2 DEF Leave, Sides, Inside, Critical
<1>3. ASSUME NEW how, Drop(c, how), pc[c] \in Inside PROVE Sides(c, Inside) /\ pc'[c] = "dropped"
  BY <1>3 DEF Drop, Goto, Sides, Inside, savers
<1>4. CASE delete_writes(c)
  <2>1. pc[c] \in Inside
    BY <1>4 DEF delete_writes, Inside, Critical
  <2>2. Sides(c, Inside) /\ pc'[c] = "idle"
    BY <1>2, <1>4, <2>1 DEF delete_writes, QueryError
  <2> QED
    BY <1>1, <1>4, <2>2 DEF delete_writes, QueryError, Leave
<1>5. CASE Break(c)
  <2>1. pc[c] \in Inside
    BY <1>5 DEF Break, Inside, Critical
  <2> QED
    BY <1>1, <1>3, <1>5, <2>1 DEF Break, Drop, Goto
<1>6. CASE Finalize(c)
  <2>1. pc[c] \in Inside
    BY <1>6 DEF Finalize, Inside
  <2> QED
    BY <1>2, <1>6, <2>1 DEF Finalize, Leave
<1>7. CASE get_tuple(c) \/ put(c)
  <2>1. /\ pc[c] = "idle" /\ pc'[c] \in {"idle", "blocking"}
        /\ pc'[c] = "blocking" => reply'[c] = NoReply
        /\ \A d \in Client \ {c} : pc'[d] = pc[d] /\ call'[d] = call[d] /\ reply'[d] = reply[d]
        /\ UNCHANGED <<lock, idx, rows>>
    BY <1>7 DEF get_tuple, put, SyncCall, Goto, savers
  <2>2. reply'[c].status # "tuple"
    BY <1>1, <1>7 DEF get_tuple, put, NoReply
  <2> QED
    BY <2>1, <2>2 DEF Sides, Inside, Critical
<1>8. CASE Cancel(c)
  <2>1. CASE CancelAtQuery(c)
    <3>1. pc[c] \in Inside
      BY <2>1 DEF CancelAtQuery, AtQuery, Inside
    <3> QED
      BY <1>1, <1>2, <2>1, <3>1 DEF CancelAtQuery, Leave
  <2>2. CASE CancelWaiting(c)
    BY <1>1, <2>2 DEF CancelWaiting, Waiting, Goto, savers, Sides, Inside, Critical
  <2>3. CASE CancelConsumer(c)
    <3>1. pc[c] \in Inside
      BY <2>3 DEF CancelConsumer, Inside, Critical
    <3> QED
      BY <1>1, <1>3, <2>3, <3>1 DEF CancelConsumer, Drop, Goto
  <2> QED
    BY <1>8, <2>1, <2>2, <2>3 DEF Cancel
<1> QED
  BY <1>4, <1>5, <1>6, <1>7, <1>8 DEF Ending

\* Every step of a client takes the lock, gives it back or leaves it where it is.
LEMMA AsyncSides ==
    ASSUME AsyncTypes, NEW c \in Client, Own(c) \/ Cancel(c)
    PROVE  Sides(c, Inside)
<1>1. CASE Shared(c)
  <2>1. Sides(c, Critical)
    BY <1>1, StepSides DEF AsyncTypes, Shared
  <2>2. /\ pc[c] \in Inside <=> pc[c] \in Critical
        /\ pc'[c] \in Inside <=> pc'[c] \in Critical
    BY <1>1, SharedLabels DEF Shared, Inside, Labels, Critical
  <2> QED
    BY <2>1, <2>2 DEF Sides
<1> QED
  BY <1>1, OwnKinds, Ends

\* Every step keeps the lock with the call inside the with-statement, or with the
\* generator that call left behind.
LEMMA AsyncNextLocks == AsyncTypeInv /\ Held(Inside) /\ [AsyncNext]_avars => Held(Inside)'
<1> SUFFICES ASSUME AsyncTypeInv, Held(Inside), [AsyncNext]_avars PROVE Held(Inside)'
  OBVIOUS
<1>1. AsyncTypes
  BY TypeHalves
<1>2. ASSUME UNCHANGED <<lock, pc>> PROVE Held(Inside)'
  BY <1>2 DEF Held
<1>3. ASSUME NEW c \in Client, Own(c) \/ Cancel(c) PROVE Held(Inside)'
  <2>1. Sides(c, Inside)
    BY <1>1, <1>3, AsyncSides
  <2> QED
    BY <1>1, <2>1, SidesHold DEF AsyncTypes, Types, Typed
<1>4. CASE Wake \/ RunAstray \/ UNCHANGED avars
  BY <1>2, <1>4 DEF Wake, RunAstray, avars, vars, savers, threads
<1> QED
  BY <1>3, <1>4, StepKinds

\* What the two halves of the invariant say of a new saver.
LEMMA AsyncInitLocks == AsyncInit => Held(Inside)
BY SaverOfAssumption, FreeAssumption DEF AsyncInit, Init, Held, Inside, Critical

\* A lock is held exactly by the call inside its async with-statement or by the
\* generator it left behind, wherever tasks are cancelled and whoever drops what.
THEOREM AsyncLocks == AsyncSpec => []AsyncLockDiscipline
<1>1. Held(Inside) => AsyncLockDiscipline
  BY DEF Held, Inside, AsyncLockDiscipline
<1>2. AsyncTypeInv /\ Held(Inside) /\ [AsyncNext]_avars => (AsyncTypeInv /\ Held(Inside))'
  BY AsyncNextType, AsyncNextLocks
<1> QED
  BY <1>1, <1>2, AsyncInitType, AsyncInitLocks, PTL DEF AsyncSpec

-----------------------------------------------------------------------------
(* The tables, through one saver, until a statement of a cancelled call runs late *)

\* At most one client of the saver is inside, generators left behind included.
LEMMA AsyncAlone ==
    ASSUME SingleSaver, Held(Inside), NEW c \in Client, NEW d \in Client,
           pc[c] \in Inside, pc[d] \in Inside
    PROVE  c = d
BY SaverOfAssumption DEF SingleSaver, Held

\* The statement of a cancelled call that does run is the one the call had sent.
LEMMA CancelData ==
    ASSUME AsyncTypes, NEW c \in Client, AtQuery(c), NEW s \in Statements(c), Runs(s)
    PROVE  /\ \/ UNCHANGED writes
              \/ /\ pc[c] \in {"pw", "pw_upsert"}
                 /\ pc[c] = "pw" => Replace(Batch(c))
                 /\ idx[c] # Len(Batch(c))
                 /\ writes' = Upsert(writes, NextId(c), NextWrite(c))
              \/ /\ pc[c] = "del_wr"
                 /\ writes' = DeleteThread(writes, call[c].thread_id)
           /\ UNCHANGED checkpoints \/ pc[c] \in {"put", "del_cp"}
<1>1. /\ s.at = pc[c] /\ s.call = call[c] /\ s.idx = idx[c]
      /\ pc[c] = "pw" => Replace(Batch(c))
  BY DEF Statements
<1>2. UNCHANGED checkpoints \/ pc[c] \in {"put", "del_cp"}
  BY <1>1 DEF Runs
<1>3. CASE pc[c] \in {"pw", "pw_upsert"}
  <2>1. idx[c] # Len(Batch(c))
    <3>1. CASE pc[c] = "pw"
      <4>1. call[c] \in PutWritesCall /\ idx[c] \in Nat
        BY <3>1, CallShape, MaxBatchAssumption DEF AsyncTypes, Types, Typed, PcInv
      <4> QED
        BY <3>1, <4>1 DEF AtQuery, PutWritesCall, Batch
    <3>2. CASE pc[c] = "pw_upsert"
      <4>1. call[c] \in PutWritesCall /\ idx[c] \in Nat /\ idx[c] < Len(Batch(c))
        BY <3>2, CallShape, MaxBatchAssumption DEF AsyncTypes, Types, Typed, PcInv
      <4> QED
        BY <4>1 DEF PutWritesCall, Batch
    <3> QED
      BY <1>3, <3>1, <3>2
  <2>2. writes' = Upsert(writes, NextId(c), NextWrite(c))
    BY <1>1, <1>3 DEF Runs, NextId, NextWrite, Batch
  <2> QED
    BY <1>1, <1>2, <1>3, <2>1, <2>2
<1>4. CASE pc[c] = "del_wr"
  BY <1>1, <1>2, <1>4 DEF Runs
<1>5. CASE pc[c] \notin {"pw", "pw_upsert", "del_wr"}
  BY <1>1, <1>2, <1>5 DEF Runs
<1> QED
  BY <1>3, <1>4, <1>5

\* The only steps of a client that touch a row, and what each does to it.
LEMMA AsyncData ==
    ASSUME AsyncTypes, NEW c \in Client, Own(c) \/ Cancel(c)
    PROVE  /\ \/ UNCHANGED writes
              \/ /\ pc[c] \in {"pw", "pw_upsert"}
                 /\ pc[c] = "pw" => Replace(Batch(c))
                 /\ idx[c] # Len(Batch(c))
                 /\ writes' = Upsert(writes, NextId(c), NextWrite(c))
              \/ /\ pc[c] = "del_wr"
                 /\ writes' = DeleteThread(writes, call[c].thread_id)
           /\ UNCHANGED checkpoints \/ pc[c] \in {"put", "del_cp"}
<1>1. CASE Shared(c)
  BY <1>1, DataSteps DEF AsyncTypes, Shared
<1>2. CASE delete_writes(c)
  BY <1>2 DEF delete_writes
<1>3. CASE Break(c) \/ Finalize(c) \/ get_tuple(c) \/ put(c)
  BY <1>3 DEF Break, Drop, Finalize, get_tuple, put, SyncCall, db
<1>4. CASE Cancel(c)
  <2>1. CASE CancelWaiting(c) \/ CancelConsumer(c)
    BY <2>1 DEF CancelWaiting, CancelConsumer, Drop, db
  <2>2. CASE CancelAtQuery(c)
    <3>1. AtQuery(c)
      BY <2>2 DEF CancelAtQuery
    <3>2. UNCHANGED db \/ \E s \in Statements(c) : Runs(s)
      BY <2>2 DEF CancelAtQuery
    <3>3. ASSUME UNCHANGED db PROVE UNCHANGED <<checkpoints, writes>>
      BY <3>3 DEF db
    <3> QED
      BY <3>1, <3>2, <3>3, CancelData
  <2> QED
    BY <1>4, <2>1, <2>2 DEF Cancel
<1> QED
  BY <1>1, <1>2, <1>3, <1>4 DEF Own

\* What a step leaves of another client.
LEMMA AsyncFrame ==
    ASSUME AsyncTypes, NEW c \in Client, Own(c) \/ Cancel(c), NEW d \in Client, c # d
    PROVE  /\ pc'[d] = pc[d] /\ rows'[d] = rows[d] /\ call'[d] = call[d]
           /\ idx'[d] = idx[d] /\ reply'[d] = reply[d]
<1>1. CASE Shared(c)
  BY <1>1, DataSteps DEF AsyncTypes, Shared
<1> QED
  BY <1>1, OwnKinds, Ends

\* Changing a row means being inside.
LEMMA InsideToWrite ==
    ASSUME SingleSaver, AsyncTypes, Held(Inside), NEW c \in Client, Own(c) \/ Cancel(c),
           NEW d \in Client, c # d, pc[d] \in Inside
    PROVE  UNCHANGED <<checkpoints, writes>>
<1>1. pc[c] \notin Inside
  BY AsyncAlone
<1> QED
  BY <1>1, AsyncData DEF Inside, Critical

\* A call that is about to delete pending writes has deleted the checkpoints.
Erased(c) == pc[c] = "del_wr" =>
                \A k \in DbCheckpointId :
                    checkpoints[k] # NoRow => k.thread_id # call[c].thread_id

ErasedInv == \A c \in Client : Erased(c)

\* What was read under the lock still holds, unless a statement has run late.
KnownInv == strayed \/ (ReadInv /\ ErasedInv)

\* What a call deletes, it finds deleted when it goes on.
LEMMA OwnErased ==
    ASSUME AsyncTypes, NEW c \in Client, Own(c) \/ Cancel(c)
    PROVE  Erased(c)'
<1> SUFFICES ASSUME pc'[c] = "del_wr"
             PROVE  \A k \in DbCheckpointId :
                        checkpoints'[k] # NoRow => k.thread_id # call'[c].thread_id
  BY DEF Erased
<1>1. Shared(c)
  BY OwnKinds, Ends
<1>2. ~ QueryError(c) /\ \A r : ~ Leave(c, r)
  BY DEF QueryError, Leave, AsyncTypes, Types, Typed
<1>3. DeleteCheckpoints(c)
  <2>1. ASSUME Lock(c) PROVE FALSE
    <3>1. call[c].op \in {"put", "put_writes", "get_tuple", "list", "delete_thread"}
      BY <2>1 DEF Lock, AsyncTypes, Types, PcInv
    <3>2. FirstQuery[call[c].op] # "del_wr"
      BY <3>1 DEF FirstQuery
    <3> QED
      BY <2>1, <3>2 DEF Lock, Goto, AsyncTypes, Types, Typed
  <2> QED
    BY <1>1, <1>2, <2>1
       DEF Shared, Step, Invoke, Begin, EnsureReady, SetupLock, SetupCheckpoints, SetupWrites,
           SetupDone, Defines, ProbeLock, ProbeCheckpoints, ProbeWrites, Probed, MissingTable,
           Put, PutWritesDone, PutWritesReplace, PutWritesCheck, PutWritesUpsert, StoreWrite,
           GetCheckpoint, GetWrites, ListCheckpoints, ListYield, ListEnd, Resume, Close,
           Reenter, DeleteWrites, Goto, GoOn, AsyncTypes, Types, Typed
<1>4. /\ checkpoints' = DeleteThread(checkpoints, call[c].thread_id)
      /\ call' = call
  BY <1>2, <1>3 DEF DeleteCheckpoints, GoOn
<1> QED
  BY <1>4 DEF DeleteThread, AsyncTypes, Types, Typed, CheckpointsTable

\* Until a statement of a cancelled call runs late, a step is a client's or changes nothing
\* but what the loop has heard.
LEMMA OrderlySteps ==
    ASSUME [AsyncNext]_avars, ~ strayed'
    PROVE  /\ ~ strayed
           /\ \/ \E c \in Client : Own(c) \/ Cancel(c)
              \/ UNCHANGED vars
<1>1. ~ RunAstray
  BY DEF RunAstray
<1>2. CASE \E c \in Client : Own(c) /\ UNCHANGED <<astray, strayed>>
  BY <1>2
<1>3. CASE \E c \in Client : Cancel(c)
  BY <1>3 DEF Cancel
<1>4. CASE Wake \/ UNCHANGED avars
  BY <1>4 DEF Wake, avars, aio
<1> QED
  BY <1>1, <1>2, <1>3, <1>4, StepKinds

\* No step of one client undoes what another one read, or deleted, under the lock.
LEMMA AsyncNextKnown ==
    ASSUME SingleSaver
    PROVE  AsyncTypeInv /\ Held(Inside) /\ KnownInv /\ [AsyncNext]_avars => KnownInv'
<1> SUFFICES ASSUME AsyncTypeInv, Held(Inside), KnownInv, [AsyncNext]_avars, ~ strayed'
             PROVE  ReadInv' /\ ErasedInv'
  BY DEF KnownInv
<1>1. AsyncTypes
  BY TypeHalves
<1>2. ReadInv /\ ErasedInv
  BY OrderlySteps DEF KnownInv
<1>3. CASE UNCHANGED vars
  BY <1>2, <1>3 DEF vars, ReadInv, ErasedInv, Erased, NextId, Batch
<1>4. ASSUME NEW c \in Client, Own(c) \/ Cancel(c), NEW d \in Client, c # d,
             pc'[d] \in {"pw_upsert", "fetch", "list_next", "yielded", "del_wr"}
      PROVE  /\ UNCHANGED <<checkpoints, writes>>
             /\ pc[d] = pc'[d] /\ rows'[d] = rows[d] /\ call'[d] = call[d]
             /\ NextId(d)' = NextId(d)
  <2>1. /\ pc'[d] = pc[d] /\ rows'[d] = rows[d] /\ call'[d] = call[d] /\ idx'[d] = idx[d]
    BY <1>1, <1>4, AsyncFrame
  <2>2. pc[d] \in Inside
    BY <1>4, <2>1 DEF Inside, Critical
  <2> QED
    BY <1>1, <1>4, <2>1, <2>2, InsideToWrite DEF NextId, Batch
<1>5. ASSUME NEW c \in Client, Own(c) \/ Cancel(c)
      PROVE  /\ pc'[c] = "pw_upsert" => writes'[NextId(c)'] = NoRow
             /\ pc'[c] \in {"fetch", "list_next", "yielded"} =>
                   \A r \in rows'[c] : checkpoints'[r.key] = r.value
  <2>1. CASE Shared(c)
    BY <1>1, <1>2, <2>1, OwnReads DEF AsyncTypes, Shared
  <2>2. CASE Ending(c)
    BY <1>1, <2>2, Ends
  <2> QED
    BY <1>5, <2>1, <2>2, OwnKinds
<1>6. ASSUME NEW c \in Client, Own(c) \/ Cancel(c) PROVE ReadInv'
  BY <1>2, <1>4, <1>5, <1>6 DEF ReadInv
<1>7. ASSUME NEW c \in Client, Own(c) \/ Cancel(c) PROVE ErasedInv'
  <2>1. Erased(c)'
    BY <1>1, <1>7, OwnErased
  <2>2. \A d \in Client \ {c} : Erased(d)'
    BY <1>2, <1>4, <1>7 DEF ErasedInv, Erased
  <2> QED
    BY <2>1, <2>2 DEF ErasedInv, Erased
<1> QED
  BY <1>3, <1>6, <1>7, OrderlySteps

\* Nothing is handed to the caller of an unfinished call.
AsyncSilent(c) == pc[c] \notin Telling \cup {"dropped"} => reply[c] = NoReply

AsyncSilentInv == \A c \in Client : AsyncSilent(c)

\* Every step leaves it so.
LEMMA AsyncNextSilent ==
    AsyncTypeInv /\ AsyncSilentInv /\ [AsyncNext]_avars => AsyncSilentInv'
<1> SUFFICES ASSUME AsyncTypeInv, AsyncSilentInv, [AsyncNext]_avars PROVE AsyncSilentInv'
  OBVIOUS
<1>1. AsyncTypes
  BY TypeHalves
<1>2. ASSUME UNCHANGED <<pc, reply>> PROVE AsyncSilentInv'
  BY <1>2 DEF AsyncSilentInv, AsyncSilent
<1>3. ASSUME NEW c \in Client, Own(c) \/ Cancel(c) PROVE AsyncSilentInv'
  <2>1. AsyncSilent(c)'
    <3>1. CASE Shared(c)
      <4>1. pc[c] # "dropped"
        BY <1>1, <3>1, SharedLabels DEF Shared, Labels, Critical
      <4>2. Silent(c)
        BY <4>1 DEF AsyncSilentInv, AsyncSilent, Silent
      <4>3. pc'[c] \notin Telling => reply'[c] = NoReply
        BY <1>1, <3>1, <4>2, StepSilent DEF AsyncTypes, Shared
      <4> QED
        BY <4>3 DEF AsyncSilent
    <3>2. CASE Ending(c)
      BY <1>1, <3>2, Ends DEF AsyncSilent, Telling
    <3> QED
      BY <1>3, <3>1, <3>2, OwnKinds
  <2>2. \A d \in Client \ {c} : AsyncSilent(d)'
    BY <1>1, <1>3, AsyncFrame DEF AsyncSilentInv, AsyncSilent
  <2> QED
    BY <2>1, <2>2 DEF AsyncSilentInv, AsyncSilent
<1>4. CASE Wake \/ RunAstray \/ UNCHANGED avars
  BY <1>2, <1>4 DEF Wake, RunAstray, avars, vars, threads
<1> QED
  BY <1>3, <1>4, StepKinds

\* What the theorems about data rest on.
AsyncInv == AsyncTypeInv /\ Held(Inside) /\ KnownInv /\ AsyncSilentInv

LEMMA AsyncKnows ==
    ASSUME SingleSaver
    PROVE  AsyncSpec => []AsyncInv
<1>1. AsyncInit => AsyncInv
  <2>1. AsyncInit => KnownInv /\ AsyncSilentInv
    BY DEF AsyncInit, Init, KnownInv, ReadInv, ErasedInv, Erased, AsyncSilentInv, AsyncSilent,
           Telling
  <2> QED
    BY <2>1, AsyncInitType, AsyncInitLocks DEF AsyncInv
<1>2. AsyncInv /\ [AsyncNext]_avars => AsyncInv'
  BY AsyncNextType, AsyncNextLocks, AsyncNextKnown, AsyncNextSilent DEF AsyncInv
<1> QED
  BY <1>1, <1>2, PTL DEF AsyncSpec

-----------------------------------------------------------------------------
(* What the saver promises, until a statement of a cancelled call runs late *)

\* A pending write at an ordinary index never changes while it exists, retries of
\* cancelled batches included.
THEOREM AsyncFirstWriterWins ==
    ASSUME SingleSaver
    PROVE  AsyncSpec => AsyncFirstWriteWins
<1>1. ASSUME AsyncInv, [AsyncNext]_avars
      PROVE  [strayed' \/ \A w \in DbWriteId :
                w.idx >= 0 /\ writes[w] # NoRow => writes'[w] \in {writes[w], NoRow}]_avars
  <2> SUFFICES ASSUME ~ strayed', NEW w \in DbWriteId, w.idx >= 0, writes[w] # NoRow
               PROVE  writes'[w] \in {writes[w], NoRow}
    OBVIOUS
  <2>1. AsyncTypes /\ ReadInv
    BY <1>1, TypeHalves, OrderlySteps DEF AsyncInv, KnownInv
  <2>2. CASE UNCHANGED writes
    BY <2>2
  <2>3. CASE ~ UNCHANGED writes
    <3>1. PICK c \in Client : Own(c) \/ Cancel(c)
      BY <1>1, <2>3, OrderlySteps DEF vars
    <3>2. CASE writes' = DeleteThread(writes, call[c].thread_id)
      BY <2>1, <3>2 DEF DeleteThread, AsyncTypes, Types, Typed, WritesTable
    <3>3. CASE /\ pc[c] \in {"pw", "pw_upsert"}
               /\ pc[c] = "pw" => Replace(Batch(c))
               /\ idx[c] # Len(Batch(c))
               /\ writes' = Upsert(writes, NextId(c), NextWrite(c))
      <4>1. ASSUME pc[c] = "pw" PROVE NextId(c).idx < 0
        BY <2>1, <3>3, <4>1, NextWriteType, UseIdxType DEF Replace, AsyncTypes
      <4>2. ASSUME pc[c] = "pw_upsert" PROVE writes[NextId(c)] = NoRow
        BY <2>1, <4>2 DEF ReadInv
      <4>3. NextId(c) \in DbWriteId /\ NextId(c).idx \in Int
        BY <2>1, <3>3, NextWriteType DEF DbWriteId, Index, AsyncTypes
      <4>4. w # NextId(c)
        BY <3>3, <4>1, <4>2, <4>3
      <4> QED
        BY <2>1, <3>3, <4>4 DEF Upsert, AsyncTypes, Types, Typed, WritesTable
    <3> QED
      BY <2>1, <2>3, <3>1, <3>2, <3>3, AsyncData
  <2> QED
    BY <2>2, <2>3
<1> QED
  BY <1>1, AsyncKnows, PTL DEF AsyncSpec, AsyncFirstWriteWins

\* Nothing changes while a generator has not ended.
THEOREM AsyncListsAreSnapshots ==
    ASSUME SingleSaver
    PROVE  AsyncSpec => AsyncListSnapshot
<1>1. ASSUME AsyncInv, [AsyncNext]_avars
      PROVE  [strayed' \/ ((\E c \in Client : pc[c] \in {"list_next", "yielded", "dropped"})
                             => UNCHANGED <<checkpoints, writes>>)]_avars
  <2> SUFFICES ASSUME ~ strayed', NEW c \in Client,
                      pc[c] \in {"list_next", "yielded", "dropped"}
               PROVE  UNCHANGED <<checkpoints, writes>>
    OBVIOUS
  <2>1. AsyncTypes /\ Held(Inside)
    BY <1>1, TypeHalves DEF AsyncInv
  <2>2. CASE UNCHANGED vars
    BY <2>2 DEF vars
  <2>3. ASSUME NEW d \in Client, Own(d) \/ Cancel(d) PROVE UNCHANGED <<checkpoints, writes>>
    <3>1. CASE d = c
      BY <2>1, <2>3, <3>1, AsyncData
    <3>2. CASE d # c
      BY <2>1, <2>3, <3>2, InsideToWrite DEF Inside, Critical
    <3> QED
      BY <3>1, <3>2
  <2> QED
    BY <1>1, <2>2, <2>3, OrderlySteps
<1> QED
  BY <1>1, AsyncKnows, PTL DEF AsyncSpec, AsyncListSnapshot

\* A tuple handed out is what the tables hold right then.
THEOREM AsyncTuplesAreWhole ==
    ASSUME SingleSaver
    PROVE  AsyncSpec => AsyncNoTornTuple
<1>1. ASSUME AsyncInv, [AsyncNext]_avars
      PROVE  [strayed' \/ \A c \in Client :
                reply'[c] # reply[c] /\ reply'[c].status = "tuple" =>
                    /\ checkpoints[reply'[c].key] = reply'[c].value
                    /\ Fetch(writes, reply'[c].key) = reply'[c].pending]_avars
  <2> SUFFICES ASSUME ~ strayed', NEW c \in Client, reply'[c] # reply[c],
                      reply'[c].status = "tuple"
               PROVE  /\ checkpoints[reply'[c].key] = reply'[c].value
                      /\ Fetch(writes, reply'[c].key) = reply'[c].pending
    OBVIOUS
  <2>1. AsyncTypes /\ ReadInv
    BY <1>1, TypeHalves, OrderlySteps DEF AsyncInv, KnownInv
  <2>2. PICK d \in Client : Own(d) \/ Cancel(d)
    BY <1>1, OrderlySteps DEF vars
  <2>3. d = c
    BY <2>1, <2>2, AsyncFrame
  <2>4. Shared(c)
    BY <2>1, <2>2, <2>3, OwnKinds, Ends
  <2>5. /\ pc[c] \in {"fetch", "list_next"}
        /\ \E r \in rows[c] : reply'[c] = Tuple(r, writes)
    BY <2>1, <2>4, TupleSteps DEF Shared, AsyncTypes
  <2>6. PICK r \in rows[c] : reply'[c] = Tuple(r, writes)
    BY <2>5
  <2>7. checkpoints[r.key] = r.value
    BY <2>1, <2>5 DEF ReadInv
  <2>8. /\ reply'[c].key = r.key /\ reply'[c].value = r.value
        /\ reply'[c].pending = Fetch(writes, r.key)
    BY <2>6 DEF Tuple
  <2> QED
    BY <2>7, <2>8
<1> QED
  BY <1>1, AsyncKnows, PTL DEF AsyncSpec, AsyncNoTornTuple

\* adelete_thread erases both halves of its thread, although they are two statements.
THEOREM DeletesAreComplete ==
    ASSUME SingleSaver
    PROVE  AsyncSpec => DeleteErasesBoth
<1>1. ASSUME AsyncInv, [AsyncNext]_avars
      PROVE  [strayed' \/ \A c \in Client :
                pc[c] = "del_wr" /\ reply'[c] = Outcome("ok") =>
                    /\ \A k \in Rows(checkpoints') : k.thread_id # call[c].thread_id
                    /\ \A w \in Rows(writes') : w.thread_id # call[c].thread_id]_avars
  <2> SUFFICES ASSUME ~ strayed', NEW c \in Client, pc[c] = "del_wr",
                      reply'[c] = Outcome("ok")
               PROVE  /\ \A k \in Rows(checkpoints') : k.thread_id # call[c].thread_id
                      /\ \A w \in Rows(writes') : w.thread_id # call[c].thread_id
    OBVIOUS
  <2>1. AsyncTypes /\ ErasedInv
    BY <1>1, TypeHalves, OrderlySteps DEF AsyncInv, KnownInv
  <2>2. reply[c] = NoReply /\ \A how \in {"none", "raised", "cancelled"} : Outcome(how) # Outcome("ok")
    BY <1>1 DEF AsyncInv, AsyncSilentInv, AsyncSilent, Telling, Outcome
  <2>3. reply'[c] # reply[c]
    BY <2>2 DEF Outcome, NoReply
  <2>4. PICK d \in Client : Own(d) \/ Cancel(d)
    BY <1>1, <2>3, OrderlySteps DEF vars
  <2>5. d = c
    BY <2>1, <2>3, <2>4, AsyncFrame
  <2>6. ~ Cancel(c)
    BY <2>1, <2>2 DEF Cancel, CancelAtQuery, CancelWaiting, CancelConsumer, Waiting, Leave,
                      AsyncTypes, Types, Typed
  <2>7. delete_writes(c)
    BY <2>4, <2>5, <2>6
       DEF Own, Shared, Invoke, Begin, Break, Finalize, get_tuple, put, SyncCall
  <2>8. /\ writes' = DeleteThread(writes, call[c].thread_id)
        /\ UNCHANGED checkpoints
    BY <2>1, <2>2, <2>7 DEF delete_writes, QueryError, Leave, AsyncTypes, Types, Typed
  <2>9. \A k \in Rows(checkpoints') : k.thread_id # call[c].thread_id
    BY <2>1, <2>8 DEF ErasedInv, Erased, Rows, AsyncTypes, Types, Typed, CheckpointsTable
  <2>10. \A w \in Rows(writes') : w.thread_id # call[c].thread_id
    BY <2>8 DEF DeleteThread, Rows
  <2> QED
    BY <2>9, <2>10
<1> QED
  BY <1>1, AsyncKnows, PTL DEF AsyncSpec, DeleteErasesBoth
=============================================================================
