----------------------- MODULE SurrealSaverAtomicProofs -----------------------
(***************************************************************************)
(* One SurrealSaver implements CheckpointStore: the proof that the         *)
(* refinement checked on a small instance holds of every instance with one *)
(* saver.                                                                  *)
(***************************************************************************)
EXTENDS SurrealSaverAtomic, SurrealSaverProofs

-----------------------------------------------------------------------------
(* The meaning of a batch, one write at a time *)

Slot(m, i) == WriteId(m.key, m.task_id, UseIdx(m.batch, i))

\* The instance's copies of the query operators are the operators.
LEMMA StoreDefs ==
    /\ Store!DbWriteId = DbWriteId /\ Store!WritesTable = WritesTable
    /\ Store!EmptyCheckpoints = EmptyCheckpoints /\ Store!EmptyWrites = EmptyWrites
    /\ \A b : Store!Replace(b) <=> Replace(b)
    /\ \A m, i : Store!WriteId(m.key, m.task_id, Store!UseIdx(m.batch, i)) = Slot(m, i)
    /\ \A T, k, r : Store!Upsert(T, k, r) = Upsert(T, k, r)
    /\ \A T, t : Store!DeleteThread(T, t) = DeleteThread(T, t)
    /\ \A T : Store!Rows(T) = Rows(T)
    /\ \A T, k : Store!Fetch(T, k) = Fetch(T, k)
<1>1. Store!DbWriteId = DbWriteId
  BY DEF Store!DbWriteId, DbWriteId, Store!Index, Index
<1>2. Store!WritesTable = WritesTable
  BY <1>1 DEF Store!WritesTable, WritesTable, Store!DbWrite, DbWrite, Store!AnyChannel,
     AnyChannel, Store!SpecialChannel, SpecialChannel
<1>3. Store!EmptyCheckpoints = EmptyCheckpoints /\ Store!EmptyWrites = EmptyWrites
  BY <1>1 DEF Store!EmptyCheckpoints, EmptyCheckpoints, Store!EmptyWrites, EmptyWrites,
     Store!DbCheckpointId, DbCheckpointId
<1>4. \A b : Store!Replace(b) <=> Replace(b)
  BY DEF Store!Replace, Replace, Store!SpecialChannel, SpecialChannel
<1>5. \A m, i : Store!WriteId(m.key, m.task_id, Store!UseIdx(m.batch, i)) = Slot(m, i)
  BY DEF Store!WriteId, WriteId, Store!UseIdx, UseIdx, Slot, Store!SpecialChannel,
     SpecialChannel, Store!WRITES_IDX_MAP, WRITES_IDX_MAP
<1>6. /\ \A T, k, r : Store!Upsert(T, k, r) = Upsert(T, k, r)
      /\ \A T, t : Store!DeleteThread(T, t) = DeleteThread(T, t)
      /\ \A T : Store!Rows(T) = Rows(T)
  BY DEF Store!Upsert, Upsert, Store!DeleteThread, DeleteThread, Store!Rows, Rows
<1>7. \A T, k : Store!Fetch(T, k) = Fetch(T, k)
  BY DEF Store!Fetch, Fetch, Store!Rows, Rows, Store!OwnerOf, OwnerOf
<1> QED
  BY <1>1, <1>2, <1>3, <1>4, <1>5, <1>6, <1>7

\* What Applies says, in this module's terms.
At(m, n, w) == {i \in 1 .. n : Slot(m, i) = w}

\* Applies, with the instance's operators replaced by this module's.
LEMMA AppliesDef ==
    ASSUME NEW T, NEW m, NEW n, NEW U
    PROVE  Store!Applies(T, m, n, U) <=>
             \A w \in DbWriteId :
                IF At(m, n, w) = {} \/ (~ Replace(m.batch) /\ T[w] # NoRow)
                THEN U[w] = T[w]
                ELSE \E i \in At(m, n, w) :
                        /\ U[w] = m.batch[i]
                        /\ \A j \in At(m, n, w) : IF Replace(m.batch) THEN j <= i ELSE i <= j
<1>1. \A w : {i \in 1 .. n : Store!WriteId(m.key, m.task_id, Store!UseIdx(m.batch, i)) = w}
               = At(m, n, w)
  BY StoreDefs DEF At
<1>2. /\ Store!DbWriteId = DbWriteId
      /\ Store!Replace(m.batch) <=> Replace(m.batch)
  BY StoreDefs
<1>3. Store!Applies(T, m, n, U) <=>
        \A w \in DbWriteId :
           LET at == At(m, n, w) IN
           IF at = {} \/ (~ Replace(m.batch) /\ T[w] # NoRow)
           THEN U[w] = T[w]
           ELSE \E i \in at : /\ U[w] = m.batch[i]
                             /\ \A j \in at : IF Replace(m.batch) THEN j <= i ELSE i <= j
  BY <1>1, <1>2, Zenon DEF Store!Applies
<1> QED
  BY <1>3, Zenon

\* No write of a batch changes nothing.
LEMMA AppliesNothing ==
    ASSUME NEW T, NEW m
    PROVE  Store!Applies(T, m, 0, T)
BY AppliesDef DEF At

\* The indices of the first n + 1 writes that land in a slot.
LEMMA AtStep ==
    ASSUME NEW m, NEW n \in Nat, NEW w
    PROVE  /\ w = Slot(m, n + 1) => At(m, n + 1, w) = At(m, n, w) \cup {n + 1}
           /\ w # Slot(m, n + 1) => At(m, n + 1, w) = At(m, n, w)
           /\ \A i \in At(m, n, w) : i \in 1 .. n /\ i <= n + 1
BY DEF At

\* One more write of a batch of reserved channels replaces the row at its index.
LEMMA AppliesReplace ==
    ASSUME NEW T \in WritesTable, NEW m \in PutWritesCall, NEW n \in Nat,
           NEW U \in WritesTable, Store!Applies(T, m, n, U),
           Replace(m.batch), Slot(m, n + 1) \in DbWriteId
    PROVE  Store!Applies(T, m, n + 1, Upsert(U, Slot(m, n + 1), m.batch[n + 1]))
<1> DEFINE R == Upsert(U, Slot(m, n + 1), m.batch[n + 1])
<1> SUFFICES ASSUME NEW w \in DbWriteId
             PROVE  IF At(m, n + 1, w) = {}
                    THEN R[w] = T[w]
                    ELSE \E i \in At(m, n + 1, w) :
                            R[w] = m.batch[i] /\ \A j \in At(m, n + 1, w) : j <= i
  BY AppliesDef
<1>1. IF At(m, n, w) = {}
      THEN U[w] = T[w]
      ELSE \E i \in At(m, n, w) : U[w] = m.batch[i] /\ \A j \in At(m, n, w) : j <= i
  BY AppliesDef
<1>2. CASE w = Slot(m, n + 1)
  <2>1. R[w] = m.batch[n + 1]
    BY <1>2 DEF Upsert, WritesTable
  <2>2. n + 1 \in At(m, n + 1, w) /\ \A j \in At(m, n + 1, w) : j <= n + 1
    BY <1>2, AtStep
  <2> QED
    BY <2>1, <2>2
<1>3. CASE w # Slot(m, n + 1)
  <2>1. R[w] = U[w]
    BY <1>3 DEF Upsert, WritesTable
  <2> QED
    BY <1>1, <1>3, <2>1, AtStep
<1> QED
  BY <1>2, <1>3

\* One more write of any other batch fills the row at its index if it is empty,
\* and changes nothing if it is not.
LEMMA AppliesFill ==
    ASSUME NEW T \in WritesTable, NEW m \in PutWritesCall, NEW n \in Nat,
           n + 1 \in 1 .. Len(m.batch), NEW U \in WritesTable, Store!Applies(T, m, n, U),
           ~ Replace(m.batch), Slot(m, n + 1) \in DbWriteId, NEW R,
           \/ /\ U[Slot(m, n + 1)] = NoRow
              /\ R = Upsert(U, Slot(m, n + 1), m.batch[n + 1])
           \/ U[Slot(m, n + 1)] # NoRow /\ R = U
    PROVE  Store!Applies(T, m, n + 1, R)
<1> SUFFICES ASSUME NEW w \in DbWriteId
             PROVE  IF At(m, n + 1, w) = {} \/ T[w] # NoRow
                    THEN R[w] = T[w]
                    ELSE \E i \in At(m, n + 1, w) :
                            R[w] = m.batch[i] /\ \A j \in At(m, n + 1, w) : i <= j
  BY AppliesDef
<1>1. IF At(m, n, w) = {} \/ T[w] # NoRow
      THEN U[w] = T[w]
      ELSE \E i \in At(m, n, w) : U[w] = m.batch[i] /\ \A j \in At(m, n, w) : i <= j
  BY AppliesDef
<1>2. CASE w # Slot(m, n + 1)
  <2>1. R[w] = U[w]
    BY <1>2 DEF Upsert, WritesTable
  <2> QED
    BY <1>1, <1>2, <2>1, AtStep
<1>3. CASE w = Slot(m, n + 1)
  <2>1. /\ At(m, n + 1, w) = At(m, n, w) \cup {n + 1}
        /\ \A i \in At(m, n, w) : i \in 1 .. n /\ i <= n + 1
    BY <1>3, AtStep
  <2>2. CASE U[w] = NoRow
    <3>1. R[w] = m.batch[n + 1]
      BY <1>3, <2>2 DEF Upsert, WritesTable
    <3>2. \A i \in At(m, n, w) : m.batch[i] # NoRow
      <4>1. \A i \in 1 .. Len(m.batch) : m.batch[i] \in DbWrite
        BY DEF PutWritesCall
      <4>2. \A i \in At(m, n, w) : i \in 1 .. Len(m.batch)
        BY <2>1 DEF PutWritesCall
      <4> QED
        BY <4>1, <4>2, NoWriteRowAssumption
    <3>3. T[w] = NoRow /\ At(m, n, w) = {}
      BY <1>1, <2>2, <3>2
    <3> QED
      BY <2>1, <3>1, <3>3
  <2>3. CASE U[w] # NoRow
    <3>1. R[w] = U[w]
      BY <1>3, <2>3
    <3>2. CASE T[w] # NoRow
      BY <1>1, <3>1, <3>2
    <3>3. CASE T[w] = NoRow
      <4>1. PICK i \in At(m, n, w) : U[w] = m.batch[i] /\ \A j \in At(m, n, w) : i <= j
        BY <1>1, <2>3, <3>3
      <4>2. \A j \in At(m, n + 1, w) : i <= j
        BY <2>1, <4>1
      <4> QED
        BY <2>1, <3>1, <3>3, <4>1, <4>2
    <3> QED
      BY <3>2, <3>3
  <2> QED
    BY <2>2, <2>3
<1> QED
  BY <1>2, <1>3

-----------------------------------------------------------------------------
(* What the steps of a call do to the tables, the program counter and the batch *)

\* The effect of having dealt with the write at hand.
Stored(c) ==
    \/ /\ Replace(Batch(c)) \/ writes[NextId(c)] = NoRow
       /\ writes' = Upsert(writes, NextId(c), NextWrite(c))
    \/ /\ ~ Replace(Batch(c)) /\ writes[NextId(c)] # NoRow
       /\ writes' = writes

Effects(c) ==
    /\ pc[c] # "idle" /\ UNCHANGED call
    /\ pc[c] \notin {"put", "pw", "pw_upsert", "del_cp"} => UNCHANGED <<checkpoints, writes>>
    /\ pc[c] = "put" =>
          /\ checkpoints' \in {checkpoints, Upsert(checkpoints, call[c].key, call[c].value)}
          /\ writes' = writes /\ pc'[c] = "idle"
    /\ pc[c] \in {"pw", "pw_upsert"} =>
          /\ checkpoints' = checkpoints
          /\ \/ /\ writes' = writes
                /\ pc'[c] = "idle" \/ (pc'[c] = "pw_upsert" /\ idx'[c] = idx[c])
             \/ /\ idx[c] # Len(Batch(c)) /\ Stored(c)
                /\ pc'[c] = "idle" \/ (pc'[c] = "pw" /\ idx'[c] = idx[c] + 1)
    /\ pc[c] = "del_cp" =>
          LET left == DeleteThread(checkpoints, call[c].thread_id) IN
          /\ writes' = writes
          /\ \/ checkpoints' = left /\ pc'[c] = "del_wr"
             \/ checkpoints' \in {checkpoints, left} /\ pc'[c] = "idle"
    /\ pc[c] = "del_wr" => pc'[c] = "idle"
    /\ pc[c] \in {"fetch", "list_next", "yielded", "reentered"} =>
          pc'[c] \in {"idle", "list_next", "yielded", "reentered"}
    /\ pc'[c] \in {"pw", "pw_upsert"} =>
          \/ pc[c] \in {"pw", "pw_upsert"}
          \/ pc[c] = "lock" /\ pc'[c] = "pw" /\ idx'[c] = 0
    /\ pc'[c] = "del_wr" => pc[c] = "del_cp"

\* Every step of a call has one of the effects listed.
LEMMA StepEffects ==
    ASSUME TypeInv, ReadInv, NEW c \in Client, Step(c)
    PROVE  Effects(c)
<1>1. CASE EnsureReady(c) \/ SetupLock(c) \/ SetupCheckpoints(c) \/ SetupWrites(c) \/ SetupDone(c)
  BY <1>1 DEF Effects, EnsureReady, SetupLock, SetupCheckpoints, SetupWrites, SetupDone,
              Defines, Goto, GoOn, Leave, QueryError, TypeInv, TypeOK, db
<1>2. CASE ProbeLock(c) \/ ProbeCheckpoints(c) \/ ProbeWrites(c)
  BY <1>2 DEF Effects, ProbeLock, ProbeCheckpoints, ProbeWrites, Probed, MissingTable, Goto,
              GoOn, Leave, QueryError, TypeInv, TypeOK, db
<1>3. CASE Lock(c)
  <2>1. FirstQuery[call[c].op] \in {"put", "pw", "get", "list", "del_cp"} /\ idx[c] = 0
    BY <1>3 DEF Lock, TypeInv, PcInv, FirstQuery
  <2> QED
    BY <1>3, <2>1 DEF Effects, Lock, Goto, TypeInv, TypeOK, db
<1>4. CASE Put(c) \/ DeleteCheckpoints(c) \/ DeleteWrites(c) \/ PutWritesDone(c)
  BY <1>4 DEF Effects, Put, DeleteCheckpoints, DeleteWrites, PutWritesDone, Goto, GoOn,
              Leave, QueryError, TypeInv, TypeOK, db
<1>5. CASE PutWritesReplace(c) \/ PutWritesUpsert(c)
  <2>1. /\ pc[c] \in {"pw", "pw_upsert"} /\ idx[c] # Len(Batch(c))
        /\ Replace(Batch(c)) \/ writes[NextId(c)] = NoRow
        /\ StoreWrite(c)
    BY <1>5, CallShape, MaxBatchAssumption
       DEF PutWritesReplace, PutWritesUpsert, TypeInv, TypeOK, PcInv, ReadInv, PutWritesCall,
           Batch
  <2> QED
    BY <2>1 DEF Effects, Stored, StoreWrite, Goto, GoOn, Leave, QueryError, TypeInv, TypeOK
<1>6. CASE PutWritesCheck(c)
  <2>1. idx[c] # Len(Batch(c))
    BY <1>6, CallShape, MaxBatchAssumption
       DEF PutWritesCheck, TypeInv, TypeOK, PcInv, PutWritesCall, Batch
  <2> QED
    BY <1>6, <2>1 DEF Effects, Stored, PutWritesCheck, Goto, GoOn, Leave, QueryError, TypeInv,
                      TypeOK, db
<1>7. CASE GetCheckpoint(c) \/ GetWrites(c)
  BY <1>7 DEF Effects, GetCheckpoint, GetWrites, Goto, GoOn, Leave, QueryError, TypeInv,
              TypeOK, db
<1>8. CASE \/ ListCheckpoints(c) \/ ListYield(c) \/ ListEnd(c)
           \/ Resume(c) \/ Close(c) \/ Reenter(c)
  BY <1>8 DEF Effects, ListCheckpoints, ListYield, ListEnd, Resume, Close, Reenter, Goto,
              GoOn, Leave, QueryError, TypeInv, TypeOK, db, savers
<1> QED
  BY <1>1, <1>2, <1>3, <1>4, <1>5, <1>6, <1>7, <1>8 DEF Step

\* Dealing with the write at hand applies one more write of the batch.
LEMMA StoredApplies ==
    ASSUME TypeInv, NEW c \in Client, pc[c] \in {"pw", "pw_upsert"}, idx[c] # Len(Batch(c)),
           Stored(c), NEW T \in WritesTable, Store!Applies(T, call[c], idx[c], writes)
    PROVE  Store!Applies(T, call[c], idx[c] + 1, writes')
<1>1. call[c] \in PutWritesCall /\ idx[c] \in Nat /\ writes \in WritesTable
  BY CallShape, MaxBatchAssumption DEF TypeInv, TypeOK, PcInv
<1>2. /\ NextId(c) = Slot(call[c], idx[c] + 1)
      /\ Batch(c) = call[c].batch /\ NextWrite(c) = call[c].batch[idx[c] + 1]
  BY DEF NextId, Slot, Batch, NextWrite
<1>3. NextId(c) \in DbWriteId /\ idx[c] + 1 \in 1 .. Len(Batch(c))
  BY TypesOfSaver, NextWriteType
<1>4. CASE Replace(Batch(c))
  <2>1. writes' = Upsert(writes, Slot(call[c], idx[c] + 1), call[c].batch[idx[c] + 1])
    BY <1>2, <1>4 DEF Stored
  <2> QED
    BY <1>1, <1>2, <1>3, <1>4, <2>1, AppliesReplace
<1>5. CASE ~ Replace(Batch(c))
  <2>1. \/ /\ writes[Slot(call[c], idx[c] + 1)] = NoRow
           /\ writes' = Upsert(writes, Slot(call[c], idx[c] + 1), call[c].batch[idx[c] + 1])
        \/ writes[Slot(call[c], idx[c] + 1)] # NoRow /\ writes' = writes
    BY <1>2, <1>5 DEF Stored
  <2> QED
    BY <1>1, <1>2, <1>3, <1>5, <2>1, AppliesFill
<1> QED
  BY <1>4, <1>5

-----------------------------------------------------------------------------
(* How the tables differ from what is committed while a call is under way *)

MayHaveTuple == {"idle", "list_next", "yielded", "reentered"}

Progress(c) ==
    /\ pc[c] \in {"pw", "pw_upsert"} =>
          /\ checkpoints = committed[1]
          /\ Store!Applies(committed[2], call[c], idx[c], writes)
    /\ pc[c] = "del_wr" =>
          /\ checkpoints = DeleteThread(committed[1], call[c].thread_id)
          /\ writes = committed[2]
    /\ pc[c] \in Critical \ {"pw", "pw_upsert", "del_wr"} =>
          committed = <<checkpoints, writes>>
    /\ reply[c].status = "tuple" => pc[c] \in MayHaveTuple

HistoryInv ==
    /\ committed \in CheckpointsTable \X WritesTable
    /\ Quiet => committed = <<checkpoints, writes>>
    /\ \A c \in Client : Progress(c)

SaverInv == TypeInv /\ LockDiscipline /\ ReadInv

\* No lock is held exactly when no thread is inside a with-statement.
LEMMA QuietIff ==
    ASSUME TypeOK, LockDiscipline
    PROVE  Quiet <=> \A c \in Client : pc[c] \notin Critical
BY SaverOfAssumption, FreeAssumption DEF Quiet, TypeOK, LockDiscipline

\* The same of the state after a step.
LEMMA QuietNext ==
    ASSUME TypeOK', LockDiscipline'
    PROVE  Quiet' <=> \A c \in Client : pc'[c] \notin Critical
BY SaverOfAssumption, FreeAssumption DEF Quiet, TypeOK, LockDiscipline

\* After a step, too, at most one thread is inside.
LEMMA AloneNext ==
    ASSUME SingleSaver, LockDiscipline', NEW c \in Client, NEW d \in Client,
           pc'[c] \in Critical, pc'[d] \in Critical
    PROVE  c = d
BY SaverOfAssumption DEF SingleSaver, LockDiscipline

\* The history variable changes nothing of what the saver does.
LEMMA SaverSteps ==
    ASSUME SingleSaver, SaverInv, [AtomicNext]_<<vars, committed>>
    PROVE  SaverInv'
<1>1. [Next]_vars
  BY DEF AtomicNext
<1> QED
  BY <1>1, NextType, NextLocks, NextReads DEF SaverInv

\* A thread outside the with-statement changes no table.
LEMMA OutsideKeeps ==
    ASSUME TypeInv, NEW c \in Client, Invoke(c) \/ Step(c), pc[c] \notin Critical
    PROVE  UNCHANGED <<checkpoints, writes>>
BY TypesOfSaver, DataSteps

\* Where a thread that has been given a tuple may be after its next step.
LEMMA TupleLabels ==
    ASSUME TypeInv, ReadInv, NEW c \in Client, Invoke(c) \/ Step(c),
           reply[c].status = "tuple" => pc[c] \in MayHaveTuple,
           reply'[c].status = "tuple"
    PROVE  pc'[c] \in MayHaveTuple
<1>1. CASE Invoke(c)
  BY <1>1 DEF Invoke, Begin, NoReply, TypeInv, TypeOK
<1>2. CASE Step(c)
  <2>1. Effects(c)
    BY <1>2, StepEffects
  <2>2. pc[c] \in MayHaveTuple \cup {"fetch"}
    BY <1>2, TypesOfSaver, TupleSteps DEF MayHaveTuple
  <2> QED
    BY <2>1, <2>2 DEF Effects, MayHaveTuple
<1> QED
  BY <1>1, <1>2

\* The thread inside: one step of its call moves the tables as Progress says.
LEMMA InsideProgress ==
    ASSUME SaverInv, NEW c \in Client, Step(c), pc[c] \in Critical, pc'[c] \in Critical,
           committed \in CheckpointsTable \X WritesTable, committed' = committed, Progress(c)
    PROVE  Progress(c)'
<1>1. Effects(c)
  BY StepEffects DEF SaverInv
<1>2. reply'[c].status = "tuple" => pc'[c] \in MayHaveTuple
  BY TupleLabels DEF SaverInv, Progress
<1>3. call'[c] = call[c]
  BY <1>1 DEF Effects
<1>4. ASSUME pc'[c] \in {"pw", "pw_upsert"}
      PROVE  /\ checkpoints' = committed'[1]
             /\ Store!Applies(committed'[2], call'[c], idx'[c], writes')
  <2>1. pc[c] \in {"pw", "pw_upsert"} /\ pc'[c] # "idle"
    BY <1>1, <1>4 DEF Effects, Critical
  <2>2. /\ checkpoints = committed[1]
        /\ Store!Applies(committed[2], call[c], idx[c], writes)
    BY <2>1 DEF Progress
  <2>3. CASE writes' = writes /\ idx'[c] = idx[c]
    BY <1>1, <1>3, <2>1, <2>2, <2>3 DEF Effects
  <2>4. CASE idx[c] # Len(Batch(c)) /\ Stored(c) /\ idx'[c] = idx[c] + 1
    <3>1. Store!Applies(committed[2], call[c], idx[c] + 1, writes')
      BY <2>1, <2>2, <2>4, StoredApplies DEF SaverInv
    <3> QED
      BY <1>1, <1>3, <2>1, <2>2, <2>4, <3>1 DEF Effects
  <2> QED
    BY <1>1, <2>1, <2>3, <2>4 DEF Effects
<1>5. ASSUME pc'[c] = "del_wr"
      PROVE  /\ checkpoints' = DeleteThread(committed'[1], call'[c].thread_id)
             /\ writes' = committed'[2]
  <2>1. pc[c] = "del_cp"
    BY <1>1, <1>5 DEF Effects
  <2>2. committed = <<checkpoints, writes>>
    BY <2>1 DEF Progress, Critical
  <2> QED
    BY <1>1, <1>3, <1>5, <2>1, <2>2 DEF Effects
<1>6. ASSUME pc'[c] \in Critical \ {"pw", "pw_upsert", "del_wr"}
      PROVE  committed' = <<checkpoints', writes'>>
  <2>1. pc[c] \notin {"put", "pw", "pw_upsert", "del_cp", "del_wr"}
    BY <1>1, <1>6 DEF Effects, Critical
  <2> QED
    BY <1>1, <2>1 DEF Effects, Progress
<1> QED
  BY <1>2, <1>4, <1>5, <1>6 DEF Progress

\* A thread that comes in finds the tables as committed.
LEMMA EnterProgress ==
    ASSUME SaverInv, NEW c \in Client, Invoke(c) \/ Step(c), pc[c] \notin Critical,
           pc'[c] \in Critical, committed \in CheckpointsTable \X WritesTable,
           committed' = committed, committed = <<checkpoints, writes>>, Progress(c)
    PROVE  Progress(c)'
<1>1. ~ Invoke(c)
  BY DEF Invoke, Begin, Goto, SaverInv, TypeInv, TypeOK, Critical
<1>2. Effects(c)
  BY <1>1, StepEffects DEF SaverInv
<1>3. reply'[c].status = "tuple" => pc'[c] \in MayHaveTuple
  BY TupleLabels DEF SaverInv, Progress
<1>4. UNCHANGED <<checkpoints, writes>>
  BY OutsideKeeps DEF SaverInv
<1>5. pc'[c] \in {"pw", "pw_upsert"} => idx'[c] = 0
  BY <1>2 DEF Effects, Critical
<1>6. pc'[c] # "del_wr"
  BY <1>2 DEF Effects, Critical
<1>7. Store!Applies(committed[2], call'[c], 0, writes')
  BY <1>4, AppliesNothing
<1> QED
  BY <1>3, <1>4, <1>5, <1>6, <1>7 DEF Progress

\* Another thread's step changes nothing this one's progress depends on.
LEMMA OtherProgress ==
    ASSUME SingleSaver, SaverInv, SaverInv', NEW c \in Client, Invoke(c) \/ Step(c),
           NEW d \in Client, c # d, Progress(d),
           committed' = IF Quiet' THEN <<checkpoints', writes'>> ELSE committed
    PROVE  Progress(d)'
<1>1. pc'[d] = pc[d] /\ call'[d] = call[d] /\ idx'[d] = idx[d] /\ reply'[d] = reply[d]
  BY TypesOfSaver, DataSteps DEF SaverInv
<1>2. CASE pc[d] \in Critical
  <2>1. pc[c] \notin Critical
    BY <1>2, Alone DEF SaverInv
  <2>2. UNCHANGED <<checkpoints, writes>>
    BY <2>1, OutsideKeeps DEF SaverInv
  <2>3. committed' = committed
    BY <1>1, <1>2, QuietNext DEF SaverInv, TypeInv
  <2> QED
    BY <1>1, <2>2, <2>3 DEF Progress
<1>3. CASE pc[d] \notin Critical
  <2>1. pc[d] \notin {"pw", "pw_upsert", "del_wr"}
    BY <1>3 DEF Critical
  <2> QED
    BY <1>1, <1>3, <2>1 DEF Progress
<1> QED
  BY <1>2, <1>3

\* Every step keeps the tables and what is committed in step.
LEMMA NextHistory ==
    ASSUME SingleSaver, SaverInv, HistoryInv, [AtomicNext]_<<vars, committed>>
    PROVE  HistoryInv'
<1>1. SaverInv'
  BY SaverSteps
<1>2. CASE UNCHANGED <<vars, committed>>
  BY <1>2 DEF vars, HistoryInv, Quiet, Progress
<1>3. CASE Finished /\ AtomicNext
  <2>1. UNCHANGED vars /\ (Quiet' <=> Quiet)
    BY <1>3 DEF Finished, vars, Quiet
  <2>2. UNCHANGED <<vars, committed>>
    BY <1>3, <2>1 DEF AtomicNext, HistoryInv, vars
  <2> QED
    BY <1>2, <2>2
<1>4. ASSUME NEW c \in Client, Invoke(c) \/ Step(c), AtomicNext PROVE HistoryInv'
  <2>1. committed' = IF Quiet' THEN <<checkpoints', writes'>> ELSE committed
    BY <1>4 DEF AtomicNext
  <2>2. committed' \in CheckpointsTable \X WritesTable
    BY <1>1, <2>1 DEF HistoryInv, SaverInv, TypeInv, TypeOK
  <2>3. Quiet' => committed' = <<checkpoints', writes'>>
    BY <2>1
  <2>4. \A d \in Client \ {c} : Progress(d)'
    BY <1>1, <1>4, <2>1, OtherProgress DEF HistoryInv
  <2>5. CASE pc'[c] \notin Critical
    <3>1. reply'[c].status = "tuple" => pc'[c] \in MayHaveTuple
      BY <1>4, TupleLabels DEF SaverInv, HistoryInv, Progress
    <3>2. pc'[c] \notin {"pw", "pw_upsert", "del_wr"}
      BY <2>5 DEF Critical
    <3>3. Progress(c)'
      BY <2>5, <3>1, <3>2 DEF Progress
    <3> QED
      BY <2>2, <2>3, <2>4, <3>3 DEF HistoryInv
  <2>6. CASE pc'[c] \in Critical
    <3>1. committed' = committed
      BY <1>1, <2>1, <2>6, QuietNext DEF SaverInv, TypeInv
    <3>2. CASE pc[c] \in Critical
      <4>1. ~ Invoke(c)
        BY <3>2 DEF Invoke, Begin, Critical
      <4>2. Progress(c)'
        BY <1>4, <2>6, <3>1, <3>2, <4>1, InsideProgress DEF HistoryInv
      <4> QED
        BY <2>2, <2>3, <2>4, <4>2 DEF HistoryInv
    <3>3. CASE pc[c] \notin Critical
      <4>1. \A d \in Client : pc[d] \notin Critical
        <5> SUFFICES ASSUME NEW d \in Client, pc[d] \in Critical PROVE FALSE
          OBVIOUS
        <5>1. c # d
          BY <3>3
        <5>2. pc'[d] \in Critical
          BY <1>4, <5>1, TypesOfSaver, DataSteps DEF SaverInv
        <5> QED
          BY <1>1, <2>6, <5>1, <5>2, AloneNext DEF SaverInv
      <4>2. committed = <<checkpoints, writes>>
        BY <4>1, QuietIff DEF SaverInv, TypeInv, HistoryInv
      <4>3. Progress(c)'
        BY <1>4, <2>6, <3>1, <3>3, <4>2, EnterProgress DEF HistoryInv
      <4> QED
        BY <2>2, <2>3, <2>4, <4>3 DEF HistoryInv
    <3> QED
      BY <3>2, <3>3
  <2> QED
    BY <2>5, <2>6
<1> QED
  BY <1>2, <1>3, <1>4 DEF AtomicNext, Next

-----------------------------------------------------------------------------
(* Every step is a step of the store, or none *)

\* What a step may do to the tuples handed out, the tables staying as they are.
LEMMA ToldStep ==
    ASSUME SaverInv, HistoryInv, NEW c \in Client, Invoke(c) \/ Step(c), committed' = committed
    PROVE  Store!Next \/ UNCHANGED Store!vars
<1>1. /\ reply \in [Client -> Replies] /\ DOMAIN reply' = Client
      /\ \A d \in Client \ {c} : reply'[d] = reply[d]
  BY NextType, TypesOfSaver, DataSteps DEF SaverInv, TypeInv, TypeOK, Replies, Next
<1>2. NoReply = Store!NoTuple
  BY DEF NoReply, Store!NoTuple
<1>3. \A d \in Client \ {c} : Told'[d] = Told[d]
  BY <1>1 DEF Told
<1>4. CASE reply'[c] = reply[c]
  <2>1. Told' = Told
    BY <1>1, <1>4 DEF Told
  <2> QED
    BY <2>1 DEF Store!vars
<1>5. CASE reply'[c].status # "tuple"
  <2>1. Told' = [Told EXCEPT ![c] = NoReply]
    BY <1>1, <1>5 DEF Told
  <2>2. Store!Forget(c)
    BY <1>2, <2>1 DEF Store!Forget
  <2> QED
    BY <2>2 DEF Store!Next
<1>6. CASE reply'[c] # reply[c] /\ reply'[c].status = "tuple"
  <2>1. pc[c] \in {"fetch", "list_next"}
    BY <1>6, TypesOfSaver, TupleSteps DEF SaverInv
  <2>2. PICK r \in rows[c] : reply'[c] = Tuple(r, writes)
    BY <1>6, TypesOfSaver, TupleSteps DEF SaverInv
  <2>3. committed = <<checkpoints, writes>>
    BY <2>1 DEF HistoryInv, Progress, Critical
  <2>4. checkpoints[r.key] = r.value /\ r.key \in Rows(checkpoints)
    BY <2>1, NoRowAssumption DEF SaverInv, ReadInv, TypeInv, TypeOK, CheckpointsTable, Rows
  <2>5. Told' = [Told EXCEPT ![c] = Tuple(r, writes)]
    BY <1>1, <1>6, <2>2 DEF Told
  <2>6. Tuple(r, writes) =
          [status |-> "tuple", key |-> r.key, value |-> committed[1][r.key],
           pending |-> Store!Fetch(committed[2], r.key)]
    BY <2>3, <2>4, StoreDefs DEF Tuple
  <2>7. r.key \in Store!Rows(committed[1])
    BY <2>3, <2>4, StoreDefs
  <2>8. Store!Tell(c)
    BY <2>5, <2>6, <2>7 DEF Store!Tell
  <2> QED
    BY <2>8 DEF Store!Next
<1> QED
  BY <1>4, <1>5, <1>6

\* A change of the committed tables is made by the thread that leaves.
LEMMA CommitSteps ==
    ASSUME SingleSaver, SaverInv, SaverInv', HistoryInv, NEW c \in Client,
           Invoke(c) \/ Step(c), committed' # committed,
           committed' = IF Quiet' THEN <<checkpoints', writes'>> ELSE committed
    PROVE  /\ pc[c] \in {"put", "pw", "pw_upsert", "del_cp", "del_wr"} /\ pc'[c] = "idle"
           /\ Effects(c)
           /\ committed' = <<checkpoints', writes'>>
<1>1. Quiet' /\ committed' = <<checkpoints', writes'>>
  OBVIOUS
<1>2. \A d \in Client : pc'[d] \notin Critical
  BY <1>1, QuietNext DEF SaverInv, TypeInv
<1>3. \A d \in Client \ {c} : pc[d] \notin Critical
  BY <1>2, TypesOfSaver, DataSteps DEF SaverInv
<1>4. pc[c] \in Critical
  <2> SUFFICES ASSUME pc[c] \notin Critical PROVE FALSE
    OBVIOUS
  <2>1. committed = <<checkpoints, writes>>
    BY <1>3, QuietIff DEF SaverInv, TypeInv, HistoryInv
  <2> QED
    BY <1>1, <2>1, OutsideKeeps DEF SaverInv
<1>5. Step(c)
  BY <1>4 DEF Invoke, Begin, Critical
<1>6. Effects(c)
  BY <1>5, StepEffects DEF SaverInv
<1>7. pc[c] \in {"put", "pw", "pw_upsert", "del_cp", "del_wr"}
  <2> SUFFICES ASSUME pc[c] \notin {"put", "pw", "pw_upsert", "del_cp", "del_wr"} PROVE FALSE
    OBVIOUS
  <2>1. committed = <<checkpoints, writes>>
    BY <1>4 DEF HistoryInv, Progress
  <2> QED
    BY <1>1, <1>6, <2>1 DEF Effects
<1>8. pc'[c] = "idle"
  BY <1>2, <1>6, <1>7 DEF Effects, Critical
<1> QED
  BY <1>1, <1>6, <1>7, <1>8

\* The tuples handed out stay when the tables change.
LEMMA CommitTells ==
    ASSUME SaverInv, HistoryInv, NEW c \in Client, Invoke(c) \/ Step(c),
           pc[c] \in {"put", "pw", "pw_upsert", "del_cp", "del_wr"}
    PROVE  Told' = Told
<1>1. \A d \in Client \ {c} : reply'[d] = reply[d]
  BY TypesOfSaver, DataSteps DEF SaverInv
<1>2. reply[c].status # "tuple"
  BY DEF HistoryInv, Progress, MayHaveTuple
<1>3. reply'[c].status # "tuple"
  BY <1>2, TypesOfSaver, TupleSteps DEF SaverInv
<1> QED
  BY <1>1, <1>2, <1>3 DEF Told

\* The thread that leaves makes its whole call happen.
LEMMA CommitIsCall ==
    ASSUME SaverInv, SaverInv', HistoryInv, NEW c \in Client, Told' = Told,
           pc[c] \in {"put", "pw", "pw_upsert", "del_cp", "del_wr"}, pc'[c] = "idle",
           Effects(c), committed' = <<checkpoints', writes'>>
    PROVE  Store!Next \/ UNCHANGED Store!vars
<1>1. /\ call[c] \in Calls /\ Progress(c)
      /\ committed \in CheckpointsTable \X WritesTable /\ writes' \in WritesTable
  BY DEF SaverInv, TypeInv, TypeOK, PcInv, HistoryInv
<1>2. CASE pc[c] = "put"
  <2>1. /\ committed = <<checkpoints, writes>> /\ call[c].op = "put"
        /\ writes' = writes
        /\ checkpoints' \in {checkpoints, Store!Upsert(checkpoints, call[c].key, call[c].value)}
    BY <1>1, <1>2, StoreDefs DEF Effects, Progress, Critical, SaverInv, TypeInv, PcInv
  <2>2. Store!Put \/ UNCHANGED Store!vars
    BY <1>1, <2>1 DEF Store!Put, Store!vars
  <2> QED
    BY <2>2 DEF Store!Next
<1>3. CASE pc[c] \in {"pw", "pw_upsert"}
  <2>1. call[c] \in PutWritesCall /\ idx[c] \in 0 .. Len(call[c].batch) /\ call[c].op = "put_writes"
    BY <1>3, CallShape, MaxBatchAssumption
       DEF SaverInv, TypeInv, TypeOK, PcInv, PutWritesCall, Batch
  <2>2. /\ checkpoints = committed[1] /\ checkpoints' = checkpoints
        /\ Store!Applies(committed[2], call[c], idx[c], writes)
    BY <1>1, <1>3 DEF Progress, Effects
  <2>3. PICK n \in 0 .. Len(call[c].batch) : Store!Applies(committed[2], call[c], n, writes')
    <3>1. CASE writes' = writes
      BY <2>1, <2>2, <3>1
    <3>2. CASE idx[c] # Len(Batch(c)) /\ Stored(c)
      <4>1. Store!Applies(committed[2], call[c], idx[c] + 1, writes')
        BY <1>1, <1>3, <2>2, <3>2, StoredApplies DEF SaverInv
      <4>2. idx[c] + 1 \in 0 .. Len(call[c].batch)
        BY <2>1, <3>2 DEF Batch, PutWritesCall
      <4> QED
        BY <4>1, <4>2
    <3> QED
      BY <1>3, <3>1, <3>2 DEF Effects
  <2>4. Store!PutWrites
    BY <1>1, <2>1, <2>2, <2>3, StoreDefs DEF Store!PutWrites
  <2> QED
    BY <2>4 DEF Store!Next
<1>4. CASE pc[c] \in {"del_cp", "del_wr"}
  <2>1. /\ call[c].op = "delete_thread" /\ writes' = committed[2]
        /\ checkpoints' \in {committed[1], Store!DeleteThread(committed[1], call[c].thread_id)}
    BY <1>1, <1>4, StoreDefs DEF Effects, Progress, Critical, SaverInv, TypeInv, PcInv
  <2>2. Store!Delete \/ UNCHANGED Store!vars
    BY <1>1, <2>1 DEF Store!Delete, Store!vars
  <2> QED
    BY <2>2 DEF Store!Next
<1> QED
  BY <1>2, <1>3, <1>4

\* Every step of the saver is a step of the store or changes nothing of it.
LEMMA StepRefines ==
    ASSUME SingleSaver, SaverInv, HistoryInv, [AtomicNext]_<<vars, committed>>
    PROVE  [Store!Next]_Store!vars
<1>1. CASE UNCHANGED <<vars, committed>>
  BY <1>1 DEF vars, Store!vars, Told
<1>2. CASE Finished /\ AtomicNext
  <2>1. UNCHANGED vars /\ (Quiet' <=> Quiet)
    BY <1>2 DEF Finished, vars, Quiet
  <2>2. UNCHANGED <<vars, committed>>
    BY <1>2, <2>1 DEF AtomicNext, HistoryInv, vars
  <2> QED
    BY <1>1, <2>2
<1>3. ASSUME NEW c \in Client, Invoke(c) \/ Step(c), AtomicNext
      PROVE  Store!Next \/ UNCHANGED Store!vars
  <2>1. committed' = IF Quiet' THEN <<checkpoints', writes'>> ELSE committed
    BY <1>3 DEF AtomicNext
  <2>2. CASE committed' = committed
    BY <1>3, <2>2, ToldStep
  <2>3. CASE committed' # committed
    <3>1. SaverInv'
      BY SaverSteps
    <3>2. /\ pc[c] \in {"put", "pw", "pw_upsert", "del_cp", "del_wr"} /\ pc'[c] = "idle"
          /\ Effects(c)
          /\ committed' = <<checkpoints', writes'>>
      BY <1>3, <2>1, <2>3, <3>1, CommitSteps
    <3>3. Told' = Told
      BY <1>3, <3>2, CommitTells
    <3> QED
      BY <3>1, <3>2, <3>3, CommitIsCall
  <2> QED
    BY <2>2, <2>3
<1> QED
  BY <1>1, <1>2, <1>3 DEF AtomicNext, Next

\* Through one object every call is atomic, whatever queries fail in between:
\* the saver, query by query, implements the store whose calls are instants.
THEOREM Implements ==
    ASSUME SingleSaver
    PROVE  AtomicSpec => ImplementsStore
<1>1. AtomicInit => SaverInv /\ HistoryInv /\ Store!Init
  <2> SUFFICES ASSUME AtomicInit PROVE SaverInv /\ HistoryInv /\ Store!Init
    OBVIOUS
  <2>1. SaverInv
    BY InitType, SaverOfAssumption, FreeAssumption
       DEF AtomicInit, Init, SaverInv, LockDiscipline, ReadInv, Critical
  <2>2. committed = <<checkpoints, writes>>
    BY DEF AtomicInit
  <2>3. HistoryInv
    BY <2>1, <2>2
       DEF AtomicInit, Init, HistoryInv, Progress, NoReply, SaverInv, TypeInv, TypeOK, Critical
  <2>4. Told = [c \in Client |-> Store!NoTuple]
    BY DEF AtomicInit, Init, Told, NoReply, Store!NoTuple
  <2>5. Store!Init
    BY <2>2, <2>4, StoreDefs DEF AtomicInit, Init, Store!Init
  <2> QED
    BY <2>1, <2>3, <2>5
<1>2. SaverInv /\ HistoryInv /\ [AtomicNext]_<<vars, committed>> => (SaverInv /\ HistoryInv)'
  BY SaverSteps, NextHistory
<1>3. SaverInv /\ HistoryInv /\ [AtomicNext]_<<vars, committed>> => [Store!Next]_Store!vars
  BY StepRefines
<1> QED
  BY <1>1, <1>2, <1>3, PTL DEF AtomicSpec, ImplementsStore, Store!Spec
=============================================================================
