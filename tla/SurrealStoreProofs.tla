------------------------- MODULE SurrealStoreProofs -------------------------
(***************************************************************************)
(* What holds of SurrealStore for every number of threads, stores, calls,  *)
(* failures, items and operations in a batch.                              *)
(***************************************************************************)
EXTENDS SurrealStore, SequenceTheorems, WellFoundedInduction, TLAPS

-----------------------------------------------------------------------------
(* What the variables range over.  The asynchronous store, whose steps these
   lemmas are also about, has callers that are told they were cancelled. *)

Results  == (SUBSET [item: DbStoreItemId, value: Value]) \cup (SUBSET [namespace: Namespace])
Replies  == [status: Outcomes \cup {"cancelled"}, results: Seq(Results)]
Prepared == [item: DbStoreItemId, row: DbStoreItem, fields: Seq(Field)]
Expiries == [item: DbStoreItemId, at: Nat]
Answers  == [installed: {None, TRUE}, indexed: BOOLEAN \cup {None}, search: BOOLEAN \cup {None}]

\* The database, and the threads with their stores.
DbTypes ==
    /\ schema \subseteq {"store", "index"}
    /\ items \in ItemsTable
    /\ vectors \in VectorsTable
    /\ now \in 0 .. MaxTime

ThreadTypes ==
    /\ lock \in [Store -> Client \cup {Free}]
    /\ is_setup \in [Store -> BOOLEAN]
    /\ cached \in [Store -> Answers]
    /\ pc \in [Client -> Labels]
    /\ call \in [Client -> Calls \cup {NoCall}]
    /\ todo \in [Client -> SUBSET Nat]
    /\ due \in [Client -> SUBSET Expiries]
    /\ ready \in [Client -> Seq(Prepared)]
    /\ gone \in [Client -> SUBSET DbStoreItemId]
    /\ result \in [Client -> Seq(Results)]
    /\ reply \in [Client -> Replies]
    /\ made \in [Client -> 0 .. MaxCalls]
    /\ failures \in 0 .. MaxFailures

\* TypeOK is the two together, with no cancellation.
LEMMA TypesSplit == TypeOK <=> /\ DbTypes /\ ThreadTypes
                               /\ \A c \in Client : reply[c].status \in Outcomes
<1>1. ASSUME reply \in [Client -> Replies], \A c \in Client : reply[c].status \in Outcomes
      PROVE  reply \in [Client -> [status: Outcomes, results: Seq(Results)]]
  <2>1. \A c \in Client : reply[c] \in [status: Outcomes, results: Seq(Results)]
    BY <1>1 DEF Replies
  <2> QED
    BY <1>1, <2>1
<1>2. ASSUME reply \in [Client -> [status: Outcomes, results: Seq(Results)]]
      PROVE  /\ reply \in [Client -> Replies]
             /\ \A c \in Client : reply[c].status \in Outcomes
  BY <1>2 DEF Replies
<1> QED
  BY <1>1, <1>2 DEF TypeOK, DbTypes, ThreadTypes, Results, Prepared, Expiries, Answers

\* Where a thread is in its call says which call it is making, and what the next
\* step takes from its locals is there.
Working ==
    {"work", "refresh", "delete_vectors", "delete_item", "store", "clear_vectors",
     "store_vector"}

PcOK(c) ==
    /\ pc[c] # "idle" => call[c] \in Calls
    /\ pc[c] \in {"ensure", "lock"} => call[c].op \in {"batch", "sweep"}
    /\ pc[c] \in {"probe_lock", "probe_store", "probe_vectors"} => call[c].op # "setup"
    /\ pc[c] \in Working => call[c].op = "batch" /\ todo[c] \subseteq Effective(Ops(c))
    /\ pc[c] \in {"sweep", "sweep_vectors"} => call[c].op = "sweep"
    /\ pc[c] \in {"store", "clear_vectors", "store_vector"} => ready[c] # <<>>
    /\ pc[c] = "store_vector" => Head(ready[c]).fields # <<>>

PcInv == \A c \in Client : PcOK(c)

TypeInv == DbTypes /\ ThreadTypes /\ PcInv

-----------------------------------------------------------------------------
(* Calls and operations *)

\* A call carries a batch or nothing.
LEMMA CallShape ==
    ASSUME NEW m \in Calls
    PROVE  /\ m.op \in {"batch", "setup", "probe", "sweep"}
           /\ m.op = "batch" => m.ops \in Seq(Op)
BY CallsAssumption DEF CallType, Batch

\* An operation has the fields of its kind.
LEMMA OpShape ==
    ASSUME NEW o \in Op
    PROVE  /\ o.op \in {"get", "search", "list_namespaces", "put"}
           /\ o.op = "get" => o \in GetOp
           /\ o.op = "search" => o \in SearchOp
           /\ o.op = "put" => o \in PutOp
BY DEF Op, GetOp, SearchOp, ListNamespacesOp, PutOp

\* The batch under way, and its operations.
LEMMA BatchShape ==
    ASSUME TypeInv, NEW c \in Client, pc[c] \in Working
    PROVE  /\ call[c].op = "batch"
           /\ Ops(c) \in Seq(Op)
           /\ todo[c] \subseteq Effective(Ops(c))
           /\ Effective(Ops(c)) \subseteq 1 .. Len(Ops(c))
           /\ \A i \in todo[c] : i \in 1 .. Len(Ops(c)) /\ Ops(c)[i] \in Op
<1>1. call[c] \in Calls /\ call[c].op = "batch" /\ todo[c] \subseteq Effective(Ops(c))
  BY DEF TypeInv, PcInv, PcOK, Working
<1>2. Ops(c) \in Seq(Op)
  BY <1>1, CallShape DEF Ops
<1>3. Effective(Ops(c)) \subseteq 1 .. Len(Ops(c))
  BY <1>2 DEF Effective
<1>4. \A i \in 1 .. Len(Ops(c)) : Ops(c)[i] \in Op
  BY <1>2
<1> QED
  BY <1>1, <1>2, <1>3, <1>4

-----------------------------------------------------------------------------
(* The queries keep the tables' types. *)

\* Storing a row.
LEMMA UpsertType ==
    ASSUME NEW T \in ItemsTable, NEW k \in DbStoreItemId, NEW r \in DbStoreItem
    PROVE  Upsert(T, k, r) \in ItemsTable
BY DEF Upsert, ItemsTable

\* Deleting a row, or rows.
LEMMA DeleteType ==
    ASSUME NEW T \in ItemsTable, NEW k, NEW ks
    PROVE  Delete(T, k) \in ItemsTable /\ DeleteAll(T, ks) \in ItemsTable
BY DEF Delete, DeleteAll, ItemsTable

\* Moving the expiry of a row that is there.
LEMMA UpdateExpiryType ==
    ASSUME NEW T \in ItemsTable, NEW k \in DbStoreItemId, T[k] # NoRow, NEW at \in Nat
    PROVE  UpdateExpiry(T, k, at) \in ItemsTable
<1>1. T[k] \in DbStoreItem
  BY DEF ItemsTable
<1>2. [T[k] EXCEPT !.expires_at = at] \in DbStoreItem
  BY <1>1 DEF DbStoreItem
<1> QED
  BY <1>2 DEF UpdateExpiry, ItemsTable

\* Storing and deleting vectors.
LEMMA VectorsType ==
    ASSUME NEW T \in VectorsTable, NEW k, NEW f, NEW v \in Value
    PROVE  UpsertVector(T, k, f, v) \in VectorsTable /\ DeleteByItem(T, k) \in VectorsTable
<1>1. DeleteByItem(T, k) \in VectorsTable
  BY DEF DeleteByItem, VectorsTable, NoVectors
<1>2. UpsertVector(T, k, f, v) \in VectorsTable
  <2>1. \A j \in DbStoreItemId : [T[j] EXCEPT ![f] = v] \in [Field -> Value \cup {NoRow}]
    BY DEF VectorsTable
  <2> QED
    BY <2>1 DEF UpsertVector, VectorsTable
<1> QED
  BY <1>1, <1>2

\* The row made from a put that stores a value: it expires with its time to live.
LEMMA NewRowType ==
    ASSUME NEW o \in PutOp, ~ Removes(o), NEW t \in Nat
    PROVE  /\ NewRow(o, t) \in DbStoreItem
           /\ NewRow(o, t).value = o.value /\ NewRow(o, t).ttl = o.ttl
           /\ NewRow(o, t).expires_at = ExpiresAt(t, o.ttl)
<1>1. o.value \in Value /\ o.ttl \in Duration \cup {None}
  BY DEF PutOp, Removes
<1>2. ExpiresAt(t, o.ttl) \in Nat \cup {None}
  <2>1. CASE o.ttl = None
    BY <2>1 DEF ExpiresAt
  <2>2. CASE o.ttl # None
    <3>1. o.ttl \in Nat
      BY <1>1, <2>2, DurationAssumption
    <3> QED
      BY <2>2, <3>1 DEF ExpiresAt
  <2> QED
    BY <2>1, <2>2
<1> QED
  BY <1>1, <1>2 DEF NewRow, DbStoreItem

\* A present row, read.
LEMMA ItemType ==
    ASSUME NEW T \in ItemsTable, NEW k \in Rows(T)
    PROVE  Item(T, k) \in [item: DbStoreItemId, value: Value]
BY DEF Item, Rows, ItemsTable, DbStoreItem

\* Expiries to write are for rows that are there.
LEMMA RefreshesType ==
    ASSUME DbTypes, NEW keys \in SUBSET Rows(items)
    PROVE  Refreshes(keys) \subseteq Expiries
<1>1. \A k \in keys : k \in DbStoreItemId /\ items[k] \in DbStoreItem
  BY DEF DbTypes, ItemsTable, Rows
<1>2. \A k \in keys : items[k].ttl # None => now + items[k].ttl \in Nat
  <2>1. \A k \in keys : items[k].ttl # None => items[k].ttl \in Nat
    BY <1>1, DurationAssumption DEF DbStoreItem
  <2>2. now \in Nat
    BY BoundsAssumption DEF DbTypes
  <2> QED
    BY <2>1, <2>2
<1> QED
  BY <1>1, <1>2 DEF Refreshes, Expiries

\* Replacing an element of a sequence, if it has it.
LEMMA SeqExcept ==
    ASSUME NEW S, NEW s \in Seq(S), NEW i, NEW e \in S
    PROVE  [s EXCEPT ![i] = e] \in Seq(S)
<1>1. CASE i \in 1 .. Len(s)
  BY <1>1, ExceptSeq
<1>2. CASE i \notin 1 .. Len(s)
  <2>1. s \in [1 .. Len(s) -> S]
    BY LenProperties
  <2>2. [s EXCEPT ![i] = e] = s
    BY <1>2, <2>1
  <2> QED
    BY <2>2
<1> QED
  BY <1>1, <1>2

\* Reporting the result of an operation.
LEMMA ReportType ==
    ASSUME result \in [Client -> Seq(Results)], NEW c \in Client, NEW i, NEW r \in Results,
           Report(c, i, r)
    PROVE  /\ result' \in [Client -> Seq(Results)]
           /\ \A d \in Client \ {c} : result'[d] = result[d]
           /\ result'[c] = [result[c] EXCEPT ![i] = r]
<1>1. [result[c] EXCEPT ![i] = r] \in Seq(Results)
  BY SeqExcept
<1> QED
  BY <1>1 DEF Report

-----------------------------------------------------------------------------
(* The ways a step ends *)

ThreadInv == ThreadTypes /\ PcInv

\* An outcome without results is a reply.
LEMMA OutcomeType ==
    ASSUME NEW how \in Outcomes
    PROVE  Outcome(how) \in Replies
BY DEF Outcome, Replies

\* A call that ends has no locals, and touches nobody else's.
LEMMA EndType ==
    ASSUME ThreadTypes, NEW c \in Client, NEW r \in Replies, End(c, r)
    PROVE  /\ pc' \in [Client -> Labels] /\ reply' \in [Client -> Replies]
           /\ todo' \in [Client -> SUBSET Nat] /\ due' \in [Client -> SUBSET Expiries]
           /\ ready' \in [Client -> Seq(Prepared)]
           /\ gone' \in [Client -> SUBSET DbStoreItemId]
           /\ result' \in [Client -> Seq(Results)]
           /\ pc'[c] = "idle"
           /\ \A d \in Client \ {c} :
                 pc'[d] = pc[d] /\ todo'[d] = todo[d] /\ ready'[d] = ready[d]
<1>1. pc' \in [Client -> Labels] /\ reply' \in [Client -> Replies] /\ pc'[c] = "idle"
  BY DEF ThreadTypes, End, Goto, Labels
<1>2. /\ todo' \in [Client -> SUBSET Nat] /\ due' \in [Client -> SUBSET Expiries]
      /\ gone' \in [Client -> SUBSET DbStoreItemId]
  BY DEF ThreadTypes, End
<1>3. ready' \in [Client -> Seq(Prepared)] /\ result' \in [Client -> Seq(Results)]
  BY DEF ThreadTypes, End
<1>4. \A d \in Client \ {c} : pc'[d] = pc[d] /\ todo'[d] = todo[d] /\ ready'[d] = ready[d]
  BY DEF ThreadTypes, End, Goto
<1> QED
  BY <1>1, <1>2, <1>3, <1>4

\* A call that ends and gives the lock back, or leaves it alone.
LEMMA EndKeeps ==
    ASSUME ThreadInv, NEW c \in Client, NEW r \in Replies, End(c, r),
           lock' \in [Store -> Client \cup {Free}], is_setup' \in [Store -> BOOLEAN],
           cached' \in [Store -> Answers], UNCHANGED <<call, made>>,
           failures' \in 0 .. MaxFailures
    PROVE  ThreadInv'
<1>1. ThreadTypes'
  BY EndType DEF ThreadInv, ThreadTypes
<1>2. PcInv'
  BY EndType DEF ThreadInv, PcInv, PcOK, Ops, Working
<1> QED
  BY <1>1, <1>2 DEF ThreadInv

\* The lock given back is free.
LEMMA LeaveType ==
    ASSUME ThreadTypes, NEW c \in Client, NEW r, Leave(c, r)
    PROVE  lock' \in [Store -> Client \cup {Free}]
BY StoreOfAssumption DEF ThreadTypes, Leave, My

\* Leaving a call with no failure to count.
LEMMA LeaveKeeps ==
    ASSUME ThreadInv, NEW c \in Client, NEW r \in Replies, Leave(c, r),
           is_setup' \in [Store -> BOOLEAN], cached' \in [Store -> Answers],
           UNCHANGED <<call, made, failures>>
    PROVE  ThreadInv'
BY LeaveType, EndKeeps DEF ThreadInv, ThreadTypes, Leave

\* Raising: of the call's own accord, or because a query failed.
LEMMA RaiseKeeps ==
    ASSUME ThreadInv, NEW c \in Client, Raise(c) \/ QueryError(c)
    PROVE  ThreadInv'
<1>1. Outcome("raised") \in Replies
  BY OutcomeType DEF Outcomes
<1>2. Leave(c, Outcome("raised")) /\ UNCHANGED <<is_setup, cached, call, made>>
  BY DEF Raise, QueryError
<1>3. failures' \in 0 .. MaxFailures
  BY BoundsAssumption DEF Raise, QueryError, ThreadInv, ThreadTypes
<1> QED
  BY <1>1, <1>2, <1>3, LeaveType, EndKeeps DEF ThreadInv, ThreadTypes, Leave

\* Going on: what the thread's new locals have to be.
LEMMA GoOnKeeps ==
    ASSUME ThreadInv, NEW c \in Client, NEW l \in Labels, GoOn(c, l),
           cached' \in [Store -> Answers],
           todo' \in [Client -> SUBSET Nat], due' \in [Client -> SUBSET Expiries],
           ready' \in [Client -> Seq(Prepared)], gone' \in [Client -> SUBSET DbStoreItemId],
           result' \in [Client -> Seq(Results)],
           \A d \in Client \ {c} : todo'[d] = todo[d] /\ ready'[d] = ready[d],
           pc[c] # "idle",
           l \in {"probe_vectors"} => call[c].op # "setup",
           l \in Working => pc[c] \in Working /\ todo'[c] \subseteq todo[c],
           l \in {"sweep", "sweep_vectors"} => call[c].op = "sweep",
           l \in {"store", "clear_vectors", "store_vector"} => ready'[c] # <<>>,
           l = "store_vector" => Head(ready'[c]).fields # <<>>,
           l \notin {"ensure", "lock", "probe_lock", "probe_store"}
    PROVE  ThreadInv'
<1>1. pc' \in [Client -> Labels] /\ pc'[c] = l /\ \A d \in Client \ {c} : pc'[d] = pc[d]
  BY DEF ThreadInv, ThreadTypes, GoOn, Goto
<1>2. UNCHANGED <<lock, is_setup, call, reply, made, failures>>
  BY DEF GoOn
<1>3. ThreadTypes'
  BY <1>1, <1>2 DEF ThreadInv, ThreadTypes
<1>4. PcOK(c)'
  BY <1>1, <1>2 DEF ThreadInv, PcInv, PcOK, Ops
<1>5. \A d \in Client \ {c} : PcOK(d)'
  BY <1>1, <1>2 DEF ThreadInv, PcInv, PcOK, Ops
<1> QED
  BY <1>3, <1>4, <1>5 DEF ThreadInv, PcInv

-----------------------------------------------------------------------------
(* Type correctness, step by step *)

\* The type invariant in its parts, before a step and after it.
LEMMA InvSplit ==
    /\ TypeInv <=> DbTypes /\ ThreadInv
    /\ TypeInv' <=> DbTypes' /\ ThreadInv'
BY DEF TypeInv, ThreadInv

\* The type invariant holds of a database without items and new stores.
LEMMA InitType == Init => TypeInv
<1> SUFFICES ASSUME Init PROVE TypeInv
  OBVIOUS
<1>1. DbTypes
  BY BoundsAssumption
     DEF Init, DbTypes, ItemsTable, VectorsTable, EmptyItems, EmptyVectors, NoVectors
<1>2. NoReply \in Replies
  BY DEF NoReply, Outcome, Replies, Outcomes
<1>3. ThreadTypes
  BY <1>2, BoundsAssumption DEF Init, ThreadTypes, Labels, Answers
<1>4. PcInv
  BY DEF Init, PcInv, PcOK, Working
<1> QED
  BY <1>1, <1>3, <1>4, InvSplit DEF ThreadInv

\* Beginning a call keeps the type invariant.
LEMMA InvokeType ==
    ASSUME TypeInv, NEW c \in Client, Invoke(c)
    PROVE  TypeInv'
<1>1. PICK m \in Calls : Begin(c, m)
  BY DEF Invoke
<1>2. NoReply \in Replies
  BY DEF NoReply, Outcome, Replies, Outcomes
<1>3. DbTypes /\ ThreadInv
  BY InvSplit
<1>4. DbTypes'
  BY <1>1, <1>3 DEF DbTypes, Begin, db
<1>5. made' \in [Client -> 0 .. MaxCalls]
  BY <1>1, <1>3, BoundsAssumption DEF ThreadInv, ThreadTypes, Begin
<1>6. ThreadTypes'
  BY <1>1, <1>2, <1>3, <1>5 DEF ThreadInv, ThreadTypes, Begin, Goto, Labels, locals
<1>7. PcInv'
  BY <1>1, <1>3, CallShape
     DEF ThreadInv, ThreadTypes, PcInv, PcOK, Begin, Goto, Ops, Working, locals
<1> QED
  BY <1>4, <1>6, <1>7, InvSplit DEF ThreadInv

\* _ensure_ready keeps the type invariant.
LEMMA ReadyType ==
    ASSUME TypeInv, NEW c \in Client, EnsureReady(c)
    PROVE  TypeInv'
<1>1. DbTypes /\ ThreadInv
  BY InvSplit
<1>2. DbTypes'
  BY <1>1 DEF DbTypes, EnsureReady, db
<1>3. ThreadTypes'
  BY <1>1 DEF ThreadInv, ThreadTypes, EnsureReady, Goto, Labels, locals
<1>4. PcInv'
  BY <1>1 DEF ThreadInv, ThreadTypes, PcInv, PcOK, EnsureReady, Goto, Ops, Working, locals
<1> QED
  BY <1>2, <1>3, <1>4, InvSplit DEF ThreadInv

\* Taking the lock for a set-up or a probe.
LEMMA AcquireType ==
    ASSUME ThreadInv, NEW c \in Client, NEW l \in {"setup_store", "probe_store"},
           Acquire(c, l), UNCHANGED <<is_setup, cached, call, made, failures>>,
           pc[c] # "idle", l = "probe_store" => call[c].op # "setup"
    PROVE  ThreadInv'
<1>1. ThreadTypes'
  BY StoreOfAssumption
     DEF ThreadInv, ThreadTypes, Acquire, Goto, Labels, Critical, locals, My
<1>2. PcInv'
  BY DEF ThreadInv, ThreadTypes, PcInv, PcOK, Acquire, Goto, Ops, Working, locals
<1> QED
  BY <1>1, <1>2 DEF ThreadInv

\* The steps of setup() keep the type invariant.
LEMMA SetupType ==
    ASSUME TypeInv, NEW c \in Client, SetupLock(c) \/ SetupStore(c) \/ SetupVectors(c)
    PROVE  TypeInv'
<1>1. DbTypes /\ ThreadInv
  BY InvSplit
<1>2. DbTypes'
  BY <1>1 DEF SetupLock, SetupStore, SetupVectors, DbTypes, db
<1>3. Outcome("ok") \in Replies
  BY OutcomeType DEF Outcomes
<1>4. ASSUME SetUp(c) PROVE ThreadInv'
  <2>1. is_setup' \in [Store -> BOOLEAN]
    BY <1>1, <1>4 DEF SetUp, ThreadInv, ThreadTypes
  <2> QED
    BY <1>1, <1>3, <1>4, <2>1, LeaveKeeps DEF SetUp, ThreadInv, ThreadTypes
<1>5. CASE SetupLock(c)
  <2>1. ASSUME is_setup[My(c)] PROVE ThreadInv'
    BY <1>1, <1>3, <1>5, <2>1, LeaveKeeps DEF SetupLock, ThreadInv, ThreadTypes
  <2>2. ASSUME ~ is_setup[My(c)] PROVE ThreadInv'
    BY <1>1, <1>5, <2>2, AcquireType DEF SetupLock
  <2> QED
    BY <1>2, <2>1, <2>2, InvSplit
<1>6. CASE SetupStore(c)
  <2>1. CASE QueryError(c)
    BY <1>1, <1>2, <2>1, RaiseKeeps, InvSplit
  <2>2. CASE SetUp(c)
    BY <1>2, <1>4, <2>2, InvSplit
  <2>3. CASE GoOn(c, "setup_vectors") /\ UNCHANGED <<cached, locals>>
    <3>1. pc[c] # "idle" /\ "setup_vectors" \in Labels
      BY <1>6 DEF SetupStore, Labels, Critical
    <3>2. ThreadInv'
      BY <1>1, <2>3, <3>1, GoOnKeeps DEF ThreadInv, ThreadTypes, locals, Working
    <3> QED
      BY <1>2, <3>2, InvSplit
  <2> QED
    BY <1>6, <2>1, <2>2, <2>3 DEF SetupStore
<1>7. CASE SetupVectors(c)
  <2>1. ThreadInv'
    BY <1>1, <1>4, <1>7, RaiseKeeps DEF SetupVectors
  <2> QED
    BY <1>2, <2>1, InvSplit
<1> QED
  BY <1>5, <1>6, <1>7

\* The two ways on from a successful probe.
LEMMA ProbedType ==
    ASSUME ThreadInv, NEW c \in Client, Probed(c),
           pc[c] \in {"probe_lock", "probe_store", "probe_vectors"},
           is_setup' \in [Store -> BOOLEAN], cached' \in [Store -> Answers],
           UNCHANGED <<call, made, failures>>
    PROVE  ThreadInv'
<1>1. CASE call[c].op = "probe"
  <2>1. Outcome("ok") \in Replies
    BY OutcomeType DEF Outcomes
  <2> QED
    BY <1>1, <2>1, LeaveKeeps DEF Probed
<1>2. CASE call[c].op # "probe"
  <2>1. ThreadTypes'
    BY <1>2, StoreOfAssumption
       DEF Probed, ThreadInv, ThreadTypes, Goto, Labels, locals, My
  <2>2. call[c].op \in {"batch", "sweep"}
    BY <1>2, CallShape DEF ThreadInv, PcInv, PcOK
  <2>3. PcInv'
    BY <1>2, <2>2 DEF Probed, ThreadInv, ThreadTypes, PcInv, PcOK, Goto, Ops, Working, locals
  <2> QED
    BY <2>1, <2>3 DEF ThreadInv
<1> QED
  BY <1>1, <1>2

\* The steps of probe() keep the type invariant.
LEMMA ProbeType ==
    ASSUME TypeInv, NEW c \in Client, ProbeLock(c) \/ ProbeStore(c) \/ ProbeVectors(c)
    PROVE  TypeInv'
<1>1. DbTypes /\ ThreadInv
  BY InvSplit
<1>2. DbTypes'
  BY <1>1 DEF ProbeLock, ProbeStore, ProbeVectors, DbTypes, db
<1>3. My(c) \in Store /\ cached[My(c)] \in Answers
  BY <1>1, StoreOfAssumption DEF ThreadInv, ThreadTypes, My
<1>4. ASSUME Ready(c), pc[c] \in {"probe_store", "probe_vectors"}, cached' \in [Store -> Answers]
      PROVE  ThreadInv'
  BY <1>1, <1>4, ProbedType DEF Ready, ThreadInv, ThreadTypes
<1>5. CASE ProbeLock(c)
  <2>1. ASSUME is_setup[My(c)] PROVE ThreadInv'
    BY <1>1, <1>5, <2>1, ProbedType DEF ProbeLock, ThreadInv, ThreadTypes
  <2>2. ASSUME ~ is_setup[My(c)] PROVE ThreadInv'
    <3>1. call[c].op # "setup" /\ pc[c] # "idle"
      BY <1>1, <1>5 DEF ProbeLock, ThreadInv, PcInv, PcOK
    <3> QED
      BY <1>1, <1>5, <2>2, <3>1, AcquireType DEF ProbeLock
  <2> QED
    BY <1>2, <2>1, <2>2, InvSplit
<1>6. CASE ProbeStore(c)
  <2>1. CASE QueryError(c) \/ Raise(c)
    BY <1>1, <1>2, <2>1, RaiseKeeps, InvSplit
  <2>2. CASE ~ (QueryError(c) \/ Raise(c))
    <3>1. [cached[My(c)] EXCEPT !.installed = TRUE] \in Answers
      BY <1>3 DEF Answers
    <3>2. cached' \in [Store -> Answers]
      BY <1>1, <1>6, <2>2, <3>1 DEF ProbeStore, ThreadInv, ThreadTypes
    <3>3. ASSUME Ready(c) PROVE ThreadInv'
      BY <1>4, <1>6, <3>2, <3>3 DEF ProbeStore
    <3>4. ASSUME GoOn(c, "probe_vectors"), UNCHANGED locals PROVE ThreadInv'
      <4>1. pc[c] # "idle" /\ call[c].op # "setup" /\ "probe_vectors" \in Labels
        BY <1>1, <1>6 DEF ProbeStore, ThreadInv, PcInv, PcOK, Labels, Critical
      <4> QED
        BY <1>1, <3>2, <3>4, <4>1, GoOnKeeps DEF ThreadInv, ThreadTypes, locals, Working
    <3>5. ThreadInv'
      BY <1>6, <2>2, <3>3, <3>4 DEF ProbeStore
    <3> QED
      BY <1>2, <3>5, InvSplit
  <2> QED
    BY <2>1, <2>2
<1>7. CASE ProbeVectors(c)
  <2>1. CASE QueryError(c)
    BY <1>1, <1>2, <2>1, RaiseKeeps, InvSplit
  <2>2. CASE ~ QueryError(c)
    <3> DEFINE enabled == IF cached[My(c)].indexed # None THEN cached[My(c)].indexed
                          ELSE "index" \in schema
    <3>1. enabled \in BOOLEAN \cup {None}
      <4>1. cached[My(c)].indexed \in BOOLEAN \cup {None}
        BY <1>3 DEF Answers
      <4>2. ("index" \in schema) \in BOOLEAN
        OBVIOUS
      <4> QED
        BY <4>1, <4>2
    <3>2. [cached[My(c)] EXCEPT !.indexed = enabled] \in Answers
      BY <1>3, <3>1 DEF Answers
    <3>3. /\ cached' = [cached EXCEPT ![My(c)].indexed = enabled]
          /\ \/ Ready(c)
             \/ /\ Leave(c, Outcome("raised"))
                /\ UNCHANGED <<is_setup, call, made, failures>>
      BY <1>7, <2>2 DEF ProbeVectors
    <3>4. cached' \in [Store -> Answers]
      BY <1>1, <3>2, <3>3 DEF ThreadInv, ThreadTypes
    <3>5. Outcome("raised") \in Replies
      BY OutcomeType DEF Outcomes
    <3>6. pc[c] = "probe_vectors"
      BY <1>7 DEF ProbeVectors
    <3>7. ThreadInv'
      BY <1>1, <1>4, <3>3, <3>4, <3>5, <3>6, LeaveKeeps DEF ThreadInv, ThreadTypes
    <3> QED
      BY <1>2, <3>7, InvSplit
  <2> QED
    BY <2>1, <2>2
<1> QED
  BY <1>5, <1>6, <1>7

\* Taking the lock, and starting work under it.
LEMMA LockType ==
    ASSUME TypeInv, NEW c \in Client, Lock(c)
    PROVE  TypeInv'
<1>1. DbTypes /\ ThreadInv
  BY InvSplit
<1>2. DbTypes'
  BY <1>1 DEF Lock, StartWork, DbTypes, db
<1>3. call[c] \in Calls /\ call[c].op \in {"batch", "sweep"}
  BY <1>1 DEF Lock, ThreadInv, PcInv, PcOK
<1>4. lock' \in [Store -> Client \cup {Free}]
  BY <1>1, StoreOfAssumption DEF Lock, ThreadInv, ThreadTypes, My
<1>5. CASE call[c].op = "sweep"
  <2>1. ThreadTypes'
    BY <1>1, <1>4, <1>5 DEF Lock, StartWork, ThreadInv, ThreadTypes, Goto, Labels, Critical,
                            DataQuery
  <2>2. PcInv'
    BY <1>1, <1>5 DEF Lock, StartWork, ThreadInv, ThreadTypes, PcInv, PcOK, Goto, Ops, Working
  <2> QED
    BY <1>2, <2>1, <2>2, InvSplit DEF ThreadInv
<1>6. CASE call[c].op = "batch"
  <2>1. Ops(c) \in Seq(Op)
    BY <1>3, <1>6, CallShape DEF Ops
  <2>2. Effective(Ops(c)) \subseteq Nat
    BY <2>1 DEF Effective
  <2>3. [i \in DOMAIN Ops(c) |-> {}] \in Seq(Results)
    <3>1. DOMAIN Ops(c) = 1 .. Len(Ops(c)) /\ Len(Ops(c)) \in Nat
      BY <2>1
    <3>2. {} \in Results
      BY DEF Results
    <3> QED
      BY <3>1, <3>2
  <2>4. ThreadTypes'
    BY <1>1, <1>4, <1>6, <2>2, <2>3
       DEF Lock, StartWork, ThreadInv, ThreadTypes, Goto, Labels, Critical, DataQuery
  <2>5. PcInv'
    BY <1>1, <1>3, <1>6
       DEF Lock, StartWork, ThreadInv, ThreadTypes, PcInv, PcOK, Goto, Ops, Working
  <2> QED
    BY <1>2, <2>4, <2>5, InvSplit DEF ThreadInv
<1> QED
  BY <1>3, <1>5, <1>6

\* The steps that look items up, list namespaces, or are refused a search keep the
\* type invariant.
LEMMA ReadType ==
    ASSUME TypeInv, NEW c \in Client,
           \/ GetItem(c) \/ Refresh(c) \/ AskIndex(c) \/ SearchItems(c) \/ SearchRefused(c)
           \/ ListNamespaces(c)
    PROVE  TypeInv'
<1>1. DbTypes /\ ThreadInv
  BY InvSplit
<1>2. ASSUME pc[c] \in Working, NEW l \in {"work", "refresh"}, GoOn(c, l),
             UNCHANGED <<cached, ready, gone>>,
             todo' \in [Client -> SUBSET Nat], due' \in [Client -> SUBSET Expiries],
             result' \in [Client -> Seq(Results)],
             \A d \in Client \ {c} : todo'[d] = todo[d],
             todo'[c] \subseteq todo[c]
      PROVE  ThreadInv'
  <2>1. pc[c] # "idle" /\ l \in Labels
    BY <1>2 DEF Working, Labels, Critical, DataQuery
  <2> QED
    BY <1>1, <1>2, <2>1, GoOnKeeps DEF ThreadInv, ThreadTypes
<1>3. ASSUME NEW i, Begun(c, i)
      PROVE  /\ todo' \in [Client -> SUBSET Nat] /\ todo'[c] \subseteq todo[c]
             /\ \A d \in Client \ {c} : todo'[d] = todo[d]
  BY <1>1, <1>3 DEF Begun, ThreadInv, ThreadTypes
<1>4. ASSUME NEW keys \in SUBSET Rows(items), NEW refreshed \in BOOLEAN,
             due' = [due EXCEPT ![c] = IF refreshed THEN Refreshes(keys) ELSE {}]
      PROVE  due' \in [Client -> SUBSET Expiries]
  BY <1>1, <1>4, RefreshesType DEF ThreadInv, ThreadTypes
<1>5. \A keys \in SUBSET Rows(items) : {Item(items, k) : k \in keys} \in Results
  BY <1>1, ItemType DEF DbTypes, Results
<1>6. With(c).ttl \in BOOLEAN
  BY StoreOfAssumption, SettingsAssumption DEF With
<1>7. CASE GetItem(c)
  <2>1. CASE QueryError(c)
    BY <1>1, <1>7, <2>1, RaiseKeeps, InvSplit DEF GetItem, DbTypes, db
  <2>2. CASE ~ QueryError(c)
    <3>1. PICK i \in todo[c] :
             /\ Turn(c, i, "get")
             /\ LET found == {Ops(c)[i].item} \cap Rows(items) IN
                /\ Begun(c, i)
                /\ Report(c, i, {Item(items, k) : k \in found})
                /\ due' = [due EXCEPT ![c] = IF Ops(c)[i].refresh_ttl /\ With(c).ttl
                                             THEN Refreshes(found) ELSE {}]
                /\ GoOn(c, IF due'[c] = {} THEN "work" ELSE "refresh")
                /\ UNCHANGED <<cached, ready, gone>>
      BY <1>7, <2>2 DEF GetItem
    <3>2. pc[c] \in Working
      BY <3>1 DEF Turn, Working
    <3>3. Ops(c)[i].refresh_ttl \in BOOLEAN
      BY <3>1, <3>2, BatchShape, OpShape DEF Turn, GetOp
    <3> DEFINE found == {Ops(c)[i].item} \cap Rows(items)
    <3>4. found \in SUBSET Rows(items)
      OBVIOUS
    <3>5. result' \in [Client -> Seq(Results)]
      BY <1>1, <1>5, <3>1, <3>4, ReportType DEF ThreadInv, ThreadTypes
    <3>6. due' \in [Client -> SUBSET Expiries]
      BY <1>4, <1>6, <3>1, <3>3, <3>4
    <3>7. ThreadInv'
      BY <1>2, <1>3, <3>1, <3>2, <3>5, <3>6
    <3> QED
      BY <1>1, <1>7, <3>7, InvSplit DEF GetItem, DbTypes, db
  <2> QED
    BY <2>1, <2>2
<1>8. CASE Refresh(c)
  <2>1. PICK d \in due[c] :
          /\ pc[c] = "refresh"
          /\ \/ /\ items' = IF items[d.item] = NoRow THEN items
                            ELSE UpdateExpiry(items, d.item, d.at)
                /\ due' = [due EXCEPT ![c] = @ \ {d}]
                /\ GoOn(c, IF due'[c] = {} THEN "work" ELSE "refresh")
                /\ UNCHANGED <<cached, todo, ready, gone, result>>
             \/ items[d.item] = NoRow /\ Raise(c) /\ UNCHANGED items
             \/ /\ \/ UNCHANGED items
                   \/ items[d.item] # NoRow /\ items' = UpdateExpiry(items, d.item, d.at)
                /\ QueryError(c)
          /\ UNCHANGED <<schema, vectors, now>>
    BY <1>8 DEF Refresh
  <2>2. d.item \in DbStoreItemId /\ d.at \in Nat
    BY <1>1 DEF ThreadInv, ThreadTypes, Expiries
  <2>3. items[d.item] # NoRow => UpdateExpiry(items, d.item, d.at) \in ItemsTable
    BY <1>1, <2>2, UpdateExpiryType DEF DbTypes
  <2>4. DbTypes'
    BY <1>1, <2>1, <2>3 DEF DbTypes
  <2>5. CASE Raise(c) \/ QueryError(c)
    BY <1>1, <2>4, <2>5, RaiseKeeps, InvSplit
  <2>6. CASE ~ (Raise(c) \/ QueryError(c))
    <3>1. due' \in [Client -> SUBSET Expiries]
      BY <1>1, <2>1, <2>6 DEF ThreadInv, ThreadTypes
    <3>2. pc[c] \in Working
      BY <2>1 DEF Working
    <3>3. ThreadInv'
      BY <1>1, <1>2, <2>1, <2>6, <3>1, <3>2 DEF ThreadInv, ThreadTypes
    <3> QED
      BY <2>4, <3>3, InvSplit
  <2> QED
    BY <2>5, <2>6
<1>9. CASE AskIndex(c)
  <2>1. DbTypes'
    BY <1>1, <1>9 DEF AskIndex, DbTypes, db
  <2>2. CASE QueryError(c)
    BY <1>1, <2>1, <2>2, RaiseKeeps, InvSplit
  <2>3. CASE ~ QueryError(c)
    <3>1. /\ cached' = [cached EXCEPT ![My(c)].search = "index" \in schema]
          /\ GoOn(c, "work") /\ UNCHANGED locals /\ pc[c] = "work"
      BY <1>9, <2>3 DEF AskIndex, Turn
    <3>2. My(c) \in Store
      BY StoreOfAssumption DEF My
    <3>3. [cached[My(c)] EXCEPT !.search = "index" \in schema] \in Answers
      <4>1. cached[My(c)] \in Answers
        BY <1>1, <3>2 DEF ThreadInv, ThreadTypes
      <4>2. ("index" \in schema) \in BOOLEAN
        OBVIOUS
      <4> QED
        BY <4>1, <4>2 DEF Answers
    <3>4. cached' \in [Store -> Answers]
      BY <1>1, <3>1, <3>3 DEF ThreadInv, ThreadTypes
    <3>5. "work" \in Working /\ "work" \in Labels
      BY DEF Working, Labels, Critical, DataQuery
    <3>6. ThreadInv'
      BY <1>1, <3>1, <3>4, <3>5, GoOnKeeps DEF ThreadInv, ThreadTypes, locals
    <3> QED
      BY <2>1, <3>6, InvSplit
  <2> QED
    BY <2>2, <2>3
<1>10. CASE SearchItems(c)
  <2>1. DbTypes'
    BY <1>1, <1>10 DEF SearchItems, DbTypes, db
  <2>2. CASE QueryError(c) \/ Raise(c)
    BY <1>1, <2>1, <2>2, RaiseKeeps, InvSplit
  <2>3. CASE ~ (QueryError(c) \/ Raise(c))
    <3>1. PICK i \in todo[c], hits \in SUBSET Rows(items) :
             /\ Turn(c, i, "search")
             /\ Begun(c, i)
             /\ Report(c, i, {Item(items, k) : k \in hits})
             /\ due' = [due EXCEPT ![c] = IF Ops(c)[i].refresh_ttl /\ With(c).ttl
                                          THEN Refreshes(hits) ELSE {}]
             /\ GoOn(c, IF due'[c] = {} THEN "work" ELSE "refresh")
             /\ UNCHANGED <<cached, ready, gone>>
      BY <1>10, <2>3 DEF SearchItems
    <3>2. pc[c] \in Working
      BY <3>1 DEF Turn, Working
    <3>3. Ops(c)[i].refresh_ttl \in BOOLEAN
      BY <3>1, <3>2, BatchShape, OpShape DEF Turn, SearchOp
    <3>4. result' \in [Client -> Seq(Results)]
      BY <1>1, <1>5, <3>1, ReportType DEF ThreadInv, ThreadTypes
    <3>5. due' \in [Client -> SUBSET Expiries]
      BY <1>4, <1>6, <3>1, <3>3
    <3>6. ThreadInv'
      BY <1>2, <1>3, <3>1, <3>2, <3>4, <3>5
    <3> QED
      BY <2>1, <3>6, InvSplit
  <2> QED
    BY <2>2, <2>3
<1>11. CASE SearchRefused(c)
  BY <1>1, <1>11, RaiseKeeps, InvSplit DEF SearchRefused, DbTypes, db
<1>12. CASE ListNamespaces(c)
  <2>1. DbTypes'
    BY <1>1, <1>12 DEF ListNamespaces, DbTypes, db
  <2>2. CASE QueryError(c)
    BY <1>1, <2>1, <2>2, RaiseKeeps, InvSplit
  <2>3. CASE ~ QueryError(c)
    <3> DEFINE listings == {i \in todo[c] : Ops(c)[i].op = "list_namespaces"}
    <3>1. /\ todo' = [todo EXCEPT ![c] = @ \ listings]
          /\ result' = [result EXCEPT ![c] = [i \in DOMAIN @ |->
                           IF i \in listings THEN Namespaces(items) ELSE @[i]]]
          /\ GoOn(c, "work")
          /\ UNCHANGED <<cached, due, ready, gone>>
          /\ pc[c] = "work"
      BY <1>12, <2>3 DEF ListNamespaces, Turn
    <3>2. Namespaces(items) \in Results
      <4>1. \A k \in Rows(items) : k.namespace \in Namespace
        BY DEF Rows, DbStoreItemId
      <4>2. Namespaces(items) \subseteq [namespace: Namespace]
        BY <4>1 DEF Namespaces
      <4> QED
        BY <4>2 DEF Results
    <3>3. [i \in DOMAIN result[c] |-> IF i \in listings THEN Namespaces(items) ELSE result[c][i]]
            \in Seq(Results)
      <4>1. result[c] \in Seq(Results)
        BY <1>1 DEF ThreadInv, ThreadTypes
      <4>2. DOMAIN result[c] = 1 .. Len(result[c]) /\ Len(result[c]) \in Nat
        BY <4>1
      <4>3. \A i \in DOMAIN result[c] : result[c][i] \in Results
        BY <4>1, <4>2
      <4> HIDE DEF listings
      <4> QED
        BY <3>2, <4>2, <4>3
    <3>4. result' \in [Client -> Seq(Results)]
      BY <1>1, <3>1, <3>3 DEF ThreadInv, ThreadTypes
    <3>5. todo' \in [Client -> SUBSET Nat] /\ todo'[c] \subseteq todo[c]
      BY <1>1, <3>1 DEF ThreadInv, ThreadTypes
    <3>6. \A d \in Client \ {c} : todo'[d] = todo[d]
      BY <1>1, <3>1 DEF ThreadInv, ThreadTypes
    <3>7. pc[c] \in Working
      BY <3>1 DEF Working
    <3>8. ThreadInv'
      BY <1>1, <1>2, <3>1, <3>4, <3>5, <3>6, <3>7 DEF ThreadInv, ThreadTypes
    <3> QED
      BY <2>1, <3>8, InvSplit
  <2> QED
    BY <2>2, <2>3
<1> QED
  BY <1>7, <1>8, <1>9, <1>10, <1>11, <1>12

\* A put, prepared.
LEMMA PreparedType ==
    ASSUME NEW o \in PutOp, ~ Removes(o), NEW t \in Nat, NEW given \in BOOLEAN
    PROVE  [item |-> o.item, row |-> NewRow(o, t),
            fields |-> IF given THEN o.fields ELSE <<>>] \in Prepared
<1>1. o.item \in DbStoreItemId /\ o.fields \in Seq(Field)
  BY DEF PutOp
<1>2. NewRow(o, t) \in DbStoreItem
  BY NewRowType
<1>3. (IF given THEN o.fields ELSE <<>>) \in Seq(Field)
  BY <1>1
<1> QED
  BY <1>1, <1>2, <1>3 DEF Prepared

\* Going on with a batch from one of its steps to another, with fewer operations to
\* do and other puts prepared.
LEMMA WorkOn ==
    ASSUME ThreadInv, NEW c \in Client, NEW l \in Working, GoOn(c, l), pc[c] \in Working,
           UNCHANGED <<cached, due, gone, result>>,
           todo' \in [Client -> SUBSET Nat], todo'[c] \subseteq todo[c],
           ready' \in [Client -> Seq(Prepared)],
           \A d \in Client \ {c} : todo'[d] = todo[d] /\ ready'[d] = ready[d],
           l \in {"store", "clear_vectors", "store_vector"} => ready'[c] # <<>>,
           l = "store_vector" => Head(ready'[c]).fields # <<>>
    PROVE  ThreadInv'
<1>1. pc[c] # "idle" /\ l \in Labels
      /\ l \notin {"ensure", "lock", "probe_lock", "probe_store", "probe_vectors", "sweep",
                   "sweep_vectors"}
  BY DEF Working, Labels, Critical, DataQuery
<1> QED
  BY <1>1, GoOnKeeps DEF ThreadInv, ThreadTypes

\* The steps that prepare puts, and delete, keep the type invariant.
LEMMA PrepareType ==
    ASSUME TypeInv, NEW c \in Client,
           PreparePut(c) \/ DeleteVectors(c) \/ DeleteItem(c) \/ Embed(c)
    PROVE  TypeInv'
<1>1. DbTypes /\ ThreadInv
  BY InvSplit
<1>2. ASSUME NEW i, Begun(c, i)
      PROVE  /\ todo' \in [Client -> SUBSET Nat] /\ todo'[c] \subseteq todo[c]
             /\ \A d \in Client \ {c} : todo'[d] = todo[d]
  BY <1>1, <1>2 DEF Begun, ThreadInv, ThreadTypes
<1>3. ASSUME NEW l \in Working, GoOn(c, l), pc[c] \in Working, UNCHANGED <<cached, locals>>,
             l \in {"store", "clear_vectors", "store_vector"} => ready[c] # <<>>,
             l # "store_vector"
      PROVE  ThreadInv'
  BY <1>1, <1>3, WorkOn DEF ThreadInv, ThreadTypes, locals
<1>4. CASE PreparePut(c)
  <2>1. DbTypes'
    BY <1>1, <1>4 DEF PreparePut, DbTypes, db
  <2>2. CASE QueryError(c)
    BY <1>1, <2>1, <2>2, RaiseKeeps, InvSplit
  <2>3. CASE ~ QueryError(c)
    <3>1. PICK i \in todo[c] :
            LET op == Ops(c)[i] IN
            /\ Turn(c, i, "put")
            /\ \/ /\ ~ Removes(op)
                  /\ ready' = [ready EXCEPT ![c] = Append(@,
                         [item |-> op.item, row |-> NewRow(op, now),
                          fields |-> IF With(c).embed THEN op.fields ELSE <<>>])]
                  /\ Begun(c, i)
                  /\ GoOn(c, "work")
                  /\ UNCHANGED <<cached, due, gone, result>>
               \/ /\ Begun(c, i)
                  /\ GoOn(c, "work")
                  /\ UNCHANGED <<cached, due, ready, gone, result>>
               \/ /\ GoOn(c, IF With(c).index THEN "delete_vectors" ELSE "delete_item")
                  /\ UNCHANGED <<cached, locals>>
      BY <1>4, <2>3 DEF PreparePut
    <3> DEFINE op == Ops(c)[i]
    <3>2. pc[c] \in Working /\ {"work", "delete_vectors", "delete_item"} \subseteq Working
      BY <3>1 DEF Turn, Working
    <3>3. op \in PutOp
      BY <3>1, <3>2, BatchShape, OpShape DEF Turn
    <3>4. With(c).embed \in BOOLEAN /\ now \in Nat
      BY <1>1, StoreOfAssumption, SettingsAssumption, BoundsAssumption DEF With, DbTypes
    <3> DEFINE put == [item |-> op.item, row |-> NewRow(op, now),
                       fields |-> IF With(c).embed THEN op.fields ELSE <<>>]
    <3>5. CASE ~ Removes(op) /\ ready' = [ready EXCEPT ![c] = Append(@, put)]
               /\ Begun(c, i) /\ GoOn(c, "work") /\ UNCHANGED <<cached, due, gone, result>>
      <4>1. put \in Prepared
        BY <3>3, <3>4, <3>5, PreparedType
      <4> HIDE DEF put
      <4>2. Append(ready[c], put) \in Seq(Prepared)
        BY <1>1, <4>1 DEF ThreadInv, ThreadTypes
      <4>3. /\ ready' \in [Client -> Seq(Prepared)]
            /\ \A d \in Client \ {c} : ready'[d] = ready[d]
        BY <1>1, <3>5, <4>2 DEF ThreadInv, ThreadTypes
      <4>4. ThreadInv'
        BY <1>1, <1>2, <3>2, <3>5, <4>3, WorkOn
      <4> QED
        BY <2>1, <4>4, InvSplit
    <3>6. CASE Begun(c, i) /\ GoOn(c, "work") /\ UNCHANGED <<cached, due, ready, gone, result>>
      <4>1. ThreadInv'
        BY <1>1, <1>2, <3>2, <3>6, WorkOn DEF ThreadInv, ThreadTypes
      <4> QED
        BY <2>1, <4>1, InvSplit
    <3>7. CASE GoOn(c, IF With(c).index THEN "delete_vectors" ELSE "delete_item")
               /\ UNCHANGED <<cached, locals>>
      <4>1. ThreadInv'
        BY <1>3, <3>2, <3>7
      <4> QED
        BY <2>1, <4>1, InvSplit
    <3> QED
      BY <3>1, <3>5, <3>6, <3>7
  <2> QED
    BY <2>2, <2>3
<1>5. CASE DeleteVectors(c)
  <2>1. PICK i \in todo[c] :
          /\ pc[c] = "delete_vectors"
          /\ LET left == DeleteByItem(vectors, Ops(c)[i].item) IN
             \/ vectors' = left /\ GoOn(c, "delete_item") /\ UNCHANGED <<cached, locals>>
             \/ vectors' \in {vectors, left} /\ QueryError(c)
          /\ UNCHANGED <<schema, items, now>>
    BY <1>5 DEF DeleteVectors
  <2>2. DeleteByItem(vectors, Ops(c)[i].item) \in VectorsTable
    BY <1>1 DEF DbTypes, DeleteByItem, VectorsTable, NoVectors
  <2>3. DbTypes'
    BY <1>1, <2>1, <2>2 DEF DbTypes
  <2>4. pc[c] \in Working /\ "delete_item" \in Working
    BY <2>1 DEF Working
  <2>5. ThreadInv'
    BY <1>1, <1>3, <2>1, <2>4, RaiseKeeps
  <2> QED
    BY <2>3, <2>5, InvSplit
<1>6. CASE DeleteItem(c)
  <2>1. PICK i \in todo[c] :
          /\ pc[c] = "delete_item"
          /\ LET k == Ops(c)[i].item IN
             \/ /\ items' = Delete(items, k) /\ Begun(c, i) /\ GoOn(c, "work")
                /\ UNCHANGED <<cached, due, ready, gone, result>>
             \/ items[k] = NoRow /\ Raise(c) /\ UNCHANGED items
             \/ items' \in {items, Delete(items, k)} /\ QueryError(c)
          /\ UNCHANGED <<schema, vectors, now>>
    BY <1>6 DEF DeleteItem
  <2>2. Delete(items, Ops(c)[i].item) \in ItemsTable
    BY <1>1, DeleteType DEF DbTypes
  <2>3. DbTypes'
    BY <1>1, <2>1, <2>2 DEF DbTypes
  <2>4. pc[c] \in Working /\ "work" \in Working
    BY <2>1 DEF Working
  <2>5. CASE Raise(c) \/ QueryError(c)
    BY <1>1, <2>3, <2>5, RaiseKeeps, InvSplit
  <2>6. CASE Begun(c, i) /\ GoOn(c, "work") /\ UNCHANGED <<cached, due, ready, gone, result>>
    <3>1. ThreadInv'
      BY <1>1, <1>2, <2>4, <2>6, WorkOn DEF ThreadInv, ThreadTypes
    <3> QED
      BY <2>3, <3>1, InvSplit
  <2> QED
    BY <2>1, <2>5, <2>6
<1>7. CASE Embed(c)
  <2>1. DbTypes'
    BY <1>1, <1>7 DEF Embed, DbTypes, db
  <2>2. pc[c] \in Working /\ "store" \in Working
    BY <1>7 DEF Embed, Working
  <2>3. ThreadInv'
    BY <1>1, <1>3, <1>7, <2>2, RaiseKeeps DEF Embed
  <2> QED
    BY <2>1, <2>3, InvSplit
<1> QED
  BY <1>4, <1>5, <1>6, <1>7

\* What is being stored.
LEMMA HeadPrepared ==
    ASSUME ThreadInv, NEW c \in Client, pc[c] \in {"store", "clear_vectors", "store_vector"}
    PROVE  /\ ready[c] \in Seq(Prepared) /\ ready[c] # <<>>
           /\ Head(ready[c]) \in Prepared /\ Tail(ready[c]) \in Seq(Prepared)
<1>1. ready[c] \in Seq(Prepared) /\ ready[c] # <<>>
  BY DEF ThreadInv, ThreadTypes, PcInv, PcOK
<1> QED
  BY <1>1, HeadTailProperties

\* A put is stored.
LEMMA StoredType ==
    ASSUME ThreadInv, NEW c \in Client, Stored(c),
           pc[c] \in {"store", "clear_vectors", "store_vector"}
    PROVE  ThreadInv'
<1>1. Tail(ready[c]) \in Seq(Prepared)
  BY HeadPrepared
<1>2. /\ ready' \in [Client -> Seq(Prepared)]
      /\ \A d \in Client \ {c} : ready'[d] = ready[d]
      /\ ready'[c] = Tail(ready[c])
  BY <1>1 DEF Stored, ThreadInv, ThreadTypes
<1>3. pc[c] \in Working /\ {"work", "store"} \subseteq Working
  BY DEF Working
<1>4. CASE Tail(ready[c]) = <<>>
  BY <1>2, <1>3, <1>4, WorkOn DEF Stored, ThreadInv, ThreadTypes
<1>5. CASE Tail(ready[c]) # <<>>
  BY <1>2, <1>3, <1>5, WorkOn DEF Stored, ThreadInv, ThreadTypes
<1> QED
  BY <1>4, <1>5

\* The steps that store items and vectors keep the type invariant.
LEMMA StoreType ==
    ASSUME TypeInv, NEW c \in Client, StoreItem(c) \/ ClearVectors(c) \/ StoreVector(c)
    PROVE  TypeInv'
<1>1. DbTypes /\ ThreadInv
  BY InvSplit
<1> DEFINE put == Head(ready[c])
<1>2. /\ pc[c] \in {"store", "clear_vectors", "store_vector"}
      /\ pc[c] \in Working /\ {"clear_vectors", "store_vector"} \subseteq Working
  BY DEF StoreItem, ClearVectors, StoreVector, Working
<1>3. ready[c] \in Seq(Prepared) /\ ready[c] # <<>> /\ put \in Prepared
  BY <1>1, <1>2, HeadPrepared
<1>4. put.item \in DbStoreItemId /\ put.row \in DbStoreItem /\ put.fields \in Seq(Field)
  BY <1>3 DEF Prepared
<1>5. ASSUME NEW l \in Working, GoOn(c, l), UNCHANGED <<cached, locals>>,
             l = "store_vector" => put.fields # <<>>
      PROVE  ThreadInv'
  BY <1>1, <1>2, <1>3, <1>5, WorkOn DEF ThreadInv, ThreadTypes, locals
<1>6. CASE StoreItem(c)
  <2>1. Upsert(items, put.item, put.row) \in ItemsTable
    BY <1>1, <1>4, UpsertType DEF DbTypes
  <2>2. DbTypes'
    BY <1>1, <1>6, <2>1 DEF StoreItem, DbTypes
  <2>3. QueryError(c) \/ Stored(c) \/ (GoOn(c, "clear_vectors") /\ UNCHANGED <<cached, locals>>)
    BY <1>6 DEF StoreItem
  <2>4. ThreadInv'
    BY <1>1, <1>2, <1>5, <2>3, RaiseKeeps, StoredType
  <2> QED
    BY <2>2, <2>4, InvSplit
<1>7. CASE ClearVectors(c)
  <2>1. DeleteByItem(vectors, put.item) \in VectorsTable
    BY <1>1 DEF DbTypes, DeleteByItem, VectorsTable, NoVectors
  <2>2. DbTypes'
    BY <1>1, <1>7, <2>1 DEF ClearVectors, DbTypes
  <2>3. \/ QueryError(c) \/ Stored(c)
        \/ GoOn(c, "store_vector") /\ UNCHANGED <<cached, locals>> /\ put.fields # <<>>
    BY <1>7 DEF ClearVectors
  <2>4. ThreadInv'
    BY <1>1, <1>2, <1>5, <2>3, RaiseKeeps, StoredType
  <2> QED
    BY <2>2, <2>4, InvSplit
<1>8. CASE StoreVector(c)
  <2>1. put.row.value \in Value
    BY <1>4 DEF DbStoreItem
  <2>2. UpsertVector(vectors, put.item, Head(put.fields), put.row.value) \in VectorsTable
    BY <1>1, <2>1, VectorsType DEF DbTypes
  <2>3. DbTypes'
    BY <1>1, <1>8, <2>2 DEF StoreVector, DbTypes
  <2>4. CASE QueryError(c) \/ Stored(c)
    BY <1>1, <1>2, <2>3, <2>4, RaiseKeeps, StoredType, InvSplit
  <2>5. CASE ~ (QueryError(c) \/ Stored(c))
    <3>1. /\ Tail(put.fields) # <<>>
          /\ ready' = [ready EXCEPT ![c][1].fields = Tail(@)]
          /\ GoOn(c, "store_vector")
          /\ UNCHANGED <<cached, todo, due, gone, result>>
      BY <1>8, <2>5 DEF StoreVector
    <3>2. put.fields # <<>> /\ put = ready[c][1]
      BY <1>1, <1>3, <1>8, HeadTailProperties DEF StoreVector, ThreadInv, PcInv, PcOK
    <3>3. Tail(put.fields) \in Seq(Field)
      BY <1>4, <3>2, HeadTailProperties
    <3> DEFINE rest == [put EXCEPT !.fields = Tail(put.fields)]
    <3>4. rest \in Prepared /\ rest.fields = Tail(put.fields)
      BY <1>3, <3>3 DEF Prepared
    <3>5. ready' = [ready EXCEPT ![c] = [ready[c] EXCEPT ![1] = rest]]
      BY <3>1, <3>2
    <3> HIDE DEF rest, put
    <3>6. [ready[c] EXCEPT ![1] = rest] \in Seq(Prepared)
      BY <1>3, <3>4, SeqExcept
    <3>7. /\ ready' \in [Client -> Seq(Prepared)]
          /\ \A d \in Client \ {c} : ready'[d] = ready[d]
          /\ ready'[c] = [ready[c] EXCEPT ![1] = rest]
      BY <1>1, <3>5, <3>6 DEF ThreadInv, ThreadTypes
    <3>8. 1 \in 1 .. Len(ready[c])
      BY <1>3
    <3>9. Head(ready'[c]) = rest /\ ready'[c] # <<>>
      BY <1>3, <3>6, <3>7, <3>8
    <3>10. ThreadInv'
      BY <1>1, <1>2, <3>1, <3>4, <3>7, <3>9, WorkOn DEF ThreadInv, ThreadTypes
    <3> QED
      BY <2>3, <3>10, InvSplit
  <2> QED
    BY <2>4, <2>5
<1> QED
  BY <1>6, <1>7, <1>8

\* Returning from a batch, and the steps of sweep_ttl, keep the type invariant.
LEMMA SweepType ==
    ASSUME TypeInv, NEW c \in Client, Return(c) \/ SweepItems(c) \/ SweepVectors(c)
    PROVE  TypeInv'
<1>1. DbTypes /\ ThreadInv
  BY InvSplit
<1>2. Outcome("ok") \in Replies
  BY OutcomeType DEF Outcomes
<1>3. ASSUME Leave(c, Outcome("ok")), UNCHANGED <<is_setup, cached, call, made, failures>>
      PROVE  ThreadInv'
  BY <1>1, <1>2, <1>3, LeaveKeeps DEF ThreadInv, ThreadTypes
<1>4. ASSUME GoOn(c, "sweep_vectors"), UNCHANGED <<cached, todo, due, ready, result>>,
             gone' \in [Client -> SUBSET DbStoreItemId], pc[c] \in {"sweep", "sweep_vectors"}
      PROVE  ThreadInv'
  <2>1. pc[c] # "idle" /\ call[c].op = "sweep" /\ "sweep_vectors" \in Labels \ Working
    BY <1>1, <1>4 DEF ThreadInv, PcInv, PcOK, Labels, Critical, DataQuery, Working
  <2> QED
    BY <1>1, <1>4, <2>1, GoOnKeeps DEF ThreadInv, ThreadTypes
<1>5. CASE Return(c)
  <2>1. Done(result[c]) \in Replies
    BY <1>1 DEF Done, Replies, Outcomes, ThreadInv, ThreadTypes
  <2>2. ThreadInv'
    BY <1>1, <1>5, <2>1, LeaveKeeps DEF Return, ThreadInv, ThreadTypes
  <2>3. DbTypes'
    BY <1>1, <1>5 DEF Return, DbTypes, db
  <2> QED
    BY <2>2, <2>3, InvSplit
<1>6. CASE SweepItems(c)
  <2>1. DeleteAll(items, Expired(items, now)) \in ItemsTable
    BY <1>1 DEF DbTypes, DeleteAll, ItemsTable
  <2>2. DbTypes'
    BY <1>1, <1>6, <2>1 DEF SweepItems, DbTypes
  <2>3. Expired(items, now) \in SUBSET DbStoreItemId
    BY DEF Expired, Rows
  <2>4. CASE QueryError(c)
    BY <1>1, <2>2, <2>4, RaiseKeeps, InvSplit
  <2>5. CASE ~ QueryError(c)
    <3>1. gone' = [gone EXCEPT ![c] = Expired(items, now)]
             => gone' \in [Client -> SUBSET DbStoreItemId]
      BY <1>1, <2>3 DEF ThreadInv, ThreadTypes
    <3>2. ThreadInv'
      BY <1>3, <1>4, <1>6, <2>5, <3>1 DEF SweepItems
    <3> QED
      BY <2>2, <3>2, InvSplit
  <2> QED
    BY <2>4, <2>5
<1>7. CASE SweepVectors(c)
  <2>1. PICK k \in gone[c] :
          /\ pc[c] = "sweep_vectors"
          /\ LET left == DeleteByItem(vectors, k) IN
             \/ /\ vectors' = left
                /\ IF gone[c] = {k}
                   THEN /\ Leave(c, Outcome("ok"))
                        /\ UNCHANGED <<is_setup, cached, call, made, failures>>
                   ELSE /\ gone' = [gone EXCEPT ![c] = @ \ {k}]
                        /\ GoOn(c, "sweep_vectors")
                        /\ UNCHANGED <<cached, todo, due, ready, result>>
             \/ vectors' \in {vectors, left} /\ QueryError(c)
          /\ UNCHANGED <<schema, items, now>>
    BY <1>7 DEF SweepVectors
  <2>2. DeleteByItem(vectors, k) \in VectorsTable
    BY <1>1 DEF DbTypes, DeleteByItem, VectorsTable, NoVectors
  <2>3. DbTypes'
    BY <1>1, <2>1, <2>2 DEF DbTypes
  <2>4. gone' = [gone EXCEPT ![c] = @ \ {k}] => gone' \in [Client -> SUBSET DbStoreItemId]
    BY <1>1 DEF ThreadInv, ThreadTypes
  <2>5. ThreadInv'
    BY <1>1, <1>3, <1>4, <2>1, <2>4, RaiseKeeps
  <2> QED
    BY <2>3, <2>5, InvSplit
<1> QED
  BY <1>5, <1>6, <1>7

\* The time passing keeps the type invariant, and so does a step that changes nothing.
LEMMA TickType == TypeInv /\ (Tick \/ UNCHANGED vars) => TypeInv'
<1> SUFFICES ASSUME TypeInv, Tick \/ UNCHANGED vars PROVE TypeInv'
  OBVIOUS
<1>1. DbTypes /\ ThreadInv
  BY InvSplit
<1>2. DbTypes'
  <2>1. UNCHANGED db
    BY DEF Tick, db, vars
  <2>2. now' \in 0 .. MaxTime
    BY <1>1, BoundsAssumption DEF Tick, DbTypes, vars
  <2> QED
    BY <1>1, <2>1, <2>2 DEF DbTypes, db
<1>3. ThreadTypes'
  BY <1>1 DEF Tick, ThreadInv, ThreadTypes, locals, vars
<1>4. PcInv'
  BY <1>1 DEF Tick, ThreadInv, PcInv, PcOK, locals, vars, Ops
<1> QED
  BY <1>2, <1>3, <1>4, InvSplit DEF ThreadInv

\* Every step keeps the type invariant.
LEMMA NextType == TypeInv /\ [Next]_vars => TypeInv'
<1> SUFFICES ASSUME TypeInv, [Next]_vars PROVE TypeInv'
  OBVIOUS
<1>1. ASSUME NEW c \in Client, Step(c) PROVE TypeInv'
  BY <1>1, ReadyType, SetupType, ProbeType, LockType, ReadType, PrepareType, StoreType, SweepType
     DEF Step
<1> QED
  BY <1>1, InvokeType, TickType DEF Next, Finished

\* What a step of the store tells the caller of its own thread, and nobody else.
LEMMA StepReplies ==
    ASSUME TypeInv, NEW c \in Client, Invoke(c) \/ Step(c)
    PROVE  /\ \A d \in Client \ {c} : reply'[d] = reply[d]
           /\ \/ reply'[c] = reply[c]
              \/ reply'[c].status \in Outcomes
<1> DEFINE Ends == \E r : r.status \in Outcomes /\ End(c, r)
<1>1. Outcome("ok").status \in Outcomes /\ Outcome("raised").status \in Outcomes
  BY DEF Outcome, Outcomes
<1>2. Raise(c) \/ QueryError(c) => Ends
  BY <1>1 DEF Raise, QueryError, Leave
<1>3. CASE Invoke(c)
  BY <1>3 DEF Invoke, Begin, NoReply, Outcome, Outcomes, TypeInv, ThreadTypes
<1>4. CASE EnsureReady(c) \/ SetupLock(c) \/ SetupStore(c) \/ SetupVectors(c)
  <2>1. UNCHANGED reply \/ Ends
    BY <1>1, <1>2, <1>4
       DEF EnsureReady, SetupLock, SetupStore, SetupVectors, SetUp, Acquire, GoOn, Leave
  <2> QED
    BY <2>1 DEF End, TypeInv, ThreadTypes
<1>5. CASE ProbeLock(c) \/ ProbeStore(c) \/ ProbeVectors(c) \/ Lock(c)
  <2>1. UNCHANGED reply \/ Ends
    BY <1>1, <1>2, <1>5
       DEF ProbeLock, ProbeStore, ProbeVectors, Probed, Ready, Lock, StartWork, Acquire, GoOn,
           Leave
  <2> QED
    BY <2>1 DEF End, TypeInv, ThreadTypes
<1>6. CASE GetItem(c) \/ Refresh(c) \/ AskIndex(c) \/ ListNamespaces(c)
  <2>1. UNCHANGED reply \/ Ends
    BY <1>2, <1>6 DEF GetItem, Refresh, AskIndex, ListNamespaces, GoOn
  <2> QED
    BY <2>1 DEF End, TypeInv, ThreadTypes
<1>7. CASE SearchItems(c) \/ SearchRefused(c)
  <2>1. UNCHANGED reply \/ Ends
    BY <1>2, <1>7 DEF SearchItems, SearchRefused, GoOn
  <2> QED
    BY <2>1 DEF End, TypeInv, ThreadTypes
<1>8. CASE PreparePut(c) \/ DeleteVectors(c) \/ DeleteItem(c) \/ Embed(c)
  <2>1. UNCHANGED reply \/ Ends
    BY <1>2, <1>8 DEF PreparePut, DeleteVectors, DeleteItem, Embed, GoOn
  <2> QED
    BY <2>1 DEF End, TypeInv, ThreadTypes
<1>9. CASE StoreItem(c) \/ ClearVectors(c) \/ StoreVector(c)
  <2>1. UNCHANGED reply \/ Ends
    BY <1>2, <1>9 DEF StoreItem, ClearVectors, StoreVector, Stored, GoOn
  <2> QED
    BY <2>1 DEF End, TypeInv, ThreadTypes
<1>10. CASE Return(c) \/ SweepItems(c) \/ SweepVectors(c)
  <2>1. Done(result[c]).status \in Outcomes
    BY DEF Done, Outcomes
  <2>2. UNCHANGED reply \/ Ends
    BY <1>1, <1>2, <1>10, <2>1 DEF Return, SweepItems, SweepVectors, GoOn, Leave
  <2> QED
    BY <2>2 DEF End, TypeInv, ThreadTypes
<1> QED
  BY <1>3, <1>4, <1>5, <1>6, <1>7, <1>8, <1>9, <1>10 DEF Step

\* Every variable keeps its type, and a thread's locals match its place in the call.
THEOREM TypeInvariant == Spec => [](TypeOK /\ PcInv)
<1> DEFINE Uncancelled == \A c \in Client : reply[c].status \in Outcomes
<1>1. Init => TypeInv /\ Uncancelled
  BY InitType DEF Init, NoReply, Outcome, Outcomes
<1>2. TypeInv /\ Uncancelled /\ [Next]_vars => (TypeInv /\ Uncancelled)'
  <2>1. UNCHANGED vars \/ Tick \/ Finished => UNCHANGED reply
    BY DEF vars, Tick, Finished
  <2>2. ASSUME TypeInv, Uncancelled, NEW c \in Client, Invoke(c) \/ Step(c) PROVE Uncancelled'
    BY <2>2, StepReplies
  <2> QED
    BY <2>1, <2>2, NextType DEF Next
<1>3. TypeInv /\ Uncancelled => TypeOK /\ PcInv
  BY TypesSplit DEF TypeInv
<1> QED
  BY <1>1, <1>2, <1>3, PTL DEF Spec

-----------------------------------------------------------------------------
(* Locks *)

\* How a step moves the thread that takes it with respect to its store's lock.
Stays(c) ==
    \E l \in Labels : /\ Goto(c, l) /\ UNCHANGED lock
                      /\ l \in Critical <=> pc[c] \in Critical

Enters(c) ==
    \E l \in Critical : /\ Goto(c, l) /\ lock[My(c)] = Free
                        /\ lock' = [lock EXCEPT ![My(c)] = c]

Exits(c) ==
    \E l \in Labels \ Critical : /\ Goto(c, l) /\ lock' = [lock EXCEPT ![My(c)] = Free]
                                 /\ pc[c] \in Critical \/ lock[My(c)] = Free

\* All three keep the lock with the thread inside its with-statement.
LEMMA MovesLock ==
    ASSUME TypeInv, LockDiscipline, NEW c \in Client, Stays(c) \/ Enters(c) \/ Exits(c)
    PROVE  LockDiscipline'
<1>1. lock \in [Store -> Client \cup {Free}] /\ pc \in [Client -> Labels]
  BY DEF TypeInv, DbTypes, ThreadTypes
<1>2. CASE Stays(c)
  BY <1>1, <1>2 DEF Stays, Goto, LockDiscipline
<1>3. CASE Enters(c)
  BY <1>1, <1>3, StoreOfAssumption, FreeAssumption DEF Enters, Goto, LockDiscipline, My
<1>4. CASE Exits(c)
  BY <1>1, <1>4, StoreOfAssumption, FreeAssumption DEF Exits, Goto, LockDiscipline, My
<1> QED
  BY <1>2, <1>3, <1>4

\* Leaving a call, or raising, from inside the with-statement.
LEMMA LeaveExits ==
    ASSUME NEW c \in Client, pc[c] \in Critical \/ lock[My(c)] = Free,
           (\E r : Leave(c, r)) \/ QueryError(c) \/ Raise(c)
    PROVE  Exits(c)
<1>1. "idle" \in Labels \ Critical
  BY DEF Labels, Critical, DataQuery
<1>2. \E r : Leave(c, r)
  BY DEF QueryError, Raise
<1> QED
  BY <1>1, <1>2 DEF Exits, Leave, End

\* Going on inside the with-statement.
LEMMA GoOnStays ==
    ASSUME NEW c \in Client, NEW l \in Critical, GoOn(c, l), pc[c] \in Critical
    PROVE  Stays(c)
BY DEF Stays, GoOn, Labels

\* Every step of a thread does one of the three.
LEMMA StepMoves ==
    ASSUME TypeInv, NEW c \in Client, Invoke(c) \/ Step(c)
    PROVE  Stays(c) \/ Enters(c) \/ Exits(c)
<1>1. CASE Invoke(c) \/ EnsureReady(c)
  <2>1. PICK l \in {"setup_lock", "probe_lock", "ensure", "lock"} : Goto(c, l)
    BY <1>1 DEF Invoke, Begin, EnsureReady
  <2>2. UNCHANGED lock /\ pc[c] \notin Critical /\ l \in Labels \ Critical
    BY <1>1, <2>1 DEF Invoke, Begin, EnsureReady, Critical, DataQuery, Labels
  <2> QED
    BY <2>1, <2>2 DEF Stays
<1>2. CASE SetupLock(c)
  BY <1>2, LeaveExits DEF SetupLock, Acquire, Enters, Critical
<1>3. CASE SetupStore(c) \/ SetupVectors(c)
  <2>1. pc[c] \in Critical /\ "setup_vectors" \in Critical
    BY <1>3 DEF SetupStore, SetupVectors, Critical
  <2> QED
    BY <1>3, <2>1, LeaveExits, GoOnStays DEF SetupStore, SetupVectors, SetUp
<1>4. ASSUME Probed(c), pc[c] \in Critical \/ lock[My(c)] = Free PROVE Exits(c)
  <2>1. "lock" \in Labels \ Critical
    BY DEF Labels, Critical, DataQuery
  <2> QED
    BY <1>4, <2>1, LeaveExits DEF Probed, Exits
<1>5. CASE ProbeLock(c)
  BY <1>4, <1>5 DEF ProbeLock, Acquire, Enters, Critical
<1>6. CASE ProbeStore(c) \/ ProbeVectors(c)
  <2>1. pc[c] \in Critical /\ "probe_vectors" \in Critical
    BY <1>6 DEF ProbeStore, ProbeVectors, Critical
  <2> QED
    BY <1>4, <1>6, <2>1, LeaveExits, GoOnStays DEF ProbeStore, ProbeVectors, Ready
<1>7. CASE Lock(c)
  <2>1. \E l \in {"sweep", "work"} : Goto(c, l)
    BY <1>7 DEF Lock, StartWork
  <2> QED
    BY <1>7, <2>1 DEF Lock, Enters, Critical, DataQuery
<1>8. CASE GetItem(c) \/ Refresh(c) \/ AskIndex(c) \/ SearchItems(c) \/ SearchRefused(c)
           \/ ListNamespaces(c)
  <2>1. pc[c] \in Critical /\ "work" \in Critical /\ "refresh" \in Critical
    BY <1>8 DEF GetItem, Refresh, AskIndex, SearchItems, SearchRefused, ListNamespaces, Turn,
                Critical, DataQuery
  <2> QED
    BY <1>8, <2>1, LeaveExits, GoOnStays
       DEF GetItem, Refresh, AskIndex, SearchItems, SearchRefused, ListNamespaces
<1>9. CASE PreparePut(c) \/ DeleteVectors(c) \/ DeleteItem(c) \/ Embed(c)
  <2>1. pc[c] \in Critical /\ {"work", "delete_vectors", "delete_item", "store"} \subseteq Critical
    BY <1>9 DEF PreparePut, DeleteVectors, DeleteItem, Embed, Turn, Critical, DataQuery
  <2> QED
    BY <1>9, <2>1, LeaveExits, GoOnStays DEF PreparePut, DeleteVectors, DeleteItem, Embed
<1>10. CASE StoreItem(c) \/ ClearVectors(c) \/ StoreVector(c)
  <2>1. pc[c] \in Critical /\ {"work", "store", "clear_vectors", "store_vector"} \subseteq Critical
    BY <1>10 DEF StoreItem, ClearVectors, StoreVector, Critical, DataQuery
  <2> QED
    BY <1>10, <2>1, LeaveExits, GoOnStays DEF StoreItem, ClearVectors, StoreVector, Stored
<1>11. CASE Return(c) \/ SweepItems(c) \/ SweepVectors(c)
  <2>1. pc[c] \in Critical /\ "sweep_vectors" \in Critical
    BY <1>11 DEF Return, SweepItems, SweepVectors, Critical, DataQuery
  <2> QED
    BY <1>11, <2>1, LeaveExits, GoOnStays DEF Return, SweepItems, SweepVectors
<1> QED
  BY <1>1, <1>2, <1>3, <1>5, <1>6, <1>7, <1>8, <1>9, <1>10, <1>11 DEF Step

\* Every step keeps the lock with the thread inside the with-statement.
LEMMA NextLocks == TypeInv /\ LockDiscipline /\ [Next]_vars => LockDiscipline'
<1>1. Tick \/ Finished \/ UNCHANGED vars => UNCHANGED <<lock, pc>>
  BY DEF Tick, Finished, vars
<1>2. LockDiscipline /\ UNCHANGED <<lock, pc>> => LockDiscipline'
  BY DEF LockDiscipline
<1> QED
  BY <1>1, <1>2, StepMoves, MovesLock DEF Next

\* A lock is held exactly by the thread inside its with-statement, however many
\* stores, threads and failures there are.
THEOREM Locks == Spec => []LockDiscipline
<1>1. Init => LockDiscipline
  BY StoreOfAssumption, FreeAssumption DEF Init, LockDiscipline, Critical, DataQuery
<1>2. TypeInv /\ LockDiscipline /\ [Next]_vars => (TypeInv /\ LockDiscipline)'
  BY NextType, NextLocks
<1> QED
  BY <1>1, <1>2, InitType, PTL DEF Spec

-----------------------------------------------------------------------------
(* The schema *)

\* What a store needs of the schema.
Installed(s) == "store" \in schema /\ (Settings[s].index => "index" \in schema)

\* What a store remembers of it.
Remembers(s) ==
    /\ cached[s].installed = TRUE => "store" \in schema
    /\ cached[s].indexed = TRUE => "index" \in schema
    /\ cached[s].search = FALSE => ~ Settings[s].index

\* ReadyMeansInstalled is not inductive: a probe may rest on answers remembered from
\* an earlier one, its second query and the second script on the first, and a thread
\* that waits for the lock on is_setup not being reset.
SetupInv ==
    /\ \A s \in Store : is_setup[s] => Installed(s)
    /\ \A s \in Store : Remembers(s)
    /\ \A c \in Client : pc[c] \in DataQuery \cup {"lock"} => is_setup[My(c)]
    /\ \A c \in Client : pc[c] \in {"setup_vectors", "probe_vectors"} =>
          "store" \in schema /\ With(c).index

\* How a step of a thread can change what is installed and remembered, and where it
\* takes the thread.
Advances(c) ==
    /\ schema \subseteq schema'
    /\ \A s \in Store \ {My(c)} : is_setup'[s] = is_setup[s] /\ cached'[s] = cached[s]
    /\ is_setup'[My(c)] => Installed(My(c))'
    /\ is_setup[My(c)] => is_setup'[My(c)]
    /\ Remembers(My(c))'
    /\ \A d \in Client \ {c} : pc'[d] = pc[d]
    /\ pc'[c] \in DataQuery \cup {"lock"} => is_setup'[My(c)]
    /\ pc'[c] \in {"setup_vectors", "probe_vectors"} => "store" \in schema' /\ With(c).index

\* Such a step keeps the invariant.
LEMMA AdvancesKeeps ==
    ASSUME SetupInv, NEW c \in Client, Advances(c)
    PROVE  SetupInv'
<1>1. \A d \in Client : My(d) \in Store
  BY StoreOfAssumption DEF My
<1>2. \A s \in Store : is_setup'[s] => Installed(s)'
  BY DEF SetupInv, Advances, Installed
<1>3. \A s \in Store : Remembers(s)'
  BY DEF SetupInv, Advances, Remembers
<1>4. \A s \in Store : is_setup[s] => is_setup'[s]
  BY DEF Advances
<1>5. \A d \in Client : pc'[d] \in DataQuery \cup {"lock"} => is_setup'[My(d)]
  BY <1>1, <1>4 DEF SetupInv, Advances
<1>6. \A d \in Client : pc'[d] \in {"setup_vectors", "probe_vectors"} =>
          "store" \in schema' /\ With(d).index
  BY DEF SetupInv, Advances
<1> QED
  BY <1>2, <1>3, <1>5, <1>6 DEF SetupInv, My, With

\* A step that asks nothing of the schema.
LEMMA AdvancesQuietly ==
    ASSUME TypeInv, SetupInv, NEW c \in Client, UNCHANGED <<schema, is_setup, cached>>,
           NEW l, Goto(c, l), l \in DataQuery \cup {"lock"} => is_setup[My(c)],
           l \notin {"setup_vectors", "probe_vectors"}
    PROVE  Advances(c)
<1>1. /\ My(c) \in Store
      /\ \A d \in Client \ {c} : pc'[d] = pc[d]
      /\ pc'[c] = l
  BY StoreOfAssumption DEF My, TypeInv, DbTypes, ThreadTypes, Goto
<1> QED
  BY <1>1 DEF Advances, SetupInv, Installed, Remembers

\* A query that failed while a script was being run, or anywhere else.
LEMMA AdvancesFailing ==
    ASSUME TypeInv, SetupInv, NEW c \in Client, schema \subseteq schema',
           UNCHANGED <<is_setup, cached>>, Goto(c, "idle")
    PROVE  Advances(c)
<1>1. /\ My(c) \in Store
      /\ \A d \in Client \ {c} : pc'[d] = pc[d]
      /\ pc'[c] = "idle"
      /\ "idle" \notin DataQuery
  BY StoreOfAssumption DEF My, TypeInv, DbTypes, ThreadTypes, Goto, DataQuery
<1> QED
  BY <1>1 DEF Advances, SetupInv, Installed, Remembers

\* Every step of a thread advances.
LEMMA StepAdvances ==
    ASSUME TypeInv, SetupInv, NEW c \in Client, Invoke(c) \/ Step(c)
    PROVE  Advances(c)
<1>1. /\ My(c) \in Store /\ cached \in [Store -> Answers] /\ is_setup \in [Store -> BOOLEAN]
      /\ pc \in [Client -> Labels] /\ cached[My(c)] \in Answers
      /\ With(c) = Settings[My(c)]
  BY StoreOfAssumption DEF My, With, TypeInv, DbTypes, ThreadTypes, Answers
<1>2. ASSUME QueryError(c) \/ Raise(c) \/ (\E r : Leave(c, r)) PROVE Goto(c, "idle")
  BY <1>2 DEF QueryError, Raise, Leave, End
<1>3. ASSUME QueryError(c) \/ Raise(c) PROVE UNCHANGED <<is_setup, cached>>
  BY <1>3 DEF QueryError, Raise
<1>4. "idle" \notin DataQuery
  BY DEF DataQuery
<1>5. CASE Invoke(c) \/ EnsureReady(c)
  <2>1. PICK l \in {"setup_lock", "probe_lock", "ensure", "lock"} :
          Goto(c, l) /\ (l = "lock" => is_setup[My(c)])
    BY <1>5 DEF Invoke, Begin, EnsureReady
  <2>2. UNCHANGED <<schema, is_setup, cached>>
    BY <1>5 DEF Invoke, Begin, EnsureReady, db
  <2>3. l \notin DataQuery
    BY DEF DataQuery
  <2> QED
    BY <2>1, <2>2, <2>3, AdvancesQuietly
<1>6. CASE SetupLock(c)
  <2>1. PICK l \in {"idle", "setup_store"} : Goto(c, l)
    BY <1>2, <1>6 DEF SetupLock, Acquire
  <2>2. UNCHANGED <<schema, is_setup, cached>> /\ l \notin DataQuery
    BY <1>6 DEF SetupLock, db, DataQuery
  <2> QED
    BY <2>1, <2>2, AdvancesQuietly
<1>7. ASSUME SetUp(c), schema \subseteq schema', "store" \in schema',
             With(c).index => "index" \in schema'
      PROVE  Advances(c)
  <2>1. Goto(c, "idle") /\ is_setup' = [is_setup EXCEPT ![My(c)] = TRUE] /\ UNCHANGED cached
    BY <1>2, <1>7 DEF SetUp
  <2> QED
    BY <1>1, <1>4, <1>7, <2>1 DEF Goto, Advances, SetupInv, Installed, Remembers
<1>8. CASE SetupStore(c)
  <2>1. schema \subseteq schema'
    BY <1>8 DEF SetupStore
  <2>2. CASE QueryError(c)
    BY <1>2, <1>3, <2>1, <2>2, AdvancesFailing
  <2>3. CASE SetUp(c) /\ ~ With(c).index /\ "store" \in schema'
    BY <1>7, <2>1, <2>3
  <2>4. CASE GoOn(c, "setup_vectors") /\ UNCHANGED <<cached, locals>> /\ With(c).index
             /\ "store" \in schema'
    <3>1. "setup_vectors" \notin DataQuery
      BY DEF DataQuery
    <3> QED
      BY <1>1, <2>1, <2>4, <3>1 DEF GoOn, Goto, Advances, SetupInv, Installed, Remembers
  <2> QED
    BY <1>8, <2>2, <2>3, <2>4 DEF SetupStore
<1>9. CASE SetupVectors(c)
  <2>1. schema \subseteq schema' /\ "store" \in schema
    BY <1>9 DEF SetupVectors, SetupInv
  <2> QED
    BY <1>2, <1>3, <1>7, <1>9, <2>1, AdvancesFailing DEF SetupVectors
<1>10. ASSUME Probed(c)
       PROVE  \E l \in {"idle", "lock"} : Goto(c, l)
  BY <1>2, <1>10 DEF Probed
<1>11. CASE ProbeLock(c)
  <2>1. PICK l \in {"idle", "lock", "probe_store"} :
           Goto(c, l) /\ (l = "lock" => is_setup[My(c)])
    BY <1>10, <1>11 DEF ProbeLock, Acquire
  <2>2. UNCHANGED <<schema, is_setup, cached>> /\ l \notin DataQuery
    BY <1>11 DEF ProbeLock, db, DataQuery
  <2> QED
    BY <2>1, <2>2, AdvancesQuietly
<1>12. ASSUME Ready(c), UNCHANGED schema, "store" \in schema,
              With(c).index => "index" \in schema,
              \A s \in Store \ {My(c)} : cached'[s] = cached[s], Remembers(My(c))'
       PROVE  Advances(c)
  <2>1. PICK l \in {"idle", "lock"} : Goto(c, l)
    BY <1>10, <1>12 DEF Ready
  <2>2. is_setup' = [is_setup EXCEPT ![My(c)] = TRUE] /\ l \notin DataQuery
    BY <1>12 DEF Ready, DataQuery
  <2> QED
    BY <1>1, <1>12, <2>1, <2>2 DEF Goto, Advances, SetupInv, Installed
<1>13. CASE ProbeStore(c)
  <2>1. CASE QueryError(c) \/ Raise(c)
    BY <1>2, <1>3, <1>13, <2>1, AdvancesFailing DEF ProbeStore, db
  <2>2. CASE ~ (QueryError(c) \/ Raise(c))
    <3>1. /\ UNCHANGED schema
          /\ cached[My(c)].installed # None \/ "store" \in schema
          /\ cached' = [cached EXCEPT ![My(c)].installed = TRUE]
          /\ IF With(c).index THEN GoOn(c, "probe_vectors") ELSE Ready(c)
      BY <1>13, <2>2 DEF ProbeStore, db
    <3>2. "store" \in schema
      BY <1>1, <3>1 DEF Answers, SetupInv, Remembers
    <3>3. Remembers(My(c))' /\ \A s \in Store \ {My(c)} : cached'[s] = cached[s]
      BY <1>1, <3>1, <3>2 DEF Answers, SetupInv, Remembers
    <3>4. CASE Ready(c) /\ ~ With(c).index
      BY <1>12, <3>1, <3>2, <3>3, <3>4
    <3>5. CASE GoOn(c, "probe_vectors") /\ With(c).index
      <4>1. "probe_vectors" \notin DataQuery
        BY DEF DataQuery
      <4> QED
        BY <1>1, <3>1, <3>2, <3>3, <3>5, <4>1 DEF GoOn, Goto, Advances, SetupInv, Installed
    <3> QED
      BY <3>1, <3>4, <3>5
  <2> QED
    BY <2>1, <2>2
<1>14. CASE ProbeVectors(c)
  <2>1. CASE QueryError(c)
    BY <1>2, <1>3, <1>14, <2>1, AdvancesFailing DEF ProbeVectors, db
  <2>2. CASE ~ QueryError(c)
    <3> DEFINE enabled == IF cached[My(c)].indexed # None THEN cached[My(c)].indexed
                          ELSE "index" \in schema
    <3>1. /\ UNCHANGED schema /\ "store" \in schema
          /\ cached' = [cached EXCEPT ![My(c)].indexed = enabled]
          /\ \/ enabled /\ Ready(c)
             \/ Leave(c, Outcome("raised")) /\ UNCHANGED is_setup
      BY <1>14, <2>2 DEF ProbeVectors, db, SetupInv
    <3>2. enabled = TRUE => "index" \in schema
      BY <1>1 DEF SetupInv, Remembers
    <3>3. enabled \in BOOLEAN
      <4>1. cached[My(c)].indexed \in BOOLEAN \cup {None}
        BY <1>1 DEF Answers
      <4>2. ("index" \in schema) \in BOOLEAN
        OBVIOUS
      <4> QED
        BY <4>1, <4>2
    <3> HIDE DEF enabled
    <3>4. Remembers(My(c))' /\ \A s \in Store \ {My(c)} : cached'[s] = cached[s]
      BY <1>1, <3>1, <3>2 DEF Answers, SetupInv, Remembers
    <3>5. CASE enabled /\ Ready(c)
      BY <1>12, <3>1, <3>2, <3>3, <3>4, <3>5
    <3>6. CASE Leave(c, Outcome("raised")) /\ UNCHANGED is_setup
      <4>1. Goto(c, "idle")
        BY <1>2, <3>6
      <4> QED
        BY <1>1, <1>4, <3>1, <3>4, <3>6, <4>1 DEF Goto, Advances, SetupInv, Installed
    <3> QED
      BY <3>1, <3>5, <3>6
  <2> QED
    BY <2>1, <2>2
<1>15. CASE Lock(c)
  <2>1. PICK l \in {"sweep", "work"} : Goto(c, l)
    BY <1>15 DEF Lock, StartWork
  <2>2. UNCHANGED <<schema, is_setup, cached>> /\ is_setup[My(c)]
    BY <1>15 DEF Lock, StartWork, db, SetupInv
  <2> QED
    BY <2>1, <2>2, AdvancesQuietly
<1>16. CASE AskIndex(c) /\ ~ QueryError(c)
  <2>1. /\ UNCHANGED schema /\ Goto(c, "work") /\ UNCHANGED is_setup /\ pc[c] = "work"
        /\ cached' = [cached EXCEPT ![My(c)].search = "index" \in schema]
    BY <1>16 DEF AskIndex, GoOn, db, Turn
  <2>2. is_setup[My(c)] /\ (Settings[My(c)].index => "index" \in schema)
    BY <1>1, <2>1 DEF SetupInv, DataQuery, Installed
  <2>3. Remembers(My(c))' /\ \A s \in Store \ {My(c)} : cached'[s] = cached[s]
    BY <1>1, <2>1, <2>2 DEF Answers, SetupInv, Remembers
  <2> QED
    BY <1>1, <2>1, <2>2, <2>3 DEF Goto, Advances, SetupInv, Installed
<1>17. ASSUME pc[c] \in DataQuery, UNCHANGED schema,
              \/ QueryError(c) \/ Raise(c)
              \/ (\E r : Leave(c, r)) /\ UNCHANGED <<is_setup, cached>>
              \/ \E l \in DataQuery : GoOn(c, l) /\ UNCHANGED cached
       PROVE  Advances(c)
  <2>1. is_setup[My(c)]
    BY <1>17 DEF SetupInv
  <2>2. UNCHANGED <<is_setup, cached>> /\ \E l \in DataQuery \cup {"idle"} : Goto(c, l)
    BY <1>2, <1>3, <1>17 DEF GoOn
  <2>3. {"setup_vectors", "probe_vectors"} \cap (DataQuery \cup {"idle"}) = {}
    BY DEF DataQuery
  <2> QED
    BY <1>17, <2>1, <2>2, <2>3, AdvancesQuietly
<1>18. {"work", "refresh", "delete_vectors", "delete_item", "store", "clear_vectors",
        "store_vector", "sweep", "sweep_vectors"} \subseteq DataQuery
  BY DEF DataQuery
<1>19. CASE GetItem(c) \/ Refresh(c) \/ (AskIndex(c) /\ QueryError(c)) \/ SearchItems(c)
            \/ SearchRefused(c) \/ ListNamespaces(c)
  BY <1>17, <1>18, <1>19
     DEF GetItem, Refresh, AskIndex, SearchItems, SearchRefused, ListNamespaces, Turn, db
<1>20. CASE PreparePut(c) \/ DeleteVectors(c) \/ DeleteItem(c) \/ Embed(c)
  BY <1>17, <1>18, <1>20 DEF PreparePut, DeleteVectors, DeleteItem, Embed, Turn, db
<1>21. CASE StoreItem(c) \/ ClearVectors(c) \/ StoreVector(c)
  BY <1>17, <1>18, <1>21 DEF StoreItem, ClearVectors, StoreVector, Stored
<1>22. CASE Return(c) \/ SweepItems(c) \/ SweepVectors(c)
  BY <1>17, <1>18, <1>22 DEF Return, SweepItems, SweepVectors, db
<1> QED
  BY <1>5, <1>6, <1>8, <1>9, <1>11, <1>13, <1>14, <1>15, <1>16, <1>19, <1>20, <1>21, <1>22
     DEF Step

\* Every step keeps the schema invariant.
LEMMA NextSetup == TypeInv /\ SetupInv /\ [Next]_vars => SetupInv'
<1>1. Tick \/ Finished \/ UNCHANGED vars => UNCHANGED <<schema, is_setup, cached, pc>>
  BY DEF Tick, Finished, vars, db
<1>2. SetupInv /\ UNCHANGED <<schema, is_setup, cached, pc>> => SetupInv'
  BY DEF SetupInv, Installed, Remembers, My, With
<1> QED
  BY <1>1, <1>2, StepAdvances, AdvancesKeeps DEF Next

\* New stores know nothing of the schema.
LEMMA InitSetup == Init => SetupInv
<1> SUFFICES ASSUME Init PROVE SetupInv
  OBVIOUS
<1>1. None # TRUE /\ None # FALSE
  BY NoneAssumption
<1>2. \A s \in Store : ~ is_setup[s] /\ Remembers(s)
  BY <1>1 DEF Init, Remembers
<1>3. \A c \in Client : pc[c] = "idle"
  BY DEF Init
<1> QED
  BY <1>2, <1>3 DEF SetupInv, DataQuery

\* Whatever mixture of set-ups, probes, cached answers and failures came before, on
\* any number of objects, a store that is ready has what it needs installed and no
\* thread reads or writes data without it.
THEOREM SchemaFirst == Spec => []ReadyMeansInstalled
<1>1. TypeInv /\ SetupInv /\ [Next]_vars => (TypeInv /\ SetupInv)'
  BY NextType, NextSetup
<1>2. SetupInv => ReadyMeansInstalled
  BY DEF SetupInv, Installed, Remembers, ReadyMeansInstalled
<1> QED
  BY <1>1, <1>2, InitType, InitSetup, PTL DEF Spec

-----------------------------------------------------------------------------
(* What a step of one thread touches *)

\* Everything that belongs to another thread stays, and so does the time.
Frame(c) ==
    /\ \A d \in Client \ {c} :
          /\ pc'[d] = pc[d] /\ call'[d] = call[d] /\ todo'[d] = todo[d]
          /\ due'[d] = due[d] /\ ready'[d] = ready[d] /\ gone'[d] = gone[d]
          /\ reply'[d] = reply[d]
    /\ call'[c] = call[c] \/ pc[c] = "idle"
    /\ now' = now

\* The queries that change items, and how.
ItemsMove(c) ==
    \/ UNCHANGED items
    \/ /\ pc[c] = "refresh"
       /\ \E d \in due[c] :
             items[d.item] # NoRow /\ items' = UpdateExpiry(items, d.item, d.at)
    \/ /\ pc[c] = "delete_item"
       /\ \E i \in todo[c] : Current(c, i) /\ items' = Delete(items, Ops(c)[i].item)
    \/ /\ pc[c] = "store"
       /\ items' = Upsert(items, Head(ready[c]).item, Head(ready[c]).row)
    \/ /\ pc[c] = "sweep"
       /\ items' = DeleteAll(items, Expired(items, now))

\* The queries that change vectors, and how.
VectorsMove(c) ==
    \/ UNCHANGED vectors
    \/ /\ pc[c] = "delete_vectors"
       /\ \E i \in todo[c] : Current(c, i) /\ vectors' = DeleteByItem(vectors, Ops(c)[i].item)
    \/ /\ pc[c] = "clear_vectors"
       /\ vectors' = DeleteByItem(vectors, Head(ready[c]).item)
    \/ /\ pc[c] = "store_vector"
       /\ LET put == Head(ready[c]) IN
          vectors' = UpsertVector(vectors, put.item, Head(put.fields), put.row.value)
    \/ /\ pc[c] = "sweep_vectors"
       /\ \E k \in gone[c] : vectors' = DeleteByItem(vectors, k)

\* A step that leaves call alone and whose locals change, if at all, in c's place.
LEMMA FrameOf ==
    ASSUME TypeInv, NEW c \in Client, UNCHANGED <<call, now>>,
           \E l : Goto(c, l),
           \E x : todo' = [todo EXCEPT ![c] = x], \E x : due' = [due EXCEPT ![c] = x],
           \E x : ready' = [ready EXCEPT ![c] = x], \E x : gone' = [gone EXCEPT ![c] = x],
           \E x : reply' = [reply EXCEPT ![c] = x]
    PROVE  Frame(c)
BY DEF Frame, Goto, TypeInv, DbTypes, ThreadTypes

\* The locals of a thread that ends its call, or goes on without touching them.
LEMMA FrameEnd ==
    ASSUME TypeInv, NEW c \in Client, UNCHANGED now,
           \/ QueryError(c) \/ Raise(c)
           \/ (\E r : Leave(c, r)) /\ UNCHANGED call
           \/ (\E l : Goto(c, l)) /\ UNCHANGED <<call, reply, locals>>
    PROVE  Frame(c)
<1>1. CASE (\E l : Goto(c, l)) /\ UNCHANGED <<call, reply, locals>>
  BY <1>1 DEF Frame, Goto, locals, TypeInv, DbTypes, ThreadTypes
<1>2. CASE \E r : End(c, r) /\ UNCHANGED call
  BY <1>2, FrameOf DEF End
<1> QED
  BY <1>1, <1>2 DEF QueryError, Raise, Leave

\* The steps of one thread leave the others alone.
LEMMA StepFrame ==
    ASSUME TypeInv, NEW c \in Client, Invoke(c) \/ Step(c)
    PROVE  Frame(c)
<1>1. CASE Invoke(c)
  BY <1>1 DEF Invoke, Begin, Goto, Frame, locals, TypeInv, DbTypes, ThreadTypes
<1>2. CASE EnsureReady(c)
  BY <1>2, FrameEnd DEF EnsureReady
<1>3. CASE SetupLock(c) \/ SetupStore(c) \/ SetupVectors(c)
  BY <1>3, FrameEnd DEF SetupLock, SetupStore, SetupVectors, SetUp, Acquire, GoOn
<1>4. CASE ProbeLock(c) \/ ProbeStore(c) \/ ProbeVectors(c)
  BY <1>4, FrameEnd DEF ProbeLock, ProbeStore, ProbeVectors, Ready, Probed, Acquire, GoOn
<1>5. CASE Lock(c)
  <2>1. CASE call[c].op = "sweep"
    BY <1>5, <2>1 DEF Lock, StartWork, Frame, Goto, TypeInv, DbTypes, ThreadTypes
  <2>2. CASE call[c].op # "sweep"
    BY <1>5, <2>2 DEF Lock, StartWork, Frame, Goto, TypeInv, DbTypes, ThreadTypes
  <2> QED
    BY <2>1, <2>2
<1>6. ASSUME UNCHANGED now, \E l : GoOn(c, l),
             UNCHANGED ready \/ \E x : ready' = [ready EXCEPT ![c] = x],
             UNCHANGED gone \/ \E x : gone' = [gone EXCEPT ![c] = x],
             UNCHANGED todo \/ \E x : todo' = [todo EXCEPT ![c] = x],
             UNCHANGED due \/ \E x : due' = [due EXCEPT ![c] = x]
      PROVE  Frame(c)
  BY <1>6 DEF Frame, GoOn, Goto, TypeInv, DbTypes, ThreadTypes
<1>7. CASE GetItem(c) \/ Refresh(c) \/ AskIndex(c)
  BY <1>6, <1>7, FrameEnd DEF GetItem, Refresh, AskIndex, Begun, locals
<1>8. CASE SearchItems(c) \/ SearchRefused(c) \/ ListNamespaces(c)
  BY <1>6, <1>8, FrameEnd DEF SearchItems, SearchRefused, ListNamespaces, Begun
<1>9. CASE PreparePut(c) \/ DeleteVectors(c) \/ DeleteItem(c) \/ Embed(c)
  BY <1>6, <1>9, FrameEnd DEF PreparePut, DeleteVectors, DeleteItem, Embed, Begun, locals
<1>10. CASE StoreItem(c) \/ ClearVectors(c) \/ StoreVector(c)
  <2>1. ASSUME Stored(c), UNCHANGED now PROVE Frame(c)
    BY <1>6, <2>1 DEF Stored
  <2>2. CASE QueryError(c)
    BY <1>10, <2>2, FrameEnd DEF StoreItem, ClearVectors, StoreVector
  <2>3. CASE ~ QueryError(c) /\ ~ Stored(c)
    <3>1. UNCHANGED now /\ (\E l : GoOn(c, l)) /\ UNCHANGED <<todo, due, gone>>
      BY <1>10, <2>3 DEF StoreItem, ClearVectors, StoreVector, locals
    <3>2. UNCHANGED ready \/ ready' = [ready EXCEPT ![c] = ready'[c]]
      BY <1>10, <2>3 DEF StoreItem, ClearVectors, StoreVector, locals, TypeInv, DbTypes, ThreadTypes
    <3> QED
      BY <1>6, <3>1, <3>2
  <2> QED
    BY <1>10, <2>1, <2>2, <2>3 DEF StoreItem, ClearVectors, StoreVector
<1>11. CASE Return(c) \/ SweepItems(c) \/ SweepVectors(c)
  BY <1>6, <1>11, FrameEnd DEF Return, SweepItems, SweepVectors
<1> QED
  BY <1>1, <1>2, <1>3, <1>4, <1>5, <1>7, <1>8, <1>9, <1>10, <1>11 DEF Step

\* The steps of one thread change the tables by their queries alone.
LEMMA StepMovesTables ==
    ASSUME NEW c \in Client, Invoke(c) \/ Step(c)
    PROVE  ItemsMove(c) /\ VectorsMove(c)
<1>1. CASE Invoke(c) \/ EnsureReady(c) \/ SetupLock(c) \/ SetupStore(c) \/ SetupVectors(c)
  BY <1>1 DEF Invoke, Begin, EnsureReady, SetupLock, SetupStore, SetupVectors, ItemsMove,
              VectorsMove, db
<1>2. CASE ProbeLock(c) \/ ProbeStore(c) \/ ProbeVectors(c) \/ Lock(c)
  BY <1>2 DEF ProbeLock, ProbeStore, ProbeVectors, Lock, StartWork, ItemsMove, VectorsMove, db
<1>3. CASE GetItem(c) \/ AskIndex(c) \/ SearchItems(c) \/ SearchRefused(c)
           \/ ListNamespaces(c) \/ PreparePut(c) \/ Embed(c) \/ Return(c)
  BY <1>3 DEF GetItem, AskIndex, SearchItems, SearchRefused, ListNamespaces, PreparePut,
              Embed, Return, ItemsMove, VectorsMove, db
<1>4. CASE Refresh(c)
  BY <1>4 DEF Refresh, ItemsMove, VectorsMove
<1>5. CASE DeleteVectors(c) \/ DeleteItem(c)
  BY <1>5 DEF DeleteVectors, DeleteItem, ItemsMove, VectorsMove
<1>6. CASE StoreItem(c) \/ ClearVectors(c) \/ StoreVector(c)
  BY <1>6 DEF StoreItem, ClearVectors, StoreVector, ItemsMove, VectorsMove
<1>7. CASE SweepItems(c) \/ SweepVectors(c)
  BY <1>7 DEF SweepItems, SweepVectors, ItemsMove, VectorsMove
<1> QED
  BY <1>1, <1>2, <1>3, <1>4, <1>5, <1>6, <1>7 DEF Step

-----------------------------------------------------------------------------
(* One store: what its lock is for *)

SingleStore == \A c, d \in Client : StoreOf[c] = StoreOf[d]

\* A row expires if it has a time to live, no later than that time from t.
Timed(row, t) ==
    /\ row.ttl = None <=> row.expires_at = None
    /\ row.ttl # None => row.expires_at <= t + row.ttl

\* ExpiryMatchesTtl is not inductive: it takes the rows prepared and not yet stored,
\* and the expiries of rows read and not yet refreshed, which must be there still.
ExpiryInv ==
    /\ \A k \in Rows(items) : Timed(items[k], now)
    /\ \A c \in Client : \A n \in DOMAIN ready[c] : Timed(ready[c][n].row, now)
    /\ \A c \in Client : pc[c] = "refresh" =>
          \A d \in due[c] : /\ items[d.item] # NoRow
                            /\ items[d.item].ttl # None
                            /\ d.at <= now + items[d.item].ttl

\* Between the two queries of a deletion the operation under way is the same put of
\* nothing, and its item has no vectors left; a store without an index has none.
DeletingInv ==
    /\ \A c \in Client : pc[c] \in {"delete_vectors", "delete_item"} =>
          \A i \in todo[c] : Current(c, i) =>
             /\ IsPut(Ops(c), i) /\ Removes(Ops(c)[i])
             /\ pc[c] = "delete_item" => ~ HasVector(vectors, Ops(c)[i].item)
    /\ \A c \in Client : ~ With(c).index => vectors = EmptyVectors
    /\ \A c \in Client : pc[c] \in {"clear_vectors", "store_vector"} => With(c).index

\* Where the vectors of an item may lag behind it: it was stored and its old vectors
\* are not yet deleted, or it was swept and its vectors are still there.
Lags(c, k) ==
    \/ pc[c] = "clear_vectors" /\ Head(ready[c]).item = k
    \/ pc[c] = "sweep_vectors" /\ k \in gone[c]

Follows(k, v) == items[k] # NoRow /\ items[k].value = v

\* IndexFollowsItems at every moment, and what a put that stores vectors relies on.
VectorInv ==
    /\ failures = 0 =>
          \A k \in DbStoreItemId, f \in Field : vectors[k][f] # NoRow =>
             Follows(k, vectors[k][f]) \/ \E c \in Client : Lags(c, k)
    /\ \A c \in Client : pc[c] \in {"clear_vectors", "store_vector"} =>
          LET put == Head(ready[c]) IN
          Follows(put.item, put.row.value)

\* At most one thread of the store is inside.
LEMMA Alone ==
    ASSUME SingleStore, LockDiscipline, NEW c \in Client, NEW d \in Client,
           pc[c] \in Critical, pc[d] \in Critical
    PROVE  c = d
BY StoreOfAssumption DEF SingleStore, LockDiscipline

\* While a thread is inside, no other one touches the tables.
LEMMA OthersKeepOut ==
    ASSUME SingleStore, LockDiscipline, NEW c \in Client, NEW d \in Client, c # d,
           Invoke(d) \/ Step(d), pc[c] \in Critical
    PROVE  UNCHANGED <<items, vectors>> /\ pc[d] \notin Critical
<1>1. pc[d] \notin Critical
  BY Alone
<1> QED
  BY <1>1, StepMovesTables DEF ItemsMove, VectorsMove, Critical, DataQuery

\* What a thread is left with when its call ends.
LEMMA EndLocals ==
    ASSUME TypeInv, NEW c \in Client,
           QueryError(c) \/ Raise(c) \/ (\E r : Leave(c, r))
    PROVE  pc'[c] = "idle" /\ todo'[c] = {} /\ due'[c] = {} /\ ready'[c] = <<>> /\ gone'[c] = {}
<1>1. \E r : End(c, r)
  BY DEF QueryError, Raise, Leave
<1> QED
  BY <1>1 DEF End, Goto, TypeInv, DbTypes, ThreadTypes

-----------------------------------------------------------------------------
(* One store: expiries *)

\* Times and times to live are numbers.
LEMMA RowTypes ==
    ASSUME TypeInv
    PROVE  /\ now \in Nat
           /\ \A row \in DbStoreItem : row.ttl # None => row.ttl \in Nat
           /\ \A k \in DbStoreItemId : items[k] # NoRow => items[k] \in DbStoreItem
           /\ \A c \in Client : \A n \in DOMAIN ready[c] : ready[c][n] \in Prepared
           /\ \A c \in Client : due[c] \subseteq Expiries
           /\ \A row \in DbStoreItem : row.expires_at # None => row.expires_at \in Nat
<1>1. now \in Nat
  BY BoundsAssumption DEF TypeInv, DbTypes, ThreadTypes
<1>2. \A row \in DbStoreItem : row.ttl # None => row.ttl \in Nat
  BY DurationAssumption DEF DbStoreItem
<1>3. \A k \in DbStoreItemId : items[k] # NoRow => items[k] \in DbStoreItem
  BY DEF TypeInv, DbTypes, ThreadTypes, ItemsTable
<1>4. ThreadTypes
  BY DEF TypeInv
<1>5. \A c \in Client : \A n \in DOMAIN ready[c] : ready[c][n] \in Prepared
  <2>1. \A c \in Client : ready[c] \in Seq(Prepared)
    BY <1>4 DEF ThreadTypes
  <2> QED
    BY <2>1, ElementOfSeq
<1>6. \A c \in Client : due[c] \subseteq Expiries
  BY <1>4 DEF ThreadTypes
<1>7. \A row \in DbStoreItem : row.expires_at # None => row.expires_at \in Nat
  BY DEF DbStoreItem
<1> QED
  BY <1>1, <1>2, <1>3, <1>5, <1>6, <1>7

\* A row made from a put is timed.
LEMMA NewRowTimed ==
    ASSUME TypeInv, NEW o \in PutOp, ~ Removes(o)
    PROVE  Timed(NewRow(o, now), now)
<1>1. NewRow(o, now).ttl = o.ttl /\ NewRow(o, now).expires_at = ExpiresAt(now, o.ttl)
  BY DEF NewRow
<1>2. now \in Nat
  BY RowTypes
<1>3. CASE o.ttl = None
  BY <1>1, <1>3 DEF ExpiresAt, Timed
<1>4. CASE o.ttl # None
  <2>1. o.ttl \in Nat
    BY <1>4, DurationAssumption DEF PutOp
  <2>2. now + o.ttl \in Nat /\ now + o.ttl # None
    BY <1>2, <2>1, NoneAssumption
  <2> QED
    BY <1>1, <1>2, <1>4, <2>1, <2>2 DEF ExpiresAt, Timed
<1> QED
  BY <1>3, <1>4

\* A row stays timed as time passes.
LEMMA TimedLater ==
    ASSUME TypeInv, NEW row \in DbStoreItem, Timed(row, now), now' = now \/ now' = now + 1
    PROVE  Timed(row, now')
<1>1. now \in Nat /\ (row.ttl # None => row.ttl \in Nat)
  BY RowTypes
<1>2. row.expires_at # None => row.expires_at \in Nat
  BY RowTypes
<1> QED
  BY <1>1, <1>2 DEF Timed

\* Items read now are refreshed to a time their rows allow.
LEMMA RefreshesTimed ==
    ASSUME TypeInv, NEW keys \in SUBSET Rows(items), NEW d \in Refreshes(keys)
    PROVE  items[d.item] # NoRow /\ items[d.item].ttl # None /\ d.at <= now + items[d.item].ttl
<1>1. PICK k \in keys : items[k].ttl # None /\ d = [item |-> k, at |-> now + items[k].ttl]
  BY DEF Refreshes
<1>2. now \in Nat /\ items[k].ttl \in Nat /\ items[k] # NoRow
  BY <1>1, RowTypes DEF Rows
<1> QED
  BY <1>1, <1>2

\* The puts prepared change by one being added, stored, or having a field stored.
ReadyMove(c) ==
    \/ ready'[c] = ready[c]
    \/ ready'[c] = <<>>
    \/ \E i \in todo[c] :
          /\ Turn(c, i, "put") /\ ~ Removes(Ops(c)[i])
          /\ ready'[c] = Append(ready[c],
                [item |-> Ops(c)[i].item, row |-> NewRow(Ops(c)[i], now),
                 fields |-> IF With(c).embed THEN Ops(c)[i].fields ELSE <<>>])
    \/ pc[c] \in {"store", "clear_vectors", "store_vector"} /\ ready'[c] = Tail(ready[c])
    \/ pc[c] = "store_vector" /\ ready'[c] = [ready[c] EXCEPT ![1].fields = Tail(@)]

\* Expiries are due for rows just read, or left over from the last one written.
DueMove(c) ==
    pc'[c] = "refresh" =>
        \/ UNCHANGED items /\ \E keys \in SUBSET Rows(items) : due'[c] = Refreshes(keys)
        \/ pc[c] = "refresh" /\ due'[c] \subseteq due[c]

\* The steps of a thread change its locals in these ways alone.
LEMMA StepMovesLocals ==
    ASSUME TypeInv, NEW c \in Client, Invoke(c) \/ Step(c)
    PROVE  ReadyMove(c) /\ DueMove(c)
<1>1. ASSUME QueryError(c) \/ Raise(c) \/ (\E r : Leave(c, r))
      PROVE  ReadyMove(c) /\ DueMove(c)
  BY <1>1, EndLocals DEF ReadyMove, DueMove
<1>2. ASSUME NEW l, l # "refresh", Goto(c, l), UNCHANGED ready
      PROVE  ReadyMove(c) /\ DueMove(c)
  BY <1>2 DEF ReadyMove, DueMove, Goto, TypeInv, DbTypes, ThreadTypes
<1>3. CASE Invoke(c) \/ EnsureReady(c)
  <2>1. PICK l \in {"setup_lock", "probe_lock", "ensure", "lock"} : Goto(c, l) /\ UNCHANGED ready
    BY <1>3 DEF Invoke, Begin, EnsureReady, locals
  <2> QED
    BY <1>2, <2>1
<1>4. CASE SetupLock(c) \/ SetupStore(c) \/ SetupVectors(c)
  BY <1>1, <1>2, <1>4 DEF SetupLock, SetupStore, SetupVectors, SetUp, Acquire, GoOn, locals
<1>5. CASE ProbeLock(c) \/ ProbeStore(c) \/ ProbeVectors(c)
  BY <1>1, <1>2, <1>5
     DEF ProbeLock, ProbeStore, ProbeVectors, Ready, Probed, Acquire, GoOn, locals
<1>6. CASE Lock(c)
  <2>1. PICK l \in {"work", "sweep"} : Goto(c, l) /\ UNCHANGED ready
    BY <1>6 DEF Lock, StartWork
  <2> QED
    BY <1>2, <2>1
<1>7. ASSUME NEW keys \in SUBSET Rows(items), NEW refreshed, UNCHANGED <<items, ready>>,
             due' = [due EXCEPT ![c] = IF refreshed THEN Refreshes(keys) ELSE {}],
             GoOn(c, IF due'[c] = {} THEN "work" ELSE "refresh")
      PROVE  ReadyMove(c) /\ DueMove(c)
  BY <1>7 DEF ReadyMove, DueMove, GoOn, Goto, TypeInv, DbTypes, ThreadTypes
<1>8. CASE GetItem(c)
  <2>1. CASE QueryError(c)
    BY <1>1, <2>1
  <2>2. CASE ~ QueryError(c)
    BY <1>7, <1>8, <2>2 DEF GetItem, db
  <2> QED
    BY <2>1, <2>2
<1>9. CASE SearchItems(c)
  BY <1>1, <1>7, <1>9 DEF SearchItems, db
<1>10. CASE Refresh(c)
  <2>1. CASE QueryError(c) \/ Raise(c)
    BY <1>1, <2>1
  <2>2. CASE ~ (QueryError(c) \/ Raise(c))
    <3>1. pc[c] = "refresh" /\ UNCHANGED ready /\ \E d : due' = [due EXCEPT ![c] = @ \ {d}]
      BY <1>10, <2>2 DEF Refresh
    <3> QED
      BY <3>1 DEF ReadyMove, DueMove, TypeInv, DbTypes, ThreadTypes
  <2> QED
    BY <2>1, <2>2
<1>11. CASE AskIndex(c) \/ SearchRefused(c) \/ ListNamespaces(c)
  BY <1>1, <1>2, <1>11 DEF AskIndex, SearchRefused, ListNamespaces, GoOn, locals
<1>12. CASE PreparePut(c)
  <2>1. CASE QueryError(c)
    BY <1>1, <2>1
  <2>2. CASE GoOn(c, "work") /\ ~ UNCHANGED ready
    <3>1. pc'[c] = "work"
      BY <2>2 DEF GoOn, Goto, TypeInv, DbTypes, ThreadTypes
    <3> QED
      BY <1>12, <2>2, <3>1, EndLocals DEF PreparePut, ReadyMove, DueMove, TypeInv, DbTypes, ThreadTypes, locals
  <2>3. CASE UNCHANGED ready /\ \E l \in {"work", "delete_vectors", "delete_item"} : GoOn(c, l)
    BY <1>2, <2>3 DEF GoOn
  <2> QED
    BY <1>12, <2>1, <2>2, <2>3 DEF PreparePut, locals
<1>13. CASE DeleteVectors(c) \/ DeleteItem(c) \/ Embed(c)
  BY <1>1, <1>2, <1>13 DEF DeleteVectors, DeleteItem, Embed, GoOn, locals
<1>14. ASSUME Stored(c), pc[c] \in {"store", "clear_vectors", "store_vector"}
       PROVE  ReadyMove(c) /\ DueMove(c)
  BY <1>14 DEF Stored, GoOn, Goto, ReadyMove, DueMove, TypeInv, DbTypes, ThreadTypes
<1>15. CASE StoreItem(c) \/ ClearVectors(c)
  BY <1>1, <1>2, <1>14, <1>15 DEF StoreItem, ClearVectors, GoOn, locals
<1>16. CASE StoreVector(c)
  <2>1. CASE QueryError(c) \/ Stored(c)
    BY <1>1, <1>14, <1>16, <2>1 DEF StoreVector
  <2>2. CASE ~ (QueryError(c) \/ Stored(c))
    <3>1. /\ ready' = [ready EXCEPT ![c][1].fields = Tail(@)]
          /\ GoOn(c, "store_vector") /\ pc[c] = "store_vector"
      BY <1>16, <2>2 DEF StoreVector
    <3> QED
      BY <3>1 DEF GoOn, Goto, ReadyMove, DueMove, TypeInv, DbTypes, ThreadTypes
  <2> QED
    BY <2>1, <2>2
<1>17. CASE Return(c) \/ SweepItems(c) \/ SweepVectors(c)
  BY <1>1, <1>2, <1>17 DEF Return, SweepItems, SweepVectors, GoOn
<1> QED
  BY <1>3, <1>4, <1>5, <1>6, <1>8, <1>9, <1>10, <1>11, <1>12, <1>13, <1>15, <1>16, <1>17
     DEF Step

\* The operation under way, when it is a put.
LEMMA PutShape ==
    ASSUME TypeInv, NEW c \in Client, NEW i \in todo[c], Turn(c, i, "put")
    PROVE  Ops(c)[i] \in PutOp
<1>1. pc[c] \in Working
  BY DEF Turn, Working
<1> QED
  BY <1>1, BatchShape, OpShape DEF Turn

\* A step of a thread keeps the items timed.
LEMMA QueryItemsTimed ==
    ASSUME TypeInv, ExpiryInv, NEW c \in Client, ItemsMove(c), now' = now,
           NEW k \in Rows(items')
    PROVE  Timed(items'[k], now')
<1>1. now' = now
  OBVIOUS
<1>2. ASSUME NEW row, Timed(row, now) PROVE Timed(row, now')
  BY <1>1, <1>2 DEF Timed
<1>3. items \in ItemsTable
  BY DEF TypeInv, DbTypes, ThreadTypes
<1>4. k \in DbStoreItemId /\ items'[k] # NoRow
  BY DEF Rows
<1>5. CASE items'[k] = items[k]
  BY <1>2, <1>4, <1>5 DEF ExpiryInv, Rows
<1>6. CASE pc[c] = "refresh" /\ \E d \in due[c] :
             items[d.item] # NoRow /\ items' = UpdateExpiry(items, d.item, d.at)
  <2>1. PICK d \in due[c] : items[d.item] # NoRow /\ items' = UpdateExpiry(items, d.item, d.at)
    BY <1>6
  <2>2. CASE k # d.item
    BY <1>3, <1>4, <1>5, <2>1, <2>2 DEF UpdateExpiry, ItemsTable
  <2>3. CASE k = d.item
    <3>1. items[k] \in DbStoreItem /\ d.at \in Nat
      BY <1>4, <2>1, <2>3, RowTypes DEF Expiries
    <3>2. items'[k] = [items[k] EXCEPT !.expires_at = d.at]
      BY <1>3, <1>4, <2>1, <2>3 DEF UpdateExpiry, ItemsTable
    <3>3. items'[k].ttl = items[k].ttl /\ items'[k].expires_at = d.at
      BY <3>1, <3>2 DEF DbStoreItem
    <3>4. items[k].ttl # None /\ d.at <= now + items[k].ttl
      BY <1>6, <2>3 DEF ExpiryInv
    <3>5. d.at # None
      BY <3>1, NoneAssumption
    <3> QED
      BY <1>1, <3>3, <3>4, <3>5 DEF Timed
  <2> QED
    BY <2>2, <2>3
<1>7. CASE pc[c] = "delete_item" /\ \E i \in todo[c] : items' = Delete(items, Ops(c)[i].item)
  BY <1>3, <1>4, <1>5, <1>7 DEF Delete, ItemsTable
<1>8. CASE pc[c] = "store" /\ items' = Upsert(items, Head(ready[c]).item, Head(ready[c]).row)
  <2>1. CASE k # Head(ready[c]).item
    BY <1>3, <1>4, <1>5, <1>8, <2>1 DEF Upsert, ItemsTable
  <2>2. CASE k = Head(ready[c]).item
    <3>1. items'[k] = Head(ready[c]).row
      BY <1>3, <1>4, <1>8, <2>2 DEF Upsert, ItemsTable
    <3>2. Head(ready[c]) = ready[c][1] /\ 1 \in DOMAIN ready[c]
      BY <1>8, InvSplit, HeadPrepared
    <3>3. Timed(items'[k], now)
      BY <3>1, <3>2 DEF ExpiryInv
    <3> QED
      BY <1>2, <3>3
  <2> QED
    BY <2>1, <2>2
<1>9. CASE items' = DeleteAll(items, Expired(items, now))
  BY <1>4, <1>5, <1>9 DEF DeleteAll
<1> QED
  BY <1>5, <1>6, <1>7, <1>8, <1>9 DEF ItemsMove

\* A step of a thread keeps its prepared puts timed.
LEMMA StepReadyTimed ==
    ASSUME TypeInv, ExpiryInv, NEW c \in Client, Invoke(c) \/ Step(c),
           NEW n \in DOMAIN ready'[c]
    PROVE  Timed(ready'[c][n].row, now')
<1>1. now' = now
  BY StepFrame DEF Frame
<1>2. ASSUME NEW m \in DOMAIN ready[c], ready'[c][n].row = ready[c][m].row
      PROVE  Timed(ready'[c][n].row, now')
  BY <1>1, <1>2 DEF Timed, ExpiryInv
<1>3. ready[c] \in Seq(Prepared)
  BY InvSplit DEF ThreadInv, ThreadTypes
<1>4. CASE ready'[c] = ready[c] \/ ready'[c] = <<>>
  BY <1>2, <1>4
<1>5. CASE \E i \in todo[c] :
              /\ Turn(c, i, "put") /\ ~ Removes(Ops(c)[i])
              /\ ready'[c] = Append(ready[c],
                    [item |-> Ops(c)[i].item, row |-> NewRow(Ops(c)[i], now),
                     fields |-> IF With(c).embed THEN Ops(c)[i].fields ELSE <<>>])
  <2>1. PICK i \in todo[c] :
              /\ Turn(c, i, "put") /\ ~ Removes(Ops(c)[i])
              /\ ready'[c] = Append(ready[c],
                    [item |-> Ops(c)[i].item, row |-> NewRow(Ops(c)[i], now),
                     fields |-> IF With(c).embed THEN Ops(c)[i].fields ELSE <<>>])
    BY <1>5
  <2>2. Timed(NewRow(Ops(c)[i], now), now)
    BY <2>1, PutShape, NewRowTimed
  <2>3. CASE n \in DOMAIN ready[c]
    BY <1>2, <1>3, <2>1, <2>3
  <2>4. CASE n \notin DOMAIN ready[c]
    <3>1. ready'[c][n].row = NewRow(Ops(c)[i], now)
      BY <1>3, <2>1, <2>4
    <3> QED
      BY <1>1, <2>2, <3>1 DEF Timed
  <2> QED
    BY <2>3, <2>4
<1>6. CASE pc[c] \in {"store", "clear_vectors", "store_vector"} /\ ready'[c] = Tail(ready[c])
  <2>1. ready[c] # <<>>
    BY <1>6, InvSplit, HeadPrepared
  <2>2. n + 1 \in DOMAIN ready[c] /\ ready'[c][n] = ready[c][n + 1]
    BY <1>3, <1>6, <2>1
  <2> QED
    BY <1>2, <2>2
<1>7. CASE pc[c] = "store_vector" /\ ready'[c] = [ready[c] EXCEPT ![1].fields = Tail(@)]
  <2>1. n \in DOMAIN ready[c] /\ \A m \in DOMAIN ready[c] : ready[c][m] \in Prepared
    BY <1>7, RowTypes
  <2>2. ready'[c][n].row = ready[c][n].row
    BY <1>7, <2>1 DEF Prepared
  <2> QED
    BY <1>2, <2>1, <2>2
<1> QED
  BY <1>4, <1>5, <1>6, <1>7, StepMovesLocals DEF ReadyMove

\* What an expiry that is due is written to.
Refreshable(d) ==
    items[d.item] # NoRow /\ items[d.item].ttl # None /\ d.at <= now + items[d.item].ttl

\* A step of a thread keeps its own refreshes possible.
LEMMA StepDueTimed ==
    ASSUME TypeInv, ExpiryInv, NEW c \in Client, Invoke(c) \/ Step(c), pc'[c] = "refresh",
           NEW d \in due'[c]
    PROVE  Refreshable(d)'
<1>1. now' = now
  BY StepFrame DEF Frame
<1>2. CASE UNCHANGED items /\ \E keys \in SUBSET Rows(items) : due'[c] = Refreshes(keys)
  BY <1>1, <1>2, RefreshesTimed DEF Refreshable
<1>3. CASE pc[c] = "refresh" /\ due'[c] \subseteq due[c]
  <2>1. Refreshable(d)
    BY <1>3 DEF ExpiryInv, Refreshable
  <2>2. CASE UNCHANGED items
    BY <1>1, <2>1, <2>2 DEF Refreshable
  <2>3. CASE \E e \in due[c] :
               items[e.item] # NoRow /\ items' = UpdateExpiry(items, e.item, e.at)
    <3>1. PICK e \in due[c] :
               items[e.item] # NoRow /\ items' = UpdateExpiry(items, e.item, e.at)
      BY <2>3
    <3>2. d.item \in DbStoreItemId /\ items \in ItemsTable /\ items' \in ItemsTable
      BY <1>3, RowTypes, NextType DEF Expiries, TypeInv, DbTypes, ThreadTypes, Next
    <3>3. items[d.item] \in DbStoreItem
      BY <2>1, <3>2, RowTypes DEF Refreshable
    <3>4. items'[d.item] = items[d.item]
          \/ items'[d.item] = [items[d.item] EXCEPT !.expires_at = e.at]
      BY <3>1, <3>2 DEF UpdateExpiry, ItemsTable
    <3>5. e.at \in Nat
      BY RowTypes DEF Expiries
    <3>6. /\ [items[d.item] EXCEPT !.expires_at = e.at] \in DbStoreItem
          /\ [items[d.item] EXCEPT !.expires_at = e.at].ttl = items[d.item].ttl
      BY <3>3, <3>5 DEF DbStoreItem
    <3>7. items'[d.item] # NoRow /\ items'[d.item].ttl = items[d.item].ttl
      BY <2>1, <3>4, <3>6, NoRowAssumption DEF Refreshable
    <3> QED
      BY <1>1, <2>1, <3>7 DEF Refreshable
  <2> QED
    BY <1>3, <2>2, <2>3, StepMovesTables DEF ItemsMove
<1> QED
  BY <1>2, <1>3, StepMovesLocals DEF DueMove

\* Every step keeps rows, prepared puts and refreshes timed.
LEMMA NextExpiry ==
    ASSUME SingleStore
    PROVE  TypeInv /\ LockDiscipline /\ ExpiryInv /\ [Next]_vars => ExpiryInv'
<1> SUFFICES ASSUME TypeInv, LockDiscipline, ExpiryInv, [Next]_vars PROVE ExpiryInv'
  OBVIOUS
<1>1. CASE Finished \/ UNCHANGED vars
  BY <1>1 DEF Finished, vars, ExpiryInv, Timed
<1>2. CASE Tick
  <2>1. now' = now + 1 /\ UNCHANGED <<items, ready, due, pc>>
    BY <1>2 DEF Tick, db, locals
  <2>2. \A k \in Rows(items) : Timed(items[k], now')
    BY <2>1, RowTypes, TimedLater DEF ExpiryInv, Rows
  <2>3. \A c \in Client : \A n \in DOMAIN ready[c] : Timed(ready[c][n].row, now')
    BY <2>1, RowTypes, TimedLater DEF ExpiryInv, Prepared
  <2>4. ASSUME NEW c \in Client, pc[c] = "refresh", NEW d \in due[c]
        PROVE  Refreshable(d)'
    <3>1. Refreshable(d) /\ d.item \in DbStoreItemId /\ d.at \in Nat
      BY <2>4, RowTypes DEF ExpiryInv, Refreshable, Expiries
    <3>2. now \in Nat /\ items[d.item].ttl \in Nat
      BY <3>1, RowTypes DEF Refreshable
    <3> QED
      BY <2>1, <3>1, <3>2 DEF Refreshable
  <2> QED
    BY <2>1, <2>2, <2>3, <2>4 DEF ExpiryInv, Refreshable, Timed, Rows
<1>3. ASSUME NEW c \in Client, Invoke(c) \/ Step(c) PROVE ExpiryInv'
  <2>1. \A k \in Rows(items') : Timed(items'[k], now')
    BY <1>3, StepFrame, StepMovesTables, QueryItemsTimed DEF Frame
  <2>2. ASSUME NEW d \in Client, NEW n \in DOMAIN ready'[d] PROVE Timed(ready'[d][n].row, now')
    <3>1. CASE d = c
      BY <1>3, <2>2, <3>1, StepReadyTimed
    <3>2. CASE d # c
      BY <1>3, <2>2, <3>2, StepFrame DEF Frame, ExpiryInv, Timed
    <3> QED
      BY <3>1, <3>2
  <2>3. ASSUME NEW d \in Client, pc'[d] = "refresh", NEW e \in due'[d] PROVE Refreshable(e)'
    <3>1. CASE d = c
      BY <1>3, <2>3, <3>1, StepDueTimed
    <3>2. CASE d # c
      <4>1. pc[d] = "refresh" /\ due'[d] = due[d] /\ now' = now
        BY <1>3, <2>3, <3>2, StepFrame DEF Frame
      <4>2. UNCHANGED items
        BY <1>3, <3>2, <4>1, OthersKeepOut DEF Critical, DataQuery
      <4> QED
        BY <2>3, <4>1, <4>2 DEF ExpiryInv, Refreshable
    <3> QED
      BY <3>1, <3>2
  <2> QED
    BY <2>1, <2>2, <2>3 DEF ExpiryInv, Refreshable, Rows
<1> QED
  BY <1>1, <1>2, <1>3 DEF Next

\* Through one store, an item expires if and only if it has a time to live, and no
\* later than that time from now, although reads write expiries they computed from
\* an earlier query.
THEOREM ExpiryFollowsTtl ==
    ASSUME SingleStore
    PROVE  Spec => []ExpiryMatchesTtl
<1>1. Init => TypeInv /\ LockDiscipline /\ ExpiryInv
  <2>1. Init => LockDiscipline /\ ExpiryInv
    BY StoreOfAssumption, FreeAssumption
       DEF Init, LockDiscipline, ExpiryInv, Critical, DataQuery, Rows, EmptyItems
  <2> QED
    BY <2>1, InitType
<1>2. TypeInv /\ LockDiscipline /\ ExpiryInv /\ [Next]_vars
        => (TypeInv /\ LockDiscipline /\ ExpiryInv)'
  BY NextType, NextLocks, NextExpiry
<1>3. ExpiryInv => ExpiryMatchesTtl
  BY DEF ExpiryInv, ExpiryMatchesTtl, Timed
<1> QED
  BY <1>1, <1>2, <1>3, PTL DEF Spec

-----------------------------------------------------------------------------
(* The operation under way *)

\* A set of numbers that is not empty has a least one.
LEMMA Least ==
    ASSUME NEW T \in SUBSET Nat, T # {}
    PROVE  \E x \in T : \A y \in T : x <= y
<1>1. PICK x \in T : \A y \in T : <<y, x>> \notin OpToRel(<, Nat)
  BY WFMin, NatLessThanWellFounded, Zenon
<1>2. \A y \in T : ~ (y < x)
  BY <1>1, Zenon DEF OpToRel
<1> QED
  BY <1>2

\* The dict keeps the place of one of the puts of an item.
LEMMA PlaceSame ==
    ASSUME NEW m \in Seq(Op), NEW i, IsPut(m, i)
    PROVE  Place(m, i) \in SameItem(m, i)
<1>1. SameItem(m, i) \in SUBSET Nat /\ SameItem(m, i) # {}
  BY DEF SameItem, IsPut
<1>2. \E j \in SameItem(m, i) : \A k \in SameItem(m, i) : j <= k
  BY <1>1, Least
<1> QED
  BY <1>2 DEF Place

\* Of the puts that count, no two are for one item.
LEMMA EffectivePuts ==
    ASSUME NEW m \in Seq(Op), NEW i \in Effective(m), NEW j \in Effective(m),
           IsPut(m, i), IsPut(m, j), m[i].item = m[j].item
    PROVE  i = j
<1>1. i \in SameItem(m, j) /\ j \in SameItem(m, i)
  BY DEF SameItem, IsPut
<1>2. i \in Nat /\ j \in Nat
  BY DEF IsPut
<1> QED
  BY <1>1, <1>2 DEF Effective

\* A put under way is the one operation under way.
LEMMA OneTurn ==
    ASSUME TypeInv, NEW c \in Client, pc[c] \in Working,
           NEW i \in todo[c], Current(c, i), IsPut(Ops(c), i),
           NEW j \in todo[c], Current(c, j)
    PROVE  i = j
<1> DEFINE m == Ops(c)
<1>1. /\ m \in Seq(Op) /\ i \in Effective(m) /\ j \in Effective(m)
      /\ m[i] \in Op /\ m[j] \in Op /\ j \in DOMAIN m
  BY BatchShape
<1>2. Before(m, i, j) /\ Before(m, j, i)
  BY DEF Current
<1>3. m[i].op = "put" /\ m[j].op \in {"get", "search", "list_namespaces", "put"}
  BY <1>1, OpShape DEF IsPut
<1>4. IsPut(m, j)
  BY <1>1, <1>2, <1>3 DEF Before, Rank, IsPut
<1>5. Place(m, i) \in SameItem(m, i) /\ Place(m, j) \in SameItem(m, j)
  BY <1>1, <1>4, PlaceSame
<1>6. Place(m, i) \in Nat /\ Place(m, j) \in Nat
  BY <1>1, <1>5 DEF SameItem
<1>7. Place(m, i) = Place(m, j)
  BY <1>2, <1>3, <1>4, <1>6 DEF Before, Rank, IsPut
<1>8. m[i].item = m[j].item
  BY <1>5, <1>7 DEF SameItem
<1> QED
  BY <1>1, <1>4, <1>8, EffectivePuts

\* The labels of the queries that change items or vectors, and the steps that go there.
Arrives(c) ==
    /\ pc'[c] \in {"delete_vectors", "delete_item"} =>
          /\ UNCHANGED <<items, locals, call>>
          /\ \/ /\ UNCHANGED vectors
                /\ pc'[c] = "delete_item" => ~ With(c).index
                /\ \E i \in todo[c] : Turn(c, i, "put") /\ Removes(Ops(c)[i])
             \/ /\ pc[c] = "delete_vectors" /\ pc'[c] = "delete_item"
                /\ \E i \in todo[c] :
                      Current(c, i) /\ vectors' = DeleteByItem(vectors, Ops(c)[i].item)
    /\ pc'[c] = "clear_vectors" =>
          /\ pc[c] = "store" /\ With(c).index /\ UNCHANGED <<vectors, locals, call>>
          /\ items' = Upsert(items, Head(ready[c]).item, Head(ready[c]).row)
    /\ pc'[c] = "store_vector" =>
          /\ UNCHANGED <<items, call, todo>>
          /\ \/ /\ pc[c] = "clear_vectors" /\ UNCHANGED ready
                /\ vectors' = DeleteByItem(vectors, Head(ready[c]).item)
             \/ /\ pc[c] = "store_vector"
                /\ ready' = [ready EXCEPT ![c][1].fields = Tail(@)]
                /\ LET put == Head(ready[c]) IN
                   vectors' = UpsertVector(vectors, put.item, Head(put.fields), put.row.value)
    /\ pc'[c] = "sweep_vectors" =>
          \/ /\ pc[c] = "sweep" /\ With(c).index /\ UNCHANGED vectors
             /\ items' = DeleteAll(items, Expired(items, now))
             /\ gone'[c] = Expired(items, now)
          \/ /\ pc[c] = "sweep_vectors" /\ UNCHANGED items
             /\ \E k \in gone[c] : /\ vectors' = DeleteByItem(vectors, k)
                                   /\ gone'[c] = gone[c] \ {k}

\* The steps of a thread that are not among these go elsewhere.
LEMMA StepArrives ==
    ASSUME TypeInv, NEW c \in Client, Invoke(c) \/ Step(c)
    PROVE  Arrives(c)
<1>1. ASSUME NEW l, Goto(c, l),
             l \notin {"delete_vectors", "delete_item", "clear_vectors", "store_vector",
                       "sweep_vectors"}
      PROVE  Arrives(c)
  BY <1>1 DEF Arrives, Goto, TypeInv, DbTypes, ThreadTypes
<1>2. ASSUME QueryError(c) \/ Raise(c) \/ (\E r : Leave(c, r))
      PROVE  Arrives(c)
  BY <1>1, <1>2 DEF QueryError, Raise, Leave, End
<1>3. ASSUME NEW l, GoOn(c, l) PROVE Goto(c, l) /\ pc'[c] = l /\ UNCHANGED call
  BY <1>3 DEF GoOn, Goto, TypeInv, DbTypes, ThreadTypes
<1>4. CASE Invoke(c) \/ EnsureReady(c) \/ Lock(c)
  BY <1>1, <1>4 DEF Invoke, Begin, EnsureReady, Lock, StartWork
<1>5. CASE SetupLock(c) \/ SetupStore(c) \/ SetupVectors(c)
  BY <1>1, <1>2, <1>3, <1>5 DEF SetupLock, SetupStore, SetupVectors, SetUp, Acquire
<1>6. CASE ProbeLock(c) \/ ProbeStore(c) \/ ProbeVectors(c)
  BY <1>1, <1>2, <1>3, <1>6 DEF ProbeLock, ProbeStore, ProbeVectors, Ready, Probed, Acquire
<1>7. CASE GetItem(c) \/ Refresh(c) \/ AskIndex(c)
  BY <1>1, <1>2, <1>3, <1>7 DEF GetItem, Refresh, AskIndex
<1>8. CASE SearchItems(c) \/ SearchRefused(c) \/ ListNamespaces(c)
  BY <1>1, <1>2, <1>3, <1>8 DEF SearchItems, SearchRefused, ListNamespaces
<1>9. CASE PreparePut(c)
  <2>1. CASE QueryError(c) \/ GoOn(c, "work")
    BY <1>1, <1>2, <1>3, <2>1
  <2>2. CASE ~ (QueryError(c) \/ GoOn(c, "work"))
    <3>1. /\ \E i \in todo[c] : Turn(c, i, "put") /\ Removes(Ops(c)[i])
          /\ GoOn(c, IF With(c).index THEN "delete_vectors" ELSE "delete_item")
          /\ UNCHANGED <<locals, items, vectors>>
      BY <1>9, <2>2 DEF PreparePut, db
    <3> QED
      BY <1>3, <3>1 DEF Arrives
  <2> QED
    BY <2>1, <2>2
<1>10. CASE DeleteVectors(c)
  <2>1. CASE QueryError(c)
    BY <1>2, <2>1
  <2>2. CASE ~ QueryError(c)
    <3>1. /\ pc[c] = "delete_vectors" /\ UNCHANGED <<locals, items>>
          /\ GoOn(c, "delete_item")
          /\ \E i \in todo[c] :
                Current(c, i) /\ vectors' = DeleteByItem(vectors, Ops(c)[i].item)
      BY <1>10, <2>2 DEF DeleteVectors
    <3> QED
      BY <1>3, <3>1 DEF Arrives
  <2> QED
    BY <2>1, <2>2
<1>11. CASE DeleteItem(c) \/ Embed(c)
  BY <1>1, <1>2, <1>3, <1>11 DEF DeleteItem, Embed
<1>12. ASSUME Stored(c) PROVE Arrives(c)
  BY <1>1, <1>3, <1>12 DEF Stored
<1>13. CASE StoreItem(c)
  <2>1. CASE QueryError(c) \/ Stored(c)
    BY <1>2, <1>12, <2>1
  <2>2. CASE ~ (QueryError(c) \/ Stored(c))
    <3>1. /\ pc[c] = "store" /\ With(c).index /\ UNCHANGED <<vectors, locals>>
          /\ items' = Upsert(items, Head(ready[c]).item, Head(ready[c]).row)
          /\ GoOn(c, "clear_vectors")
      BY <1>13, <2>2 DEF StoreItem
    <3> QED
      BY <1>3, <3>1 DEF Arrives
  <2> QED
    BY <2>1, <2>2
<1>14. CASE ClearVectors(c)
  <2>1. CASE QueryError(c) \/ Stored(c)
    BY <1>2, <1>12, <2>1
  <2>2. CASE ~ (QueryError(c) \/ Stored(c))
    <3>1. /\ pc[c] = "clear_vectors" /\ UNCHANGED <<items, locals>>
          /\ vectors' = DeleteByItem(vectors, Head(ready[c]).item)
          /\ GoOn(c, "store_vector")
      BY <1>14, <2>2 DEF ClearVectors
    <3> QED
      BY <1>3, <3>1 DEF Arrives, locals
  <2> QED
    BY <2>1, <2>2
<1>15. CASE StoreVector(c)
  <2>1. CASE QueryError(c) \/ Stored(c)
    BY <1>2, <1>12, <2>1
  <2>2. CASE ~ (QueryError(c) \/ Stored(c))
    <3>1. /\ pc[c] = "store_vector" /\ UNCHANGED <<items, todo>>
          /\ LET put == Head(ready[c]) IN
             vectors' = UpsertVector(vectors, put.item, Head(put.fields), put.row.value)
          /\ ready' = [ready EXCEPT ![c][1].fields = Tail(@)]
          /\ GoOn(c, "store_vector")
      BY <1>15, <2>2 DEF StoreVector
    <3> QED
      BY <1>3, <3>1 DEF Arrives
  <2> QED
    BY <2>1, <2>2
<1>16. CASE SweepItems(c)
  <2>1. CASE QueryError(c) \/ Leave(c, Outcome("ok"))
    BY <1>2, <2>1
  <2>2. CASE ~ (QueryError(c) \/ Leave(c, Outcome("ok")))
    <3>1. /\ pc[c] = "sweep" /\ With(c).index /\ UNCHANGED vectors
          /\ items' = DeleteAll(items, Expired(items, now))
          /\ gone'[c] = Expired(items, now)
          /\ GoOn(c, "sweep_vectors")
      BY <1>16, <2>2 DEF SweepItems, TypeInv, DbTypes, ThreadTypes
    <3> QED
      BY <1>3, <3>1 DEF Arrives
  <2> QED
    BY <2>1, <2>2
<1>17. CASE SweepVectors(c)
  <2>1. CASE QueryError(c) \/ Leave(c, Outcome("ok"))
    BY <1>2, <2>1
  <2>2. CASE ~ (QueryError(c) \/ Leave(c, Outcome("ok")))
    <3>1. /\ pc[c] = "sweep_vectors" /\ UNCHANGED items
          /\ \E k \in gone[c] : /\ vectors' = DeleteByItem(vectors, k)
                                /\ gone'[c] = gone[c] \ {k}
          /\ GoOn(c, "sweep_vectors")
      BY <1>17, <2>2 DEF SweepVectors, TypeInv, DbTypes, ThreadTypes
    <3> QED
      BY <1>3, <3>1 DEF Arrives
  <2> QED
    BY <2>1, <2>2
<1>18. CASE Return(c)
  BY <1>2, <1>18 DEF Return
<1> QED
  BY <1>4, <1>5, <1>6, <1>7, <1>8, <1>9, <1>10, <1>11, <1>13, <1>14, <1>15, <1>16, <1>17, <1>18
     DEF Step

-----------------------------------------------------------------------------
(* One store: deletions *)

\* A thread's own step leaves its deletion, if it is in one, as DeletingInv says.
LEMMA OwnDeleting ==
    ASSUME TypeInv, DeletingInv, NEW c \in Client, Invoke(c) \/ Step(c),
           pc'[c] \in {"delete_vectors", "delete_item"}, NEW j \in todo'[c], Current(c, j)'
    PROVE  /\ IsPut(Ops(c), j)' /\ Removes(Ops(c)[j])'
           /\ pc'[c] = "delete_item" => ~ HasVector(vectors', Ops(c)'[j].item)
<1>1. Arrives(c)
  BY StepArrives
<1>2. UNCHANGED <<todo, call>> /\ Ops(c)' = Ops(c) /\ Current(c, j) /\ j \in todo[c]
  BY <1>1 DEF Arrives, locals, Ops, Current
<1>3. CASE UNCHANGED vectors /\ (pc'[c] = "delete_item" => ~ With(c).index)
           /\ \E i \in todo[c] : Turn(c, i, "put") /\ Removes(Ops(c)[i])
  <2>1. PICK i \in todo[c] : Turn(c, i, "put") /\ Removes(Ops(c)[i])
    BY <1>3
  <2>2. pc[c] \in Working /\ Current(c, i) /\ Ops(c)[i].op = "put"
    BY <2>1 DEF Turn, Working
  <2>3. IsPut(Ops(c), i)
    BY <2>2, BatchShape DEF IsPut
  <2>4. i = j
    BY <1>2, <2>2, <2>3, OneTurn
  <2>5. ~ With(c).index => ~ HasVector(vectors, Ops(c)[j].item)
    <3>1. Ops(c)[j].item \in DbStoreItemId
      BY <2>1, <2>4, PutShape DEF PutOp
    <3> QED
      BY <3>1 DEF DeletingInv, HasVector, EmptyVectors, NoVectors
  <2> QED
    BY <1>2, <1>3, <2>1, <2>3, <2>4, <2>5 DEF IsPut, Removes
<1>4. CASE pc[c] = "delete_vectors" /\ pc'[c] = "delete_item"
           /\ \E i \in todo[c] :
                 Current(c, i) /\ vectors' = DeleteByItem(vectors, Ops(c)[i].item)
  <2>1. PICK i \in todo[c] :
                 Current(c, i) /\ vectors' = DeleteByItem(vectors, Ops(c)[i].item)
    BY <1>4
  <2>2. IsPut(Ops(c), i) /\ Removes(Ops(c)[i]) /\ pc[c] \in Working
    BY <1>4, <2>1 DEF DeletingInv, Working
  <2>3. i = j
    BY <1>2, <2>1, <2>2, OneTurn
  <2>4. Ops(c)[j].item \in DbStoreItemId
    BY <2>2, <2>3, BatchShape, OpShape DEF IsPut, PutOp
  <2>5. ~ HasVector(vectors', Ops(c)[j].item)
    BY <2>1, <2>3, <2>4 DEF TypeInv, DbTypes, ThreadTypes, VectorsTable, HasVector, DeleteByItem, NoVectors
  <2> QED
    BY <1>2, <2>2, <2>3, <2>5 DEF IsPut, Removes
<1> QED
  BY <1>1, <1>3, <1>4 DEF Arrives

\* Every step keeps the deletions under way as they should be.
LEMMA NextDeleting ==
    ASSUME SingleStore
    PROVE  TypeInv /\ LockDiscipline /\ DeletingInv /\ [Next]_vars => DeletingInv'
<1> SUFFICES ASSUME TypeInv, LockDiscipline, DeletingInv, [Next]_vars PROVE DeletingInv'
  OBVIOUS
<1>1. CASE Tick \/ Finished \/ UNCHANGED vars
  <2>1. UNCHANGED <<pc, call, todo, vectors>>
    BY <1>1 DEF Tick, Finished, vars, db, locals
  <2> QED
    BY <2>1 DEF DeletingInv, Current, Ops, With
<1>2. ASSUME NEW c \in Client, Invoke(c) \/ Step(c) PROVE DeletingInv'
  <2>1. ASSUME NEW d \in Client, pc'[d] \in {"delete_vectors", "delete_item"},
               NEW j \in todo'[d], Current(d, j)'
        PROVE  /\ IsPut(Ops(d), j)' /\ Removes(Ops(d)[j])'
               /\ pc'[d] = "delete_item" => ~ HasVector(vectors', Ops(d)'[j].item)
    <3>1. CASE d = c
      BY <1>2, <2>1, <3>1, OwnDeleting
    <3>2. CASE d # c
      <4>1. pc[d] = pc'[d] /\ call'[d] = call[d] /\ todo'[d] = todo[d]
        BY <1>2, <3>2, StepFrame DEF Frame
      <4>2. UNCHANGED vectors
        BY <1>2, <2>1, <3>2, <4>1, OthersKeepOut DEF Critical, DataQuery
      <4>3. Ops(d)' = Ops(d) /\ Current(d, j)
        BY <2>1, <4>1 DEF Ops, Current
      <4> QED
        BY <2>1, <4>1, <4>2, <4>3 DEF DeletingInv, IsPut, Removes
    <3> QED
      BY <3>1, <3>2
  <2>2. ASSUME NEW d \in Client, ~ With(d).index PROVE vectors' = EmptyVectors
    <3>1. vectors = EmptyVectors /\ ~ With(c).index
      BY <2>2 DEF DeletingInv, With, SingleStore
    <3>2. pc[c] # "store_vector"
      BY <3>1 DEF DeletingInv
    <3>3. \A k : DeleteByItem(vectors, k) = vectors
      BY <3>1 DEF DeleteByItem, EmptyVectors
    <3> QED
      BY <1>2, <3>1, <3>2, <3>3, StepMovesTables DEF VectorsMove
  <2>3. ASSUME NEW d \in Client, pc'[d] \in {"clear_vectors", "store_vector"}
        PROVE  With(d).index
    <3>1. CASE d = c
      BY <1>2, <2>3, <3>1, StepArrives DEF Arrives, DeletingInv
    <3>2. CASE d # c
      BY <1>2, <2>3, <3>2, StepFrame DEF Frame, DeletingInv
    <3> QED
      BY <3>1, <3>2
  <2> QED
    BY <2>1, <2>2, <2>3 DEF DeletingInv, With
<1> QED
  BY <1>1, <1>2 DEF Next

\* Through one store, what DeletingInv says always holds.
LEMMA Deletions ==
    ASSUME SingleStore
    PROVE  Spec => [](TypeInv /\ LockDiscipline /\ DeletingInv)
<1>1. Init => TypeInv /\ LockDiscipline /\ DeletingInv
  <2>1. Init => LockDiscipline /\ DeletingInv
    BY StoreOfAssumption, FreeAssumption
       DEF Init, LockDiscipline, DeletingInv, Critical, DataQuery
  <2> QED
    BY <2>1, InitType
<1>2. TypeInv /\ LockDiscipline /\ DeletingInv /\ [Next]_vars
        => (TypeInv /\ LockDiscipline /\ DeletingInv)'
  BY NextType, NextLocks, NextDeleting
<1> QED
  BY <1>1, <1>2, PTL DEF Spec

\* A sweep that removes an item with vectors remembers it, or has failed.
LEMMA SweepRemembers ==
    ASSUME TypeInv, DeletingInv, NEW c \in Client, Step(c), pc[c] = "sweep",
           NEW k \in Expired(items, now), HasVector(vectors, k)
    PROVE  k \in gone'[c] \/ failures' > failures
<1>1. SweepItems(c)
  BY DEF Step, EnsureReady, SetupLock, SetupStore, SetupVectors, ProbeLock, ProbeStore,
         ProbeVectors, Lock, GetItem, Refresh, AskIndex, SearchItems, SearchRefused,
         ListNamespaces, PreparePut, DeleteVectors, DeleteItem, Embed, StoreItem, ClearVectors,
         StoreVector, Return, SweepVectors, Turn
<1>2. CASE QueryError(c)
  BY <1>2 DEF QueryError, TypeInv, DbTypes, ThreadTypes
<1>3. CASE ~ QueryError(c)
  <2>1. k \in DbStoreItemId
    BY DEF Expired, Rows
  <2>2. With(c).index
    BY <2>1 DEF DeletingInv, HasVector, EmptyVectors, NoVectors
  <2>3. gone' = [gone EXCEPT ![c] = Expired(items, now)]
    BY <1>1, <1>3, <2>2 DEF SweepItems
  <2> QED
    BY <2>3 DEF TypeInv, DbTypes, ThreadTypes
<1> QED
  BY <1>2, <1>3

\* Through one store, whatever fails and wherever, only a sweep removes an item and
\* leaves vectors behind, and it remembers them unless its own query failed.
THEOREM SweepsAloneOrphan ==
    ASSUME SingleStore
    PROVE  Spec => OnlySweepsOrphan
<1> DEFINE Removed(k) == items[k] # NoRow /\ items'[k] = NoRow /\ HasVector(vectors, k)
           Swept(k) == \E c \in Client : /\ pc[c] = "sweep" /\ k \in Expired(items, now)
                                         /\ k \in gone'[c] \/ failures' > failures
<1>1. ASSUME TypeInv, DeletingInv, [Next]_vars
      PROVE  [\A k \in DbStoreItemId : Removed(k) => Swept(k)]_vars
  <2> SUFFICES ASSUME NEW k \in DbStoreItemId, Removed(k) PROVE Swept(k)
    OBVIOUS
  <2>1. PICK c \in Client : Invoke(c) \/ Step(c)
    BY <1>1 DEF Next, Finished, Tick, vars, db
  <2>2. items \in ItemsTable /\ items' \in ItemsTable
    BY <1>1, NextType DEF TypeInv, DbTypes, ThreadTypes
  <2>3. CASE \E d \in due[c] :
                items[d.item] # NoRow /\ items' = UpdateExpiry(items, d.item, d.at)
    <3>1. PICK d \in due[c] :
                items[d.item] # NoRow /\ items' = UpdateExpiry(items, d.item, d.at)
      BY <2>3
    <3>2. d.item \in DbStoreItemId /\ d.at \in Nat
      BY <1>1, RowTypes DEF Expiries
    <3>3. [items[d.item] EXCEPT !.expires_at = d.at] \in DbStoreItem
      BY <1>1, <3>1, <3>2, RowTypes DEF DbStoreItem
    <3>4. items'[k] = items[k] \/ items'[k] \in DbStoreItem
      BY <2>2, <3>1, <3>2, <3>3 DEF UpdateExpiry, ItemsTable
    <3> QED
      BY <3>4, NoRowAssumption
  <2>4. CASE pc[c] = "delete_item"
             /\ \E i \in todo[c] : Current(c, i) /\ items' = Delete(items, Ops(c)[i].item)
    BY <1>1, <2>2, <2>4 DEF DeletingInv, Delete, ItemsTable
  <2>5. CASE pc[c] = "store" /\ items' = Upsert(items, Head(ready[c]).item, Head(ready[c]).row)
    <3>1. Head(ready[c]).row \in DbStoreItem
      BY <1>1, <2>5, InvSplit, HeadPrepared DEF Prepared
    <3> QED
      BY <2>2, <2>5, <3>1, NoRowAssumption DEF Upsert, ItemsTable
  <2>6. CASE pc[c] = "sweep" /\ items' = DeleteAll(items, Expired(items, now))
    <3>1. k \in Expired(items, now)
      BY <2>6 DEF DeleteAll
    <3>2. Step(c)
      BY <2>1, <2>6 DEF Invoke, Begin
    <3> QED
      BY <1>1, <2>6, <3>1, <3>2, SweepRemembers
  <2> QED
    BY <2>1, <2>3, <2>4, <2>5, <2>6, StepMovesTables DEF ItemsMove
<1> QED
  BY <1>1, Deletions, PTL DEF Spec, OnlySweepsOrphan

-----------------------------------------------------------------------------
(* One store: vectors follow items *)

\* The queries that write data, when they do not fail.
Departs(c) ==
    /\ pc[c] = "store" =>
          /\ items' = Upsert(items, Head(ready[c]).item, Head(ready[c]).row)
          /\ UNCHANGED vectors
          /\ With(c).index => pc'[c] = "clear_vectors" /\ UNCHANGED ready
    /\ pc[c] = "clear_vectors" =>
          vectors' = DeleteByItem(vectors, Head(ready[c]).item) /\ UNCHANGED items
    /\ pc[c] = "sweep" =>
          /\ items' = DeleteAll(items, Expired(items, now)) /\ UNCHANGED vectors
          /\ With(c).index /\ Expired(items, now) # {} =>
                pc'[c] = "sweep_vectors" /\ gone'[c] = Expired(items, now)
    /\ pc[c] = "sweep_vectors" =>
          /\ UNCHANGED items
          /\ \E k \in gone[c] :
                /\ vectors' = DeleteByItem(vectors, k)
                /\ gone[c] # {k} => pc'[c] = "sweep_vectors" /\ gone'[c] = gone[c] \ {k}

\* A query that does not fail has its effect.
LEMMA StepDeparts ==
    ASSUME TypeInv, NEW c \in Client, Step(c), failures' = failures
    PROVE  Departs(c)
<1>1. ~ QueryError(c)
  BY DEF QueryError, TypeInv, DbTypes, ThreadTypes
<1>2. ASSUME pc[c] \notin {"store", "clear_vectors", "sweep", "sweep_vectors"}
      PROVE  Departs(c)
  BY <1>2 DEF Departs
<1>3. CASE EnsureReady(c) \/ SetupLock(c) \/ SetupStore(c) \/ SetupVectors(c)
           \/ ProbeLock(c) \/ ProbeStore(c) \/ ProbeVectors(c) \/ Lock(c)
  BY <1>2, <1>3 DEF EnsureReady, SetupLock, SetupStore, SetupVectors, ProbeLock, ProbeStore,
                    ProbeVectors, Lock
<1>4. CASE GetItem(c) \/ Refresh(c) \/ AskIndex(c) \/ SearchItems(c) \/ SearchRefused(c)
           \/ ListNamespaces(c) \/ PreparePut(c) \/ DeleteVectors(c) \/ DeleteItem(c)
           \/ Embed(c) \/ StoreVector(c) \/ Return(c)
  BY <1>2, <1>4 DEF GetItem, Refresh, AskIndex, SearchItems, SearchRefused, ListNamespaces,
                    PreparePut, DeleteVectors, DeleteItem, Embed, StoreVector, Return, Turn
<1>5. CASE StoreItem(c)
  BY <1>1, <1>5 DEF StoreItem, Departs, GoOn, Goto, locals, TypeInv, DbTypes, ThreadTypes
<1>6. CASE ClearVectors(c)
  BY <1>1, <1>6 DEF ClearVectors, Departs
<1>7. CASE SweepItems(c)
  BY <1>1, <1>7 DEF SweepItems, Departs, GoOn, Goto, TypeInv, DbTypes, ThreadTypes
<1>8. CASE SweepVectors(c)
  BY <1>1, <1>8 DEF SweepVectors, Departs, GoOn, Goto, TypeInv, DbTypes, ThreadTypes
<1> QED
  BY <1>3, <1>4, <1>5, <1>6, <1>7, <1>8 DEF Step

\* Failures are counted and never forgotten.
LEMMA FailuresGrow ==
    ASSUME TypeInv, NEW c \in Client, Invoke(c) \/ Step(c)
    PROVE  failures' \in Nat /\ failures \in Nat /\ failures' >= failures
<1>1. failures \in Nat
  BY DEF TypeInv, DbTypes, ThreadTypes
<1>2. QueryError(c) => failures' = failures + 1
  BY DEF QueryError
<1>3. ~ QueryError(c) => UNCHANGED failures
  <2>1. (Raise(c) \/ (\E l : GoOn(c, l)) \/ SetUp(c) \/ Ready(c) \/ Stored(c)) => UNCHANGED failures
    BY DEF Raise, GoOn, SetUp, Ready, Stored
  <2>2. CASE Invoke(c) \/ EnsureReady(c) \/ SetupLock(c) \/ SetupStore(c) \/ SetupVectors(c)
             \/ ProbeLock(c) \/ ProbeStore(c) \/ ProbeVectors(c) \/ Lock(c)
    BY <2>1, <2>2 DEF Invoke, Begin, EnsureReady, SetupLock, SetupStore, SetupVectors,
                      ProbeLock, ProbeStore, ProbeVectors, Lock, StartWork
  <2>3. CASE GetItem(c) \/ Refresh(c) \/ AskIndex(c) \/ SearchItems(c) \/ SearchRefused(c)
             \/ ListNamespaces(c)
    BY <2>1, <2>3 DEF GetItem, Refresh, AskIndex, SearchItems, SearchRefused, ListNamespaces
  <2>4. CASE PreparePut(c) \/ DeleteVectors(c) \/ DeleteItem(c) \/ Embed(c)
    BY <2>1, <2>4 DEF PreparePut, DeleteVectors, DeleteItem, Embed
  <2>5. CASE StoreItem(c) \/ ClearVectors(c) \/ StoreVector(c)
    BY <2>1, <2>5 DEF StoreItem, ClearVectors, StoreVector
  <2>6. CASE Return(c) \/ SweepItems(c) \/ SweepVectors(c)
    BY <2>1, <2>6 DEF Return, SweepItems, SweepVectors
  <2> QED
    BY <2>2, <2>3, <2>4, <2>5, <2>6 DEF Step
<1> QED
  BY <1>1, <1>2, <1>3

\* What a refresh leaves as it was.
LEMMA RefreshKeeps ==
    ASSUME TypeInv, NEW c \in Client, NEW d \in due[c], items[d.item] # NoRow,
           items' = UpdateExpiry(items, d.item, d.at), NEW k \in DbStoreItemId, items[k] # NoRow
    PROVE  items'[k] # NoRow /\ items'[k].value = items[k].value /\ items'[k].ttl = items[k].ttl
<1>1. d.item \in DbStoreItemId /\ d.at \in Nat /\ items \in ItemsTable
  BY RowTypes DEF Expiries, TypeInv, DbTypes, ThreadTypes
<1>2. items[k] \in DbStoreItem
  BY RowTypes
<1>3. items'[k] = items[k] \/ items'[k] = [items[k] EXCEPT !.expires_at = d.at]
  BY <1>1 DEF UpdateExpiry, ItemsTable
<1>4. /\ [items[k] EXCEPT !.expires_at = d.at] \in DbStoreItem
      /\ [items[k] EXCEPT !.expires_at = d.at].value = items[k].value
      /\ [items[k] EXCEPT !.expires_at = d.at].ttl = items[k].ttl
  BY <1>1, <1>2 DEF DbStoreItem
<1> QED
  BY <1>3, <1>4, NoRowAssumption

\* A step that fails nothing leaves each vector with its item, or lagging.
LEMMA StepFollows ==
    ASSUME SingleStore, TypeInv, LockDiscipline, DeletingInv, VectorInv, NEW c \in Client,
           Invoke(c) \/ Step(c), failures = 0, failures' = 0,
           NEW k \in DbStoreItemId, NEW f \in Field, vectors'[k][f] # NoRow
    PROVE  Follows(k, vectors[k][f])' \/ \E d \in Client : Lags(d, k)'
<1>1. /\ items \in ItemsTable /\ vectors \in VectorsTable
      /\ \A d \in Client : StoreOf[d] \in Store
  BY StoreOfAssumption DEF TypeInv, DbTypes, ThreadTypes
<1>2. pc[c] = "idle" \/ Departs(c)
  BY StepDeparts DEF Invoke, Begin
<1>3. ItemsMove(c) /\ VectorsMove(c)
  BY StepMovesTables
<1>4. ASSUME NEW d \in Client, d # c, Lags(d, k) PROVE Lags(d, k)'
  BY <1>4, StepFrame DEF Frame, Lags
<1>5. ASSUME vectors'[k][f] = vectors[k][f], ~ Lags(c, k),
             Follows(k, vectors[k][f]) => Follows(k, vectors[k][f])'
      PROVE  Follows(k, vectors[k][f])' \/ \E d \in Client : Lags(d, k)'
  BY <1>4, <1>5 DEF VectorInv
<1>6. ~ With(c).index => vectors[k][f] = NoRow
  BY DEF DeletingInv, EmptyVectors, NoVectors
<1>7. CASE pc[c] = "clear_vectors"
  <2>1. vectors' = DeleteByItem(vectors, Head(ready[c]).item) /\ UNCHANGED items
    BY <1>2, <1>7 DEF Departs
  <2>2. k # Head(ready[c]).item /\ vectors'[k][f] = vectors[k][f]
    BY <1>1, <2>1 DEF DeleteByItem, NoVectors, VectorsTable
  <2> QED
    BY <1>5, <1>7, <2>1, <2>2 DEF Lags, Follows
<1>8. CASE pc[c] = "sweep_vectors"
  <2>1. PICK j \in gone[c] : /\ vectors' = DeleteByItem(vectors, j)
                             /\ gone[c] # {j} => pc'[c] = "sweep_vectors" /\ gone'[c] = gone[c] \ {j}
    BY <1>2, <1>8 DEF Departs
  <2>2. k # j /\ vectors'[k][f] = vectors[k][f] /\ UNCHANGED items
    BY <1>1, <1>2, <1>8, <2>1 DEF Departs, DeleteByItem, NoVectors, VectorsTable
  <2>3. CASE k \in gone[c]
    BY <2>1, <2>2, <2>3 DEF Lags
  <2>4. CASE k \notin gone[c]
    BY <1>5, <1>8, <2>2, <2>4 DEF Lags, Follows
  <2> QED
    BY <2>3, <2>4
<1>9. CASE pc[c] = "store"
  <2>1. /\ items' = Upsert(items, Head(ready[c]).item, Head(ready[c]).row)
        /\ UNCHANGED vectors /\ pc'[c] = "clear_vectors" /\ UNCHANGED ready
    BY <1>2, <1>6, <1>9 DEF Departs
  <2>2. CASE k = Head(ready[c]).item
    BY <2>1, <2>2 DEF Lags
  <2>3. CASE k # Head(ready[c]).item
    <3>1. items'[k] = items[k]
      BY <1>1, <2>1, <2>3 DEF Upsert, ItemsTable
    <3> QED
      BY <1>5, <1>9, <2>1, <3>1 DEF Lags, Follows
  <2> QED
    BY <2>2, <2>3
<1>10. CASE pc[c] = "sweep"
  <2>1. items' = DeleteAll(items, Expired(items, now)) /\ UNCHANGED vectors
    BY <1>2, <1>10 DEF Departs
  <2>2. CASE k \in Expired(items, now)
    <3>1. pc'[c] = "sweep_vectors" /\ gone'[c] = Expired(items, now)
      BY <1>2, <1>6, <1>10, <2>1, <2>2 DEF Departs
    <3> QED
      BY <2>2, <3>1 DEF Lags
  <2>3. CASE k \notin Expired(items, now)
    <3>1. items'[k] = items[k]
      BY <2>1, <2>3 DEF DeleteAll
    <3> QED
      BY <1>5, <1>10, <2>1, <3>1 DEF Lags, Follows
  <2> QED
    BY <2>2, <2>3
<1>11. CASE pc[c] = "store_vector"
  <2> DEFINE put == Head(ready[c])
  <2>1. UNCHANGED items /\ Follows(put.item, put.row.value) /\ ~ Lags(c, k)
    BY <1>3, <1>11 DEF ItemsMove, VectorInv, Lags
  <2>2. UNCHANGED vectors
        \/ vectors' = UpsertVector(vectors, put.item, Head(put.fields), put.row.value)
    BY <1>3, <1>11 DEF VectorsMove
  <2>3. vectors'[k][f] = vectors[k][f] \/ (k = put.item /\ vectors'[k][f] = put.row.value)
    BY <1>1, <2>2 DEF UpsertVector, VectorsTable
  <2> QED
    BY <1>5, <2>1, <2>3 DEF Follows
<1>12. CASE pc[c] = "refresh"
  <2>1. UNCHANGED vectors /\ ~ Lags(c, k)
    BY <1>3, <1>12 DEF VectorsMove, Lags
  <2>2. items[k] # NoRow => items'[k] # NoRow /\ items'[k].value = items[k].value
    BY <1>3, <1>12, RefreshKeeps DEF ItemsMove
  <2> QED
    BY <1>5, <2>1, <2>2 DEF Follows
<1>13. CASE pc[c] = "delete_vectors"
  <2>1. UNCHANGED items /\ ~ Lags(c, k)
    BY <1>3, <1>13 DEF ItemsMove, Lags
  <2>2. vectors'[k][f] = vectors[k][f]
    BY <1>1, <1>3, <1>13 DEF VectorsMove, DeleteByItem, NoVectors, VectorsTable
  <2> QED
    BY <1>5, <2>1, <2>2 DEF Follows
<1>14. CASE pc[c] = "delete_item"
  <2>1. UNCHANGED vectors /\ ~ Lags(c, k)
    BY <1>3, <1>14 DEF VectorsMove, Lags
  <2>2. UNCHANGED items
        \/ \E i \in todo[c] : Current(c, i) /\ items' = Delete(items, Ops(c)[i].item)
    BY <1>3, <1>14 DEF ItemsMove
  <2>3. ASSUME NEW i \in todo[c], Current(c, i) PROVE Ops(c)[i].item # k
    BY <1>14, <2>1, <2>3 DEF DeletingInv, HasVector
  <2>4. items'[k] = items[k]
    BY <1>1, <2>2, <2>3 DEF Delete, ItemsTable
  <2> QED
    BY <1>5, <2>1, <2>4 DEF Follows
<1>15. CASE pc[c] \notin {"clear_vectors", "sweep_vectors", "store", "sweep", "store_vector",
                          "refresh", "delete_vectors", "delete_item"}
  BY <1>3, <1>5, <1>15 DEF ItemsMove, VectorsMove, Lags, Follows
<1> QED
  BY <1>7, <1>8, <1>9, <1>10, <1>11, <1>12, <1>13, <1>14, <1>15

\* A thread that is about to delete or store vectors has its item there.
LEMMA OwnPut ==
    ASSUME TypeInv, VectorInv, NEW c \in Client, Invoke(c) \/ Step(c),
           pc'[c] \in {"clear_vectors", "store_vector"}
    PROVE  Follows(Head(ready[c]).item, Head(ready[c]).row.value)'
<1>1. items \in ItemsTable /\ ready \in [Client -> Seq(Prepared)]
  BY DEF TypeInv, DbTypes, ThreadTypes
<1>2. CASE pc'[c] = "clear_vectors"
  <2>1. /\ pc[c] = "store" /\ UNCHANGED ready
        /\ items' = Upsert(items, Head(ready[c]).item, Head(ready[c]).row)
    BY <1>2, StepArrives DEF Arrives, locals
  <2>2. Head(ready[c]) \in Prepared
    BY <2>1, InvSplit, HeadPrepared
  <2>3. items'[Head(ready[c]).item] = Head(ready[c]).row
    BY <1>1, <2>1, <2>2 DEF Upsert, ItemsTable, Prepared
  <2> QED
    BY <2>1, <2>2, <2>3, NoRowAssumption DEF Follows, Prepared
<1>3. CASE pc'[c] = "store_vector"
  <2>1. /\ UNCHANGED items /\ pc[c] \in {"clear_vectors", "store_vector"}
        /\ UNCHANGED ready \/ ready' = [ready EXCEPT ![c][1].fields = Tail(@)]
    BY <1>3, StepArrives DEF Arrives
  <2>2. Follows(Head(ready[c]).item, Head(ready[c]).row.value)
    BY <2>1 DEF VectorInv
  <2>3. Head(ready[c]) \in Prepared /\ ready[c] # <<>> /\ ready[c] \in Seq(Prepared)
    BY <2>1, InvSplit, HeadPrepared
  <2>4. Head(ready'[c]).item = Head(ready[c]).item /\ Head(ready'[c]).row = Head(ready[c]).row
    <3>1. CASE UNCHANGED ready
      BY <3>1
    <3>2. CASE ready' = [ready EXCEPT ![c][1].fields = Tail(@)]
      <4>1. ready'[c] = [ready[c] EXCEPT ![1] = [ready[c][1] EXCEPT !.fields = Tail(@)]]
        BY <1>1, <3>2
      <4>2. ready[c][1] = Head(ready[c]) /\ 1 \in DOMAIN ready[c]
        BY <2>3
      <4>3. ready'[c][1] = [Head(ready[c]) EXCEPT !.fields = Tail(@)]
        BY <4>1, <4>2
      <4>4. Head(ready'[c]) = ready'[c][1]
        OBVIOUS
      <4> QED
        BY <2>3, <4>3, <4>4 DEF Prepared
    <3> QED
      BY <2>1, <3>1, <3>2
  <2> QED
    BY <2>1, <2>2, <2>4 DEF Follows
<1> QED
  BY <1>2, <1>3

\* Every step keeps vectors with their items.
LEMMA NextVectors ==
    ASSUME SingleStore
    PROVE  TypeInv /\ LockDiscipline /\ DeletingInv /\ VectorInv /\ [Next]_vars => VectorInv'
<1> SUFFICES ASSUME TypeInv, LockDiscipline, DeletingInv, VectorInv, [Next]_vars
             PROVE  VectorInv'
  OBVIOUS
<1>1. CASE Tick \/ Finished \/ UNCHANGED vars
  <2>1. UNCHANGED <<pc, ready, gone, items, vectors, failures>>
    BY <1>1 DEF Tick, Finished, vars, db, locals
  <2> QED
    BY <2>1 DEF VectorInv, Follows, Lags
<1>2. ASSUME NEW c \in Client, Invoke(c) \/ Step(c) PROVE VectorInv'
  <2>1. failures' = 0 => failures = 0
    BY <1>2, FailuresGrow
  <2>2. ASSUME failures' = 0, NEW k \in DbStoreItemId, NEW f \in Field, vectors'[k][f] # NoRow
        PROVE  Follows(k, vectors[k][f])' \/ \E d \in Client : Lags(d, k)'
    BY <1>2, <2>1, <2>2, StepFollows
  <2>3. ASSUME NEW d \in Client, pc'[d] \in {"clear_vectors", "store_vector"}
        PROVE  Follows(Head(ready[d]).item, Head(ready[d]).row.value)'
    <3>1. CASE d = c
      BY <1>2, <2>3, <3>1, OwnPut
    <3>2. CASE d # c
      <4>1. pc[d] = pc'[d] /\ ready'[d] = ready[d]
        BY <1>2, <3>2, StepFrame DEF Frame
      <4>2. UNCHANGED items
        BY <1>2, <2>3, <3>2, <4>1, OthersKeepOut DEF Critical, DataQuery
      <4> QED
        BY <2>3, <4>1, <4>2 DEF VectorInv, Follows
    <3> QED
      BY <3>1, <3>2
  <2> QED
    BY <2>2, <2>3 DEF VectorInv
<1> QED
  BY <1>1, <1>2 DEF Next

\* As long as nothing failed, and whenever nobody is inside the one store, a vector
\* belongs to an item that is there and holds the value the vector was made from.
THEOREM VectorsFollow ==
    ASSUME SingleStore
    PROVE  Spec => []IndexFollowsItems
<1>1. Init => VectorInv
  BY DEF Init, VectorInv, EmptyVectors, NoVectors
<1>2. TypeInv /\ LockDiscipline /\ DeletingInv /\ VectorInv /\ [Next]_vars => VectorInv'
  BY NextVectors
<1>3. LockDiscipline /\ VectorInv => IndexFollowsItems
  <2> SUFFICES ASSUME LockDiscipline, VectorInv, failures = 0, \A s \in Store : lock[s] = Free,
                      NEW k \in DbStoreItemId, NEW f \in Field, vectors[k][f] # NoRow
               PROVE  items[k] # NoRow /\ items[k].value = vectors[k][f]
    BY DEF IndexFollowsItems
  <2>1. \A c \in Client : pc[c] \notin Critical
    BY StoreOfAssumption, FreeAssumption DEF LockDiscipline
  <2>2. \A c \in Client : ~ Lags(c, k)
    BY <2>1 DEF Lags, Critical, DataQuery
  <2> QED
    BY <2>2 DEF VectorInv, Follows
<1> QED
  BY <1>1, <1>2, <1>3, Deletions, PTL DEF Spec

-----------------------------------------------------------------------------
(* One store: puts take effect *)

\* The item of a put as the put says, and its vectors.
Kept(op)      == /\ items[op.item] # NoRow
                 /\ items[op.item].value = op.value /\ items[op.item].ttl = op.ttl
Asked(c, op)  == IF With(c).embed THEN op.fields ELSE <<>>
Named(fs, f)  == \E n \in DOMAIN fs : fs[n] = f
Wanted(op, f) == IF Named(op.fields, f) THEN op.value ELSE NoRow

\* A put carried out.
Settled(c, op) ==
    IF Removes(op) THEN items[op.item] = NoRow
    ELSE Kept(op) /\ (With(c).embed => \A f \in Field : vectors[op.item][f] = Wanted(op, f))

\* A put prepared, in place n, or stored in part: its item is there, then its old
\* vectors are gone, and then those of its fields that are no longer to do are there.
WaitsAt(c, op, n) ==
    LET put == ready[c][n] IN
    /\ ~ Removes(op)
    /\ put.item = op.item /\ put.row.value = op.value /\ put.row.ttl = op.ttl
    /\ n = 1 /\ pc[c] \in {"clear_vectors", "store_vector"} => Kept(op)
    /\ IF n = 1 /\ pc[c] = "store_vector"
       THEN \A f \in Field : IF Named(put.fields, f)
                             THEN Named(op.fields, f)
                             ELSE vectors[op.item][f] = Wanted(op, f)
       ELSE put.fields = Asked(c, op)

\* The puts that count and are no longer to do.
BegunPuts(c) == {i \in Effective(Ops(c)) \ todo[c] : IsPut(Ops(c), i)}

\* Every one of them waits or is carried out, every prepared put is one of them, and
\* no two prepared puts are for one item.
PutOK(c) ==
    IF pc[c] \notin Working THEN ready[c] = <<>>
    ELSE /\ \A i \in BegunPuts(c) :
               \/ \E n \in DOMAIN ready[c] : WaitsAt(c, Ops(c)[i], n)
               \/ Settled(c, Ops(c)[i])
         /\ \A n \in DOMAIN ready[c] : \E i \in BegunPuts(c) : WaitsAt(c, Ops(c)[i], n)
         /\ \A n, m \in DOMAIN ready[c] : ready[c][n].item = ready[c][m].item => n = m

PutInv == \A c \in Client : PutOK(c)

\* The puts begun are puts, of different items.
LEMMA BegunShape ==
    ASSUME TypeInv, NEW c \in Client, pc[c] \in Working, NEW i \in BegunPuts(c)
    PROVE  /\ Ops(c)[i] \in PutOp /\ Ops(c)[i].item \in DbStoreItemId
           /\ i \in Effective(Ops(c)) /\ i \notin todo[c] /\ i \in Nat
           /\ \A j \in BegunPuts(c) : Ops(c)[j].item = Ops(c)[i].item => i = j
<1>1. Ops(c) \in Seq(Op) /\ i \in Effective(Ops(c)) /\ i \notin todo[c] /\ IsPut(Ops(c), i)
  BY BatchShape DEF BegunPuts
<1>2. i \in 1 .. Len(Ops(c))
  BY <1>1 DEF IsPut
<1>3. Ops(c)[i] \in Op
  BY <1>1, <1>2
<1>4. Ops(c)[i] \in PutOp
  BY <1>1, <1>3, OpShape DEF IsPut
<1>5. \A j \in BegunPuts(c) : Ops(c)[j].item = Ops(c)[i].item => i = j
  BY <1>1, EffectivePuts DEF BegunPuts
<1> QED
  BY <1>1, <1>2, <1>4, <1>5 DEF PutOp

\* A put under way has another item than those begun.
LEMMA CurrentItem ==
    ASSUME TypeInv, NEW c \in Client, pc[c] \in Working, NEW i \in todo[c],
           IsPut(Ops(c), i), NEW j \in BegunPuts(c)
    PROVE  Ops(c)[i].item # Ops(c)[j].item /\ Ops(c)[i] \in PutOp
<1>1. Ops(c) \in Seq(Op) /\ i \in Effective(Ops(c)) /\ Ops(c)[i] \in Op
  BY BatchShape
<1>2. j \in Effective(Ops(c)) /\ IsPut(Ops(c), j) /\ j \notin todo[c]
  BY DEF BegunPuts
<1> QED
  BY <1>1, <1>2, EffectivePuts, OpShape DEF IsPut

\* A step that leaves the prepared puts alone, before the first one is stored or as
\* the storing begins, undoes nothing, and sees to what it begins.
LEMMA PutsStay ==
    ASSUME TypeInv, NEW c \in Client, PutOK(c), pc[c] \in Working, pc'[c] \in Working,
           {pc[c], pc'[c]} \cap {"clear_vectors", "store_vector"} = {},
           call'[c] = call[c], ready'[c] = ready[c], todo'[c] \subseteq todo[c],
           \A i \in BegunPuts(c)' : i \notin BegunPuts(c) => Settled(c, Ops(c)[i])',
           \A i \in BegunPuts(c) : Settled(c, Ops(c)[i]) => Settled(c, Ops(c)[i])'
    PROVE  PutOK(c)'
<1>1. Ops(c)' = Ops(c)
  BY DEF Ops
<1>2. BegunPuts(c) \subseteq BegunPuts(c)'
  BY <1>1 DEF BegunPuts
<1>3. \A i \in BegunPuts(c), n \in DOMAIN ready[c] :
         WaitsAt(c, Ops(c)[i], n) => WaitsAt(c, Ops(c)[i], n)'
  BY <1>1 DEF WaitsAt, Asked, With
<1>4. /\ \A i \in BegunPuts(c) :
            \/ \E n \in DOMAIN ready[c] : WaitsAt(c, Ops(c)[i], n)
            \/ Settled(c, Ops(c)[i])
      /\ \A n \in DOMAIN ready[c] : \E i \in BegunPuts(c) : WaitsAt(c, Ops(c)[i], n)
      /\ \A n, m \in DOMAIN ready[c] : ready[c][n].item = ready[c][m].item => n = m
  BY DEF PutOK
<1>5. \A i \in BegunPuts(c)' :
         \/ \E n \in DOMAIN ready'[c] : WaitsAt(c, Ops(c)[i], n)'
         \/ Settled(c, Ops(c)[i])'
  BY <1>2, <1>3, <1>4
<1>6. \A n \in DOMAIN ready'[c] : \E i \in BegunPuts(c)' : WaitsAt(c, Ops(c)[i], n)'
  BY <1>2, <1>3, <1>4
<1>7. \A n, m \in DOMAIN ready'[c] : ready'[c][n].item = ready'[c][m].item => n = m
  BY <1>4
<1> QED
  BY <1>5, <1>6, <1>7 DEF PutOK

\* Reads and refreshes leave what puts have settled.
LEMMA ReadsSettle ==
    ASSUME TypeInv, NEW c \in Client, pc[c] \in {"work", "refresh"}, call'[c] = call[c],
           ItemsMove(c), VectorsMove(c), NEW i \in BegunPuts(c), Settled(c, Ops(c)[i])
    PROVE  Settled(c, Ops(c)[i])'
<1>1. UNCHANGED vectors /\ Ops(c)' = Ops(c)
  BY DEF VectorsMove, Ops
<1>2. Ops(c)[i].item \in DbStoreItemId
  BY BegunShape DEF Working
<1>3. CASE UNCHANGED items
  BY <1>1, <1>3 DEF Settled, Kept, With
<1>4. CASE \E d \in due[c] : items[d.item] # NoRow /\ items' = UpdateExpiry(items, d.item, d.at)
  <2>1. PICK d \in due[c] : items[d.item] # NoRow /\ items' = UpdateExpiry(items, d.item, d.at)
    BY <1>4
  <2>2. CASE items[Ops(c)[i].item] = NoRow
    <3>1. items'[Ops(c)[i].item] = NoRow
      BY <1>2, <2>1, <2>2 DEF UpdateExpiry, TypeInv, DbTypes, ThreadTypes, ItemsTable
    <3> QED
      BY <1>1, <2>2, <3>1 DEF Settled, Kept, With, Removes
  <2>3. CASE items[Ops(c)[i].item] # NoRow
    <3>1. /\ items'[Ops(c)[i].item] # NoRow
          /\ items'[Ops(c)[i].item].value = items[Ops(c)[i].item].value
          /\ items'[Ops(c)[i].item].ttl = items[Ops(c)[i].item].ttl
      BY <1>2, <2>1, <2>3, RefreshKeeps
    <3> QED
      BY <1>1, <2>3, <3>1 DEF Settled, Kept, With, Removes
  <2> QED
    BY <2>2, <2>3
<1> QED
  BY <1>3, <1>4 DEF ItemsMove

\* A put is prepared.
LEMMA PutPrepared ==
    ASSUME TypeInv, NEW c \in Client, PutOK(c), pc[c] = "work", pc'[c] = "work",
           call'[c] = call[c], UNCHANGED <<items, vectors>>,
           NEW i \in todo[c], IsPut(Ops(c), i), ~ Removes(Ops(c)[i]),
           todo'[c] = todo[c] \ {i},
           ready'[c] = Append(ready[c],
                [item |-> Ops(c)[i].item, row |-> NewRow(Ops(c)[i], now),
                 fields |-> IF With(c).embed THEN Ops(c)[i].fields ELSE <<>>])
    PROVE  PutOK(c)'
<1> DEFINE put == [item |-> Ops(c)[i].item, row |-> NewRow(Ops(c)[i], now),
                   fields |-> IF With(c).embed THEN Ops(c)[i].fields ELSE <<>>]
<1>1. Ops(c)' = Ops(c) /\ pc[c] \in Working /\ pc'[c] \in Working
  BY DEF Ops, Working
<1>2. i \in Effective(Ops(c))
  BY <1>1, BatchShape
<1>3. BegunPuts(c)' = BegunPuts(c) \cup {i}
  BY <1>1, <1>2 DEF BegunPuts
<1>4. /\ \A j \in BegunPuts(c) :
            \/ \E n \in DOMAIN ready[c] : WaitsAt(c, Ops(c)[j], n)
            \/ Settled(c, Ops(c)[j])
      /\ \A n \in DOMAIN ready[c] : \E j \in BegunPuts(c) : WaitsAt(c, Ops(c)[j], n)
      /\ \A n, m \in DOMAIN ready[c] : ready[c][n].item = ready[c][m].item => n = m
  BY <1>1 DEF PutOK
<1>5. ready[c] \in Seq(Prepared)
  BY InvSplit DEF ThreadInv, ThreadTypes
<1>6. PICK new \in Nat :
         /\ DOMAIN ready'[c] = DOMAIN ready[c] \cup {new} /\ new \notin DOMAIN ready[c]
         /\ \A n \in DOMAIN ready[c] : ready'[c][n] = ready[c][n]
         /\ ready'[c][new] = put
  <2>1. Len(ready[c]) + 1 \in Nat
    BY <1>5
  <2> QED
    BY <1>5, <2>1
<1> HIDE DEF put
<1>7. WaitsAt(c, Ops(c)[i], new)'
  <2>1. /\ put.item = Ops(c)[i].item /\ put.row.value = Ops(c)[i].value
        /\ put.row.ttl = Ops(c)[i].ttl /\ put.fields = Asked(c, Ops(c)[i])
    BY DEF put, NewRow, Asked
  <2> QED
    BY <1>1, <1>6, <2>1 DEF WaitsAt, Asked, With, Removes
<1>8. \A j \in BegunPuts(c), n \in DOMAIN ready[c] :
         WaitsAt(c, Ops(c)[j], n) => WaitsAt(c, Ops(c)[j], n)'
  BY <1>1, <1>6 DEF WaitsAt, Asked, With
<1>9. \A j \in BegunPuts(c) : Settled(c, Ops(c)[j]) => Settled(c, Ops(c)[j])'
  BY <1>1 DEF Settled, Kept, With
<1>10. \A n \in DOMAIN ready[c] : ready[c][n].item # Ops(c)[i].item
  <2> SUFFICES ASSUME NEW n \in DOMAIN ready[c] PROVE ready[c][n].item # Ops(c)[i].item
    OBVIOUS
  <2>1. PICK j \in BegunPuts(c) : WaitsAt(c, Ops(c)[j], n)
    BY <1>4
  <2> QED
    BY <1>1, <2>1, CurrentItem DEF WaitsAt
<1>11. ready'[c][new].item = Ops(c)[i].item
  BY <1>6 DEF put
<1>12. \A j \in BegunPuts(c)' :
         \/ \E n \in DOMAIN ready'[c] : WaitsAt(c, Ops(c)[j], n)'
         \/ Settled(c, Ops(c)[j])'
  BY <1>3, <1>4, <1>6, <1>7, <1>8, <1>9
<1>13. \A n \in DOMAIN ready'[c] : \E j \in BegunPuts(c)' : WaitsAt(c, Ops(c)[j], n)'
  BY <1>3, <1>4, <1>6, <1>7, <1>8
<1>14. \A n, m \in DOMAIN ready'[c] : ready'[c][n].item = ready'[c][m].item => n = m
  BY <1>4, <1>6, <1>10, <1>11
<1> QED
  BY <1>1, <1>12, <1>13, <1>14 DEF PutOK

\* The puts that wait behind the first one, and those settled, when a step touches
\* the item of the first one alone.
LEMMA Behind ==
    ASSUME TypeInv, NEW c \in Client, PutOK(c),
           pc[c] \in {"store", "clear_vectors", "store_vector"}, call'[c] = call[c],
           NEW i \in BegunPuts(c), WaitsAt(c, Ops(c)[i], 1),
           \A k \in DbStoreItemId \ {Ops(c)[i].item} :
               items'[k] = items[k] /\ vectors'[k] = vectors[k]
    PROVE  /\ pc[c] \in Working /\ Ops(c)' = Ops(c)
           /\ \A j \in BegunPuts(c), n \in DOMAIN ready[c] :
                 WaitsAt(c, Ops(c)[j], n) /\ n # 1 =>
                    /\ j # i /\ ~ Removes(Ops(c)[j])
                    /\ ready[c][n].item = Ops(c)[j].item
                    /\ ready[c][n].row.value = Ops(c)[j].value
                    /\ ready[c][n].row.ttl = Ops(c)[j].ttl
                    /\ ready[c][n].fields = Asked(c, Ops(c)[j])
           /\ \A j \in BegunPuts(c) : WaitsAt(c, Ops(c)[j], 1) => j = i
           /\ \A j \in BegunPuts(c) : j # i /\ Settled(c, Ops(c)[j]) => Settled(c, Ops(c)[j])'
<1>1. pc[c] \in Working /\ Ops(c)' = Ops(c)
  BY DEF Working, Ops
<1>2. 1 \in DOMAIN ready[c]
  BY InvSplit, HeadPrepared
<1>3. \A n, m \in DOMAIN ready[c] : ready[c][n].item = ready[c][m].item => n = m
  BY <1>1 DEF PutOK
<1>4. \A j \in BegunPuts(c) : Ops(c)[j].item = Ops(c)[i].item => i = j
  BY <1>1, BegunShape
<1>5. \A j \in BegunPuts(c) : Ops(c)[j].item \in DbStoreItemId
  BY <1>1, BegunShape
<1>6. \A j \in BegunPuts(c) : j # i /\ Settled(c, Ops(c)[j]) => Settled(c, Ops(c)[j])'
  BY <1>1, <1>4, <1>5 DEF Settled, Kept, With, Removes
<1>7. \A j \in BegunPuts(c) : WaitsAt(c, Ops(c)[j], 1) => j = i
  BY <1>4 DEF WaitsAt
<1>8. \A j \in BegunPuts(c), n \in DOMAIN ready[c] : WaitsAt(c, Ops(c)[j], n) /\ n # 1 => j # i
  BY <1>2, <1>3 DEF WaitsAt
<1>9. \A j \in BegunPuts(c), n \in DOMAIN ready[c] :
         WaitsAt(c, Ops(c)[j], n) /\ n # 1 =>
            /\ ~ Removes(Ops(c)[j])
            /\ ready[c][n].item = Ops(c)[j].item
            /\ ready[c][n].row.value = Ops(c)[j].value
            /\ ready[c][n].row.ttl = Ops(c)[j].ttl
            /\ ready[c][n].fields = Asked(c, Ops(c)[j])
  BY DEF WaitsAt
<1> QED
  BY <1>1, <1>6, <1>7, <1>8, <1>9

\* The storing of the first put goes on.
LEMMA HeadStays ==
    ASSUME TypeInv, NEW c \in Client, PutOK(c),
           pc[c] \in {"store", "clear_vectors", "store_vector"},
           pc'[c] \in {"clear_vectors", "store_vector"},
           call'[c] = call[c], todo'[c] = todo[c],
           NEW i \in BegunPuts(c), WaitsAt(c, Ops(c)[i], 1), WaitsAt(c, Ops(c)[i], 1)',
           DOMAIN ready'[c] = DOMAIN ready[c],
           \A n \in DOMAIN ready[c] \ {1} : ready'[c][n] = ready[c][n],
           \A k \in DbStoreItemId \ {Ops(c)[i].item} :
               items'[k] = items[k] /\ vectors'[k] = vectors[k]
    PROVE  PutOK(c)'
<1>1. pc[c] \in Working /\ Ops(c)' = Ops(c) /\ pc'[c] \in Working
  BY DEF Working, Ops
<1>2. BegunPuts(c)' = BegunPuts(c)
  BY <1>1 DEF BegunPuts
<1>3. 1 \in DOMAIN ready[c]
  BY InvSplit, HeadPrepared
<1>4. /\ \A j \in BegunPuts(c) :
            \/ \E n \in DOMAIN ready[c] : WaitsAt(c, Ops(c)[j], n)
            \/ Settled(c, Ops(c)[j])
      /\ \A n \in DOMAIN ready[c] : \E j \in BegunPuts(c) : WaitsAt(c, Ops(c)[j], n)
      /\ \A n, m \in DOMAIN ready[c] : ready[c][n].item = ready[c][m].item => n = m
  BY <1>1 DEF PutOK
<1>5. \A j \in BegunPuts(c), n \in DOMAIN ready[c] :
         WaitsAt(c, Ops(c)[j], n) /\ n # 1 => WaitsAt(c, Ops(c)[j], n)'
  <2> SUFFICES ASSUME NEW j \in BegunPuts(c), NEW n \in DOMAIN ready[c],
                      WaitsAt(c, Ops(c)[j], n), n # 1
               PROVE  WaitsAt(c, Ops(c)[j], n)'
    OBVIOUS
  <2>1. /\ ~ Removes(Ops(c)[j])
        /\ ready[c][n].item = Ops(c)[j].item
        /\ ready[c][n].row.value = Ops(c)[j].value
        /\ ready[c][n].row.ttl = Ops(c)[j].ttl
        /\ ready[c][n].fields = Asked(c, Ops(c)[j])
    BY Behind
  <2>2. ready'[c][n] = ready[c][n]
    OBVIOUS
  <2> QED
    BY <1>1, <2>1, <2>2 DEF WaitsAt, Asked, With, Removes
<1>6. \A j \in BegunPuts(c), n \in DOMAIN ready[c] :
         WaitsAt(c, Ops(c)[j], n) => WaitsAt(c, Ops(c)[j], n)'
  BY <1>5, Behind
<1>7. \A j \in BegunPuts(c) : j # i /\ Settled(c, Ops(c)[j]) => Settled(c, Ops(c)[j])'
  BY Behind
<1>8. \A j \in BegunPuts(c)' :
         \/ \E n \in DOMAIN ready'[c] : WaitsAt(c, Ops(c)[j], n)'
         \/ Settled(c, Ops(c)[j])'
  BY <1>2, <1>3, <1>4, <1>6, <1>7
<1>9. \A n \in DOMAIN ready'[c] : \E j \in BegunPuts(c)' : WaitsAt(c, Ops(c)[j], n)'
  BY <1>2, <1>4, <1>6
<1>10. \A n \in DOMAIN ready[c] : ready'[c][n].item = ready[c][n].item
  BY <1>1 DEF WaitsAt
<1> QED
  BY <1>1, <1>4, <1>8, <1>9, <1>10 DEF PutOK

\* The first put is stored.
LEMMA HeadGoes ==
    ASSUME TypeInv, NEW c \in Client, PutOK(c),
           pc[c] \in {"store", "clear_vectors", "store_vector"}, pc'[c] \in {"work", "store"},
           call'[c] = call[c], todo'[c] = todo[c],
           NEW i \in BegunPuts(c), WaitsAt(c, Ops(c)[i], 1), Settled(c, Ops(c)[i])',
           ready'[c] = Tail(ready[c]),
           \A k \in DbStoreItemId \ {Ops(c)[i].item} :
               items'[k] = items[k] /\ vectors'[k] = vectors[k]
    PROVE  PutOK(c)'
<1>1. pc[c] \in Working /\ Ops(c)' = Ops(c) /\ pc'[c] \in Working
  BY DEF Working, Ops
<1>2. BegunPuts(c)' = BegunPuts(c)
  BY <1>1 DEF BegunPuts
<1>3. ready[c] \in Seq(Prepared) /\ ready[c] # <<>>
  BY InvSplit, HeadPrepared
<1>4. /\ \A n \in DOMAIN ready'[c] : n \in Nat \ {0} /\ n + 1 \in DOMAIN ready[c]
                                      /\ ready'[c][n] = ready[c][n + 1]
      /\ \A m \in DOMAIN ready[c] : m \in Nat /\ (m # 1 => m - 1 \in DOMAIN ready'[c])
  BY <1>3
<1>5. /\ \A j \in BegunPuts(c) :
            \/ \E n \in DOMAIN ready[c] : WaitsAt(c, Ops(c)[j], n)
            \/ Settled(c, Ops(c)[j])
      /\ \A n \in DOMAIN ready[c] : \E j \in BegunPuts(c) : WaitsAt(c, Ops(c)[j], n)
      /\ \A n, m \in DOMAIN ready[c] : ready[c][n].item = ready[c][m].item => n = m
  BY <1>1 DEF PutOK
<1>6. ASSUME NEW n \in DOMAIN ready'[c], NEW j \in BegunPuts(c), WaitsAt(c, Ops(c)[j], n + 1)
      PROVE  WaitsAt(c, Ops(c)[j], n)'
  <2>1. n \in Nat \ {0} /\ n + 1 \in DOMAIN ready[c] /\ ready'[c][n] = ready[c][n + 1]
        /\ n + 1 # 1
    BY <1>4
  <2>2. /\ ~ Removes(Ops(c)[j])
        /\ ready[c][n + 1].item = Ops(c)[j].item
        /\ ready[c][n + 1].row.value = Ops(c)[j].value
        /\ ready[c][n + 1].row.ttl = Ops(c)[j].ttl
        /\ ready[c][n + 1].fields = Asked(c, Ops(c)[j])
    BY <1>6, <2>1, Behind
  <2> QED
    BY <1>1, <2>1, <2>2 DEF WaitsAt, Asked, With, Removes
<1>7. \A j \in BegunPuts(c) : j # i /\ Settled(c, Ops(c)[j]) => Settled(c, Ops(c)[j])'
  BY Behind
<1>8. ASSUME NEW j \in BegunPuts(c), j # i
      PROVE  \/ \E n \in DOMAIN ready'[c] : WaitsAt(c, Ops(c)[j], n)'
             \/ Settled(c, Ops(c)[j])'
  <2>1. CASE Settled(c, Ops(c)[j])
    BY <1>7, <1>8, <2>1
  <2>2. CASE ~ Settled(c, Ops(c)[j])
    <3>1. PICK m \in DOMAIN ready[c] : WaitsAt(c, Ops(c)[j], m)
      BY <1>5, <2>2
    <3>2. m # 1
      BY <1>8, <3>1, Behind
    <3>3. m - 1 \in DOMAIN ready'[c] /\ (m - 1) + 1 = m
      BY <1>4, <3>1, <3>2
    <3>4. WaitsAt(c, Ops(c)[j], (m - 1) + 1)
      BY <3>1, <3>3
    <3> QED
      BY <1>6, <3>3, <3>4
  <2> QED
    BY <2>1, <2>2
<1>9. \A n \in DOMAIN ready'[c] : \E j \in BegunPuts(c)' : WaitsAt(c, Ops(c)[j], n)'
  BY <1>2, <1>4, <1>5, <1>6
<1>10. \A n, m \in DOMAIN ready'[c] : ready'[c][n].item = ready'[c][m].item => n = m
  BY <1>4, <1>5
<1> QED
  BY <1>1, <1>2, <1>8, <1>9, <1>10 DEF PutOK

\* A thread that is not working on a batch has nothing prepared, and one that begins
\* to has begun no put.
LEMMA PutsBegin ==
    ASSUME TypeInv, NEW c \in Client, PutOK(c), Invoke(c) \/ Step(c), pc[c] \notin Working
    PROVE  PutOK(c)'
<1>1. ready'[c] = <<>>
  <2>1. ready[c] = <<>> /\ ReadyMove(c)
    BY StepMovesLocals DEF PutOK
  <2> QED
    BY <2>1 DEF ReadyMove, Turn, Working
<1>2. ASSUME pc'[c] \in Working PROVE BegunPuts(c)' = {}
  <2>1. ASSUME \E r : Leave(c, r) PROVE FALSE
    BY <1>2, <2>1, EndLocals DEF Working
  <2>2. ASSUME QueryError(c) \/ Raise(c) PROVE FALSE
    BY <1>2, <2>2, EndLocals DEF Working
  <2>3. ASSUME NEW l, l \notin Working, Goto(c, l) PROVE FALSE
    BY <1>2, <2>3 DEF Goto, TypeInv, DbTypes, ThreadTypes
  <2>4. CASE Invoke(c) \/ EnsureReady(c)
    <3>1. \E l \in {"setup_lock", "probe_lock", "ensure", "lock"} : Goto(c, l)
      BY <2>4 DEF Invoke, Begin, EnsureReady
    <3> QED
      BY <2>3, <3>1 DEF Working
  <2>5. CASE SetupLock(c) \/ SetupStore(c) \/ SetupVectors(c)
    BY <2>1, <2>2, <2>3, <2>5
       DEF SetupLock, SetupStore, SetupVectors, SetUp, Acquire, GoOn, Working
  <2>6. CASE ProbeLock(c) \/ ProbeStore(c) \/ ProbeVectors(c)
    BY <2>1, <2>2, <2>3, <2>6
       DEF ProbeLock, ProbeStore, ProbeVectors, Ready, Probed, Acquire, GoOn, Working
  <2>7. CASE Lock(c)
    <3>1. call[c].op # "sweep" /\ todo' = [todo EXCEPT ![c] = Effective(Ops(c))] /\ UNCHANGED call
      BY <2>3, <2>7 DEF Lock, StartWork, Working
    <3>2. todo'[c] = Effective(Ops(c)) /\ Ops(c)' = Ops(c)
      BY <3>1 DEF Ops, TypeInv, DbTypes, ThreadTypes
    <3> QED
      BY <3>2 DEF BegunPuts
  <2>8. CASE GetItem(c) \/ Refresh(c) \/ AskIndex(c) \/ SearchItems(c) \/ SearchRefused(c)
             \/ ListNamespaces(c)
    BY <2>8 DEF GetItem, Refresh, AskIndex, SearchItems, SearchRefused, ListNamespaces, Turn,
                Working
  <2>9. CASE PreparePut(c) \/ DeleteVectors(c) \/ DeleteItem(c) \/ Embed(c) \/ StoreItem(c)
             \/ ClearVectors(c) \/ StoreVector(c) \/ Return(c)
    BY <2>9 DEF PreparePut, DeleteVectors, DeleteItem, Embed, StoreItem, ClearVectors,
                StoreVector, Return, Turn, Working
  <2>10. CASE SweepItems(c) \/ SweepVectors(c)
    BY <2>1, <2>2, <2>3, <2>10 DEF SweepItems, SweepVectors, GoOn, Working
  <2> QED
    BY <2>4, <2>5, <2>6, <2>7, <2>8, <2>9, <2>10 DEF Step
<1> QED
  BY <1>1, <1>2 DEF PutOK

\* A call that ends leaves nothing prepared.
LEMMA PutsEnd ==
    ASSUME TypeInv, NEW c \in Client, QueryError(c) \/ Raise(c) \/ (\E r : Leave(c, r))
    PROVE  PutOK(c)'
BY EndLocals DEF PutOK, Working

\* Reads keep the puts of their batch, all of them still to do, as they are.
LEMMA PutsRead ==
    ASSUME TypeInv, NEW c \in Client, PutOK(c),
           \/ GetItem(c) \/ Refresh(c) \/ AskIndex(c) \/ SearchItems(c) \/ SearchRefused(c)
           \/ ListNamespaces(c)
    PROVE  PutOK(c)'
<1>1. pc[c] \in {"work", "refresh"} /\ ItemsMove(c) /\ VectorsMove(c)
  BY StepMovesTables DEF Step, GetItem, Refresh, AskIndex, SearchItems, SearchRefused,
                         ListNamespaces, Turn
<1>2. ASSUME NEW l \in {"work", "refresh"}, GoOn(c, l), UNCHANGED ready,
             todo'[c] \subseteq todo[c], \A i \in todo[c] \ todo'[c] : Ops(c)[i].op # "put"
      PROVE  PutOK(c)'
  <2>1. pc'[c] \in {"work", "refresh"} /\ call' = call
    BY <1>2 DEF GoOn, Goto, TypeInv, DbTypes, ThreadTypes
  <2>2. BegunPuts(c)' \subseteq BegunPuts(c)
    BY <1>2, <2>1 DEF BegunPuts, Ops, IsPut
  <2>3. \A i \in BegunPuts(c) : Settled(c, Ops(c)[i]) => Settled(c, Ops(c)[i])'
    BY <1>1, <2>1, ReadsSettle
  <2>4. pc[c] \in Working /\ pc'[c] \in Working
    BY <1>1, <2>1 DEF Working
  <2> QED
    BY <1>1, <1>2, <2>1, <2>2, <2>3, <2>4, PutsStay
<1>3. ASSUME NEW i \in todo[c], Begun(c, i), Ops(c)[i].op # "put"
      PROVE  todo'[c] \subseteq todo[c] /\ \A j \in todo[c] \ todo'[c] : Ops(c)[j].op # "put"
  BY <1>3 DEF Begun, TypeInv, DbTypes, ThreadTypes
<1>4. ASSUME UNCHANGED todo
      PROVE  todo'[c] \subseteq todo[c] /\ \A j \in todo[c] \ todo'[c] : Ops(c)[j].op # "put"
  BY <1>4
<1>5. CASE QueryError(c) \/ Raise(c)
  BY <1>5, PutsEnd
<1>6. CASE ~ (QueryError(c) \/ Raise(c))
  <2>1. CASE GetItem(c)
    <3>1. PICK i \in todo[c] : /\ Turn(c, i, "get") /\ Begun(c, i) /\ UNCHANGED ready
                               /\ GoOn(c, IF due'[c] = {} THEN "work" ELSE "refresh")
      BY <1>6, <2>1 DEF GetItem
    <3> QED
      BY <1>2, <1>3, <3>1 DEF Turn
  <2>2. CASE Refresh(c)
    BY <1>2, <1>4, <1>6, <2>2 DEF Refresh
  <2>3. CASE AskIndex(c)
    BY <1>2, <1>4, <1>6, <2>3 DEF AskIndex, locals
  <2>4. CASE SearchItems(c)
    <3>1. PICK i \in todo[c] : /\ Turn(c, i, "search") /\ Begun(c, i) /\ UNCHANGED ready
                               /\ GoOn(c, IF due'[c] = {} THEN "work" ELSE "refresh")
      BY <1>6, <2>4 DEF SearchItems
    <3> QED
      BY <1>2, <1>3, <3>1 DEF Turn
  <2>5. CASE SearchRefused(c)
    BY <1>6, <2>5 DEF SearchRefused
  <2>6. CASE ListNamespaces(c)
    <3>1. /\ todo' = [todo EXCEPT ![c] = @ \ {i \in todo[c] : Ops(c)[i].op = "list_namespaces"}]
          /\ UNCHANGED ready /\ GoOn(c, "work")
      BY <1>6, <2>6 DEF ListNamespaces
    <3>2. todo'[c] \subseteq todo[c] /\ \A j \in todo[c] \ todo'[c] : Ops(c)[j].op # "put"
      BY <3>1 DEF TypeInv, DbTypes, ThreadTypes
    <3> QED
      BY <1>2, <3>1, <3>2
  <2> QED
    BY <2>1, <2>2, <2>3, <2>4, <2>5, <2>6
<1> QED
  BY <1>5, <1>6

\* A put that is prepared, or a deletion on its way, sees to its own item alone.
LEMMA PutsDelete ==
    ASSUME TypeInv, DeletingInv, NEW c \in Client, PutOK(c),
           PreparePut(c) \/ DeleteVectors(c) \/ DeleteItem(c) \/ Embed(c)
    PROVE  PutOK(c)'
<1>1. /\ pc[c] \in Working /\ {pc[c]} \cap {"clear_vectors", "store_vector"} = {}
      /\ items \in ItemsTable /\ vectors \in VectorsTable
  BY DEF Working, PreparePut, DeleteVectors, DeleteItem, Embed, Turn, TypeInv, DbTypes, ThreadTypes
<1>2. ASSUME NEW l \in Working \ {"clear_vectors", "store_vector"}, GoOn(c, l), UNCHANGED ready,
             todo'[c] \subseteq todo[c],
             \A i \in BegunPuts(c)' : i \notin BegunPuts(c) => Settled(c, Ops(c)[i])',
             \A i \in BegunPuts(c) : Settled(c, Ops(c)[i]) => Settled(c, Ops(c)[i])'
      PROVE  PutOK(c)'
  <2>1. pc'[c] = l /\ call' = call
    BY <1>2 DEF GoOn, Goto, TypeInv, DbTypes, ThreadTypes
  <2> QED
    BY <1>1, <1>2, <2>1, PutsStay
<1>3. ASSUME NEW i \in todo[c], IsPut(Ops(c), i), UNCHANGED call,
             \A k \in DbStoreItemId \ {Ops(c)[i].item} :
                 items'[k] = items[k] /\ vectors'[k] = vectors[k],
             NEW j \in BegunPuts(c), Settled(c, Ops(c)[j])
      PROVE  Settled(c, Ops(c)[j])'
  <2>1. Ops(c)[j].item \in DbStoreItemId \ {Ops(c)[i].item} /\ Ops(c)' = Ops(c)
    BY <1>1, <1>3, CurrentItem, BegunShape DEF Ops
  <2> QED
    BY <1>3, <2>1 DEF Settled, Kept, With, Removes
<1>4. ASSUME UNCHANGED <<call, todo>> PROVE BegunPuts(c)' = BegunPuts(c)
  BY <1>4 DEF BegunPuts, Ops
<1>5. ASSUME NEW i \in todo[c], Begun(c, i), UNCHANGED call
      PROVE  /\ todo'[c] = todo[c] \ {i}
             /\ \A j \in BegunPuts(c)' : j \notin BegunPuts(c) => j = i
             /\ Ops(c)' = Ops(c)
  BY <1>5 DEF BegunPuts, Ops, Begun, TypeInv, DbTypes, ThreadTypes
<1>6. CASE QueryError(c) \/ Raise(c)
  BY <1>6, PutsEnd
<1>7. CASE PreparePut(c) /\ ~ QueryError(c)
  <2> DEFINE Put(i) == [item |-> Ops(c)[i].item, row |-> NewRow(Ops(c)[i], now),
                        fields |-> IF With(c).embed THEN Ops(c)[i].fields ELSE <<>>]
  <2>1. PICK i \in todo[c] : /\ Turn(c, i, "put")
             /\ \/ /\ ~ Removes(Ops(c)[i]) /\ ready' = [ready EXCEPT ![c] = Append(@, Put(i))]
                   /\ Begun(c, i) /\ GoOn(c, "work")
                \/ /\ Removes(Ops(c)[i]) /\ items[Ops(c)[i].item] = NoRow
                   /\ Begun(c, i) /\ GoOn(c, "work") /\ UNCHANGED ready
                \/ \E l \in {"delete_vectors", "delete_item"} :
                      GoOn(c, l) /\ UNCHANGED <<ready, todo>>
    BY <1>7 DEF PreparePut, locals
  <2>2. IsPut(Ops(c), i) /\ pc[c] = "work" /\ UNCHANGED <<items, vectors>>
    BY <1>1, <1>7, <2>1, BatchShape DEF Turn, IsPut, PreparePut, db
  <2>3. UNCHANGED call
    BY <2>1 DEF GoOn
  <2>4. \A j \in BegunPuts(c) : Settled(c, Ops(c)[j]) => Settled(c, Ops(c)[j])'
    BY <1>3, <2>2, <2>3
  <2>5. CASE /\ ~ Removes(Ops(c)[i]) /\ ready' = [ready EXCEPT ![c] = Append(@, Put(i))]
             /\ Begun(c, i) /\ GoOn(c, "work")
    <3>1. pc'[c] = "work" /\ todo'[c] = todo[c] \ {i} /\ call'[c] = call[c]
      BY <1>5, <2>3, <2>5 DEF GoOn, Goto, TypeInv, DbTypes, ThreadTypes
    <3>2. ready'[c] = Append(ready[c], Put(i))
      BY <2>5 DEF TypeInv, DbTypes, ThreadTypes
    <3> QED
      BY <2>2, <2>5, <3>1, <3>2, PutPrepared
  <2>6. CASE /\ Removes(Ops(c)[i]) /\ items[Ops(c)[i].item] = NoRow
             /\ Begun(c, i) /\ GoOn(c, "work") /\ UNCHANGED ready
    <3>1. Settled(c, Ops(c)[i])'
      BY <1>5, <2>2, <2>3, <2>6 DEF Settled, Removes
    <3>2. /\ \A j \in BegunPuts(c)' : j \notin BegunPuts(c) => Settled(c, Ops(c)[j])'
          /\ todo'[c] \subseteq todo[c]
      BY <1>5, <2>3, <2>6, <3>1
    <3> QED
      BY <1>2, <2>4, <2>6, <3>2 DEF Working
  <2>7. CASE \E l \in {"delete_vectors", "delete_item"} :
                GoOn(c, l) /\ UNCHANGED <<ready, todo>>
    <3>1. PICK l \in {"delete_vectors", "delete_item"} : GoOn(c, l) /\ UNCHANGED <<ready, todo>>
      BY <2>7
    <3> QED
      BY <1>2, <1>4, <2>3, <2>4, <3>1 DEF Working
  <2> QED
    BY <2>1, <2>5, <2>6, <2>7
<1>8. CASE DeleteVectors(c) /\ ~ QueryError(c)
  <2>1. PICK i \in todo[c] : /\ pc[c] = "delete_vectors" /\ Current(c, i)
                             /\ vectors' = DeleteByItem(vectors, Ops(c)[i].item)
                             /\ GoOn(c, "delete_item")
                             /\ UNCHANGED <<locals, items>>
    BY <1>8 DEF DeleteVectors
  <2>2. IsPut(Ops(c), i) /\ UNCHANGED <<call, todo, ready>>
    BY <2>1 DEF DeletingInv, GoOn, locals
  <2>3. \A k \in DbStoreItemId \ {Ops(c)[i].item} :
           items'[k] = items[k] /\ vectors'[k] = vectors[k]
    BY <1>1, <2>1 DEF DeleteByItem, VectorsTable
  <2>4. \A j \in BegunPuts(c) : Settled(c, Ops(c)[j]) => Settled(c, Ops(c)[j])'
    BY <1>3, <2>2, <2>3
  <2> QED
    BY <1>2, <1>4, <2>1, <2>2, <2>4 DEF Working
<1>9. CASE DeleteItem(c) /\ ~ (QueryError(c) \/ Raise(c))
  <2>1. PICK i \in todo[c] : /\ pc[c] = "delete_item" /\ Current(c, i)
                             /\ items' = Delete(items, Ops(c)[i].item)
                             /\ Begun(c, i) /\ GoOn(c, "work")
                             /\ UNCHANGED <<ready, vectors>>
    BY <1>9 DEF DeleteItem
  <2>2. IsPut(Ops(c), i) /\ Removes(Ops(c)[i]) /\ UNCHANGED call
    BY <2>1 DEF DeletingInv, GoOn
  <2>3. /\ \A k \in DbStoreItemId \ {Ops(c)[i].item} :
              items'[k] = items[k] /\ vectors'[k] = vectors[k]
        /\ Ops(c)[i].item \in DbStoreItemId => items'[Ops(c)[i].item] = NoRow
    BY <1>1, <2>1 DEF Delete, ItemsTable
  <2>4. \A j \in BegunPuts(c) : Settled(c, Ops(c)[j]) => Settled(c, Ops(c)[j])'
    BY <1>3, <2>2, <2>3
  <2>5. Ops(c)[i].item \in DbStoreItemId
    BY <1>1, <2>2, BatchShape, OpShape DEF IsPut, PutOp
  <2>6. Settled(c, Ops(c)[i])'
    BY <1>5, <2>1, <2>2, <2>3, <2>5 DEF Settled, Removes
  <2>7. /\ \A j \in BegunPuts(c)' : j \notin BegunPuts(c) => Settled(c, Ops(c)[j])'
        /\ todo'[c] \subseteq todo[c]
    BY <1>5, <2>1, <2>2, <2>6
  <2> QED
    BY <1>2, <2>1, <2>4, <2>7 DEF Working
<1>10. CASE Embed(c) /\ ~ QueryError(c)
  <2>1. GoOn(c, "store") /\ UNCHANGED <<todo, ready, call, items, vectors>>
    BY <1>10 DEF Embed, locals, db, GoOn
  <2>2. \A j \in BegunPuts(c) : Settled(c, Ops(c)[j]) => Settled(c, Ops(c)[j])'
    BY <2>1 DEF Settled, Kept, With, Ops, Removes
  <2> QED
    BY <1>2, <1>4, <2>1, <2>2 DEF Working
<1> QED
  BY <1>6, <1>7, <1>8, <1>9, <1>10

\* The first of the prepared puts, and the operation it was prepared from.
LEMMA HeadPut ==
    ASSUME TypeInv, NEW c \in Client, PutOK(c),
           pc[c] \in {"store", "clear_vectors", "store_vector"}
    PROVE  /\ 1 \in DOMAIN ready[c] /\ Head(ready[c]) = ready[c][1] /\ ready[c][1] \in Prepared
           /\ ready[c] \in Seq(Prepared) /\ ready[c] # <<>>
           /\ \E i \in BegunPuts(c) : /\ WaitsAt(c, Ops(c)[i], 1) /\ Ops(c)[i] \in PutOp
                                      /\ Ops(c)[i].item \in DbStoreItemId
<1>1. pc[c] \in Working
  BY DEF Working
<1>2. ready[c] \in Seq(Prepared) /\ ready[c] # <<>> /\ Head(ready[c]) \in Prepared
  BY InvSplit, HeadPrepared
<1>3. 1 \in DOMAIN ready[c] /\ Head(ready[c]) = ready[c][1]
  BY <1>2
<1>4. PICK i \in BegunPuts(c) : WaitsAt(c, Ops(c)[i], 1)
  BY <1>1, <1>3 DEF PutOK
<1> QED
  BY <1>1, <1>2, <1>3, <1>4, BegunShape

\* Where Stored leaves a thread.
LEMMA StoredGoes ==
    ASSUME TypeInv, NEW c \in Client, Stored(c)
    PROVE  /\ pc'[c] \in {"work", "store"} /\ call'[c] = call[c] /\ todo'[c] = todo[c]
           /\ ready'[c] = Tail(ready[c])
BY DEF Stored, GoOn, Goto, TypeInv, DbTypes, ThreadTypes

\* The item of a put is stored as the put says.
LEMMA PutsStoreItem ==
    ASSUME TypeInv, NEW c \in Client, PutOK(c), StoreItem(c)
    PROVE  PutOK(c)'
<1>1. CASE QueryError(c)
  BY <1>1, PutsEnd
<1>2. CASE ~ QueryError(c)
  <2>1. pc[c] = "store" /\ UNCHANGED vectors
        /\ items' = Upsert(items, Head(ready[c]).item, Head(ready[c]).row)
    BY <1>2 DEF StoreItem
  <2>2. /\ Head(ready[c]) = ready[c][1] /\ ready[c][1] \in Prepared
        /\ items \in ItemsTable /\ vectors \in VectorsTable
    BY <2>1, HeadPut DEF TypeInv, DbTypes, ThreadTypes
  <2>3. PICK i \in BegunPuts(c) : /\ WaitsAt(c, Ops(c)[i], 1) /\ Ops(c)[i] \in PutOp
                                  /\ Ops(c)[i].item \in DbStoreItemId
    BY <2>1, HeadPut
  <2>4. /\ ~ Removes(Ops(c)[i]) /\ ready[c][1].item = Ops(c)[i].item
        /\ ready[c][1].row.value = Ops(c)[i].value /\ ready[c][1].row.ttl = Ops(c)[i].ttl
        /\ ready[c][1].fields = Asked(c, Ops(c)[i])
    BY <2>1, <2>3 DEF WaitsAt
  <2>5. \A k \in DbStoreItemId \ {Ops(c)[i].item} :
           items'[k] = items[k] /\ vectors'[k] = vectors[k]
    BY <2>1, <2>2, <2>4 DEF Upsert, ItemsTable
  <2>6. items'[Ops(c)[i].item] = ready[c][1].row /\ ready[c][1].row # NoRow
    BY <2>1, <2>2, <2>3, <2>4, NoRowAssumption DEF Upsert, ItemsTable, Prepared
  <2>7. UNCHANGED call
    BY <1>2 DEF StoreItem, GoOn, Stored
  <2>8. Ops(c)' = Ops(c) /\ Kept(Ops(c)[i])'
    BY <2>4, <2>6, <2>7 DEF Kept, Ops
  <2>9. CASE With(c).index
    <3>1. GoOn(c, "clear_vectors") /\ UNCHANGED <<ready, todo>>
      BY <1>2, <2>9 DEF StoreItem, locals
    <3>2. pc'[c] = "clear_vectors"
      BY <3>1 DEF GoOn, Goto, TypeInv, DbTypes, ThreadTypes
    <3>3. WaitsAt(c, Ops(c)[i], 1)'
      BY <2>4, <2>8, <3>1, <3>2 DEF WaitsAt, Asked, With, Removes
    <3> QED
      BY <2>1, <2>3, <2>5, <2>7, <3>1, <3>2, <3>3, HeadStays
  <2>10. CASE ~ With(c).index
    <3>1. Stored(c)
      BY <1>2, <2>10 DEF StoreItem
    <3>2. ~ With(c).embed
      BY <2>10, StoreOfAssumption, SettingsAssumption DEF With
    <3>3. Settled(c, Ops(c)[i])'
      BY <2>4, <2>8, <3>2 DEF Settled, With, Removes
    <3> QED
      BY <2>1, <2>3, <2>5, <3>1, <3>3, StoredGoes, HeadGoes
  <2> QED
    BY <2>9, <2>10
<1> QED
  BY <1>1, <1>2

\* The vectors the item had go, and there may be none to come.
LEMMA PutsClearVectors ==
    ASSUME TypeInv, NEW c \in Client, PutOK(c), ClearVectors(c)
    PROVE  PutOK(c)'
<1>1. CASE QueryError(c)
  BY <1>1, PutsEnd
<1>2. CASE ~ QueryError(c)
  <2>1. pc[c] = "clear_vectors" /\ UNCHANGED items
        /\ vectors' = DeleteByItem(vectors, Head(ready[c]).item)
    BY <1>2 DEF ClearVectors
  <2>2. /\ Head(ready[c]) = ready[c][1] /\ ready[c][1] \in Prepared
        /\ items \in ItemsTable /\ vectors \in VectorsTable
    BY <2>1, HeadPut DEF TypeInv, DbTypes, ThreadTypes
  <2>3. PICK i \in BegunPuts(c) : /\ WaitsAt(c, Ops(c)[i], 1) /\ Ops(c)[i] \in PutOp
                                  /\ Ops(c)[i].item \in DbStoreItemId
    BY <2>1, HeadPut
  <2>4. /\ ~ Removes(Ops(c)[i]) /\ ready[c][1].item = Ops(c)[i].item
        /\ ready[c][1].row.value = Ops(c)[i].value /\ ready[c][1].row.ttl = Ops(c)[i].ttl
        /\ ready[c][1].fields = Asked(c, Ops(c)[i]) /\ Kept(Ops(c)[i])
    BY <2>1, <2>3 DEF WaitsAt
  <2>5. \A k \in DbStoreItemId \ {Ops(c)[i].item} :
           items'[k] = items[k] /\ vectors'[k] = vectors[k]
    BY <2>1, <2>2, <2>4 DEF DeleteByItem, VectorsTable
  <2>6. \A f \in Field : vectors'[Ops(c)[i].item][f] = NoRow
    BY <2>1, <2>2, <2>3, <2>4 DEF DeleteByItem, VectorsTable, NoVectors
  <2>7. UNCHANGED call
    BY <1>2 DEF ClearVectors, GoOn, Stored
  <2>8. Ops(c)' = Ops(c) /\ Kept(Ops(c)[i])'
    BY <2>1, <2>4, <2>7 DEF Kept, Ops
  <2>9. CASE ready[c][1].fields = <<>>
    <3>1. Stored(c)
      BY <1>2, <2>2, <2>9 DEF ClearVectors
    <3>2. With(c).embed => \A f \in Field : ~ Named(Ops(c)[i].fields, f)
      BY <2>4, <2>9 DEF Asked, Named
    <3>3. Settled(c, Ops(c)[i])'
      BY <2>4, <2>6, <2>8, <3>2 DEF Settled, With, Removes, Wanted
    <3> QED
      BY <2>1, <2>3, <2>5, <3>1, <3>3, StoredGoes, HeadGoes
  <2>10. CASE ready[c][1].fields # <<>>
    <3>1. GoOn(c, "store_vector") /\ UNCHANGED <<ready, todo>>
      BY <1>2, <2>2, <2>10 DEF ClearVectors, locals
    <3>2. pc'[c] = "store_vector"
      BY <3>1 DEF GoOn, Goto, TypeInv, DbTypes, ThreadTypes
    <3>3. ready[c][1].fields = Ops(c)[i].fields
      BY <2>4, <2>10 DEF Asked
    <3>4. WaitsAt(c, Ops(c)[i], 1)'
      BY <2>4, <2>6, <2>8, <3>1, <3>2, <3>3 DEF WaitsAt, Removes, Wanted
    <3> QED
      BY <2>1, <2>3, <2>5, <2>7, <3>1, <3>2, <3>4, HeadStays
  <2> QED
    BY <2>9, <2>10
<1> QED
  BY <1>1, <1>2

\* The vector of the first of the fields left is stored.
LEMMA PutsStoreVector ==
    ASSUME TypeInv, NEW c \in Client, PutOK(c), StoreVector(c)
    PROVE  PutOK(c)'
<1>1. CASE QueryError(c)
  BY <1>1, PutsEnd
<1>2. CASE ~ QueryError(c)
  <2> DEFINE put == ready[c][1]
  <2>1. pc[c] = "store_vector" /\ UNCHANGED items
    BY <1>2 DEF StoreVector
  <2>2. /\ Head(ready[c]) = put /\ put \in Prepared /\ 1 \in DOMAIN ready[c]
        /\ ready[c] \in Seq(Prepared) /\ items \in ItemsTable /\ vectors \in VectorsTable
    BY <2>1, HeadPut DEF TypeInv, DbTypes, ThreadTypes
  <2>3. PICK i \in BegunPuts(c) : /\ WaitsAt(c, Ops(c)[i], 1) /\ Ops(c)[i] \in PutOp
                                  /\ Ops(c)[i].item \in DbStoreItemId
    BY <2>1, HeadPut
  <2> DEFINE op == Ops(c)[i]
  <2>4. /\ ~ Removes(op) /\ put.item = op.item
        /\ put.row.value = op.value /\ put.row.ttl = op.ttl /\ Kept(op)
        /\ \A f \in Field : IF Named(put.fields, f) THEN Named(op.fields, f)
                            ELSE vectors[op.item][f] = Wanted(op, f)
    BY <2>1, <2>3 DEF WaitsAt
  <2>5. put.fields \in Seq(Field) /\ put.fields # <<>>
    BY <2>1, <2>2 DEF Prepared, TypeInv, PcInv, PcOK
  <2>6. /\ Head(put.fields) \in Field /\ Tail(put.fields) \in Seq(Field)
        /\ Named(put.fields, Head(put.fields))
        /\ \A f \in Field : Named(put.fields, f) <=> f = Head(put.fields) \/ Named(Tail(put.fields), f)
    <3> DEFINE fs == put.fields
    <3>1. fs \in Seq(Field) /\ fs # <<>>
      BY <2>5
    <3> HIDE DEF fs
    <3>2. /\ Head(fs) \in Field /\ Tail(fs) \in Seq(Field) /\ Head(fs) = fs[1]
          /\ Len(fs) \in Nat \ {0} /\ DOMAIN fs = 1 .. Len(fs)
          /\ DOMAIN Tail(fs) = 1 .. Len(fs) - 1
          /\ \A n \in 1 .. Len(fs) - 1 : Tail(fs)[n] = fs[n + 1]
      BY <3>1
    <3>3. Named(fs, Head(fs))
      BY <3>2 DEF Named
    <3>4. ASSUME NEW f \in Field, Named(fs, f) PROVE f = Head(fs) \/ Named(Tail(fs), f)
      <4>1. PICK n \in 1 .. Len(fs) : fs[n] = f
        BY <3>2, <3>4 DEF Named
      <4>2. CASE n = 1
        BY <3>2, <4>1, <4>2
      <4>3. CASE n # 1
        <5>1. n - 1 \in 1 .. Len(fs) - 1 /\ (n - 1) + 1 = n
          BY <3>2, <4>3
        <5> QED
          BY <3>2, <4>1, <5>1 DEF Named
      <4> QED
        BY <4>2, <4>3
    <3>5. ASSUME NEW f \in Field, Named(Tail(fs), f) PROVE Named(fs, f)
      <4>1. PICK n \in 1 .. Len(fs) - 1 : Tail(fs)[n] = f
        BY <3>2, <3>5 DEF Named
      <4>2. n + 1 \in 1 .. Len(fs) /\ fs[n + 1] = f
        BY <3>2, <4>1
      <4> QED
        BY <3>2, <4>2 DEF Named
    <3>6. /\ Head(fs) \in Field /\ Tail(fs) \in Seq(Field)
          /\ Named(fs, Head(fs))
          /\ \A f \in Field : Named(fs, f) <=> f = Head(fs) \/ Named(Tail(fs), f)
      BY <3>2, <3>3, <3>4, <3>5
    <3> QED
      BY <3>6 DEF fs
  <2>7. vectors' = UpsertVector(vectors, put.item, Head(put.fields), put.row.value)
    BY <1>2, <2>2 DEF StoreVector
  <2>8. \A k \in DbStoreItemId \ {op.item} : items'[k] = items[k] /\ vectors'[k] = vectors[k]
    BY <2>1, <2>2, <2>4, <2>7 DEF UpsertVector, VectorsTable
  <2>9. \A f \in Field : vectors'[op.item][f] = IF f = Head(put.fields) THEN op.value
                                                ELSE vectors[op.item][f]
    BY <2>2, <2>3, <2>4, <2>7 DEF UpsertVector, VectorsTable
  <2>10. UNCHANGED call
    BY <1>2 DEF StoreVector, GoOn, Stored
  <2>11. Ops(c)' = Ops(c) /\ Kept(op)'
    BY <2>1, <2>4, <2>10 DEF Kept, Ops
  <2>12. \A f \in Field : IF Named(Tail(put.fields), f) THEN Named(op.fields, f)
                          ELSE vectors'[op.item][f] = Wanted(op, f)
    BY <2>4, <2>6, <2>9 DEF Wanted
  <2>13. CASE Tail(put.fields) = <<>>
    <3>1. Stored(c)
      BY <1>2, <2>2, <2>13 DEF StoreVector
    <3>2. \A f \in Field : vectors'[op.item][f] = Wanted(op, f)
      BY <2>12, <2>13 DEF Named
    <3>3. Settled(c, op)'
      BY <2>4, <2>11, <3>2 DEF Settled, With, Removes, Wanted
    <3> QED
      BY <2>1, <2>3, <2>8, <3>1, <3>3, StoredGoes, HeadGoes
  <2>14. CASE Tail(put.fields) # <<>>
    <3>1. /\ ready' = [ready EXCEPT ![c][1].fields = Tail(@)]
          /\ GoOn(c, "store_vector") /\ UNCHANGED todo
      BY <1>2, <2>2, <2>14 DEF StoreVector
    <3>2. pc'[c] = "store_vector"
      BY <3>1 DEF GoOn, Goto, TypeInv, DbTypes, ThreadTypes
    <3>3. ready'[c] = [ready[c] EXCEPT ![1] = [ready[c][1] EXCEPT !.fields = Tail(@)]]
      BY <3>1 DEF TypeInv, DbTypes, ThreadTypes
    <3>4. /\ DOMAIN ready'[c] = DOMAIN ready[c]
          /\ \A n \in DOMAIN ready[c] \ {1} : ready'[c][n] = ready[c][n]
          /\ ready'[c][1] = [put EXCEPT !.fields = Tail(@)]
      BY <2>2, <3>3
    <3>5. /\ ready'[c][1].item = put.item /\ ready'[c][1].row = put.row
          /\ ready'[c][1].fields = Tail(put.fields)
      BY <2>2, <3>4 DEF Prepared
    <3>6. WaitsAt(c, op, 1)'
      BY <2>4, <2>11, <2>12, <3>2, <3>5 DEF WaitsAt, Removes, Wanted
    <3> QED
      BY <2>1, <2>3, <2>8, <2>10, <3>1, <3>2, <3>4, <3>6, HeadStays
  <2> QED
    BY <2>13, <2>14
<1> QED
  BY <1>1, <1>2

\* A thread's own steps keep its puts as PutInv says.
LEMMA OwnPuts ==
    ASSUME TypeInv, DeletingInv, NEW c \in Client, PutOK(c), Invoke(c) \/ Step(c)
    PROVE  PutOK(c)'
<1>1. CASE pc[c] \notin Working
  BY <1>1, PutsBegin
<1>2. CASE pc[c] \in Working
  <2>1. pc[c] \notin {"idle", "ensure", "setup_lock", "setup_store", "setup_vectors",
                      "probe_lock", "probe_store", "probe_vectors", "lock", "sweep",
                      "sweep_vectors"}
    BY <1>2 DEF Working
  <2>2. ~ Invoke(c) /\ ~ EnsureReady(c) /\ ~ SetupLock(c) /\ ~ SetupStore(c) /\ ~ SetupVectors(c)
        /\ ~ ProbeLock(c) /\ ~ ProbeStore(c) /\ ~ ProbeVectors(c) /\ ~ Lock(c)
        /\ ~ SweepItems(c) /\ ~ SweepVectors(c)
    BY <2>1 DEF Invoke, Begin, EnsureReady, SetupLock, SetupStore, SetupVectors, ProbeLock,
                ProbeStore, ProbeVectors, Lock, SweepItems, SweepVectors
  <2>3. Return(c) => PutOK(c)'
    BY PutsEnd DEF Return
  <2> QED
    BY <2>2, <2>3, PutsRead, PutsDelete, PutsStoreItem, PutsClearVectors, PutsStoreVector DEF Step
<1> QED
  BY <1>1, <1>2

\* A step that leaves a thread's place and its locals alone, and the tables while it
\* works on a batch, leaves its puts as they are.
LEMMA OtherPuts ==
    ASSUME NEW d \in Client, PutOK(d), pc'[d] = pc[d], ready'[d] = ready[d],
           pc[d] \in Working => /\ call'[d] = call[d] /\ todo'[d] = todo[d]
                                /\ UNCHANGED <<items, vectors>>
    PROVE  PutOK(d)'
<1>1. CASE pc[d] \notin Working
  BY <1>1 DEF PutOK
<1>2. CASE pc[d] \in Working
  <2>1. Ops(d)' = Ops(d) /\ BegunPuts(d)' = BegunPuts(d)
    BY <1>2 DEF BegunPuts, Ops
  <2>2. \A i \in BegunPuts(d), n \in DOMAIN ready[d] :
           WaitsAt(d, Ops(d)[i], n) => WaitsAt(d, Ops(d)[i], n)'
    BY <1>2, <2>1 DEF WaitsAt, Kept, Asked, With, Removes, Wanted
  <2>3. \A i \in BegunPuts(d) : Settled(d, Ops(d)[i]) => Settled(d, Ops(d)[i])'
    BY <1>2, <2>1 DEF Settled, Kept, With, Removes, Wanted
  <2> QED
    BY <1>2, <2>1, <2>2, <2>3 DEF PutOK
<1> QED
  BY <1>1, <1>2

\* Every step keeps every thread's puts so.
LEMMA NextPuts ==
    ASSUME SingleStore
    PROVE  TypeInv /\ LockDiscipline /\ DeletingInv /\ PutInv /\ [Next]_vars => PutInv'
<1> SUFFICES ASSUME TypeInv, LockDiscipline, DeletingInv, PutInv, [Next]_vars PROVE PutInv'
  OBVIOUS
<1>1. CASE Tick \/ Finished \/ UNCHANGED vars
  <2>1. UNCHANGED <<pc, call, todo, ready, items, vectors>>
    BY <1>1 DEF Tick, Finished, vars, db, locals
  <2> QED
    BY <2>1, OtherPuts DEF PutInv
<1>2. ASSUME NEW c \in Client, Invoke(c) \/ Step(c) PROVE PutInv'
  <2> SUFFICES ASSUME NEW d \in Client PROVE PutOK(d)'
    BY DEF PutInv
  <2>1. CASE d = c
    BY <1>2, <2>1, OwnPuts DEF PutInv
  <2>2. CASE d # c
    <3>1. /\ pc'[d] = pc[d] /\ call'[d] = call[d] /\ todo'[d] = todo[d]
          /\ ready'[d] = ready[d]
      BY <1>2, <2>2, StepFrame DEF Frame
    <3>2. pc[d] \in Working => UNCHANGED <<items, vectors>>
      BY <1>2, <2>2, OthersKeepOut DEF Working, Critical, DataQuery
    <3> QED
      BY <3>1, <3>2, OtherPuts DEF PutInv
  <2> QED
    BY <2>1, <2>2
<1> QED
  BY <1>1, <1>2 DEF Next

\* A batch that returns has carried out all its puts that count.
LEMMA ReturnSettles ==
    ASSUME TypeInv, NEW c \in Client, PutOK(c), Return(c), NEW i \in DOMAIN Ops(c),
           Ops(c)[i].op = "put",
           \A j \in DOMAIN Ops(c) :
               ~ (j > i /\ Ops(c)[j].op = "put" /\ Ops(c)[j].item = Ops(c)[i].item)
    PROVE  Settled(c, Ops(c)[i]) /\ Ops(c)[i] \in PutOp
<1>1. pc[c] \in Working /\ todo[c] = {} /\ ready[c] = <<>>
  BY DEF Return, Working
<1>2. Ops(c) \in Seq(Op) /\ Ops(c)[i] \in Op
  BY <1>1, BatchShape
<1>3. IsPut(Ops(c), i) /\ i \in Effective(Ops(c))
  BY <1>2 DEF IsPut, Effective, SameItem
<1>4. i \in BegunPuts(c)
  BY <1>1, <1>3 DEF BegunPuts
<1> QED
  BY <1>1, <1>2, <1>4, OpShape DEF PutOK

\* Only a batch that returns says so from where it works.
LEMMA OnlyReturns ==
    ASSUME TypeInv, NEW c \in Client, Step(c), pc[c] = "work", pc'[c] = "idle",
           reply'[c].status = "ok"
    PROVE  Return(c)
<1>1. ASSUME QueryError(c) \/ Raise(c) PROVE FALSE
  BY <1>1 DEF QueryError, Raise, Leave, End, Outcome, TypeInv, DbTypes, ThreadTypes
<1>2. ASSUME NEW l, l # "idle", GoOn(c, l) PROVE FALSE
  BY <1>2 DEF GoOn, Goto, TypeInv, DbTypes, ThreadTypes
<1>3. CASE GetItem(c) \/ AskIndex(c) \/ SearchItems(c) \/ SearchRefused(c) \/ ListNamespaces(c)
  BY <1>1, <1>2, <1>3 DEF GetItem, AskIndex, SearchItems, SearchRefused, ListNamespaces
<1>4. CASE PreparePut(c) \/ Embed(c)
  BY <1>1, <1>2, <1>4 DEF PreparePut, Embed
<1>5. ~ EnsureReady(c) /\ ~ SetupLock(c) /\ ~ SetupStore(c) /\ ~ SetupVectors(c)
      /\ ~ ProbeLock(c) /\ ~ ProbeStore(c) /\ ~ ProbeVectors(c) /\ ~ Lock(c)
      /\ ~ Refresh(c) /\ ~ DeleteVectors(c) /\ ~ DeleteItem(c) /\ ~ StoreItem(c)
      /\ ~ ClearVectors(c) /\ ~ StoreVector(c) /\ ~ SweepItems(c) /\ ~ SweepVectors(c)
  BY DEF EnsureReady, SetupLock, SetupStore, SetupVectors, ProbeLock,
         ProbeStore, ProbeVectors, Lock, Refresh, DeleteVectors, DeleteItem, StoreItem,
         ClearVectors, StoreVector, SweepItems, SweepVectors
<1> QED
  BY <1>3, <1>4, <1>5 DEF Step

\* No step of a thread ends a batch well whose puts have not taken effect.
LEMMA PutsDone ==
    ASSUME TypeInv, PutInv, NEW d \in Client, Invoke(d) \/ Step(d)
    PROVE  PutsTookEffect
<1> SUFFICES ASSUME NEW c \in Client, pc[c] = "work", pc'[c] = "idle", reply'[c].status = "ok",
                    NEW i \in DOMAIN Ops(c), Ops(c)[i].op = "put",
                    \A j \in DOMAIN Ops(c) :
                       ~ (j > i /\ Ops(c)[j].op = "put" /\ Ops(c)[j].item = Ops(c)[i].item)
             PROVE  LET op == Ops(c)[i]
                        wanted == [f \in Field |->
                            IF \E n \in DOMAIN op.fields : op.fields[n] = f
                            THEN op.value ELSE NoRow]
                    IN  \/ op.value = None /\ items[op.item] = NoRow
                        \/ /\ items[op.item] # NoRow
                           /\ items[op.item].value = op.value
                           /\ items[op.item].ttl = op.ttl
                           /\ With(c).embed => vectors[op.item] = wanted
  BY DEF PutsTookEffect
<1>1. d = c
  BY StepFrame DEF Frame
<1>2. Return(c)
  BY <1>1, OnlyReturns DEF Invoke, Begin
<1>3. Settled(c, Ops(c)[i]) /\ Ops(c)[i] \in PutOp
  BY <1>2, ReturnSettles DEF PutInv
<1>4. Ops(c)[i].item \in DbStoreItemId /\ vectors[Ops(c)[i].item] \in [Field -> Value \cup {NoRow}]
  BY <1>3 DEF PutOp, TypeInv, DbTypes, ThreadTypes, VectorsTable
<1>5. CASE Removes(Ops(c)[i])
  BY <1>3, <1>5 DEF Settled, Removes
<1>6. CASE ~ Removes(Ops(c)[i])
  <2>1. Kept(Ops(c)[i])
    BY <1>3, <1>6 DEF Settled
  <2>2. With(c).embed =>
           vectors[Ops(c)[i].item] = [f \in Field |->
               IF \E n \in DOMAIN Ops(c)[i].fields : Ops(c)[i].fields[n] = f
               THEN Ops(c)[i].value ELSE NoRow]
    BY <1>3, <1>4, <1>6 DEF Settled, Wanted, Named
  <2> QED
    BY <2>1, <2>2 DEF Kept
<1> QED
  BY <1>5, <1>6

\* Through one store, when a batch returns, each item it puts is as the last put of it
\* says, with exactly the vectors that put asks for, whatever was there before.
THEOREM PutsLast ==
    ASSUME SingleStore
    PROVE  Spec => PutsTakeEffect
<1>1. Init => PutInv
  BY DEF Init, PutInv, PutOK, Working
<1>2. TypeInv /\ LockDiscipline /\ DeletingInv /\ PutInv /\ [Next]_vars => PutInv'
  BY NextPuts
<1>3. ASSUME TypeInv, PutInv, [Next]_vars PROVE [PutsTookEffect]_vars
  <2>1. UNCHANGED vars \/ Finished \/ Tick => [PutsTookEffect]_vars
    BY DEF Finished, Tick, PutsTookEffect
  <2> QED
    BY <1>3, <2>1, PutsDone DEF Next
<1> QED
  BY <1>1, <1>2, <1>3, Deletions, PTL DEF Spec, PutsTakeEffect
=============================================================================
