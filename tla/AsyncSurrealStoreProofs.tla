----------------------- MODULE AsyncSurrealStoreProofs -----------------------
(***************************************************************************)
(* What holds of AsyncSurrealStore for every number of coroutines, stores, *)
(* calls, failures and cancellations.                                      *)
(*                                                                         *)
(* Its tasks take the steps of SurrealStore: what SurrealStoreProofs shows *)
(* of a step is cited and not repeated.  A call that is cancelled does     *)
(* what one does whose query fails: it ends, gives the lock back, and its  *)
(* statement has run or not.                                               *)
(***************************************************************************)
EXTENDS AsyncSurrealStore, SurrealStoreAtomicProofs

-----------------------------------------------------------------------------
(* A step of the store is one of a few kinds. *)

\* A step of the synchronous store, which needs no answer from a cancelled task.
Orderly(c) ==
    /\ Invoke(c) \/ Step(c)
    /\ cached' # cached => Answered(c)
    /\ OnLoop

\* Three steps ask; the others leave the answers alone.
LEMMA OnlyAsks ==
    ASSUME NEW c \in Client, Invoke(c) \/ Step(c), cached' # cached
    PROVE  ProbeStore(c) \/ ProbeVectors(c) \/ AskIndex(c)
<1>1. ASSUME QueryError(c) \/ Raise(c) PROVE FALSE
  BY <1>1 DEF QueryError, Raise
<1>2. ~ Invoke(c) /\ ~ EnsureReady(c) /\ ~ SetupLock(c) /\ ~ ProbeLock(c) /\ ~ Lock(c)
  BY DEF Invoke, Begin, EnsureReady, SetupLock, ProbeLock, Lock, StartWork
<1>3. ~ SetupStore(c) /\ ~ SetupVectors(c)
  BY <1>1 DEF SetupStore, SetupVectors, SetUp
<1>4. ~ GetItem(c) /\ ~ Refresh(c) /\ ~ SearchItems(c) /\ ~ SearchRefused(c)
      /\ ~ ListNamespaces(c)
  BY <1>1 DEF GetItem, Refresh, SearchItems, SearchRefused, ListNamespaces
<1>5. ~ PreparePut(c) /\ ~ DeleteVectors(c) /\ ~ DeleteItem(c) /\ ~ Embed(c)
  BY <1>1 DEF PreparePut, DeleteVectors, DeleteItem, Embed
<1>6. ~ StoreItem(c) /\ ~ ClearVectors(c) /\ ~ StoreVector(c)
  BY <1>1 DEF StoreItem, ClearVectors, StoreVector, Stored
<1>7. ~ Return(c) /\ ~ SweepItems(c) /\ ~ SweepVectors(c)
  BY <1>1 DEF Return, SweepItems, SweepVectors
<1> QED
  BY <1>2, <1>3, <1>4, <1>5, <1>6, <1>7 DEF Step

\* What a client does, and who else acts.
LEMMA StepKinds ==
    ASSUME AsyncNext
    PROVE  \/ AllDone \/ Time \/ RunAstray
           \/ \E c \in Client : Orderly(c) \/ lazy_call_cancelled(c) \/ Cancel(c)
<1>1. ASSUME NEW c \in Client, Coroutine(c) PROVE Orderly(c)
  BY <1>1 DEF Coroutine, Orderly, Invoke, Begin
<1>2. ASSUME NEW c \in Client, Task(c), ~ lazy_call_cancelled(c) PROVE Orderly(c)
  <2>1. Step(c) /\ OnLoop
    BY <1>2 DEF Task, ensure_ready, setup, probe, enter, batch_get, refresh_items,
                batch_search, batch_list_namespaces, batch_put, generate_vectors,
                store_items, abatch, sweep_ttl, Step
  <2>2. ASSUME cached' # cached PROVE Answered(c)
    <3>1. ASSUME ProbeStore(c) \/ ProbeVectors(c) PROVE Answered(c)
      <4>1. pc[c] \in {"probe_store", "probe_vectors"}
        BY <3>1 DEF ProbeStore, ProbeVectors
      <4>2. probe(c)
        BY <1>2, <4>1
           DEF Task, ensure_ready, EnsureReady, setup, SetupLock, SetupStore, SetupVectors,
               enter, Lock, batch_get, GetItem, refresh_items, Refresh, batch_search, AskIndex,
               SearchItems, SearchRefused, batch_list_namespaces, ListNamespaces, batch_put,
               PreparePut, DeleteVectors, DeleteItem, generate_vectors, Embed, store_items,
               StoreItem, ClearVectors, StoreVector, abatch, Return, sweep_ttl, SweepItems,
               SweepVectors, Turn
      <4> QED
        BY <4>1, <4>2 DEF probe, ProbeLock
    <3>2. ASSUME AskIndex(c) PROVE Answered(c)
      <4>1. PICK i \in todo[c] :
                   Turn(c, i, "search") /\ ~ BadQuery(c, i) /\ cached[My(c)].search = None
        BY <3>2 DEF AskIndex
      <4>2. pc[c] = "work" /\ cached' # cached
        BY <2>2, <4>1 DEF Turn
      <4>3. batch_search(c)
        BY <1>2, <3>2, <4>2, OnlyAsks
           DEF Task, ensure_ready, EnsureReady, setup, SetupLock, SetupStore, SetupVectors,
               probe, ProbeLock, ProbeStore, ProbeVectors, enter, Lock, batch_get, GetItem,
               refresh_items, Refresh, batch_list_namespaces, ListNamespaces, batch_put,
               PreparePut, DeleteVectors, DeleteItem, generate_vectors, Embed, store_items,
               StoreItem, ClearVectors, StoreVector, abatch, Return, sweep_ttl, SweepItems,
               SweepVectors, QueryError, GoOn
      <4> QED
        BY <4>3, <2>2 DEF batch_search, SearchItems, SearchRefused, QueryError, Raise
    <3> QED
      BY <2>1, <2>2, <3>1, <3>2, OnlyAsks
  <2> QED
    BY <2>1, <2>2 DEF Orderly
<1> QED
  BY <1>1, <1>2 DEF AsyncNext

-----------------------------------------------------------------------------
(* Statements *)

\* A statement that some call could have sent.
Sound(s) ==
    /\ s.do = "define" => s.script \in {"store", "index"}
    /\ s.do = "upsert" => s.item \in DbStoreItemId /\ s.row \in DbStoreItem
    /\ s.do = "refresh" => s.item \in DbStoreItemId /\ s.at \in Nat
    /\ s.do = "vector" => s.value \in Value

\* A call waits for a statement that suits its place, and if it runs it does what the
\* query of that place does.
LEMMA StatementFits ==
    ASSUME TypeInv, NEW c \in Client, NEW s \in Statements(c)
    PROVE  /\ Sound(s)
           /\ Runs(s) => ItemsMove(c) /\ VectorsMove(c)
           /\ pc[c] \in Critical
<1> USE DEF Critical, DataQuery
<1>1. /\ due \in [Client -> SUBSET Expiries] /\ ready \in [Client -> Seq(Prepared)]
      /\ ready[c] \in Seq(Prepared) /\ due[c] \in SUBSET Expiries
  BY DEF TypeInv, ThreadTypes
<1>2. CASE pc[c] \in {"setup_store", "setup_vectors"}
  <2>1. s.do = "define" /\ s.script \in {"store", "index"}
    BY <1>2 DEF Statements
  <2> QED
    BY <1>2, <2>1 DEF Sound, Runs, ItemsMove, VectorsMove
<1>3. CASE pc[c] = "refresh"
  <2>1. PICK d \in due[c] : s = [do |-> "refresh", item |-> d.item, at |-> d.at]
    BY <1>3 DEF Statements
  <2>2. d.item \in DbStoreItemId /\ d.at \in Nat
    BY <1>1 DEF Expiries
  <2> QED
    BY <1>3, <2>1, <2>2 DEF Sound, Runs, ItemsMove, VectorsMove
<1>4. CASE pc[c] = "delete_vectors"
  <2>1. PICK i \in todo[c] : Current(c, i) /\ s = [do |-> "clear", item |-> Ops(c)[i].item]
    BY <1>4 DEF Statements
  <2> QED
    BY <1>4, <2>1 DEF Sound, Runs, ItemsMove, VectorsMove
<1>5. CASE pc[c] = "delete_item"
  <2>1. PICK i \in todo[c] : Current(c, i) /\ s = [do |-> "delete", item |-> Ops(c)[i].item]
    BY <1>5 DEF Statements
  <2> QED
    BY <1>5, <2>1 DEF Sound, Runs, ItemsMove, VectorsMove
<1>6. CASE pc[c] \in {"store", "clear_vectors", "store_vector"}
  <2> DEFINE put == Head(ready[c])
  <2>1. put \in Prepared
    BY <1>1, <1>6, InvSplit, HeadPrepared
  <2>2. put.item \in DbStoreItemId /\ put.row \in DbStoreItem /\ put.row.value \in Value
    BY <2>1 DEF Prepared, DbStoreItem
  <2>3. CASE pc[c] = "store"
    <3>1. s = [do |-> "upsert", item |-> put.item, row |-> put.row]
      BY <2>3 DEF Statements
    <3> QED
      BY <2>2, <2>3, <3>1 DEF Sound, Runs, ItemsMove, VectorsMove
  <2>4. CASE pc[c] = "clear_vectors"
    <3>1. s = [do |-> "clear", item |-> put.item]
      BY <2>4 DEF Statements
    <3> QED
      BY <2>4, <3>1 DEF Sound, Runs, ItemsMove, VectorsMove
  <2>5. CASE pc[c] = "store_vector"
    <3>1. s = [do |-> "vector", item |-> put.item, field |-> Head(put.fields),
               value |-> put.row.value]
      BY <2>5 DEF Statements
    <3> QED
      BY <2>2, <2>5, <3>1 DEF Sound, Runs, ItemsMove, VectorsMove
  <2> QED
    BY <1>6, <2>3, <2>4, <2>5
<1>7. CASE pc[c] = "sweep"
  <2>1. s = [do |-> "sweep"]
    BY <1>7 DEF Statements
  <2> QED
    BY <1>7, <2>1 DEF Sound, Runs, ItemsMove, VectorsMove
<1>8. CASE pc[c] = "sweep_vectors"
  <2>1. PICK k \in gone[c] : s = [do |-> "clear", item |-> k]
    BY <1>8 DEF Statements
  <2> QED
    BY <1>8, <2>1 DEF Sound, Runs, ItemsMove, VectorsMove
<1>9. pc[c] \in {"setup_store", "setup_vectors", "refresh", "delete_vectors", "delete_item",
                 "store", "clear_vectors", "store_vector", "sweep", "sweep_vectors"}
  BY DEF Statements
<1> QED
  BY <1>2, <1>3, <1>4, <1>5, <1>6, <1>7, <1>8, <1>9

\* A statement keeps the types of the tables, whenever it runs.
LEMMA RunsType ==
    ASSUME DbTypes, NEW s, Sound(s), Runs(s), UNCHANGED now
    PROVE  DbTypes'
<1>1. schema' \subseteq {"store", "index"}
  BY DEF DbTypes, Runs, Sound
<1>2. items' \in ItemsTable
  <2>1. CASE s.do = "upsert"
    BY <2>1, UpsertType DEF DbTypes, Runs, Sound
  <2>2. CASE s.do = "delete"
    BY <2>2, DeleteType DEF DbTypes, Runs
  <2>3. CASE s.do = "sweep"
    BY <2>3, DeleteType DEF DbTypes, Runs
  <2>4. CASE s.do = "refresh" /\ items[s.item] # NoRow
    BY <2>4, UpdateExpiryType DEF DbTypes, Runs, Sound
  <2>5. CASE /\ s.do \notin {"upsert", "delete", "sweep"}
             /\ ~ (s.do = "refresh" /\ items[s.item] # NoRow)
    BY <2>5 DEF DbTypes, Runs
  <2> QED
    BY <2>1, <2>2, <2>3, <2>4, <2>5
<1>3. vectors' \in VectorsTable
  <2>1. CASE s.do = "clear"
    <3>1. \A k : DeleteByItem(vectors, k) \in VectorsTable
      BY DEF DbTypes, DeleteByItem, VectorsTable, NoVectors
    <3> QED
      BY <2>1, <3>1 DEF Runs
  <2>2. CASE s.do = "vector"
    BY <2>2, VectorsType DEF DbTypes, Runs, Sound
  <2>3. CASE s.do \notin {"clear", "vector"}
    BY <2>3 DEF DbTypes, Runs
  <2> QED
    BY <2>1, <2>2, <2>3
<1> QED
  BY <1>1, <1>2, <1>3 DEF DbTypes

-----------------------------------------------------------------------------
(* What a cancellation does *)

\* Whoever is cancelled, and wherever: the call ends, the lock it has is given back,
\* and the statement it waits for has run or not.
Cancelled(c) ==
    /\ pc[c] # "idle"
    /\ End(c, Outcome("cancelled"))
    /\ IF pc[c] \in Critical THEN lock' = [lock EXCEPT ![My(c)] = Free]
                             ELSE UNCHANGED <<lock, db>>
    /\ ItemsMove(c) /\ VectorsMove(c)
    /\ UNCHANGED <<now, is_setup, cached, call, made, failures, strayed>>
    /\ Remember

\* The statements astray are ones that some call sent.
StrayInv == \A s \in astray : Sound(s)

\* A question is spoilt only as long as it has no answer.
SpoiltOK ==
    /\ spoilt \in [Store -> SUBSET Questions]
    /\ \A s \in Store, q \in Questions : q \in spoilt[s] => cached[s][q] = None

\* What is asked is a question without an answer.
LEMMA AskingOpen ==
    ASSUME NEW c \in Client, NEW q \in Asking(c)
    PROVE  /\ q \in Questions /\ cached[My(c)][q] = None
           /\ pc[c] \in {"probe_store", "probe_vectors", "work"}
<1>1. CASE pc[c] = "probe_store" /\ cached[My(c)].installed = None
  BY <1>1 DEF Asking, Questions
<1>2. CASE pc[c] = "probe_vectors" /\ cached[My(c)].indexed = None
  BY <1>2 DEF Asking, Questions
<1>3. CASE pc[c] = "work" /\ cached[My(c)].search = None
  BY <1>3 DEF Asking, Questions
<1> QED
  BY <1>1, <1>2, <1>3 DEF Asking

\* A cancelled call, by itself or through the cache, does what Cancelled says.
LEMMA CancelKinds ==
    ASSUME TypeInv, NEW c \in Client, lazy_call_cancelled(c) \/ Cancel(c)
    PROVE  /\ Cancelled(c) /\ DbTypes' /\ schema \subseteq schema'
           /\ astray' = astray \/ \E s \in Statements(c) : astray' = astray \cup {s}
<1>1. CASE lazy_call_cancelled(c)
  <2>1. PICK q \in Asking(c) : q \in spoilt[My(c)]
    BY <1>1 DEF lazy_call_cancelled
  <2>2. pc[c] \in Critical /\ pc[c] # "idle"
    BY <2>1, AskingOpen DEF Critical, DataQuery
  <2>3. UNCHANGED <<schema, items, vectors, now>> /\ UNCHANGED aio
    BY <1>1 DEF lazy_call_cancelled, db, OnLoop
  <2>4. Cancelled(c)
    BY <1>1, <2>2, <2>3
       DEF lazy_call_cancelled, Leave, OnLoop, aio, db, Cancelled, ItemsMove, VectorsMove
  <2>5. DbTypes' /\ schema \subseteq schema'
    BY <2>3 DEF TypeInv, DbTypes
  <2> QED
    BY <2>3, <2>4, <2>5 DEF aio
<1>2. CASE Cancel(c) /\ CancelWaiting(c)
  <2>1. pc[c] \notin Critical /\ pc[c] # "idle"
    BY <1>2 DEF CancelWaiting, Critical, DataQuery
  <2>2. UNCHANGED <<schema, items, vectors, now, astray>>
    BY <1>2 DEF Cancel, CancelWaiting, db
  <2>3. Cancelled(c)
    BY <1>2, <2>1, <2>2 DEF Cancel, CancelWaiting, db, Cancelled, ItemsMove, VectorsMove
  <2>4. DbTypes' /\ schema \subseteq schema'
    BY <2>2 DEF TypeInv, DbTypes
  <2> QED
    BY <2>2, <2>3, <2>4
<1>3. CASE Cancel(c) /\ CancelAtAwait(c)
  <2>1. pc[c] \in Critical /\ pc[c] # "idle" /\ UNCHANGED now
    BY <1>3 DEF Cancel, CancelAtAwait, AtAwait, Critical, DataQuery
  <2>2. \/ UNCHANGED <<db, astray>>
        \/ \E s \in Statements(c) : Runs(s) /\ UNCHANGED astray
        \/ \E s \in Statements(c) : astray' = astray \cup {s} /\ UNCHANGED db
    BY <1>3 DEF CancelAtAwait
  <2>3. ItemsMove(c) /\ VectorsMove(c) /\ DbTypes' /\ schema \subseteq schema'
    <3>1. CASE UNCHANGED db
      BY <2>1, <3>1 DEF db, ItemsMove, VectorsMove, TypeInv, DbTypes
    <3>2. CASE \E s \in Statements(c) : Runs(s)
      <4>1. PICK s \in Statements(c) : Runs(s)
        BY <3>2
      <4>2. Sound(s) /\ ItemsMove(c) /\ VectorsMove(c)
        BY <4>1, StatementFits
      <4>3. DbTypes
        BY DEF TypeInv
      <4>4. schema \subseteq schema'
        BY <4>1 DEF Runs
      <4> QED
        BY <2>1, <4>1, <4>2, <4>3, <4>4, RunsType
    <3> QED
      BY <2>2, <3>1, <3>2
  <2>4. Cancelled(c)
    BY <1>3, <2>1, <2>3 DEF Cancel, CancelAtAwait, Leave, Cancelled
  <2> QED
    BY <2>2, <2>3, <2>4
<1> QED
  BY <1>1, <1>2, <1>3 DEF Cancel

\* The type invariant is kept by every step, a late statement included.
LEMMA AsyncTypeStep == TypeInv /\ StrayInv /\ [AsyncNext]_avars => TypeInv'
<1> SUFFICES ASSUME TypeInv, StrayInv, [AsyncNext]_avars PROVE TypeInv'
  OBVIOUS
<1>1. CASE UNCHANGED avars \/ AllDone \/ Time
  <2>1. [Next]_vars
    BY <1>1 DEF avars, AllDone, Finished, Time, Next
  <2> QED
    BY <2>1, NextType
<1>2. ASSUME NEW c \in Client, Orderly(c) PROVE TypeInv'
  BY <1>2, NextType DEF Orderly, Next
<1>3. ASSUME NEW c \in Client, lazy_call_cancelled(c) \/ Cancel(c) PROVE TypeInv'
  <2>1. Cancelled(c) /\ DbTypes'
    BY <1>3, CancelKinds
  <2>2. Outcome("cancelled") \in Replies
    BY EmptySeq DEF Outcome, Replies
  <2>3. ThreadInv
    BY InvSplit
  <2>4. lock' \in [Store -> Client \cup {Free}]
    BY <2>1, <2>3 DEF Cancelled, ThreadInv, ThreadTypes
  <2>5. is_setup' \in [Store -> BOOLEAN] /\ cached' \in [Store -> Answers]
    BY <2>1, <2>3, Zenon DEF Cancelled, ThreadInv, ThreadTypes
  <2>6. failures' \in 0 .. MaxFailures
    BY <2>1, <2>3 DEF Cancelled, ThreadInv, ThreadTypes
  <2>7. End(c, Outcome("cancelled")) /\ UNCHANGED <<call, made>>
    BY <2>1 DEF Cancelled
  <2>8. ThreadInv'
    BY <2>2, <2>3, <2>4, <2>5, <2>6, <2>7, EndKeeps
  <2> QED
    BY <2>1, <2>8, InvSplit
<1>4. CASE RunAstray
  <2>1. PICK s \in astray : Runs(s)
    BY <1>4 DEF RunAstray
  <2>2. Sound(s) /\ DbTypes /\ UNCHANGED now
    BY <1>4 DEF StrayInv, TypeInv, RunAstray
  <2>3. DbTypes'
    BY <2>1, <2>2, RunsType
  <2>4. UNCHANGED <<lock, is_setup, cached, pc, call, locals, reply, made, failures>>
    BY <1>4 DEF RunAstray
  <2>5. ThreadTypes' /\ PcInv'
    <3>1. ThreadTypes'
      BY <2>4, Zenon DEF TypeInv, ThreadTypes, locals
    <3>2. PcInv'
      BY <2>4 DEF TypeInv, PcInv, PcOK, locals, Ops
    <3> QED
      BY <3>1, <3>2
  <2> QED
    BY <2>3, <2>5 DEF TypeInv
<1> QED
  BY <1>1, <1>2, <1>3, <1>4, StepKinds

\* What is sent and not yet run stays sound.
LEMMA StrayStep == TypeInv /\ StrayInv /\ [AsyncNext]_avars => StrayInv'
<1> SUFFICES ASSUME TypeInv, StrayInv, [AsyncNext]_avars PROVE StrayInv'
  OBVIOUS
<1>1. CASE UNCHANGED avars \/ AllDone \/ Time \/ \E c \in Client : Orderly(c)
  BY <1>1 DEF avars, AllDone, Time, Orderly, OnLoop, aio, StrayInv, Sound
<1>2. ASSUME NEW c \in Client, lazy_call_cancelled(c) \/ Cancel(c) PROVE StrayInv'
  <2>1. \A s \in astray' : s \in astray \/ s \in Statements(c)
    BY <1>2, CancelKinds
  <2>2. \A s \in astray' : Sound(s)
    BY <2>1, StatementFits DEF StrayInv
  <2> QED
    BY <2>2 DEF StrayInv, Sound
<1>3. CASE RunAstray
  BY <1>3 DEF RunAstray, StrayInv, Sound
<1> QED
  BY <1>1, <1>2, <1>3, StepKinds

\* A question that gets an answer was not spoilt.
LEMMA AnswersOpen ==
    ASSUME TypeInv, SpoiltOK, NEW c \in Client, Orderly(c),
           NEW s \in Store, NEW q \in Questions, q \in spoilt[s]
    PROVE  cached'[s][q] = None
<1>1. /\ cached \in [Store -> Answers] /\ My(c) \in Store /\ cached[s][q] = None
      /\ cached[s] \in Answers
  BY StoreOfAssumption DEF TypeInv, ThreadTypes, SpoiltOK, My
<1>2. CASE cached' = cached
  BY <1>1, <1>2
<1>3. CASE cached' # cached
  <2>1. Asking(c) \cap spoilt[My(c)] = {} /\ (ProbeStore(c) \/ ProbeVectors(c) \/ AskIndex(c))
    BY <1>3, OnlyAsks DEF Orderly, Answered
  <2>2. CASE ProbeStore(c)
    <3>1. cached' = [cached EXCEPT ![My(c)].installed = TRUE]
      BY <1>3, <2>2 DEF ProbeStore, Raise, QueryError
    <3>2. ASSUME s = My(c), q = "installed" PROVE FALSE
      <4>1. cached[My(c)].installed = None
        BY <1>1, <3>2
      <4>2. "installed" \in Asking(c)
        BY <2>2, <4>1 DEF ProbeStore, Asking
      <4> QED
        BY <2>1, <3>2, <4>2
    <3> QED
      BY <1>1, <3>1, <3>2 DEF Questions, Answers
  <2>3. CASE ProbeVectors(c)
    <3>1. \E v : cached' = [cached EXCEPT ![My(c)].indexed = v]
      BY <1>3, <2>3 DEF ProbeVectors, QueryError
    <3>2. ASSUME s = My(c), q = "indexed" PROVE FALSE
      <4>1. cached[My(c)].indexed = None
        BY <1>1, <3>2
      <4>2. "indexed" \in Asking(c)
        BY <2>3, <4>1 DEF ProbeVectors, Asking
      <4> QED
        BY <2>1, <3>2, <4>2
    <3> QED
      BY <1>1, <3>1, <3>2 DEF Questions, Answers
  <2>4. CASE AskIndex(c)
    <3>1. PICK i \in todo[c] : /\ Turn(c, i, "search") /\ ~ BadQuery(c, i)
                               /\ cached[My(c)].search = None
      BY <2>4 DEF AskIndex
    <3>2. cached' = [cached EXCEPT ![My(c)].search = "index" \in schema]
      BY <1>3, <2>4 DEF AskIndex, QueryError
    <3>3. "search" \in Asking(c)
      BY <3>1 DEF Asking, Turn
    <3>4. ~ (s = My(c) /\ q = "search")
      BY <2>1, <3>3
    <3> QED
      BY <1>1, <3>2, <3>4 DEF Questions, Answers
  <2> QED
    BY <2>1, <2>2, <2>3, <2>4
<1> QED
  BY <1>2, <1>3

\* Whoever is cancelled while asking spoils that question and no other.
LEMMA SpoiltStep == TypeInv /\ SpoiltOK /\ [AsyncNext]_avars => SpoiltOK'
<1> SUFFICES ASSUME TypeInv, SpoiltOK, [AsyncNext]_avars PROVE SpoiltOK'
  OBVIOUS
<1>1. CASE UNCHANGED <<spoilt, cached>>
  BY <1>1 DEF SpoiltOK
<1>2. ASSUME NEW c \in Client, Orderly(c) PROVE SpoiltOK'
  <2>1. spoilt' = spoilt
    BY <1>2 DEF Orderly, OnLoop, aio
  <2> QED
    BY <1>2, <2>1, AnswersOpen DEF SpoiltOK
<1>3. ASSUME NEW c \in Client, Cancel(c), ~ UNCHANGED <<spoilt, cached>> PROVE SpoiltOK'
  <2>1. /\ spoilt' = [spoilt EXCEPT ![My(c)] = @ \cup Asking(c)]
        /\ cached' = cached
    BY <1>3 DEF Cancel, CancelAtAwait, CancelWaiting
  <2>2. \A q \in Asking(c) : q \in Questions /\ cached[My(c)][q] = None
    BY AskingOpen
  <2>3. My(c) \in Store
    BY StoreOfAssumption DEF My
  <2>4. spoilt' \in [Store -> SUBSET Questions]
    BY <2>1, <2>2, <2>3 DEF SpoiltOK
  <2>5. ASSUME NEW s \in Store, NEW q \in Questions, q \in spoilt'[s]
        PROVE  cached'[s][q] = None
    BY <2>1, <2>2, <2>3, <2>5 DEF SpoiltOK
  <2> QED
    BY <2>4, <2>5 DEF SpoiltOK
<1>4. ASSUME NEW c \in Client, lazy_call_cancelled(c) PROVE UNCHANGED <<spoilt, cached>>
  BY <1>4 DEF lazy_call_cancelled, OnLoop, aio
<1>5. UNCHANGED avars \/ AllDone \/ Time \/ RunAstray => UNCHANGED <<spoilt, cached>>
  BY DEF avars, vars, AllDone, Finished, Time, Tick, OnLoop, aio, RunAstray
<1> QED
  BY <1>1, <1>2, <1>3, <1>4, <1>5, StepKinds

-----------------------------------------------------------------------------
(* Types and locks *)

\* Cancellations are counted; a late statement is remembered.
Counted == strayed \in BOOLEAN /\ cancels \in 0 .. MaxCancels

AsyncTypeInv == TypeInv /\ StrayInv /\ SpoiltOK /\ Counted

\* Every step keeps the count.
LEMMA CountedStep == Counted /\ [AsyncNext]_avars => Counted'
<1> SUFFICES ASSUME Counted, [AsyncNext]_avars PROVE Counted'
  OBVIOUS
<1>1. CASE UNCHANGED aio
  BY <1>1, Zenon DEF Counted, aio
<1>2. CASE RunAstray
  BY <1>2, Zenon DEF Counted, RunAstray
<1>3. ASSUME NEW c \in Client, Cancel(c) PROVE Counted'
  <2>1. cancels' \in 0 .. MaxCancels
    BY <1>3, MaxCancelsAssumption DEF Counted, Cancel
  <2>2. strayed' \in BOOLEAN
    BY <1>3, Zenon DEF Counted, Cancel
  <2> QED
    BY <2>1, <2>2 DEF Counted
<1>4. ASSUME NEW c \in Client, lazy_call_cancelled(c) \/ Orderly(c) PROVE UNCHANGED aio
  BY <1>4 DEF lazy_call_cancelled, Orderly, OnLoop
<1>5. UNCHANGED avars \/ AllDone \/ Time => UNCHANGED aio
  BY DEF avars, aio, AllDone, Time, OnLoop
<1> QED
  BY <1>1, <1>2, <1>3, <1>4, <1>5, StepKinds

\* A step of the asynchronous store keeps all of it.
LEMMA AsyncInvStep == AsyncTypeInv /\ [AsyncNext]_avars => AsyncTypeInv'
BY AsyncTypeStep, StrayStep, SpoiltStep, CountedStep DEF AsyncTypeInv

\* It holds at the start.
LEMMA AsyncInitType == AsyncInit => AsyncTypeInv
<1> SUFFICES ASSUME AsyncInit PROVE AsyncTypeInv
  OBVIOUS
<1>1. TypeInv
  BY InitType DEF AsyncInit, AtomicInit
<1>2. StrayInv /\ Counted
  <2>1. cancels \in 0 .. MaxCancels /\ StrayInv
    BY MaxCancelsAssumption DEF AsyncInit, StrayInv
  <2>2. strayed \in BOOLEAN
    BY Zenon DEF AsyncInit
  <2> QED
    BY <2>1, <2>2 DEF Counted
<1>3. SpoiltOK
  BY DEF AsyncInit, SpoiltOK
<1> QED
  BY <1>1, <1>2, <1>3 DEF AsyncTypeInv

\* Whoever is cancelled and wherever, whichever statements run late, every variable
\* keeps its type, and a question that has an answer is not spoilt.
THEOREM AsyncTypes == AsyncSpec => []AsyncTypeOK
<1>1. AsyncTypeInv => AsyncTypeOK
  BY DEF AsyncTypeInv, AsyncTypeOK, TypeInv, DbTypes, ThreadTypes, SpoiltOK, Counted, Replies
<1> QED
  BY <1>1, AsyncInitType, AsyncInvStep, PTL DEF AsyncSpec

\* A cancelled call gives back the lock it has, and no other.
LEMMA CancelledLocks ==
    ASSUME TypeInv, LockDiscipline, NEW c \in Client, Cancelled(c)
    PROVE  LockDiscipline'
<1>1. "idle" \in Labels \ Critical /\ Goto(c, "idle")
  BY DEF Labels, Critical, DataQuery, Cancelled, End
<1>2. Stays(c) \/ Exits(c)
  BY <1>1 DEF Cancelled, Stays, Exits
<1> QED
  BY <1>2, MovesLock

\* Every step keeps the lock with the coroutine inside the with-statement.
LEMMA AsyncLocksStep ==
    AsyncTypeInv /\ LockDiscipline /\ [AsyncNext]_avars => LockDiscipline'
<1> SUFFICES ASSUME AsyncTypeInv, LockDiscipline, [AsyncNext]_avars PROVE LockDiscipline'
  OBVIOUS
<1>1. TypeInv
  BY DEF AsyncTypeInv
<1>2. CASE UNCHANGED avars \/ AllDone \/ Time \/ \E c \in Client : Orderly(c)
  <2>1. [Next]_vars
    BY <1>2 DEF avars, AllDone, Finished, Time, Next, Orderly
  <2> QED
    BY <1>1, <2>1, NextLocks
<1>3. ASSUME NEW c \in Client, lazy_call_cancelled(c) \/ Cancel(c) PROVE LockDiscipline'
  BY <1>1, <1>3, CancelKinds, CancelledLocks
<1>4. CASE RunAstray
  BY <1>4 DEF RunAstray, LockDiscipline
<1> QED
  BY <1>2, <1>3, <1>4, StepKinds

\* At the start all locks are free.
LEMMA AsyncInitLocks == AsyncInit => LockDiscipline
BY StoreOfAssumption, FreeAssumption
   DEF AsyncInit, AtomicInit, Init, LockDiscipline, Critical, DataQuery

\* However many stores, coroutines, failures and cancellations there are, a lock is
\* held exactly by the coroutine inside its async with-statement: a cancelled one
\* never keeps it, and never gives back one it only waits for.
THEOREM AsyncStoreLocks == AsyncSpec => []LockDiscipline
BY AsyncInitType, AsyncInvStep, AsyncInitLocks, AsyncLocksStep, PTL DEF AsyncSpec

-----------------------------------------------------------------------------
(* The schema *)

\* Every step keeps what stores know of the schema true: one that is cancelled while a
\* script runs has learnt nothing, and a script that runs late takes nothing away.
LEMMA AsyncSetupStep == AsyncTypeInv /\ SetupInv /\ [AsyncNext]_avars => SetupInv'
<1> SUFFICES ASSUME AsyncTypeInv, SetupInv, [AsyncNext]_avars PROVE SetupInv'
  OBVIOUS
<1>1. TypeInv
  BY DEF AsyncTypeInv
<1>2. CASE UNCHANGED avars \/ AllDone \/ Time \/ \E c \in Client : Orderly(c)
  <2>1. [Next]_vars
    BY <1>2 DEF avars, AllDone, Finished, Time, Next, Orderly
  <2> QED
    BY <1>1, <2>1, NextSetup
<1>3. ASSUME NEW c \in Client, lazy_call_cancelled(c) \/ Cancel(c) PROVE SetupInv'
  <2>1. Cancelled(c) /\ schema \subseteq schema'
    BY <1>1, <1>3, CancelKinds
  <2>2. Advances(c)
    BY <1>1, <2>1, AdvancesFailing DEF Cancelled, End
  <2> QED
    BY <2>2, AdvancesKeeps
<1>4. CASE RunAstray
  <2>1. schema \subseteq schema' /\ UNCHANGED <<is_setup, cached, pc>>
    BY <1>4 DEF RunAstray, Runs
  <2> QED
    BY <2>1 DEF SetupInv, Installed, Remembers, My, With
<1> QED
  BY <1>2, <1>3, <1>4, StepKinds

\* However many stores there are, whichever set-ups and probes are cancelled and
\* whichever scripts run late: no data is read or written before its schema is there,
\* and no indexed store remembers a database without an index.
THEOREM AsyncSchemaFirst == AsyncSpec => []ReadyMeansInstalled
<1>1. AsyncInit => SetupInv
  BY InitSetup DEF AsyncInit, AtomicInit
<1>2. SetupInv => ReadyMeansInstalled
  BY DEF SetupInv, Installed, Remembers, ReadyMeansInstalled
<1> QED
  BY <1>1, <1>2, AsyncInitType, AsyncInvStep, AsyncSetupStep, PTL DEF AsyncSpec

-----------------------------------------------------------------------------
(* Whom a cancellation harms *)

Probing == {"probe_store", "probe_vectors"}

\* How a step can make a store ready, or come to ask whether it is.
Readies(c) ==
    /\ \/ UNCHANGED is_setup
       \/ /\ pc[c] \in Critical /\ pc'[c] \notin Probing
          /\ is_setup' = [is_setup EXCEPT ![My(c)] = TRUE]
    /\ pc'[c] \in Probing => pc[c] \in Probing \/ ~ is_setup[My(c)]

\* A step that says where it goes, to no query of a probe.
LEMMA ReadiesElsewhere ==
    ASSUME TypeInv, NEW c \in Client, NEW l, Goto(c, l), l \notin Probing,
           UNCHANGED is_setup
    PROVE  Readies(c)
BY DEF TypeInv, ThreadTypes, Goto, Readies

\* A thread that takes a step is in a call, and does one of these.
LEMMA StepReadies ==
    ASSUME TypeInv, NEW c \in Client, Step(c)
    PROVE  Readies(c) /\ pc[c] # "idle"
<1> USE DEF Probing
<1>1. ASSUME QueryError(c) \/ Raise(c) \/ (\E r : Leave(c, r)) PROVE \E l : Goto(c, l) /\ l = "idle"
  BY <1>1 DEF QueryError, Raise, Leave, End
<1>2. ASSUME QueryError(c) \/ Raise(c) PROVE Readies(c)
  BY <1>1, <1>2, ReadiesElsewhere DEF QueryError, Raise
<1>3. ASSUME NEW l, GoOn(c, l), l \notin Probing PROVE Readies(c)
  BY <1>3, ReadiesElsewhere DEF GoOn
<1>4. ASSUME NEW r, Leave(c, r), UNCHANGED is_setup PROVE Readies(c)
  BY <1>1, <1>4, ReadiesElsewhere
<1>5. CASE EnsureReady(c) \/ Lock(c)
  BY <1>5, ReadiesElsewhere DEF EnsureReady, Lock, StartWork
<1>6. CASE SetupLock(c)
  BY <1>4, <1>6, ReadiesElsewhere DEF SetupLock, Acquire
<1>7. ASSUME SetUp(c), pc[c] \in Critical PROVE Readies(c)
  <2>1. pc'[c] = "idle"
    BY <1>7 DEF SetUp, Leave, End, Goto, TypeInv, ThreadTypes
  <2> QED
    BY <1>7, <2>1 DEF SetUp, Readies
<1>8. CASE SetupStore(c) \/ SetupVectors(c)
  <2>1. pc[c] \in Critical /\ pc[c] # "idle"
    BY <1>8 DEF SetupStore, SetupVectors, Critical
  <2>2. QueryError(c) \/ SetUp(c) \/ GoOn(c, "setup_vectors")
    BY <1>8 DEF SetupStore, SetupVectors
  <2> QED
    BY <1>2, <1>3, <1>7, <2>1, <2>2
<1>9. ASSUME Probed(c) PROVE pc'[c] \notin Probing
  BY <1>9 DEF Probed, Leave, End, Goto, TypeInv, ThreadTypes
<1>10. CASE ProbeLock(c)
  <2>1. pc[c] # "idle" /\ UNCHANGED is_setup
    BY <1>10 DEF ProbeLock
  <2>2. CASE is_setup[My(c)]
    BY <1>9, <1>10, <2>1, <2>2 DEF ProbeLock, Readies
  <2>3. CASE ~ is_setup[My(c)]
    BY <2>1, <2>3 DEF Readies
  <2> QED
    BY <2>2, <2>3
<1>11. CASE ProbeStore(c) \/ ProbeVectors(c)
  <2>1. pc[c] \in Probing /\ pc[c] \in Critical /\ pc[c] # "idle"
    BY <1>11 DEF ProbeStore, ProbeVectors, Critical
  <2>2. UNCHANGED is_setup \/ Ready(c)
    BY <1>11 DEF ProbeStore, ProbeVectors, GoOn, Raise, QueryError
  <2>3. CASE Ready(c)
    BY <1>9, <2>1, <2>3 DEF Ready, Readies
  <2> QED
    BY <2>1, <2>2, <2>3 DEF Readies
<1>12. CASE GetItem(c) \/ Refresh(c) \/ AskIndex(c) \/ ListNamespaces(c)
  <2>1. pc[c] # "idle"
    BY <1>12 DEF GetItem, Refresh, AskIndex, ListNamespaces, Turn
  <2>2. QueryError(c) \/ Raise(c) \/ \E l \in {"work", "refresh"} : GoOn(c, l)
    BY <1>12 DEF GetItem, Refresh, AskIndex, ListNamespaces
  <2> QED
    BY <1>2, <1>3, <2>1, <2>2
<1>13. CASE SearchItems(c) \/ SearchRefused(c)
  <2>1. pc[c] # "idle"
    BY <1>13 DEF SearchItems, SearchRefused, Turn
  <2>2. QueryError(c) \/ Raise(c) \/ \E l \in {"work", "refresh"} : GoOn(c, l)
    BY <1>13 DEF SearchItems, SearchRefused
  <2> QED
    BY <1>2, <1>3, <2>1, <2>2
<1>14. CASE PreparePut(c) \/ DeleteVectors(c) \/ DeleteItem(c) \/ Embed(c)
  <2>1. pc[c] # "idle"
    BY <1>14 DEF PreparePut, DeleteVectors, DeleteItem, Embed, Turn
  <2>2. \/ QueryError(c) \/ Raise(c)
        \/ \E l \in {"work", "delete_vectors", "delete_item", "store"} : GoOn(c, l)
    BY <1>14 DEF PreparePut, DeleteVectors, DeleteItem, Embed
  <2> QED
    BY <1>2, <1>3, <2>1, <2>2
<1>15. CASE StoreItem(c) \/ ClearVectors(c) \/ StoreVector(c)
  <2>1. pc[c] # "idle"
    BY <1>15 DEF StoreItem, ClearVectors, StoreVector
  <2>2. \/ QueryError(c) \/ Raise(c)
        \/ \E l \in {"work", "store", "clear_vectors", "store_vector"} : GoOn(c, l)
    BY <1>15 DEF StoreItem, ClearVectors, StoreVector, Stored
  <2> QED
    BY <1>2, <1>3, <2>1, <2>2
<1>16. CASE Return(c) \/ SweepItems(c) \/ SweepVectors(c)
  <2>1. pc[c] # "idle"
    BY <1>16 DEF Return, SweepItems, SweepVectors
  <2>2. \/ QueryError(c) \/ GoOn(c, "sweep_vectors")
        \/ (\E r : Leave(c, r)) /\ UNCHANGED is_setup
    BY <1>16 DEF Return, SweepItems, SweepVectors
  <2> QED
    BY <1>2, <1>3, <1>4, <2>1, <2>2
<1> QED
  BY <1>5, <1>6, <1>8, <1>10, <1>11, <1>12, <1>13, <1>14, <1>15, <1>16 DEF Step

\* CancellationSpares rests on this: nobody who is in a call has been told of a
\* cancellation, nothing is spoilt before the first one, and no call asks whether a
\* store is ready that is.
SparesInv ==
    /\ \A c \in Client : pc[c] # "idle" => reply[c].status # "cancelled"
    /\ cancels = 0 => \A s \in Store : spoilt[s] = {}
    /\ \A c \in Client : pc[c] \in Probing => ~ is_setup[My(c)]

\* Every step keeps it so.
LEMMA SparesStep ==
    AsyncTypeInv /\ LockDiscipline /\ SparesInv /\ [AsyncNext]_avars => SparesInv'
<1> SUFFICES ASSUME AsyncTypeInv, LockDiscipline, SparesInv, [AsyncNext]_avars
             PROVE  SparesInv'
  OBVIOUS
<1> USE DEF Probing
<1>1. TypeInv /\ cancels \in Nat
  BY DEF AsyncTypeInv, Counted
<1>2. CASE UNCHANGED avars \/ AllDone \/ Time
  BY <1>2 DEF avars, vars, AllDone, Finished, Time, Tick, OnLoop, aio, SparesInv, My
<1>3. CASE RunAstray
  BY <1>3 DEF RunAstray, SparesInv, My
<1>4. ASSUME NEW c \in Client, Orderly(c) PROVE SparesInv'
  <2>1. Frame(c) /\ \A d \in Client \ {c} : reply'[d] = reply[d]
    BY <1>1, <1>4, StepFrame, StepReplies DEF Orderly
  <2>2. ASSUME NEW d \in Client, pc'[d] # "idle" PROVE reply'[d].status # "cancelled"
    <3>1. CASE d # c
      BY <2>1, <2>2, <3>1 DEF Frame, SparesInv
    <3>2. CASE d = c /\ Invoke(c)
      BY <1>1, <3>2 DEF Invoke, Begin, NoReply, Outcome, TypeInv, ThreadTypes
    <3>3. CASE d = c /\ Step(c)
      BY <1>1, <3>3, StepReadies, StepReplies DEF SparesInv, Outcomes
    <3> QED
      BY <1>4, <3>1, <3>2, <3>3 DEF Orderly
  <2>3. cancels' = 0 => \A s \in Store : spoilt'[s] = {}
    BY <1>4 DEF Orderly, OnLoop, aio, SparesInv
  <2>4. Readies(c)
    <3>1. CASE Invoke(c)
      <4>1. PICK l : Goto(c, l) /\ l \notin Probing
        BY <3>1 DEF Invoke, Begin
      <4>2. UNCHANGED is_setup
        BY <3>1 DEF Invoke, Begin
      <4> QED
        BY <1>1, <4>1, <4>2, ReadiesElsewhere
    <3> QED
      BY <1>1, <1>4, <3>1, StepReadies DEF Orderly
  <2>5. ASSUME NEW d \in Client, pc'[d] \in Probing PROVE ~ is_setup'[My(d)]
    <3>1. My(c) \in Store /\ My(d) \in Store /\ is_setup \in [Store -> BOOLEAN]
      BY <1>1, StoreOfAssumption DEF My, TypeInv, ThreadTypes
    <3>2. pc[d] \in Probing => ~ is_setup[My(d)]
      BY DEF SparesInv
    <3>3. CASE UNCHANGED is_setup
      BY <2>1, <2>4, <2>5, <3>2, <3>3 DEF Frame, Readies
    <3>4. CASE /\ pc[c] \in Critical /\ pc'[c] \notin Probing
               /\ is_setup' = [is_setup EXCEPT ![My(c)] = TRUE]
      <4>1. d # c /\ pc[d] \in Probing
        BY <2>1, <2>5, <3>4 DEF Frame
      <4>2. pc[d] \in Critical
        BY <4>1 DEF Critical
      <4>3. lock[My(d)] = d /\ lock[My(c)] = c
        BY <3>1, <3>4, <4>2 DEF LockDiscipline, My
      <4>4. My(d) # My(c)
        BY <4>1, <4>3
      <4> QED
        BY <3>1, <3>2, <3>4, <4>1, <4>4
    <3> QED
      BY <2>4, <3>3, <3>4 DEF Readies
  <2> QED
    BY <2>2, <2>3, <2>5 DEF SparesInv, My
<1>5. ASSUME NEW c \in Client, lazy_call_cancelled(c) \/ Cancel(c) PROVE SparesInv'
  <2>1. Cancelled(c)
    BY <1>1, <1>5, CancelKinds
  <2>2. /\ UNCHANGED is_setup /\ pc'[c] = "idle"
        /\ \A d \in Client \ {c} : pc'[d] = pc[d] /\ reply'[d] = reply[d]
    BY <1>1, <2>1 DEF Cancelled, End, Goto, TypeInv, ThreadTypes
  <2>3. cancels' = 0 => \A s \in Store : spoilt'[s] = {}
    BY <1>1, <1>5 DEF Cancel, lazy_call_cancelled, OnLoop, aio, SparesInv
  <2> QED
    BY <2>2, <2>3 DEF SparesInv, My
<1> QED
  BY <1>2, <1>3, <1>4, <1>5, StepKinds

\* However many coroutines and stores there are, a call that ends as cancelled though
\* nobody cancelled it follows a cancellation of another, and its store has either not
\* been set up or had no answer to whether there is an index.
THEOREM CancelsSpare == AsyncSpec => CancellationSpares
<1> DEFINE Hit(c) == pc[c] # "idle" /\ reply'[c].status = "cancelled" /\ cancels' = cancels
           Open(c) == /\ cancels > 0
                      /\ \/ ~ is_setup[My(c)]
                         \/ cached[My(c)].search = None /\ call[c].op = "batch"
<1>1. AsyncInit => SparesInv
  BY DEF AsyncInit, AtomicInit, Init, NoReply, Outcome, SparesInv, Probing
<1>2. ASSUME AsyncTypeInv, SparesInv, [AsyncNext]_avars
      PROVE  [\A c \in Client : Hit(c) => Open(c)]_avars
  <2> SUFFICES ASSUME NEW c \in Client, AsyncNext, Hit(c) PROVE Open(c)
    BY <1>2
  <2>1. TypeInv /\ cancels \in Nat /\ reply[c].status # "cancelled"
    BY <1>2 DEF AsyncTypeInv, Counted, SparesInv
  <2>2. ~ AllDone /\ ~ Time /\ ~ RunAstray
    BY <2>1 DEF AllDone, Finished, vars, Time, Tick, RunAstray
  <2>3. \A d \in Client : ~ Orderly(d)
    BY <2>1, StepReplies DEF Orderly, Outcomes
  <2>4. \A d \in Client : ~ Cancel(d)
    BY <2>1 DEF Cancel
  <2>5. PICK d \in Client : lazy_call_cancelled(d)
    BY <2>2, <2>3, <2>4, StepKinds
  <2>6. d = c
    BY <2>1, <2>5 DEF lazy_call_cancelled, Leave, End, TypeInv, ThreadTypes
  <2>7. PICK q \in Asking(c) : q \in spoilt[My(c)]
    BY <2>5, <2>6 DEF lazy_call_cancelled
  <2>8. cancels > 0
    <3>1. My(c) \in Store
      BY StoreOfAssumption DEF My
    <3> QED
      BY <1>2, <2>1, <2>7, <3>1 DEF SparesInv
  <2>9. CASE pc[c] \in Probing
    BY <1>2, <2>8, <2>9 DEF SparesInv
  <2>10. CASE pc[c] = "work"
    <3>1. cached[My(c)].search = None
      BY <2>7, <2>10 DEF Asking
    <3>2. call[c].op = "batch"
      BY <2>1, <2>10, BatchShape DEF Working
    <3> QED
      BY <2>8, <3>1, <3>2
  <2> QED
    BY <2>7, <2>9, <2>10, AskingOpen DEF Probing
<1> QED
  BY <1>1, <1>2, AsyncInitType, AsyncInvStep, AsyncInitLocks, AsyncLocksStep, SparesStep, PTL
     DEF AsyncSpec, CancellationSpares

-----------------------------------------------------------------------------
(* One store: what a cancellation leaves behind *)

\* A cancelled call touches nothing of another, nor the tables of one that is inside.
LEMMA CancelledFrame ==
    ASSUME TypeInv, NEW c \in Client, Cancelled(c)
    PROVE  /\ Frame(c) /\ pc'[c] = "idle"
           /\ todo'[c] = {} /\ due'[c] = {} /\ ready'[c] = <<>> /\ gone'[c] = {}
           /\ reply' = [reply EXCEPT ![c] = Outcome("cancelled")]
<1>1. End(c, Outcome("cancelled")) /\ UNCHANGED <<call, now>>
  BY DEF Cancelled
<1>2. Frame(c)
  <2>1. \E l : Goto(c, l)
    BY <1>1 DEF End
  <2>2. (\E x : todo' = [todo EXCEPT ![c] = x]) /\ (\E x : due' = [due EXCEPT ![c] = x])
    BY <1>1 DEF End
  <2>3. (\E x : ready' = [ready EXCEPT ![c] = x]) /\ (\E x : gone' = [gone EXCEPT ![c] = x])
    BY <1>1 DEF End
  <2>4. \E x : reply' = [reply EXCEPT ![c] = x]
    BY <1>1 DEF End
  <2> QED
    BY <1>1, <2>1, <2>2, <2>3, <2>4, FrameOf
<1> QED
  BY <1>1, <1>2 DEF End, Goto, TypeInv, ThreadTypes

\* While one is inside, the cancellation of another changes no table.
LEMMA CancelledKeepsOut ==
    ASSUME SingleStore, LockDiscipline, NEW c \in Client, Cancelled(c),
           NEW d \in Client \ {c}, pc[d] \in Critical
    PROVE  UNCHANGED <<items, vectors>>
<1>1. pc[c] \notin Critical
  BY Alone
<1> QED
  BY <1>1 DEF Cancelled, db

\* A cancelled call keeps all that is known of the one store: what it leaves half done
\* is what a failing query leaves.
LEMMA CancelledKeeps ==
    ASSUME SingleStore, StoreInv, NEW c \in Client, Cancelled(c), TypeInv'
    PROVE  StoreInv'
<1>1. /\ TypeInv /\ LockDiscipline /\ DeletingInv /\ ExpiryInv /\ PutInv
      /\ Frame(c) /\ pc'[c] = "idle"
      /\ todo'[c] = {} /\ due'[c] = {} /\ ready'[c] = <<>> /\ gone'[c] = {}
      /\ ItemsMove(c) /\ VectorsMove(c) /\ now' = now
  BY CancelledFrame DEF StoreInv, Cancelled
<1>2. \A d \in Client \ {c} : pc[d] \in Critical => UNCHANGED <<items, vectors>>
  BY <1>1, CancelledKeepsOut
<1>3. LockDiscipline'
  BY <1>1, CancelledLocks
<1>4. DeletingInv'
  <2>1. ASSUME NEW d \in Client, pc'[d] \in {"delete_vectors", "delete_item"},
               NEW j \in todo'[d], Current(d, j)'
        PROVE  /\ IsPut(Ops(d), j)' /\ Removes(Ops(d)[j])'
               /\ pc'[d] = "delete_item" => ~ HasVector(vectors', Ops(d)'[j].item)
    <3>1. d # c /\ pc[d] = pc'[d] /\ call'[d] = call[d] /\ todo'[d] = todo[d]
      BY <1>1, <2>1 DEF Frame
    <3>2. UNCHANGED vectors
      BY <1>2, <2>1, <3>1 DEF Critical, DataQuery
    <3>3. Ops(d)' = Ops(d) /\ Current(d, j)
      BY <2>1, <3>1 DEF Ops, Current
    <3> QED
      BY <1>1, <2>1, <3>1, <3>2, <3>3 DEF DeletingInv, IsPut, Removes
  <2>2. ASSUME NEW d \in Client, ~ With(d).index PROVE vectors' = EmptyVectors
    <3>1. vectors = EmptyVectors /\ ~ With(c).index
      BY <1>1, <2>2 DEF DeletingInv, With, SingleStore
    <3>2. pc[c] # "store_vector"
      BY <1>1, <3>1 DEF DeletingInv
    <3>3. \A k : DeleteByItem(vectors, k) = vectors
      BY <3>1 DEF DeleteByItem, EmptyVectors
    <3> QED
      BY <1>1, <3>1, <3>2, <3>3 DEF VectorsMove
  <2>3. ASSUME NEW d \in Client, pc'[d] \in {"clear_vectors", "store_vector"}
        PROVE  With(d).index
    BY <1>1, <2>3 DEF Frame, DeletingInv
  <2> QED
    BY <2>1, <2>2, <2>3 DEF DeletingInv, With
<1>5. ExpiryInv'
  <2>1. \A k \in Rows(items') : Timed(items'[k], now')
    BY <1>1, QueryItemsTimed
  <2>2. ASSUME NEW d \in Client, NEW n \in DOMAIN ready'[d] PROVE Timed(ready'[d][n].row, now')
    <3>1. d # c
      BY <1>1, <2>2
    <3> QED
      BY <1>1, <2>2, <3>1 DEF Frame, ExpiryInv, Timed
  <2>3. ASSUME NEW d \in Client, pc'[d] = "refresh", NEW e \in due'[d] PROVE Refreshable(e)'
    <3>1. d # c /\ pc[d] = "refresh" /\ due'[d] = due[d]
      BY <1>1, <2>3 DEF Frame
    <3>2. UNCHANGED items
      BY <1>2, <3>1 DEF Critical, DataQuery
    <3> QED
      BY <1>1, <2>3, <3>1, <3>2 DEF ExpiryInv, Refreshable
  <2> QED
    BY <2>1, <2>2, <2>3 DEF ExpiryInv, Refreshable, Rows
<1>6. PutInv'
  <2> SUFFICES ASSUME NEW d \in Client PROVE PutOK(d)'
    BY DEF PutInv
  <2>1. CASE d = c
    BY <1>1, <2>1 DEF PutOK, Working
  <2>2. CASE d # c
    <3>1. /\ pc'[d] = pc[d] /\ call'[d] = call[d] /\ todo'[d] = todo[d]
          /\ ready'[d] = ready[d] /\ PutOK(d)
      BY <1>1, <2>2 DEF Frame, PutInv
    <3>2. pc[d] \in Working => UNCHANGED <<items, vectors>>
      BY <1>2, <2>2 DEF Working, Critical, DataQuery
    <3> QED
      BY <3>1, <3>2, OtherPuts
  <2> QED
    BY <2>1, <2>2
<1> QED
  BY <1>3, <1>4, <1>5, <1>6 DEF StoreInv

\* Once a statement has run late nothing is said any more.
Undisturbed == strayed \/ StoreInv

\* Until then every step keeps what is known of the one store.
LEMMA UndisturbedStep ==
    ASSUME SingleStore
    PROVE  AsyncTypeInv /\ Undisturbed /\ [AsyncNext]_avars => Undisturbed'
<1> SUFFICES ASSUME AsyncTypeInv, Undisturbed, [AsyncNext]_avars, ~ strayed'
             PROVE  StoreInv'
  BY DEF Undisturbed
<1>1. ~ RunAstray
  BY DEF RunAstray
<1>2. CASE UNCHANGED avars \/ AllDone \/ Time \/ \E c \in Client : Orderly(c)
  <2>1. [Next]_vars /\ strayed' = strayed
    BY <1>2 DEF avars, aio, AllDone, Finished, Time, Next, Orderly, OnLoop
  <2>2. StoreInv
    BY <2>1 DEF Undisturbed
  <2> QED
    BY <2>1, <2>2, NextType, NextLocks, NextDeleting, NextExpiry, NextPuts DEF StoreInv
<1>3. ASSUME NEW c \in Client, lazy_call_cancelled(c) \/ Cancel(c) PROVE StoreInv'
  <2>1. TypeInv' /\ Cancelled(c)
    BY <1>3, AsyncTypeStep, CancelKinds DEF AsyncTypeInv
  <2>2. StoreInv
    BY <2>1 DEF Cancelled, Undisturbed
  <2> QED
    BY <2>1, <2>2, CancelledKeeps
<1> QED
  BY <1>1, <1>2, <1>3, StepKinds

\* It holds at the start.
LEMMA AsyncInitStore == AsyncInit => StoreInv
BY InitStore DEF AsyncInit, AtomicInit

\* Through one store, whatever cancelled batches and sweeps have left half done: until
\* a statement runs late, a batch that returns has put what it says.
THEOREM AsyncPutsLast ==
    ASSUME SingleStore
    PROVE  AsyncSpec => AsyncPutsTakeEffect
<1>1. AsyncInit => Undisturbed
  BY AsyncInitStore DEF Undisturbed
<1>2. ASSUME AsyncTypeInv, Undisturbed, [AsyncNext]_avars
      PROVE  [strayed' \/ PutsTookEffect]_avars
  <2> SUFFICES ASSUME AsyncNext, ~ strayed' PROVE PutsTookEffect
    BY <1>2
  <2>1. CASE AllDone \/ Time
    BY <2>1 DEF AllDone, Finished, vars, Time, Tick, PutsTookEffect
  <2>2. ~ RunAstray
    BY DEF RunAstray
  <2>3. ASSUME NEW c \in Client, Orderly(c) PROVE PutsTookEffect
    BY <1>2, <2>3, PutsDone DEF Orderly, OnLoop, aio, Undisturbed, StoreInv
  <2>4. ASSUME NEW c \in Client, lazy_call_cancelled(c) \/ Cancel(c) PROVE PutsTookEffect
    <3>1. TypeInv /\ Cancelled(c)
      BY <1>2, <2>4, CancelKinds DEF AsyncTypeInv
    <3>2. \A d \in Client : pc'[d] # pc[d] => reply'[d] = Outcome("cancelled")
      BY <3>1, CancelledFrame DEF Frame, TypeInv, ThreadTypes
    <3> QED
      BY <3>2 DEF PutsTookEffect, Outcome
  <2> QED
    BY <2>1, <2>2, <2>3, <2>4, StepKinds
<1> QED
  BY <1>1, <1>2, AsyncInitType, AsyncInvStep, UndisturbedStep, PTL
     DEF AsyncSpec, AsyncPutsTakeEffect

\* Through one store, until a statement runs late, an item expires if and only if it has
\* a time to live, and no later than that time from now, although a cancelled read may
\* or may not have written the expiries it computed.
THEOREM AsyncExpiryFollowsTtl ==
    ASSUME SingleStore
    PROVE  AsyncSpec => [](strayed \/ ExpiryMatchesTtl)
<1>1. AsyncInit => Undisturbed
  BY AsyncInitStore DEF Undisturbed
<1>2. Undisturbed => strayed \/ ExpiryMatchesTtl
  BY DEF Undisturbed, StoreInv, ExpiryInv, Timed, ExpiryMatchesTtl
<1> QED
  BY <1>1, <1>2, AsyncInitType, AsyncInvStep, UndisturbedStep, PTL DEF AsyncSpec

-----------------------------------------------------------------------------
(* One store: what it promises *)

\* The two instances of ItemStore say the same of what is stored.
LEMMA PromiseDefs ==
    /\ Promise!DbStoreItemId = DbStoreItemId /\ Promise!EmptyItems = EmptyItems
    /\ \A T : Promise!Rows(T) = Rows(T)
    /\ \A T, keys : Promise!DeleteAll(T, keys) = DeleteAll(T, keys)
    /\ \A st, m, r : Promise!Answers(st, m, r) <=> Abstract!Answers(st, m, r)
    /\ \A st, m, keys : Promise!AfterPuts(st, m, keys) = Abstract!AfterPuts(st, m, keys)
    /\ \A how : Promise!Nothing(how) = Outcome(how) /\ Abstract!Nothing(how) = Outcome(how)
<1>1. Promise!DbStoreItemId = DbStoreItemId /\ Promise!EmptyItems = EmptyItems
  BY DEF Promise!DbStoreItemId, DbStoreItemId, Promise!EmptyItems, EmptyItems
<1>2. \A T : Promise!Rows(T) = Rows(T)
  BY DEF Promise!Rows, Rows, Promise!DbStoreItemId, DbStoreItemId
<1>3. \A T, keys : Promise!DeleteAll(T, keys) = DeleteAll(T, keys)
  BY DEF Promise!DeleteAll, DeleteAll, Promise!DbStoreItemId, DbStoreItemId
<1>4. \A st, m, r : Promise!Answers(st, m, r) <=> Abstract!Answers(st, m, r)
  <2>1. \A st, op : Promise!Sought(st, op) = Abstract!Sought(st, op)
    BY DEF Promise!Sought, Abstract!Sought, Promise!Rows, Abstract!Rows,
           Promise!DbStoreItemId, Abstract!DbStoreItemId
  <2>2. \A S : Promise!Cardinality(S) = Abstract!Cardinality(S)
    BY DEF Promise!Cardinality, Abstract!Cardinality
  <2>3. \A n, op : Promise!PageLength(n, op) = Abstract!PageLength(n, op)
    BY DEF Promise!PageLength, Abstract!PageLength
  <2>4. \A st, op : Promise!Pages(st, op) = Abstract!Pages(st, op)
    BY <2>1, <2>2, <2>3 DEF Promise!Pages, Abstract!Pages
  <2> QED
    BY <2>4 DEF Promise!Answers, Abstract!Answers, Promise!Item, Abstract!Item, Promise!Rows,
                Abstract!Rows, Promise!DbStoreItemId, Abstract!DbStoreItemId,
                Promise!Namespaces, Abstract!Namespaces
<1>5. \A st, m, keys : Promise!AfterPuts(st, m, keys) = Abstract!AfterPuts(st, m, keys)
  BY DEF Promise!AfterPuts, Abstract!AfterPuts, Promise!DbStoreItemId, Abstract!DbStoreItemId,
         Promise!IsPut, Abstract!IsPut, Promise!SameItem, Abstract!SameItem
<1>6. \A how : Promise!Nothing(how) = Outcome(how) /\ Abstract!Nothing(how) = Outcome(how)
  BY DEF Promise!Nothing, Abstract!Nothing, Outcome
<1> QED
  BY <1>1, <1>2, <1>3, <1>4, <1>5, <1>6

\* What callers have heard: of a cancellation, that the call raised.
Hear(r) == IF r.status = "cancelled" THEN Outcome("raised") ELSE r
Heard   == heard = [c \in Client |-> Hear(reply[c])]

\* A caller hears what it is told.
LEMMA HearsTold ==
    ASSUME TypeInv, Heard, Heard', NEW c \in Client, NEW r, reply' = [reply EXCEPT ![c] = r]
    PROVE  heard' = [heard EXCEPT ![c] = Hear(r)]
<1>1. reply \in [Client -> Replies]
  BY DEF TypeInv, ThreadTypes
<1>2. \A d \in Client : reply'[d] = IF d = c THEN r ELSE reply[d]
  BY <1>1
<1> QED
  BY <1>2 DEF Heard

\* A step of ItemStore that tells its clients what they are told is one that tells them
\* what they hear.
LEMMA PromiseStep ==
    ASSUME TypeInv, Heard, Heard', Abstract!Next
    PROVE  Promise!Next
<1>1. PICK c \in Client : \/ Abstract!DoBatch(c) \/ Abstract!BatchRaises(c)
                          \/ Abstract!Expire(c) \/ Abstract!Other(c)
  BY DEF Abstract!Next
<1>2. ASSUME NEW how \in {"none", "ok", "raised"}, Abstract!Tell(c, Abstract!Nothing(how))
      PROVE  Promise!Tell(c, Promise!Nothing(how))
  <2>1. reply' = [reply EXCEPT ![c] = Outcome(how)]
    BY <1>2, PromiseDefs DEF Abstract!Tell
  <2>2. Hear(Outcome(how)) = Outcome(how)
    BY DEF Hear, Outcome
  <2> QED
    BY <2>1, <2>2, HearsTold, PromiseDefs DEF Promise!Tell
<1>3. CASE Abstract!DoBatch(c)
  <2>1. PICK m \in Calls :
           /\ m.op = "batch"
           /\ Abstract!Tell(c, reply'[c]) /\ reply'[c].status = "ok"
           /\ Abstract!Answers(committed, m.ops, reply'[c].results)
           /\ committed' = Abstract!AfterPuts(committed, m.ops, Abstract!DbStoreItemId)
    BY <1>3 DEF Abstract!DoBatch
  <2>2. heard' = [heard EXCEPT ![c] = reply'[c]]
    BY <2>1, HearsTold DEF Abstract!Tell, Hear
  <2>3. heard'[c] = reply'[c]
    BY <2>2 DEF Heard
  <2>4. Promise!DbStoreItemId = Abstract!DbStoreItemId
    BY PromiseDefs, ItemDefs
  <2>5. Promise!DoBatch(c)
    BY <2>1, <2>2, <2>3, <2>4, PromiseDefs DEF Promise!DoBatch, Promise!Tell
  <2> QED
    BY <2>5 DEF Promise!Next
<1>4. CASE Abstract!BatchRaises(c)
  <2>1. Promise!DbStoreItemId = Abstract!DbStoreItemId
    BY PromiseDefs, ItemDefs
  <2>2. Promise!BatchRaises(c)
    BY <1>2, <1>4, <2>1, PromiseDefs DEF Abstract!BatchRaises, Promise!BatchRaises
  <2> QED
    BY <2>2 DEF Promise!Next
<1>5. CASE Abstract!Expire(c)
  <2>1. Promise!Expire(c)
    BY <1>2, <1>5, PromiseDefs, ItemDefs DEF Abstract!Expire, Promise!Expire
  <2> QED
    BY <2>1 DEF Promise!Next
<1>6. CASE Abstract!Other(c)
  <2>1. Promise!Other(c)
    BY <1>2, <1>6 DEF Abstract!Other, Promise!Other
  <2> QED
    BY <2>1 DEF Promise!Next
<1> QED
  BY <1>1, <1>3, <1>4, <1>5, <1>6

\* What is remembered while no statement has run late.
LEMMA Remembering ==
    ASSUME Remember, ~ strayed'
    PROVE  Heard' /\ committed' = IF Quiet' THEN Content(items)' ELSE committed
BY DEF Remember, Heard, Hear, Content

\* A cancelled call that was inside commits what the items hold; one that was not
\* commits nothing.
LEMMA CancelledCommits ==
    ASSUME SingleStore, StoreInv, StoreInv', HistoryInv, NEW c \in Client, Cancelled(c),
           ~ strayed'
    PROVE  /\ pc[c] \in Critical =>
                 /\ Quiet' /\ committed' = Content(items)'
                 /\ \A d \in Client : pc'[d] \notin Critical
           /\ pc[c] \notin Critical => UNCHANGED <<items, committed>>
<1>1. committed' = IF Quiet' THEN Content(items)' ELSE committed
  BY Remembering DEF Cancelled
<1>2. Frame(c) /\ pc'[c] = "idle"
  BY CancelledFrame DEF StoreInv
<1>3. CASE pc[c] \in Critical
  <2>1. \A d \in Client : pc'[d] \notin Critical
    BY <1>2, <1>3, Alone DEF Frame, StoreInv, Critical, DataQuery
  <2> QED
    BY <1>1, <1>3, <2>1, QuietNext DEF StoreInv
<1>4. CASE pc[c] \notin Critical
  <2>1. UNCHANGED <<items, lock>>
    BY <1>4 DEF Cancelled, db
  <2>2. (Quiet' <=> Quiet) /\ Content(items)' = Content(items)
    BY <2>1 DEF Quiet, Content
  <2> QED
    BY <1>1, <1>4, <2>1, <2>2 DEF HistoryInv
<1> QED
  BY <1>3, <1>4

\* A cancelled call leaves the history variable what it should be.
LEMMA CancelledHistory ==
    ASSUME SingleStore, StoreInv, StoreInv', HistoryInv, NEW c \in Client, Cancelled(c),
           ~ strayed'
    PROVE  HistoryInv'
<1>1. Frame(c) /\ pc'[c] = "idle"
  BY CancelledFrame DEF StoreInv
<1>2. CASE pc[c] \in Critical
  <2>1. committed' = Content(items)' /\ \A d \in Client : pc'[d] \notin Critical
    BY <1>2, CancelledCommits
  <2>2. \A d \in Client : Progress(d)'
    BY <2>1 DEF Progress, Working, Critical, DataQuery
  <2> QED
    BY <2>1, <2>2 DEF HistoryInv, Content
<1>3. CASE pc[c] \notin Critical
  <2>1. UNCHANGED <<items, committed, lock>>
    BY <1>3, CancelledCommits DEF Cancelled
  <2>2. ASSUME NEW d \in Client PROVE Progress(d)'
    <3>1. CASE d = c
      BY <1>1, <3>1 DEF Progress, Working, Critical, DataQuery
    <3>2. CASE d # c
      <4>1. /\ pc'[d] = pc[d] /\ todo'[d] = todo[d] /\ result'[d] = result[d]
            /\ call'[d] = call[d]
        BY <1>1, <3>2 DEF Frame, Cancelled, End, StoreInv, TypeInv, ThreadTypes
      <4>2. BatchProgress(d) => BatchProgress(d)'
        BY <2>1, <4>1 DEF BatchProgress, Ops, Content
      <4>3. SweepProgress => SweepProgress'
        BY <2>1 DEF SweepProgress, Content, Rows, DeleteAll
      <4>4. Progress(d)
        BY DEF HistoryInv
      <4> QED
        BY <2>1, <4>1, <4>2, <4>3, <4>4 DEF Progress, Content
    <3> QED
      BY <3>1, <3>2
  <2>3. Quiet' => committed' = Content(items)'
    BY <2>1 DEF HistoryInv, Quiet, Content
  <2> QED
    BY <2>2, <2>3 DEF HistoryInv, Content
<1> QED
  BY <1>2, <1>3

\* A cancelled call is one of ItemStore that raises: a batch that has carried out some
\* of its puts, a sweep that has removed some items, or neither.
LEMMA CancelledRefines ==
    ASSUME SingleStore, StoreInv, StoreInv', HistoryInv, Heard, NEW c \in Client,
           Cancelled(c), ~ strayed'
    PROVE  Promise!Next
<1>1. heard' = [heard EXCEPT ![c] = Outcome("raised")]
  <2>1. reply' = [reply EXCEPT ![c] = Outcome("cancelled")] /\ TypeInv
    BY CancelledFrame DEF StoreInv
  <2>2. Heard' /\ Hear(Outcome("cancelled")) = Outcome("raised")
    BY Remembering DEF Cancelled, Hear, Outcome
  <2> QED
    BY <2>1, <2>2, HearsTold
<1>2. Promise!Tell(c, Promise!Nothing("raised"))
  BY <1>1, PromiseDefs DEF Promise!Tell
<1>3. Progress(c) /\ ItemsMove(c) /\ TypeInv
  BY DEF HistoryInv, Cancelled, StoreInv
<1>4. CASE pc[c] \in Working
  <2>1. committed' = Content(items)' /\ BatchProgress(c)
    BY <1>3, <1>4, CancelledCommits DEF Progress, Working, Critical, DataQuery
  <2>2. /\ call[c] \in Calls /\ call[c].op = "batch"
        /\ \E ks \in SUBSET Abstract!DbStoreItemId :
              committed' = Abstract!AfterPuts(committed, call[c].ops, ks)
    BY <1>3, <1>4, <2>1, BatchLeaves
  <2>3. Promise!DbStoreItemId = Abstract!DbStoreItemId
    BY PromiseDefs, ItemDefs
  <2>4. Promise!BatchRaises(c)
    BY <1>2, <2>2, <2>3, PromiseDefs DEF Promise!BatchRaises
  <2> QED
    BY <2>4 DEF Promise!Next
<1>5. CASE pc[c] \in {"sweep", "sweep_vectors"}
  <2>1. committed' = Content(items)'
    BY <1>5, CancelledCommits DEF Critical, DataQuery
  <2>2. \E keys \in SUBSET {k \in Rows(committed) : committed[k].ttl # None} :
           committed' = DeleteAll(committed, keys)
    BY <1>3, <1>5, <2>1, SweepLeaves
  <2>3. Promise!Expire(c)
    BY <1>2, <2>2, PromiseDefs DEF Promise!Expire
  <2> QED
    BY <2>3 DEF Promise!Next
<1>6. CASE pc[c] \notin Working \cup {"sweep", "sweep_vectors"}
  <2>1. UNCHANGED committed
    <3>1. CASE pc[c] \in Critical
      <4>1. committed = Content(items) /\ committed' = Content(items)'
        BY <1>3, <1>6, <3>1, CancelledCommits DEF Progress
      <4>2. UNCHANGED items
        BY <1>3, <1>6 DEF ItemsMove, Working
      <4> QED
        BY <4>1, <4>2 DEF Content
    <3> QED
      BY <3>1, CancelledCommits
  <2>2. Promise!Other(c)
    BY <1>2, <2>1 DEF Promise!Other
  <2> QED
    BY <2>2 DEF Promise!Next
<1> QED
  BY <1>4, <1>5, <1>6

\* What is known of the one store, of what it showed and of what callers heard, until
\* a statement runs late.
Told == StoreInv /\ HistoryInv /\ Heard
Remembered == strayed \/ Told

\* Until then every step keeps it and is one of ItemStore, or none; after that what
\* the store showed and what callers heard stays as it is.
LEMMA PromiseKept ==
    ASSUME SingleStore, AsyncTypeInv, Undisturbed', Remembered, [AsyncNext]_avars
    PROVE  Remembered' /\ [Promise!Next]_(Promise!vars)
<1>1. CASE UNCHANGED avars \/ AllDone
  <2>1. UNCHANGED <<vars, committed, strayed, heard>>
    BY <1>1 DEF avars, aio, AllDone, Finished
  <2>2. HistoryInv => HistoryInv'
    BY <2>1 DEF vars, HistoryInv, Quiet, Content, Progress, BatchProgress, SweepProgress,
                Ops, Rows, Working, Critical, DataQuery
  <2>3. Heard => Heard'
    BY <2>1 DEF Heard, vars
  <2>4. UNCHANGED Promise!vars
    BY <2>1 DEF Promise!vars
  <2> QED
    BY <2>1, <2>2, <2>3, <2>4 DEF Remembered, Undisturbed, Told
<1>2. CASE strayed' /\ ~ UNCHANGED avars /\ ~ AllDone
  <2>1. Remember
    BY <1>2, StepKinds, CancelKinds DEF AsyncTypeInv, Time, Orderly, OnLoop, Cancelled, RunAstray
  <2>2. UNCHANGED Promise!vars
    BY <1>2, <2>1 DEF Remember, Promise!vars
  <2> QED
    BY <1>2, <2>2 DEF Remembered
<1>3. CASE ~ strayed' /\ (Time \/ \E c \in Client : Orderly(c))
  <2>1. strayed' = strayed /\ Remember /\ Next
    BY <1>3 DEF Time, Orderly, OnLoop, aio, Next
  <2>2. Told /\ StoreInv'
    BY <1>3, <2>1 DEF Remembered, Undisturbed
  <2>3. Heard' /\ committed' = IF Quiet' THEN Content(items') ELSE committed
    BY <1>3, <2>1, Remembering DEF Content
  <2>4. AtomicNext
    BY <2>1, <2>3 DEF AtomicNext
  <2>5. HistoryInv'
    BY <2>2, <2>4, NextHistory DEF Told
  <2>6. Abstract!Next \/ UNCHANGED Abstract!vars
    BY <2>2, <2>4, StepRefines DEF Told
  <2>7. CASE Abstract!Next
    BY <2>2, <2>3, <2>5, <2>7, PromiseStep DEF Told, StoreInv, Remembered
  <2>8. CASE UNCHANGED Abstract!vars
    <3>1. UNCHANGED <<committed, reply>>
      BY <2>8 DEF Abstract!vars
    <3>2. UNCHANGED Promise!vars
      BY <2>2, <2>3, <3>1 DEF Told, Heard, Promise!vars
    <3> QED
      BY <2>2, <2>3, <2>5, <3>2 DEF Told, Remembered
  <2> QED
    BY <2>6, <2>7, <2>8
<1>4. ASSUME NEW c \in Client, ~ strayed', lazy_call_cancelled(c) \/ Cancel(c)
      PROVE  Remembered' /\ [Promise!Next]_(Promise!vars)
  <2>1. Cancelled(c) /\ strayed' = strayed
    BY <1>4, CancelKinds DEF AsyncTypeInv, Cancelled
  <2>2. Told /\ StoreInv'
    BY <1>4, <2>1 DEF Remembered, Undisturbed
  <2>3. HistoryInv' /\ Heard'
    BY <1>4, <2>1, <2>2, CancelledHistory, Remembering DEF Told, Cancelled
  <2>4. Promise!Next
    BY <1>4, <2>1, <2>2, CancelledRefines DEF Told
  <2> QED
    BY <2>2, <2>3, <2>4 DEF Told, Remembered
<1>5. RunAstray => strayed'
  BY DEF RunAstray
<1> QED
  BY <1>1, <1>2, <1>3, <1>4, <1>5, StepKinds

\* At the start the store is empty and nobody has heard anything.
LEMMA PromiseInit == AsyncInit => Remembered /\ Promise!Init
<1> SUFFICES ASSUME AsyncInit PROVE Remembered /\ Promise!Init
  OBVIOUS
<1>1. Init /\ committed = Content(items) /\ heard = reply
  BY DEF AsyncInit, AtomicInit
<1>2. StoreInv
  BY AsyncInitStore
<1>3. HistoryInv
  BY <1>1 DEF Init, HistoryInv, Progress, Critical, DataQuery, Working
<1>4. reply = [c \in Client |-> Outcome("none")]
  BY <1>1 DEF Init, NoReply
<1>5. Heard
  BY <1>1, <1>4 DEF Heard, Hear, Outcome
<1>6. committed = EmptyItems
  BY <1>1 DEF Init, Content, EmptyItems
<1> QED
  BY <1>1, <1>2, <1>3, <1>4, <1>5, <1>6, PromiseDefs DEF Remembered, Told, Promise!Init

\* Through one object, until a statement of a cancelled call runs late, every batch and
\* every sweep takes effect at one instant, a cancelled one like one that raises: the
\* asynchronous store implements ItemStore.
THEOREM AsyncImplements ==
    ASSUME SingleStore
    PROVE  AsyncSpec => AsyncImplementsItemStore
<1>1. AsyncInit => AsyncTypeInv /\ Undisturbed /\ Remembered /\ Promise!Init
  BY AsyncInitType, AsyncInitStore, PromiseInit DEF Undisturbed
<1>2. /\ AsyncTypeInv /\ Undisturbed /\ [AsyncNext]_avars => (AsyncTypeInv /\ Undisturbed)'
      /\ AsyncTypeInv /\ Undisturbed' /\ Remembered /\ [AsyncNext]_avars =>
            Remembered' /\ [Promise!Next]_(Promise!vars)
  BY AsyncInvStep, UndisturbedStep, PromiseKept
<1> QED
  BY <1>1, <1>2, PTL DEF AsyncSpec, AsyncImplementsItemStore, Promise!Spec
=============================================================================
