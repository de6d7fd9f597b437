------------------------- MODULE AsyncSurrealStore -------------------------
(***************************************************************************)
(* The asynchronous item store.  Its coroutines send the queries of the    *)
(* synchronous store in the same order under an asyncio.Lock, so their     *)
(* steps are those of SurrealStore; the module adds what is different:     *)
(*                                                                         *)
(*  - a task can be cancelled wherever it waits, and the statement it      *)
(*    waits for may have run, may never run, or may go astray, to be run   *)
(*    by the server once the lock is free again;                           *)
(*  - the answers is_installed and is_index_enabled are kept as tasks      *)
(*    (_lazy_call).  A task that fails is dropped and asked again, but a   *)
(*    cancellation is no Exception: whoever is cancelled while waiting for *)
(*    such a task cancels it for everybody, for good.                      *)
(***************************************************************************)
EXTENDS SurrealStoreAtomic

CONSTANT MaxCancels \* bound: cancelled tasks

ASSUME MaxCancelsAssumption == MaxCancels \in Nat

VARIABLES
    spoilt,  \* spoilt[s]: the questions whose cached task was cancelled
    astray,  \* statements of cancelled calls that the server has yet to run
    strayed, \* whether one of them has run late
    cancels, \* tasks cancelled so far
    heard    \* what callers were told until then, a cancellation being an exception

aio   == <<spoilt, astray, strayed, cancels>>
avars == <<vars, committed, aio, heard>>

Questions == {"installed", "indexed", "search"}

AsyncInit ==
    /\ AtomicInit
    /\ spoilt = [s \in Store |-> {}]
    /\ astray = {}
    /\ strayed = FALSE
    /\ cancels = 0
    /\ heard = reply

\* The history of what the store showed, until a statement runs late.
Remember ==
    /\ committed' = IF strayed' \/ ~ Quiet' THEN committed ELSE Content(items')
    /\ heard' = IF strayed' THEN heard
                ELSE [c \in Client |-> IF reply'[c].status = "cancelled"
                                       THEN Outcome("raised") ELSE reply'[c]]

OnLoop == UNCHANGED aio /\ Remember

-----------------------------------------------------------------------------
(* The coroutines *)

Coroutine(c) == Invoke(c) /\ OnLoop

setup(c) == (SetupLock(c) \/ SetupStore(c) \/ SetupVectors(c)) /\ OnLoop

ensure_ready(c) == EnsureReady(c) /\ OnLoop

\* Asking through a cache that keeps no answers.
AskingAlways(c) ==
    IF pc[c] = "probe_store" THEN {"installed"}
    ELSE IF pc[c] = "probe_vectors" THEN {"indexed"}
    ELSE IF pc[c] = "work" /\ \E i \in todo[c] : Turn(c, i, "search") /\ ~ BadQuery(c, i)
         THEN {"search"} ELSE {}

\* The question a call asks through the cache, if the answer is not there.
Asking(c) ==
    IF pc[c] = "probe_store" /\ cached[My(c)].installed = None THEN {"installed"}
    ELSE IF pc[c] = "probe_vectors" /\ cached[My(c)].indexed = None THEN {"indexed"}
    ELSE IF /\ pc[c] = "work" /\ cached[My(c)].search = None
            /\ \E i \in todo[c] : Turn(c, i, "search") /\ ~ BadQuery(c, i)
         THEN {"search"} ELSE {}

\* The task in the cache is a cancelled one, and so the call is cancelled too.
lazy_call_cancelled(c) ==
    /\ Asking(c) \cap spoilt[My(c)] # {}
    /\ Leave(c, Outcome("cancelled"))
    /\ UNCHANGED <<db, now, is_setup, cached, call, made, failures>>
    /\ OnLoop

Answered(c) == Asking(c) \cap spoilt[My(c)] = {}

probe(c) ==
    /\ ProbeLock(c) \/ (Answered(c) /\ (ProbeStore(c) \/ ProbeVectors(c)))
    /\ OnLoop

enter(c) == Lock(c) /\ OnLoop

batch_get(c) == GetItem(c) /\ OnLoop

refresh_items(c) == Refresh(c) /\ OnLoop

batch_search(c) ==
    /\ (Answered(c) /\ AskIndex(c)) \/ SearchItems(c) \/ SearchRefused(c)
    /\ OnLoop

batch_list_namespaces(c) == ListNamespaces(c) /\ OnLoop

batch_put(c) ==
    /\ PreparePut(c) \/ DeleteVectors(c) \/ DeleteItem(c)
    /\ OnLoop

generate_vectors(c) == Embed(c) /\ OnLoop

store_items(c) == (StoreItem(c) \/ ClearVectors(c) \/ StoreVector(c)) /\ OnLoop

abatch(c) == Return(c) /\ OnLoop

sweep_ttl(c) == (SweepItems(c) \/ SweepVectors(c)) /\ OnLoop

Time == Tick /\ OnLoop

-----------------------------------------------------------------------------
(* Cancellation *)

\* The statements a coroutine may be waiting for, of those that change anything.
Statements(c) ==
    CASE pc[c] = "setup_store"   -> {[do |-> "define", script |-> "store"]}
      [] pc[c] = "setup_vectors" -> {[do |-> "define", script |-> "index"]}
      [] pc[c] = "refresh"       -> {[do |-> "refresh", item |-> d.item, at |-> d.at] : d \in due[c]}
      [] pc[c] = "delete_vectors" ->
            {[do |-> "clear", item |-> Ops(c)[i].item] : i \in {j \in todo[c] : Current(c, j)}}
      [] pc[c] = "delete_item" ->
            {[do |-> "delete", item |-> Ops(c)[i].item] : i \in {j \in todo[c] : Current(c, j)}}
      [] pc[c] = "store" ->
            {[do |-> "upsert", item |-> Head(ready[c]).item, row |-> Head(ready[c]).row]}
      [] pc[c] = "clear_vectors" -> {[do |-> "clear", item |-> Head(ready[c]).item]}
      [] pc[c] = "store_vector" ->
            LET put == Head(ready[c]) IN
            {[do |-> "vector", item |-> put.item, field |-> Head(put.fields),
              value |-> put.row.value]}
      [] pc[c] = "sweep"         -> {[do |-> "sweep"]}
      [] pc[c] = "sweep_vectors" -> {[do |-> "clear", item |-> k] : k \in gone[c]}
      [] OTHER -> {}

Runs(s) ==
    /\ schema' = IF s.do = "define" THEN schema \cup {s.script} ELSE schema
    /\ items' = CASE s.do = "upsert"  -> Upsert(items, s.item, s.row)
                  [] s.do = "delete"  -> Delete(items, s.item)
                  [] s.do = "sweep"   -> DeleteAll(items, Expired(items, now))
                  [] s.do = "refresh" /\ items[s.item] # NoRow ->
                        UpdateExpiry(items, s.item, s.at)
                  [] OTHER -> items
    /\ vectors' = CASE s.do = "clear"  -> DeleteByItem(vectors, s.item)
                    [] s.do = "vector" -> UpsertVector(vectors, s.item, s.field, s.value)
                    [] OTHER -> vectors

\* Where a coroutine waits under the lock: for the embedding function, or for a
\* query.  It does not wait for an answer that is in the cache.
AtAwait(c) ==
    /\ pc[c] \in Critical
    /\ pc[c] = "work" => todo[c] # {} \/ (ready[c] # <<>> /\ With(c).embed)
    /\ pc[c] \in {"probe_store", "probe_vectors"} => Asking(c) # {}
    /\ Answered(c)

CancelAtAwait(c) ==
    /\ AtAwait(c)
    /\ Leave(c, Outcome("cancelled"))
    /\ \/ UNCHANGED <<db, astray>>
       \/ \E s \in Statements(c) : Runs(s) /\ UNCHANGED astray
       \/ \E s \in Statements(c) : astray' = astray \cup {s} /\ UNCHANGED db
    /\ \/ spoilt' = [spoilt EXCEPT ![My(c)] = @ \cup Asking(c)]
       \/ pc[c] = "work" /\ UNCHANGED spoilt
    /\ UNCHANGED <<is_setup, cached>>

CancelWaiting(c) ==
    /\ pc[c] \in {"ensure", "setup_lock", "probe_lock", "lock"}
    /\ End(c, Outcome("cancelled"))
    /\ UNCHANGED <<db, lock, is_setup, cached, astray, spoilt>>

\* A lock that a cancelled task does not give back.
CancelKeepingLock(c) ==
    /\ cancels < MaxCancels /\ cancels' = cancels + 1
    /\ AtAwait(c)
    /\ End(c, Outcome("cancelled"))
    /\ UNCHANGED <<db, now, call, made, failures, strayed, lock, is_setup, cached, astray, spoilt>>
    /\ Remember

Cancel(c) ==
    /\ cancels < MaxCancels
    /\ cancels' = cancels + 1
    /\ CancelAtAwait(c) \/ CancelWaiting(c)
    /\ UNCHANGED <<now, call, made, failures, strayed>>
    /\ Remember

\* The server gets round to a statement whose caller is gone.
RunAstray == \E s \in astray :
    /\ Runs(s)
    /\ astray' = astray \ {s}
    /\ strayed' = TRUE
    /\ UNCHANGED <<now, lock, is_setup, cached, pc, call, locals, reply, made, failures,
                   spoilt, cancels>>
    /\ Remember

-----------------------------------------------------------------------------
(* The system *)

Task(c) ==
    \/ ensure_ready(c) \/ setup(c) \/ probe(c) \/ lazy_call_cancelled(c) \/ enter(c)
    \/ batch_get(c) \/ refresh_items(c) \/ batch_search(c) \/ batch_list_namespaces(c)
    \/ batch_put(c) \/ generate_vectors(c) \/ store_items(c) \/ abatch(c) \/ sweep_ttl(c)

AllDone == Finished /\ UNCHANGED <<committed, aio, heard>>

AsyncNext ==
    \/ AllDone \/ Time \/ RunAstray
    \/ \E c \in Client : Coroutine(c) \/ Task(c) \/ Cancel(c)

AsyncSpec == AsyncInit /\ [][AsyncNext]_avars

-----------------------------------------------------------------------------
(* Properties *)

\* Every variable keeps its type, and a question that has an answer is not spoilt.
AsyncTypeOK ==
    /\ schema \subseteq {"store", "index"}
    /\ items \in ItemsTable
    /\ vectors \in VectorsTable
    /\ lock \in [Store -> Client \cup {Free}]
    /\ is_setup \in [Store -> BOOLEAN]
    /\ pc \in [Client -> Labels]
    /\ call \in [Client -> Calls \cup {NoCall}]
    /\ \A c \in Client : reply[c].status \in Outcomes \cup {"cancelled"}
    /\ spoilt \in [Store -> SUBSET Questions]
    /\ \A s \in Store, q \in Questions : q \in spoilt[s] => cached[s][q] = None
    /\ strayed \in BOOLEAN
    /\ cancels \in 0 .. MaxCancels

\* A batch that returns has put what it says, whatever cancelled batches and sweeps
\* have left half done before it.
AsyncPutsTakeEffect == [][strayed' \/ PutsTookEffect]_avars

\* Until a statement of a cancelled call runs late, every batch and every sweep
\* happens at one instant: one that is cancelled has carried out some of its puts
\* and none by half.
Promise == INSTANCE ItemStore WITH stored <- committed, told <- heard

AsyncImplementsItemStore == Promise!Spec

\* A call ends as cancelled although nobody cancelled it only as long as its store
\* has had no answer to the question it asks, or has not been set up: cancelling one
\* caller does others no harm once the store is in use.
CancellationSpares ==
    [][\A c \in Client :
          pc[c] # "idle" /\ reply'[c].status = "cancelled" /\ cancels' = cancels =>
              /\ cancels > 0
              /\ \/ ~ is_setup[My(c)]
                 \/ cached[My(c)].search = None /\ call[c].op = "batch"]_avars
=============================================================================
