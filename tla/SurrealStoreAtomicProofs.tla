---------------------- MODULE SurrealStoreAtomicProofs ----------------------
(***************************************************************************)
(* One SurrealStore implements ItemStore: the proof that the refinement    *)
(* checked on a small instance holds of every instance with one store.     *)
(***************************************************************************)
EXTENDS SurrealStoreAtomic, SurrealStoreProofs

-----------------------------------------------------------------------------
(* What a batch means, operation by operation *)

\* The items a search asks for, and what it may answer with: as ItemStore says it.
Sought(st, op) ==
    {k \in Rows(st) :
        /\ \A i \in DOMAIN op.namespace_prefix :
              i \in DOMAIN k.namespace /\ k.namespace[i] = op.namespace_prefix[i]
        /\ st[k].value \in op.filter}

Pages(st, op) ==
    LET sought == Sought(st, op) IN
    {page \in SUBSET sought :
        IF op.query THEN Cardinality(page) <= op.limit
        ELSE Cardinality(page) = PageLength(Cardinality(sought), op)}

\* Whether r is what a read is told of a store st.
Reads(st, op, r) ==
    /\ op.op = "get" => r = {Item(st, k) : k \in {op.item} \cap Rows(st)}
    /\ op.op = "search" =>
          \E page \in Pages(st, op) : r = {Item(st, k) : k \in page}
    /\ op.op = "list_namespaces" => r = Namespaces(st)

\* What a put makes of its item.
Given(op) == IF Removes(op) THEN NoRow ELSE [value |-> op.value, ttl |-> op.ttl]

\* Operation i of a batch m is the put of item k that counts.
PutsItem(m, i, k) == i \in Effective(m) /\ IsPut(m, i) /\ m[i].item = k

\* The instance's copies of the operators are the operators.
LEMMA ItemDefs ==
    /\ Abstract!DbStoreItemId = DbStoreItemId /\ Abstract!EmptyItems = EmptyItems
    /\ \A T : Abstract!Rows(T) = Rows(T)
    /\ \A T, k : Abstract!Item(T, k) = Item(T, k)
    /\ \A T : Abstract!Namespaces(T) = Namespaces(T)
    /\ \A T, op : Abstract!Pages(T, op) = Pages(T, op)
    /\ \A T, keys : Abstract!DeleteAll(T, keys) = DeleteAll(T, keys)
    /\ \A m, i : Abstract!IsPut(m, i) <=> IsPut(m, i)
    /\ \A m, i : Abstract!SameItem(m, i) = SameItem(m, i)
<1>1. Abstract!DbStoreItemId = DbStoreItemId
  BY DEF Abstract!DbStoreItemId, DbStoreItemId
<1>2. Abstract!EmptyItems = EmptyItems
  BY <1>1 DEF Abstract!EmptyItems, EmptyItems
<1>3. \A T : Abstract!Rows(T) = Rows(T)
  BY <1>1 DEF Abstract!Rows, Rows
<1>4. \A T, k : Abstract!Item(T, k) = Item(T, k)
  BY DEF Abstract!Item, Item
<1>5. \A T : Abstract!Namespaces(T) = Namespaces(T)
  BY <1>3 DEF Abstract!Namespaces, Namespaces
<1>6. \A T, keys : Abstract!DeleteAll(T, keys) = DeleteAll(T, keys)
  BY <1>1 DEF Abstract!DeleteAll, DeleteAll
<1>7. \A m, i : Abstract!IsPut(m, i) <=> IsPut(m, i)
  BY DEF Abstract!IsPut, IsPut
<1>8. \A m, i : Abstract!SameItem(m, i) = SameItem(m, i)
  BY <1>7 DEF Abstract!SameItem, SameItem
<1>9. ASSUME NEW T, NEW op
      PROVE  Abstract!Pages(T, op) = Pages(T, op)
  <2>1. Abstract!Sought(T, op) = Sought(T, op)
    BY <1>3 DEF Abstract!Sought, Sought
  <2>2. \A n : Abstract!PageLength(n, op) = PageLength(n, op)
    BY DEF Abstract!PageLength, PageLength
  <2>3. \A S : Abstract!Cardinality(S) = Cardinality(S)
    BY DEF Abstract!Cardinality, Cardinality
  <2> QED
    BY <2>1, <2>2, <2>3 DEF Abstract!Pages, Pages
<1> QED
  BY <1>1, <1>2, <1>3, <1>4, <1>5, <1>6, <1>7, <1>8, <1>9

\* Results that answer every read, and nothing for every put, answer the batch.
LEMMA AnswersOf ==
    ASSUME NEW st, NEW m \in Seq(Op), NEW r, DOMAIN r = DOMAIN m,
           \A i \in DOMAIN m : IF IsPut(m, i) THEN r[i] = {} ELSE Reads(st, m[i], r[i])
    PROVE  Abstract!Answers(st, m, r)
<1> DEFINE Found(o) == {Abstract!Item(st, k) : k \in {o.item} \cap Abstract!Rows(st)}
           Of(page) == {Abstract!Item(st, k) : k \in page}
           On(o) == Abstract!Pages(st, o)
<1> SUFFICES ASSUME NEW i \in DOMAIN m
             PROVE  CASE m[i].op = "get" -> r[i] = Found(m[i])
                      [] m[i].op = "search" -> \E page \in On(m[i]) : r[i] = Of(page)
                      [] m[i].op = "list_namespaces" -> r[i] = Abstract!Namespaces(st)
                      [] m[i].op = "put" -> r[i] = {}
  BY DEF Abstract!Answers
<1>1. /\ Found(m[i]) = {Item(st, k) : k \in {m[i].item} \cap Rows(st)}
      /\ \A page : Of(page) = {Item(st, k) : k \in page}
      /\ On(m[i]) = Pages(st, m[i])
      /\ Abstract!Namespaces(st) = Namespaces(st)
  BY ItemDefs
<1> HIDE DEF Found, Of, On
<1>2. m[i] \in Op
  OBVIOUS
<1>3. m[i].op \in {"get", "search", "list_namespaces", "put"}
  BY <1>2, OpShape
<1>4. CASE m[i].op = "put"
  BY <1>4 DEF IsPut
<1>5. CASE m[i].op # "put"
  <2>1. Reads(st, m[i], r[i])
    BY <1>5 DEF IsPut
  <2> QED
    BY <1>1, <1>3, <1>5, <2>1 DEF Reads
<1> QED
  BY <1>4, <1>5

\* Of the puts of an item the last one counts.
LEMMA LastPut ==
    ASSUME NEW m \in Seq(Op), NEW i, IsPut(m, i)
    PROVE  \E j \in DOMAIN m : PutsItem(m, j, m[i].item)
<1> DEFINE back == {n \in Nat : \E j \in SameItem(m, i) : n = Len(m) - j}
<1>1. /\ SameItem(m, i) \subseteq 1 .. Len(m) /\ i \in SameItem(m, i) /\ Len(m) \in Nat
      /\ \A j \in SameItem(m, i) : IsPut(m, j) /\ m[j].item = m[i].item
  BY DEF SameItem, IsPut
<1>2. back \in SUBSET Nat /\ back # {}
  <2>1. Len(m) - i \in back
    BY <1>1
  <2> QED
    BY <2>1
<1>3. PICK n \in back : \A x \in back : n <= x
  BY <1>2, Least
<1>4. PICK j \in SameItem(m, i) : n = Len(m) - j
  BY <1>3
<1>5. \A k \in SameItem(m, i) : k <= j
  <2> SUFFICES ASSUME NEW k \in SameItem(m, i) PROVE k <= j
    OBVIOUS
  <2>1. Len(m) - k \in back
    BY <1>1
  <2>2. j \in Int /\ k \in Int /\ Len(m) \in Int
    BY <1>1
  <2>3. Len(m) - j <= Len(m) - k
    BY <1>3, <1>4, <2>1
  <2> QED
    BY <2>2, <2>3
<1>6. SameItem(m, j) = SameItem(m, i)
  BY <1>1 DEF SameItem
<1> QED
  BY <1>1, <1>5, <1>6 DEF PutsItem, Effective, IsPut

\* The store after the puts of a batch to some items: the last put of an item counts.
LEMMA PutByLast ==
    ASSUME NEW st, NEW m \in Seq(Op), NEW keys, NEW k \in DbStoreItemId, k \in keys,
           NEW i, PutsItem(m, i, k)
    PROVE  Abstract!AfterPuts(st, m, keys)[k] = Given(m[i])
<1> DEFINE Last(j) == IsPut(m, j) /\ m[j].item = k /\ \A h \in SameItem(m, j) : h <= j
           last == CHOOSE j \in DOMAIN m : Last(j)
<1>1. i \in DOMAIN m /\ Last(i)
  BY DEF PutsItem, Effective
<1>2. Abstract!AfterPuts(st, m, keys)[k] =
          IF m[last].value = None THEN NoRow
          ELSE [value |-> m[last].value, ttl |-> m[last].ttl]
  BY <1>1, ItemDefs DEF Abstract!AfterPuts
<1>3. last \in DOMAIN m /\ Last(last)
  BY <1>1
<1>4. last \in Effective(m)
  BY <1>3 DEF Effective
<1>5. last = i
  BY <1>3, <1>4, EffectivePuts DEF PutsItem
<1> QED
  BY <1>2, <1>5 DEF Given, Removes

\* The same of a thread's own batch, of which every put has been carried out.
LEMMA PutOfCall ==
    ASSUME NEW c \in Client, Ops(c) \in Seq(Op), NEW k \in DbStoreItemId,
           NEW i, PutsItem(Ops(c), i, k)
    PROVE  Abstract!AfterPuts(committed, Ops(c), DbStoreItemId)[k] = Given(Ops(c)[i])
BY PutByLast

\* An item that no put of the batch reaches stays as it was.
LEMMA PutByNone ==
    ASSUME NEW st, NEW m \in Seq(Op), NEW keys, NEW k \in DbStoreItemId,
           k \notin keys \/ \A i \in DOMAIN m : ~ PutsItem(m, i, k)
    PROVE  Abstract!AfterPuts(st, m, keys)[k] = st[k]
<1>1. k \notin keys \/ ~ \E i \in DOMAIN m : IsPut(m, i) /\ m[i].item = k
  BY LastPut
<1> QED
  BY <1>1, ItemDefs DEF Abstract!AfterPuts

-----------------------------------------------------------------------------
(* What the items hold *)

\* The content of a table has the rows of the table, and reads like it.
LEMMA ContentOf ==
    ASSUME NEW T \in ItemsTable
    PROVE  /\ Rows(Content(T)) = Rows(T) /\ Namespaces(Content(T)) = Namespaces(T)
           /\ \A k \in Rows(T) : /\ Item(Content(T), k) = Item(T, k)
                                 /\ Content(T)[k].ttl = T[k].ttl
                                 /\ Content(T)[k].value = T[k].value
           /\ \A k \in DbStoreItemId : Content(T)[k] = IF T[k] = NoRow THEN NoRow
                 ELSE [value |-> T[k].value, ttl |-> T[k].ttl]
<1>1. \A k \in DbStoreItemId : Content(T)[k] = IF T[k] = NoRow THEN NoRow
                 ELSE [value |-> T[k].value, ttl |-> T[k].ttl]
  BY DEF Content
<1>2. ASSUME NEW k \in DbStoreItemId, T[k] # NoRow
      PROVE  [value |-> T[k].value, ttl |-> T[k].ttl] # NoRow
  <2>1. T[k] \in DbStoreItem
    BY <1>2 DEF ItemsTable
  <2>2. [value |-> T[k].value, ttl |-> T[k].ttl] \in [value: Value, ttl: Duration \cup {None}]
    BY <2>1 DEF DbStoreItem
  <2> QED
    BY <2>2, ContentAssumption
<1>3. Rows(Content(T)) = Rows(T)
  BY <1>1, <1>2 DEF Rows
<1>4. ASSUME NEW k \in Rows(T)
      PROVE  /\ Item(Content(T), k) = Item(T, k)
             /\ Content(T)[k].ttl = T[k].ttl /\ Content(T)[k].value = T[k].value
  <2>1. Content(T)[k] = [value |-> T[k].value, ttl |-> T[k].ttl]
    BY <1>1 DEF Rows
  <2>2. Content(T)[k].value = T[k].value /\ Content(T)[k].ttl = T[k].ttl
    BY <2>1
  <2> QED
    BY <2>2, Zenon DEF Item
<1> QED
  BY <1>1, <1>3, <1>4 DEF Namespaces

\* A read of the table is a read of its content.
LEMMA ReadsContent ==
    ASSUME NEW T \in ItemsTable, NEW op, NEW r, Reads(T, op, r)
    PROVE  Reads(Content(T), op, r)
<1>1. op.op = "get" => r = {Item(Content(T), k) : k \in {op.item} \cap Rows(Content(T))}
  <2>1. {Item(Content(T), k) : k \in {op.item} \cap Rows(Content(T))}
          = {Item(T, k) : k \in {op.item} \cap Rows(T)}
    BY ContentOf
  <2> QED
    BY <2>1 DEF Reads
<1>2. op.op = "search" =>
        \E page \in Pages(Content(T), op) : r = {Item(Content(T), k) : k \in page}
  <2>1. Sought(Content(T), op) = Sought(T, op)
    BY ContentOf DEF Sought
  <2>2. Pages(Content(T), op) = Pages(T, op)
    BY <2>1 DEF Pages
  <2>3. \A page \in Pages(T, op) : page \subseteq Rows(T)
    BY DEF Pages, Sought
  <2>4. \A page \in Pages(T, op) :
          {Item(Content(T), k) : k \in page} = {Item(T, k) : k \in page}
    BY <2>3, ContentOf
  <2> QED
    BY <2>2, <2>4 DEF Reads
<1>3. op.op = "list_namespaces" => r = Namespaces(Content(T))
  BY ContentOf DEF Reads
<1> QED
  BY <1>1, <1>2, <1>3 DEF Reads

-----------------------------------------------------------------------------
(* What is done of a call *)

\* A prefix is one part by part.
LEMMA PrefixByParts ==
    ASSUME NEW namespace \in Seq(Part), NEW value \in Seq(Part)
    PROVE  cmp_namespace(namespace, value)
             <=> \A i \in DOMAIN value : i \in DOMAIN namespace /\ namespace[i] = value[i]
<1>1. Len(value) \in Nat /\ Len(namespace) \in Nat
  OBVIOUS
<1>2. DOMAIN value = 1 .. Len(value) /\ DOMAIN namespace = 1 .. Len(namespace)
  OBVIOUS
<1>3. ASSUME Len(value) <= Len(namespace)
      PROVE  SubSeq(namespace, 1, Len(value)) = value
               <=> \A i \in 1 .. Len(value) : namespace[i] = value[i]
  <2>1. SubSeq(namespace, 1, Len(value)) = [i \in 1 .. Len(value) |-> namespace[i]]
    BY <1>1, <1>3
  <2>2. value = [i \in 1 .. Len(value) |-> value[i]]
    BY <1>2
  <2> QED
    BY <2>1, <2>2
<1>4. ASSUME \A i \in DOMAIN value : i \in DOMAIN namespace
      PROVE  Len(value) <= Len(namespace)
  <2>1. CASE Len(value) = 0
    BY <1>1, <2>1
  <2>2. CASE Len(value) # 0
    BY <1>1, <1>2, <1>4, <2>2
  <2> QED
    BY <2>1, <2>2
<1>5. Len(value) <= Len(namespace) => \A i \in DOMAIN value : i \in DOMAIN namespace
  BY <1>1, <1>2
<1> QED
  BY <1>2, <1>3, <1>4, <1>5 DEF cmp_namespace

\* What the server hands out is an answer.
LEMMA HitsAnswer ==
    ASSUME NEW op \in SearchOp, NEW hits \in Hits(items, vectors, op), hits \subseteq Rows(items)
    PROVE  hits \in Pages(items, op)
<1>1. Sought(items, op) = Matching(items, op)
  <2>1. op.namespace_prefix \in Seq(Part)
    BY DEF SearchOp
  <2>2. \A k \in Rows(items) : k.namespace \in Seq(Part)
    BY NamespaceAssumption DEF Rows, DbStoreItemId
  <2>3. \A k \in Rows(items) :
          cmp_namespace(k.namespace, op.namespace_prefix)
            <=> \A i \in DOMAIN op.namespace_prefix :
                   i \in DOMAIN k.namespace /\ k.namespace[i] = op.namespace_prefix[i]
    BY <2>1, <2>2, PrefixByParts
  <2> QED
    BY <2>3 DEF Sought, Matching
<1>2. CASE op.query
  <2>1. hits \in IndexedPages(items, vectors, op)
    BY <1>2 DEF Hits
  <2>2. hits \subseteq Matching(items, op) /\ Cardinality(hits) <= op.limit
    BY <2>1 DEF IndexedPages, Matching, Rows
  <2> QED
    BY <1>1, <1>2, <2>2 DEF Pages
<1>3. CASE ~ op.query
  BY <1>1, <1>3 DEF Hits, SearchPages, Pages
<1> QED
  BY <1>2, <1>3

\* Where a batch is: its reads answer from the items as they were when the lock was
\* taken, which no step changes while there is a read to do; then each item is as it
\* was, or as its put says.
BatchProgress(c) ==
    /\ DOMAIN result[c] = DOMAIN Ops(c)
    /\ \A i \in DOMAIN Ops(c) :
          IF IsPut(Ops(c), i) THEN result[c][i] = {}
          ELSE i \in todo[c] \/ Reads(committed, Ops(c)[i], result[c][i])
    /\ (\E i \in todo[c] : ~ IsPut(Ops(c), i)) => Content(items) = committed
    /\ \A k \in DbStoreItemId :
          \/ Content(items)[k] = committed[k]
          \/ \E i \in DOMAIN Ops(c) :
                PutsItem(Ops(c), i, k) /\ Content(items)[k] = Given(Ops(c)[i])
    /\ pc[c] \in {"store", "clear_vectors", "store_vector"} => todo[c] = {}

\* Where a sweep is: items with a time to live are gone, and nothing else is.
SweepProgress ==
    \E keys \in SUBSET {k \in Rows(committed) : committed[k].ttl # None} :
       Content(items) = DeleteAll(committed, keys)

Progress(c) ==
    /\ pc[c] \in Critical \ (Working \cup {"sweep_vectors"}) => committed = Content(items)
    /\ pc[c] \in Working => BatchProgress(c)
    /\ pc[c] = "sweep_vectors" => SweepProgress

\* What the history variable is, whoever is inside.
HistoryInv == (Quiet => committed = Content(items)) /\ \A c \in Client : Progress(c)

\* A refresh changes no content.
LEMMA RefreshContent ==
    ASSUME TypeInv, NEW c \in Client, NEW d \in due[c], items[d.item] # NoRow,
           items' = UpdateExpiry(items, d.item, d.at)
    PROVE  Content(items)' = Content(items)
<1>1. ASSUME NEW k \in DbStoreItemId
      PROVE  /\ items[k] = NoRow <=> items'[k] = NoRow
             /\ items[k] # NoRow => items'[k].value = items[k].value /\ items'[k].ttl = items[k].ttl
  <2>1. CASE items[k] # NoRow
    BY <2>1, RefreshKeeps
  <2>2. CASE items[k] = NoRow
    BY <2>2 DEF UpdateExpiry, TypeInv, DbTypes, ThreadTypes, ItemsTable
  <2> QED
    BY <2>1, <2>2
<1> QED
  BY <1>1 DEF Content

\* A put under way means that only puts are left.
LEMMA PutsAreLast ==
    ASSUME TypeInv, NEW c \in Client, pc[c] \in Working, NEW i \in todo[c], Current(c, i),
           IsPut(Ops(c), i), NEW j \in todo[c]
    PROVE  IsPut(Ops(c), j)
<1>1. /\ Ops(c) \in Seq(Op) /\ Ops(c)[j] \in Op /\ j \in DOMAIN Ops(c)
  BY BatchShape
<1>2. Before(Ops(c), i, j) /\ Ops(c)[i].op = "put"
  BY DEF Current, IsPut
<1>3. Ops(c)[j].op \in {"get", "search", "list_namespaces", "put"}
  BY <1>1, OpShape
<1> QED
  BY <1>1, <1>2, <1>3 DEF Before, Rank, IsPut

\* A step of a batch leaves an item as it is or as the put of it says, and changes
\* none while there is something to read.
LEMMA WorkContent ==
    ASSUME TypeInv, DeletingInv, NEW c \in Client, PutOK(c), pc[c] \in Working, ItemsMove(c),
           pc[c] = "store" => todo[c] = {}
    PROVE  /\ \A k \in DbStoreItemId :
                 \/ Content(items)'[k] = Content(items)[k]
                 \/ \E i \in DOMAIN Ops(c) :
                       PutsItem(Ops(c), i, k) /\ Content(items)'[k] = Given(Ops(c)[i])
           /\ (\E i \in todo[c] : ~ IsPut(Ops(c), i)) => Content(items)' = Content(items)
<1>1. CASE UNCHANGED items
  BY <1>1 DEF Content
<1>2. CASE \E d \in due[c] : items[d.item] # NoRow /\ items' = UpdateExpiry(items, d.item, d.at)
  BY <1>2, RefreshContent
<1>3. CASE pc[c] = "delete_item" /\ \E i \in todo[c] :
              Current(c, i) /\ items' = Delete(items, Ops(c)[i].item)
  <2>1. PICK i \in todo[c] : Current(c, i) /\ items' = Delete(items, Ops(c)[i].item)
    BY <1>3
  <2>2. IsPut(Ops(c), i) /\ Removes(Ops(c)[i])
    BY <1>3, <2>1 DEF DeletingInv
  <2>3. i \in DOMAIN Ops(c) /\ i \in Effective(Ops(c))
    BY BatchShape
  <2>4. \A j \in todo[c] : IsPut(Ops(c), j)
    BY <2>1, <2>2, PutsAreLast
  <2>5. ASSUME NEW k \in DbStoreItemId
        PROVE  IF k = Ops(c)[i].item THEN Content(items)'[k] = NoRow
               ELSE Content(items)'[k] = Content(items)[k]
    BY <2>1 DEF Delete, Content, TypeInv, DbTypes, ThreadTypes, ItemsTable
  <2> QED
    BY <2>2, <2>3, <2>4, <2>5 DEF PutsItem, Given
<1>4. CASE pc[c] = "store" /\ items' = Upsert(items, Head(ready[c]).item, Head(ready[c]).row)
  <2>1. /\ Head(ready[c]) = ready[c][1] /\ ready[c][1] \in Prepared
        /\ items \in ItemsTable /\ todo[c] = {}
    BY <1>4, HeadPut DEF TypeInv, DbTypes, ThreadTypes
  <2>2. PICK i \in BegunPuts(c) : WaitsAt(c, Ops(c)[i], 1)
    BY <1>4, HeadPut
  <2>3. /\ ~ Removes(Ops(c)[i]) /\ ready[c][1].item = Ops(c)[i].item
        /\ ready[c][1].row.value = Ops(c)[i].value /\ ready[c][1].row.ttl = Ops(c)[i].ttl
    BY <2>2 DEF WaitsAt
  <2>4. i \in DOMAIN Ops(c) /\ i \in Effective(Ops(c)) /\ IsPut(Ops(c), i)
    BY BatchShape DEF BegunPuts
  <2>5. ready[c][1].row # NoRow
    BY <2>1, NoRowAssumption DEF Prepared
  <2>6. ASSUME NEW k \in DbStoreItemId
        PROVE  IF k = Ops(c)[i].item
               THEN Content(items)'[k] = [value |-> Ops(c)[i].value, ttl |-> Ops(c)[i].ttl]
               ELSE Content(items)'[k] = Content(items)[k]
    BY <1>4, <2>1, <2>3, <2>5 DEF Upsert, Content, ItemsTable
  <2> QED
    BY <2>1, <2>3, <2>4, <2>6 DEF PutsItem, Given
<1> QED
  BY <1>1, <1>2, <1>3, <1>4 DEF ItemsMove, Working

\* What a step does to the results of a batch: nothing, or a read is answered from
\* the items as they are.
Answering(c) ==
    /\ DOMAIN result'[c] = DOMAIN result[c] /\ todo'[c] \subseteq todo[c]
    /\ \A i \in DOMAIN Ops(c) :
          \/ result'[c][i] = result[c][i] /\ (i \in todo[c] \ todo'[c] => IsPut(Ops(c), i))
          \/ i \in todo[c] /\ ~ IsPut(Ops(c), i) /\ Reads(items, Ops(c)[i], result'[c][i])

\* The result of one read.
LEMMA ReportAnswers ==
    ASSUME TypeInv, NEW c \in Client, DOMAIN result[c] = DOMAIN Ops(c), NEW i \in todo[c],
           i \in DOMAIN Ops(c), NEW r, Begun(c, i), Report(c, i, r), ~ IsPut(Ops(c), i),
           Reads(items, Ops(c)[i], r)
    PROVE  Answering(c)
<1>1. todo'[c] = todo[c] \ {i} /\ result'[c] = [result[c] EXCEPT ![i] = r]
  BY DEF Begun, Report, TypeInv, DbTypes, ThreadTypes
<1> QED
  BY <1>1 DEF Answering

\* Every step of a batch that goes on answers so.
LEMMA StepAnswers ==
    ASSUME TypeInv, DeletingInv, NEW c \in Client, Step(c), pc[c] \in Working,
           pc'[c] \in Working, DOMAIN result[c] = DOMAIN Ops(c)
    PROVE  Answering(c)
<1>1. ASSUME QueryError(c) \/ Raise(c) \/ (\E r : Leave(c, r)) PROVE FALSE
  BY <1>1, EndLocals DEF Working
<1>2. ASSUME UNCHANGED result, todo'[c] = todo[c] PROVE Answering(c)
  BY <1>2 DEF Answering
<1>3. ASSUME UNCHANGED result, NEW i \in todo[c], Begun(c, i), IsPut(Ops(c), i)
      PROVE  Answering(c)
  <2>1. todo'[c] = todo[c] \ {i}
    BY <1>3 DEF Begun, TypeInv, DbTypes, ThreadTypes
  <2> QED
    BY <1>3, <2>1 DEF Answering
<1>4. \A i \in todo[c] : i \in DOMAIN Ops(c)
  BY BatchShape
<1>5. CASE GetItem(c)
  <2>1. PICK i \in todo[c] : /\ Turn(c, i, "get") /\ Begun(c, i)
             /\ Report(c, i, {Item(items, k) : k \in {Ops(c)[i].item} \cap Rows(items)})
    BY <1>1, <1>5 DEF GetItem
  <2>2. Ops(c)[i].op = "get" /\ ~ IsPut(Ops(c), i)
    BY <2>1 DEF Turn, IsPut
  <2>3. Reads(items, Ops(c)[i], {Item(items, k) : k \in {Ops(c)[i].item} \cap Rows(items)})
    BY <2>2 DEF Reads
  <2> QED
    BY <1>4, <2>1, <2>2, <2>3, ReportAnswers
<1>6. CASE SearchItems(c)
  <2>1. PICK i \in todo[c], hits \in SUBSET DbStoreItemId :
             /\ hits \in Hits(items, vectors, Ops(c)[i])
             /\ Turn(c, i, "search") /\ hits \subseteq Rows(items) /\ Begun(c, i)
             /\ Report(c, i, {Item(items, k) : k \in hits})
    BY <1>1, <1>6 DEF SearchItems, Rows
  <2>2. Ops(c)[i].op = "search" /\ ~ IsPut(Ops(c), i)
    BY <2>1 DEF Turn, IsPut
  <2>3. Ops(c)[i] \in SearchOp
    BY <2>1, <2>2, BatchShape, OpShape DEF Turn, Working
  <2>4. hits \in Pages(items, Ops(c)[i])
    BY <2>1, <2>3, HitsAnswer
  <2>5. Reads(items, Ops(c)[i], {Item(items, k) : k \in hits})
    BY <2>2, <2>4 DEF Reads
  <2> QED
    BY <1>4, <2>1, <2>2, <2>5, ReportAnswers
<1>7. CASE ListNamespaces(c)
  <2> DEFINE listings == {i \in todo[c] : Ops(c)[i].op = "list_namespaces"}
  <2>1. /\ todo' = [todo EXCEPT ![c] = @ \ listings]
        /\ result' = [result EXCEPT ![c] = [i \in DOMAIN @ |->
                           IF i \in listings THEN Namespaces(items) ELSE @[i]]]
    BY <1>1, <1>7 DEF ListNamespaces
  <2>2. /\ todo'[c] = todo[c] \ listings
        /\ result'[c] = [i \in DOMAIN result[c] |->
                           IF i \in listings THEN Namespaces(items) ELSE result[c][i]]
    BY <2>1 DEF TypeInv, DbTypes, ThreadTypes
  <2>3. \A i \in listings : ~ IsPut(Ops(c), i) /\ Reads(items, Ops(c)[i], Namespaces(items))
    BY DEF IsPut, Reads
  <2> QED
    BY <2>2, <2>3 DEF Answering
<1>8. CASE Refresh(c) \/ AskIndex(c) \/ SearchRefused(c)
  BY <1>1, <1>2, <1>8 DEF Refresh, AskIndex, SearchRefused, locals
<1>9. CASE PreparePut(c)
  <2>1. PICK i \in todo[c] : /\ Turn(c, i, "put") /\ UNCHANGED result
                             /\ Begun(c, i) \/ todo' = todo
    BY <1>1, <1>9 DEF PreparePut, locals
  <2>2. IsPut(Ops(c), i)
    BY <1>4, <2>1 DEF Turn, IsPut
  <2> QED
    BY <1>2, <1>3, <2>1, <2>2
<1>10. CASE DeleteItem(c)
  <2>1. PICK i \in todo[c] : /\ pc[c] = "delete_item" /\ Current(c, i) /\ UNCHANGED result
                             /\ Begun(c, i)
    BY <1>1, <1>10 DEF DeleteItem
  <2> QED
    BY <1>3, <2>1 DEF DeletingInv
<1>11. CASE DeleteVectors(c) \/ Embed(c)
  BY <1>1, <1>2, <1>11 DEF DeleteVectors, Embed, locals
<1>12. CASE StoreItem(c) \/ ClearVectors(c) \/ StoreVector(c)
  BY <1>1, <1>2, <1>12 DEF StoreItem, ClearVectors, StoreVector, Stored, locals
<1>13. ~ EnsureReady(c) /\ ~ SetupLock(c) /\ ~ SetupStore(c) /\ ~ SetupVectors(c)
       /\ ~ ProbeLock(c) /\ ~ ProbeStore(c) /\ ~ ProbeVectors(c) /\ ~ Lock(c) /\ ~ Return(c)
       /\ ~ SweepItems(c) /\ ~ SweepVectors(c)
  BY <1>1 DEF EnsureReady, SetupLock, SetupStore, SetupVectors, ProbeLock, ProbeStore,
              ProbeVectors, Lock, Return, SweepItems, SweepVectors, Working
<1> QED
  BY <1>5, <1>6, <1>7, <1>8, <1>9, <1>10, <1>11, <1>12, <1>13 DEF Step

\* Storing begins when all puts are prepared, and nothing is left to do then.
LEMMA StoringLast ==
    ASSUME TypeInv, NEW c \in Client, Invoke(c) \/ Step(c),
           pc[c] \in {"store", "clear_vectors", "store_vector"} => todo[c] = {},
           pc'[c] \in {"store", "clear_vectors", "store_vector"}
    PROVE  todo'[c] = {}
<1>1. ASSUME pc[c] \in {"store", "clear_vectors", "store_vector"}, Step(c) PROVE todo'[c] = {}
  <2>1. CASE StoreItem(c) \/ ClearVectors(c) \/ StoreVector(c)
    BY <1>1, <2>1, EndLocals DEF StoreItem, ClearVectors, StoreVector, Stored, locals
  <2>2. CASE ~ (StoreItem(c) \/ ClearVectors(c) \/ StoreVector(c))
    BY <1>1, <2>2 DEF Step, EnsureReady, SetupLock, SetupStore, SetupVectors, ProbeLock,
       ProbeStore, ProbeVectors, Lock, GetItem, Refresh, AskIndex, SearchItems, SearchRefused,
       ListNamespaces, PreparePut, DeleteVectors, DeleteItem, Embed, Return, SweepItems,
       SweepVectors, Turn
  <2> QED
    BY <2>1, <2>2
<1>2. CASE pc[c] \notin {"store", "clear_vectors", "store_vector"}
  <2>1. CASE pc'[c] # "store"
    BY <1>2, <2>1, StepArrives DEF Arrives
  <2>2. CASE pc'[c] = "store"
    <3>1. ASSUME QueryError(c) \/ Raise(c) \/ (\E r : Leave(c, r)) PROVE FALSE
      BY <2>2, <3>1, EndLocals
    <3>2. ASSUME NEW l, l # "store", Goto(c, l) PROVE FALSE
      BY <2>2, <3>2 DEF Goto, TypeInv, DbTypes, ThreadTypes
    <3>3. ~ Invoke(c) /\ ~ EnsureReady(c)
      BY <3>2 DEF Invoke, Begin, EnsureReady
    <3>4. ~ SetupLock(c) /\ ~ SetupStore(c) /\ ~ SetupVectors(c)
      BY <3>1, <3>2 DEF SetupLock, SetupStore, SetupVectors, SetUp, Acquire, GoOn
    <3>5. ~ ProbeLock(c) /\ ~ ProbeStore(c) /\ ~ ProbeVectors(c) /\ ~ Lock(c)
      BY <3>1, <3>2 DEF ProbeLock, ProbeStore, ProbeVectors, Ready, Probed, Acquire, GoOn, Lock,
                        StartWork
    <3>6. ~ GetItem(c) /\ ~ Refresh(c) /\ ~ AskIndex(c) /\ ~ SearchItems(c) /\ ~ SearchRefused(c)
          /\ ~ ListNamespaces(c)
      BY <3>1, <3>2 DEF GetItem, Refresh, AskIndex, SearchItems, SearchRefused, ListNamespaces,
                        GoOn
    <3>7. ~ PreparePut(c) /\ ~ DeleteVectors(c) /\ ~ DeleteItem(c)
      BY <3>1, <3>2 DEF PreparePut, DeleteVectors, DeleteItem, GoOn
    <3>8. ~ Return(c) /\ ~ SweepItems(c) /\ ~ SweepVectors(c)
      BY <3>1, <3>2 DEF Return, SweepItems, SweepVectors, GoOn
    <3>9. ~ StoreItem(c) /\ ~ ClearVectors(c) /\ ~ StoreVector(c)
      BY <1>2 DEF StoreItem, ClearVectors, StoreVector
    <3>10. Embed(c)
      BY <3>3, <3>4, <3>5, <3>6, <3>7, <3>8, <3>9 DEF Step
    <3> QED
      BY <3>1, <3>10 DEF Embed, locals
  <2> QED
    BY <2>1, <2>2
<1> QED
  BY <1>1, <1>2 DEF Invoke, Begin

-----------------------------------------------------------------------------
(* Where a call goes, and what its caller is told *)

\* The queries of setup() and probe().
Preparing == {"setup_store", "setup_vectors", "probe_store", "probe_vectors"}

\* A step leaves a stage of a call for what follows it, and tells the caller something
\* when the call ends and only then.
Stages(c) ==
    /\ pc[c] \in Working => pc'[c] \in Working \cup {"idle"}
    /\ pc[c] \in {"sweep", "sweep_vectors"} => pc'[c] \in {"sweep_vectors", "idle"}
    /\ pc[c] \in Preparing => pc'[c] \in Preparing \cup {"idle", "lock"}
    /\ pc[c] \notin Critical => pc'[c] # "sweep_vectors"
    /\ pc[c] \notin Critical /\ pc'[c] \in Working =>
          /\ pc'[c] = "work" /\ call'[c] = call[c]
          /\ todo'[c] = Effective(Ops(c)) /\ result'[c] = [i \in DOMAIN Ops(c) |-> {}]
    /\ IF pc'[c] # "idle" THEN reply'[c] = reply[c]
       ELSE \/ reply'[c] = Outcome("raised")
            \/ reply'[c] = Outcome("ok") /\ pc[c] \notin Working
            \/ Return(c) /\ reply'[c] = Done(result[c])

\* A call that ends tells its caller how.
LEMMA EndStages ==
    ASSUME TypeInv, NEW c \in Client, pc[c] # "idle",
           \/ QueryError(c) \/ Raise(c)
           \/ Leave(c, Outcome("ok")) /\ pc[c] \notin Working
           \/ Leave(c, Outcome("raised"))
           \/ Return(c)
    PROVE  Stages(c)
<1>1. PICK r : /\ End(c, r)
               /\ \/ r = Outcome("raised")
                  \/ r = Outcome("ok") /\ pc[c] \notin Working
                  \/ Return(c) /\ r = Done(result[c])
  <2>1. CASE QueryError(c) \/ Raise(c) \/ Leave(c, Outcome("raised"))
    <3>1. End(c, Outcome("raised"))
      BY <2>1 DEF QueryError, Raise, Leave
    <3> QED
      BY <3>1
  <2>2. CASE Leave(c, Outcome("ok")) /\ pc[c] \notin Working
    BY <2>2 DEF Leave
  <2>3. CASE Return(c)
    <3>1. End(c, Done(result[c]))
      BY <2>3 DEF Return, Leave
    <3> QED
      BY <2>3, <3>1
  <2> QED
    BY <2>1, <2>2, <2>3
<1>2. pc'[c] = "idle" /\ reply'[c] = r
  BY <1>1 DEF End, Goto, TypeInv, DbTypes, ThreadTypes
<1>3. "idle" \notin Working \cup Critical
  BY DEF Working, Critical, DataQuery
<1> QED
  BY <1>1, <1>2, <1>3 DEF Stages

\* A step that goes on to another query, or to another part of the call.
LEMMA GoesStages ==
    ASSUME TypeInv, NEW c \in Client, NEW l, l # "idle", Goto(c, l), UNCHANGED reply,
           \/ pc[c] \in Working /\ l \in Working
           \/ pc[c] \in {"sweep", "sweep_vectors"} /\ l = "sweep_vectors"
           \/ pc[c] \in Preparing /\ l \in Preparing \cup {"lock"}
           \/ pc[c] \notin Critical /\ l \notin Working \cup {"sweep_vectors"}
    PROVE  Stages(c)
<1>1. pc'[c] = l /\ reply'[c] = reply[c]
  BY DEF Goto, TypeInv, DbTypes, ThreadTypes
<1> QED
  BY <1>1 DEF Stages, Working, Critical, DataQuery, Preparing

\* Every step of a call goes so.
LEMMA StepStages ==
    ASSUME TypeInv, NEW c \in Client, Step(c)
    PROVE  Stages(c)
<1>1. CASE EnsureReady(c)
  <2>1. \E l \in {"lock", "probe_lock"} : Goto(c, l) /\ UNCHANGED reply
    BY <1>1 DEF EnsureReady
  <2> QED
    BY <1>1, <2>1, GoesStages DEF EnsureReady, Critical, DataQuery, Working
<1>2. CASE SetupLock(c)
  BY <1>2, EndStages, GoesStages DEF SetupLock, Acquire, Critical, DataQuery, Working
<1>3. CASE SetupStore(c) \/ SetupVectors(c)
  BY <1>3, EndStages, GoesStages DEF SetupStore, SetupVectors, SetUp, GoOn, Preparing, Working
<1>4. CASE ProbeLock(c)
  BY <1>4, EndStages, GoesStages DEF ProbeLock, Probed, Acquire, Critical, DataQuery, Working
<1>5. CASE ProbeStore(c) \/ ProbeVectors(c)
  BY <1>5, EndStages, GoesStages
     DEF ProbeStore, ProbeVectors, Ready, Probed, GoOn, Preparing, Working
<1>6. CASE Lock(c)
  <2>1. pc[c] \notin Critical
    BY <1>6 DEF Lock, Critical, DataQuery
  <2>2. CASE call[c].op = "sweep"
    <3>1. Goto(c, "sweep") /\ UNCHANGED reply
      BY <1>6, <2>2 DEF Lock, StartWork
    <3> QED
      BY <2>1, <3>1, GoesStages DEF Working
  <2>3. CASE call[c].op # "sweep"
    <3>1. /\ Goto(c, "work") /\ UNCHANGED <<call, reply>>
          /\ todo' = [todo EXCEPT ![c] = Effective(Ops(c))]
          /\ result' = [result EXCEPT ![c] = [i \in DOMAIN Ops(c) |-> {}]]
      BY <1>6, <2>3 DEF Lock, StartWork
    <3>2. /\ pc'[c] = "work" /\ reply'[c] = reply[c] /\ call'[c] = call[c]
          /\ todo'[c] = Effective(Ops(c)) /\ result'[c] = [i \in DOMAIN Ops(c) |-> {}]
      BY <3>1 DEF Goto, TypeInv, DbTypes, ThreadTypes
    <3> QED
      BY <2>1, <2>3, <3>2 DEF Stages, Critical, DataQuery, Working, Preparing
  <2> QED
    BY <2>2, <2>3
<1>7. CASE GetItem(c) \/ SearchItems(c) \/ Refresh(c)
  <2>1. pc[c] \in {"work", "refresh"}
    BY <1>7 DEF GetItem, SearchItems, Refresh, Turn
  <2>2. \/ QueryError(c) \/ Raise(c)
        \/ \E l \in {"work", "refresh"} : GoOn(c, l)
    BY <1>7 DEF GetItem, SearchItems, Refresh
  <2> QED
    BY <2>1, <2>2, EndStages, GoesStages DEF GoOn, Working
<1>8. CASE AskIndex(c) \/ SearchRefused(c) \/ ListNamespaces(c)
  BY <1>8, EndStages, GoesStages DEF AskIndex, SearchRefused, ListNamespaces, Turn, GoOn, Working
<1>9. CASE PreparePut(c) \/ DeleteVectors(c) \/ DeleteItem(c) \/ Embed(c)
  <2>1. pc[c] \in Working /\ pc[c] # "idle"
    BY <1>9 DEF PreparePut, DeleteVectors, DeleteItem, Embed, Turn, Working
  <2>2. \/ QueryError(c) \/ Raise(c)
        \/ \E l \in {"work", "delete_vectors", "delete_item", "store"} : GoOn(c, l)
    BY <1>9 DEF PreparePut, DeleteVectors, DeleteItem, Embed
  <2> QED
    BY <2>1, <2>2, EndStages, GoesStages DEF GoOn, Working
<1>10. CASE StoreItem(c) \/ ClearVectors(c) \/ StoreVector(c)
  <2>1. pc[c] \in Working /\ pc[c] # "idle"
    BY <1>10 DEF StoreItem, ClearVectors, StoreVector, Working
  <2>2. \/ QueryError(c)
        \/ \E l \in {"work", "store", "clear_vectors", "store_vector"} : GoOn(c, l)
    BY <1>10 DEF StoreItem, ClearVectors, StoreVector, Stored
  <2> QED
    BY <2>1, <2>2, EndStages, GoesStages DEF GoOn, Working
<1>11. CASE Return(c)
  BY <1>11, EndStages DEF Return
<1>12. CASE SweepItems(c) \/ SweepVectors(c)
  BY <1>12, EndStages, GoesStages DEF SweepItems, SweepVectors, GoOn, Working
<1> QED
  BY <1>1, <1>2, <1>3, <1>4, <1>5, <1>6, <1>7, <1>8, <1>9, <1>10, <1>11, <1>12 DEF Step

\* The results of other threads stay.
LEMMA ResultFrame ==
    ASSUME TypeInv, NEW c \in Client, Invoke(c) \/ Step(c), NEW d \in Client \ {c}
    PROVE  result'[d] = result[d]
<1>1. ASSUME QueryError(c) \/ Raise(c) \/ (\E r : Leave(c, r)) PROVE result'[d] = result[d]
  <2>1. \E r : End(c, r)
    BY <1>1 DEF QueryError, Raise, Leave
  <2> QED
    BY <2>1 DEF End, TypeInv, DbTypes, ThreadTypes
<1>2. CASE Invoke(c) \/ EnsureReady(c) \/ SetupLock(c) \/ SetupStore(c) \/ SetupVectors(c)
  BY <1>1, <1>2 DEF Invoke, Begin, EnsureReady, SetupLock, SetupStore, SetupVectors, SetUp,
                    Acquire, locals
<1>3. CASE ProbeLock(c) \/ ProbeStore(c) \/ ProbeVectors(c)
  BY <1>1, <1>3 DEF ProbeLock, ProbeStore, ProbeVectors, Ready, Probed, Acquire, locals
<1>4. CASE Lock(c)
  BY <1>4 DEF Lock, StartWork, TypeInv, DbTypes, ThreadTypes
<1>5. ASSUME NEW i, NEW r, Report(c, i, r) PROVE result'[d] = result[d]
  BY <1>5 DEF Report, TypeInv, DbTypes, ThreadTypes
<1>6. CASE GetItem(c) \/ Refresh(c) \/ AskIndex(c)
  BY <1>1, <1>5, <1>6 DEF GetItem, Refresh, AskIndex, locals
<1>7. CASE SearchItems(c) \/ SearchRefused(c)
  BY <1>1, <1>5, <1>7 DEF SearchItems, SearchRefused
<1>8. CASE ListNamespaces(c)
  <2>1. QueryError(c) \/ \E x : result' = [result EXCEPT ![c] = x]
    BY <1>8 DEF ListNamespaces
  <2> QED
    BY <1>1, <2>1 DEF TypeInv, DbTypes, ThreadTypes
<1>9. CASE PreparePut(c) \/ DeleteVectors(c) \/ DeleteItem(c) \/ Embed(c)
  BY <1>1, <1>9 DEF PreparePut, DeleteVectors, DeleteItem, Embed, locals
<1>10. CASE StoreItem(c) \/ ClearVectors(c) \/ StoreVector(c)
  BY <1>1, <1>10 DEF StoreItem, ClearVectors, StoreVector, Stored, locals
<1>11. CASE Return(c) \/ SweepItems(c) \/ SweepVectors(c)
  BY <1>1, <1>11 DEF Return, SweepItems, SweepVectors
<1> QED
  BY <1>2, <1>3, <1>4, <1>6, <1>7, <1>8, <1>9, <1>10, <1>11 DEF Step

-----------------------------------------------------------------------------
(* What the history variable is *)

\* What is known of one store at any moment.
StoreInv == TypeInv /\ LockDiscipline /\ DeletingInv /\ ExpiryInv /\ PutInv

\* It holds of an empty database and a new store.
LEMMA InitStore == Init => StoreInv
<1>1. Init => LockDiscipline /\ DeletingInv /\ ExpiryInv /\ PutInv
  BY StoreOfAssumption, FreeAssumption
     DEF Init, LockDiscipline, DeletingInv, ExpiryInv, PutInv, PutOK, Critical, DataQuery,
         Working, Rows, EmptyItems
<1> QED
  BY <1>1, InitType DEF StoreInv

\* No lock is held exactly when no thread is inside a with-statement.
LEMMA QuietIff ==
    ASSUME TypeInv, LockDiscipline
    PROVE  Quiet <=> \A c \in Client : pc[c] \notin Critical
BY StoreOfAssumption, FreeAssumption DEF Quiet, TypeInv, ThreadTypes, LockDiscipline

\* The same of the state after a step.
LEMMA QuietNext ==
    ASSUME TypeInv', LockDiscipline'
    PROVE  Quiet' <=> \A c \in Client : pc'[c] \notin Critical
BY StoreOfAssumption, FreeAssumption DEF Quiet, TypeInv, ThreadTypes, LockDiscipline

\* After a step, too, at most one thread is inside.
LEMMA AloneNext ==
    ASSUME SingleStore, LockDiscipline', NEW c \in Client, NEW d \in Client,
           pc'[c] \in Critical, pc'[d] \in Critical
    PROVE  c = d
BY StoreOfAssumption DEF SingleStore, LockDiscipline

\* The history variable changes nothing of what the store does.
LEMMA StoreSteps ==
    ASSUME SingleStore, StoreInv, [AtomicNext]_<<vars, committed>>
    PROVE  StoreInv'
<1>1. [Next]_vars
  BY DEF AtomicNext
<1> QED
  BY <1>1, NextType, NextLocks, NextDeleting, NextExpiry, NextPuts DEF StoreInv

\* A step of a thread that is outside commits nothing and leaves the items alone; so
\* does one of a thread that stays inside commit nothing; one that leaves commits
\* what the items hold.
LEMMA Commits ==
    ASSUME SingleStore, StoreInv, StoreInv', HistoryInv, NEW c \in Client,
           Invoke(c) \/ Step(c),
           committed' = IF Quiet' THEN Content(items)' ELSE committed
    PROVE  /\ pc[c] \notin Critical => UNCHANGED <<items, committed>>
           /\ pc'[c] \in Critical => committed' = committed
           /\ pc[c] \in Critical /\ pc'[c] \notin Critical =>
                 Quiet' /\ committed' = Content(items)'
<1>1. /\ Quiet <=> \A d \in Client : pc[d] \notin Critical
      /\ Quiet' <=> \A d \in Client : pc'[d] \notin Critical
  BY QuietIff, QuietNext DEF StoreInv, TypeInv
<1>2. \A d \in Client \ {c} : pc'[d] = pc[d]
  BY StepFrame DEF StoreInv, Frame
<1>3. ASSUME pc[c] \notin Critical PROVE UNCHANGED <<items, committed>>
  <2>1. UNCHANGED items
    BY <1>3, StepMovesTables DEF ItemsMove, Critical, DataQuery
  <2>2. Content(items)' = Content(items)
    BY <2>1 DEF Content
  <2>3. Quiet' => committed = Content(items)
    BY <1>1, <1>2, <1>3 DEF HistoryInv
  <2> QED
    BY <2>1, <2>2, <2>3
<1>4. pc'[c] \in Critical => committed' = committed
  BY <1>1
<1>5. ASSUME pc[c] \in Critical, pc'[c] \notin Critical
      PROVE  Quiet' /\ committed' = Content(items)'
  <2>1. \A d \in Client \ {c} : pc[d] \notin Critical
    BY <1>5, Alone DEF StoreInv
  <2> QED
    BY <1>1, <1>2, <1>5, <2>1
<1> QED
  BY <1>3, <1>4, <1>5

\* A batch that goes on keeps to what it has seen and done.
LEMMA WorkProgress ==
    ASSUME StoreInv, NEW c \in Client, Step(c), committed' = committed,
           pc[c] \in Working, pc'[c] \in Working, BatchProgress(c)
    PROVE  BatchProgress(c)'
<1>1. /\ DOMAIN result[c] = DOMAIN Ops(c)
      /\ \A i \in DOMAIN Ops(c) :
            IF IsPut(Ops(c), i) THEN result[c][i] = {}
            ELSE i \in todo[c] \/ Reads(committed, Ops(c)[i], result[c][i])
      /\ (\E i \in todo[c] : ~ IsPut(Ops(c), i)) => Content(items) = committed
      /\ \A k \in DbStoreItemId :
            \/ Content(items)[k] = committed[k]
            \/ \E i \in DOMAIN Ops(c) :
                  PutsItem(Ops(c), i, k) /\ Content(items)[k] = Given(Ops(c)[i])
      /\ pc[c] \in {"store", "clear_vectors", "store_vector"} => todo[c] = {}
  BY DEF BatchProgress
<1>2. TypeInv /\ DeletingInv /\ PutOK(c) /\ pc[c] # "idle" /\ items \in ItemsTable
  BY DEF StoreInv, PutInv, Working, TypeInv, DbTypes, ThreadTypes
<1>3. Ops(c)' = Ops(c)
  BY <1>2, StepFrame DEF Frame, Ops
<1>4. Answering(c)
  BY <1>1, <1>2, StepAnswers
<1>5. /\ \A k \in DbStoreItemId :
            \/ Content(items)'[k] = Content(items)[k]
            \/ \E i \in DOMAIN Ops(c) :
                  PutsItem(Ops(c), i, k) /\ Content(items)'[k] = Given(Ops(c)[i])
      /\ (\E i \in todo[c] : ~ IsPut(Ops(c), i)) => Content(items)' = Content(items)
  BY <1>1, <1>2, WorkContent, StepMovesTables
<1>6. DOMAIN result'[c] = DOMAIN Ops(c)
  BY <1>1, <1>4 DEF Answering
<1>7. ASSUME NEW i \in DOMAIN Ops(c)
      PROVE  IF IsPut(Ops(c), i) THEN result'[c][i] = {}
             ELSE i \in todo'[c] \/ Reads(committed, Ops(c)[i], result'[c][i])
  <2>1. CASE result'[c][i] = result[c][i] /\ (i \in todo[c] \ todo'[c] => IsPut(Ops(c), i))
    BY <1>1, <2>1
  <2>2. CASE i \in todo[c] /\ ~ IsPut(Ops(c), i) /\ Reads(items, Ops(c)[i], result'[c][i])
    <3>1. Content(items) = committed
      BY <1>1, <2>2
    <3> QED
      BY <1>2, <2>2, <3>1, ReadsContent
  <2> QED
    BY <1>4, <2>1, <2>2 DEF Answering
<1>8. (\E i \in todo'[c] : ~ IsPut(Ops(c), i)) => Content(items)' = committed
  BY <1>1, <1>4, <1>5 DEF Answering
<1>9. \A k \in DbStoreItemId :
         \/ Content(items)'[k] = committed[k]
         \/ \E i \in DOMAIN Ops(c) :
               PutsItem(Ops(c), i, k) /\ Content(items)'[k] = Given(Ops(c)[i])
  BY <1>1, <1>5
<1>10. pc'[c] \in {"store", "clear_vectors", "store_vector"} => todo'[c] = {}
  BY <1>1, <1>2, StoringLast
<1> QED
  BY <1>3, <1>6, <1>7, <1>8, <1>9, <1>10 DEF BatchProgress

\* A batch that begins has done nothing.
LEMMA WorkBegins ==
    ASSUME StoreInv, NEW c \in Client, call'[c] = call[c],
           todo'[c] = Effective(Ops(c)), result'[c] = [i \in DOMAIN Ops(c) |-> {}],
           Content(items)' = committed', pc'[c] = "work"
    PROVE  BatchProgress(c)'
<1>1. Ops(c)' = Ops(c)
  BY DEF Ops
<1>2. \A i \in DOMAIN Ops(c) : ~ IsPut(Ops(c), i) => i \in todo'[c]
  BY DEF Effective
<1> QED
  BY <1>1, <1>2 DEF BatchProgress

\* A sweep removes what has a time to live.
LEMMA SweepContent ==
    ASSUME StoreInv, committed = Content(items), items' = DeleteAll(items, Expired(items, now))
    PROVE  /\ Expired(items, now) \in SUBSET {k \in Rows(committed) : committed[k].ttl # None}
           /\ Content(items)' = DeleteAll(committed, Expired(items, now))
<1>1. items \in ItemsTable
  BY DEF StoreInv, TypeInv, DbTypes, ThreadTypes
<1>2. ASSUME NEW k \in Expired(items, now)
      PROVE  k \in Rows(committed) /\ committed[k].ttl # None
  <2>1. k \in Rows(items) /\ items[k].expires_at # None
    BY <1>2 DEF Expired
  <2>2. items[k].ttl # None
    BY <2>1 DEF StoreInv, ExpiryInv, Timed
  <2> QED
    BY <1>1, <2>1, <2>2, ContentOf
<1>3. Content(items)' = DeleteAll(committed, Expired(items, now))
  BY DEF Content, DeleteAll
<1> QED
  BY <1>2, <1>3

\* A sweep that goes on has removed nothing else.
LEMMA SweepGoesOn ==
    ASSUME StoreInv, NEW c \in Client, Step(c), committed' = committed, Progress(c),
           pc[c] \in {"sweep", "sweep_vectors"}, pc'[c] = "sweep_vectors"
    PROVE  SweepProgress'
<1>1. TypeInv
  BY DEF StoreInv
<1>2. CASE pc[c] = "sweep"
  <2>1. items' = DeleteAll(items, Expired(items, now))
    BY <1>1, <1>2, StepArrives DEF Arrives
  <2>2. committed = Content(items)
    BY <1>2 DEF Progress, Critical, DataQuery, Working
  <2>3. /\ Expired(items, now) \in SUBSET {k \in Rows(committed) : committed[k].ttl # None}
        /\ Content(items)' = DeleteAll(committed, Expired(items, now))
    BY <2>1, <2>2, SweepContent
  <2> QED
    BY <2>3 DEF SweepProgress
<1>3. CASE pc[c] = "sweep_vectors"
  <2>1. UNCHANGED items
    BY <1>1, <1>3, StepMovesTables DEF ItemsMove
  <2>2. Content(items)' = Content(items) /\ SweepProgress
    BY <1>3, <2>1 DEF Content, Progress
  <2> QED
    BY <2>2 DEF SweepProgress
<1> QED
  BY <1>2, <1>3

\* A step of a thread keeps its progress as it should be.
LEMMA OwnProgress ==
    ASSUME SingleStore, StoreInv, StoreInv', HistoryInv, NEW c \in Client,
           Invoke(c) \/ Step(c), committed' = IF Quiet' THEN Content(items)' ELSE committed
    PROVE  Progress(c)'
<1> SUFFICES ASSUME pc'[c] \in Critical PROVE Progress(c)'
  BY DEF Progress, Critical, DataQuery, Working
<1>1. TypeInv /\ Progress(c) /\ committed' = committed
  BY Commits DEF StoreInv, HistoryInv
<1>2. Step(c) /\ Stages(c)
  <2>1. ~ Invoke(c)
    <3>1. \E l \in {"setup_lock", "probe_lock", "ensure"} : Invoke(c) => Goto(c, l)
      BY DEF Invoke, Begin
    <3> QED
      BY <1>1, <3>1 DEF Goto, TypeInv, DbTypes, ThreadTypes, Critical, DataQuery
  <2> QED
    BY <1>1, <2>1, StepStages
<1>3. CASE pc[c] \notin Critical
  <2>1. UNCHANGED <<items, committed>>
    BY <1>3, Commits
  <2>2. \A d \in Client : pc[d] \notin Critical
    <3> SUFFICES ASSUME NEW d \in Client, pc[d] \in Critical PROVE FALSE
      OBVIOUS
    <3>1. d # c /\ pc'[d] \in Critical
      BY <1>1, <1>3, StepFrame DEF Frame
    <3> QED
      BY <3>1, AloneNext DEF StoreInv
  <2>3. committed = Content(items)
    BY <2>2, QuietIff DEF StoreInv, TypeInv, HistoryInv
  <2>4. Content(items)' = committed'
    BY <2>1, <2>3 DEF Content
  <2>5. pc'[c] \in Working => BatchProgress(c)'
    BY <1>2, <1>3, <2>4, WorkBegins DEF Stages
  <2> QED
    BY <1>2, <1>3, <2>4, <2>5 DEF Stages, Progress
<1>4. CASE pc[c] \in Preparing
  <2>1. UNCHANGED items
    BY <1>4, StepMovesTables DEF ItemsMove, Preparing
  <2>2. pc'[c] \in Preparing
    BY <1>2, <1>4 DEF Stages, Critical, DataQuery
  <2>3. committed = Content(items)
    BY <1>1, <1>4 DEF Progress, Critical, Preparing, Working
  <2>4. committed' = Content(items)'
    BY <1>1, <2>1, <2>3 DEF Content
  <2> QED
    BY <2>2, <2>4 DEF Progress, Preparing, Working
<1>5. CASE pc[c] \in Working
  <2>1. pc'[c] \in Working
    BY <1>2, <1>5 DEF Stages, Critical, DataQuery
  <2>2. BatchProgress(c)'
    BY <1>1, <1>2, <1>5, <2>1, WorkProgress DEF Progress
  <2> QED
    BY <2>1, <2>2 DEF Progress, Working
<1>6. CASE pc[c] \in {"sweep", "sweep_vectors"}
  <2>1. pc'[c] = "sweep_vectors"
    BY <1>2, <1>6 DEF Stages, Critical, DataQuery
  <2>2. SweepProgress'
    BY <1>1, <1>2, <1>6, <2>1, SweepGoesOn
  <2> QED
    BY <2>1, <2>2 DEF Progress, Working
<1> QED
  BY <1>3, <1>4, <1>5, <1>6 DEF Critical, DataQuery, Preparing, Working

\* Every step keeps the history variable what it should be.
LEMMA NextHistory ==
    ASSUME SingleStore, StoreInv, HistoryInv, [AtomicNext]_<<vars, committed>>
    PROVE  HistoryInv'
<1>1. StoreInv'
  BY StoreSteps
<1>2. CASE UNCHANGED <<vars, committed>> \/ ((Tick \/ Finished) /\ AtomicNext)
  <2>1. UNCHANGED <<pc, call, todo, result, items, lock>>
    BY <1>2 DEF Tick, Finished, vars, db, locals
  <2>2. (Quiet' <=> Quiet) /\ Content(items)' = Content(items)
    BY <2>1 DEF Quiet, Content
  <2>3. UNCHANGED committed
    BY <1>2, <2>1, <2>2 DEF AtomicNext, HistoryInv, Content
  <2>4. \A c \in Client : BatchProgress(c) => BatchProgress(c)'
    BY <2>1, <2>2, <2>3 DEF BatchProgress, Ops
  <2>5. SweepProgress => SweepProgress'
    BY <2>2, <2>3 DEF SweepProgress
  <2> QED
    BY <2>1, <2>2, <2>3, <2>4, <2>5 DEF HistoryInv, Progress
<1>3. ASSUME NEW c \in Client, Invoke(c) \/ Step(c), AtomicNext PROVE HistoryInv'
  <2>1. committed' = IF Quiet' THEN Content(items)' ELSE committed
    BY <1>3 DEF AtomicNext, Content
  <2>2. Progress(c)'
    BY <1>1, <1>3, <2>1, OwnProgress
  <2>3. ASSUME NEW d \in Client \ {c} PROVE Progress(d)'
    <3>1. /\ pc'[d] = pc[d] /\ call'[d] = call[d] /\ todo'[d] = todo[d]
          /\ result'[d] = result[d] /\ Progress(d)
      BY <1>3, <2>3, StepFrame, ResultFrame DEF Frame, StoreInv, HistoryInv
    <3>2. CASE pc[d] \notin Critical
      BY <3>1, <3>2 DEF Progress, Critical, DataQuery, Working
    <3>3. CASE pc[d] \in Critical
      <4>1. pc[c] \notin Critical
        BY <2>3, <3>3, Alone DEF StoreInv
      <4>2. UNCHANGED <<items, committed>>
        BY <1>1, <1>3, <2>1, <4>1, Commits
      <4>3. Content(items)' = Content(items)
        BY <4>2 DEF Content
      <4>4. BatchProgress(d) => BatchProgress(d)'
        BY <3>1, <4>2, <4>3 DEF BatchProgress, Ops
      <4>5. SweepProgress => SweepProgress'
        BY <4>2, <4>3 DEF SweepProgress
      <4> QED
        BY <3>1, <4>2, <4>3, <4>4, <4>5 DEF Progress
    <3> QED
      BY <3>2, <3>3
  <2> QED
    BY <2>1, <2>2, <2>3 DEF HistoryInv
<1> QED
  BY <1>2, <1>3 DEF AtomicNext, Next

-----------------------------------------------------------------------------
(* Every step is a step of ItemStore, or none *)

\* A caller that is told how its call ended.
LEMMA TellsHow ==
    ASSUME NEW c \in Client, NEW how, reply' = [reply EXCEPT ![c] = Outcome(how)]
    PROVE  Abstract!Tell(c, Abstract!Nothing(how))
BY DEF Abstract!Tell, Abstract!Nothing, Outcome

\* What a thread is told while the items do not change is told by itself.
LEMMA TellsOnly ==
    ASSUME NEW c \in Client, committed' = committed, NEW how \in {"none", "ok", "raised"},
           reply' = [reply EXCEPT ![c] = Outcome(how)]
    PROVE  Abstract!Next
<1>1. Abstract!Other(c)
  BY TellsHow DEF Abstract!Other
<1> QED
  BY <1>1 DEF Abstract!Next

\* A batch that returns answers its reads and has put what it says.
LEMMA ReturnRefines ==
    ASSUME StoreInv, NEW c \in Client, Return(c), BatchProgress(c),
           committed' = Content(items)', UNCHANGED items,
           reply' = [reply EXCEPT ![c] = Done(result[c])]
    PROVE  Abstract!Next
<1>1. /\ pc[c] \in Working /\ todo[c] = {} /\ TypeInv /\ PutOK(c)
      /\ items \in ItemsTable /\ reply \in [Client -> Replies]
  BY DEF Return, Working, StoreInv, PutInv, TypeInv, DbTypes, ThreadTypes
<1>2. Ops(c) \in Seq(Op) /\ call[c].op = "batch" /\ call[c] \in Calls
  <2>1. call[c] \in Calls
    BY <1>1 DEF TypeInv, PcInv, PcOK, Working
  <2> QED
    BY <1>1, <2>1, BatchShape
<1>3. Abstract!Answers(committed, Ops(c), result[c])
  BY <1>1, <1>2, AnswersOf DEF BatchProgress
<1>4. committed' = Abstract!AfterPuts(committed, Ops(c), DbStoreItemId)
  <2> DEFINE after == Abstract!AfterPuts(committed, Ops(c), DbStoreItemId)
  <2>1. Content(items)' = Content(items)
    BY DEF Content
  <2>2. ASSUME NEW k \in DbStoreItemId PROVE Content(items)[k] = after[k]
    <3>1. CASE \E i \in DOMAIN Ops(c) : PutsItem(Ops(c), i, k)
      <4>1. PICK i : PutsItem(Ops(c), i, k)
        BY <3>1
      <4>2. i \in BegunPuts(c) /\ Ops(c)[i].item = k
        BY <1>1, <4>1 DEF PutsItem, BegunPuts, Effective
      <4>3. Settled(c, Ops(c)[i])
        BY <1>1, <4>2 DEF PutOK, Return
      <4>4. Content(items)[k] = Given(Ops(c)[i])
        BY <4>2, <4>3 DEF Settled, Kept, Given, Content
      <4>5. after[k] = Given(Ops(c)[i])
        BY <1>2, <4>1, PutOfCall
      <4> QED
        BY <4>4, <4>5
    <3>2. CASE \A i \in DOMAIN Ops(c) : ~ PutsItem(Ops(c), i, k)
      <4>1. Content(items)[k] = committed[k]
        BY <3>2 DEF BatchProgress
      <4> QED
        BY <1>2, <3>2, <4>1, PutByNone
    <3> QED
      BY <3>1, <3>2
  <2>3. after = [k \in DbStoreItemId |-> after[k]]
    BY ItemDefs DEF Abstract!AfterPuts
  <2>4. Content(items) = [k \in DbStoreItemId |-> Content(items)[k]]
    BY DEF Content
  <2> HIDE DEF after
  <2>5. Content(items) = after
    BY <2>2, <2>3, <2>4
  <2> QED
    BY <2>1, <2>5 DEF after
<1>5. reply'[c] = Done(result[c])
  BY <1>1
<1>6. Abstract!DoBatch(c)
  <2>1. reply'[c].status = "ok" /\ reply'[c].results = result[c]
    BY <1>5 DEF Done
  <2>2. Abstract!Tell(c, reply'[c])
    BY <1>5 DEF Abstract!Tell
  <2>3. committed' = Abstract!AfterPuts(committed, call[c].ops, Abstract!DbStoreItemId)
    BY <1>4, ItemDefs DEF Ops
  <2>4. Abstract!Answers(committed, call[c].ops, reply'[c].results)
    BY <1>3, <2>1 DEF Ops
  <2> QED
    BY <1>2, <2>1, <2>2, <2>3, <2>4 DEF Abstract!DoBatch
<1> QED
  BY <1>6 DEF Abstract!Next

\* A batch that ends with any of its queries has carried out some of its puts and none
\* by half.
LEMMA BatchLeaves ==
    ASSUME StoreInv, NEW c \in Client, ItemsMove(c), pc[c] \in Working, BatchProgress(c),
           committed' = Content(items)'
    PROVE  /\ call[c] \in Calls /\ call[c].op = "batch"
           /\ \E ks \in SUBSET Abstract!DbStoreItemId :
                 committed' = Abstract!AfterPuts(committed, call[c].ops, ks)
<1>1. TypeInv /\ DeletingInv /\ PutOK(c)
  BY DEF StoreInv, PutInv
<1>2. Ops(c) \in Seq(Op) /\ call[c].op = "batch" /\ call[c] \in Calls
  <2>1. call[c] \in Calls
    BY <1>1 DEF TypeInv, PcInv, PcOK, Working
  <2> QED
    BY <1>1, <2>1, BatchShape
<1>3. ASSUME NEW k \in DbStoreItemId
      PROVE  \/ Content(items)'[k] = committed[k]
             \/ \E i \in DOMAIN Ops(c) :
                   PutsItem(Ops(c), i, k) /\ Content(items)'[k] = Given(Ops(c)[i])
  <2>1. pc[c] = "store" => todo[c] = {}
    BY DEF BatchProgress
  <2>2. \/ Content(items)'[k] = Content(items)[k]
        \/ \E i \in DOMAIN Ops(c) :
              PutsItem(Ops(c), i, k) /\ Content(items)'[k] = Given(Ops(c)[i])
    BY <1>1, <2>1, WorkContent
  <2> QED
    BY <2>2 DEF BatchProgress
<1> DEFINE new   == Content(items)'
           keys  == {k \in DbStoreItemId : new[k] # committed[k]}
           after == Abstract!AfterPuts(committed, Ops(c), keys)
<1>4. new = after
  <2>1. ASSUME NEW k \in DbStoreItemId PROVE new[k] = after[k]
    <3>1. CASE k \in keys
      <4>1. PICK i : PutsItem(Ops(c), i, k) /\ Content(items)'[k] = Given(Ops(c)[i])
        BY <1>3, <3>1
      <4>2. after[k] = Given(Ops(c)[i])
        BY <1>2, <3>1, <4>1, PutByLast
      <4> QED
        BY <4>1, <4>2
    <3>2. CASE k \notin keys
      <4>1. after[k] = committed[k]
        BY <1>2, <3>2, PutByNone
      <4> QED
        BY <3>2, <4>1
    <3> QED
      BY <3>1, <3>2
  <2>2. after = [k \in DbStoreItemId |-> after[k]]
    BY ItemDefs DEF Abstract!AfterPuts
  <2>3. new = [k \in DbStoreItemId |-> new[k]]
    BY DEF Content
  <2> HIDE DEF after, new, keys
  <2> QED
    BY <2>1, <2>2, <2>3
<1>5. keys \in SUBSET DbStoreItemId
  OBVIOUS
<1>6. committed' = Abstract!AfterPuts(committed, call[c].ops, keys)
  BY <1>4 DEF Ops
<1> HIDE DEF keys, new, after
<1>7. \E ks \in SUBSET Abstract!DbStoreItemId :
         committed' = Abstract!AfterPuts(committed, call[c].ops, ks)
  BY <1>5, <1>6, ItemDefs
<1> QED
  BY <1>2, <1>7

\* So a batch that raises is one of ItemStore that raises.
LEMMA RaiseRefines ==
    ASSUME StoreInv, NEW c \in Client, Step(c), pc[c] \in Working, BatchProgress(c),
           committed' = Content(items)', reply' = [reply EXCEPT ![c] = Outcome("raised")]
    PROVE  Abstract!Next
<1>1. Abstract!BatchRaises(c)
  BY StepMovesTables, BatchLeaves, TellsHow DEF Abstract!BatchRaises
<1> QED
  BY <1>1 DEF Abstract!Next

\* A sweep that ends with any of its queries has removed items with a time to live.
LEMMA SweepLeaves ==
    ASSUME StoreInv, NEW c \in Client, ItemsMove(c), pc[c] \in {"sweep", "sweep_vectors"},
           Progress(c), committed' = Content(items)'
    PROVE  \E keys \in SUBSET {k \in Rows(committed) : committed[k].ttl # None} :
              committed' = DeleteAll(committed, keys)
<1>1. CASE pc[c] = "sweep"
  <2>1. committed = Content(items)
    BY <1>1 DEF Progress, Critical, DataQuery, Working
  <2>2. UNCHANGED items \/ items' = DeleteAll(items, Expired(items, now))
    BY <1>1 DEF ItemsMove
  <2>3. CASE UNCHANGED items
    <3>1. committed' = DeleteAll(committed, {})
      BY <2>1, <2>3 DEF Content, DeleteAll
    <3> QED
      BY <3>1
  <2>4. CASE items' = DeleteAll(items, Expired(items, now))
    BY <2>1, <2>4, SweepContent
  <2> QED
    BY <2>2, <2>3, <2>4
<1>2. CASE pc[c] = "sweep_vectors"
  <2>1. UNCHANGED items
    BY <1>2 DEF ItemsMove
  <2>2. Content(items)' = Content(items)
    BY <2>1 DEF Content
  <2> QED
    BY <1>2, <2>2 DEF Progress, SweepProgress
<1> QED
  BY <1>1, <1>2

\* So a sweep that ends, well or not, is one of ItemStore.
LEMMA SweepRefines ==
    ASSUME StoreInv, NEW c \in Client, Step(c), pc[c] \in {"sweep", "sweep_vectors"},
           Progress(c), committed' = Content(items)', NEW how \in {"ok", "raised"},
           reply' = [reply EXCEPT ![c] = Outcome(how)]
    PROVE  Abstract!Next
<1>1. \E keys \in SUBSET {k \in Rows(committed) : committed[k].ttl # None} :
         committed' = DeleteAll(committed, keys)
  BY StepMovesTables, SweepLeaves
<1>2. {k \in Abstract!Rows(committed) : committed[k].ttl # None}
        = {k \in Rows(committed) : committed[k].ttl # None}
  BY ItemDefs
<1>3. Abstract!Expire(c)
  BY <1>1, <1>2, TellsHow, ItemDefs DEF Abstract!Expire
<1> QED
  BY <1>3 DEF Abstract!Next

\* Every step of the store is one of ItemStore or changes nothing of it.
LEMMA StepRefines ==
    ASSUME SingleStore, StoreInv, HistoryInv, [AtomicNext]_<<vars, committed>>
    PROVE  Abstract!Next \/ UNCHANGED Abstract!vars
<1>1. StoreInv'
  BY StoreSteps
<1>2. CASE UNCHANGED <<vars, committed>> \/ ((Tick \/ Finished) /\ AtomicNext)
  <2>1. UNCHANGED <<items, lock, reply>>
    BY <1>2 DEF Tick, Finished, vars, db
  <2>2. (Quiet' <=> Quiet) /\ Content(items)' = Content(items)
    BY <2>1 DEF Quiet, Content
  <2>3. UNCHANGED committed
    BY <1>2, <2>1, <2>2 DEF AtomicNext, HistoryInv, Content
  <2> QED
    BY <2>1, <2>3 DEF Abstract!vars
<1>3. ASSUME NEW c \in Client, Invoke(c) \/ Step(c), AtomicNext
      PROVE  Abstract!Next \/ UNCHANGED Abstract!vars
  <2>1. committed' = IF Quiet' THEN Content(items)' ELSE committed
    BY <1>3 DEF AtomicNext, Content
  <2>2. /\ pc[c] \notin Critical => UNCHANGED <<items, committed>>
        /\ pc'[c] \in Critical => committed' = committed
        /\ pc[c] \in Critical /\ pc'[c] \notin Critical => committed' = Content(items)'
    BY <1>1, <1>3, <2>1, Commits
  <2>3. TypeInv /\ Progress(c) /\ Frame(c)
    BY <1>3, StepFrame DEF StoreInv, HistoryInv
  <2>4. reply' = [reply EXCEPT ![c] = reply'[c]]
    <3>1. reply \in [Client -> Replies] /\ reply' \in [Client -> Replies]
      BY <1>1 DEF StoreInv, TypeInv, DbTypes, ThreadTypes, Replies, Results
    <3> QED
      BY <2>3, <3>1 DEF Frame
  <2>5. CASE Invoke(c)
    <3>1. pc[c] \notin Critical /\ reply' = [reply EXCEPT ![c] = Outcome("none")]
      BY <2>5 DEF Invoke, Begin, Critical, DataQuery, NoReply
    <3> QED
      BY <2>2, <3>1, TellsOnly
  <2>6. CASE Step(c) /\ committed' = committed /\ pc[c] \notin Working
    <3>1. Stages(c)
      BY <2>3, <2>6, StepStages
    <3>2. ~ Return(c)
      BY <2>6 DEF Return, Working
    <3>3. \/ reply'[c] = reply[c]
          \/ \E how \in {"ok", "raised"} : reply'[c] = Outcome(how)
      BY <3>1, <3>2 DEF Stages
    <3>4. CASE reply'[c] = reply[c]
      <4>1. reply' = reply
        BY <1>1, <2>3, <2>4, <3>4 DEF TypeInv, ThreadTypes
      <4> QED
        BY <2>6, <4>1 DEF Abstract!vars
    <3>5. CASE \E how \in {"ok", "raised"} : reply'[c] = Outcome(how)
      BY <2>4, <2>6, <3>5, TellsOnly
    <3> QED
      BY <3>3, <3>4, <3>5
  <2>7. CASE Step(c) /\ pc[c] \in Working
    <3>1. Stages(c) /\ BatchProgress(c)
      BY <2>3, <2>7, StepStages DEF Progress
    <3>2. CASE pc'[c] \in Working
      <4>1. reply'[c] = reply[c] /\ committed' = committed
        BY <2>2, <3>1, <3>2 DEF Stages, Working, Critical, DataQuery
      <4>2. reply' = reply
        BY <2>3, <2>4, <4>1 DEF TypeInv, ThreadTypes
      <4> QED
        BY <4>1, <4>2 DEF Abstract!vars
    <3>3. CASE pc'[c] = "idle"
      <4>1. committed' = Content(items)'
        BY <2>2, <2>7, <3>3 DEF Working, Critical, DataQuery
      <4>2. \/ reply'[c] = Outcome("raised")
            \/ Return(c) /\ reply'[c] = Done(result[c])
        BY <2>7, <3>1, <3>3 DEF Stages
      <4>3. CASE reply'[c] = Outcome("raised")
        <5>1. reply' = [reply EXCEPT ![c] = Outcome("raised")]
          BY <2>4, <4>3
        <5> QED
          BY <2>7, <3>1, <4>1, <5>1, RaiseRefines
      <4>4. CASE Return(c) /\ reply'[c] = Done(result[c])
        <5>1. reply' = [reply EXCEPT ![c] = Done(result[c])] /\ UNCHANGED items
          BY <2>4, <4>4 DEF Return, db
        <5> QED
          BY <3>1, <4>1, <4>4, <5>1, ReturnRefines
      <4> QED
        BY <4>2, <4>3, <4>4
    <3> QED
      BY <2>7, <3>1, <3>2, <3>3 DEF Stages
  <2>8. CASE Step(c) /\ committed' # committed /\ pc[c] \notin Working
    <3>1. Stages(c) /\ pc[c] \in Critical /\ pc'[c] \notin Critical
      BY <2>2, <2>3, <2>8, StepStages
    <3>2. committed' = Content(items)'
      BY <2>2, <3>1
    <3>3. pc[c] \in {"sweep", "sweep_vectors"}
      <4> SUFFICES ASSUME pc[c] \notin {"sweep", "sweep_vectors"} PROVE FALSE
        OBVIOUS
      <4>1. pc[c] \in Preparing
        BY <2>8, <3>1 DEF Critical, DataQuery, Preparing, Working
      <4>2. committed = Content(items)
        BY <2>3, <3>1, <4>1 DEF Progress, Preparing, Working
      <4>3. UNCHANGED items
        BY <2>8, <4>1, StepMovesTables DEF ItemsMove, Preparing
      <4>4. Content(items)' = Content(items)
        BY <4>3 DEF Content
      <4> QED
        BY <2>8, <3>2, <4>2, <4>4
    <3>4. pc'[c] = "idle" /\ ~ Return(c)
      BY <3>1, <3>3 DEF Stages, Critical, DataQuery, Return
    <3>5. \E how \in {"ok", "raised"} : reply'[c] = Outcome(how)
      BY <3>1, <3>4 DEF Stages
    <3>6. \E how \in {"ok", "raised"} : reply' = [reply EXCEPT ![c] = Outcome(how)]
      BY <2>4, <3>5
    <3> QED
      BY <2>3, <2>8, <3>2, <3>3, <3>6, SweepRefines
  <2> QED
    BY <1>3, <2>5, <2>6, <2>7, <2>8
<1> QED
  BY <1>2, <1>3 DEF AtomicNext, Next

\* Through one object every batch takes effect at one instant, whatever queries fail
\* in between: the store, query by query, implements ItemStore.
THEOREM Implements ==
    ASSUME SingleStore
    PROVE  AtomicSpec => ImplementsItemStore
<1>1. AtomicInit => StoreInv /\ HistoryInv /\ Abstract!Init
  <2> SUFFICES ASSUME AtomicInit PROVE StoreInv /\ HistoryInv /\ Abstract!Init
    OBVIOUS
  <2>1. Init /\ committed = Content(items)
    BY DEF AtomicInit
  <2>2. StoreInv
    BY <2>1, InitStore
  <2>3. HistoryInv
    BY <2>1 DEF Init, HistoryInv, Progress, Critical, DataQuery, Working
  <2>4. committed = Abstract!EmptyItems
    BY <2>1, ItemDefs DEF Init, Content, EmptyItems
  <2>5. reply = [c \in Client |-> Abstract!Nothing("none")]
    BY <2>1 DEF Init, NoReply, Outcome, Abstract!Nothing
  <2> QED
    BY <2>2, <2>3, <2>4, <2>5 DEF Abstract!Init
<1>2. StoreInv /\ HistoryInv /\ [AtomicNext]_<<vars, committed>> => (StoreInv /\ HistoryInv)'
  BY StoreSteps, NextHistory
<1>3. StoreInv /\ HistoryInv /\ [AtomicNext]_<<vars, committed>> => [Abstract!Next]_Abstract!vars
  BY StepRefines
<1> QED
  BY <1>1, <1>2, <1>3, PTL DEF AtomicSpec, ImplementsItemStore, Abstract!Spec
=============================================================================
