------------------------------ MODULE StoreDb ------------------------------
(***************************************************************************)
(* The two SurrealDB tables behind an item store and the queries sent to   *)
(* them, as operators on table values, and what a batch of operations      *)
(* amounts to.                                                             *)
(*                                                                         *)
(* A vector is identified with the value it was made from: its text and    *)
(* its embedding are functions of that value and of the field.  The time   *)
(* stamps created_at and updated_at are left out; expiry is kept.          *)
(***************************************************************************)
EXTENDS Integers, Sequences, FiniteSets

CONSTANTS Part,      \* parts of namespaces
          Namespace, \* namespaces in use: sequences of parts
          Key,       \* keys in use
          Field,     \* names of vector fields: a path, or a path and an index
          Value,     \* values of items
          Duration,  \* time-to-live values in use
          NoRow,     \* "there is no such record"
          None       \* an argument left out (None)

ASSUME NamespaceAssumption == Namespace \subseteq Seq(Part)
ASSUME DurationAssumption == Duration \subseteq Nat
ASSUME NoneAssumption     == None \notin Value /\ None \notin Nat /\ None \notin BOOLEAN

-----------------------------------------------------------------------------
(* Record ids and rows *)

DbStoreItemId == [namespace: Namespace, key: Key]

DbStoreItem == [value: Value, ttl: Duration \cup {None}, expires_at: Nat \cup {None}]

ASSUME NoRowAssumption == NoRow \notin DbStoreItem /\ NoRow \notin Value

ItemsTable   == [DbStoreItemId -> DbStoreItem \cup {NoRow}]
VectorsTable == [DbStoreItemId -> [Field -> Value \cup {NoRow}]]

EmptyItems   == [k \in DbStoreItemId |-> NoRow]
NoVectors    == [f \in Field |-> NoRow]
EmptyVectors == [k \in DbStoreItemId |-> NoVectors]

-----------------------------------------------------------------------------
(* Operations and batches *)

GetOp    == [op: {"get"}, item: DbStoreItemId, refresh_ttl: BOOLEAN]

\* filter is the set of values it lets through.
SearchOp == [op: {"search"}, namespace_prefix: Seq(Part), filter: SUBSET Value,
             limit: Nat, offset: Nat, query: BOOLEAN, refresh_ttl: BOOLEAN]

ListNamespacesOp == [op: {"list_namespaces"}]

\* A value of None deletes.  fields are the vector fields the value yields under
\* the operation's index argument, none if that is False.
PutOp    == [op: {"put"}, item: DbStoreItemId, value: Value \cup {None},
             ttl: Duration \cup {None}, fields: Seq(Field)]

\* Storing a value of None like any other.
RemovesNever(op) == FALSE

\* Whether a put deletes.
Removes(op) == op.value = None

Op    == GetOp \cup SearchOp \cup ListNamespacesOp \cup PutOp
Batch == Seq(Op)

IsPut(m, i) == i \in DOMAIN m /\ m[i].op = "put"

\* Puts of one item: the dict keeps the place of the first and the last's content.
SameItem(m, i) == {j \in DOMAIN m : IsPut(m, j) /\ m[j].item = m[i].item}
Place(m, i)    == IF IsPut(m, i)
                  THEN CHOOSE j \in SameItem(m, i) : \A k \in SameItem(m, i) : j <= k
                  ELSE i

\* The operations of a batch that are carried out.
Effective(m) ==
    {i \in DOMAIN m : IsPut(m, i) => \A j \in SameItem(m, i) : j <= i}

\* Carrying a batch out in the order it is written in.
RankAsWritten == [get |-> 1, search |-> 1, list_namespaces |-> 1, put |-> 1]

\* Gets, then searches, then listings, then puts, each in the order of the batch.
Rank == [get |-> 1, search |-> 2, list_namespaces |-> 3, put |-> 4]

Before(m, i, j) ==
    \/ Rank[m[i].op] < Rank[m[j].op]
    \/ Rank[m[i].op] = Rank[m[j].op] /\ Place(m, i) <= Place(m, j)

-----------------------------------------------------------------------------
(* Queries *)

Rows(table) == {k \in DbStoreItemId : table[k] # NoRow}

\* An expiry computed by the client from a clock it shares with the server.
ExpiresAt(now, ttl) == IF ttl = None THEN None ELSE now + ttl

\* create_record and update store the same fields.
NewRow(op, now) ==
    [value |-> op.value, ttl |-> op.ttl, expires_at |-> ExpiresAt(now, op.ttl)]

Upsert(table, k, row) == [table EXCEPT ![k] = row]
Delete(table, k)      == [table EXCEPT ![k] = NoRow]

UpdateExpiry(table, k, at) == [table EXCEPT ![k].expires_at = at]

\* DELETE_EXPIRED_ITEMS_QUERY: the rows it removes.
Expired(table, now) ==
    {k \in Rows(table) : table[k].expires_at # None /\ table[k].expires_at <= now}

DeleteAll(table, keys) == [k \in DbStoreItemId |-> IF k \in keys THEN NoRow ELSE table[k]]

UpsertVector(table, k, f, v) == [table EXCEPT ![k][f] = v]
DeleteByItem(table, k)       == [table EXCEPT ![k] = NoVectors]

HasVector(table, k) == \E f \in Field : table[k][f] # NoRow

\* Whether a namespace begins with value.
cmp_namespace(namespace, value) ==
    /\ Len(value) <= Len(namespace)
    /\ SubSeq(namespace, 1, Len(value)) = value

\* The rows a search is about.
Matching(items, op) ==
    {k \in Rows(items) : /\ cmp_namespace(k.namespace, op.namespace_prefix)
                         /\ items[k].value \in op.filter}

\* LIMIT limit START offset, of n rows.
PageLength(n, op) ==
    IF n <= op.offset THEN 0
    ELSE IF n - op.offset <= op.limit THEN n - op.offset ELSE op.limit

\* Searching one namespace and none of those below it.
SearchPagesOfNamespace(items, op) ==
    LET rows == {k \in Matching(items, op) : k.namespace = op.namespace_prefix} IN
    {page \in SUBSET rows : Cardinality(page) = PageLength(Cardinality(rows), op)}

\* search: a page of the rows that match.  There is no ORDER BY, so which of them are
\* on it is the server's to choose.
SearchPages(items, op) ==
    LET rows == Matching(items, op) IN
    {page \in SUBSET rows : Cardinality(page) = PageLength(Cardinality(rows), op)}

\* search_indexed with a query: at most a page of the items that have a vector, as the
\* server ranks them.  What it makes of a vector whose item is gone is not relied on.
IndexedPages(items, vectors, op) ==
    LET near == {k \in DbStoreItemId :
                    /\ HasVector(vectors, k)
                    /\ cmp_namespace(k.namespace, op.namespace_prefix)
                    /\ items[k] = NoRow \/ items[k].value \in op.filter}
    IN  {page \in SUBSET near : Cardinality(page) <= op.limit}

Hits(items, vectors, op) ==
    IF op.query THEN IndexedPages(items, vectors, op) ELSE SearchPages(items, op)

\* LIST_NAMESPACES_QUERY; matching and truncation work on this set alone.
Namespaces(items) == {[namespace |-> k.namespace] : k \in Rows(items)}

\* The item a caller is given.
Item(items, k) == [item |-> k, value |-> items[k].value]
=============================================================================
