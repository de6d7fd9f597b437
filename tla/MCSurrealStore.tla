--------------------------- MODULE MCSurrealStore ---------------------------
(***************************************************************************)
(* Instances of SurrealStore for TLC.                                      *)
(***************************************************************************)
EXTENDS SurrealStore

CONSTANTS c1, c2, c3, s1, s2, p, q, ka, f, g, v, w

\* A namespace and one below it; one namespace.
NestedNamespaces == {<<p>>, <<p, q>>}
OneNamespace     == {<<p>>}

OneStore  == [c \in Client |-> s1]
TwoStores == [c \in Client |-> IF c = c2 THEN s2 ELSE s1]

Indexed == [index |-> TRUE, embed |-> TRUE, ttl |-> TRUE]
Plain   == [index |-> FALSE, embed |-> FALSE, ttl |-> FALSE]

AllIndexed  == [s \in Store |-> Indexed]
OnlyIndexed == [s \in Store |-> IF s = s1 THEN Indexed ELSE Plain]

A == [namespace |-> <<p>>, key |-> ka]
B == [namespace |-> <<p, q>>, key |-> ka]

Get(k, refresh) == [op |-> "get", item |-> k, refresh_ttl |-> refresh]
Search(query, prefix, filter, limit, offset) ==
    [op |-> "search", namespace_prefix |-> prefix, filter |-> filter, limit |-> limit,
     offset |-> offset, query |-> query, refresh_ttl |-> TRUE]
List            == [op |-> "list_namespaces"]
PutValue(k, val, ttl, fields) ==
    [op |-> "put", item |-> k, value |-> val, ttl |-> ttl, fields |-> fields]
PutNothing(k)   == PutValue(k, None, None, <<>>)

BatchOf(ops) == [op |-> "batch", ops |-> ops]
Setup == [op |-> "setup"]
Probe == [op |-> "probe"]
Sweep == [op |-> "sweep"]

\* Batches that put one item with different values, fields and times to live,
\* twice in one batch, read it in the batch that changes it, or delete it beside
\* a put of another in a namespace below; searches of a namespace with what is below
\* it, of one page, of the page after the first item, and by meaning with a filter;
\* reads that refresh; a sweep.
OneStoreCalls ==
    {Sweep,
     BatchOf(<<PutValue(A, v, 1, <<f, g>>)>>),
     BatchOf(<<PutValue(A, v, 1, <<g>>), Get(A, TRUE), PutValue(A, w, None, <<f>>), List,
               Search(FALSE, <<>>, Value, 1, 1)>>),
     BatchOf(<<PutNothing(A), Get(A, FALSE), PutValue(B, w, None, <<g>>),
               Search(FALSE, <<p>>, Value, 2, 0)>>),
     BatchOf(<<Search(TRUE, <<p>>, {v}, 1, 0), Get(A, TRUE)>>)}

\* Two objects, one without an index, and a call of every kind.
EveryCall ==
    {Setup, Probe, Sweep,
     BatchOf(<<PutValue(A, v, 1, <<f>>)>>),
     BatchOf(<<PutNothing(A), Get(A, TRUE)>>),
     BatchOf(<<Search(TRUE, <<>>, Value, 1, 0), List>>)}

=============================================================================
