----------------------------- MODULE ItemStore -----------------------------
(***************************************************************************)
(* What an item store promises: a batch happens at one instant.  Its reads *)
(* see the store as it was before its puts, the last put of an item        *)
(* counts, and a batch that raises has carried out some of its puts and    *)
(* none by half.  Items with a time to live may be removed at any time,    *)
(* others only by a put of nothing.                                        *)
(***************************************************************************)
EXTENDS StoreDb

CONSTANTS Client, Calls

VARIABLES stored, \* stored[k]: the value and time to live of item k, or NoRow
          told    \* told[c]: what client c's last call returned

vars == <<stored, told>>

\* The items a search asks for: in its namespace or below it, and let through.
Sought(st, op) ==
    {k \in Rows(st) :
        /\ \A i \in DOMAIN op.namespace_prefix :
              i \in DOMAIN k.namespace /\ k.namespace[i] = op.namespace_prefix[i]
        /\ st[k].value \in op.filter}

\* What it may answer with: a page of them, no telling which; with a query no more than
\* a page, for the index knows only of some.
Pages(st, op) ==
    LET sought == Sought(st, op) IN
    {page \in SUBSET sought :
        IF op.query THEN Cardinality(page) <= op.limit
        ELSE Cardinality(page) = PageLength(Cardinality(sought), op)}

\* Whether r answers the operations of a batch from a store st.
Answers(st, m, r) ==
    /\ DOMAIN r = DOMAIN m
    /\ \A i \in DOMAIN m :
          CASE m[i].op = "get" ->
                 r[i] = {Item(st, k) : k \in {m[i].item} \cap Rows(st)}
            [] m[i].op = "search" ->
                 \E page \in Pages(st, m[i]) : r[i] = {Item(st, k) : k \in page}
            [] m[i].op = "list_namespaces" -> r[i] = Namespaces(st)
            [] m[i].op = "put" -> r[i] = {}

\* The store after the puts of a batch to the items of a set.
AfterPuts(st, m, keys) ==
    [k \in DbStoreItemId |->
        IF k \in keys /\ \E i \in DOMAIN m : IsPut(m, i) /\ m[i].item = k
        THEN LET last == CHOOSE i \in DOMAIN m :
                            /\ IsPut(m, i) /\ m[i].item = k
                            /\ \A j \in SameItem(m, i) : j <= i
             IN  IF m[last].value = None THEN NoRow
                 ELSE [value |-> m[last].value, ttl |-> m[last].ttl]
        ELSE st[k]]

Nothing(how) == [status |-> how, results |-> <<>>]

Tell(c, r) == told' = [told EXCEPT ![c] = r]

Init == /\ stored = EmptyItems
        /\ told = [c \in Client |-> Nothing("none")]

DoBatch(c) == \E m \in Calls :
    /\ m.op = "batch"
    /\ Tell(c, told'[c]) /\ told'[c].status = "ok"
    /\ Answers(stored, m.ops, told'[c].results)
    /\ stored' = AfterPuts(stored, m.ops, DbStoreItemId)

BatchRaises(c) == \E m \in Calls :
    /\ m.op = "batch"
    /\ Tell(c, Nothing("raised"))
    /\ \E keys \in SUBSET DbStoreItemId : stored' = AfterPuts(stored, m.ops, keys)

Expire(c) ==
    /\ \E how \in {"ok", "raised"} : Tell(c, Nothing(how))
    /\ \E keys \in SUBSET {k \in Rows(stored) : stored[k].ttl # None} :
          stored' = DeleteAll(stored, keys)

Other(c) ==
    /\ \E how \in {"none", "ok", "raised"} : Tell(c, Nothing(how))
    /\ UNCHANGED stored

Next == \E c \in Client : DoBatch(c) \/ BatchRaises(c) \/ Expire(c) \/ Other(c)

Spec == Init /\ [][Next]_vars
=============================================================================
