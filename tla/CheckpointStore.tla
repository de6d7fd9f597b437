--------------------------- MODULE CheckpointStore ---------------------------
(***************************************************************************)
(* What a checkpoint saver promises: a store whose calls each happen at    *)
(* one instant.  A put stores a checkpoint; put_writes stores a whole      *)
(* batch, or, when it raises, a prefix of it; delete_thread removes a      *)
(* thread's checkpoints and may or may not get to its writes; and every    *)
(* tuple a caller is given is what the store holds at that instant.        *)
(*                                                                         *)
(* Nothing here mentions locks, queries or the order of steps.  What a     *)
(* batch does is said once and for all (Applies), not write by write.      *)
(***************************************************************************)
EXTENDS CheckpointDb

CONSTANTS Client, Calls

VARIABLES cps,  \* the checkpoints
          wrs,  \* the pending writes
          told  \* told[c]: the tuple client c has been given, or NoTuple

vars == <<cps, wrs, told>>

NoTuple == [status |-> "none"]

\* Whether result is table after the first n writes of a batch.  A batch of
\* reserved channels replaces, so the last write at an index counts; any other
\* batch fills what is empty, so a stored row counts first, then the first write.
Applies(table, m, n, result) ==
    \A w \in DbWriteId :
        LET at == {i \in 1 .. n : WriteId(m.key, m.task_id, UseIdx(m.batch, i)) = w} IN
        IF at = {} \/ (~ Replace(m.batch) /\ table[w] # NoRow)
        THEN result[w] = table[w]
        ELSE \E i \in at :
                /\ result[w] = m.batch[i]
                /\ \A j \in at : IF Replace(m.batch) THEN j <= i ELSE i <= j

Init == /\ cps = EmptyCheckpoints
        /\ wrs = EmptyWrites
        /\ told = [c \in Client |-> NoTuple]

Put == \E m \in Calls :
    /\ m.op = "put"
    /\ cps' = Upsert(cps, m.key, m.value)
    /\ UNCHANGED <<wrs, told>>

PutWrites == \E m \in Calls :
    /\ m.op = "put_writes"
    /\ wrs' \in WritesTable
    /\ \E n \in 0 .. Len(m.batch) : Applies(wrs, m, n, wrs')
    /\ UNCHANGED <<cps, told>>

Delete == \E m \in Calls :
    /\ m.op = "delete_thread"
    /\ cps' = DeleteThread(cps, m.thread_id)
    /\ wrs' \in {wrs, DeleteThread(wrs, m.thread_id)}
    /\ UNCHANGED told

Tell(c) ==
    /\ \E k \in Rows(cps) :
         told' = [told EXCEPT ![c] = [status |-> "tuple", key |-> k, value |-> cps[k],
                                      pending |-> Fetch(wrs, k)]]
    /\ UNCHANGED <<cps, wrs>>

Forget(c) ==
    /\ told' = [told EXCEPT ![c] = NoTuple]
    /\ UNCHANGED <<cps, wrs>>

Next == Put \/ PutWrites \/ Delete \/ \E c \in Client : Tell(c) \/ Forget(c)

Spec == Init /\ [][Next]_vars
=============================================================================
