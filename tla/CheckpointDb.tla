---------------------------- MODULE CheckpointDb ----------------------------
(***************************************************************************)
(* The two SurrealDB tables behind a checkpoint saver and the queries the  *)
(* repositories send to them, as operators on table values.                *)
(*                                                                         *)
(* A table is a total function from record ids to rows; NoRow marks an     *)
(* absent record.  A record id is the tuple of fields it is made from:     *)
(* DbRecordId.from_raw joins the fields with "|" and hashes the result,    *)
(* and that is injective as long as only checkpoint_ns holds a "|".        *)
(* Payloads, metadata and type tags are one opaque Value.  Checkpoint ids  *)
(* are numbers because the queries order them (LangGraph's ids are         *)
(* time-ordered strings and SurrealDB compares them as strings).           *)
(***************************************************************************)
EXTENDS Integers, Sequences, FiniteSets

CONSTANTS ThreadId,       \* thread_id values in use
          Namespace,      \* checkpoint_ns values in use
          CheckpointId,   \* checkpoint ids, ordered
          TaskId,         \* task ids
          RegularChannel, \* channels that have no reserved index
          Value,          \* payloads
          MaxBatch,       \* length of the longest batch given to put_writes
          NoRow,          \* "there is no such record"
          None            \* an argument left out (None)

\* LangGraph's reserved channels and the negative indices they are stored at.
WRITES_IDX_MAP == [ERROR |-> -1, SCHEDULED |-> -2, INTERRUPT |-> -3, RESUME |-> -4]

SpecialChannel == {"ERROR", "SCHEDULED", "INTERRUPT", "RESUME"}
AnyChannel     == RegularChannel \cup SpecialChannel
Index          == -4 .. MaxBatch - 1

ASSUME CheckpointIdAssumption == CheckpointId \subseteq Nat
ASSUME MaxBatchAssumption     == MaxBatch \in Nat
ASSUME RegularAssumption      == RegularChannel \cap SpecialChannel = {}
ASSUME NoRowAssumption        == NoRow \notin Value

-----------------------------------------------------------------------------
(* Record ids and rows *)

DbCheckpointId ==
    [thread_id: ThreadId, checkpoint_ns: Namespace, checkpoint_id: CheckpointId]

DbWriteId ==
    [thread_id: ThreadId, checkpoint_ns: Namespace, checkpoint_id: CheckpointId,
     task_id: TaskId, idx: Index]

DbWrite == [channel: AnyChannel, value: Value]

ASSUME NoWriteRowAssumption == NoRow \notin DbWrite

CheckpointsTable == [DbCheckpointId -> Value \cup {NoRow}]
WritesTable      == [DbWriteId -> DbWrite \cup {NoRow}]

EmptyCheckpoints == [k \in DbCheckpointId |-> NoRow]
EmptyWrites      == [k \in DbWriteId |-> NoRow]

\* The checkpoint a pending write belongs to, and a write's id from its parts.
OwnerOf(w) == [thread_id |-> w.thread_id, checkpoint_ns |-> w.checkpoint_ns,
               checkpoint_id |-> w.checkpoint_id]

WriteId(key, task, i) ==
    [thread_id |-> key.thread_id, checkpoint_ns |-> key.checkpoint_ns,
     checkpoint_id |-> key.checkpoint_id, task_id |-> task, idx |-> i]

-----------------------------------------------------------------------------
(* Queries that read *)

Rows(table) == {k \in DOMAIN table : table[k] # NoRow}

\* SELECT ... ORDER BY checkpoint_id DESC LIMIT n keeps some n of the matching
\* rows such that no row left out is newer than one kept.
NewestOf(matching, limit) ==
    {S \in SUBSET matching :
        /\ Cardinality(S) = IF limit = None \/ limit > Cardinality(matching)
                            THEN Cardinality(matching) ELSE limit
        /\ \A k \in S, o \in matching \ S : k.checkpoint_id >= o.checkpoint_id}

\* get_latest: the newest checkpoint of a thread and namespace.
GetLatest(table, thread, ns) ==
    NewestOf({k \in Rows(table) : k.thread_id = thread /\ k.checkpoint_ns = ns}, 1)

\* The clauses _search_where joins with AND: an argument that is None adds none.
Matches(k, where) ==
    /\ where.thread_id \in {None, k.thread_id}
    /\ where.checkpoint_ns \in {None, k.checkpoint_ns}
    /\ where.checkpoint_id \in {None, k.checkpoint_id}
    /\ where.before # None => k.checkpoint_id < where.before

ListRows(table, where) ==
    NewestOf({k \in Rows(table) : Matches(k, where)}, where.limit)

\* fetch: the pending writes of one checkpoint.  The query orders them by task
\* and index, which determine a row, so a set of rows says as much.
Fetch(table, key) ==
    {[task_id |-> w.task_id, idx |-> w.idx, row |-> table[w]] :
        w \in {v \in Rows(table) : OwnerOf(v) = key}}

-----------------------------------------------------------------------------
(* Queries that write *)

Upsert(table, id, row) == [table EXCEPT ![id] = row]

\* DELETE FROM ... WHERE thread_id = $thread_id
DeleteThread(table, thread) ==
    [k \in DOMAIN table |-> IF k.thread_id = thread THEN NoRow ELSE table[k]]

-----------------------------------------------------------------------------
(* What a batch of writes means *)

\* Replacing as soon as one channel of the batch is reserved.
ReplaceIfAny(batch) == \E i \in 1 .. Len(batch) : batch[i].channel \in SpecialChannel

\* put_writes replaces rows only when every channel of the batch is reserved
\* (all() of an empty batch is true).
Replace(batch) == \A i \in 1 .. Len(batch) : batch[i].channel \in SpecialChannel

\* Counting the writes of a batch from one.
UseIdxFromOne(batch, i) == IF batch[i].channel \in SpecialChannel
                           THEN WRITES_IDX_MAP[batch[i].channel] ELSE i

\* WRITES_IDX_MAP.get(channel, idx), with enumerate() counting from 0.
UseIdx(batch, i) == IF batch[i].channel \in SpecialChannel
                    THEN WRITES_IDX_MAP[batch[i].channel] ELSE i - 1
=============================================================================
