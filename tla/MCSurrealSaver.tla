--------------------------- MODULE MCSurrealSaver ---------------------------
(***************************************************************************)
(* Instances of SurrealSaver for TLC.                                      *)
(***************************************************************************)
EXTENDS SurrealSaver

CONSTANTS c1, c2, c3, s1, s2, t1, t2, task, a, v1, v2

OneSaver  == [c \in Client |-> s1]
TwoSavers == [c \in Client |-> IF c = c2 THEN s2 ELSE s1]

Key(t, i) == [thread_id |-> t, checkpoint_ns |-> "", checkpoint_id |-> i]

PutOf(t, i, v) == [op |-> "put", key |-> Key(t, i), value |-> v]
GetOf(t, i)    == [op |-> "get_tuple", thread_id |-> t, checkpoint_ns |-> "",
                   checkpoint_id |-> i]
ListOf(t, i, before, limit) ==
    [op |-> "list", thread_id |-> t, checkpoint_ns |-> None, checkpoint_id |-> i,
     before |-> before, limit |-> limit]
PutWritesOf(t, i, batch) ==
    [op |-> "put_writes", key |-> Key(t, i), task_id |-> task, batch |-> batch]
DeleteOf(t) == [op |-> "delete_thread", thread_id |-> t]
Setup == [op |-> "setup"]
Probe == [op |-> "probe"]

Write(ch, v) == [channel |-> ch, value |-> v]

Ordinary(v) == <<Write(a, v), Write("INTERRUPT", v)>>
Mixed(v)    == <<Write("ERROR", v), Write(a, v)>>
Reserved(v) == <<Write("INTERRUPT", v)>>

\* Every kind of call on one conversation: batches that fill, replace and mix
\* racing each other, readers, a lister with and without limits, a deletion.
OneSaverCalls ==
    {Setup, Probe, PutOf(t1, 1, v1), PutOf(t1, 2, v2), GetOf(t1, 1), GetOf(t1, None),
     ListOf(t1, None, None, None), ListOf(None, None, 2, 1), DeleteOf(t1)} \cup
    {PutWritesOf(t1, 1, b) :
        b \in {Ordinary(v1), Ordinary(v2), Mixed(v2), Reserved(v2), <<>>}}

\* One call of every kind: several objects on one database, and liveness.
EveryCall ==
    {Setup, Probe, PutOf(t1, 1, v1), GetOf(t1, 1), ListOf(t1, None, None, None),
     PutWritesOf(t1, 1, Ordinary(v1)), PutWritesOf(t1, 1, Reserved(v1)), DeleteOf(t1)}

\* Two conversations with pending writes, one of them deleted.
DeleteCalls ==
    {PutWritesOf(t1, 1, Ordinary(v1)), PutWritesOf(t2, 1, Ordinary(v1)), DeleteOf(t1)}
=============================================================================
