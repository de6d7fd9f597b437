------------------------ MODULE MCAsyncSurrealSaver ------------------------
(***************************************************************************)
(* Instances of AsyncSurrealSaver for TLC.                                 *)
(***************************************************************************)
EXTENDS AsyncSurrealSaver, MCSurrealSaver

\* Calls of every kind on one conversation.
AsyncCalls ==
    {Setup, PutOf(t1, 1, v1), GetOf(t1, 1), ListOf(t1, None, None, None),
     PutWritesOf(t1, 1, Ordinary(v1)), PutWritesOf(t1, 1, Ordinary(v2)),
     PutWritesOf(t1, 1, Reserved(v1)), DeleteOf(t1)}

\* Calls of each sort of sync method.
BridgeCalls == {Setup, PutOf(t1, 1, v1), GetOf(t1, 1)}
=============================================================================
