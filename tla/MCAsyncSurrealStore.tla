------------------------ MODULE MCAsyncSurrealStore ------------------------
(***************************************************************************)
(* Instances of AsyncSurrealStore for TLC.                                 *)
(***************************************************************************)
EXTENDS AsyncSurrealStore, MCSurrealStore

\* A put with a vector, a batch that deletes and reads, one that searches, lists
\* and puts without a vector, a sweep and a set-up.
AsyncCalls ==
    {Setup, Sweep,
     BatchOf(<<PutValue(A, v, 1, <<f>>)>>),
     BatchOf(<<PutNothing(A), Get(A, TRUE)>>),
     BatchOf(<<PutValue(A, v, None, <<>>), Search(TRUE, <<>>, Value, 1, 0), List>>)}
=============================================================================
