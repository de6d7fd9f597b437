------------------------ MODULE MCSurrealStoreAtomic ------------------------
(***************************************************************************)
(* Instances of SurrealStoreAtomic for TLC, with MCSurrealStore's calls.   *)
(***************************************************************************)
EXTENDS MCSurrealStore, SurrealStoreAtomic
=============================================================================
