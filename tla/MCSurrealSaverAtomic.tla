------------------------ MODULE MCSurrealSaverAtomic ------------------------
(***************************************************************************)
(* Instances of SurrealSaverAtomic for TLC, with MCSurrealSaver's calls.   *)
(***************************************************************************)
EXTENDS MCSurrealSaver, SurrealSaverAtomic
=============================================================================
