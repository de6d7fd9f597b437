------------------------- MODULE MCAsyncTtlSweeper -------------------------
(***************************************************************************)
(* Instances of AsyncTtlSweeper for TLC.                                   *)
(***************************************************************************)
EXTENDS AsyncTtlSweeper

CONSTANTS c1
=============================================================================
