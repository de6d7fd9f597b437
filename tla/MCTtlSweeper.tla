---------------------------- MODULE MCTtlSweeper ----------------------------
(***************************************************************************)
(* Instances of TtlSweeper for TLC.                                        *)
(***************************************************************************)
EXTENDS TtlSweeper

CONSTANTS c1
=============================================================================
