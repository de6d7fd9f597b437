------------------------- MODULE SurrealSaverAtomic -------------------------
(***************************************************************************)
(* One SurrealSaver implements CheckpointStore: through one object every   *)
(* call looks atomic, although it is several queries long.                 *)
(*                                                                         *)
(* The history variable committed holds the tables as they were when the   *)
(* object's lock was last free.  It is what another call of the object can *)
(* see, and what the abstract store contains; no step reads it.            *)
(***************************************************************************)
EXTENDS SurrealSaver

VARIABLE committed

Quiet == \A s \in Saver : lock[s] = Free

AtomicInit == Init /\ committed = <<checkpoints, writes>>

AtomicNext ==
    /\ Next
    /\ committed' = IF Quiet' THEN <<checkpoints', writes'>> ELSE committed

AtomicSpec == AtomicInit /\ [][AtomicNext]_<<vars, committed>>

Told == [c \in Client |-> IF reply[c].status = "tuple" THEN reply[c] ELSE NoReply]

Store == INSTANCE CheckpointStore
             WITH cps <- committed[1], wrs <- committed[2], told <- Told

\* Every call of one saver takes effect at one instant, all of a batch or a
\* prefix of it if the call raises, and tells its caller the truth.
ImplementsStore == Store!Spec
=============================================================================
