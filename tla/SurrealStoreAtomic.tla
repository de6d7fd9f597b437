------------------------- MODULE SurrealStoreAtomic -------------------------
(***************************************************************************)
(* One SurrealStore implements ItemStore: through one object every batch   *)
(* and every sweep looks atomic, although it is many queries long.         *)
(*                                                                         *)
(* The history variable committed holds the items as they were when the    *)
(* object's lock was last free; no step reads it.                          *)
(***************************************************************************)
EXTENDS SurrealStore

VARIABLE committed

\* NoRow is not what a row holds either.
ASSUME ContentAssumption == NoRow \notin [value: Value, ttl: Duration \cup {None}]

Content(table) ==
    [k \in DbStoreItemId |->
        IF table[k] = NoRow THEN NoRow
        ELSE [value |-> table[k].value, ttl |-> table[k].ttl]]

Quiet == \A s \in Store : lock[s] = Free

AtomicInit == Init /\ committed = Content(items)

AtomicNext ==
    /\ Next
    /\ committed' = IF Quiet' THEN Content(items') ELSE committed

AtomicSpec == AtomicInit /\ [][AtomicNext]_<<vars, committed>>

Abstract == INSTANCE ItemStore WITH stored <- committed, told <- reply

\* Every batch of one store takes effect at one instant: its reads see what was
\* there before its puts, the last put of an item wins, and when it raises each
\* of its puts has happened or not.  A sweep takes nothing that has no time to live.
ImplementsItemStore == Abstract!Spec
=============================================================================
