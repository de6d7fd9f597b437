-------------------------- MODULE TtlSweeperProofs --------------------------
(***************************************************************************)
(* What holds of the sweeper thread for any number of starts, stops and    *)
(* cancellations: its types for any number of callers, and for callers who *)
(* take turns (one caller) that there is never a second sweeper and that a *)
(* stop which reports success leaves none.                                 *)
(***************************************************************************)
EXTENDS TtlSweeper, TLAPS

-----------------------------------------------------------------------------
(* Types *)

\* A start that has created its thread remembers which.
CallInv == \A c \in Caller : pc[c] \in {"start_run", "start_hook"} => mine[c] \in Sweeper

TypeInv == TypeOK /\ CallInv

\* Every object starts with no sweeper.
LEMMA InitType == Init => TypeInv
BY DEF Init, TypeInv, TypeOK, CallInv, Labels

\* A call of start or stop keeps the types.
LEMMA CallType ==
    ASSUME TypeInv, NEW c \in Caller, Start(c) \/ Stop(c) \/ Cancel(c) \/ Call(c)
    PROVE  TypeInv'
<1> USE NoneAssumption DEF TypeInv, TypeOK, CallInv, Labels, Goto, Return, calls
<1>1. CASE Start(c)      BY <1>1 DEF Start
<1>2. CASE StartAlive(c) BY <1>2 DEF StartAlive
<1>3. CASE StartClear(c) BY <1>3 DEF StartClear
<1>4. CASE StartTrack(c)
  <2>1. PICK i \in Sweeper :
           /\ thread' = i /\ future' = i
           /\ mine' = [mine EXCEPT ![c] = i]
           /\ sweeper' = [sweeper EXCEPT ![i] = "created"]
    BY <1>4 DEF StartTrack, Unborn
  <2>2. /\ pc' = [pc EXCEPT ![c] = "start_run"]
        /\ UNCHANGED <<stop_event, cancelled, hooked, handed, timed, reply, wanted>>
    BY <1>4 DEF StartTrack
  <2> QED
    BY <2>1, <2>2
<1>5. CASE StartRun(c)   BY <1>5 DEF StartRun
<1>6. CASE StartHook(c)  BY <1>6 DEF StartHook
<1>7. CASE Stop(c)
  <2>1. PICK t \in BOOLEAN : timed' = [timed EXCEPT ![c] = t]
    BY <1>7 DEF Stop
  <2>3. timed' \in [Caller -> BOOLEAN]
    BY <2>1, Zenon
  <2>4. wanted' = FALSE
    BY <1>7 DEF Stop
  <2>2. /\ pc' \in [Caller -> Labels] /\ pc'[c] \in {"idle", "stop_alive"}
        /\ \A d \in Caller \ {c} : pc'[d] = pc[d]
        /\ reply' \in {reply, [reply EXCEPT ![c] = "stopped"]}
        /\ UNCHANGED <<stop_event, thread, future, sweeper, cancelled, hooked, handed, mine>>
    BY <1>7 DEF Stop
  <2> QED
    BY <2>2, <2>3, <2>4
<1>8. CASE StopAlive(c)  BY <1>8 DEF StopAlive
<1>9. CASE StopSet(c)    BY <1>9 DEF StopSet
<1>10. CASE StopJoin(c)
  <2>1. CASE thread = None
    BY <1>10, <2>1 DEF StopJoin
  <2>2. CASE thread # None
    <3>1. /\ mine' = [mine EXCEPT ![c] = thread]
          /\ pc' = [pc EXCEPT ![c] = "stop_wait"]
          /\ UNCHANGED <<stop_event, thread, future, sweeper, cancelled, hooked, handed, timed,
                         reply, wanted>>
      BY <1>10, <2>2 DEF StopJoin
    <3> QED
      BY <2>2, <3>1
  <2> QED
    BY <2>1, <2>2
<1>11. CASE StopWait(c)   BY <1>11 DEF StopWait
<1>12. CASE StopVerify(c) BY <1>12 DEF StopVerify
<1>13. CASE StopForget(c) BY <1>13 DEF StopForget
<1>14. CASE Cancel(c)     BY <1>14 DEF Cancel
<1> QED
  BY <1>1, <1>2, <1>3, <1>4, <1>5, <1>6, <1>7, <1>8, <1>9, <1>10, <1>11, <1>12, <1>13, <1>14
     DEF Call

\* A step of a sweeper changes its own place in the loop and nothing else, and only
\* a sweeper that is alive takes one.
LEMMA LoopStep ==
    ASSUME TypeOK, NEW i \in Sweeper, Loop(i)
    PROVE  /\ Alive(i)
           /\ \E to \in {"top", "waiting", "sweeping", "done"} :
                 sweeper' = [sweeper EXCEPT ![i] = to]
           /\ UNCHANGED <<stop_event, thread, future, cancelled, hooked, handed, pc, calls,
                          wanted>>
BY DEF Loop, LoopHead, Woken, Interval, Swept, Move, Alive, TypeOK

\* So does every step.
LEMMA NextType == TypeInv /\ [Next]_vars => TypeInv'
<1> SUFFICES ASSUME TypeInv, [Next]_vars PROVE TypeInv'
  OBVIOUS
<1>1. ASSUME NEW c \in Caller, Start(c) \/ Stop(c) \/ Cancel(c) \/ Call(c) PROVE TypeInv'
  BY <1>1, CallType
<1>2. ASSUME NEW i \in Sweeper, Loop(i) PROVE TypeInv'
  BY <1>2, LoopStep DEF TypeInv, TypeOK, CallInv, calls
<1>3. CASE UNCHANGED vars
  BY <1>3 DEF vars, calls, TypeInv, TypeOK, CallInv
<1> QED
  BY <1>1, <1>2, <1>3 DEF Next

\* Every reachable state has its type, for any number of callers at once; in
\* particular the assertion of start_ttl_sweeper never fails.
THEOREM TypeInvariant == Spec => []TypeOK
<1>1. TypeInv => TypeOK
  BY DEF TypeInv
<1> QED
  BY <1>1, InitType, NextType, PTL DEF Spec

-----------------------------------------------------------------------------
(* One sweeper *)

\* Callers that take turns.
OneCaller == \A c, d \in Caller : c = d

NoneAlive == \A i \in Sweeper : ~ Alive(i)

\* AtMostOne is not inductive: what is alive has to be what the object tracks, a
\* start past its look at the old thread, and a stop past its last, have to know
\* that nothing is alive, and the thread to be run has to be the one tracked.
SoleInv ==
    /\ \A i \in Sweeper : Alive(i) => thread = i
    /\ \A c \in Caller :
          /\ pc[c] \in {"start_clear", "start_track", "stop_forget"} => NoneAlive
          /\ pc[c] = "start_run" => mine[c] = thread

\* A call keeps it.
LEMMA CallSole ==
    ASSUME OneCaller, TypeInv, SoleInv,
           NEW c \in Caller, Start(c) \/ Stop(c) \/ Cancel(c) \/ Call(c)
    PROVE  SoleInv'
<1> USE OneCaller, NoneAssumption
    DEF OneCaller, TypeInv, TypeOK, SoleInv, NoneAlive, Alive, Goto, Return, calls
<1>1. CASE Start(c)      BY <1>1 DEF Start
<1>2. CASE StartAlive(c) BY <1>2 DEF StartAlive
<1>3. CASE StartClear(c) BY <1>3 DEF StartClear
<1>4. CASE StartTrack(c)
  <2>1. PICK i \in Sweeper :
           /\ thread' = i
           /\ mine' = [mine EXCEPT ![c] = i]
           /\ sweeper' = [sweeper EXCEPT ![i] = "created"]
    BY <1>4 DEF StartTrack, Unborn
  <2>2. pc[c] = "start_track" /\ pc' = [pc EXCEPT ![c] = "start_run"]
    BY <1>4 DEF StartTrack
  <2> QED
    BY <2>1, <2>2
<1>5. CASE StartRun(c)   BY <1>5 DEF StartRun
<1>6. CASE StartHook(c)  BY <1>6 DEF StartHook
<1>7. CASE Stop(c)       BY <1>7 DEF Stop
<1>8. CASE StopAlive(c)  BY <1>8 DEF StopAlive
<1>9. CASE StopSet(c)    BY <1>9 DEF StopSet
<1>10. CASE StopJoin(c)   BY <1>10 DEF StopJoin
<1>11. CASE StopWait(c)   BY <1>11 DEF StopWait
<1>12. CASE StopVerify(c) BY <1>12 DEF StopVerify
<1>13. CASE StopForget(c) BY <1>13 DEF StopForget
<1>14. CASE Cancel(c)     BY <1>14 DEF Cancel
<1> QED
  BY <1>1, <1>2, <1>3, <1>4, <1>5, <1>6, <1>7, <1>8, <1>9, <1>10, <1>11, <1>12, <1>13, <1>14
     DEF Call

\* So does every step: a sweeper can only come to its end.
LEMMA NextSole ==
    ASSUME OneCaller
    PROVE  TypeInv /\ SoleInv /\ [Next]_vars => SoleInv'
<1> SUFFICES ASSUME TypeInv, SoleInv, [Next]_vars PROVE SoleInv'
  OBVIOUS
<1>1. ASSUME NEW c \in Caller, Start(c) \/ Stop(c) \/ Cancel(c) \/ Call(c) PROVE SoleInv'
  BY <1>1, OneCaller, CallSole
<1>2. ASSUME NEW i \in Sweeper, Loop(i) PROVE SoleInv'
  <2>1. \A j \in Sweeper : Alive(j)' => Alive(j)
    BY <1>2, LoopStep DEF TypeInv, TypeOK, Alive
  <2> QED
    BY <1>2, <2>1, LoopStep DEF TypeInv, SoleInv, NoneAlive, calls
<1>3. CASE UNCHANGED vars
  BY <1>3 DEF vars, calls, SoleInv, NoneAlive, Alive
<1> QED
  BY <1>1, <1>2, <1>3 DEF Next

\* It holds in every reachable state.
LEMMA SoleInvariant ==
    ASSUME OneCaller
    PROVE  Spec => [](TypeInv /\ SoleInv)
<1>1. Init => SoleInv
  BY DEF Init, SoleInv, NoneAlive, Alive
<1>2. TypeInv /\ SoleInv /\ [Next]_vars => (TypeInv /\ SoleInv)'
  BY OneCaller, NextType, NextSole
<1> QED
  BY <1>1, <1>2, InitType, PTL DEF Spec

\* However often it is started, stopped, given up on and cancelled, a store never
\* has two sweepers.
THEOREM OneSweeper ==
    ASSUME OneCaller
    PROVE  Spec => []AtMostOne
<1>1. SoleInv => AtMostOne
  BY DEF SoleInv, AtMostOne
<1> QED
  BY <1>1, OneCaller, SoleInvariant, PTL

\* A stop_ttl_sweeper that returns True leaves no sweeper alive.
THEOREM SuccessfulStops ==
    ASSUME OneCaller
    PROVE  Spec => StopMeansStopped
<1> DEFINE Promise == \A c \in Caller :
               pc[c] # "idle" /\ pc'[c] = "idle" /\ reply'[c] = "stopped" =>
                   \A i \in Sweeper : ~ Alive(i)
<1>1. ASSUME TypeInv, SoleInv, [Next]_vars PROVE [Promise]_vars
  <2> SUFFICES ASSUME NEW c \in Caller,
                      pc[c] # "idle", pc'[c] = "idle", reply'[c] = "stopped"
               PROVE  NoneAlive
    BY DEF NoneAlive
  <2>1. ASSUME NEW i \in Sweeper, Loop(i) PROVE FALSE
    BY <1>1, <2>1, LoopStep DEF TypeInv
  <2>2. ~ UNCHANGED vars
    BY DEF vars
  <2>3. PICK d \in Caller : Start(d) \/ Stop(d) \/ Cancel(d) \/ Call(d)
    BY <1>1, <2>1, <2>2 DEF Next
  <2>4. c = d
    BY <2>3, OneCaller DEF OneCaller
  <2>5. StopAlive(c) \/ StopForget(c)
    BY <1>1, <2>3, <2>4
       DEF TypeInv, TypeOK, Labels, Start, Stop, Cancel, Call, StartAlive, StartClear, StartTrack,
           StartRun, StartHook, StopAlive, StopSet, StopJoin, StopWait, StopVerify, StopForget,
           Goto, Return
  <2>6. CASE StopAlive(c)
    BY <1>1, <2>6 DEF StopAlive, TypeInv, TypeOK, SoleInv, NoneAlive, Goto, Return
  <2>7. CASE StopForget(c)
    BY <1>1, <2>7 DEF StopForget, SoleInv
  <2> QED
    BY <2>5, <2>6, <2>7
<1> QED
  BY <1>1, OneCaller, SoleInvariant, PTL DEF Spec, StopMeansStopped
=============================================================================
