----------------------- MODULE AsyncTtlSweeperProofs -----------------------
(***************************************************************************)
(* What holds of the sweeper task for any number of starts, stops,         *)
(* time-outs and cancellations: its types for any number of callers, and   *)
(* for callers who take turns that there is never a second sweeper and     *)
(* that no stop returns before its sweeper has ended.                      *)
(***************************************************************************)
EXTENDS AsyncTtlSweeper, TLAPS

-----------------------------------------------------------------------------
(* Types *)

CallerStep(c) ==
    \/ Start(c) \/ Stop(c) \/ TimeOut(c) \/ CancelStop(c) \/ StopReturns(c)
    \/ Exit(c) \/ CancelTask(c)

\* Creating a sweeper.
LEMMA CreateStep ==
    ASSUME TypeOK, NEW c \in Caller, Create(c)
    PROVE  \E i \in Sweeper :
              /\ sweeper[i] = "unborn"
              /\ task' = i
              /\ sweeper' = [sweeper EXCEPT ![i] = "created"]
              /\ stop_event' = FALSE
              /\ Return(c, "task")
BY DEF Create, Unborn

\* A call that returns keeps the callers' types.
LEMMA ReturnType ==
    ASSUME TypeOK, NEW c \in Caller, NEW how \in {"task", "stopped", "timed out", "cancelled"},
           Return(c, how)
    PROVE  /\ pc' \in [Caller -> {"idle", "stopping", "expiring"}]
           /\ awaited' \in [Caller -> Sweeper \cup {None}]
           /\ reply' \in [Caller -> {"none", "task", "stopped", "timed out", "cancelled"}]
           /\ \A d \in Caller : pc'[d] = "idle" <=> awaited'[d] = None
BY DEF TypeOK, Return

\* A step of start or stop keeps the types.
LEMMA CallType ==
    ASSUME TypeOK, NEW c \in Caller, CallerStep(c)
    PROVE  TypeOK'
<1>1. CASE Start(c) /\ ~ Create(c)
  BY <1>1, ReturnType DEF Start, TypeOK
<1>2. CASE Start(c) /\ Create(c)
  <2>1. PICK i \in Sweeper :
           task' = i /\ sweeper' = [sweeper EXCEPT ![i] = "created"] /\ stop_event' = FALSE
    BY <1>2, CreateStep
  <2>2. Return(c, "task") /\ UNCHANGED <<cancelling, timed>>
    BY <1>2, CreateStep DEF Start
  <2> QED
    BY <2>1, <2>2, ReturnType DEF TypeOK
<1>3. CASE Stop(c)
  <2>1. PICK t \in BOOLEAN : timed' = [timed EXCEPT ![c] = t]
    BY <1>3 DEF Stop
  <2>2. timed' \in [Caller -> BOOLEAN]
    BY <2>1, Zenon DEF TypeOK
  <2>3. UNCHANGED <<task, sweeper, cancelling>>
    BY <1>3 DEF Stop
  <2>4. CASE Return(c, "stopped") /\ UNCHANGED stop_event
    BY <2>2, <2>3, <2>4, ReturnType DEF TypeOK
  <2>5. CASE ~ (Return(c, "stopped") /\ UNCHANGED stop_event)
    <3>1. /\ task # None
          /\ stop_event' = TRUE
          /\ pc' = [pc EXCEPT ![c] = "stopping"]
          /\ awaited' = [awaited EXCEPT ![c] = task]
          /\ UNCHANGED reply
      BY <1>3, <2>5 DEF Stop
    <3> QED
      BY <2>2, <2>3, <3>1 DEF TypeOK
  <2> QED
    BY <2>4, <2>5
<1>4. CASE TimeOut(c)
  BY <1>4, NoneAssumption DEF TimeOut, TypeOK
<1>5. CASE CancelStop(c)
  BY <1>5, NoneAssumption DEF CancelStop, TypeOK
<1>6. CASE StopReturns(c)
  <2>1. UNCHANGED <<stop_event, sweeper, cancelling, timed>>
    BY <1>6 DEF StopReturns
  <2>2. task' \in {task, None}
    BY <1>6 DEF StopReturns
  <2>3. Return(c, "stopped") \/ Return(c, "timed out") \/ Return(c, "cancelled")
    BY <1>6 DEF StopReturns
  <2> QED
    BY <2>1, <2>2, <2>3, ReturnType DEF TypeOK
<1>7. CASE Exit(c)
  BY <1>7 DEF Exit, TypeOK
<1>8. CASE CancelTask(c)
  BY <1>8 DEF CancelTask, TypeOK
<1> QED
  BY <1>1, <1>2, <1>3, <1>4, <1>5, <1>6, <1>7, <1>8 DEF CallerStep

\* A step of a sweeper changes its own place in the loop and nothing else, and only
\* a live one takes one.
LEMMA LoopStep ==
    ASSUME TypeOK, NEW i \in Sweeper, Loop(i)
    PROVE  /\ Live(i)
           /\ \E to \in {"waiting", "sweeping", "swept", "returned", "cancelled"} :
                 sweeper' = [sweeper EXCEPT ![i] = to]
           /\ UNCHANGED <<stop_event, task, cancelling, pc, awaited, timed, reply>>
BY DEF Loop, LoopHead, Woken, Interval, Swept, Cancelled, Move, Live, Done, TypeOK

\* Every step keeps the types.
LEMMA NextType == TypeOK /\ [Next]_vars => TypeOK'
<1> SUFFICES ASSUME TypeOK, [Next]_vars PROVE TypeOK'
  OBVIOUS
<1>1. ASSUME NEW c \in Caller, CallerStep(c) PROVE TypeOK'
  BY <1>1, CallType
<1>2. ASSUME NEW i \in Sweeper, Loop(i) PROVE TypeOK'
  BY <1>2, LoopStep DEF TypeOK
<1>3. CASE UNCHANGED vars
  BY <1>3 DEF vars, TypeOK
<1> QED
  BY <1>1, <1>2, <1>3 DEF Next, CallerStep

\* Every reachable state has its type, and a stop in progress waits for a sweeper,
\* for any number of callers at once.
THEOREM TypeInvariant == Spec => []TypeOK
<1>1. Init => TypeOK
  BY DEF Init, TypeOK
<1> QED
  BY <1>1, NextType, PTL DEF Spec

-----------------------------------------------------------------------------
(* One sweeper *)

\* Callers that take turns.
OneCaller == \A c, d \in Caller : c = d

\* AtMostOne is not inductive: what is alive has to be what the store tracks, and
\* what a stop waits for too, so that forgetting the one is forgetting the other.
SoleInv ==
    /\ \A i \in Sweeper : Live(i) => task = i
    /\ \A c \in Caller : pc[c] # "idle" => awaited[c] = task

\* A start, a stop or a cancellation keeps it.
LEMMA CallSole ==
    ASSUME OneCaller, TypeOK, SoleInv, NEW c \in Caller, CallerStep(c)
    PROVE  SoleInv'
<1>1. CASE Start(c) /\ ~ Create(c)
  <2>1. pc' = [pc EXCEPT ![c] = "idle"] /\ UNCHANGED <<task, sweeper>>
    BY <1>1 DEF Start, Return
  <2>2. \A d \in Caller : pc'[d] = "idle"
    BY <2>1 DEF OneCaller, TypeOK
  <2> QED
    BY <2>1, <2>2 DEF SoleInv, Live, Done
<1>2. CASE Start(c) /\ Create(c)
  <2>1. PICK i \in Sweeper :
           /\ sweeper[i] = "unborn"
           /\ task' = i
           /\ sweeper' = [sweeper EXCEPT ![i] = "created"]
    BY <1>2, CreateStep
  <2>2. pc' = [pc EXCEPT ![c] = "idle"]
    BY <1>2, CreateStep DEF Return
  <2>3. \A d \in Caller : pc'[d] = "idle"
    BY <2>2 DEF OneCaller, TypeOK
  <2>5. CASE task # None /\ ~ Done(task)
    <3>1. sweeper' = sweeper
      BY <1>2, <2>5 DEF Start
    <3>2. sweeper'[i] = "created"
      BY <2>1 DEF TypeOK
    <3> QED
      BY <2>1, <3>1, <3>2
  <2>6. CASE task = None \/ Done(task)
    <3>1. \A j \in Sweeper : ~ Live(j)
      BY <2>6, NoneAssumption DEF SoleInv, Live
    <3> QED
      BY <2>1, <2>3, <3>1 DEF SoleInv, TypeOK, Live, Done
  <2> QED
    BY <2>5, <2>6
<1>3. CASE Stop(c)
  <2>1. UNCHANGED <<task, sweeper>>
    BY <1>3 DEF Stop
  <2>2. \/ pc' = [pc EXCEPT ![c] = "idle"]
        \/ awaited' = [awaited EXCEPT ![c] = task]
    BY <1>3 DEF Stop, Return
  <2>3. pc'[c] # "idle" => awaited'[c] = task
    BY <2>2 DEF TypeOK
  <2>4. \A d \in Caller : pc'[d] # "idle" => awaited'[d] = task
    BY <2>3 DEF OneCaller
  <2> QED
    BY <2>1, <2>4 DEF SoleInv, Live, Done
<1>4. CASE TimeOut(c)
  BY <1>4 DEF TimeOut, SoleInv, TypeOK, Live, Done
<1>5. CASE CancelStop(c)
  BY <1>5 DEF CancelStop, SoleInv, Live, Done
<1>6. CASE StopReturns(c)
  <2>1. /\ pc[c] # "idle" /\ Done(awaited[c])
        /\ pc' = [pc EXCEPT ![c] = "idle"]
        /\ UNCHANGED sweeper
    BY <1>6 DEF StopReturns, Return
  <2>2. \A d \in Caller : pc'[d] = "idle"
    BY <2>1 DEF OneCaller, TypeOK
  <2>3. \A j \in Sweeper : ~ Live(j)
    BY <2>1 DEF SoleInv, Live
  <2> QED
    BY <2>1, <2>2, <2>3 DEF SoleInv, Live, Done
<1>7. CASE Exit(c)
  BY <1>7 DEF Exit, SoleInv, Live, Done
<1>8. CASE CancelTask(c)
  BY <1>8 DEF CancelTask, SoleInv, Live, Done
<1> QED
  BY <1>1, <1>2, <1>3, <1>4, <1>5, <1>6, <1>7, <1>8 DEF CallerStep

\* So does every step: a sweeper can only come to its end.
LEMMA NextSole ==
    ASSUME OneCaller
    PROVE  TypeOK /\ SoleInv /\ [Next]_vars => SoleInv'
<1> SUFFICES ASSUME TypeOK, SoleInv, [Next]_vars PROVE SoleInv'
  OBVIOUS
<1>1. ASSUME NEW c \in Caller, CallerStep(c) PROVE SoleInv'
  BY <1>1, OneCaller, CallSole
<1>2. ASSUME NEW i \in Sweeper, Loop(i) PROVE SoleInv'
  <2>1. \A j \in Sweeper : Live(j)' => Live(j)
    BY <1>2, LoopStep DEF TypeOK, Live, Done
  <2> QED
    BY <1>2, <2>1, LoopStep DEF SoleInv
<1>3. CASE UNCHANGED vars
  BY <1>3 DEF vars, SoleInv, Live, Done
<1> QED
  BY <1>1, <1>2, <1>3 DEF Next, CallerStep

\* It holds in every reachable state.
LEMMA SoleInvariant ==
    ASSUME OneCaller
    PROVE  Spec => [](TypeOK /\ SoleInv)
<1>1. Init => TypeOK /\ SoleInv
  BY DEF Init, TypeOK, SoleInv, Live, Done
<1>2. TypeOK /\ SoleInv /\ [Next]_vars => (TypeOK /\ SoleInv)'
  BY OneCaller, NextType, NextSole
<1> QED
  BY <1>1, <1>2, PTL DEF Spec

\* However often it is started, stopped, timed out, left and cancelled, a store
\* never has two sweepers.
THEOREM OneSweeper ==
    ASSUME OneCaller
    PROVE  Spec => []AtMostOne
<1>1. SoleInv => AtMostOne
  BY DEF SoleInv, AtMostOne
<1> QED
  BY <1>1, OneCaller, SoleInvariant, PTL

\* A stop_ttl_sweeper that returns, with whatever outcome, leaves no sweeper behind.
THEOREM StopsLeaveNone ==
    ASSUME OneCaller
    PROVE  Spec => StopMeansStopped
<1>1. ASSUME TypeOK, SoleInv, [Next]_vars
      PROVE  [\A c \in Caller :
                 pc[c] # "idle" /\ pc'[c] = "idle" => \A i \in Sweeper : ~ Live(i)]_vars
  <2> SUFFICES ASSUME NEW c \in Caller, pc[c] # "idle", pc'[c] = "idle",
                      NEW i \in Sweeper
               PROVE  ~ Live(i)
    OBVIOUS
  <2>1. ASSUME NEW j \in Sweeper, Loop(j) PROVE FALSE
    BY <1>1, <2>1, LoopStep
  <2>2. ~ UNCHANGED vars
    BY DEF vars
  <2>3. PICK d \in Caller : CallerStep(d)
    BY <1>1, <2>1, <2>2 DEF Next, CallerStep
  <2>4. c = d
    BY OneCaller DEF OneCaller
  <2>5. StopReturns(c)
    BY <1>1, <2>3, <2>4
       DEF CallerStep, TypeOK, Start, Stop, TimeOut, CancelStop, Exit, CancelTask
  <2> QED
    BY <1>1, <2>5 DEF StopReturns, SoleInv, Live
<1> QED
  BY <1>1, OneCaller, SoleInvariant, PTL DEF Spec, StopMeansStopped
=============================================================================
