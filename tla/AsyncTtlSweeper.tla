-------------------------- MODULE AsyncTtlSweeper --------------------------
(***************************************************************************)
(* The sweeper task of an AsyncSurrealStore.  A coroutine of the loop      *)
(* gives way only where it awaits, so start_ttl_sweeper is one step and    *)
(* stop_ttl_sweeper two: what comes before its await, and what comes       *)
(* after.  A stop whose time runs out, or whose caller is cancelled, hands *)
(* the cancellation on to the sweeper, which takes it for a reason to end  *)
(* and returns as if nothing had happened; only a sweeper that has not     *)
(* begun yet ends as cancelled.                                            *)
(***************************************************************************)
EXTENDS Naturals

CONSTANTS Caller,    \* tasks that start and stop the sweeper
          MaxStarts, \* bound: sweeper tasks created
          None       \* an attribute that holds None

Sweeper == 1 .. MaxStarts

ASSUME MaxStartsAssumption == MaxStarts \in Nat
ASSUME NoneAssumption      == None \notin Sweeper

VARIABLES
    stop_event, \* _ttl_stop_event is set
    task,       \* _ttl_sweeper_task: a sweeper, or None
    sweeper,    \* where each sweeper task is
    cancelling, \* sweepers with a cancellation to be delivered
    pc,         \* where each caller is: idle, in a stop, or in one whose time is up
    awaited,    \* the sweeper each caller waits for
    timed,      \* whether the stop in progress has a time-out
    reply       \* how each caller's last call ended

vars == <<stop_event, task, sweeper, cancelling, pc, awaited, timed, reply>>

Done(i) == sweeper[i] \in {"returned", "cancelled"}
Live(i) == sweeper[i] # "unborn" /\ ~ Done(i)
Unborn  == {i \in Sweeper : sweeper[i] = "unborn"}

Init ==
    /\ stop_event = FALSE
    /\ task = None
    /\ sweeper = [i \in Sweeper |-> "unborn"]
    /\ cancelling = {}
    /\ pc = [c \in Caller |-> "idle"]
    /\ awaited = [c \in Caller |-> None]
    /\ timed = [c \in Caller |-> FALSE]
    /\ reply = [c \in Caller |-> "none"]

Return(c, how) ==
    /\ pc' = [pc EXCEPT ![c] = "idle"]
    /\ reply' = [reply EXCEPT ![c] = how]
    /\ awaited' = [awaited EXCEPT ![c] = None]

-----------------------------------------------------------------------------
(* start_ttl_sweeper *)

Create(c) == \E i \in Unborn :
    /\ \A j \in Unborn : i <= j
    /\ stop_event' = FALSE
    /\ task' = i
    /\ sweeper' = [sweeper EXCEPT ![i] = "created"]
    /\ Return(c, "task")

\* Starting a sweeper without a look at the last one.
StartUnchecked(c) ==
    /\ pc[c] = "idle"
    /\ Create(c)
    /\ UNCHANGED <<cancelling, timed>>

Start(c) ==
    /\ pc[c] = "idle"
    /\ IF task # None /\ ~ Done(task)
       THEN Return(c, "task") /\ UNCHANGED <<stop_event, task, sweeper>>
       ELSE Create(c)
    /\ UNCHANGED <<cancelling, timed>>

-----------------------------------------------------------------------------
(* stop_ttl_sweeper *)

\* Waiting for the sweeper without asking whether there is one.
StopUnchecked(c) == \E t \in BOOLEAN :
    /\ pc[c] = "idle"
    /\ timed' = [timed EXCEPT ![c] = t]
    /\ stop_event' = TRUE
    /\ pc' = [pc EXCEPT ![c] = "stopping"]
    /\ awaited' = [awaited EXCEPT ![c] = task]
    /\ UNCHANGED <<reply, task, sweeper, cancelling>>

Stop(c) == \E t \in BOOLEAN :
    /\ pc[c] = "idle"
    /\ timed' = [timed EXCEPT ![c] = t]
    /\ IF task = None \/ Done(task)
       THEN Return(c, "stopped") /\ UNCHANGED stop_event
       ELSE /\ stop_event' = TRUE
            /\ pc' = [pc EXCEPT ![c] = "stopping"]
            /\ awaited' = [awaited EXCEPT ![c] = task]
            /\ UNCHANGED reply
    /\ UNCHANGED <<task, sweeper, cancelling>>

\* Time is up for good: the call gives up on the sweeper without another look.
TimeOutAtOnce(c) ==
    /\ pc[c] = "stopping" /\ timed[c] /\ ~ Done(awaited[c])
    /\ task' = None
    /\ Return(c, "stopped")
    /\ UNCHANGED <<stop_event, sweeper, cancelling, timed>>

\* wait_for cancels what it waits for when its time is up, and waits on.
TimeOut(c) ==
    /\ pc[c] = "stopping" /\ timed[c] /\ ~ Done(awaited[c])
    /\ pc' = [pc EXCEPT ![c] = "expiring"]
    /\ cancelling' = cancelling \cup {awaited[c]}
    /\ UNCHANGED <<stop_event, task, sweeper, awaited, timed, reply>>

\* So does an await whose own task is cancelled.
CancelStop(c) ==
    /\ pc[c] # "idle" /\ ~ Done(awaited[c])
    /\ cancelling' = cancelling \cup {awaited[c]}
    /\ UNCHANGED <<stop_event, task, sweeper, pc, awaited, timed, reply>>

\* The sweeper has ended.  If it ended as cancelled, wait_for turns that into a
\* time-out when it is its own doing, and otherwise it is the caller's to bear.
StopReturns(c) ==
    /\ pc[c] # "idle" /\ Done(awaited[c])
    /\ IF sweeper[awaited[c]] = "returned"
       THEN task' = None /\ Return(c, "stopped")
       ELSE /\ Return(c, IF pc[c] = "expiring" THEN "timed out" ELSE "cancelled")
            /\ UNCHANGED task
    /\ UNCHANGED <<stop_event, sweeper, cancelling, timed>>

\* __aexit__ sets the event and does not wait.
Exit(c) ==
    /\ pc[c] = "idle" /\ task # None
    /\ stop_event' = TRUE
    /\ UNCHANGED <<task, sweeper, cancelling, pc, awaited, timed, reply>>

\* The task that start_ttl_sweeper returns can be cancelled.
CancelTask(c) == \E i \in Sweeper :
    /\ pc[c] = "idle" /\ Live(i)
    /\ cancelling' = cancelling \cup {i}
    /\ UNCHANGED <<stop_event, task, sweeper, pc, awaited, timed, reply>>

-----------------------------------------------------------------------------
(* _sweep_loop *)

Move(i, from, to) ==
    /\ sweeper[i] \in from
    /\ sweeper' = [sweeper EXCEPT ![i] = to]
    /\ UNCHANGED <<stop_event, task, cancelling, pc, awaited, timed, reply>>

\* A task that begins, and one that is done with a sweep, look at the event.
LoopHead(i) ==
    /\ i \notin cancelling
    /\ Move(i, {"created", "swept"}, IF stop_event THEN "returned" ELSE "waiting")

Woken(i)    == i \notin cancelling /\ stop_event /\ Move(i, {"waiting"}, "returned")
Interval(i) == i \notin cancelling /\ ~ stop_event /\ Move(i, {"waiting"}, "sweeping")

\* A sweep that raises and takes the loop with it.
SweptOrDead(i) ==
    i \notin cancelling /\ (Move(i, {"sweeping"}, "swept") \/ Move(i, {"sweeping"}, "returned"))

\* A sweep that raises is logged, and the loop goes on.
Swept(i) == i \notin cancelling /\ Move(i, {"sweeping"}, "swept")

\* A loop that logs a cancellation like any other exception and goes on.
Outlived(i) ==
    /\ i \in cancelling /\ sweeper[i] \in {"waiting", "sweeping"}
    /\ sweeper' = [sweeper EXCEPT ![i] = "swept"]
    /\ cancelling' = cancelling \ {i}
    /\ UNCHANGED <<stop_event, task, pc, awaited, timed, reply>>

\* The cancellation arrives: in the wait, or in the middle of a sweep.
Cancelled(i) ==
    /\ i \in cancelling
    /\ \/ Move(i, {"waiting", "sweeping", "swept"}, "returned")
       \/ Move(i, {"created"}, "cancelled")

-----------------------------------------------------------------------------

Loop(i) == LoopHead(i) \/ Woken(i) \/ Interval(i) \/ Swept(i) \/ Cancelled(i)

Next ==
    \/ \E c \in Caller :
          \/ Start(c) \/ Stop(c) \/ TimeOut(c) \/ CancelStop(c) \/ StopReturns(c)
          \/ Exit(c) \/ CancelTask(c)
    \/ \E i \in Sweeper : Loop(i)

\* The loop runs the tasks that can run.
Spec == /\ Init /\ [][Next]_vars
        /\ \A c \in Caller : WF_vars(StopReturns(c))
        /\ \A i \in Sweeper : WF_vars(Loop(i))

-----------------------------------------------------------------------------
(* Properties.  They are claims about one caller, or callers that take turns. *)

\* Every variable keeps its type, and a stop in progress waits for a sweeper.
TypeOK ==
    /\ stop_event \in BOOLEAN
    /\ task \in Sweeper \cup {None}
    /\ sweeper \in [Sweeper -> {"unborn", "created", "waiting", "sweeping", "swept",
                                "returned", "cancelled"}]
    /\ cancelling \subseteq Sweeper
    /\ pc \in [Caller -> {"idle", "stopping", "expiring"}]
    /\ awaited \in [Caller -> Sweeper \cup {None}]
    /\ \A c \in Caller : pc[c] = "idle" <=> awaited[c] = None
    /\ timed \in [Caller -> BOOLEAN]
    /\ reply \in [Caller -> {"none", "task", "stopped", "timed out", "cancelled"}]

\* However often it is started, stopped, timed out, left and cancelled, a store
\* never has two sweepers.
AtMostOne == \A i, j \in Sweeper : Live(i) /\ Live(j) => i = j

\* A stop that returns, whether it waited, timed out or was cancelled, leaves no
\* sweeper behind.
StopMeansStopped ==
    [][\A c \in Caller :
          pc[c] # "idle" /\ pc'[c] = "idle" => \A i \in Sweeper : ~ Live(i)]_vars

\* A sweeper that was told to stop does: by a stop, by leaving the context, or by
\* cancelling its task.
Told(i) == i \in cancelling \/ (stop_event /\ task = i)

StopsAreHeeded == \A i \in Sweeper : Told(i) ~> ~ Live(i)

\* The tracked sweeper sweeps again and again until it is told to stop.
SweepsRecur ==
    \A i \in Sweeper : task = i /\ ~ Told(i) ~> sweeper[i] = "sweeping" \/ Told(i)
=============================================================================
