----------------------------- MODULE TtlSweeper -----------------------------
(***************************************************************************)
(* The sweeper thread of a SurrealStore: starting it, stopping it with or  *)
(* without a time-out, and cancelling the future that start returns.       *)
(* None of this takes a lock; each read or write of the object's           *)
(* attributes and of the stop event is a step, so that several callers can *)
(* be put side by side.  A sweep is one step long and says nothing of what *)
(* it deletes: see SurrealStore for that.                                  *)
(***************************************************************************)
EXTENDS Naturals

CONSTANTS Caller,    \* threads that start and stop the sweeper
          MaxStarts, \* bound: sweeper threads created
          None       \* an attribute that holds None

Sweeper == 1 .. MaxStarts

ASSUME MaxStartsAssumption == MaxStarts \in Nat
ASSUME NoneAssumption      == None \notin Sweeper

VARIABLES
    stop_event, \* _ttl_stop_event is set
    thread,     \* _ttl_sweeper_thread: a sweeper, or None
    future,     \* _ttl_sweeper_future, by the sweeper it was made for
    sweeper,    \* where each sweeper thread is
    cancelled,  \* sweepers whose future is cancelled
    hooked,     \* sweepers whose future tells the stop event
    handed,     \* sweepers whose future some caller has been given
    pc,         \* where each caller is in its call
    mine,       \* the sweeper each caller has created, or waits for
    timed,      \* whether the stop in progress has a time-out
    reply,      \* how each caller's last call ended
    wanted      \* a start returned, and neither stop nor cancellation followed

calls == <<mine, timed, reply>>
vars  == <<stop_event, thread, future, sweeper, cancelled, hooked, handed, pc, mine, timed,
           reply, wanted>>

Alive(i) == sweeper[i] \in {"top", "waiting", "sweeping"}

Init ==
    /\ stop_event = FALSE
    /\ thread = None
    /\ future = None
    /\ sweeper = [i \in Sweeper |-> "unborn"]
    /\ cancelled = {} /\ hooked = {} /\ handed = {}
    /\ pc = [c \in Caller |-> "idle"]
    /\ mine = [c \in Caller |-> None]
    /\ timed = [c \in Caller |-> FALSE]
    /\ reply = [c \in Caller |-> "none"]
    /\ wanted = FALSE

Goto(c, label) == pc' = [pc EXCEPT ![c] = label]
Return(c, how) == Goto(c, "idle") /\ reply' = [reply EXCEPT ![c] = how]

-----------------------------------------------------------------------------
(* start_ttl_sweeper *)

Unborn == {i \in Sweeper : sweeper[i] = "unborn"}

\* Starting a sweeper without a look at the last one.
StartUnchecked(c) ==
    /\ pc[c] = "idle" /\ Unborn # {}
    /\ Goto(c, "start_clear")
    /\ UNCHANGED <<stop_event, thread, future, sweeper, cancelled, hooked, handed, calls, wanted>>

Start(c) ==
    /\ pc[c] = "idle" /\ Unborn # {}
    /\ Goto(c, IF thread = None THEN "start_clear" ELSE "start_alive")
    /\ UNCHANGED <<stop_event, thread, future, sweeper, cancelled, hooked, handed, calls, wanted>>

\* The attribute is read again; another caller may have set it to None.
StartAlive(c) ==
    /\ pc[c] = "start_alive"
    /\ IF thread = None
       THEN Return(c, "raised") /\ UNCHANGED <<handed, wanted>>
       ELSE IF Alive(thread)
       THEN /\ Return(c, "future")
            /\ handed' = handed \cup {future}
            /\ wanted' = TRUE
       ELSE Goto(c, "start_clear") /\ UNCHANGED <<reply, handed, wanted>>
    /\ UNCHANGED <<stop_event, thread, future, sweeper, cancelled, hooked, mine, timed>>

StartClear(c) ==
    /\ pc[c] = "start_clear"
    /\ stop_event' = FALSE
    /\ Goto(c, "start_track")
    /\ UNCHANGED <<thread, future, sweeper, cancelled, hooked, handed, calls, wanted>>

StartTrack(c) == \E i \in Unborn :
    /\ pc[c] = "start_track"
    /\ \A j \in Unborn : i <= j
    /\ thread' = i /\ future' = i
    /\ mine' = [mine EXCEPT ![c] = i]
    /\ sweeper' = [sweeper EXCEPT ![i] = "created"]
    /\ Goto(c, "start_run")
    /\ UNCHANGED <<stop_event, cancelled, hooked, handed, timed, reply, wanted>>

StartRun(c) ==
    /\ pc[c] = "start_run"
    /\ sweeper' = [sweeper EXCEPT ![mine[c]] = "top"]
    /\ Goto(c, "start_hook")
    /\ UNCHANGED <<stop_event, thread, future, cancelled, hooked, handed, calls, wanted>>

\* A future that tells nobody it was cancelled.
StartNoHook(c) ==
    /\ pc[c] = "start_hook"
    /\ handed' = handed \cup {mine[c]}
    /\ wanted' = TRUE
    /\ Return(c, "future")
    /\ UNCHANGED <<stop_event, thread, future, sweeper, cancelled, hooked, mine, timed>>

\* The callback runs at once if the future has been cancelled by now.
StartHook(c) ==
    /\ pc[c] = "start_hook"
    /\ hooked' = hooked \cup {mine[c]}
    /\ stop_event' = (stop_event \/ mine[c] \in cancelled)
    /\ handed' = handed \cup {mine[c]}
    /\ wanted' = TRUE
    /\ Return(c, "future")
    /\ UNCHANGED <<thread, future, sweeper, cancelled, mine, timed>>

-----------------------------------------------------------------------------
(* stop_ttl_sweeper *)

Stop(c) == \E t \in BOOLEAN :
    /\ pc[c] = "idle"
    /\ timed' = [timed EXCEPT ![c] = t]
    /\ wanted' = FALSE
    /\ IF thread = None
       THEN Return(c, "stopped")
       ELSE Goto(c, "stop_alive") /\ UNCHANGED reply
    /\ UNCHANGED <<stop_event, thread, future, sweeper, cancelled, hooked, handed, mine>>

StopAlive(c) ==
    /\ pc[c] = "stop_alive"
    /\ IF thread = None THEN Return(c, "raised")
       ELSE IF Alive(thread) THEN Goto(c, "stop_set") /\ UNCHANGED reply
       ELSE Return(c, "stopped")
    /\ UNCHANGED <<stop_event, thread, future, sweeper, cancelled, hooked, handed, mine, timed,
                   wanted>>

StopSet(c) ==
    /\ pc[c] = "stop_set"
    /\ stop_event' = TRUE
    /\ Goto(c, "stop_join")
    /\ UNCHANGED <<thread, future, sweeper, cancelled, hooked, handed, calls, wanted>>

StopJoin(c) ==
    /\ pc[c] = "stop_join"
    /\ IF thread = None THEN Return(c, "raised") /\ UNCHANGED mine
       ELSE /\ mine' = [mine EXCEPT ![c] = thread]
            /\ Goto(c, "stop_wait")
            /\ UNCHANGED reply
    /\ UNCHANGED <<stop_event, thread, future, sweeper, cancelled, hooked, handed, timed, wanted>>

\* join ends with the thread, or when its time is up.
StopWait(c) ==
    /\ pc[c] = "stop_wait"
    /\ timed[c] \/ ~ Alive(mine[c])
    /\ Goto(c, "stop_verify")
    /\ UNCHANGED <<stop_event, thread, future, sweeper, cancelled, hooked, handed, calls, wanted>>

\* Taking the end of join for the end of the thread.
StopUnverified(c) ==
    /\ pc[c] = "stop_verify"
    /\ Goto(c, "stop_forget")
    /\ UNCHANGED <<stop_event, thread, future, sweeper, cancelled, hooked, handed, calls, wanted>>

StopVerify(c) ==
    /\ pc[c] = "stop_verify"
    /\ IF thread = None THEN Return(c, "raised")
       ELSE IF Alive(thread) THEN Return(c, "timed out")
       ELSE Goto(c, "stop_forget") /\ UNCHANGED reply
    /\ UNCHANGED <<stop_event, thread, future, sweeper, cancelled, hooked, handed, mine, timed,
                   wanted>>

\* Forgetting the future and not the thread.
StopForgetFuture(c) ==
    /\ pc[c] = "stop_forget"
    /\ future' = None
    /\ Return(c, "stopped")
    /\ UNCHANGED <<stop_event, thread, sweeper, cancelled, hooked, handed, mine, timed, wanted>>

StopForget(c) ==
    /\ pc[c] = "stop_forget"
    /\ thread' = None
    /\ Return(c, "stopped")
    /\ UNCHANGED <<stop_event, future, sweeper, cancelled, hooked, handed, mine, timed, wanted>>

\* A future is done when its sweeper is, and then cannot be cancelled any more.
Cancel(c) == \E i \in handed \ cancelled :
    /\ pc[c] = "idle"
    /\ sweeper[i] # "done"
    /\ cancelled' = cancelled \cup {i}
    /\ stop_event' = (stop_event \/ i \in hooked)
    /\ wanted' = FALSE
    /\ UNCHANGED <<thread, future, sweeper, hooked, handed, pc, calls>>

-----------------------------------------------------------------------------
(* _sweep_loop *)

Move(i, from, to) ==
    /\ sweeper[i] = from
    /\ sweeper' = [sweeper EXCEPT ![i] = to]
    /\ UNCHANGED <<stop_event, thread, future, cancelled, hooked, handed, pc, calls, wanted>>

LoopHead(i) == Move(i, "top", IF stop_event THEN "done" ELSE "waiting")

\* Whether the event or the interval ends the wait.
Woken(i)    == stop_event /\ Move(i, "waiting", "done")
Interval(i) == ~ stop_event /\ Move(i, "waiting", "sweeping")

\* A sweep that raises and takes the loop with it.
SweptOrDead(i) == Move(i, "sweeping", "top") \/ Move(i, "sweeping", "done")

\* A sweep that raises is logged, and the loop goes on.
Swept(i) == Move(i, "sweeping", "top")

-----------------------------------------------------------------------------

Call(c) ==
    \/ StartAlive(c) \/ StartClear(c) \/ StartTrack(c) \/ StartRun(c) \/ StartHook(c)
    \/ StopAlive(c) \/ StopSet(c) \/ StopJoin(c) \/ StopWait(c) \/ StopVerify(c)
    \/ StopForget(c)

Loop(i) == LoopHead(i) \/ Woken(i) \/ Interval(i) \/ Swept(i)

Next ==
    \/ \E c \in Caller : Start(c) \/ Stop(c) \/ Cancel(c) \/ Call(c)
    \/ \E i \in Sweeper : Loop(i)

\* Threads that can run do.  Nobody has to start, stop or cancel anything.
Spec == /\ Init /\ [][Next]_vars
        /\ \A c \in Caller : WF_vars(Call(c))
        /\ \A i \in Sweeper : WF_vars(Loop(i))

-----------------------------------------------------------------------------
(* Properties.  They are claims about one caller, or callers that take turns. *)

Labels ==
    {"idle", "start_alive", "start_clear", "start_track", "start_run", "start_hook",
     "stop_alive", "stop_set", "stop_join", "stop_wait", "stop_verify", "stop_forget"}

\* Every variable keeps its type, and a tracked thread has a future, as
\* start_ttl_sweeper asserts before it returns that of a running thread.
TypeOK ==
    /\ stop_event \in BOOLEAN
    /\ thread \in Sweeper \cup {None}
    /\ future \in Sweeper \cup {None}
    /\ thread # None => future # None
    /\ sweeper \in [Sweeper -> {"unborn", "created", "top", "waiting", "sweeping", "done"}]
    /\ cancelled \subseteq Sweeper /\ hooked \subseteq Sweeper /\ handed \subseteq Sweeper
    /\ pc \in [Caller -> Labels]
    /\ mine \in [Caller -> Sweeper \cup {None}]
    /\ timed \in [Caller -> BOOLEAN]
    /\ reply \in [Caller -> {"none", "future", "stopped", "timed out", "raised"}]
    /\ wanted \in BOOLEAN

\* However often it is started, stopped with or without patience, cancelled and
\* started again, a store never has two sweepers at work.
AtMostOne == \A i, j \in Sweeper : Alive(i) /\ Alive(j) => i = j

\* A stop that returns True leaves no sweeper alive, one it gave up on included.
StopMeansStopped ==
    [][\A c \in Caller :
          pc[c] # "idle" /\ pc'[c] = "idle" /\ reply'[c] = "stopped" =>
              \A i \in Sweeper : ~ Alive(i)]_vars

\* A sweeper that was told to stop, by a stop that may have given up waiting or by a
\* cancelled future, stops, whatever is asked for in the meantime.
Told(i) ==
    \/ i \in cancelled
    \/ thread = i /\ \E c \in Caller : pc[c] \in {"stop_join", "stop_wait"}

StopsAreHeeded == \A i \in Sweeper : Told(i) ~> ~ Alive(i)

\* The tracked sweeper sweeps again and again, sweeps that raise notwithstanding,
\* until the stop event is set.
SweepsRecur ==
    \A i \in Sweeper :
        thread = i /\ (\A c \in Caller : pc[c] = "idle") /\ ~ stop_event
            ~> sweeper[i] = "sweeping" \/ stop_event

\* "Periodically delete expired store items": once start_ttl_sweeper has returned,
\* and as long as neither a stop nor a cancellation follows, there is a sweeper that
\* has not been told to stop.
StartMeansSweeping == wanted => ~ stop_event /\ \E i \in Sweeper : Alive(i)
=============================================================================
