---------------------------- MODULE RecurringTask ----------------------------
(***************************************************************************)
(* The loop under every service of the worker                              *)
(* (taktflow-worker/helpers/recurring-task.helper.ts): a timer, a run, and *)
(* the timer again.  The object keeps one timer, one promise and a flag;   *)
(* what is pending in Node and what is in progress are sets, which nothing *)
(* but the code keeps from having two members.                             *)
(*                                                                         *)
(* Callers start it when no stop is outstanding, as the worker does:       *)
(* Worker.start once at boot and Worker.stop on a signal.                  *)
(***************************************************************************)
EXTENDS Naturals

CONSTANTS
    Timers, Runs,   \* identities to tell timers, and promises of runs, apart
    Callers,        \* of stop
    None

ASSUME NoneAssumption == None \notin Timers \cup Runs

VARIABLES
    timer,      \* this.timer: it is not cleared when it fires
    active,     \* this.active
    stopped,
    pending,    \* timers that Node will fire
    running,    \* runs whose run() is in progress
    settled,    \* runs over, whose finally handler has not been called
    waiting     \* for each caller, the promise its stop awaits

vars == <<timer, active, stopped, pending, running, settled, waiting>>

TypeOK ==
    /\ timer \in Timers \cup {None}
    /\ active \in Runs \cup {None}
    /\ stopped \in BOOLEAN
    /\ pending \subseteq Timers
    /\ running \subseteq Runs
    /\ settled \subseteq Runs
    /\ waiting \in [Callers -> Runs \cup {None}]

Init ==
    /\ timer = None
    /\ active = None
    /\ stopped = TRUE
    /\ pending = {}
    /\ running = {}
    /\ settled = {}
    /\ waiting = [c \in Callers |-> None]

\* Identities nobody holds.
FreeTimers == Timers \ (pending \cup {timer})
FreeRuns   == Runs \ (running \cup settled \cup {active} \cup {waiting[c] : c \in Callers})

\* this.timer = setTimeout(...)
Schedule ==
    \E t \in FreeTimers :
        /\ timer' = t
        /\ pending' = pending \cup {t}

StartsNow == stopped

Start ==
    /\ \A c \in Callers : waiting[c] = None
    /\ StartsNow
    /\ stopped' = FALSE
    /\ Schedule
    /\ UNCHANGED <<active, running, settled, waiting>>

\* The timer calls execute(), whose run starts at once.
Fire(t) ==
    /\ t \in pending
    /\ pending' = pending \ {t}
    /\ \E r \in FreeRuns :
        /\ active' = r
        /\ running' = running \cup {r}
    /\ UNCHANGED <<timer, stopped, settled, waiting>>

\* run() resolves, or rejects and onError logs it: execute() settles either way.
RunEnds(r) ==
    /\ r \in running
    /\ running' = running \ {r}
    /\ settled' = settled \cup {r}
    /\ UNCHANGED <<timer, active, stopped, pending, waiting>>

\* Mutant: the next timer is set once, by start.
ScheduleNever == UNCHANGED <<timer, pending>>

ScheduleUnlessStopped == IF stopped THEN UNCHANGED <<timer, pending>> ELSE Schedule

\* The handler of execute().finally(...).
Finally(r) ==
    /\ r \in settled
    /\ settled' = settled \ {r}
    /\ active' = None
    /\ ScheduleUnlessStopped
    /\ UNCHANGED <<stopped, running, waiting>>

\* clearTimeout of the timer the object knows.
ClearTimer == timer' = None /\ pending' = pending \ {timer}

\* Mutant: nothing is awaited.
AwaitedNothing == None

Awaited == active

Stop(c) ==
    /\ waiting[c] = None
    /\ stopped' = TRUE
    /\ ClearTimer
    /\ waiting' = [waiting EXCEPT ![c] = Awaited]
    /\ UNCHANGED <<active, running, settled>>

\* await this.active returns once the handler above has been called.
Resolve(c) ==
    /\ waiting[c] \in Runs /\ waiting[c] \notin running \cup settled
    /\ waiting' = [waiting EXCEPT ![c] = None]
    /\ UNCHANGED <<timer, active, stopped, pending, running, settled>>

Next ==
    \/ Start
    \/ \E t \in Timers : Fire(t)
    \/ \E r \in Runs : RunEnds(r) \/ Finally(r)
    \/ \E c \in Callers : Stop(c) \/ Resolve(c)

Spec == Init /\ [][Next]_vars

-----------------------------------------------------------------------------
(* Properties.                                                               *)

\* The loop is one: while the task is on exactly one of a timer, a run and a handler is
\* there to go on with it, and while it is off no timer is (helper 12-34).
OneLoop ==
    /\ stopped => pending = {}
    /\ \A t, u \in pending : t = u
    /\ \A r, s \in running \cup settled : r = s
    /\ ~stopped => (pending = {} <=> running \cup settled # {})

\* The promise that the object keeps is the run in progress, so that stop has the right
\* one to wait for (helper 29-33, 24).
ActiveIsTheRun == running \cup settled = {active} \ {None}

Contract ==
    INSTANCE TaskContract WITH
        on <- ~stopped,
        busy <- running \cup settled,
        asked <- {c \in Callers : waiting[c] # None}

\* The task keeps its contract (helper 12-42).
KeepsContract == Contract!Spec

-----------------------------------------------------------------------------
(* Fairness: Node fires timers and calls handlers.  That a run ends is an    *)
(* assumption about the database: a POST has a time-out, but a query has     *)
(* none (database.ts 18-23), so PostgreSQL or the network has to end it.     *)

FairSpec ==
    /\ Spec
    /\ WF_vars(\E t \in Timers : Fire(t))
    /\ WF_vars(\E r \in Runs : RunEnds(r))
    /\ WF_vars(\E r \in Runs : Finally(r))
    /\ \A c \in Callers : WF_vars(Resolve(c))

\* A task that is not stopped runs again and again, and a stop resolves (helper 18-34).
KeepsGoing == Contract!Fairness
=============================================================================
