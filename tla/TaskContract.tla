---------------------------- MODULE TaskContract ----------------------------
(***************************************************************************)
(* What the services of the worker rely on in a recurring task: one run    *)
(* at a time, a run only while the task is on, and a call of stop that     *)
(* resolves when nothing runs any more, with nothing to begin after it.    *)
(***************************************************************************)
CONSTANTS Runs, Callers

VARIABLES
    on,         \* between a start and the stop that follows it
    busy,       \* the runs in progress
    asked       \* callers whose stop has not resolved

vars == <<on, busy, asked>>

Init ==
    /\ on = FALSE
    /\ busy = {}
    /\ asked = {}

\* A start that comes before the last stop has resolved is not provided for.
Start == asked = {} /\ on' = TRUE /\ UNCHANGED <<busy, asked>>

Begin == on /\ busy = {} /\ (\E r \in Runs : busy' = {r}) /\ UNCHANGED <<on, asked>>

End == busy # {} /\ busy' = {} /\ UNCHANGED <<on, asked>>

\* With no run in progress a stop has nothing to wait for.
Stop(c) ==
    /\ on' = FALSE
    /\ asked' = IF busy = {} THEN asked ELSE asked \cup {c}
    /\ UNCHANGED busy

Resolve(c) ==
    /\ c \in asked /\ busy = {}
    /\ asked' = asked \ {c}
    /\ UNCHANGED <<on, busy>>

Next == Start \/ Begin \/ End \/ \E c \in Callers : Stop(c) \/ Resolve(c)

Spec == Init /\ [][Next]_vars

\* A task that stays on begins again, and a stop resolves.
Fairness ==
    /\ WF_vars(Begin) /\ WF_vars(End)
    /\ \A c \in Callers : WF_vars(Resolve(c))
=============================================================================
