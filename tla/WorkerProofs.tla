----------------------------- MODULE WorkerProofs -----------------------------
(***************************************************************************)
(* What the loop under every service promises, and what a process made of  *)
(* such loops does, for any number of timers, runs, callers, tenants,      *)
(* jobs, services and rows.                                                *)
(*                                                                         *)
(* The loop (RecurringTask) keeps its contract, however its timers, its    *)
(* runs and calls of stop interleave.  The contract needs the loop to be   *)
(* one, and that needs three things more: the timer the object knows is    *)
(* the one that is pending, the promise it keeps is the run's, and whoever *)
(* waits, waits for the run in progress and keeps the task off.            *)
(*                                                                         *)
(* The process (WorkerShutdown) counts no delivery twice, an exit with 0   *)
(* has written every count, and a closed pool has no user.  The sum of the *)
(* table, the losses, the maps and the snapshot is what has been counted,  *)
(* through every step.  That a snapshot never overwrites another one, and  *)
(* that no job counts behind the last flush, is the order of the stops;    *)
(* and as long as no statement has failed, the jobs in progress are those  *)
(* that a run waits for.                                                   *)
(*                                                                         *)
(* The polls (PollOrder) find the due rows before the others.  Ranks count *)
(* rows, so due rows have the first ones, and a backoff from now is behind *)
(* all of them wherever it falls.  The oldest push has only rows before    *)
(* it that nobody pulls, fewer than a batch, so a poll takes it.           *)
(***************************************************************************)
EXTENDS SchedulerProofs, CleanupProofs

USE NoneAssumption

-----------------------------------------------------------------------------
(* The loop: the inductive invariant.                                        *)

UnderWay == running \cup settled

\* stop clears the right timer.
TimerIsKnown == pending \subseteq {timer}

\* A run is in progress or over, not both.
RunsOnce == running \cap settled = {}

\* Who waits has the task off, and waits for the only run there may be.
WaitersKeepOff ==
    \A c \in Callers : waiting[c] # None => stopped /\ UnderWay \subseteq {waiting[c]}

\* A run that goes on after a stop is waited for.
LastRunIsAwaited ==
    stopped /\ UnderWay # {} => \E c \in Callers : waiting[c] # None

LoopInv ==
    /\ TypeOK /\ OneLoop /\ ActiveIsTheRun
    /\ TimerIsKnown /\ RunsOnce /\ WaitersKeepOff /\ LastRunIsAwaited

-----------------------------------------------------------------------------
(* The loop: the steps.                                                      *)

LEMMA LoopStarts == Init => LoopInv
BY DEF Init, LoopInv, TypeOK, OneLoop, ActiveIsTheRun, TimerIsKnown, RunsOnce, WaitersKeepOff,
       LastRunIsAwaited, UnderWay

\* Nothing is in progress when the task is off and nobody waits.
LEMMA OffAndUnawaited ==
    ASSUME LoopInv, stopped, \A c \in Callers : waiting[c] = None
    PROVE  running = {} /\ settled = {} /\ pending = {} /\ active = None
BY DEF LoopInv, TypeOK, OneLoop, ActiveIsTheRun, LastRunIsAwaited, UnderWay

LEMMA StartStep ==
    ASSUME LoopInv, Start
    PROVE  LoopInv'
<1>1. /\ running = {} /\ settled = {} /\ pending = {} /\ active = None
      /\ \A c \in Callers : waiting[c] = None
    BY OffAndUnawaited DEF Start, StartsNow
<1>2. PICK t \in FreeTimers : timer' = t /\ pending' = pending \cup {t}
    BY DEF Start, Schedule
<1>3. /\ pending' = {t} /\ t \in Timers /\ stopped' = FALSE
      /\ active' = None /\ running' = {} /\ settled' = {} /\ waiting' = waiting
    BY <1>1, <1>2 DEF Start, FreeTimers
<1>4. TypeOK'
    BY <1>2, <1>3 DEF LoopInv, TypeOK
<1> QED
    BY <1>1, <1>2, <1>3, <1>4
    DEF LoopInv, OneLoop, ActiveIsTheRun, TimerIsKnown, RunsOnce, WaitersKeepOff,
        LastRunIsAwaited, UnderWay

\* The timer fires, and was the only thing to go on with.
LEMMA FireStep ==
    ASSUME LoopInv, NEW t \in Timers, Fire(t)
    PROVE  LoopInv' /\ ~stopped /\ UnderWay = {} /\ \E r \in Runs : UnderWay' = {r}
<1>1. ~stopped /\ pending = {t} /\ running = {} /\ settled = {}
    BY DEF LoopInv, OneLoop, Fire, UnderWay
<1>2. \A c \in Callers : waiting[c] = None
    BY <1>1 DEF LoopInv, WaitersKeepOff
<1>3. PICK r \in FreeRuns : active' = r /\ running' = running \cup {r}
    BY DEF Fire
<1>4. /\ r \in Runs /\ running' = {r} /\ settled' = {} /\ pending' = {}
      /\ UNCHANGED <<timer, stopped, waiting>>
    BY <1>1, <1>3 DEF Fire, FreeRuns
<1> QED
    BY <1>1, <1>2, <1>3, <1>4
    DEF LoopInv, TypeOK, OneLoop, ActiveIsTheRun, TimerIsKnown, RunsOnce, WaitersKeepOff,
        LastRunIsAwaited, UnderWay

LEMMA RunEndsStep ==
    ASSUME LoopInv, NEW r \in Runs, RunEnds(r)
    PROVE  LoopInv' /\ UnderWay' = UnderWay
<1>1. UnderWay' = UnderWay /\ UnderWay \subseteq {r} /\ settled' \subseteq Runs
      /\ running' = {} /\ UNCHANGED <<timer, active, stopped, pending, waiting>>
    BY DEF LoopInv, TypeOK, OneLoop, RunEnds, UnderWay
<1> QED
    BY <1>1
    DEF LoopInv, TypeOK, OneLoop, ActiveIsTheRun, TimerIsKnown, RunsOnce, WaitersKeepOff,
        LastRunIsAwaited, UnderWay

\* The handler leaves nothing in progress, and a timer if the task is on.
LEMMA FinallyStep ==
    ASSUME LoopInv, NEW r \in Runs, Finally(r)
    PROVE  LoopInv' /\ UnderWay # {} /\ UnderWay' = {}
<1>1. running = {} /\ settled = {r}
    BY DEF LoopInv, OneLoop, RunsOnce, Finally
<1>2. running' = {} /\ settled' = {} /\ active' = None /\ UNCHANGED <<stopped, waiting>>
    BY <1>1 DEF Finally
<1>3. CASE stopped
  <2>1. UNCHANGED <<timer, pending>> /\ pending = {}
    BY <1>3 DEF Finally, ScheduleUnlessStopped, LoopInv, OneLoop
  <2> QED
    BY <1>1, <1>2, <1>3, <2>1
    DEF LoopInv, TypeOK, OneLoop, ActiveIsTheRun, TimerIsKnown, RunsOnce, WaitersKeepOff,
        LastRunIsAwaited, UnderWay
<1>4. CASE ~stopped
  <2>1. pending = {}
    BY <1>1, <1>4 DEF LoopInv, OneLoop
  <2>2. PICK t \in FreeTimers : timer' = t /\ pending' = pending \cup {t}
    BY <1>4 DEF Finally, ScheduleUnlessStopped, Schedule
  <2>3. t \in Timers /\ pending' = {t}
    BY <2>1, <2>2 DEF FreeTimers
  <2> QED
    BY <1>1, <1>2, <1>4, <2>2, <2>3
    DEF LoopInv, TypeOK, OneLoop, ActiveIsTheRun, TimerIsKnown, RunsOnce, WaitersKeepOff,
        LastRunIsAwaited, UnderWay
<1> QED BY <1>3, <1>4

LEMMA StopStep ==
    ASSUME LoopInv, NEW c \in Callers, Stop(c)
    PROVE  /\ LoopInv' /\ stopped' /\ UnderWay' = UnderWay
           /\ waiting[c] = None /\ waiting' = [waiting EXCEPT ![c] = active]
           /\ active = None <=> UnderWay = {}
<1>1. /\ stopped' /\ timer' = None /\ pending' = {} /\ waiting[c] = None
      /\ waiting' = [waiting EXCEPT ![c] = active]
      /\ UNCHANGED <<active, running, settled>>
    BY DEF Stop, ClearTimer, Awaited, LoopInv, TimerIsKnown
<1>2. /\ TypeOK /\ UnderWay = {active} \ {None}
    BY DEF LoopInv, ActiveIsTheRun, UnderWay
<1>3. \A d \in Callers : waiting'[d] = IF d = c THEN active ELSE waiting[d]
    BY <1>1, <1>2 DEF TypeOK
<1>4. TypeOK'
    BY <1>1, <1>2 DEF TypeOK
<1>5. WaitersKeepOff'
    BY <1>1, <1>2, <1>3 DEF WaitersKeepOff, LoopInv, UnderWay
<1>6. LastRunIsAwaited'
    BY <1>1, <1>2, <1>3 DEF LastRunIsAwaited, UnderWay
<1> QED
    BY <1>1, <1>2, <1>4, <1>5, <1>6
    DEF LoopInv, OneLoop, ActiveIsTheRun, TimerIsKnown, RunsOnce, UnderWay

\* A stop resolves when its run is over, and no other has begun.
LEMMA ResolveStep ==
    ASSUME LoopInv, NEW c \in Callers, Resolve(c)
    PROVE  LoopInv' /\ UnderWay = {} /\ waiting[c] # None
<1>1. UnderWay = {} /\ waiting[c] # None
    BY DEF Resolve, LoopInv, WaitersKeepOff, UnderWay
<1>2. /\ waiting' = [waiting EXCEPT ![c] = None]
      /\ UNCHANGED <<timer, active, stopped, pending, running, settled>>
    BY DEF Resolve
<1>3. waiting' \in [Callers -> Runs \cup {None}]
      /\ \A d \in Callers : waiting'[d] # None => waiting[d] # None /\ waiting'[d] = waiting[d]
    BY <1>2 DEF LoopInv, TypeOK
<1> QED
    BY <1>1, <1>2, <1>3
    DEF LoopInv, TypeOK, OneLoop, ActiveIsTheRun, TimerIsKnown, RunsOnce, WaitersKeepOff,
        LastRunIsAwaited, UnderWay

LEMMA LoopSteps == LoopInv /\ [Next]_vars => LoopInv'
<1> SUFFICES ASSUME LoopInv, [Next]_vars PROVE LoopInv'
    OBVIOUS
<1>1. CASE UNCHANGED vars
    BY <1>1
    DEF vars, LoopInv, TypeOK, OneLoop, ActiveIsTheRun, TimerIsKnown, RunsOnce, WaitersKeepOff,
        LastRunIsAwaited, UnderWay
<1> QED
    BY <1>1, StartStep, FireStep, RunEndsStep, FinallyStep, StopStep, ResolveStep DEF Next

LEMMA LoopHolds == Spec => []LoopInv
BY LoopStarts, LoopSteps, PTL DEF Spec

-----------------------------------------------------------------------------
(* The loop: the theorems.                                                   *)

\* Types, for any number of callers.
THEOREM LoopTypes == Spec => []TypeOK
BY LoopHolds, PTL DEF LoopInv

\* The loop never splits in two and never dies out while the task is on
\* (recurring-task.helper.ts 12-34).
THEOREM LoopIsOne == Spec => []OneLoop
BY LoopHolds, PTL DEF LoopInv

\* stop waits for the run in progress (recurring-task.helper.ts 24, 29-33).
THEOREM StopHasTheRun == Spec => []ActiveIsTheRun
BY LoopHolds, PTL DEF LoopInv

\* What the services of the worker rely on: one run at a time, none while the task is
\* off, and a stop that resolves when nothing runs any more (recurring-task.helper.ts).
THEOREM TaskKeepsContract == Spec => KeepsContract
<1>1. Init => Contract!Init
    BY DEF Init, Contract!Init
<1>2. LoopInv /\ [Next]_vars => [Contract!Next]_Contract!vars
  <2> SUFFICES ASSUME LoopInv, [Next]_vars PROVE [Contract!Next]_Contract!vars
    OBVIOUS
  <2>1. CASE Start
    BY <2>1 DEF Start, Contract!Next, Contract!Start
  <2>2. ASSUME NEW t \in Timers, Fire(t) PROVE Contract!Begin
    <3>1. ~stopped /\ UnderWay = {} /\ (\E r \in Runs : UnderWay' = {r})
      BY <2>2, FireStep
    <3> QED BY <2>2, <3>1 DEF Fire, UnderWay, Contract!Begin
  <2>3. ASSUME NEW r \in Runs, RunEnds(r) PROVE UNCHANGED Contract!vars
    <3>1. UnderWay' = UnderWay
      BY <2>3, RunEndsStep
    <3> QED BY <2>3, <3>1 DEF RunEnds, UnderWay, Contract!vars
  <2>4. ASSUME NEW r \in Runs, Finally(r) PROVE Contract!End
    <3>1. UnderWay # {} /\ UnderWay' = {}
      BY <2>4, FinallyStep
    <3> QED BY <2>4, <3>1 DEF Finally, UnderWay, Contract!End
  <2>5. ASSUME NEW c \in Callers, Stop(c) PROVE Contract!Stop(c)
    <3>1. /\ stopped' /\ UnderWay' = UnderWay /\ waiting[c] = None
          /\ waiting' = [waiting EXCEPT ![c] = active]
          /\ (active = None <=> UnderWay = {}) /\ waiting \in [Callers -> Runs \cup {None}]
      BY <2>5, StopStep DEF LoopInv, TypeOK
    <3>2. \A d \in Callers : waiting'[d] = IF d = c THEN active ELSE waiting[d]
      BY <3>1
    <3>3. {d \in Callers : waiting'[d] # None} =
            IF UnderWay = {} THEN {d \in Callers : waiting[d] # None}
            ELSE {d \in Callers : waiting[d] # None} \cup {c}
      BY <3>1, <3>2
    <3> QED BY <3>1, <3>3 DEF UnderWay, Contract!Stop
  <2>6. ASSUME NEW c \in Callers, Resolve(c) PROVE Contract!Resolve(c)
    <3>1. /\ UnderWay = {} /\ waiting[c] # None /\ waiting' = [waiting EXCEPT ![c] = None]
          /\ UNCHANGED <<stopped, running, settled>> /\ waiting \in [Callers -> Runs \cup {None}]
      BY <2>6, ResolveStep DEF Resolve, LoopInv, TypeOK
    <3>2. {d \in Callers : waiting'[d] # None} = {d \in Callers : waiting[d] # None} \ {c}
      BY <3>1
    <3> QED BY <3>1, <3>2 DEF UnderWay, Contract!Resolve
  <2>7. CASE UNCHANGED vars
    BY <2>7 DEF vars, Contract!vars
  <2> QED
    BY <2>1, <2>2, <2>3, <2>4, <2>5, <2>6, <2>7 DEF Next, Contract!Next
<1> QED
    BY <1>1, <1>2, LoopHolds, PTL DEF Spec, KeepsContract, Contract!Spec

-----------------------------------------------------------------------------
(* The process: the inductive invariant.                                     *)

\* TypeOK with numbers of any size: what the table holds is bounded by what was counted.
LooseTypes ==
    /\ on \subseteq Proc!Loops \cup {"metrics"}
    /\ busy \subseteq Proc!Loops \cup {"metrics"}
    /\ job \in [Jobs -> Tenants \cup {None}]
    /\ batch \subseteq Jobs
    /\ counts \in [Proc!Rows -> Nat]
    /\ snapshot \in [Proc!Rows -> Nat]
    /\ stored \in [Proc!Rows -> Nat]
    /\ recorded \in [Proc!Rows -> 0..MaxRecords]
    /\ lost \in [Proc!Rows -> Nat]
    /\ phase \in Proc!Phases
    /\ code \in {0, 1}
    /\ processFaults \in 0..MaxFaults

\* What has been counted is in one place.
Balanced == \A r \in Proc!Rows : recorded[r] = stored[r] + lost[r] + counts[r] + snapshot[r]

\* What has been stopped when, and whose snapshot there may be: the periodic flush's while it
\* is busy, the last one's after that.
StopsInOrder ==
    /\ phase \in {"flushing", "last flush", "disconnect"} =>
          on = {} /\ busy \cap Proc!Loops = {}
    /\ phase \in {"last flush", "disconnect"} => "metrics" \notin busy
    /\ "metrics" \notin busy /\ phase \notin {"last flush", "exited"} => snapshot = Proc!Zero

\* Without an error, no job goes on when its run is over, none is counted behind the last
\* flush, and nothing is left after it.
NothingLeftBehind ==
    /\ lost = Proc!Zero
    /\ Proc!InProgress = batch
    /\ batch # {} => "delivery" \in busy
    /\ phase \in {"last flush", "disconnect"} => counts = Proc!Zero
    /\ phase = "exited" /\ code = 0 => counts = Proc!Zero /\ snapshot = Proc!Zero

ProcessInv ==
    /\ LooseTypes /\ Balanced /\ StopsInOrder
    /\ processFaults = 0 => NothingLeftBehind

-----------------------------------------------------------------------------
(* The process: the steps.                                                   *)

LEMMA ProcessStarts == ASSUME Proc!ShutdownAssumption PROVE Proc!Init => ProcessInv
<1>1. SUFFICES ASSUME Proc!Init PROVE ProcessInv
    OBVIOUS
<1>2. Proc!Zero \in [Proc!Rows -> Nat] /\ Proc!Zero \in [Proc!Rows -> 0..MaxRecords]
    BY DEF Proc!Zero, Proc!ShutdownAssumption
<1>3. LooseTypes
    BY <1>1, <1>2 DEF Proc!Init, LooseTypes, Proc!Phases, Proc!ShutdownAssumption
<1>4. Balanced
    BY <1>1 DEF Proc!Init, Balanced, Proc!Zero
<1>5. StopsInOrder /\ NothingLeftBehind
    BY <1>1 DEF Proc!Init, StopsInOrder, NothingLeftBehind, Proc!InProgress
<1> QED
    BY <1>3, <1>4, <1>5 DEF ProcessInv

\* TypeOK from the balance.
LEMMA BalanceTypes == ASSUME Proc!ShutdownAssumption, ProcessInv PROVE Proc!TypeOK
<1>1. LooseTypes /\ Balanced /\ MaxRecords \in Nat
    BY DEF ProcessInv, Proc!ShutdownAssumption
<1>2. ASSUME NEW r \in Proc!Rows
      PROVE  /\ counts[r] \in 0..MaxRecords /\ snapshot[r] \in 0..MaxRecords
             /\ stored[r] \in 0..MaxRecords /\ lost[r] \in 0..MaxRecords
    <2>1. /\ counts[r] \in Nat /\ snapshot[r] \in Nat /\ stored[r] \in Nat /\ lost[r] \in Nat
          /\ recorded[r] \in 0..MaxRecords
        BY <1>1 DEF LooseTypes
    <2>2. recorded[r] = stored[r] + lost[r] + counts[r] + snapshot[r]
        BY <1>1 DEF Balanced
    <2> QED
        BY <1>1, <2>1, <2>2
<1>3. /\ counts \in Proc!Counts /\ snapshot \in Proc!Counts /\ stored \in Proc!Counts
         /\ lost \in Proc!Counts
      /\ recorded \in Proc!Counts
    BY <1>1, <1>2 DEF LooseTypes, Proc!Counts
<1> QED
    BY <1>1, <1>3 DEF LooseTypes, Proc!TypeOK

\* A row of the metrics, typed.
LEMMA RowTypes ==
    ASSUME LooseTypes, NEW r \in Proc!Rows
    PROVE  /\ counts[r] \in Nat /\ snapshot[r] \in Nat /\ stored[r] \in Nat
           /\ lost[r] \in Nat /\ recorded[r] \in Nat
BY DEF LooseTypes

LEMMA OtherBeginsStep ==
    ASSUME Proc!ShutdownAssumption, ProcessInv, NEW l \in Others, Proc!OtherBegins(l)
    PROVE  ProcessInv'
<1>1. /\ l \in on \ busy /\ busy' = busy \cup {l}
      /\ l \in Proc!Loops /\ l \notin {"metrics", "delivery"}
      /\ UNCHANGED <<on, job, batch, Proc!metrics, phase, code, processFaults>>
    BY DEF Proc!OtherBegins, Proc!Loops, Proc!ShutdownAssumption
<1>2. LooseTypes' /\ Balanced'
    BY <1>1 DEF ProcessInv, LooseTypes, Balanced, Proc!metrics
<1>3. StopsInOrder'
    BY <1>1 DEF ProcessInv, StopsInOrder, Proc!metrics
<1>4. processFaults' = 0 => NothingLeftBehind'
    BY <1>1 DEF ProcessInv, NothingLeftBehind, Proc!InProgress, Proc!metrics
<1> QED
    BY <1>2, <1>3, <1>4 DEF ProcessInv

LEMMA OtherEndsStep ==
    ASSUME Proc!ShutdownAssumption, ProcessInv, NEW l \in Others, Proc!OtherEnds(l)
    PROVE  ProcessInv'
<1>1. /\ busy' = busy \ {l} /\ l \notin {"metrics", "delivery"}
      /\ UNCHANGED <<on, job, batch, Proc!metrics, phase, code, processFaults>>
    BY DEF Proc!OtherEnds, Proc!ShutdownAssumption
<1>2. LooseTypes' /\ Balanced'
    BY <1>1 DEF ProcessInv, LooseTypes, Balanced, Proc!metrics
<1>3. StopsInOrder'
    BY <1>1 DEF ProcessInv, StopsInOrder, Proc!metrics
<1>4. processFaults' = 0 => NothingLeftBehind'
    BY <1>1 DEF ProcessInv, NothingLeftBehind, Proc!InProgress, Proc!metrics
<1> QED
    BY <1>2, <1>3, <1>4 DEF ProcessInv

\* No run of the delivery service is in progress, so without an error no job is either.
LEMMA ClaimStep ==
    ASSUME Proc!ShutdownAssumption, ProcessInv, Proc!Claim
    PROVE  ProcessInv'
<1>1. PICK claimed \in SUBSET (Jobs \ Proc!InProgress) \ {{}} :
        \E tenants \in [claimed -> Tenants] :
            /\ batch' = claimed
            /\ job' = [j \in Jobs |-> IF j \in claimed THEN tenants[j] ELSE job[j]]
    BY DEF Proc!Claim
<1>2. PICK tenants \in [claimed -> Tenants] :
        /\ batch' = claimed
        /\ job' = [j \in Jobs |-> IF j \in claimed THEN tenants[j] ELSE job[j]]
    BY <1>1
<1>3. /\ "delivery" \in on \ busy /\ busy' = busy \cup {"delivery"} /\ "delivery" \in Proc!Loops
      /\ UNCHANGED <<on, Proc!metrics, phase, code, processFaults>>
    BY DEF Proc!Claim, Proc!Loops
<1>4. LooseTypes /\ None \notin Tenants
    BY DEF ProcessInv, Proc!ShutdownAssumption
<1>5. claimed \subseteq Jobs /\ job' \in [Jobs -> Tenants \cup {None}]
    BY <1>2, <1>4 DEF LooseTypes
<1>6. LooseTypes' /\ Balanced'
    BY <1>2, <1>3, <1>5 DEF ProcessInv, LooseTypes, Balanced, Proc!metrics
<1>7. StopsInOrder'
    BY <1>3 DEF ProcessInv, StopsInOrder, Proc!metrics
<1>8. processFaults' = 0 => NothingLeftBehind'
    <2>1. SUFFICES ASSUME processFaults = 0 PROVE NothingLeftBehind'
        BY <1>3
    <2>2. NothingLeftBehind /\ batch = {} /\ Proc!InProgress = {}
        BY <1>3, <2>1 DEF ProcessInv, NothingLeftBehind
    <2>3. \A j \in Jobs : job[j] = None
        BY <2>2 DEF Proc!InProgress
    <2>4. Proc!InProgress' = claimed
        BY <1>2, <1>4, <1>5, <2>3 DEF Proc!InProgress
    <2> QED
        BY <1>2, <1>3, <2>2, <2>4 DEF NothingLeftBehind, Proc!metrics
<1> QED
    BY <1>6, <1>7, <1>8 DEF ProcessInv

\* What a job leaves behind when it ends by itself.
LEMMA JobEnds ==
    ASSUME Proc!ShutdownAssumption, ProcessInv, NEW j \in Jobs,
           job' = [job EXCEPT ![j] = None], Proc!BatchWithout(j), job[j] # None
    PROVE  /\ job' \in [Jobs -> Tenants \cup {None}] /\ batch' \subseteq Jobs
           /\ busy' \subseteq busy /\ busy \ {"delivery"} \subseteq busy'
           /\ Proc!InProgress' = Proc!InProgress \ {j}
           /\ Proc!InProgress = batch /\ (batch # {} => "delivery" \in busy) =>
                Proc!InProgress' = batch' /\ (batch' # {} => "delivery" \in busy')
<1>1. job \in [Jobs -> Tenants \cup {None}] /\ batch \subseteq Jobs
    BY DEF ProcessInv, LooseTypes
<1>2. batch' = batch \ {j} /\ busy' = IF batch = {j} THEN busy \ {"delivery"} ELSE busy
    BY DEF Proc!BatchWithout
<1>3. \A i \in Jobs : job'[i] = IF i = j THEN None ELSE job[i]
    BY <1>1
<1>4. Proc!InProgress' = Proc!InProgress \ {j}
    BY <1>3 DEF Proc!InProgress
<1> QED
    BY <1>1, <1>2, <1>4

LEMMA RecordStep ==
    ASSUME Proc!ShutdownAssumption, ProcessInv, NEW j \in Jobs, NEW kind \in Proc!Kinds,
           Proc!Record(j, kind)
    PROVE  ProcessInv'
<1> DEFINE r == <<job[j], kind>>
<1>1. /\ Proc!Connected /\ job[j] # None /\ recorded[r] < MaxRecords
      /\ counts' = [counts EXCEPT ![r] = @ + 1]
      /\ recorded' = [recorded EXCEPT ![r] = @ + 1]
      /\ job' = [job EXCEPT ![j] = None] /\ Proc!BatchWithout(j)
      /\ UNCHANGED <<on, snapshot, stored, lost, phase, code, processFaults>>
    BY DEF Proc!Record
<1>2. LooseTypes /\ Balanced /\ MaxRecords \in Nat
    BY DEF ProcessInv, Proc!ShutdownAssumption
<1>3. r \in Proc!Rows
    BY <1>1, <1>2 DEF LooseTypes, Proc!Rows
<1>4. /\ job' \in [Jobs -> Tenants \cup {None}] /\ batch' \subseteq Jobs
      /\ busy' \subseteq busy /\ busy \ {"delivery"} \subseteq busy'
      /\ Proc!InProgress' = Proc!InProgress \ {j}
      /\ Proc!InProgress = batch /\ (batch # {} => "delivery" \in busy) =>
            Proc!InProgress' = batch' /\ (batch' # {} => "delivery" \in busy')
    BY <1>1, JobEnds
<1> HIDE DEF r
<1>5. LooseTypes'
    <2>1. recorded[r] + 1 \in 0..MaxRecords /\ counts[r] + 1 \in Nat
        BY <1>1, <1>2, <1>3 DEF LooseTypes
    <2>2. recorded' \in [Proc!Rows -> 0..MaxRecords] /\ counts' \in [Proc!Rows -> Nat]
        BY <1>1, <1>2, <2>1 DEF LooseTypes
    <2> QED
        BY <1>1, <1>2, <1>4, <2>2 DEF LooseTypes
<1>6. Balanced'
    <2>1. SUFFICES ASSUME NEW x \in Proc!Rows
                   PROVE  recorded'[x] = stored[x] + lost[x] + counts'[x] + snapshot[x]
        BY <1>1 DEF Balanced
    <2>2. recorded[x] = stored[x] + lost[x] + counts[x] + snapshot[x]
        BY <1>2 DEF Balanced
    <2>3. /\ recorded'[x] = IF x = r THEN recorded[x] + 1 ELSE recorded[x]
          /\ counts'[x] = IF x = r THEN counts[x] + 1 ELSE counts[x]
        BY <1>1, <1>2 DEF LooseTypes
    <2> QED
        BY <1>2, <2>2, <2>3, RowTypes
<1>7. StopsInOrder'
    BY <1>1, <1>4 DEF ProcessInv, StopsInOrder
<1>8. processFaults' = 0 => NothingLeftBehind'
    <2>1. SUFFICES ASSUME processFaults = 0 PROVE NothingLeftBehind'
        BY <1>1
    <2>2. NothingLeftBehind
        BY <2>1 DEF ProcessInv
    <2>3. "delivery" \in busy /\ phase \notin {"last flush", "disconnect", "exited"}
        <3>1. j \in Proc!InProgress
            BY <1>1 DEF Proc!InProgress
        <3>2. "delivery" \in busy /\ "delivery" \in Proc!Loops
            BY <2>2, <3>1 DEF NothingLeftBehind, Proc!Loops
        <3> QED
            BY <1>1, <3>2 DEF Proc!Connected, ProcessInv, StopsInOrder
    <2> QED
        BY <1>1, <1>4, <2>2, <2>3 DEF NothingLeftBehind
<1> QED
    BY <1>5, <1>6, <1>7, <1>8 DEF ProcessInv

LEMMA EndsUncountedStep ==
    ASSUME Proc!ShutdownAssumption, ProcessInv, NEW j \in Jobs, Proc!EndsUncounted(j)
    PROVE  ProcessInv'
<1>1. /\ job[j] # None /\ job' = [job EXCEPT ![j] = None] /\ Proc!BatchWithout(j)
      /\ UNCHANGED <<on, Proc!metrics, phase, code, processFaults>>
    BY DEF Proc!EndsUncounted
<1>2. /\ job' \in [Jobs -> Tenants \cup {None}] /\ batch' \subseteq Jobs
      /\ busy' \subseteq busy /\ busy \ {"delivery"} \subseteq busy'
      /\ Proc!InProgress = batch /\ (batch # {} => "delivery" \in busy) =>
            Proc!InProgress' = batch' /\ (batch' # {} => "delivery" \in busy')
    BY <1>1, JobEnds
<1>3. LooseTypes' /\ Balanced'
    BY <1>1, <1>2 DEF ProcessInv, LooseTypes, Balanced, Proc!metrics
<1>4. StopsInOrder'
    BY <1>1, <1>2 DEF ProcessInv, StopsInOrder, Proc!metrics
<1>5. processFaults' = 0 => NothingLeftBehind'
    BY <1>1, <1>2 DEF ProcessInv, NothingLeftBehind, Proc!metrics
<1> QED
    BY <1>3, <1>4, <1>5 DEF ProcessInv

\* A statement that fails ends what is promised of runs without an error.
LEMMA FaultCounts ==
    ASSUME Proc!ShutdownAssumption, ProcessInv, Proc!Fault
    PROVE  processFaults' \in 0..MaxFaults /\ processFaults' # 0
BY DEF Proc!Fault, ProcessInv, LooseTypes, Proc!ShutdownAssumption

LEMMA RejectsStep ==
    ASSUME Proc!ShutdownAssumption, ProcessInv, NEW j \in Jobs, Proc!Rejects(j)
    PROVE  ProcessInv'
<1>1. /\ Proc!Fault /\ job' = [job EXCEPT ![j] = None]
      /\ batch' \subseteq batch /\ busy' \subseteq busy /\ busy \ {"delivery"} \subseteq busy'
      /\ UNCHANGED <<on, Proc!metrics, phase, code>>
    BY DEF Proc!Rejects, Proc!AfterFailure
<1>2. processFaults' \in 0..MaxFaults /\ processFaults' # 0
    BY <1>1, FaultCounts
<1>3. job' \in [Jobs -> Tenants \cup {None}]
    BY <1>1 DEF ProcessInv, LooseTypes
<1>4. LooseTypes' /\ Balanced'
    BY <1>1, <1>2, <1>3 DEF ProcessInv, LooseTypes, Balanced, Proc!metrics
<1>5. StopsInOrder'
    BY <1>1 DEF ProcessInv, StopsInOrder, Proc!metrics
<1> QED
    BY <1>2, <1>4, <1>5 DEF ProcessInv

\* The counts move to the snapshot when no snapshot is left to write.
LEMMA SnapshotKeeps ==
    ASSUME Proc!ShutdownAssumption, ProcessInv, Proc!TakeSnapshot, snapshot = Proc!Zero,
           UNCHANGED <<stored, recorded, lost>>
    PROVE  /\ Balanced' /\ counts' = Proc!Zero /\ snapshot' = counts
           /\ counts' \in [Proc!Rows -> Nat] /\ snapshot' \in [Proc!Rows -> Nat]
<1>1. LooseTypes /\ Balanced
    BY DEF ProcessInv
<1>2. counts' = Proc!Zero /\ snapshot' = counts
    BY DEF Proc!TakeSnapshot, Proc!Cleared
<1>3. counts' \in [Proc!Rows -> Nat] /\ snapshot' \in [Proc!Rows -> Nat]
    BY <1>1, <1>2 DEF LooseTypes, Proc!Zero
<1>4. ASSUME NEW r \in Proc!Rows
      PROVE  recorded[r] = stored[r] + lost[r] + counts'[r] + snapshot'[r]
    <2>1. counts'[r] = 0 /\ snapshot'[r] = counts[r] /\ snapshot[r] = 0
        BY <1>2 DEF Proc!Zero
    <2>2. recorded[r] = stored[r] + lost[r] + counts[r] + snapshot[r]
        BY <1>1 DEF Balanced
    <2> QED
        BY <1>1, <2>1, <2>2, RowTypes
<1>5. Balanced'
    BY <1>4 DEF Balanced
<1> QED
    BY <1>2, <1>3, <1>5

LEMMA FlushBeginsStep ==
    ASSUME Proc!ShutdownAssumption, ProcessInv, Proc!FlushBegins
    PROVE  ProcessInv'
<1>1. /\ Proc!Alive /\ "metrics" \in on \ busy /\ Proc!TakeSnapshot
         /\ busy' = busy \cup {"metrics"}
      /\ UNCHANGED <<on, job, batch, stored, phase, code, recorded, lost, processFaults>>
    BY DEF Proc!FlushBegins
<1>2. phase \notin {"flushing", "last flush", "disconnect", "exited"} /\ snapshot = Proc!Zero
    BY <1>1 DEF ProcessInv, StopsInOrder, Proc!Alive
<1>3. /\ Balanced' /\ counts' \in [Proc!Rows -> Nat] /\ snapshot' \in [Proc!Rows -> Nat]
    BY <1>1, <1>2, SnapshotKeeps
<1>4. LooseTypes'
    BY <1>1, <1>3 DEF ProcessInv, LooseTypes
<1>5. StopsInOrder'
    BY <1>1, <1>2 DEF StopsInOrder
<1>6. processFaults' = 0 => NothingLeftBehind'
    BY <1>1, <1>2 DEF ProcessInv, NothingLeftBehind, Proc!InProgress
<1> QED
    BY <1>3, <1>4, <1>5, <1>6 DEF ProcessInv

LEMMA FlushRowStep ==
    ASSUME Proc!ShutdownAssumption, ProcessInv, NEW r \in Proc!Rows, Proc!FlushRow(r)
    PROVE  ProcessInv'
<1>1. /\ Proc!Alive /\ Proc!Flushing
      /\ stored' = [stored EXCEPT ![r] = @ + snapshot[r]]
      /\ snapshot' = [snapshot EXCEPT ![r] = 0]
      /\ UNCHANGED <<Proc!process, counts, phase, code, recorded, lost, processFaults>>
    BY DEF Proc!FlushRow, Proc!Increment
<1>2. LooseTypes /\ Balanced
    BY DEF ProcessInv
<1>3. LooseTypes'
    <2>1. stored' \in [Proc!Rows -> Nat] /\ snapshot' \in [Proc!Rows -> Nat]
        BY <1>1, <1>2 DEF LooseTypes
    <2> QED
        BY <1>1, <1>2, <2>1 DEF LooseTypes, Proc!process
<1>4. Balanced'
    <2>1. SUFFICES ASSUME NEW x \in Proc!Rows
                   PROVE  recorded[x] = stored'[x] + lost[x] + counts[x] + snapshot'[x]
        BY <1>1 DEF Balanced
    <2>2. recorded[x] = stored[x] + lost[x] + counts[x] + snapshot[x]
        BY <1>2 DEF Balanced
    <2>3. /\ stored'[x] = IF x = r THEN stored[x] + snapshot[x] ELSE stored[x]
          /\ snapshot'[x] = IF x = r THEN 0 ELSE snapshot[x]
        BY <1>1, <1>2 DEF LooseTypes
    <2> QED
        BY <1>2, <2>2, <2>3, RowTypes
<1>5. "metrics" \in busy \/ phase = "last flush"
    BY <1>1 DEF Proc!Flushing
<1>6. StopsInOrder'
    BY <1>1, <1>5 DEF ProcessInv, StopsInOrder, Proc!process
<1>7. processFaults' = 0 => NothingLeftBehind'
    BY <1>1 DEF ProcessInv, NothingLeftBehind, Proc!InProgress, Proc!process, Proc!Alive
<1> QED
    BY <1>3, <1>4, <1>6, <1>7 DEF ProcessInv

LEMMA FlushEndsStep ==
    ASSUME Proc!ShutdownAssumption, ProcessInv, Proc!FlushEnds
    PROVE  ProcessInv'
<1>1. /\ snapshot = Proc!Zero /\ busy' = busy \ {"metrics"}
      /\ UNCHANGED <<on, job, batch, Proc!metrics, phase, code, processFaults>>
    BY DEF Proc!FlushEnds
<1>2. LooseTypes' /\ Balanced'
    BY <1>1 DEF ProcessInv, LooseTypes, Balanced, Proc!metrics
<1>3. StopsInOrder'
    BY <1>1 DEF ProcessInv, StopsInOrder, Proc!metrics
<1>4. processFaults' = 0 => NothingLeftBehind'
    BY <1>1 DEF ProcessInv, NothingLeftBehind, Proc!InProgress, Proc!metrics
<1> QED
    BY <1>2, <1>3, <1>4 DEF ProcessInv

\* What the failed statement has not written is lost, and nothing else.
LEMMA FlushFailsStep ==
    ASSUME Proc!ShutdownAssumption, ProcessInv, NEW r \in Proc!Rows, NEW written \in BOOLEAN,
           Proc!FlushFails(r, written)
    PROVE  ProcessInv'
<1>1. /\ Proc!Fault
      /\ stored' = IF written THEN [stored EXCEPT ![r] = @ + snapshot[r]] ELSE stored
      /\ lost' = Proc!Plus(lost, IF written THEN [snapshot EXCEPT ![r] = 0] ELSE snapshot)
      /\ snapshot' = Proc!Zero /\ busy' = busy \ {"metrics"}
      /\ UNCHANGED <<on, job, batch, counts, recorded>>
    BY DEF Proc!FlushFails, Proc!Increment, Proc!AfterFailure
<1>2. \/ phase = "last flush" /\ phase' = "exited" /\ code' = 1
      \/ phase # "last flush" /\ UNCHANGED <<phase, code>>
    BY DEF Proc!FlushFails
<1>3. LooseTypes /\ Balanced
    BY DEF ProcessInv
<1>4. processFaults' \in 0..MaxFaults /\ processFaults' # 0
    BY <1>1, FaultCounts
<1>5. ASSUME NEW x \in Proc!Rows
      PROVE  /\ stored'[x] = IF written /\ x = r THEN stored[x] + snapshot[x] ELSE stored[x]
             /\ lost'[x] = IF written /\ x = r THEN lost[x] ELSE lost[x] + snapshot[x]
             /\ snapshot'[x] = 0
    <2>1. stored'[x] = IF written /\ x = r THEN stored[x] + snapshot[x] ELSE stored[x]
        BY <1>1, <1>3 DEF LooseTypes
    <2>2. snapshot'[x] = 0
        BY <1>1 DEF Proc!Zero
    <2>3. CASE written
        <3>1. lost'[x] = lost[x] + [snapshot EXCEPT ![r] = 0][x]
            BY <1>1, <2>3 DEF Proc!Plus
        <3>2. [snapshot EXCEPT ![r] = 0][x] = IF x = r THEN 0 ELSE snapshot[x]
            BY <1>3 DEF LooseTypes
        <3> QED
            BY <1>3, <2>1, <2>2, <2>3, <3>1, <3>2, RowTypes
    <2>4. CASE ~written
        <3>1. lost'[x] = lost[x] + snapshot[x]
            BY <1>1, <2>4 DEF Proc!Plus
        <3> QED
            BY <2>1, <2>2, <2>4, <3>1
    <2> QED
        BY <2>3, <2>4
<1>6. LooseTypes'
    <2>1. stored' \in [Proc!Rows -> Nat]
        BY <1>1, <1>3 DEF LooseTypes
    <2>2. snapshot' \in [Proc!Rows -> Nat]
        BY <1>1 DEF Proc!Zero
    <2>3. lost' \in [Proc!Rows -> Nat]
        <3>1. ASSUME NEW x \in Proc!Rows PROVE lost'[x] \in Nat
            BY <1>3, <1>5, RowTypes
        <3>2. lost' = [x \in Proc!Rows |-> lost'[x]]
            BY <1>1 DEF Proc!Plus
        <3> QED
            BY <3>1, <3>2
    <2> QED
        BY <1>1, <1>2, <1>3, <1>4, <2>1, <2>2, <2>3 DEF LooseTypes, Proc!Phases
<1>7. Balanced'
    <2>1. SUFFICES ASSUME NEW x \in Proc!Rows
                   PROVE  recorded[x] = stored'[x] + lost'[x] + counts[x] + snapshot'[x]
        BY <1>1 DEF Balanced
    <2>2. recorded[x] = stored[x] + lost[x] + counts[x] + snapshot[x]
        BY <1>3 DEF Balanced
    <2> QED
        BY <1>3, <1>5, <2>2, RowTypes
<1>8. StopsInOrder'
    BY <1>1, <1>2 DEF ProcessInv, StopsInOrder
<1> QED
    BY <1>4, <1>6, <1>7, <1>8 DEF ProcessInv

LEMMA SignalStep ==
    ASSUME Proc!ShutdownAssumption, ProcessInv, NEW c \in {0, 1}, Proc!Signal(c)
    PROVE  ProcessInv'
<1>1. /\ phase = "up" /\ phase' = "loops" /\ code' = c /\ on' = {"metrics"}
      /\ UNCHANGED <<busy, job, batch, Proc!metrics, processFaults>>
    BY DEF Proc!Signal
<1>2. LooseTypes' /\ Balanced'
    BY <1>1 DEF ProcessInv, LooseTypes, Balanced, Proc!metrics, Proc!Phases
<1>3. StopsInOrder'
    BY <1>1 DEF ProcessInv, StopsInOrder, Proc!metrics
<1>4. processFaults' = 0 => NothingLeftBehind'
    BY <1>1 DEF ProcessInv, NothingLeftBehind, Proc!InProgress, Proc!metrics
<1> QED
    BY <1>2, <1>3, <1>4 DEF ProcessInv

LEMMA StopMetricsStep ==
    ASSUME Proc!ShutdownAssumption, ProcessInv, Proc!StopMetrics
    PROVE  ProcessInv'
<1>1. /\ phase = "loops" /\ phase' = "flushing" /\ on' = {} /\ busy \cap Proc!Loops = {}
      /\ UNCHANGED <<busy, job, batch, Proc!metrics, code, processFaults>>
    BY DEF Proc!StopMetrics, Proc!ServicesStopped
<1>2. LooseTypes' /\ Balanced'
    BY <1>1 DEF ProcessInv, LooseTypes, Balanced, Proc!metrics, Proc!Phases
<1>3. StopsInOrder'
    BY <1>1 DEF ProcessInv, StopsInOrder, Proc!metrics
<1>4. processFaults' = 0 => NothingLeftBehind'
    BY <1>1 DEF ProcessInv, NothingLeftBehind, Proc!InProgress, Proc!metrics
<1> QED
    BY <1>2, <1>3, <1>4 DEF ProcessInv

LEMMA LastFlushStep ==
    ASSUME Proc!ShutdownAssumption, ProcessInv, Proc!LastFlush
    PROVE  ProcessInv'
<1>1. /\ phase = "flushing" /\ "metrics" \notin busy /\ Proc!TakeSnapshot
         /\ phase' = "last flush"
      /\ UNCHANGED <<Proc!process, stored, code, recorded, lost, processFaults>>
    BY DEF Proc!LastFlush, Proc!FlushOver
<1>2. on = {} /\ busy \cap Proc!Loops = {} /\ snapshot = Proc!Zero
    BY <1>1 DEF ProcessInv, StopsInOrder
<1>3. /\ Balanced' /\ counts' = Proc!Zero
      /\ counts' \in [Proc!Rows -> Nat] /\ snapshot' \in [Proc!Rows -> Nat]
    BY <1>1, <1>2, SnapshotKeeps
<1>4. LooseTypes'
    BY <1>1, <1>3 DEF ProcessInv, LooseTypes, Proc!process, Proc!Phases
<1>5. StopsInOrder'
    BY <1>1, <1>2 DEF StopsInOrder, Proc!process
<1>6. processFaults' = 0 => NothingLeftBehind'
    BY <1>1, <1>3 DEF ProcessInv, NothingLeftBehind, Proc!InProgress, Proc!process
<1> QED
    BY <1>3, <1>4, <1>5, <1>6 DEF ProcessInv

LEMMA DisconnectStep ==
    ASSUME Proc!ShutdownAssumption, ProcessInv, Proc!Disconnect
    PROVE  ProcessInv'
<1>1. /\ phase = "last flush" /\ snapshot = Proc!Zero /\ phase' = "disconnect"
      /\ UNCHANGED <<Proc!process, Proc!metrics, code, processFaults>>
    BY DEF Proc!Disconnect
<1>2. LooseTypes' /\ Balanced'
    BY <1>1 DEF ProcessInv, LooseTypes, Balanced, Proc!process, Proc!metrics, Proc!Phases
<1>3. StopsInOrder'
    BY <1>1 DEF ProcessInv, StopsInOrder, Proc!process, Proc!metrics
<1>4. processFaults' = 0 => NothingLeftBehind'
    BY <1>1 DEF ProcessInv, NothingLeftBehind, Proc!InProgress, Proc!process, Proc!metrics
<1> QED
    BY <1>2, <1>3, <1>4 DEF ProcessInv

\* The ways out that fail, or are forced, leave with 1.
LEMMA ExitSteps ==
    ASSUME Proc!ShutdownAssumption, ProcessInv,
           Proc!Exit \/ Proc!DisconnectFails \/ Proc!ForceExit \/ Proc!SecondSignal
    PROVE  ProcessInv'
<1>1. /\ phase' = "exited" /\ UNCHANGED <<Proc!process, Proc!metrics>>
      /\ processFaults' \in 0..MaxFaults /\ (processFaults' = 0 => processFaults = 0)
      /\ \/ code' = 1
         \/ phase = "disconnect" /\ code' = code
    <2>1. CASE Proc!Exit            BY <2>1 DEF Proc!Exit, ProcessInv, LooseTypes
    <2>2. CASE Proc!DisconnectFails BY <2>2, FaultCounts DEF Proc!DisconnectFails
    <2>3. CASE Proc!ForceExit       BY <2>3 DEF Proc!ForceExit, ProcessInv, LooseTypes
    <2>4. CASE Proc!SecondSignal    BY <2>4 DEF Proc!SecondSignal, ProcessInv, LooseTypes
    <2> QED
        BY <2>1, <2>2, <2>3, <2>4
<1>2. LooseTypes' /\ Balanced'
    BY <1>1 DEF ProcessInv, LooseTypes, Balanced, Proc!process, Proc!metrics, Proc!Phases
<1>3. StopsInOrder'
    BY <1>1 DEF StopsInOrder
<1>4. processFaults' = 0 => NothingLeftBehind'
    <2>1. SUFFICES ASSUME processFaults = 0 PROVE NothingLeftBehind'
        BY <1>1
    <2>2. NothingLeftBehind /\ StopsInOrder
        BY <2>1 DEF ProcessInv
    <2>3. phase = "disconnect" => counts = Proc!Zero /\ snapshot = Proc!Zero
        BY <2>2 DEF NothingLeftBehind, StopsInOrder
    <2>4. code' = 0 => counts = Proc!Zero /\ snapshot = Proc!Zero
        BY <1>1, <2>3
    <2> QED
        BY <1>1, <2>2, <2>4 DEF NothingLeftBehind, Proc!InProgress, Proc!process, Proc!metrics
<1> QED
    BY <1>2, <1>3, <1>4 DEF ProcessInv

LEMMA ProcessSteps ==
    ASSUME Proc!ShutdownAssumption
    PROVE  ProcessInv /\ [Proc!Next]_Proc!vars => ProcessInv'
<1>1. SUFFICES ASSUME ProcessInv, [Proc!Next]_Proc!vars PROVE ProcessInv'
    OBVIOUS
<1>2. CASE UNCHANGED Proc!vars
    BY <1>1, <1>2
       DEF Proc!vars, ProcessInv, LooseTypes, Balanced, StopsInOrder, NothingLeftBehind,
           Proc!InProgress
<1>3. ASSUME NEW l \in Others, Proc!OtherBegins(l) \/ Proc!OtherEnds(l) PROVE ProcessInv'
    BY <1>1, <1>3, OtherBeginsStep, OtherEndsStep
<1>4. ASSUME NEW j \in Jobs, Proc!EndsUncounted(j) \/ Proc!Rejects(j) PROVE ProcessInv'
    BY <1>1, <1>4, EndsUncountedStep, RejectsStep
<1>5. ASSUME NEW j \in Jobs, NEW kind \in Proc!Kinds, Proc!Record(j, kind) PROVE ProcessInv'
    BY <1>1, <1>5, RecordStep
<1>6. ASSUME NEW r \in Proc!Rows, Proc!FlushRow(r) PROVE ProcessInv'
    BY <1>1, <1>6, FlushRowStep
<1>7. ASSUME NEW r \in Proc!Rows, NEW written \in BOOLEAN, Proc!FlushFails(r, written)
      PROVE ProcessInv'
    BY <1>1, <1>7, FlushFailsStep
<1>8. ASSUME NEW c \in {0, 1}, Proc!Signal(c) PROVE ProcessInv'
    BY <1>1, <1>8, SignalStep
<1>9. ASSUME Proc!Claim \/ Proc!FlushBegins \/ Proc!FlushEnds \/ Proc!StopMetrics
             \/ Proc!LastFlush \/ Proc!Disconnect
      PROVE  ProcessInv'
    BY <1>1, <1>9, ClaimStep, FlushBeginsStep, FlushEndsStep, StopMetricsStep, LastFlushStep,
       DisconnectStep
<1>10. ASSUME Proc!Exit \/ Proc!DisconnectFails \/ Proc!ForceExit \/ Proc!SecondSignal
       PROVE  ProcessInv'
    BY <1>1, <1>10, ExitSteps
<1> QED
    BY <1>1, <1>2, <1>3, <1>4, <1>5, <1>6, <1>7, <1>8, <1>9, <1>10
       DEF Proc!Next, Proc!JobEnds, Proc!FlushGoesOn, Proc!ShutdownGoesOn

LEMMA ProcessHolds == ASSUME Proc!ShutdownAssumption PROVE Proc!Spec => []ProcessInv
<1>1. Proc!Init => ProcessInv
    BY ProcessStarts
<1>2. ProcessInv /\ [Proc!Next]_Proc!vars => ProcessInv'
    BY ProcessSteps
<1> QED
    BY <1>1, <1>2, PTL DEF Proc!Spec

-----------------------------------------------------------------------------
(* The process: the theorems.                                                *)

\* Types of the shutdown: no table ever holds more than was counted.
THEOREM ProcessTypes == ASSUME Proc!ShutdownAssumption PROVE Proc!Spec => []Proc!TypeOK
<1>1. ProcessInv => Proc!TypeOK
    BY BalanceTypes
<1> QED
    BY <1>1, ProcessHolds, PTL

\* No interleaving of jobs, flushes, errors and a shutdown counts a delivery twice, and an
\* exit with 0 has written every count (metrics-service.ts 34-61, worker.ts 26-40).
THEOREM CountsKeptOnce == ASSUME Proc!ShutdownAssumption PROVE Proc!Spec => []CountsAddUp
<1>1. ASSUME ProcessInv PROVE Proc!CountedOnce
    <2>1. LooseTypes /\ Balanced
        BY <1>1 DEF ProcessInv
    <2> DEFINE sum == Proc!Plus(Proc!Plus(stored, lost), Proc!Plus(counts, snapshot))
    <2>2. ASSUME NEW r \in Proc!Rows PROVE recorded[r] = sum[r]
        <3>1. recorded[r] = stored[r] + lost[r] + counts[r] + snapshot[r]
            BY <2>1 DEF Balanced
        <3>2. sum[r] = (stored[r] + lost[r]) + (counts[r] + snapshot[r])
            BY DEF Proc!Plus
        <3> QED
            BY <2>1, <3>1, <3>2, RowTypes
    <2>3. recorded = [r \in Proc!Rows |-> recorded[r]] /\ sum = [r \in Proc!Rows |-> sum[r]]
        BY <2>1 DEF LooseTypes, Proc!Plus
    <2> QED
        BY <2>2, <2>3 DEF Proc!CountedOnce
<1>2. ASSUME ProcessInv PROVE Proc!CleanExitCountsAll
    <2>1. SUFFICES ASSUME phase = "exited", code = 0, processFaults = 0 PROVE stored = recorded
        BY DEF Proc!CleanExitCountsAll
    <2>2. LooseTypes /\ Balanced /\ NothingLeftBehind
        BY <1>2, <2>1 DEF ProcessInv
    <2>3. ASSUME NEW r \in Proc!Rows PROVE stored[r] = recorded[r]
        <3>1. lost[r] = 0 /\ counts[r] = 0 /\ snapshot[r] = 0
            BY <2>1, <2>2 DEF NothingLeftBehind, Proc!Zero
        <3>2. recorded[r] = stored[r] + lost[r] + counts[r] + snapshot[r]
            BY <2>2 DEF Balanced
        <3> QED
            BY <2>2, <3>1, <3>2, RowTypes
    <2>4. stored = [r \in Proc!Rows |-> stored[r]]
          /\ recorded = [r \in Proc!Rows |-> recorded[r]]
        BY <2>2 DEF LooseTypes
    <2> QED
        BY <2>3, <2>4
<1>3. ProcessInv => CountsAddUp
    BY <1>1, <1>2 DEF CountsAddUp, Proc!CountsAddUp
<1> QED
    BY <1>3, ProcessHolds, PTL

\* Once the pool is closed, and if no statement failed before, no run and no job is in
\* progress that could need it (worker.ts 26-40, delivery-service.ts 53-57).
THEOREM PoolIsFree == ASSUME Proc!ShutdownAssumption PROVE Proc!Spec => []QuietWhenDisconnected
<1>1. ASSUME ProcessInv PROVE QuietWhenDisconnected
    <2>1. SUFFICES ASSUME phase = "disconnect", processFaults = 0
                   PROVE  busy = {} /\ Proc!InProgress = {}
        BY DEF QuietWhenDisconnected, Proc!QuietWhenDisconnected
    <2>2. busy \subseteq Proc!Loops \cup {"metrics"} /\ busy \cap Proc!Loops = {}
          /\ "metrics" \notin busy
        BY <1>1, <2>1 DEF ProcessInv, LooseTypes, StopsInOrder
    <2>3. Proc!InProgress = batch /\ (batch # {} => "delivery" \in busy)
        BY <1>1, <2>1 DEF ProcessInv, NothingLeftBehind
    <2> QED
        BY <2>2, <2>3
<1> QED
    BY <1>1, ProcessHolds, PTL

-----------------------------------------------------------------------------
(* The order of polls: sizes.                                                *)

LEMMA SameRanks ==
    /\ \A S : Polls!IsFiniteSet(S) <=> IsFiniteSet(S)
    /\ \A S : Polls!Cardinality(S) = Cardinality(S)
BY DEF IsFiniteSet, Polls!IsFiniteSet, Cardinality, Polls!Cardinality

LEMMA DeliveriesAreFinite ==
    ASSUME Polls!PollAssumption, NEW S \in SUBSET Deliveries
    PROVE  IsFiniteSet(S) /\ Cardinality(S) \in Nat /\ Cardinality(S) <= Cardinality(Deliveries)
BY SameRanks, FS_Subset, FS_CardinalityType DEF Polls!PollAssumption

LEMMA RankingIs ==
    ASSUME Polls!PollAssumption
    PROVE  \A at : at \in Polls!Rankings <=>
              /\ at \in [Deliveries -> 1..Cardinality(Deliveries)]
              /\ \A c, d \in Deliveries : at[c] = at[d] => c = d
BY SameRanks DEF Polls!Rankings

\* There are as many rows up to a rank as the rank says.
LEMMA RanksAreCounts ==
    ASSUME Polls!PollAssumption, NEW at \in Polls!Rankings,
           NEW m \in 0..Cardinality(Deliveries)
    PROVE  Cardinality({c \in Deliveries : at[c] <= m}) = m
<1> DEFINE n == Cardinality(Deliveries)  S == {c \in Deliveries : at[c] <= m}
           b == [c \in S |-> at[c]]
<1>1. n \in Nat /\ IsFiniteSet(Deliveries) /\ IsFiniteSet(S) /\ m \in Nat /\ m <= n
  BY DeliveriesAreFinite
<1>2. /\ at \in [Deliveries -> 1..n]
      /\ \A c, d \in Deliveries : at[c] = at[d] => c = d
  BY RankingIs
<1>3. \A r \in 1..n : \E c \in Deliveries : at[c] = r
  <2>1. at \in Injection(Deliveries, 1..n)
    BY <1>2 DEF Injection, IsInjective
  <2>2. IsFiniteSet(1..n) /\ Cardinality(1..n) = n
    BY <1>1, FS_Interval
  <2>3. at \in Surjection(Deliveries, 1..n)
    BY <2>1, <2>2, FS_Injection
  <2> QED BY <2>3 DEF Surjection
<1>4. b \in Bijection(S, 1..m)
  <2>1. ASSUME NEW c \in S PROVE b[c] \in 1..m
    <3>1. at[c] \in 1..n /\ at[c] <= m
      BY <1>2
    <3> QED BY <1>1, <3>1
  <2>2. ASSUME NEW r \in 1..m PROVE \E c \in S : b[c] = r
    <3>1. r \in 1..n /\ r <= m
      BY <1>1
    <3>2. PICK c \in Deliveries : at[c] = r
      BY <1>3, <3>1
    <3>3. c \in S /\ b[c] = r
      BY <3>1, <3>2
    <3> QED BY <3>3
  <2>3. \A c, d \in S : b[c] = b[d] => c = d
    BY <1>2
  <2> QED BY <2>1, <2>2, <2>3 DEF Bijection, Injection, Surjection, IsInjective
<1>5. Cardinality(1..m) = m
  BY <1>1, FS_Interval
<1> QED BY <1>1, <1>4, <1>5, FS_Bijection DEF ExistsBijection

-----------------------------------------------------------------------------
(* The order of polls: the steps.                                            *)

\* What is in hand was due, and is until it is put off.
PollInv == Polls!TypeOK /\ \A d \in inHand : due[d]

\* The others that are due, and where they are without the row.
Ahead(d) == {k \in Deliveries \ {d} : due[k]}
Without(d, k) == IF scheduledAt[k] > scheduledAt[d] THEN scheduledAt[k] - 1 ELSE scheduledAt[k]

\* The rows that are due have the first ranks.
LEMMA DueComeFirst ==
    ASSUME Polls!PollAssumption, PollInv, NEW d \in inHand, NEW k \in Ahead(d)
    PROVE  Without(d, k) <= Cardinality(Ahead(d))
<1> DEFINE n == Cardinality(Deliveries)  r == scheduledAt[k]
           S == {c \in Deliveries : scheduledAt[c] <= r}
<1>1. /\ scheduledAt \in Polls!Rankings /\ scheduledAt \in [Deliveries -> 1..n]
      /\ \A c, e \in Deliveries : scheduledAt[c] = scheduledAt[e] => c = e
      /\ d \in Deliveries /\ k \in Deliveries /\ due[k] /\ k # d
      /\ \A c, e \in Deliveries : due[c] /\ ~due[e] => scheduledAt[c] < scheduledAt[e]
  BY RankingIs DEF PollInv, Polls!TypeOK, Ahead
<1>2. n \in Nat /\ r \in 0..n /\ r \in Nat /\ \A c \in Deliveries : scheduledAt[c] \in Nat
  BY <1>1, DeliveriesAreFinite
<1>3. Cardinality(S) = r /\ IsFiniteSet(S)
  BY <1>1, <1>2, RanksAreCounts, DeliveriesAreFinite
<1>4. S \ {d} \subseteq Ahead(d)
  <2> SUFFICES ASSUME NEW c \in Deliveries, c # d, scheduledAt[c] <= r PROVE due[c]
    BY DEF Ahead
  <2>1. ~due[c] => r < scheduledAt[c]
    BY <1>1
  <2> QED BY <1>2, <2>1
<1>5. IsFiniteSet(Ahead(d)) /\ Cardinality(Ahead(d)) \in Nat
  BY DeliveriesAreFinite DEF Ahead
<1>6. Cardinality(S \ {d}) <= Cardinality(Ahead(d)) /\ Cardinality(S \ {d}) \in Nat
  BY <1>4, <1>5, FS_Subset, FS_CardinalityType
<1>7. Cardinality(S \ {d}) = IF d \in S THEN r - 1 ELSE r
  BY <1>3, FS_RemoveElement
<1>8. d \in S <=> r > scheduledAt[d]
  <2>1. r # scheduledAt[d] /\ scheduledAt[d] \in Nat
    BY <1>1, <1>2
  <2> QED BY <1>1, <1>2, <2>1
<1> QED BY <1>2, <1>5, <1>6, <1>7, <1>8 DEF Without

\* A retry goes behind the rows that are due, and the others keep their order.
LEMMA BackoffIs ==
    ASSUME Polls!PollAssumption, PollInv, NEW d \in inHand, Polls!Backoff(d)
    PROVE  /\ scheduledAt' \in Polls!Rankings
           /\ \A c, k \in Deliveries \ {d} :
                 scheduledAt[c] < scheduledAt[k] => scheduledAt'[c] < scheduledAt'[k]
           /\ \A k \in Deliveries \ {d} : due[k] => scheduledAt'[k] < scheduledAt'[d]
<1> DEFINE n == Cardinality(Deliveries)
<1>1. /\ scheduledAt \in [Deliveries -> 1..n]
      /\ \A c, e \in Deliveries : scheduledAt[c] = scheduledAt[e] => c = e
      /\ d \in Deliveries
  BY RankingIs DEF PollInv, Polls!TypeOK
<1>2. PICK rank \in Cardinality(Ahead(d)) + 1 .. n :
        scheduledAt' = [k \in Deliveries |->
            IF k = d THEN rank
            ELSE IF Without(d, k) >= rank THEN Without(d, k) + 1 ELSE Without(d, k)]
  BY SameRanks DEF Polls!Backoff, Ahead, Without
<1>3. n \in Nat /\ Cardinality(Ahead(d)) \in Nat /\ rank \in Nat /\ rank \in 1..n
      /\ rank > Cardinality(Ahead(d))
  <2>1. n \in Nat /\ Cardinality(Ahead(d)) \in Nat
    BY DeliveriesAreFinite DEF Ahead
  <2> QED BY <2>1
<1>4. ASSUME NEW k \in Deliveries \ {d} PROVE Without(d, k) \in 1..(n - 1)
  <2>1. scheduledAt[k] \in 1..n /\ scheduledAt[d] \in 1..n /\ scheduledAt[k] # scheduledAt[d]
    BY <1>1
  <2> QED BY <1>3, <2>1 DEF Without
<1>5. ASSUME NEW c \in Deliveries \ {d}, NEW k \in Deliveries \ {d},
             scheduledAt[c] < scheduledAt[k]
      PROVE  Without(d, c) < Without(d, k)
  <2>1. /\ scheduledAt[k] \in Nat /\ scheduledAt[d] \in Nat /\ scheduledAt[c] \in Nat
        /\ scheduledAt[k] # scheduledAt[d] /\ scheduledAt[c] # scheduledAt[d]
    BY <1>1
  <2> QED BY <1>5, <2>1 DEF Without
<1>6. /\ scheduledAt'[d] = rank
      /\ \A k \in Deliveries \ {d} : scheduledAt'[k] =
            IF Without(d, k) >= rank THEN Without(d, k) + 1 ELSE Without(d, k)
  BY <1>1, <1>2
<1>7. ASSUME NEW k \in Deliveries \ {d}
      PROVE  scheduledAt'[k] \in 1..n /\ scheduledAt'[k] # rank
  BY <1>3, <1>4, <1>6
<1>8. ASSUME NEW c \in Deliveries \ {d}, NEW k \in Deliveries \ {d},
             scheduledAt[c] < scheduledAt[k]
      PROVE  scheduledAt'[c] < scheduledAt'[k]
  <2>1. Without(d, c) \in Nat /\ Without(d, k) \in Nat /\ Without(d, c) < Without(d, k)
    BY <1>3, <1>4, <1>5, <1>8
  <2> QED BY <1>3, <1>6, <2>1
<1>9. ASSUME NEW k \in Deliveries \ {d}, due[k] PROVE scheduledAt'[k] < scheduledAt'[d]
  <2>1. Without(d, k) <= Cardinality(Ahead(d)) /\ Without(d, k) \in Nat
    BY <1>3, <1>4, <1>9, DueComeFirst DEF Ahead
  <2> QED BY <1>3, <1>6, <2>1
<1>10. scheduledAt' \in Polls!Rankings
  <2>1. scheduledAt' \in [Deliveries -> 1..n]
    BY <1>2, <1>3, <1>6, <1>7
  <2>2. ASSUME NEW c \in Deliveries, NEW k \in Deliveries, scheduledAt'[c] = scheduledAt'[k]
        PROVE  c = k
    <3>1. CASE c = d \/ k = d
      BY <1>6, <1>7, <2>2, <3>1
    <3>2. CASE c # d /\ k # d
      <4>1. scheduledAt'[c] \in Nat /\ scheduledAt'[k] \in Nat
        BY <1>3, <1>7, <3>2
      <4>2. ~(scheduledAt[c] < scheduledAt[k]) /\ ~(scheduledAt[k] < scheduledAt[c])
        BY <1>8, <2>2, <3>2, <4>1
      <4>3. scheduledAt[c] \in Nat /\ scheduledAt[k] \in Nat
        BY <1>1
      <4> QED BY <1>1, <4>2, <4>3
    <3> QED BY <3>1, <3>2
  <2> QED BY <2>1, <2>2, RankingIs
<1> QED BY <1>8, <1>9, <1>10

LEMMA PollTypesAre ==
    ASSUME Polls!PollAssumption
    PROVE  PollInv <=>
              /\ status \in [Deliveries -> {"pending", "processing", "settled"}]
              /\ scheduledAt \in Polls!Rankings
              /\ due \in [Deliveries -> BOOLEAN]
              /\ retryCount \in [Deliveries -> 0..MaxAttempts]
              /\ inHand = {d \in Deliveries : status[d] = "processing"}
              /\ \A c, d \in Deliveries : due[c] /\ ~due[d] => scheduledAt[c] < scheduledAt[d]
              /\ \A d \in inHand : due[d]
BY DEF PollInv, Polls!TypeOK

LEMMA PollTakes ==
    ASSUME Polls!PollAssumption, PollInv, Polls!Poll
    PROVE  PollInv'
<1> DEFINE taken == Polls!OldestRows(BatchSize)
<1>1. taken \subseteq {d \in Deliveries : status[d] = "pending" /\ due[d]}
  BY DEF Polls!OldestRows, Polls!Claimable
<1> HIDE DEF taken
<1>2. /\ inHand = {} /\ inHand' = taken
      /\ status' = [d \in Deliveries |-> IF d \in taken THEN "processing" ELSE status[d]]
      /\ UNCHANGED <<scheduledAt, due, retryCount>>
  BY DEF Polls!Poll, taken
<1>3. \A d \in Deliveries : status[d] # "processing"
  BY <1>2, PollTypesAre
<1>4. inHand' = {d \in Deliveries : status'[d] = "processing"}
  BY <1>1, <1>2, <1>3
<1>5. status' \in [Deliveries -> {"pending", "processing", "settled"}]
  BY <1>2, PollTypesAre
<1> QED BY <1>1, <1>2, <1>4, <1>5, PollTypesAre DEF PollInv, Polls!TypeOK

LEMMA PollHandsBack ==
    ASSUME Polls!PollAssumption, PollInv, NEW d \in Deliveries,
           Polls!PutBack(d) \/ Polls!Settle(d) \/ Polls!Pull(d)
    PROVE  PollInv'
<1>1. /\ \E s \in {"pending", "settled"} : status' = [status EXCEPT ![d] = s]
      /\ inHand' = inHand \ {d}
      /\ UNCHANGED <<scheduledAt, due, retryCount>>
  BY PollTypesAre DEF Polls!PutBack, Polls!Settle, Polls!Pull, Polls!Claimable
<1>2. inHand' = {k \in Deliveries : status'[k] = "processing"}
  BY <1>1, PollTypesAre
<1>3. status' \in [Deliveries -> {"pending", "processing", "settled"}]
  BY <1>1, PollTypesAre
<1> QED BY <1>1, <1>2, <1>3, PollTypesAre DEF PollInv, Polls!TypeOK

LEMMA PollRetries ==
    ASSUME Polls!PollAssumption, PollInv, NEW d \in Deliveries, Polls!Retry(d)
    PROVE  PollInv'
<1>1. /\ d \in inHand /\ retryCount[d] < MaxAttempts /\ Polls!Backoff(d)
      /\ status' = [status EXCEPT ![d] = "pending"]
      /\ due' = [due EXCEPT ![d] = FALSE]
      /\ retryCount' = [retryCount EXCEPT ![d] = @ + 1]
      /\ inHand' = inHand \ {d}
  BY DEF Polls!Retry
<1>2. /\ scheduledAt' \in Polls!Rankings
      /\ \A c, k \in Deliveries \ {d} :
            scheduledAt[c] < scheduledAt[k] => scheduledAt'[c] < scheduledAt'[k]
      /\ \A k \in Deliveries \ {d} : due[k] => scheduledAt'[k] < scheduledAt'[d]
  BY <1>1, BackoffIs
<1>3. status' \in [Deliveries -> {"pending", "processing", "settled"}]
      /\ due' \in [Deliveries -> BOOLEAN]
  BY <1>1, PollTypesAre
<1>4. inHand' = {k \in Deliveries : status'[k] = "processing"}
  BY <1>1, PollTypesAre
<1>5. retryCount' \in [Deliveries -> 0..MaxAttempts]
  BY <1>1, PollTypesAre DEF Polls!PollAssumption
<1>6. \A k \in Deliveries : due'[k] <=> due[k] /\ k # d
  BY <1>1, PollTypesAre
<1>7. \A c, k \in Deliveries : due'[c] /\ ~due'[k] => scheduledAt'[c] < scheduledAt'[k]
  BY <1>2, <1>6, PollTypesAre
<1>8. \A k \in inHand' : due'[k]
  BY <1>1, <1>6, PollTypesAre
<1> QED BY <1>2, <1>3, <1>4, <1>5, <1>7, <1>8 DEF PollInv, Polls!TypeOK

LEMMA PollWaits ==
    ASSUME Polls!PollAssumption, PollInv, NEW d \in Deliveries, Polls!BecomeDue(d)
    PROVE  PollInv'
<1>1. /\ \A k \in Deliveries : scheduledAt[k] < scheduledAt[d] => due[k]
      /\ due' = [due EXCEPT ![d] = TRUE]
      /\ UNCHANGED <<status, scheduledAt, retryCount, inHand>>
  BY DEF Polls!BecomeDue
<1>2. due' \in [Deliveries -> BOOLEAN] /\ \A k \in Deliveries : due'[k] <=> due[k] \/ k = d
  BY <1>1, PollTypesAre
<1>3. ASSUME NEW k \in Deliveries, ~due'[k] PROVE scheduledAt[d] < scheduledAt[k]
  <2>1. k # d /\ ~(scheduledAt[k] < scheduledAt[d])
    BY <1>1, <1>2, <1>3
  <2>2. scheduledAt[k] \in Nat /\ scheduledAt[d] \in Nat /\ scheduledAt[k] # scheduledAt[d]
    <3>1. /\ scheduledAt \in [Deliveries -> 1..Cardinality(Deliveries)]
          /\ \A c, e \in Deliveries : scheduledAt[c] = scheduledAt[e] => c = e
      BY RankingIs, PollTypesAre
    <3> QED BY <2>1, <3>1
  <2> QED BY <2>1, <2>2
<1>4. \A c, k \in Deliveries : due'[c] /\ ~due'[k] => scheduledAt'[c] < scheduledAt'[k]
  BY <1>1, <1>2, <1>3, PollTypesAre
<1>5. \A k \in inHand' : due'[k]
  BY <1>1, <1>2, PollTypesAre
<1> QED BY <1>1, <1>2, <1>4, <1>5, PollTypesAre DEF PollInv, Polls!TypeOK

LEMMA PollStarts == ASSUME Polls!PollAssumption PROVE Polls!Init => PollInv
BY DEF Polls!Init, PollInv, Polls!TypeOK, Polls!PollAssumption

LEMMA PollStays ==
    ASSUME Polls!PollAssumption
    PROVE  PollInv /\ [Polls!Next]_Polls!vars => PollInv'
<1> SUFFICES ASSUME PollInv, [Polls!Next]_Polls!vars PROVE PollInv'
  OBVIOUS
<1>1. CASE Polls!Poll
  BY <1>1, PollTakes
<1>2. ASSUME NEW d \in Deliveries, Polls!Handle(d) PROVE PollInv'
  BY <1>2, PollHandsBack, PollRetries DEF Polls!Handle
<1>3. ASSUME NEW d \in Deliveries, Polls!BecomeDue(d) \/ Polls!Pull(d) PROVE PollInv'
  BY <1>3, PollHandsBack, PollWaits
<1>4. CASE UNCHANGED Polls!vars
  BY <1>4 DEF Polls!vars, PollInv, Polls!TypeOK
<1> QED BY <1>1, <1>2, <1>3, <1>4 DEF Polls!Next

\* A retry, wherever it falls among the rows to come, stays behind those that are due,
\* and the worker holds the rows that read 'processing' (postgres-queue-engine.ts 26-63).
THEOREM PollTypes == ASSUME Polls!PollAssumption PROVE Polls!Spec => []Polls!TypeOK
BY PollStarts, PollStays, PTL DEF Polls!Spec, PollInv

\* Of rows the worker may push, the oldest has none before it but those it may not.
LEMMA SomePushIsFirst ==
    ASSUME Polls!PollAssumption, PollInv, Polls!Claimable \ Unpushable # {}
    PROVE  \E d \in Polls!Claimable \ Unpushable : Polls!Older(d) \subseteq Unpushable
<1> DEFINE pushes == Polls!Claimable \ Unpushable
           ranks == {scheduledAt[k] : k \in pushes}
<1>1. pushes \subseteq Deliveries /\ \A k \in Deliveries : scheduledAt[k] \in Nat
  BY PollTypesAre, RankingIs, DeliveriesAreFinite DEF Polls!Claimable
<1>2. ranks \in SUBSET Nat /\ ranks # {}
  BY <1>1
<1>3. PICK m \in ranks : \A n \in ranks : m <= n
  BY <1>2, Least
<1>4. PICK d \in pushes : scheduledAt[d] = m
  BY <1>3
<1>5. ASSUME NEW k \in Polls!Older(d), k \notin Unpushable
      PROVE  FALSE
  <2>1. k \in pushes /\ scheduledAt[k] < scheduledAt[d]
    BY <1>5 DEF Polls!Older
  <2>2. m <= scheduledAt[k] /\ m \in Nat /\ scheduledAt[k] \in Nat
    BY <1>1, <1>2, <1>3, <2>1
  <2> QED BY <1>4, <2>1, <2>2
<1> QED BY <1>4, <1>5

\* Rows that nobody pulls do not keep pushes from the worker as long as they leave room in
\* a batch, however many rows there are and however retries fall between them, and each
\* push that was taken is nearer to its end (postgres-queue-engine.ts 45-54,
\* delivery-service.ts 73-81).
THEOREM PushesGetOn == ASSUME Polls!PollAssumption PROVE Polls!Spec => PushesGetCloser
<1>1. ASSUME PollInv, Polls!Poll, Cardinality(Unpushable) < BatchSize,
             Polls!Claimable \ Unpushable # {}
      PROVE  inHand' \ Unpushable # {}
  <2>1. PICK d \in Polls!Claimable \ Unpushable : Polls!Older(d) \subseteq Unpushable
    BY <1>1, SomePushIsFirst
  <2>2. /\ IsFiniteSet(Unpushable) /\ Cardinality(Unpushable) \in Nat
        /\ Cardinality(Polls!Older(d)) \in Nat /\ BatchSize \in Nat
    BY DeliveriesAreFinite DEF Polls!PollAssumption, Polls!Older, Polls!Claimable
  <2>3. Cardinality(Polls!Older(d)) <= Cardinality(Unpushable)
    BY <2>1, <2>2, FS_Subset
  <2>4. Cardinality(Polls!Older(d)) < BatchSize
    BY <1>1, <2>2, <2>3
  <2>5. d \in Polls!OldestRows(BatchSize)
    BY <2>1, <2>4, SameRanks DEF Polls!OldestRows
  <2> QED BY <1>1, <2>1, <2>5 DEF Polls!Poll
<1>2. ASSUME PollInv, Polls!Next,
             NEW d \in inHand \ (Unpushable \cup inHand')
      PROVE  status'[d] = "settled" \/ retryCount'[d] = retryCount[d] + 1
  <2>1. ~Polls!Poll
    BY <1>2 DEF Polls!Poll
  <2>2. ASSUME NEW k \in Deliveries, Polls!PutBack(k) \/ Polls!BecomeDue(k) \/ Polls!Pull(k)
        PROVE  FALSE
    BY <1>2, <2>2 DEF Polls!PutBack, Polls!BecomeDue, Polls!Pull
  <2>3. ASSUME NEW k \in Deliveries, Polls!Settle(k) \/ Polls!Retry(k)
        PROVE  status'[d] = "settled" \/ retryCount'[d] = retryCount[d] + 1
    <3>1. d = k
      BY <1>2, <2>3 DEF Polls!Settle, Polls!Retry
    <3> QED BY <2>3, <3>1, <1>2, PollTypesAre DEF Polls!Settle, Polls!Retry
  <2> QED BY <1>2, <2>1, <2>2, <2>3 DEF Polls!Next, Polls!Handle
<1>3. ASSUME PollInv, Polls!Next, NEW d \in Deliveries
      PROVE  /\ status[d] = "settled" => status'[d] = "settled"
             /\ retryCount'[d] >= retryCount[d]
  <2>1. /\ retryCount[d] \in Nat /\ status[d] \in {"pending", "processing", "settled"}
        /\ \A k \in inHand : status[k] = "processing"
    BY <1>3, PollTypesAre DEF Polls!PollAssumption
  <2>2. CASE Polls!Poll
    BY <2>1, <2>2 DEF Polls!Poll, Polls!OldestRows, Polls!Claimable
  <2>3. ASSUME NEW k \in Deliveries,
               Polls!PutBack(k) \/ Polls!Settle(k) \/ Polls!BecomeDue(k) \/ Polls!Pull(k)
        PROVE  /\ status[d] = "settled" => status'[d] = "settled"
               /\ retryCount'[d] >= retryCount[d]
    <3>1. UNCHANGED retryCount
      BY <2>3 DEF Polls!PutBack, Polls!Settle, Polls!BecomeDue, Polls!Pull
    <3>2. status[d] = "settled" => status'[d] = "settled"
      BY <1>3, <2>1, <2>3, PollTypesAre
         DEF Polls!PutBack, Polls!Settle, Polls!BecomeDue, Polls!Pull, Polls!Claimable
    <3> QED BY <2>1, <3>1, <3>2
  <2>4. ASSUME NEW k \in Deliveries, Polls!Retry(k)
        PROVE  /\ status[d] = "settled" => status'[d] = "settled"
               /\ retryCount'[d] >= retryCount[d]
    <3>1. /\ k \in inHand
          /\ status' = [status EXCEPT ![k] = "pending"]
          /\ retryCount' = [retryCount EXCEPT ![k] = @ + 1]
      BY <2>4 DEF Polls!Retry
    <3> QED BY <1>3, <2>1, <3>1, PollTypesAre
  <2> QED BY <1>3, <2>2, <2>3, <2>4 DEF Polls!Next, Polls!Handle
<1>4. ASSUME PollInv, [Polls!Next]_Polls!vars
      PROVE  [/\ Polls!Poll /\ Polls!Cardinality(Unpushable) < BatchSize =>
                    (Polls!Claimable \ Unpushable # {} => inHand' \ Unpushable # {})
              /\ \A d \in inHand \ (Unpushable \cup inHand') :
                    status'[d] = "settled" \/ retryCount'[d] = retryCount[d] + 1
              /\ \A d \in Deliveries :
                    /\ status[d] = "settled" => status'[d] = "settled"
                    /\ retryCount'[d] >= retryCount[d]]_Polls!vars
  BY <1>1, <1>2, <1>3, <1>4, SameRanks
<1> QED BY <1>4, PollStarts, PollStays, PTL DEF Polls!Spec, PushesGetCloser, Polls!PushesGetCloser

-----------------------------------------------------------------------------
(* Side by side.                                                             *)

\* A behaviour of the combination that is model-checked is one of each part, so what is
\* proved of the loop, the scheduler, the process and the polls holds of it.
THEOREM PartsStandAlone == SideBySide => Spec /\ Cron!Spec /\ Proc!Spec /\ Polls!Spec
<1>1. SideBySideInit => Init /\ Cron!Init /\ Proc!Init /\ Polls!Init
    BY DEF SideBySideInit
<1>2. UNCHANGED schedulerVars <=> UNCHANGED Cron!vars
    BY DEF schedulerVars, Cron!vars, Cron!tables
<1>3. UNCHANGED processVars <=> UNCHANGED Proc!vars
    BY DEF processVars, Proc!vars
<1>4. UNCHANGED pollVars <=> UNCHANGED Polls!vars
    BY DEF pollVars, Polls!vars
<1>5. ASSUME [SideBySideNext]_allVars PROVE [Next]_vars
    BY <1>5 DEF SideBySideNext, TaskNext, allVars
<1>6. ASSUME [SideBySideNext]_allVars PROVE [Cron!Next]_Cron!vars
    BY <1>2, <1>6 DEF SideBySideNext, SchedulerNext, allVars
<1>7. ASSUME [SideBySideNext]_allVars PROVE [Proc!Next]_Proc!vars
    BY <1>3, <1>7 DEF SideBySideNext, ProcessNext, allVars
<1>8. ASSUME [SideBySideNext]_allVars PROVE [Polls!Next]_Polls!vars
    BY <1>4, <1>8 DEF SideBySideNext, PollNext, allVars
<1> QED
    BY <1>1, <1>5, <1>6, <1>7, <1>8, PTL DEF SideBySide, Spec, Cron!Spec, Proc!Spec, Polls!Spec

\* Every turn of the scheduler and of the polls that finds work gets on with some of it, in
\* the combination as in its parts.
THEOREM TurnsAlwaysGetOn ==
    ASSUME Cron!SchedulerAssumption, Polls!PollAssumption
    PROVE  SideBySide => TurnsGetOn
BY PartsStandAlone, FiredIsMovedOn, PushesGetOn, PTL DEF TurnsGetOn

\* Types of all the parts, whichever of them moves.
THEOREM TypesHold ==
    ASSUME Parts \subseteq {"task", "scheduler", "process", "cleanup", "migrated", "poll"},
           Polls!PollAssumption, Cron!SchedulerAssumption, Proc!ShutdownAssumption,
           Cleaning!CleanupAssumption
    PROVE  SideBySide => []TypesOK
<1>1. SideBySideInit => part \in Parts
    BY DEF SideBySideInit
<1>2. part \in Parts /\ [SideBySideNext]_allVars => (part \in Parts)'
    BY DEF SideBySideNext, allVars, TaskNext, SchedulerNext, ProcessNext, CleanupNext, PollNext
<1>3. ASSUME part \in Parts, TypeOK, Cron!TypeOK, Proc!TypeOK, Cleaning!TypeOK, Polls!TypeOK
      PROVE  TypesOK
    BY <1>3 DEF TypesOK
<1>4. Spec => []TypeOK
    BY LoopTypes
<1>5. Cron!Spec => []Cron!TypeOK
    BY TypeCorrect
<1>6. Proc!Spec => []Proc!TypeOK
    BY ProcessTypes
<1>7. Polls!Spec => []Polls!TypeOK
    BY PollTypes
<1>8. SideBySide => []Cleaning!TypeOK
    BY CleanupTypes
<1> QED
    BY <1>1, <1>2, <1>3, <1>4, <1>5, <1>6, <1>7, <1>8, PartsStandAlone, PTL DEF SideBySide
===============================================================================
