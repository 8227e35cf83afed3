------------------------------- MODULE MCWorker -------------------------------
(***************************************************************************)
(* The worker around its queue, checked side by side: the loop under every *)
(* service (RecurringTask), the service that fires schedules (Scheduler),  *)
(* the clean-up (Cleanup), the order in which due rows are polled          *)
(* (PollOrder), and a process that counts what it delivers and shuts down  *)
(* (WorkerShutdown).  The five share no variable.  "part" says which one a *)
(* behaviour is about; the others rest in an initial state of theirs, so a *)
(* behaviour of this module is one of the part that moves, and every       *)
(* property is asked of each part as if the part were alone.               *)
(***************************************************************************)
EXTENDS RecurringTask, TLC

CONSTANTS
    Parts,
    Schedules, Seeded, BadCron, Consumers, Workers, BatchSize, ConsumerLimit,
    Period, LateUpdates, MaxTime, FireCap, MaxFaults,           \* of Scheduler
    Tenants, Jobs, Others, MaxRecords,          \* of WorkerShutdown
    Firsts, FirstDays, LastDay, Busy, Retention,     \* of Cleanup
    Deliveries, Unpushable, MaxAttempts         \* of PollOrder

\* January to June.
Calendar == <<1, 32, 60, 91, 121, 152>>

VARIABLES
    part,
    created, nextRun, lastRuns, fires, reached, deleted, firing, now, schedulerFaults,
    on, busy, job, batch, counts, snapshot, stored, phase, code, recorded, lost, processFaults,
    day, step, expired, partitions, rows, letters, inTime, ticked, cleanupFaults,
    status, scheduledAt, due, retryCount, inHand

schedulerVars ==
    <<created, nextRun, lastRuns, fires, reached, deleted, firing, now, schedulerFaults>>
processVars ==
    <<on, busy, job, batch, counts, snapshot, stored, phase, code, recorded, lost, processFaults>>
cleanupVars ==
    <<day, step, expired, partitions, rows, letters, inTime, ticked, cleanupFaults>>
pollVars == <<status, scheduledAt, due, retryCount, inHand>>

Cron     == INSTANCE Scheduler WITH job <- firing, faults <- schedulerFaults
Proc     == INSTANCE WorkerShutdown WITH faults <- processFaults
Polls    == INSTANCE PollOrder
\* The database as the service takes it to be, and as the migrations make it.
Migrated == {"events", "event_deliveries", "dead_letter_events", "project_metrics"}
Cleaning == INSTANCE Cleanup WITH
                faults <- cleanupFaults,
                Partitioned <- TRUE, Tables <- Migrated \cup {"tenant_metrics"}
OnMigrated == INSTANCE Cleanup WITH
                faults <- cleanupFaults,
                Partitioned <- FALSE, Tables <- Migrated

ASSUME
    /\ Parts \subseteq {"task", "scheduler", "process", "cleanup", "migrated", "poll"}
    /\ Polls!PollAssumption
    /\ Cron!SchedulerAssumption
    /\ Proc!ShutdownAssumption
    /\ Cleaning!CleanupAssumption

SideBySideInit ==
    /\ part \in Parts
    /\ Init
    /\ Cron!Init
    /\ Proc!Init
    /\ IF part = "migrated" THEN OnMigrated!Init ELSE Cleaning!Init
    /\ Polls!Init
    /\ part \notin {"cleanup", "migrated"} => \A d \in FirstDays : day <= d
    /\ part # "poll" => scheduledAt = CHOOSE at \in Polls!Rankings : TRUE

TaskNext      == part = "task"      /\ Next
SchedulerNext == part = "scheduler" /\ Cron!Next
ProcessNext   == part = "process"   /\ Proc!Next
PollNext      == part = "poll"      /\ Polls!Next
CleanupNext ==
    \/ part = "cleanup"  /\ Cleaning!Next
    \/ part = "migrated" /\ OnMigrated!Next

SideBySideNext ==
    \/ TaskNext      /\ UNCHANGED <<part, schedulerVars, processVars, cleanupVars, pollVars>>
    \/ SchedulerNext /\ UNCHANGED <<part, vars, processVars, cleanupVars, pollVars>>
    \/ ProcessNext   /\ UNCHANGED <<part, vars, schedulerVars, cleanupVars, pollVars>>
    \/ CleanupNext   /\ UNCHANGED <<part, vars, schedulerVars, processVars, pollVars>>
    \/ PollNext      /\ UNCHANGED <<part, vars, schedulerVars, processVars, cleanupVars>>

allVars == <<part, vars, schedulerVars, processVars, cleanupVars, pollVars>>

SideBySide == SideBySideInit /\ [][SideBySideNext]_allVars

\* The fairness of each part, for the behaviours that are about it.
FairSideBySide ==
    /\ SideBySide
    /\ WF_vars(part = "task" /\ \E t \in Timers : Fire(t))
    /\ WF_vars(part = "task" /\ \E r \in Runs : RunEnds(r))
    /\ WF_vars(part = "task" /\ \E r \in Runs : Finally(r))
    /\ \A c \in Callers : WF_vars(part = "task" /\ Resolve(c))
    /\ \A w \in Workers : WF_schedulerVars(part = "scheduler" /\ Cron!WorkerStep(w))
    /\ \A l \in Others : WF_processVars(part = "process" /\ Proc!OtherEnds(l))
    /\ \A j \in Jobs : WF_processVars(part = "process" /\ Proc!JobEnds(j))
    /\ WF_processVars(part = "process" /\ Proc!FlushGoesOn)
    /\ WF_processVars(part = "process" /\ Proc!ShutdownGoesOn)
    /\ WF_pollVars(part = "poll" /\ Polls!Poll)
    /\ \A d \in Deliveries :
         /\ WF_pollVars(part = "poll" /\ Polls!Handle(d))
         /\ WF_pollVars(part = "poll" /\ Polls!BecomeDue(d))

\* Workers, consumers, jobs and tenants differ in nothing.
Interchangeable ==
    Permutations(Workers) \cup Permutations(Consumers)
        \cup Permutations(Jobs) \cup Permutations(Tenants)

-----------------------------------------------------------------------------
(* The properties of the parts.                                              *)

\* Types of all five.
TypesOK ==
    CASE part = "task"      -> TypeOK
      [] part = "scheduler" -> Cron!TypeOK
      [] part = "process"   -> Proc!TypeOK
      [] part = "poll"      -> Polls!TypeOK
      [] part \in {"cleanup", "migrated"} -> Cleaning!TypeOK

\* A run that last_run records has reached every consumer (scheduler-service.ts 65-97).
RecordedRunReachedAll == Cron!RecordedRunReachedAll

\* A slot has an event per worker and fault at most (scheduler-service.ts 44-97).
FiresBounded == Cron!FiresBounded

\* A due schedule fires and is moved on, whatever else is due (scheduler-service.ts 33-51).
DueIsFired == part = "scheduler" => Cron!DueIsFired

\* What fires is moved on, and some good schedule fires (scheduler-service.ts 33-51, 84-97).
FiringsMoveOn == Cron!FiringsMoveOn

\* No delivery is counted twice, and a clean exit has written every count
\* (metrics-service.ts 34-61, worker.ts 26-40).
CountsAddUp == Proc!CountsAddUp

\* Nothing of the worker is left to work on a closed pool (worker.ts 26-40).
QuietWhenDisconnected == Proc!QuietWhenDisconnected

\* A worker that is told to stop exits without being forced to, if the database answers
\* (worker.ts 26-40, index.ts 19-39).
StopsByItself == Proc!StopsByItself

\* Rows nobody pulls, fewer than a batch holds, do not starve the pushes behind them
\* (postgres-queue-engine.ts 45-54, delivery-service.ts 73-81).
PushesAreServed == part = "poll" => Polls!PushesAreServed

\* Every poll that finds pushes due brings one of them nearer to its end
\* (postgres-queue-engine.ts 45-54).
PushesGetCloser == Polls!PushesGetCloser

\* A turn of the scheduler or of the delivery loop that finds work gets on with some of it,
\* whatever else is in its batch (scheduler-service.ts 33-51, postgres-queue-engine.ts 45-54).
TurnsGetOn == FiringsMoveOn /\ PushesGetCloser

\* A month has the partition that a tick by the 28th of the month before has made, after a
\* later tick that month or the next has one, and a dead letter has its delivery
\* (cleanup-service.ts 88-123).
CleanupLeavesWhole ==
    Cleaning!PartitionIsReady /\ Cleaning!LettersHaveRows

\* No partition, delivery or dead letter goes before its retention is over, and where
\* events is not partitioned none ever goes (cleanup-service.ts 34-36, 51-103).
NothingGoesEarly ==
    /\ Cleaning!DropsOnlyExpired
    /\ Cleaning!KeptForRetention
    /\ [][part = "migrated" => rows \subseteq rows' /\ letters \subseteq letters']_cleanupVars
=============================================================================
