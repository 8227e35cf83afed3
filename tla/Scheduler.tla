------------------------------ MODULE Scheduler ------------------------------
(***************************************************************************)
(* Recurring events: ScheduleService.create, and SchedulerService in       *)
(* several worker processes.  A worker's task reads a batch of due         *)
(* schedules and fires them at once; to fire is to insert an event, read   *)
(* the topic's consumers, insert their deliveries, parse the cron          *)
(* expression and move next_run, with no transaction and no lock.  An      *)
(* error ends the firing, is logged and forgotten.                         *)
(*                                                                         *)
(* A SLOT is the next_run a worker read: the time it fires for.  Time is a *)
(* counter, a cron expression "each Period", or one that does not parse:   *)
(* CreateScheduleSchema only looks at its length.                          *)
(***************************************************************************)
EXTENDS Naturals, FiniteSets

CONSTANTS
    Schedules,
    Seeded,             \* rows that were given a next_run in the database by hand
    BadCron,            \* schedules whose cron the parser rejects
    Consumers,          \* of the topic
    Workers,
    BatchSize,          \* WORKER_SCHEDULER_BATCH_SIZE
    ConsumerLimit,      \* WORKER_SCHEDULER_CONSUMER_LIMIT
    Period,
    LateUpdates,        \* TRUE: a firing may last into the next slot
    MaxTime,            \* bound on the clock
    FireCap,            \* events of one slot are not told apart beyond it
    MaxFaults           \* bound on crashes and failing database calls

SchedulerAssumption ==
    /\ Seeded \subseteq Schedules
    /\ BadCron \subseteq Schedules
    /\ IsFiniteSet(Schedules) /\ IsFiniteSet(Consumers) /\ IsFiniteSet(Workers)
    /\ BatchSize \in Nat \ {0}
    /\ ConsumerLimit \in Nat \ {0}
    /\ Period \in Nat \ {0}
    /\ LateUpdates \in BOOLEAN
    /\ MaxTime \in Nat \ {0}
    /\ FireCap \in Nat
    /\ Cardinality(Workers) + MaxFaults < FireCap
    /\ MaxFaults \in Nat

VARIABLES
    created,        \* schedules whose row exists
    nextRun,        \* schedules.next_run, 0 for null
    lastRuns,       \* the slots a schedule's last_run was written for
    fires,          \* how many events were inserted for a slot
    reached,        \* <<schedule, slot, consumer>> with a delivery
    deleted,        \* consumers with a deleted_at
    job,            \* what a worker does for a schedule of its batch
    now,
    faults

tables == <<created, nextRun, lastRuns, fires, reached, deleted>>
vars   == <<tables, job, now, faults>>

Times == 1..MaxTime
Null  == 0

NoJob == [pc |-> "none", slot |-> Null, reach |-> {}, next |-> Null]
PCs   == {"none", "creating", "reading", "enqueueing", "parsing", "updating"}
JobRecords == [pc : PCs, slot : Nat, reach : SUBSET Consumers, next : Nat]

At(w, s, pc) == job[w][s].pc = pc
Firing(w) == \E s \in Schedules : ~At(w, s, "none")
SetJob(w, s, j) == job' = [job EXCEPT ![w][s] = j]
Goto(w, s, pc) == job' = [job EXCEPT ![w][s].pc = pc]

Init ==
    /\ created = Seeded
    /\ nextRun = [s \in Schedules |-> IF s \in Seeded THEN 1 ELSE Null]
    /\ lastRuns = [s \in Schedules |-> {}]
    /\ fires = [s \in Schedules |-> [t \in Times |-> 0]]
    /\ reached = {}
    /\ deleted = {}
    /\ job = [w \in Workers |-> [s \in Schedules |-> NoJob]]
    /\ now = 1
    /\ faults = 0

\* POST /v1/schedules: next_run is left null.
CreateSchedule(s) ==
    /\ s \notin created
    /\ created' = created \cup {s}
    /\ UNCHANGED <<nextRun, lastRuns, fires, reached, deleted, job, now, faults>>

Due(s) == s \in created /\ nextRun[s] # Null /\ nextRun[s] <= now

\* The BatchSize due schedules with the oldest next_run, of any tenant.
FindDue ==
    LET due == {s \in Schedules : Due(s)}
        oldest(batch) == \A s \in batch, other \in due \ batch : nextRun[s] <= nextRun[other]
    IN  {batch \in SUBSET due :
            /\ oldest(batch)
            /\ \/ batch = due /\ Cardinality(due) <= BatchSize
               \/ Cardinality(batch) = BatchSize}

ProcessDueSchedules(w) ==
    /\ ~Firing(w)
    /\ \E batch \in FindDue :
          /\ batch # {}
          /\ job' = [job EXCEPT ![w] = [s \in Schedules |->
                        IF s \in batch THEN [NoJob EXCEPT !.pc = "creating",
                                                          !.slot = nextRun[s]]
                        ELSE NoJob]]
    /\ UNCHANGED <<tables, now, faults>>

CreateEvent(w, s) ==
    /\ At(w, s, "creating")
    /\ fires' = [fires EXCEPT ![s][job[w][s].slot] = IF @ < FireCap THEN @ + 1 ELSE @]
    /\ Goto(w, s, "reading")
    /\ UNCHANGED <<created, nextRun, lastRuns, reached, deleted, now, faults>>

\* Paused consumers get it too.
FindByTopicId ==
    LET found == Consumers \ deleted
    IN  {page \in SUBSET found :
            \/ page = found /\ Cardinality(found) <= ConsumerLimit
            \/ Cardinality(page) = ConsumerLimit}

ReadConsumers(w, s) ==
    /\ At(w, s, "reading")
    /\ \E page \in FindByTopicId :
          SetJob(w, s, [job[w][s] EXCEPT
                !.reach = page, !.pc = IF page = {} THEN "parsing" ELSE "enqueueing"])
    /\ UNCHANGED <<tables, now, faults>>

Enqueue(w, s, c) ==
    /\ At(w, s, "enqueueing")
    /\ c \in job[w][s].reach
    /\ reached' = reached \cup {<<s, job[w][s].slot, c>>}
    /\ SetJob(w, s, [job[w][s] EXCEPT
            !.reach = @ \ {c},
            !.pc = IF job[w][s].reach = {c} THEN "parsing" ELSE "enqueueing"])
    /\ UNCHANGED <<created, nextRun, lastRuns, fires, deleted, now, faults>>

\* Mutant: the present counts as next.
NextFrom(t) == ((t + Period - 1) \div Period) * Period

\* The first time after t at which the cron expression holds.
NextAfter(t) == (t \div Period + 1) * Period

\* The next run is counted from the clock, not from the slot: slots missed while no
\* worker ran are not made up for.
ParseCron(w, s) ==
    /\ At(w, s, "parsing")
    /\ s \notin BadCron
    /\ SetJob(w, s, [job[w][s] EXCEPT !.pc = "updating", !.next = NextAfter(now)])
    /\ UNCHANGED <<tables, now, faults>>

\* Mutant: the error ends the batch, not the firing.
RejectCronAndBatch(w, s) ==
    /\ At(w, s, "parsing")
    /\ s \in BadCron
    /\ job' = [job EXCEPT ![w] = [other \in Schedules |-> NoJob]]
    /\ UNCHANGED <<tables, now, faults>>

\* The parser throws after the deliveries are enqueued: next_run stays, and the
\* schedule is due again at once.
RejectCron(w, s) ==
    /\ At(w, s, "parsing")
    /\ s \in BadCron
    /\ SetJob(w, s, NoJob)
    /\ UNCHANGED <<tables, now, faults>>

\* Mutant: last_run takes the new next_run.
UpdateScheduleAhead(w, s) ==
    /\ At(w, s, "updating")
    /\ nextRun' = [nextRun EXCEPT ![s] = job[w][s].next]
    /\ lastRuns' = [lastRuns EXCEPT ![s] = @ \cup {job[w][s].next}]
    /\ SetJob(w, s, NoJob)
    /\ UNCHANGED <<created, fires, reached, deleted, now, faults>>

UpdateSchedule(w, s) ==
    /\ At(w, s, "updating")
    /\ nextRun' = [nextRun EXCEPT ![s] = job[w][s].next]
    /\ lastRuns' = [lastRuns EXCEPT ![s] = @ \cup {job[w][s].slot}]
    /\ SetJob(w, s, NoJob)
    /\ UNCHANGED <<created, fires, reached, deleted, now, faults>>

\* Mutant: a failed INSERT is swallowed before the schedule is moved on.
FireFailsOn(w, s) ==
    /\ ~At(w, s, "none")
    /\ SetJob(w, s, [job[w][s] EXCEPT !.pc = "parsing", !.reach = {}])
    /\ UNCHANGED tables

\* A call throws: the firing ends.  Of a fan-out, any of the other INSERTs land.
FireFails(w, s) ==
    /\ ~At(w, s, "none")
    /\ SetJob(w, s, NoJob)
    /\ \E landed \in SUBSET job[w][s].reach :
          reached' = reached \cup {<<s, job[w][s].slot, c>> : c \in landed}
    /\ UNCHANGED <<created, nextRun, lastRuns, fires, deleted>>

DbError ==
    /\ faults < MaxFaults
    /\ faults' = faults + 1
    /\ \E w \in Workers, s \in Schedules : FireFails(w, s)
    /\ UNCHANGED now

Crash(w) ==
    /\ Firing(w)
    /\ faults < MaxFaults
    /\ faults' = faults + 1
    /\ job' = [job EXCEPT ![w] = [s \in Schedules |-> NoJob]]
    /\ UNCHANGED <<tables, now>>

DeleteConsumer(c) ==
    /\ c \notin deleted
    /\ deleted' = deleted \cup {c}
    /\ UNCHANGED <<created, nextRun, lastRuns, fires, reached, job, now, faults>>

Tick ==
    /\ now < MaxTime
    /\ LateUpdates \/ NextAfter(now) > now + 1 \/ \A w \in Workers : ~Firing(w)
    /\ now' = now + 1
    /\ UNCHANGED <<tables, job, faults>>

Fire(w, s) ==
    \/ CreateEvent(w, s)
    \/ ReadConsumers(w, s)
    \/ \E c \in Consumers : Enqueue(w, s, c)
    \/ ParseCron(w, s)
    \/ RejectCron(w, s)
    \/ UpdateSchedule(w, s)

WorkerStep(w) == ProcessDueSchedules(w) \/ \E s \in Schedules : Fire(w, s)

Next ==
    \/ \E w \in Workers : WorkerStep(w) \/ Crash(w)
    \/ DbError
    \/ \E s \in Schedules : CreateSchedule(s)
    \/ \E c \in Consumers : DeleteConsumer(c)
    \/ Tick

Spec == Init /\ [][Next]_vars

\* The task's timer keeps firing, and every call returns.
FairSpec == Spec /\ \A w \in Workers : WF_vars(WorkerStep(w))

-----------------------------------------------------------------------------
(* Properties.                                                               *)

\* Types; what exists belongs to a schedule that does.
TypeOK ==
    /\ created \subseteq Schedules
    /\ nextRun \in [Schedules -> Nat]
    /\ \A s \in Schedules \ created : nextRun[s] = Null
    /\ \A s \in Schedules : lastRuns[s] \subseteq {t \in Times : t <= now /\ fires[s][t] > 0}
    /\ fires \in [Schedules -> [Times -> 0..FireCap]]
    /\ reached \subseteq Schedules \X Times \X Consumers
    /\ deleted \subseteq Consumers
    /\ job \in [Workers -> [Schedules -> JobRecords]]
    /\ now \in Times
    /\ faults \in Nat

\* A run that last_run records has reached every consumer of the topic, though event,
\* deliveries and next_run are written one after the other and any of them may fail
\* (scheduler-service.ts 65-97).
RecordedRunReachedAll ==
    Cardinality(Consumers) <= ConsumerLimit =>
        \A s \in Schedules : \A t \in lastRuns[s] : \A c \in Consumers \ deleted :
            <<s, t, c>> \in reached

\* Two workers fire a slot twice, a failed firing is repeated, and that is all: if
\* firings end before the next slot, a slot has at most one event per worker and fault.
FiresBounded ==
    \A s \in Schedules \ BadCron, t \in Times :
        fires[s][t] <= Cardinality(Workers) + faults

\* A batch that is read while good schedules are due has one of them, as long as those whose
\* cron does not parse leave room, and a firing of a good one that meets no fault ends with
\* next_run beyond its slot, however late it ends (scheduler-service.ts 33-51, 84-97).
FiringsMoveOn ==
    [][\A w \in Workers :
         /\ /\ ProcessDueSchedules(w) /\ Cardinality(BadCron) < BatchSize
            /\ \E s \in Schedules \ BadCron : Due(s)
            => \E s \in Schedules \ BadCron : job'[w][s].pc = "creating"
         /\ \A s \in Schedules \ BadCron :
              /\ ~At(w, s, "none")
              /\ job'[w][s].pc = "none"
              /\ faults' = faults
              => nextRun'[s] > job[w][s].slot]_vars

\* A due schedule fires and is moved on, whatever else is due.
DueIsFired ==
    \A s \in Schedules \ BadCron : Due(s) ~> nextRun[s] > now
=============================================================================
