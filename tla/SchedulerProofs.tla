--------------------------- MODULE SchedulerProofs ---------------------------
(***************************************************************************)
(* What the firing of schedules promises for any number of schedules,      *)
(* workers and consumers: last_run records no run that has not reached     *)
(* every consumer, and, if firings end before the next slot, a slot has    *)
(* no more events than there are workers and faults.                       *)
(*                                                                         *)
(* Nothing locks a schedule while it fires.  What bounds its events is     *)
(* that a slot is closed for good by the first update: every event of a    *)
(* slot still open is owed to a worker that is about to update, or to a    *)
(* fault.                                                                  *)
(*                                                                         *)
(* What a firing writes is beyond the slot it read, however late it is,    *)
(* and schedules that do not parse cannot fill a batch that is larger.     *)
(***************************************************************************)
EXTENDS MCWorker, FiniteSetTheorems, TLAPS

-----------------------------------------------------------------------------
(* The inductive invariants.                                                 *)

\* The steps of a firing after its event is inserted.
Fired == {"reading", "enqueueing", "parsing", "updating"}

\* Where a firing is with its slot.
JobOK(w, s) ==
    LET j == firing[w][s] IN
    /\ j.pc = "none" => j = Cron!NoJob
    /\ j.pc # "none" => s \in created /\ j.slot \in Cron!Times /\ j.slot <= now
    /\ j.pc \in Fired => fires[s][j.slot] > 0
    /\ j.pc # "enqueueing" => j.reach = {}

\* TypeOK in two halves: the tables, where lastRuns is a function besides, and the jobs.
TablesOK ==
    /\ created \subseteq Schedules
    /\ nextRun \in [Schedules -> Nat]
    /\ \A s \in Schedules \ created : nextRun[s] = Cron!Null
    /\ lastRuns \in [Schedules -> SUBSET Cron!Times]
    /\ \A s \in Schedules : \A t \in lastRuns[s] : t <= now /\ fires[s][t] > 0
    /\ fires \in [Schedules -> [Cron!Times -> 0..FireCap]]
    /\ reached \subseteq Schedules \X Cron!Times \X Consumers
    /\ deleted \subseteq Consumers
    /\ now \in Cron!Times
    /\ schedulerFaults \in Nat

JobTypes == [Workers -> [Schedules -> Cron!JobRecords]]

JobsOK ==
    /\ TablesOK /\ firing \in JobTypes
    /\ \A w \in Workers, s \in Schedules : JobOK(w, s)

\* After the look-up of consumers, whoever is not deleted is reached or to be reached.
ReachesAll(w, s) ==
    LET j == firing[w][s] IN
    j.pc \in {"enqueueing", "parsing", "updating"} =>
        \A c \in Consumers \ deleted : c \in j.reach \/ <<s, j.slot, c>> \in reached

ReachInv ==
    /\ JobsOK /\ Cron!RecordedRunReachedAll
    /\ Cardinality(Consumers) <= ConsumerLimit =>
          \A w \in Workers, s \in Schedules : ReachesAll(w, s)

\* The workers that have still to insert the event of a slot, and those that have.
Creating(s, t) == {w \in Workers : firing[w][s].pc = "creating" /\ firing[w][s].slot = t}
Updating(s, t) == {w \in Workers : firing[w][s].pc \in Fired /\ firing[w][s].slot = t}

\* A next_run that is about to be written is a slot to come, none earlier than the next.
NextIsAhead ==
    \A w \in Workers, s \in Schedules :
        Cron!At(w, s, "updating") => /\ firing[w][s].next > now
                                     /\ \E n \in Nat : firing[w][s].next = n * Period

\* While next_run shows the slot, each of its events has a worker that will move next_run,
\* or a fault; who has read the slot and not inserted yet adds one each.
OwedFor(s, t) ==
    nextRun[s] = t => fires[s][t] <= Cardinality(Updating(s, t)) + schedulerFaults

Bounded(s, t) ==
    fires[s][t] + Cardinality(Creating(s, t)) <= Cardinality(Workers) + schedulerFaults

FiresInv ==
    /\ JobsOK /\ NextIsAhead
    /\ \A s \in Schedules, t \in Cron!Times : t > now => fires[s][t] = 0
    /\ \A s \in Schedules \ BadCron, t \in Cron!Times : OwedFor(s, t) /\ Bounded(s, t)

-----------------------------------------------------------------------------
(* Types, and where each firing is.                                          *)

\* A step of a firing changes its job and no other.
LEMMA SetJobIs ==
    ASSUME firing \in JobTypes, NEW w \in Workers, NEW s \in Schedules,
           NEW j \in Cron!JobRecords,
           Cron!SetJob(w, s, j)
    PROVE  /\ firing' \in JobTypes
           /\ \A v \in Workers, u \in Schedules :
                 firing'[v][u] = IF v = w /\ u = s THEN j ELSE firing[v][u]
BY DEF JobTypes, Cron!SetJob

LEMMA GotoIs ==
    ASSUME firing \in JobTypes, NEW w \in Workers, NEW s \in Schedules, NEW pc,
           Cron!Goto(w, s, pc)
    PROVE  Cron!SetJob(w, s, [firing[w][s] EXCEPT !.pc = pc])
BY DEF JobTypes, Cron!SetJob, Cron!Goto

\* Fields of a job.
LEMMA JobFields ==
    ASSUME firing \in JobTypes, NEW w \in Workers, NEW s \in Schedules
    PROVE  /\ firing[w][s] \in Cron!JobRecords
           /\ firing[w][s].pc \in Cron!PCs /\ firing[w][s].slot \in Nat
           /\ firing[w][s].reach \subseteq Consumers /\ firing[w][s].next \in Nat
BY DEF JobTypes, Cron!JobRecords

LEMMA NoJobIs == Cron!NoJob \in Cron!JobRecords
<1>1. "none" \in Cron!PCs
  BY Zenon DEF Cron!PCs
<1>2. Cron!Null \in Nat
  BY DEF Cron!Null
<1> QED BY <1>1, <1>2 DEF Cron!NoJob, Cron!JobRecords

\* What each step of a firing makes of its job.
LEMMA FireSets ==
    ASSUME JobsOK, NEW w \in Workers, NEW s \in Schedules
    PROVE  /\ Cron!CreateEvent(w, s)
              => Cron!SetJob(w, s, [firing[w][s] EXCEPT !.pc = "reading"])
           /\ [firing[w][s] EXCEPT !.pc = "reading"] \in Cron!JobRecords
           /\ \A page \in SUBSET Consumers :
                 [firing[w][s] EXCEPT !.reach = page,
                                      !.pc = IF page = {} THEN "parsing" ELSE "enqueueing"]
                 \in Cron!JobRecords
           /\ \A c \in Consumers :
                 [firing[w][s] EXCEPT !.reach = @ \ {c},
                                      !.pc = IF firing[w][s].reach = {c} THEN "parsing"
                                             ELSE "enqueueing"]
                 \in Cron!JobRecords
           /\ \A t \in Nat : [firing[w][s] EXCEPT !.pc = "updating", !.next = t]
              \in Cron!JobRecords
BY JobFields, GotoIs DEF JobsOK, Cron!CreateEvent, Cron!JobRecords, Cron!PCs

\* A job that rests stays as it should be: nothing is undone.
LEMMA JobRests ==
    ASSUME NEW v \in Workers, NEW u \in Schedules, JobOK(v, u),
           firing'[v][u] = firing[v][u], created \subseteq created',
           now \in Nat, now' \in Nat, now' >= now,
           firing \in JobTypes, \A t \in Cron!Times : fires[u][t] > 0 => fires'[u][t] > 0
    PROVE  JobOK(v, u)'
<1>1. firing[v][u].slot \in Nat /\ firing[v][u].pc \in Cron!PCs
  BY JobFields
<1> QED BY <1>1 DEF JobOK, Fired, Cron!PCs

LEMMA TypeOKParts == JobsOK => Cron!TypeOK
BY DEF JobsOK, TablesOK, JobTypes, Cron!TypeOK

\* The instance counts as FiniteSets does.
LEMMA SameCount ==
    /\ \A S : Cron!IsFiniteSet(S) <=> IsFiniteSet(S)
    /\ \A S : Cron!Cardinality(S) = Cardinality(S)
BY DEF IsFiniteSet, Cron!IsFiniteSet, Cardinality, Cron!Cardinality

\* The bounds of what is counted.
LEMMA Constants ==
    ASSUME Cron!SchedulerAssumption
    PROVE  /\ MaxTime \in Nat \ {0} /\ Period \in Nat \ {0} /\ FireCap \in Nat
           /\ Cardinality(Workers) \in Nat /\ MaxFaults \in Nat /\ FireCap > 0
           /\ Cron!Times \subseteq Nat \ {0}
BY SameCount, FS_CardinalityType DEF Cron!SchedulerAssumption, Cron!Times

\* The next slot is a slot after the clock, and the first such slot.
LEMMA NextAfterIs ==
    ASSUME Cron!SchedulerAssumption, NEW t \in Nat
    PROVE  /\ t \div Period \in Nat /\ Cron!NextAfter(t) = (t \div Period + 1) * Period
           /\ Cron!NextAfter(t) \in Nat /\ Cron!NextAfter(t) > t
           /\ \A n \in Nat : n * Period > t => n * Period >= Cron!NextAfter(t)
<1>1. Period \in Nat /\ Period > 0
  BY Constants
<1>2. PICK q \in Nat : q = t \div Period
  BY <1>1
<1>3. q * Period <= t /\ t < (q + 1) * Period
  BY <1>1, <1>2
<1>4. ASSUME NEW n \in Nat, n * Period > t
      PROVE  n * Period >= (q + 1) * Period
  <2>1. n > q
    BY <1>1, <1>3, <1>4
  <2>2. n >= q + 1
    BY <2>1
  <2> QED BY <1>1, <2>2
<1>5. (q + 1) * Period \in Nat
  BY <1>1
<1> QED BY <1>2, <1>3, <1>4, <1>5 DEF Cron!NextAfter

LEMMA TablesRest ==
    ASSUME TablesOK, UNCHANGED <<Cron!tables, now>>, schedulerFaults' \in Nat
    PROVE  TablesOK'
BY DEF TablesOK, Cron!tables

LEMMA CreateEventTables ==
    ASSUME Cron!SchedulerAssumption, JobsOK, NEW w \in Workers, NEW s \in Schedules,
           Cron!CreateEvent(w, s)
    PROVE  /\ TablesOK'
           /\ \A u \in Schedules, t \in Cron!Times :
                 fires'[u][t] = IF u = s /\ t = firing[w][s].slot /\ fires[u][t] < FireCap
                                THEN fires[u][t] + 1 ELSE fires[u][t]
<1>1. firing[w][s].slot \in Cron!Times
  BY DEF JobsOK, JobOK, Cron!CreateEvent, Cron!At
<1>2. FireCap \in Nat
  BY Constants
<1>3. (fires \in [Schedules -> [Cron!Times -> 0..FireCap]])'
  BY <1>1, <1>2 DEF JobsOK, TablesOK, Cron!CreateEvent
<1>4. \A u \in Schedules, t \in Cron!Times :
         fires'[u][t] = IF u = s /\ t = firing[w][s].slot /\ fires[u][t] < FireCap
                        THEN fires[u][t] + 1 ELSE fires[u][t]
  BY <1>1 DEF JobsOK, TablesOK, Cron!CreateEvent
<1>5. \A u \in Schedules, t \in Cron!Times : fires[u][t] \in Nat /\ fires'[u][t] >= fires[u][t]
  BY <1>2, <1>4 DEF JobsOK, TablesOK
<1>6. (\A u \in Schedules : \A t \in lastRuns[u] : t <= now /\ fires[u][t] > 0)'
  <2> SUFFICES ASSUME NEW u \in Schedules, NEW t \in lastRuns[u]
               PROVE  t <= now /\ fires'[u][t] > 0
    BY DEF Cron!CreateEvent
  <2>1. t \in Cron!Times /\ t <= now /\ fires[u][t] > 0
    BY DEF JobsOK, TablesOK
  <2>2. fires'[u][t] \in Nat
    BY <1>2, <1>3, <2>1
  <2> QED BY <1>5, <2>1, <2>2
<1> QED BY <1>3, <1>4, <1>6 DEF JobsOK, TablesOK, Cron!CreateEvent

LEMMA EnqueueTables ==
    ASSUME JobsOK, NEW w \in Workers, NEW s \in Schedules, NEW c \in Consumers,
           Cron!Enqueue(w, s, c)
    PROVE  TablesOK'
<1>1. firing[w][s].slot \in Cron!Times
  BY DEF JobsOK, JobOK, Cron!Enqueue, Cron!At
<1> QED BY <1>1 DEF JobsOK, TablesOK, Cron!Enqueue

LEMMA UpdateTables ==
    ASSUME JobsOK, NEW w \in Workers, NEW s \in Schedules, Cron!UpdateSchedule(w, s)
    PROVE  TablesOK'
<1>1. /\ firing[w][s].slot \in Cron!Times /\ firing[w][s].slot <= now
         /\ firing[w][s].next \in Nat
      /\ fires[s][firing[w][s].slot] > 0 /\ s \in created
  BY JobFields DEF JobsOK, JobOK, Cron!UpdateSchedule, Cron!At, Fired
<1>2. (nextRun \in [Schedules -> Nat])'
      /\ (\A u \in Schedules \ created : nextRun[u] = Cron!Null)'
  BY <1>1 DEF JobsOK, TablesOK, Cron!UpdateSchedule
<1>3. /\ (lastRuns \in [Schedules -> SUBSET Cron!Times])'
      /\ (\A u \in Schedules : \A t \in lastRuns[u] : t <= now /\ fires[u][t] > 0)'
  BY <1>1 DEF JobsOK, TablesOK, Cron!UpdateSchedule
<1> QED BY <1>2, <1>3 DEF JobsOK, TablesOK, Cron!UpdateSchedule

LEMMA FireFailsTables ==
    ASSUME JobsOK, NEW w \in Workers, NEW s \in Schedules, Cron!DbError, Cron!FireFails(w, s)
    PROVE  TablesOK'
<1>1. firing[w][s].slot \in Cron!Times /\ firing[w][s].reach \subseteq Consumers
  BY JobFields DEF JobsOK, JobOK, Cron!FireFails, Cron!At
<1>2. (reached \subseteq Schedules \X Cron!Times \X Consumers)'
  BY <1>1 DEF JobsOK, TablesOK, Cron!FireFails
<1> QED BY <1>2 DEF JobsOK, TablesOK, Cron!FireFails, Cron!DbError

LEMMA OtherTables ==
    ASSUME Cron!SchedulerAssumption, JobsOK,
           (\E s \in Schedules : Cron!CreateSchedule(s))
           \/ (\E c \in Consumers : Cron!DeleteConsumer(c)) \/ Cron!Tick
    PROVE  /\ TablesOK' /\ UNCHANGED <<firing, fires, nextRun>> /\ created \subseteq created'
           /\ now' \in Nat /\ now' >= now
<1>1. /\ UNCHANGED <<firing, fires, nextRun, lastRuns, reached>> /\ created \subseteq created'
      /\ now' \in Cron!Times /\ now' >= now
  <2>1. UNCHANGED <<firing, fires, nextRun, lastRuns, reached>> /\ created \subseteq created'
    BY DEF Cron!CreateSchedule, Cron!DeleteConsumer, Cron!Tick, Cron!tables
  <2>2. now \in Nat /\ now >= 1 /\ now <= MaxTime /\ MaxTime \in Nat
    BY Constants DEF JobsOK, TablesOK, Cron!Times
  <2>3. now' = now \/ (now < MaxTime /\ now' = now + 1)
    BY Zenon DEF Cron!CreateSchedule, Cron!DeleteConsumer, Cron!Tick
  <2> QED BY <2>1, <2>2, <2>3 DEF Cron!Times
<1>2. (\A s \in Schedules : \A t \in lastRuns[s] : t <= now /\ fires[s][t] > 0)'
  <2> SUFFICES ASSUME NEW s \in Schedules, NEW t \in lastRuns[s]
               PROVE  t <= now' /\ fires[s][t] > 0
    BY <1>1
  <2>1. t \in Cron!Times /\ t <= now /\ fires[s][t] > 0 /\ now \in Cron!Times
    BY DEF JobsOK, TablesOK
  <2> QED BY <1>1, <2>1 DEF Cron!Times
<1>3. (created \subseteq Schedules /\ deleted \subseteq Consumers /\ schedulerFaults \in Nat)'
  BY DEF JobsOK, TablesOK, Cron!CreateSchedule, Cron!DeleteConsumer, Cron!Tick, Cron!tables
<1>4. TablesOK'
  BY <1>1, <1>2, <1>3 DEF JobsOK, TablesOK
<1> QED BY <1>1, <1>4 DEF Cron!Times

-----------------------------------------------------------------------------
(* Each step keeps JobsOK.                                                   *)

\* All that a step must show, when it changes the job of one worker and schedule.
LEMMA OneJobKeeps ==
    ASSUME JobsOK, TablesOK', NEW w \in Workers, NEW s \in Schedules, NEW j \in Cron!JobRecords,
           Cron!SetJob(w, s, j), created' = created, now' = now,
           \A u \in Schedules, t \in Cron!Times : fires[u][t] > 0 => fires'[u][t] > 0,
           j.pc = "none" => j = Cron!NoJob,
           j.pc # "none" => firing[w][s].pc # "none" /\ j.slot = firing[w][s].slot,
           j.pc \in Fired => fires'[s][j.slot] > 0,
           j.pc # "enqueueing" => j.reach = {}
    PROVE  JobsOK'
<1>1. /\ firing' \in JobTypes /\ firing'[w][s] = j
      /\ \A v \in Workers, u \in Schedules : v # w \/ u # s => firing'[v][u] = firing[v][u]
  BY SetJobIs DEF JobsOK
<1>2. now \in Nat
  BY DEF JobsOK, TablesOK, Cron!Times
<1>3. JobOK(w, s)'
  BY <1>1 DEF JobsOK, JobOK
<1>4. ASSUME NEW v \in Workers, NEW u \in Schedules, v # w \/ u # s
      PROVE  JobOK(v, u)'
  BY <1>1, <1>2, <1>4, JobRests DEF JobsOK
<1> QED BY <1>1, <1>3, <1>4 DEF JobsOK

LEMMA FireKeeps ==
    ASSUME Cron!SchedulerAssumption, JobsOK, NEW w \in Workers, NEW s \in Schedules,
           Cron!Fire(w, s)
    PROVE  JobsOK'
<1>1. JobOK(w, s) /\ schedulerFaults \in Nat
  BY DEF JobsOK, TablesOK
<1>2. CASE Cron!CreateEvent(w, s)
  <2> DEFINE j == [firing[w][s] EXCEPT !.pc = "reading"]
  <2>1. Cron!SetJob(w, s, j) /\ j \in Cron!JobRecords /\ TablesOK'
    BY <1>2, FireSets, CreateEventTables
  <2>2. /\ firing[w][s].pc = "creating" /\ created' = created /\ now' = now
        /\ firing[w][s].slot \in Cron!Times /\ firing[w][s].reach = {}
    BY <1>1, <1>2 DEF Cron!CreateEvent, Cron!At, JobOK
  <2>3. j.pc = "reading" /\ j.slot = firing[w][s].slot /\ j.reach = firing[w][s].reach
    BY JobFields DEF JobsOK, Cron!JobRecords
  <2>4. \A u \in Schedules, t \in Cron!Times :
           /\ fires[u][t] > 0 => fires'[u][t] > 0
           /\ u = s /\ t = firing[w][s].slot => fires'[u][t] > 0
    <3> SUFFICES ASSUME NEW u \in Schedules, NEW t \in Cron!Times
                 PROVE  /\ fires[u][t] > 0 => fires'[u][t] > 0
                        /\ u = s /\ t = firing[w][s].slot => fires'[u][t] > 0
      OBVIOUS
    <3>1. fires[u][t] \in Nat /\ FireCap \in Nat /\ FireCap > 0
      BY Constants DEF JobsOK, TablesOK
    <3> QED BY <1>2, <3>1, CreateEventTables
  <2>5. j.pc \in Fired => fires'[s][j.slot] > 0
    BY <2>2, <2>3, <2>4
  <2> HIDE DEF j
  <2> QED BY <2>1, <2>2, <2>3, <2>4, <2>5, OneJobKeeps
<1>3. CASE Cron!ReadConsumers(w, s)
  <2>1. PICK page \in Cron!FindByTopicId :
          Cron!SetJob(w, s, [firing[w][s] EXCEPT
                     !.reach = page, !.pc = IF page = {} THEN "parsing" ELSE "enqueueing"])
    BY <1>3 DEF Cron!ReadConsumers
  <2> DEFINE j == [firing[w][s] EXCEPT
                !.reach = page, !.pc = IF page = {} THEN "parsing" ELSE "enqueueing"]
  <2>2. page \in SUBSET Consumers
    BY DEF Cron!FindByTopicId
  <2>3. Cron!SetJob(w, s, j) /\ j \in Cron!JobRecords /\ TablesOK'
    BY <1>1, <1>3, <2>1, <2>2, FireSets, TablesRest DEF Cron!ReadConsumers, JobsOK
  <2>4. /\ firing[w][s].pc = "reading" /\ UNCHANGED <<created, now, fires>>
        /\ fires[s][firing[w][s].slot] > 0
    BY <1>1, <1>3 DEF Cron!ReadConsumers, Cron!At, JobOK, Fired, Cron!tables
  <2>5. /\ j.slot = firing[w][s].slot /\ j.reach = page
        /\ j.pc = IF page = {} THEN "parsing" ELSE "enqueueing"
    BY JobFields DEF JobsOK, Cron!JobRecords
  <2> HIDE DEF j
  <2> QED BY <2>3, <2>4, <2>5, OneJobKeeps
<1>4. ASSUME NEW c \in Consumers, Cron!Enqueue(w, s, c)
      PROVE  JobsOK'
  <2> DEFINE j == [firing[w][s] EXCEPT
            !.reach = @ \ {c},
            !.pc = IF firing[w][s].reach = {c} THEN "parsing" ELSE "enqueueing"]
  <2>1. Cron!SetJob(w, s, j) /\ j \in Cron!JobRecords /\ TablesOK'
    BY <1>4, FireSets, EnqueueTables DEF Cron!Enqueue
  <2>2. /\ firing[w][s].pc = "enqueueing" /\ UNCHANGED <<created, now, fires>>
        /\ fires[s][firing[w][s].slot] > 0
    BY <1>1, <1>4 DEF Cron!Enqueue, Cron!At, JobOK, Fired
  <2>3. /\ j.slot = firing[w][s].slot /\ j.reach = firing[w][s].reach \ {c}
        /\ j.pc = IF firing[w][s].reach = {c} THEN "parsing" ELSE "enqueueing"
    BY JobFields DEF JobsOK, Cron!JobRecords
  <2> HIDE DEF j
  <2> QED BY <2>1, <2>2, <2>3, OneJobKeeps
<1>5. CASE Cron!ParseCron(w, s)
  <2> DEFINE j == [firing[w][s] EXCEPT !.pc = "updating", !.next = Cron!NextAfter(now)]
  <2>1. now \in Nat
    BY DEF JobsOK, TablesOK, Cron!Times
  <2>2. Cron!SetJob(w, s, j) /\ j \in Cron!JobRecords /\ TablesOK'
    BY <1>1, <1>5, <2>1, FireSets, NextAfterIs, TablesRest DEF Cron!ParseCron, JobsOK
  <2>3. /\ firing[w][s].pc = "parsing" /\ UNCHANGED <<created, now, fires>>
        /\ fires[s][firing[w][s].slot] > 0 /\ firing[w][s].reach = {}
    BY <1>1, <1>5 DEF Cron!ParseCron, Cron!At, JobOK, Fired, Cron!tables
  <2>4. /\ j.slot = firing[w][s].slot /\ j.reach = firing[w][s].reach
        /\ j.pc = "updating"
    BY JobFields DEF JobsOK, Cron!JobRecords
  <2> HIDE DEF j
  <2> QED BY <2>2, <2>3, <2>4, OneJobKeeps
<1>6. CASE Cron!RejectCron(w, s) \/ Cron!UpdateSchedule(w, s)
  <2>1. Cron!SetJob(w, s, Cron!NoJob) /\ TablesOK' /\ UNCHANGED <<created, now, fires>>
    BY <1>1, <1>6, TablesRest, UpdateTables
       DEF Cron!RejectCron, Cron!UpdateSchedule, JobsOK, Cron!tables
  <2> QED BY <2>1, NoJobIs, OneJobKeeps DEF Cron!NoJob, Fired
<1> QED BY <1>2, <1>3, <1>4, <1>5, <1>6 DEF Cron!Fire

LEMMA FireFailsKeeps ==
    ASSUME JobsOK, NEW w \in Workers, NEW s \in Schedules, Cron!DbError, Cron!FireFails(w, s)
    PROVE  JobsOK'
<1>1. Cron!SetJob(w, s, Cron!NoJob) /\ TablesOK' /\ UNCHANGED <<created, now, fires>>
  BY FireFailsTables DEF Cron!FireFails, Cron!DbError
<1> QED BY <1>1, NoJobIs, OneJobKeeps DEF Cron!NoJob, Fired

\* What a step of a firing makes of its job; the others rest.
LEMMA FireMoves ==
    ASSUME Cron!SchedulerAssumption, JobsOK, NEW w \in Workers, NEW s \in Schedules,
           Cron!Fire(w, s)
    PROVE  LET i == firing[w][s]
               j == firing'[w][s] IN
           /\ \A v \in Workers, u \in Schedules : v # w \/ u # s => firing'[v][u] = firing[v][u]
           /\ Cron!CreateEvent(w, s) => i.pc = "creating" /\ j.pc = "reading" /\ j.slot = i.slot
           /\ Cron!ReadConsumers(w, s) =>
                 /\ i.pc = "reading" /\ j.slot = i.slot
                 /\ \E page \in Cron!FindByTopicId :
                       j.reach = page /\ j.pc = IF page = {} THEN "parsing" ELSE "enqueueing"
           /\ \A c \in Consumers :
                 Cron!Enqueue(w, s, c) =>
                    /\ i.pc = "enqueueing" /\ j.slot = i.slot
                    /\ j.reach = i.reach \ {c} /\ j.pc \in {"parsing", "enqueueing"}
           /\ Cron!ParseCron(w, s) =>
                 /\ i.pc = "parsing" /\ j.slot = i.slot /\ j.reach = i.reach
                 /\ j.pc = "updating" /\ j.next = Cron!NextAfter(now)
           /\ Cron!RejectCron(w, s) \/ Cron!UpdateSchedule(w, s) => j = Cron!NoJob
<1>1. firing[w][s] \in Cron!JobRecords /\ firing \in JobTypes
  BY JobFields DEF JobsOK
<1>2. ASSUME NEW j \in Cron!JobRecords, Cron!SetJob(w, s, j)
      PROVE  /\ \A v \in Workers, u \in Schedules : v # w \/ u # s
                => firing'[v][u] = firing[v][u]
             /\ firing'[w][s] = j
  BY <1>1, <1>2, SetJobIs
<1>3. ASSUME Cron!CreateEvent(w, s)
      PROVE  \E j \in Cron!JobRecords :
                Cron!SetJob(w, s, j) /\ firing[w][s].pc = "creating" /\ j.pc = "reading"
                /\ j.slot = firing[w][s].slot
  <2> DEFINE j == [firing[w][s] EXCEPT !.pc = "reading"]
  <2>1. Cron!SetJob(w, s, j) /\ j \in Cron!JobRecords
    BY <1>3, FireSets
  <2>2. j.slot = firing[w][s].slot /\ j.pc = "reading"
    BY <1>1 DEF Cron!JobRecords
  <2> HIDE DEF j
  <2> QED BY <1>3, <2>1, <2>2 DEF Cron!CreateEvent, Cron!At
<1>4. ASSUME Cron!ReadConsumers(w, s)
      PROVE  \E j \in Cron!JobRecords, page \in Cron!FindByTopicId :
                Cron!SetJob(w, s, j) /\ firing[w][s].pc = "reading"
                /\ j.slot = firing[w][s].slot
                /\ j.reach = page /\ j.pc = IF page = {} THEN "parsing" ELSE "enqueueing"
  <2>1. PICK page \in Cron!FindByTopicId :
          Cron!SetJob(w, s, [firing[w][s] EXCEPT
                     !.reach = page, !.pc = IF page = {} THEN "parsing" ELSE "enqueueing"])
    BY <1>4 DEF Cron!ReadConsumers
  <2> DEFINE j == [firing[w][s] EXCEPT
                !.reach = page, !.pc = IF page = {} THEN "parsing" ELSE "enqueueing"]
  <2>2. page \in SUBSET Consumers
    BY DEF Cron!FindByTopicId
  <2>3. Cron!SetJob(w, s, j) /\ j \in Cron!JobRecords
    BY <2>1, <2>2, FireSets
  <2>4. /\ j.slot = firing[w][s].slot /\ j.reach = page
        /\ j.pc = IF page = {} THEN "parsing" ELSE "enqueueing"
    BY <1>1 DEF Cron!JobRecords
  <2> HIDE DEF j
  <2> QED BY <1>4, <2>3, <2>4 DEF Cron!ReadConsumers, Cron!At
<1>5. ASSUME NEW c \in Consumers, Cron!Enqueue(w, s, c)
      PROVE  \E j \in Cron!JobRecords :
                Cron!SetJob(w, s, j) /\ firing[w][s].pc = "enqueueing"
                /\ j.slot = firing[w][s].slot
                /\ j.reach = firing[w][s].reach \ {c} /\ j.pc \in {"parsing", "enqueueing"}
  <2> DEFINE j == [firing[w][s] EXCEPT
            !.reach = @ \ {c},
            !.pc = IF firing[w][s].reach = {c} THEN "parsing" ELSE "enqueueing"]
  <2>1. Cron!SetJob(w, s, j) /\ j \in Cron!JobRecords
    BY <1>5, FireSets DEF Cron!Enqueue
  <2>2. /\ j.slot = firing[w][s].slot /\ j.reach = firing[w][s].reach \ {c}
        /\ j.pc \in {"parsing", "enqueueing"}
    BY <1>1 DEF Cron!JobRecords
  <2> HIDE DEF j
  <2> QED BY <1>5, <2>1, <2>2 DEF Cron!Enqueue, Cron!At
<1>6. ASSUME Cron!ParseCron(w, s)
      PROVE  \E j \in Cron!JobRecords :
                Cron!SetJob(w, s, j) /\ firing[w][s].pc = "parsing"
                /\ j.slot = firing[w][s].slot
                /\ j.reach = firing[w][s].reach /\ j.pc = "updating"
                   /\ j.next = Cron!NextAfter(now)
  <2> DEFINE j == [firing[w][s] EXCEPT !.pc = "updating", !.next = Cron!NextAfter(now)]
  <2>1. now \in Nat
    BY Constants DEF JobsOK, TablesOK, Cron!Times
  <2>2. Cron!SetJob(w, s, j) /\ j \in Cron!JobRecords
    BY <1>6, <2>1, NextAfterIs, FireSets DEF Cron!ParseCron
  <2>3. /\ j.slot = firing[w][s].slot /\ j.reach = firing[w][s].reach
        /\ j.pc = "updating" /\ j.next = Cron!NextAfter(now)
    BY <1>1 DEF Cron!JobRecords
  <2> HIDE DEF j
  <2> QED BY <1>6, <2>2, <2>3 DEF Cron!ParseCron, Cron!At
<1>7. ASSUME Cron!RejectCron(w, s) \/ Cron!UpdateSchedule(w, s)
      PROVE  Cron!SetJob(w, s, Cron!NoJob)
  BY <1>7 DEF Cron!RejectCron, Cron!UpdateSchedule
<1>8. \E j \in Cron!JobRecords : Cron!SetJob(w, s, j)
  BY <1>3, <1>4, <1>5, <1>6, <1>7, NoJobIs DEF Cron!Fire
<1> QED BY <1>2, <1>3, <1>4, <1>5, <1>6, <1>7, <1>8, NoJobIs

\* The steps that set all jobs of a worker.
LEMMA BatchIs ==
    ASSUME JobsOK, NEW w \in Workers, Cron!ProcessDueSchedules(w)
    PROVE  /\ ~Cron!Firing(w)
           /\ firing' \in JobTypes
           /\ \A v \in Workers, u \in Schedules :
                 \/ firing'[v][u] = firing[v][u]
                 \/ /\ v = w /\ Cron!Due(u)
                    /\ firing'[v][u].pc = "creating" /\ firing'[v][u].slot = nextRun[u]
                    /\ firing'[v][u].reach = {}
           /\ UNCHANGED <<Cron!tables, now, schedulerFaults>>
<1>1. PICK taken \in Cron!FindDue :
        firing' = [firing EXCEPT ![w] = [s \in Schedules |->
                  IF s \in taken THEN [Cron!NoJob EXCEPT !.pc = "creating", !.slot = nextRun[s]]
                  ELSE Cron!NoJob]]
  BY DEF Cron!ProcessDueSchedules
<1>2. \A u \in taken : u \in Schedules /\ Cron!Due(u)
  BY DEF Cron!FindDue
<1>3. ASSUME NEW u \in Schedules
      PROVE  LET j == [Cron!NoJob EXCEPT !.pc = "creating", !.slot = nextRun[u]]
             IN  j \in Cron!JobRecords /\ j.pc = "creating" /\ j.slot = nextRun[u]
             /\ j.reach = {}
  BY DEF JobsOK, TablesOK, Cron!NoJob, Cron!JobRecords, Cron!PCs, Cron!Null
<1>4. firing' \in JobTypes
  BY <1>1, <1>3, NoJobIs DEF JobsOK, JobTypes
<1>5. \A v \in Workers, u \in Schedules :
         firing'[v][u] = IF v # w THEN firing[v][u]
                         ELSE IF u \in taken
                              THEN [Cron!NoJob EXCEPT !.pc = "creating", !.slot = nextRun[u]]
                              ELSE Cron!NoJob
  BY <1>1 DEF JobsOK, JobTypes
<1>6. \A u \in Schedules : firing[w][u].pc = "none"
  BY DEF Cron!ProcessDueSchedules, Cron!Firing, Cron!At
<1>7. \A u \in Schedules : firing[w][u] = Cron!NoJob
  BY <1>6 DEF JobsOK, JobOK
<1>8. ASSUME NEW v \in Workers, NEW u \in Schedules
      PROVE  \/ firing'[v][u] = firing[v][u]
             \/ /\ v = w /\ Cron!Due(u)
                /\ firing'[v][u].pc = "creating" /\ firing'[v][u].slot = nextRun[u]
                /\ firing'[v][u].reach = {}
  <2>1. CASE v = w /\ u \in taken
    BY <1>2, <1>3, <1>5, <2>1
  <2>2. CASE ~(v = w /\ u \in taken)
    BY <1>5, <1>7, <2>2
  <2> QED BY <2>1, <2>2
<1> QED BY <1>4, <1>6, <1>8 DEF Cron!ProcessDueSchedules, Cron!Firing, Cron!At

LEMMA ProcessKeeps ==
    ASSUME Cron!SchedulerAssumption, JobsOK, NEW w \in Workers, Cron!ProcessDueSchedules(w)
    PROVE  JobsOK'
<1>1. TablesOK' /\ firing' \in JobTypes /\ UNCHANGED <<created, fires, now>>
  BY BatchIs, TablesRest DEF JobsOK, TablesOK, Cron!tables
<1>2. ASSUME NEW v \in Workers, NEW u \in Schedules
      PROVE  JobOK(v, u)'
  <2>1. now \in Nat /\ now <= MaxTime /\ MaxTime \in Nat
    BY Constants DEF JobsOK, TablesOK, Cron!Times
  <2>2. CASE firing'[v][u] = firing[v][u]
    BY <1>1, <2>1, <2>2, JobRests DEF JobsOK
  <2>3. CASE /\ Cron!Due(u) /\ firing'[v][u].pc = "creating" /\ firing'[v][u].slot = nextRun[u]
             /\ firing'[v][u].reach = {}
    <3>1. u \in created /\ nextRun[u] \in Nat /\ nextRun[u] # 0 /\ nextRun[u] <= now
      BY <2>3 DEF Cron!Due, JobsOK, TablesOK, Cron!Null
    <3>2. nextRun[u] \in 1 .. MaxTime
      BY <2>1, <3>1
    <3> QED BY <1>1, <2>3, <3>1, <3>2 DEF JobOK, Fired, Cron!Times
  <2> QED BY <2>2, <2>3, BatchIs
<1> QED BY <1>1, <1>2 DEF JobsOK

LEMMA CrashIs ==
    ASSUME JobsOK, NEW w \in Workers, Cron!Crash(w)
    PROVE  /\ firing' \in JobTypes /\ UNCHANGED <<Cron!tables, now>>
              /\ schedulerFaults' = schedulerFaults + 1
           /\ \A v \in Workers, u \in Schedules :
                 firing'[v][u] = IF v = w THEN Cron!NoJob ELSE firing[v][u]
BY NoJobIs DEF JobsOK, JobTypes, Cron!Crash

LEMMA CrashKeeps ==
    ASSUME JobsOK, NEW w \in Workers, Cron!Crash(w)
    PROVE  JobsOK'
<1>1. TablesOK' /\ firing' \in JobTypes /\ UNCHANGED <<created, fires, now>>
  BY CrashIs, TablesRest DEF JobsOK, TablesOK, Cron!tables
<1>2. ASSUME NEW v \in Workers, NEW u \in Schedules
      PROVE  JobOK(v, u)'
  <2>1. CASE v = w
    BY <2>1, CrashIs DEF JobOK, Cron!NoJob, Fired
  <2>2. CASE v # w
    BY <1>1, <2>2, CrashIs, JobRests DEF JobsOK, TablesOK, Cron!Times
  <2> QED BY <2>1, <2>2
<1> QED BY <1>1, <1>2 DEF JobsOK

LEMMA OthersKeep ==
    ASSUME Cron!SchedulerAssumption, JobsOK,
           (\E s \in Schedules : Cron!CreateSchedule(s))
           \/ (\E c \in Consumers : Cron!DeleteConsumer(c)) \/ Cron!Tick
    PROVE  JobsOK'
<1>1. /\ TablesOK' /\ UNCHANGED <<firing, fires>> /\ created \subseteq created'
      /\ now \in Nat /\ now' \in Nat /\ now' >= now
  <2>1. now \in Nat
    BY DEF JobsOK, TablesOK, Cron!Times
  <2> QED BY <2>1, OtherTables
<1>2. ASSUME NEW v \in Workers, NEW u \in Schedules
      PROVE  JobOK(v, u)'
  <2>1. JobOK(v, u) /\ firing'[v][u] = firing[v][u] /\ firing \in JobTypes
    BY <1>1 DEF JobsOK
  <2> QED BY <1>1, <2>1, JobRests
<1> QED BY <1>1, <1>2 DEF JobsOK, JobTypes

LEMMA JobsStayOK ==
    ASSUME Cron!SchedulerAssumption, JobsOK, [Cron!Next]_Cron!vars
    PROVE  JobsOK'
<1>1. CASE UNCHANGED Cron!vars
  BY <1>1 DEF JobsOK, JobOK, TablesOK, JobTypes, Cron!vars, Cron!tables
<1> QED BY <1>1, ProcessKeeps, FireKeeps, CrashKeeps, FireFailsKeeps, OthersKeep
        DEF Cron!Next, Cron!WorkerStep, Cron!DbError

LEMMA JobsStartOK ==
    ASSUME Cron!SchedulerAssumption, Cron!Init
    PROVE  JobsOK
<1>1. TablesOK
  BY Constants DEF Cron!Init, TablesOK, Cron!Times, Cron!SchedulerAssumption, Cron!Null
<1>2. firing \in JobTypes /\ \A w \in Workers, s \in Schedules : firing[w][s] = Cron!NoJob
  BY NoJobIs DEF Cron!Init, JobTypes
<1> QED BY <1>1, <1>2 DEF JobsOK, JobOK, Cron!NoJob, Fired

\* Types: a slot that was recorded has passed and has an event, and what exists belongs
\* to a schedule that does (scheduler-service.ts 33-97).
THEOREM TypeCorrect ==
    ASSUME Cron!SchedulerAssumption
    PROVE  Cron!Spec => []Cron!TypeOK
BY JobsStartOK, JobsStayOK, TypeOKParts, PTL DEF Cron!Spec

-----------------------------------------------------------------------------
(* A recorded run has reached every consumer.                                *)

\* A page with room for all consumers holds all that are not deleted.
LEMMA PageHoldsAll ==
    ASSUME Cron!SchedulerAssumption, Cardinality(Consumers) <= ConsumerLimit,
           NEW page \in Cron!FindByTopicId, NEW c \in Consumers \ deleted
    PROVE  c \in page
<1>1. page \subseteq Consumers \ deleted
      /\ (page = Consumers \ deleted \/ Cardinality(page) = ConsumerLimit)
  BY SameCount DEF Cron!FindByTopicId
<1>2. CASE Cardinality(page) = ConsumerLimit
  <2>1. page \in SUBSET Consumers /\ IsFiniteSet(Consumers)
    BY <1>1, SameCount DEF Cron!SchedulerAssumption
  <2>2. Cardinality(Consumers) \in Nat /\ Cardinality(page) <= Cardinality(Consumers)
        /\ Cardinality(page) \in Nat
    BY <2>1, FS_CardinalityType, FS_Subset
  <2>3. Cardinality(page) = Cardinality(Consumers)
    BY <1>2, <2>2
  <2> QED BY <2>1, <2>3, FS_Subset
<1> QED BY <1>1, <1>2

\* No delivery goes, and no consumer comes back.
LEMMA ReachedStays ==
    ASSUME [Cron!Next]_Cron!vars
    PROVE  reached \subseteq reached' /\ deleted \subseteq deleted'
<1>1. ASSUME NEW w \in Workers, NEW s \in Schedules, Cron!Fire(w, s)
      PROVE  reached \subseteq reached' /\ deleted \subseteq deleted'
  BY <1>1 DEF Cron!Fire, Cron!CreateEvent, Cron!ReadConsumers, Cron!Enqueue, Cron!ParseCron,
     Cron!RejectCron, Cron!UpdateSchedule,
     Cron!tables
<1> QED BY <1>1 DEF Cron!Next, Cron!vars, Cron!tables, Cron!WorkerStep,
       Cron!ProcessDueSchedules, Cron!Crash, Cron!DbError,
           Cron!FireFails, Cron!CreateSchedule, Cron!DeleteConsumer, Cron!Tick

\* A firing that rests, or stays where it has reached all, has still reached all.
LEMMA ReachRests ==
    ASSUME NEW w \in Workers, NEW s \in Schedules, ReachesAll(w, s),
           firing'[w][s] = firing[w][s],
           reached \subseteq reached', deleted \subseteq deleted'
    PROVE  ReachesAll(w, s)'
BY DEF ReachesAll

LEMMA FireReaches ==
    ASSUME Cron!SchedulerAssumption, JobsOK, Cardinality(Consumers) <= ConsumerLimit,
           NEW w \in Workers, NEW s \in Schedules, Cron!Fire(w, s), ReachesAll(w, s),
           reached \subseteq reached', deleted \subseteq deleted'
    PROVE  ReachesAll(w, s)'
<1>1. JobOK(w, s)
  BY DEF JobsOK
<1>2. CASE Cron!CreateEvent(w, s)
  BY <1>2, FireMoves DEF ReachesAll
<1>3. CASE Cron!ReadConsumers(w, s)
  <2>1. PICK page \in Cron!FindByTopicId :
          /\ firing'[w][s].reach = page
          /\ firing'[w][s].pc = IF page = {} THEN "parsing" ELSE "enqueueing"
    BY <1>3, FireMoves
  <2>2. \A c \in Consumers \ deleted' : c \in page
    BY PageHoldsAll
  <2> QED BY <2>1, <2>2 DEF ReachesAll
<1>4. ASSUME NEW c \in Consumers, Cron!Enqueue(w, s, c)
      PROVE  ReachesAll(w, s)'
  <2>1. reached' = reached \cup {<<s, firing[w][s].slot, c>>}
    BY <1>4 DEF Cron!Enqueue
  <2>2. /\ firing[w][s].pc = "enqueueing" /\ firing'[w][s].slot = firing[w][s].slot
        /\ firing'[w][s].reach = firing[w][s].reach \ {c}
    BY <1>4, FireMoves
  <2> QED BY <2>1, <2>2 DEF ReachesAll
<1>5. CASE Cron!ParseCron(w, s)
  BY <1>5, FireMoves DEF ReachesAll
<1>6. CASE Cron!RejectCron(w, s) \/ Cron!UpdateSchedule(w, s)
  BY <1>6, FireMoves DEF ReachesAll, Cron!NoJob
<1> QED BY <1>2, <1>3, <1>4, <1>5, <1>6 DEF Cron!Fire

LEMMA ReachStays ==
    ASSUME Cron!SchedulerAssumption, ReachInv, [Cron!Next]_Cron!vars
    PROVE  ReachInv'
<1>1. JobsOK /\ JobsOK' /\ reached \subseteq reached' /\ deleted \subseteq deleted'
  BY JobsStayOK, ReachedStays DEF ReachInv
<1>2. Cron!RecordedRunReachedAll'
  <2> SUFFICES ASSUME Cardinality(Consumers) <= ConsumerLimit, NEW s \in Schedules,
                      NEW t \in lastRuns'[s], NEW c \in Consumers \ deleted'
               PROVE  <<s, t, c>> \in reached'
    BY SameCount DEF Cron!RecordedRunReachedAll
  <2>1. CASE t \in lastRuns[s]
    BY <1>1, <2>1, SameCount DEF ReachInv, Cron!RecordedRunReachedAll
  <2>2. CASE t \notin lastRuns[s]
    <3>1. PICK w \in Workers : Cron!UpdateSchedule(w, s) /\ t = firing[w][s].slot
      <4>1. ASSUME NEW w \in Workers, NEW u \in Schedules, Cron!UpdateSchedule(w, u)
            PROVE  u = s /\ t = firing[w][s].slot
        BY <1>1, <2>2, <4>1 DEF JobsOK, TablesOK, Cron!UpdateSchedule
      <4>2. ASSUME NEW w \in Workers, NEW u \in Schedules, Cron!Fire(w, u),
                   ~Cron!UpdateSchedule(w, u)
            PROVE  lastRuns' = lastRuns
        BY <4>2 DEF Cron!Fire, Cron!CreateEvent, Cron!ReadConsumers, Cron!Enqueue,
           Cron!ParseCron, Cron!RejectCron, Cron!tables
      <4>3. \E w \in Workers, u \in Schedules : Cron!UpdateSchedule(w, u)
        BY <2>2, <4>2 DEF Cron!Next, Cron!vars, Cron!tables, Cron!WorkerStep,
           Cron!ProcessDueSchedules, Cron!Crash, Cron!DbError,
           Cron!FireFails, Cron!CreateSchedule, Cron!DeleteConsumer, Cron!Tick
      <4> QED BY <4>1, <4>3
    <3>2. ReachesAll(w, s) /\ firing[w][s].pc = "updating" /\ firing[w][s].reach = {}
      BY <3>1 DEF ReachInv, JobsOK, JobOK, Cron!UpdateSchedule, Cron!At
    <3> QED BY <1>1, <3>1, <3>2 DEF ReachesAll
  <2> QED BY <2>1, <2>2
<1>3. ASSUME Cardinality(Consumers) <= ConsumerLimit, NEW v \in Workers, NEW u \in Schedules
      PROVE  ReachesAll(v, u)'
  <2>1. ReachesAll(v, u)
    BY <1>3 DEF ReachInv
  <2>2. CASE firing'[v][u] = firing[v][u]
    BY <1>1, <2>1, <2>2, ReachRests
  <2>3. ASSUME NEW w \in Workers, NEW s \in Schedules, Cron!Fire(w, s)
        PROVE  ReachesAll(v, u)'
    <3>1. ReachesAll(w, s)
      BY <1>3 DEF ReachInv
    <3> QED BY <1>1, <1>3, <2>2, <2>3, <3>1, FireReaches, FireMoves
  <2>4. ASSUME NEW w \in Workers, Cron!ProcessDueSchedules(w)
        PROVE  ReachesAll(v, u)'
    <3>1. firing'[v][u] = firing[v][u] \/ firing'[v][u].pc = "creating"
      BY <1>1, <2>4, BatchIs
    <3> QED BY <2>2, <3>1 DEF ReachesAll
  <2>5. ASSUME NEW w \in Workers, Cron!Crash(w)
        PROVE  ReachesAll(v, u)'
    BY <1>1, <2>2, <2>5, CrashIs DEF ReachesAll, Cron!NoJob
  <2>6. ASSUME NEW w \in Workers, NEW s \in Schedules, Cron!FireFails(w, s)
        PROVE  ReachesAll(v, u)'
    <3>1. firing'[v][u] = firing[v][u] \/ firing'[v][u] = Cron!NoJob
      BY <1>1, <2>6, SetJobIs, NoJobIs DEF Cron!FireFails, JobsOK
    <3> QED BY <2>2, <3>1 DEF ReachesAll, Cron!NoJob
  <2>7. CASE UNCHANGED firing
    BY <2>2, <2>7
  <2> QED BY <2>3, <2>4, <2>5, <2>6, <2>7
         DEF Cron!Next, Cron!vars, Cron!WorkerStep, Cron!DbError, Cron!CreateSchedule,
             Cron!DeleteConsumer, Cron!Tick
<1> QED BY <1>1, <1>2, <1>3 DEF ReachInv

\* A run that last_run records has reached every consumer of the topic, though the writes
\* are made one after the other and any of them may fail (scheduler-service.ts 65-97).
THEOREM RecordedMeansReached ==
    ASSUME Cron!SchedulerAssumption
    PROVE  Cron!Spec => []RecordedRunReachedAll
<1>1. Cron!Init => ReachInv
  BY JobsStartOK DEF Cron!Init, ReachInv, ReachesAll, Cron!RecordedRunReachedAll, Cron!NoJob
<1>2. ReachInv => RecordedRunReachedAll
  BY DEF ReachInv, RecordedRunReachedAll
<1> QED BY <1>1, <1>2, ReachStays, PTL DEF Cron!Spec

-----------------------------------------------------------------------------
(* How many events a slot has.                                               *)

LEMMA CountsAreNats ==
    ASSUME Cron!SchedulerAssumption, NEW S \in SUBSET Workers
    PROVE  IsFiniteSet(S) /\ Cardinality(S) \in Nat
BY SameCount, FS_Subset, FS_CardinalityType DEF Cron!SchedulerAssumption

LEMMA MoreCountMore ==
    ASSUME Cron!SchedulerAssumption, NEW S \in SUBSET Workers, NEW T \in SUBSET S
    PROVE  Cardinality(T) <= Cardinality(S)
BY CountsAreNats, FS_Subset

LEMMA OneMore ==
    ASSUME Cron!SchedulerAssumption, NEW S \in SUBSET Workers, NEW w \in Workers,
           NEW T \in SUBSET (S \cup {w})
    PROVE  Cardinality(T) <= Cardinality(S) + 1
<1>1. IsFiniteSet(S) /\ Cardinality(S) \in Nat /\ S \cup {w} \in SUBSET Workers
  BY CountsAreNats
<1>2. Cardinality(S \cup {w}) = IF w \in S THEN Cardinality(S) ELSE Cardinality(S) + 1
  BY <1>1, FS_AddElement
<1>3. Cardinality(T) <= Cardinality(S \cup {w})
  BY <1>1, MoreCountMore
<1>4. Cardinality(T) \in Nat /\ Cardinality(S \cup {w}) \in Nat
  BY <1>1, CountsAreNats
<1> QED BY <1>1, <1>2, <1>3, <1>4

LEMMA ApartAddUp ==
    ASSUME Cron!SchedulerAssumption, NEW S \in SUBSET Workers, NEW T \in SUBSET Workers,
           S \cap T = {}
    PROVE  Cardinality(S) + Cardinality(T) <= Cardinality(Workers)
<1>1. IsFiniteSet(S) /\ IsFiniteSet(T) /\ S \cup T \in SUBSET Workers
  BY CountsAreNats
<1>2. Cardinality(S \cup T) = Cardinality(S) + Cardinality(T) - Cardinality(S \cap T)
  BY <1>1, FS_Union
<1>3. Cardinality(S \cap T) = 0
  BY FS_EmptySet
<1>4. Cardinality(S \cup T) <= Cardinality(Workers)
  BY <1>1, MoreCountMore
<1>5. Cardinality(S) \in Nat /\ Cardinality(T) \in Nat
  BY CountsAreNats
<1> QED BY <1>2, <1>3, <1>4, <1>5

\* All that is counted for a slot is a number, before and after a step.
LEMMA Numbers ==
    ASSUME Cron!SchedulerAssumption, JobsOK, JobsOK', NEW s \in Schedules, NEW t \in Cron!Times
    PROVE  /\ Creating(s, t) \in SUBSET Workers /\ Creating(s, t)' \in SUBSET Workers
           /\ Updating(s, t) \in SUBSET Workers /\ Updating(s, t)' \in SUBSET Workers
           /\ Cardinality(Creating(s, t)) \in Nat /\ Cardinality(Creating(s, t)') \in Nat
           /\ Cardinality(Updating(s, t)) \in Nat /\ Cardinality(Updating(s, t)') \in Nat
           /\ Cardinality(Workers) \in Nat /\ schedulerFaults \in Nat
              /\ schedulerFaults' \in Nat
           /\ fires[s][t] \in Nat /\ fires'[s][t] \in Nat
<1>1. /\ Creating(s, t) \in SUBSET Workers /\ Creating(s, t)' \in SUBSET Workers
      /\ Updating(s, t) \in SUBSET Workers /\ Updating(s, t)' \in SUBSET Workers
  BY DEF Creating, Updating
<1>2. /\ Cardinality(Creating(s, t)) \in Nat /\ Cardinality(Creating(s, t)') \in Nat
      /\ Cardinality(Updating(s, t)) \in Nat /\ Cardinality(Updating(s, t)') \in Nat
      /\ Cardinality(Workers) \in Nat
  BY <1>1, CountsAreNats
<1>3. /\ schedulerFaults \in Nat /\ schedulerFaults' \in Nat
      /\ fires[s][t] \in 0..FireCap /\ fires'[s][t] \in 0..FireCap /\ FireCap \in Nat
  BY Constants DEF JobsOK, TablesOK
<1> QED BY <1>1, <1>2, <1>3

\* A step that neither inserts an event of the slot nor lets a worker go from its update.
LEMMA BoundsRest ==
    ASSUME Cron!SchedulerAssumption, JobsOK, JobsOK', NEW s \in Schedules, NEW t \in Cron!Times,
           OwedFor(s, t), Bounded(s, t),
           nextRun'[s] = nextRun[s], fires'[s][t] = fires[s][t],
           schedulerFaults' = schedulerFaults,
           Updating(s, t)' = Updating(s, t), Creating(s, t)' \subseteq Creating(s, t)
    PROVE  OwedFor(s, t)' /\ Bounded(s, t)'
<1>1. Cardinality(Creating(s, t)') <= Cardinality(Creating(s, t))
  BY Numbers, MoreCountMore
<1> QED BY <1>1, Numbers DEF OwedFor, Bounded

\* A fault takes a worker from the slot, and pays for the event it leaves.
LEMMA BoundsFault ==
    ASSUME Cron!SchedulerAssumption, JobsOK, JobsOK', NEW s \in Schedules, NEW t \in Cron!Times,
           OwedFor(s, t), Bounded(s, t), NEW w \in Workers,
           nextRun'[s] = nextRun[s], fires'[s][t] = fires[s][t],
           schedulerFaults' = schedulerFaults + 1,
           \A v \in Workers : v # w => firing'[v][s] = firing[v][s],
           firing'[w][s] = Cron!NoJob \/ firing'[w][s] = firing[w][s]
    PROVE  OwedFor(s, t)' /\ Bounded(s, t)'
<1>1. /\ Updating(s, t) \subseteq Updating(s, t)' \cup {w}
      /\ Creating(s, t)' \subseteq Creating(s, t)
  BY DEF Updating, Creating, Cron!NoJob
<1>2. Cardinality(Creating(s, t)') <= Cardinality(Creating(s, t))
  BY <1>1, Numbers, MoreCountMore
<1>3. Cardinality(Updating(s, t)) <= Cardinality(Updating(s, t)') + 1
  BY <1>1, Numbers, OneMore
<1> QED BY <1>2, <1>3, Numbers DEF OwedFor, Bounded

\* A worker reads the slot that next_run shows.
LEMMA BoundsProcess ==
    ASSUME Cron!SchedulerAssumption, JobsOK, JobsOK', NEW s \in Schedules, NEW t \in Cron!Times,
           OwedFor(s, t), Bounded(s, t), NEW w \in Workers, Cron!ProcessDueSchedules(w)
    PROVE  OwedFor(s, t)' /\ Bounded(s, t)'
<1>1. UNCHANGED <<nextRun, fires, schedulerFaults>>
  BY BatchIs DEF Cron!tables
<1>2. \A v \in Workers :
         \/ firing'[v][s] = firing[v][s]
         \/ /\ firing[v][s].pc = "none"
            /\ firing'[v][s].pc = "creating" /\ firing'[v][s].slot = nextRun[s]
  BY BatchIs DEF Cron!Firing, Cron!At
<1>3. Updating(s, t)' = Updating(s, t)
  BY <1>2 DEF Updating, Fired
<1>4. CASE nextRun[s] = t
  <2>1. Creating(s, t)' \cap Updating(s, t) = {}
    BY <1>3 DEF Creating, Updating, Fired
  <2>2. Cardinality(Creating(s, t)') + Cardinality(Updating(s, t)) <= Cardinality(Workers)
    BY <2>1, Numbers, ApartAddUp
  <2> QED BY <1>1, <1>3, <1>4, <2>2, Numbers DEF OwedFor, Bounded
<1>5. CASE nextRun[s] # t
  <2>1. Creating(s, t)' \subseteq Creating(s, t)
    BY <1>2, <1>5 DEF Creating
  <2> QED BY <1>1, <1>3, <2>1, BoundsRest
<1> QED BY <1>4, <1>5

\* What a step of a firing leaves alone.
LEMMA FireLeaves ==
    ASSUME Cron!SchedulerAssumption, JobsOK, NEW w \in Workers, NEW u \in Schedules,
           Cron!Fire(w, u)
    PROVE  /\ schedulerFaults' = schedulerFaults /\ now' = now
           /\ \A v \in Workers, s \in Schedules : v # w \/ u # s => firing'[v][s] = firing[v][s]
           /\ \A s \in Schedules : s # u => nextRun'[s] = nextRun[s] /\ fires'[s] = fires[s]
           /\ \A s \in Schedules, t \in Cron!Times :
                 fires'[s][t] # fires[s][t] => /\ s = u /\ Cron!CreateEvent(w, u)
                                               /\ t = firing[w][u].slot
                                               /\ fires'[s][t] = fires[s][t] + 1
<1>1. \A v \in Workers, s \in Schedules : v # w \/ u # s => firing'[v][s] = firing[v][s]
  BY FireMoves
<1>2. schedulerFaults' = schedulerFaults /\ now' = now
  BY DEF Cron!Fire, Cron!CreateEvent, Cron!ReadConsumers, Cron!Enqueue, Cron!ParseCron,
     Cron!RejectCron, Cron!UpdateSchedule
<1>3. \A s \in Schedules : s # u => nextRun'[s] = nextRun[s] /\ fires'[s] = fires[s]
  BY DEF Cron!Fire, Cron!CreateEvent, Cron!ReadConsumers, Cron!Enqueue, Cron!ParseCron,
     Cron!RejectCron, Cron!UpdateSchedule,
     JobsOK, TablesOK, Cron!tables
<1>4. CASE Cron!CreateEvent(w, u)
  BY <1>1, <1>2, <1>3, <1>4, CreateEventTables
<1>5. CASE ~Cron!CreateEvent(w, u)
  <2>1. fires' = fires
    BY <1>5 DEF Cron!Fire, Cron!ReadConsumers, Cron!Enqueue, Cron!ParseCron, Cron!RejectCron,
       Cron!UpdateSchedule, Cron!tables
  <2> QED BY <1>1, <1>2, <1>3, <2>1
<1> QED BY <1>4, <1>5

LEMMA BoundsFire ==
    ASSUME Cron!SchedulerAssumption, JobsOK, JobsOK', NextIsAhead,
           NEW s \in Schedules \ BadCron, NEW t \in Cron!Times, OwedFor(s, t), Bounded(s, t),
           t > now => fires[s][t] = 0,
           NEW w \in Workers, NEW u \in Schedules, Cron!Fire(w, u)
    PROVE  OwedFor(s, t)' /\ Bounded(s, t)'
<1>1. firing[w][s] \in Cron!JobRecords /\ firing \in JobTypes
      /\ schedulerFaults' = schedulerFaults
  BY JobFields, FireLeaves DEF JobsOK
<1>2. CASE u # s
  <2>1. /\ nextRun'[s] = nextRun[s] /\ fires'[s][t] = fires[s][t]
        /\ \A v \in Workers : firing'[v][s] = firing[v][s]
    BY <1>2, FireLeaves
  <2>2. Updating(s, t)' = Updating(s, t) /\ Creating(s, t)' = Creating(s, t)
    BY <2>1 DEF Updating, Creating
  <2> QED BY <1>1, <2>1, <2>2, BoundsRest
<1>3. CASE u = s /\ Cron!CreateEvent(w, s)
  <2>1. \A v \in Workers : v # w => firing'[v][s] = firing[v][s]
    BY <1>3, FireLeaves
  <2>2. firing'[w][s].pc = "reading" /\ firing'[w][s].slot = firing[w][s].slot
        /\ firing[w][s].pc = "creating"
    BY <1>3, FireMoves
  <2>3. nextRun' = nextRun
    BY <1>3 DEF Cron!CreateEvent
  <2>4. CASE firing[w][s].slot # t
    <3>1. Updating(s, t)' = Updating(s, t) /\ Creating(s, t)' = Creating(s, t)
      BY <2>1, <2>2, <2>4 DEF Updating, Creating
    <3>2. fires'[s][t] = fires[s][t]
      BY <1>3, <2>4, FireLeaves
    <3> QED BY <1>1, <2>3, <3>1, <3>2, BoundsRest
  <2>5. CASE firing[w][s].slot = t
    <3>1. /\ Updating(s, t)' = Updating(s, t) \cup {w} /\ w \notin Updating(s, t)
          /\ Creating(s, t)' = Creating(s, t) \ {w} /\ w \in Creating(s, t)
      BY <2>1, <2>2, <2>5 DEF Updating, Creating, Fired
    <3>2. Cardinality(Updating(s, t)') = Cardinality(Updating(s, t)) + 1
      BY <3>1, Numbers, CountsAreNats, FS_AddElement
    <3>3. Cardinality(Creating(s, t)') = Cardinality(Creating(s, t)) - 1
      BY <3>1, Numbers, CountsAreNats, FS_RemoveElement
    <3>4. fires'[s][t] = fires[s][t] \/ fires'[s][t] = fires[s][t] + 1
      BY <1>3, FireLeaves
    <3> QED BY <1>1, <2>3, <3>2, <3>3, <3>4, Numbers DEF OwedFor, Bounded
  <2> QED BY <2>4, <2>5
<1>4. CASE u = s /\ Cron!UpdateSchedule(w, s)
  <2>1. /\ nextRun'[s] = firing[w][s].next /\ firing[w][s].next > now /\ fires' = fires
    BY <1>4 DEF Cron!UpdateSchedule, NextIsAhead, JobsOK, TablesOK
  <2>2. \A v \in Workers : v # w => firing'[v][s] = firing[v][s]
    BY <1>4, FireLeaves
  <2>3. firing'[w][s] = Cron!NoJob
    BY <1>4, FireMoves
  <2>4. Creating(s, t)' \subseteq Creating(s, t)
    BY <2>2, <2>3 DEF Creating, Cron!NoJob
  <2>5. Cardinality(Creating(s, t)') <= Cardinality(Creating(s, t))
    BY <2>4, Numbers, MoreCountMore
  <2>6. Bounded(s, t)'
    BY <1>1, <2>1, <2>5, Numbers DEF Bounded
  <2>7. OwedFor(s, t)'
    BY <1>1, <2>1, Numbers DEF OwedFor
  <2> QED BY <2>6, <2>7
<1>5. CASE u = s /\ (Cron!ReadConsumers(w, s) \/ (\E c \in Consumers : Cron!Enqueue(w, s, c))
                     \/ Cron!ParseCron(w, s))
  <2>1. /\ firing[w][s].pc \in Fired /\ firing'[w][s].pc \in Fired
        /\ firing'[w][s].slot = firing[w][s].slot
    BY <1>5, FireMoves DEF Fired
  <2>2. \A v \in Workers : v # w => firing'[v][s] = firing[v][s]
    BY <1>5, FireLeaves
  <2>3. nextRun' = nextRun /\ fires' = fires
    BY <1>5 DEF Cron!ReadConsumers, Cron!Enqueue, Cron!ParseCron, Cron!tables
  <2>4. Updating(s, t)' = Updating(s, t) /\ Creating(s, t)' = Creating(s, t)
    BY <2>1, <2>2 DEF Updating, Creating, Fired
  <2> QED BY <1>1, <2>3, <2>4, BoundsRest
<1> QED BY <1>2, <1>3, <1>4, <1>5 DEF Cron!Fire, Cron!RejectCron

\* If firings end before the next slot, what a firing is about to write stays ahead: the
\* clock does not pass it.
LEMMA AheadStays ==
    ASSUME Cron!SchedulerAssumption, ~LateUpdates, JobsOK, NextIsAhead, [Cron!Next]_Cron!vars
    PROVE  NextIsAhead'
<1>1. now \in Nat
  BY Constants DEF JobsOK, TablesOK, Cron!Times
<1>2. \E n \in Nat : Cron!NextAfter(now) = n * Period
  <2>1. now \div Period + 1 \in Nat
    BY <1>1, NextAfterIs
  <2> QED BY <1>1, <2>1, NextAfterIs
<1> SUFFICES ASSUME NEW v \in Workers, NEW u \in Schedules, firing'[v][u].pc = "updating"
             PROVE  firing'[v][u].next > now' /\ \E n \in Nat : firing'[v][u].next = n * Period
  BY DEF NextIsAhead, Cron!At
<1>3. ASSUME firing'[v][u] = firing[v][u], now' = now
      PROVE  firing'[v][u].next > now' /\ \E n \in Nat : firing'[v][u].next = n * Period
  BY <1>3 DEF NextIsAhead, Cron!At
<1>4. ASSUME NEW w \in Workers, NEW s \in Schedules, Cron!Fire(w, s)
      PROVE  firing'[v][u].next > now' /\ \E n \in Nat : firing'[v][u].next = n * Period
  <2>1. now' = now
    BY <1>4, FireLeaves
  <2>2. CASE v # w \/ u # s
    BY <1>3, <1>4, <2>1, <2>2, FireLeaves
  <2>3. CASE v = w /\ u = s
    <3>1. firing'[v][u].next = Cron!NextAfter(now)
      BY <1>4, <2>3, FireMoves DEF Cron!Fire, Cron!NoJob
    <3> QED BY <1>1, <1>2, <2>1, <3>1, NextAfterIs
  <2> QED BY <2>2, <2>3
<1>5. ASSUME NEW w \in Workers, Cron!ProcessDueSchedules(w)
      PROVE  firing'[v][u].next > now' /\ \E n \in Nat : firing'[v][u].next = n * Period
  <2>1. now' = now /\ firing'[v][u] = firing[v][u]
    BY <1>5, BatchIs
  <2> QED BY <1>3, <2>1
<1>6. ASSUME NEW w \in Workers, Cron!Crash(w)
      PROVE  firing'[v][u].next > now' /\ \E n \in Nat : firing'[v][u].next = n * Period
  <2>1. now' = now /\ firing'[v][u] = firing[v][u]
    BY <1>6, CrashIs DEF Cron!NoJob
  <2> QED BY <1>3, <2>1
<1>7. ASSUME NEW w \in Workers, NEW s \in Schedules, Cron!DbError, Cron!FireFails(w, s)
      PROVE  firing'[v][u].next > now' /\ \E n \in Nat : firing'[v][u].next = n * Period
  <2>1. firing'[v][u] = firing[v][u] \/ firing'[v][u] = Cron!NoJob
    BY <1>7, SetJobIs, NoJobIs DEF Cron!FireFails, JobsOK
  <2>2. now' = now /\ firing'[v][u] = firing[v][u]
    BY <1>7, <2>1 DEF Cron!NoJob, Cron!DbError
  <2> QED BY <1>3, <2>2
<1>8. ASSUME Cron!Tick
      PROVE  firing'[v][u].next > now' /\ \E n \in Nat : firing'[v][u].next = n * Period
  <2>1. firing' = firing /\ now' = now + 1
    BY <1>8 DEF Cron!Tick
  <2>2. Cron!Firing(v)
    BY <2>1 DEF Cron!Firing, Cron!At
  <2>3. Cron!NextAfter(now) > now + 1
    BY <1>8, <2>2 DEF Cron!Tick
  <2>4. PICK n \in Nat : firing[v][u].next = n * Period /\ firing[v][u].next > now
    BY <2>1 DEF NextIsAhead, Cron!At
  <2>5. n * Period >= Cron!NextAfter(now)
    BY <1>1, <2>4, NextAfterIs
  <2>6. n * Period \in Int /\ Cron!NextAfter(now) \in Nat
    <3>1. Period \in Int /\ n \in Int
      BY Constants
    <3>2. n * Period \in Int
      BY <3>1
    <3> QED BY <1>1, <3>2, NextAfterIs
  <2> QED BY <1>1, <2>1, <2>3, <2>4, <2>5, <2>6
<1>9. CASE UNCHANGED <<firing, now>>
  BY <1>3, <1>9
<1> QED BY <1>4, <1>5, <1>6, <1>7, <1>8, <1>9
       DEF Cron!Next, Cron!vars, Cron!WorkerStep, Cron!DbError,
           Cron!CreateSchedule, Cron!DeleteConsumer

LEMMA FiresStay ==
    ASSUME Cron!SchedulerAssumption, ~LateUpdates, FiresInv, [Cron!Next]_Cron!vars
    PROVE  FiresInv'
<1>1. JobsOK /\ JobsOK' /\ NextIsAhead /\ NextIsAhead'
  BY JobsStayOK, AheadStays DEF FiresInv
<1>2. now \in Nat /\ now' \in Nat
  BY <1>1, Constants DEF JobsOK, TablesOK, Cron!Times
<1>3. ASSUME NEW s \in Schedules, NEW t \in Cron!Times
      PROVE  /\ t > now => fires[s][t] = 0
             /\ t > now' => fires'[s][t] = 0
  <2>1. t > now => fires[s][t] = 0
    BY DEF FiresInv
  <2>2. t \in Nat
    BY Constants
  <2>3. ASSUME NEW w \in Workers, NEW u \in Schedules, Cron!Fire(w, u)
        PROVE  t > now' => fires'[s][t] = 0
    <3>1. now' = now
          /\ (fires'[s][t] # fires[s][t] => t = firing[w][u].slot /\ Cron!CreateEvent(w, u))
      BY <1>1, <2>3, FireLeaves
    <3>2. Cron!CreateEvent(w, u) => firing[w][u].slot <= now
      BY <1>1 DEF JobsOK, JobOK, Cron!CreateEvent, Cron!At
    <3> QED BY <1>2, <2>1, <2>2, <3>1, <3>2
  <2>4. CASE UNCHANGED <<fires, now>>
    BY <2>1, <2>4
  <2>5. CASE Cron!Tick
    BY <1>2, <2>1, <2>2, <2>5 DEF Cron!Tick, Cron!tables
  <2> QED BY <2>1, <2>3, <2>4, <2>5
         DEF Cron!Next, Cron!vars, Cron!tables, Cron!WorkerStep, Cron!ProcessDueSchedules,
             Cron!Crash, Cron!DbError, Cron!FireFails, Cron!CreateSchedule, Cron!DeleteConsumer
<1>4. ASSUME NEW s \in Schedules \ BadCron, NEW t \in Cron!Times
      PROVE  OwedFor(s, t)' /\ Bounded(s, t)'
  <2>1. OwedFor(s, t) /\ Bounded(s, t)
    BY DEF FiresInv
  <2>2. ASSUME NEW w \in Workers, NEW u \in Schedules, Cron!Fire(w, u)
        PROVE  OwedFor(s, t)' /\ Bounded(s, t)'
    BY <1>1, <1>3, <2>1, <2>2, BoundsFire
  <2>3. ASSUME NEW w \in Workers, Cron!ProcessDueSchedules(w)
        PROVE  OwedFor(s, t)' /\ Bounded(s, t)'
    BY <1>1, <2>1, <2>3, BoundsProcess
  <2>4. ASSUME NEW w \in Workers, Cron!Crash(w)
        PROVE  OwedFor(s, t)' /\ Bounded(s, t)'
    BY <1>1, <2>1, <2>4, CrashIs, BoundsFault DEF Cron!tables
  <2>5. ASSUME NEW w \in Workers, NEW u \in Schedules, Cron!DbError, Cron!FireFails(w, u)
        PROVE  OwedFor(s, t)' /\ Bounded(s, t)'
    <3>1. \A v \in Workers : firing'[v][s] = firing[v][s]
          \/ (v = w /\ firing'[v][s] = Cron!NoJob)
      BY <1>1, <2>5, SetJobIs, NoJobIs DEF Cron!FireFails, JobsOK
    <3>2. UNCHANGED <<nextRun, fires>> /\ schedulerFaults' = schedulerFaults + 1
      BY <2>5 DEF Cron!FireFails, Cron!DbError
    <3> QED BY <1>1, <2>1, <3>1, <3>2, BoundsFault
  <2>6. CASE UNCHANGED <<firing, nextRun, fires, schedulerFaults>>
    BY <1>1, <2>1, <2>6, BoundsRest DEF Updating, Creating
  <2> QED BY <2>2, <2>3, <2>4, <2>5, <2>6
         DEF Cron!Next, Cron!vars, Cron!tables, Cron!WorkerStep, Cron!DbError,
             Cron!CreateSchedule, Cron!DeleteConsumer, Cron!Tick
<1>5. (\A s \in Schedules, t \in Cron!Times : t > now => fires[s][t] = 0)'
  BY <1>3
<1>6. (\A s \in Schedules \ BadCron, t \in Cron!Times : OwedFor(s, t) /\ Bounded(s, t))'
  BY <1>4
<1> QED BY <1>1, <1>5, <1>6 DEF FiresInv

\* If firings end before the next slot, a slot has at most an event per worker and fault,
\* though nothing is locked while a schedule fires (scheduler-service.ts 44-97).
THEOREM SlotFiresFewTimes ==
    ASSUME Cron!SchedulerAssumption, ~LateUpdates
    PROVE  Cron!Spec => []FiresBounded
<1>1. ASSUME Cron!Init
      PROVE  FiresInv
  <2>1. JobsOK /\ \A w \in Workers, s \in Schedules : firing[w][s] = Cron!NoJob
    BY <1>1, JobsStartOK DEF Cron!Init
  <2>2. NextIsAhead
    BY <2>1 DEF NextIsAhead, Cron!At, Cron!NoJob
  <2>3. ASSUME NEW s \in Schedules, NEW t \in Cron!Times
        PROVE  fires[s][t] = 0 /\ OwedFor(s, t) /\ Bounded(s, t)
    <3>1. fires[s][t] = 0 /\ schedulerFaults = 0
      BY <1>1 DEF Cron!Init
    <3>2. Creating(s, t) = {} /\ Updating(s, t) = {}
      BY <2>1 DEF Creating, Updating, Cron!NoJob, Fired
    <3>3. Cardinality(Creating(s, t)) = 0 /\ Cardinality(Updating(s, t)) = 0
      BY <3>2, FS_EmptySet
    <3> QED BY <3>1, <3>3, Constants DEF OwedFor, Bounded
  <2> QED BY <2>1, <2>2, <2>3 DEF FiresInv
<1>2. ASSUME FiresInv
      PROVE  FiresBounded
  <2> SUFFICES ASSUME NEW s \in Schedules \ BadCron, NEW t \in Cron!Times
               PROVE  fires[s][t] <= Cardinality(Workers) + schedulerFaults
    BY SameCount DEF FiresBounded, Cron!FiresBounded
  <2>1. Creating(s, t) \in SUBSET Workers
    BY DEF Creating
  <2>2. /\ Cardinality(Creating(s, t)) \in Nat /\ Cardinality(Workers) \in Nat
        /\ fires[s][t] \in 0..FireCap /\ FireCap \in Nat /\ schedulerFaults \in Nat
    BY <1>2, <2>1, CountsAreNats, Constants DEF FiresInv, JobsOK, TablesOK
  <2>3. Bounded(s, t)
    BY <1>2 DEF FiresInv
  <2> QED BY <2>2, <2>3 DEF Bounded
<1> QED BY <1>1, <1>2, FiresStay, PTL DEF Cron!Spec

-----------------------------------------------------------------------------
(* What is fired is moved on.                                                *)

\* A next_run that is about to be written is beyond the slot that was read, even if the
\* clock has passed it.
NextIsLater ==
    \A w \in Workers, s \in Schedules :
        Cron!At(w, s, "updating") => firing[w][s].next > firing[w][s].slot

LEMMA LaterStays ==
    ASSUME Cron!SchedulerAssumption, JobsOK, NextIsLater, [Cron!Next]_Cron!vars
    PROVE  NextIsLater'
<1> SUFFICES ASSUME NEW v \in Workers, NEW u \in Schedules, firing'[v][u].pc = "updating"
             PROVE  firing'[v][u].next > firing'[v][u].slot
  BY DEF NextIsLater, Cron!At
<1>1. CASE firing'[v][u] = firing[v][u]
  BY <1>1 DEF NextIsLater, Cron!At
<1>2. ASSUME NEW w \in Workers, NEW s \in Schedules, Cron!Fire(w, s)
      PROVE  firing'[v][u].next > firing'[v][u].slot
  <2>1. CASE v # w \/ u # s
    BY <1>1, <1>2, <2>1, FireLeaves
  <2>2. CASE v = w /\ u = s
    <3>1. Cron!ParseCron(v, u)
      BY <1>2, <2>2, FireMoves DEF Cron!Fire, Cron!NoJob
    <3>2. /\ firing'[v][u].next = Cron!NextAfter(now) /\ firing[v][u].pc = "parsing"
          /\ firing'[v][u].slot = firing[v][u].slot
      BY <1>2, <2>2, <3>1, FireMoves
    <3>3. firing[v][u].slot \in Nat /\ now \in Nat
      BY JobFields, Constants DEF JobsOK, TablesOK, Cron!Times
    <3>4. firing[v][u].slot <= now
      BY <3>2 DEF JobsOK, JobOK
    <3> QED BY <3>2, <3>3, <3>4, NextAfterIs
  <2> QED BY <2>1, <2>2
<1>3. ASSUME NEW w \in Workers, Cron!ProcessDueSchedules(w) \/ Cron!Crash(w)
      PROVE  firing'[v][u].next > firing'[v][u].slot
  <2>1. firing'[v][u] = firing[v][u]
    BY <1>3, BatchIs, CrashIs DEF Cron!NoJob
  <2> QED BY <1>1, <2>1
<1>4. ASSUME NEW w \in Workers, NEW s \in Schedules, Cron!FireFails(w, s)
      PROVE  firing'[v][u].next > firing'[v][u].slot
  <2>1. firing'[v][u] = firing[v][u] \/ firing'[v][u] = Cron!NoJob
    BY <1>4, SetJobIs, NoJobIs DEF Cron!FireFails, JobsOK
  <2> QED BY <1>1, <2>1 DEF Cron!NoJob
<1> QED BY <1>1, <1>2, <1>3, <1>4
        DEF Cron!Next, Cron!vars, Cron!WorkerStep, Cron!DbError,
            Cron!CreateSchedule, Cron!DeleteConsumer, Cron!Tick

\* What does not parse cannot fill a batch that is larger.
LEMMA BatchHasAGoodOne ==
    ASSUME Cron!SchedulerAssumption, Cardinality(BadCron) < BatchSize,
           NEW s \in Schedules \ BadCron, Cron!Due(s), NEW taken \in Cron!FindDue
    PROVE  \E u \in taken : u \in Schedules \ BadCron
<1> DEFINE late == {u \in Schedules : Cron!Due(u)}
<1>1. taken \subseteq late /\ taken \subseteq Schedules
      /\ (taken = late \/ Cardinality(taken) = BatchSize)
  BY SameCount DEF Cron!FindDue
<1>2. CASE taken = late
  BY <1>2
<1>3. CASE Cardinality(taken) = BatchSize
  <2>1. IsFiniteSet(BadCron) /\ Cardinality(BadCron) \in Nat /\ BatchSize \in Nat
    BY SameCount, FS_Subset, FS_CardinalityType DEF Cron!SchedulerAssumption
  <2>2. ~(taken \subseteq BadCron)
    BY <1>3, <2>1, FS_Subset
  <2> QED BY <1>1, <2>2
<1> QED BY <1>1, <1>2, <1>3

\* Schedules that never parse keep no others from firing unless they fill a batch, and a
\* schedule that fires does not fire for its slot again, for any period, batch and number
\* of workers and however late an update comes (scheduler-service.ts 33-51, 84-97).
THEOREM FiredIsMovedOn ==
    ASSUME Cron!SchedulerAssumption
    PROVE  Cron!Spec => FiringsMoveOn
<1>1. ASSUME Cron!Init
      PROVE  JobsOK /\ NextIsLater
  <2>1. JobsOK /\ \A w \in Workers, s \in Schedules : firing[w][s] = Cron!NoJob
    BY <1>1, JobsStartOK DEF Cron!Init
  <2> QED BY <2>1 DEF NextIsLater, Cron!At, Cron!NoJob
<1>2. ASSUME JobsOK, NEW w \in Workers, Cron!ProcessDueSchedules(w),
             Cardinality(BadCron) < BatchSize, NEW s \in Schedules \ BadCron, Cron!Due(s)
      PROVE  \E u \in Schedules \ BadCron : firing'[w][u].pc = "creating"
  <2>1. PICK taken \in Cron!FindDue :
          firing' = [firing EXCEPT ![w] = [u \in Schedules |->
                    IF u \in taken THEN [Cron!NoJob EXCEPT !.pc = "creating", !.slot = nextRun[u]]
                    ELSE Cron!NoJob]]
    BY <1>2 DEF Cron!ProcessDueSchedules
  <2>2. PICK u \in taken : u \in Schedules \ BadCron
    BY <1>2, BatchHasAGoodOne
  <2>3. firing'[w][u] = [Cron!NoJob EXCEPT !.pc = "creating", !.slot = nextRun[u]]
    BY <1>2, <2>1, <2>2 DEF JobsOK, JobTypes
  <2> QED BY <2>2, <2>3 DEF Cron!NoJob
<1>3. ASSUME JobsOK, NextIsLater, Cron!Next, NEW w \in Workers, NEW s \in Schedules \ BadCron,
             firing[w][s].pc # "none", firing'[w][s].pc = "none",
             schedulerFaults' = schedulerFaults
      PROVE  nextRun'[s] > firing[w][s].slot
  <2>1. ~Cron!DbError /\ \A v \in Workers : ~Cron!Crash(v)
    BY <1>3 DEF Cron!DbError, Cron!Crash, JobsOK, TablesOK
  <2>2. ASSUME NEW v \in Workers, Cron!ProcessDueSchedules(v)
        PROVE  FALSE
    BY <1>3, <2>2, BatchIs
  <2>3. ASSUME NEW v \in Workers, NEW u \in Schedules, Cron!Fire(v, u)
        PROVE  nextRun'[s] > firing[w][s].slot
    <3>1. v = w /\ u = s
      BY <1>3, <2>3, FireLeaves
    <3>2. ~Cron!CreateEvent(w, s) /\ ~Cron!ReadConsumers(w, s) /\ ~Cron!ParseCron(w, s)
          /\ \A c \in Consumers : ~Cron!Enqueue(w, s, c)
      BY <1>3, <2>3, <3>1, FireMoves
    <3>3. Cron!UpdateSchedule(w, s)
      BY <1>3, <2>3, <3>1, <3>2 DEF Cron!Fire, Cron!RejectCron
    <3>4. nextRun'[s] = firing[w][s].next
      BY <1>3, <3>3 DEF Cron!UpdateSchedule, JobsOK, TablesOK
    <3> QED BY <1>3, <3>3, <3>4 DEF NextIsLater, Cron!UpdateSchedule
  <2>4. CASE UNCHANGED firing
    BY <1>3, <2>4
  <2> QED BY <1>3, <2>1, <2>2, <2>3, <2>4
          DEF Cron!Next, Cron!WorkerStep, Cron!CreateSchedule, Cron!DeleteConsumer, Cron!Tick
<1>4. ASSUME JobsOK, NextIsLater, [Cron!Next]_Cron!vars
      PROVE  [\A w \in Workers :
                /\ /\ Cron!ProcessDueSchedules(w) /\ Cron!Cardinality(BadCron) < BatchSize
                   /\ \E s \in Schedules \ BadCron : Cron!Due(s)
                   => \E s \in Schedules \ BadCron : firing'[w][s].pc = "creating"
                /\ \A s \in Schedules \ BadCron :
                     /\ ~Cron!At(w, s, "none")
                     /\ firing'[w][s].pc = "none"
                     /\ schedulerFaults' = schedulerFaults
                     => nextRun'[s] > firing[w][s].slot]_Cron!vars
  BY <1>2, <1>3, <1>4, SameCount DEF Cron!At
<1>5. ASSUME JobsOK, NextIsLater, [Cron!Next]_Cron!vars
      PROVE  JobsOK' /\ NextIsLater'
  BY <1>5, JobsStayOK, LaterStays
<1> QED BY <1>1, <1>4, <1>5, PTL DEF Cron!Spec, FiringsMoveOn, Cron!FiringsMoveOn
=============================================================================
