--------------------------- MODULE WorkerShutdown ---------------------------
(***************************************************************************)
(* A worker process from its boot to its exit, and the counts of           *)
(* deliveries it keeps in memory on the way: Worker.start and stop, the    *)
(* shutdown of index.ts, MetricsService and TenantMetricsRepository.       *)
(*                                                                         *)
(* A service is a recurring task, taken here by its contract               *)
(* (TaskContract): one run at a time, none after its stop has resolved.    *)
(* The run of the delivery service is a batch of jobs that Promise.all     *)
(* waits for, and Promise.all rejects with the first job that does, while  *)
(* the others go on.                                                       *)
(***************************************************************************)
EXTENDS Naturals, FiniteSets

CONSTANTS
    Tenants,
    Jobs,           \* deliveries the process can have in hand
    Others,         \* services without jobs: retry, scheduler, cleanup
    None,
    MaxRecords,     \* bound on the deliveries that are counted
    MaxFaults       \* bound on the statements the database fails

ShutdownAssumption ==
    /\ {"delivery", "metrics"} \cap Others = {}
    /\ None \notin Tenants
    /\ MaxRecords \in Nat /\ MaxFaults \in Nat

Kinds == {"success", "failure"}
Rows  == Tenants \X Kinds
Loops == Others \cup {"delivery"}

VARIABLES
    on,         \* the tasks that have not been stopped
    busy,       \* the tasks with a run in progress
    job,        \* for each delivery, the tenant whose job is in progress
    batch,      \* the jobs that the run of the delivery service waits for
    counts,     \* successCounts and failureCounts
    snapshot,   \* what a flush has still to write
    stored,     \* project_metrics
    phase,      \* of the shutdown
    code,       \* exit code the shutdown is going to use
    recorded,   \* ghost: the deliveries counted so far
    lost,       \* ghost: those a failed flush or an exit took along
    faults      \* ghost

process == <<on, busy, job, batch>>
metrics == <<counts, snapshot, stored, recorded, lost>>
vars == <<on, busy, job, batch, counts, snapshot, stored, phase, code, recorded, lost, faults>>

Phases == {"up", "loops", "flushing", "last flush", "disconnect", "exited"}
Counts == [Rows -> 0..MaxRecords]
Zero   == [r \in Rows |-> 0]
Plus(f, g) == [r \in Rows |-> f[r] + g[r]]

TypeOK ==
    /\ on \subseteq Loops \cup {"metrics"}
    /\ busy \subseteq Loops \cup {"metrics"}
    /\ job \in [Jobs -> Tenants \cup {None}]
    /\ batch \subseteq Jobs
    /\ counts \in Counts /\ snapshot \in Counts /\ stored \in Counts
    /\ recorded \in Counts /\ lost \in Counts
    /\ phase \in Phases
    /\ code \in {0, 1}
    /\ faults \in 0..MaxFaults

\* After worker.start().
Init ==
    /\ on = Loops \cup {"metrics"}
    /\ busy = {}
    /\ job = [j \in Jobs |-> None]
    /\ batch = {}
    /\ counts = Zero /\ snapshot = Zero /\ stored = Zero
    /\ recorded = Zero /\ lost = Zero
    /\ phase = "up"
    /\ code = 0
    /\ faults = 0

Alive      == phase # "exited"
Connected  == phase \notin {"disconnect", "exited"}
InProgress == {j \in Jobs : job[j] # None}

Fault == faults < MaxFaults /\ faults' = faults + 1

-----------------------------------------------------------------------------
(* Runs of the services.                                                     *)

\* A run of retry, scheduler or cleanup begins, and ends.
OtherBegins(l) ==
    /\ Alive /\ l \in on \ busy
    /\ busy' = busy \cup {l}
    /\ UNCHANGED <<on, job, batch, metrics, phase, code, faults>>

OtherEnds(l) ==
    /\ Alive /\ l \in busy
    /\ busy' = busy \ {l}
    /\ UNCHANGED <<on, job, batch, metrics, phase, code, faults>>

\* claimAndDeliver: the deliveries of one claim.
Claim ==
    /\ Alive /\ "delivery" \in on \ busy
    /\ \E claimed \in SUBSET (Jobs \ InProgress) \ {{}} :
        \E tenants \in [claimed -> Tenants] :
            /\ batch' = claimed
            /\ job' = [j \in Jobs |-> IF j \in claimed THEN tenants[j] ELSE job[j]]
    /\ busy' = busy \cup {"delivery"}
    /\ UNCHANGED <<on, metrics, phase, code, faults>>

\* Promise.all resolves when the last job of the batch is over.
BatchWithout(j) ==
    /\ batch' = batch \ {j}
    /\ busy' = IF batch = {j} THEN busy \ {"delivery"} ELSE busy

\* A job counts its delivery after the queue has stored the outcome, which takes the pool.
Record(j, kind) ==
    /\ Alive /\ Connected /\ job[j] # None
    /\ recorded[<<job[j], kind>>] < MaxRecords
    /\ counts' = [counts EXCEPT ![<<job[j], kind>>] = @ + 1]
    /\ recorded' = [recorded EXCEPT ![<<job[j], kind>>] = @ + 1]
    /\ job' = [job EXCEPT ![j] = None]
    /\ BatchWithout(j)
    /\ UNCHANGED <<on, snapshot, stored, lost, phase, code, faults>>

\* It is put back, it awaits an acknowledgement, its event is gone: nothing to count.
EndsUncounted(j) ==
    /\ Alive /\ job[j] # None
    /\ job' = [job EXCEPT ![j] = None]
    /\ BatchWithout(j)
    /\ UNCHANGED <<on, metrics, phase, code, faults>>

\* Mutant: what clears "active" is a then, which a rejection does not reach.
StillActive(task) == busy

\* finally: the run is over, however it ended.
AfterFailure(task) == busy \ {task}

\* The statement that should have scheduled the retry fails: the job rejects, the run of
\* the service with it, and the jobs left of the batch go on unattended.
Rejects(j) ==
    /\ Alive /\ job[j] # None /\ Fault
    /\ job' = [job EXCEPT ![j] = None]
    /\ IF j \in batch
       THEN batch' = {} /\ busy' = AfterFailure("delivery")
       ELSE UNCHANGED <<batch, busy>>
    /\ UNCHANGED <<on, metrics, phase, code>>

-----------------------------------------------------------------------------
(* MetricsService.flush.                                                     *)

\* Mutant: the maps are read and not cleared.
KeepCounts == counts

Cleared == Zero

\* The snapshot and the clearing are one step: nothing is awaited between them.
TakeSnapshot ==
    /\ snapshot' = counts
    /\ counts' = Cleared

FlushBegins ==
    /\ Alive /\ "metrics" \in on \ busy /\ counts # Zero
    /\ TakeSnapshot
    /\ busy' = busy \cup {"metrics"}
    /\ UNCHANGED <<on, job, batch, stored, phase, code, recorded, lost, faults>>

Flushing == "metrics" \in busy \/ phase = "last flush"

\* Successes of every tenant before failures of any.
NextRows ==
    LET left(kind) == {r \in Rows : r[2] = kind /\ snapshot[r] > 0}
    IN  IF left("success") # {} THEN left("success") ELSE left("failure")

\* incrementSuccessBatch, incrementFailureBatch.
Increment(r) == [stored EXCEPT ![r] = @ + snapshot[r]]

FlushRow(r) ==
    /\ Alive /\ Flushing /\ r \in NextRows
    /\ stored' = Increment(r)
    /\ snapshot' = [snapshot EXCEPT ![r] = 0]
    /\ UNCHANGED <<process, counts, phase, code, recorded, lost, faults>>

\* The periodic flush is over; an error of it is logged.
FlushEnds ==
    /\ Alive /\ "metrics" \in busy /\ snapshot = Zero
    /\ busy' = busy \ {"metrics"}
    /\ UNCHANGED <<on, job, batch, metrics, phase, code, faults>>

\* A statement fails, and the rest of the snapshot goes with it.  The row may have been
\* written all the same: the answer is what got lost.
FlushFails(r, written) ==
    /\ Alive /\ Flushing /\ r \in NextRows /\ Fault
    /\ stored' = IF written THEN Increment(r) ELSE stored
    /\ lost' = Plus(lost, IF written THEN [snapshot EXCEPT ![r] = 0] ELSE snapshot)
    /\ snapshot' = Zero
    /\ busy' = AfterFailure("metrics")
    \* metrics.stop() rejects, and shutdown() goes to its catch and its finally.
    /\ IF phase = "last flush" THEN phase' = "exited" /\ code' = 1 ELSE UNCHANGED <<phase, code>>
    /\ UNCHANGED <<on, job, batch, counts, recorded>>

-----------------------------------------------------------------------------
(* Shutdown.                                                                 *)

\* SIGTERM or SIGINT, or an error nobody caught.
Signal(c) ==
    /\ phase = "up"
    /\ phase' = "loops"
    /\ code' = c
    /\ on' = {"metrics"}
    /\ UNCHANGED <<busy, job, batch, metrics, faults>>

\* Mutant: a stop does not wait for the run in progress.
NotWaiting == TRUE

ServicesStopped == busy \cap Loops = {}

\* Promise.all of the four stops has resolved: metrics.stop() stops its task.
StopMetrics ==
    /\ phase = "loops" /\ ServicesStopped
    /\ phase' = "flushing"
    /\ on' = {}
    /\ UNCHANGED <<busy, job, batch, metrics, code, faults>>

FlushOver == "metrics" \notin busy

\* No flush is in progress any more: one more, of what has been counted since.
LastFlush ==
    /\ phase = "flushing" /\ FlushOver
    /\ TakeSnapshot
    /\ phase' = "last flush"
    /\ UNCHANGED <<process, stored, code, recorded, lost, faults>>

\* pool.end().
Disconnect ==
    /\ phase = "last flush" /\ snapshot = Zero
    /\ phase' = "disconnect"
    /\ UNCHANGED <<process, metrics, code, faults>>

\* process.exit(code), or exit 1 when closing the pool fails.
Exit ==
    /\ phase = "disconnect"
    /\ phase' = "exited"
    /\ UNCHANGED <<process, metrics, code, faults>>

DisconnectFails ==
    /\ phase = "disconnect" /\ Fault
    /\ phase' = "exited"
    /\ code' = 1
    /\ UNCHANGED <<process, metrics>>

\* WORKER_SHUTDOWN_MAX_WAIT_MS is over.
ForceExit ==
    /\ phase \notin {"up", "exited"}
    /\ phase' = "exited"
    /\ code' = 1
    /\ UNCHANGED <<process, metrics, faults>>

\* The handlers are there once: a signal they have had before kills the process.  Another
\* signal or error finds shuttingDown set and changes nothing.
SecondSignal ==
    /\ phase \notin {"up", "exited"}
    /\ phase' = "exited"
    /\ code' = 1
    /\ UNCHANGED <<process, metrics, faults>>

\* A job, a flush and a shutdown get one step further.
JobEnds(j) == EndsUncounted(j) \/ Rejects(j) \/ \E kind \in Kinds : Record(j, kind)

FlushGoesOn ==
    FlushEnds \/ \E r \in Rows : FlushRow(r) \/ \E written \in BOOLEAN : FlushFails(r, written)

ShutdownGoesOn == StopMetrics \/ LastFlush \/ Disconnect \/ Exit \/ DisconnectFails

Next ==
    \/ \E l \in Others : OtherBegins(l) \/ OtherEnds(l)
    \/ Claim
    \/ \E j \in Jobs : JobEnds(j)
    \/ FlushBegins \/ FlushGoesOn
    \/ \E c \in {0, 1} : Signal(c)
    \/ ShutdownGoesOn
    \/ ForceExit \/ SecondSignal

Spec == Init /\ [][Next]_vars

-----------------------------------------------------------------------------
(* Properties.                                                               *)

\* Every delivery that was counted is in the table, in a map, in the snapshot of a flush
\* or among those a failed flush dropped, and in one of them only: no interleaving of
\* jobs, flushes and a shutdown counts one twice (metrics-service.ts 34-61).
CountedOnce == recorded = Plus(Plus(stored, lost), Plus(counts, snapshot))

\* The order of the stops makes a clean exit a complete one: without an error of the
\* database nothing is left in memory at exit 0 (worker.ts 26-40, index.ts 30-38).
CleanExitCountsAll ==
    phase = "exited" /\ code = 0 /\ faults = 0 => stored = recorded

CountsAddUp == CountedOnce /\ CleanExitCountsAll

\* Once the pool is closed the worker does nothing with it, if no job has rejected before:
\* Promise.all is what waits for the jobs (delivery-service.ts 53-57).
QuietWhenDisconnected ==
    phase = "disconnect" /\ faults = 0 => busy = {} /\ InProgress = {}

\* Every statement and every request comes to an end.  Requests have a time-out; statements
\* have none, so this assumes a database that answers, if only with an error.  The timer
\* of the forced exit and further signals are not relied on.
FairSpec ==
    /\ Spec
    /\ \A l \in Others : WF_vars(OtherEnds(l))
    /\ \A j \in Jobs : WF_vars(JobEnds(j))
    /\ WF_vars(FlushGoesOn)
    /\ WF_vars(ShutdownGoesOn)

\* A shutdown never waits for what does not come: whatever is in progress when the signal
\* arrives, whichever job rejected before and whichever statement fails, the stops resolve
\* one after the other and the worker exits, also if the timer that forces it never fires
\* (worker.ts 26-40, index.ts 19-39, recurring-task.helper.ts 18-42).
StopsByItself == (phase = "loops") ~> (phase = "exited")
=============================================================================
