---------------------------- MODULE DeliveryQueue ----------------------------
(***************************************************************************)
(* The delivery queue of Taktflow: the rows of event_deliveries, events    *)
(* and dead_letter_events in one PostgreSQL database, and the processes    *)
(* that work on them with no lock that outlives a statement or a           *)
(* transaction:                                                            *)
(*                                                                         *)
(*   - Worker processes, which claim a batch of due rows, POST each to its *)
(*     consumer and record the outcome (DeliveryService, RetryService);    *)
(*   - their two timers, which put timed-out rows back in the queue;       *)
(*   - API requests: a pull consumer claims rows, a consumer reports an    *)
(*     outcome, an operator pauses, resumes or deletes a consumer.         *)
(*                                                                         *)
(* A claimed row has a HANDLER: a slot of a worker's batch, or an API      *)
(* request.  A handler keeps the copy of the row it read (delivery,        *)
(* attempt) and acts on it several statements later.  Each SQL statement   *)
(* is a step, at READ COMMITTED; a transaction is one step, unless another *)
(* process can tell its snapshot from its commit.                          *)
(*                                                                         *)
(* Abstracted: clocks (a row is due, or timed out, whenever its status and *)
(* started_at allow it), the order of a claim, payloads, response bodies,  *)
(* tenants and logging.                                                    *)
(***************************************************************************)
EXTENDS Naturals, FiniteSets

CONSTANTS
    Deliveries, Events, Consumers,  \* ids of rows
    LateRows,           \* deliveries enqueued while others of their event are worked on
    EventOf, ConsumerOf,            \* event_deliveries.event_id, .consumer_id
    PullConsumers,      \* type 'pull', or no url
    CorruptEvents,      \* events whose stored checksum is not that of the payload
    Workers,            \* worker processes
    BatchSize,          \* WORKER_BATCH_SIZE, and the jobs a worker can run
    ApiCalls,           \* acknowledge requests an API process can serve at once
    NoDelivery,
    MaxAttempts,        \* WORKER_DEFAULT_RETRY_ATTEMPTS
    MaxApiAttempts,     \* RETRY_MAX_ATTEMPTS, the API's own setting
    RetryCap,           \* retry_count is not told apart beyond it
    LetterCap,          \* dead letters of one cause are not told apart beyond it
    MaxCrashes,         \* bound on process crashes
    MaxDbErrors,        \* bound on database calls that throw
    Replies,            \* what the endpoints may answer
    LateTimers,         \* TRUE: a timer may fire on a row a handler still works on
    RacingAcks          \* TRUE: a consumer may report while a handler holds the row

Slots    == Workers \X (1..BatchSize)
Handlers == Slots \cup ApiCalls

AllReplies == {"ok", "202", "4xx", "5xx", "error"}
Open       == {"pending", "processing", "awaiting_ack"}
Settled    == {"delivered", "failed"}
\* "absent": the row is not inserted yet.
Statuses   == {"absent"} \cup Open \cup Settled
EventStatuses == {"pending", "processing"} \cup Settled
\* Why a delivery is given up: no retry can help ("fatal": consumer deleted,
\* checksum mismatch, a 4xx answer), or the worker's or the API's retries are used up.
Reasons    == {"fatal", "exhausted", "reported"}

ASSUME ConstantsAssumption ==
    /\ EventOf \in [Deliveries -> Events]
    /\ ConsumerOf \in [Deliveries -> Consumers]
    /\ LateRows \subseteq Deliveries
    /\ PullConsumers \subseteq Consumers
    /\ CorruptEvents \subseteq Events
    /\ NoDelivery \notin Deliveries
    /\ Slots \cap ApiCalls = {}
    /\ BatchSize \in Nat \ {0}
    /\ MaxAttempts \in Nat
    /\ MaxApiAttempts \in Nat
    /\ RetryCap \in Nat
    /\ MaxAttempts < RetryCap
    /\ MaxApiAttempts < RetryCap
    /\ LetterCap \in Nat \ {0}
    /\ MaxCrashes \in Nat
    /\ MaxDbErrors \in Nat
    /\ Replies \subseteq AllReplies
    /\ LateTimers \in BOOLEAN
    /\ RacingAcks \in BOOLEAN

VARIABLES
    status,         \* event_deliveries.status
    retryCount,     \* event_deliveries.retry_count
    startedAt,      \* event_deliveries.started_at is not null
    eventStatus,    \* events.status
    deadLetters,    \* how many dead_letter_events rows a delivery has, by cause
    consumerStatus, \* consumers.status, or "deleted"
    handler,        \* what each handler is doing, and the row copy it works on
    batch,          \* the slots the worker's Promise.all waits for
    crashes, dbErrors,  \* how many have happened
    evidence        \* history: a 2xx answer or a success report came for the row

rows == <<status, retryCount, startedAt>>
faults == <<crashes, dbErrors>>
vars == <<rows, eventStatus, deadLetters, consumerStatus, handler, batch,
          faults, evidence>>

DeliveriesOf(e) == {d \in Deliveries : EventOf[d] = e}

-----------------------------------------------------------------------------
(* Handlers.  pc names the call the handler makes next.                      *)

Idle == [pc |-> "idle", delivery |-> NoDelivery, attempt |-> 0,
         reason |-> "none", agg |-> "none", caught |-> FALSE]

PCs == {"idle", "lookup", "posting", "marking", "releasing", "retrying",
        "acking", "aggregating", "syncing", "burying", "committing"}

HandlerState ==
    [pc : PCs, delivery : Deliveries \cup {NoDelivery}, attempt : Nat,
     reason : Reasons \cup {"none"}, agg : EventStatuses \cup {"none"},
     caught : BOOLEAN]

At(h, pc) == handler[h].pc = pc
Row(h)    == handler[h].delivery
Goto(h, pc) == handler' = [handler EXCEPT ![h].pc = pc]
Finish(h)   == handler' = [handler EXCEPT ![h] = Idle]

Held(d) == \E h \in Handlers : Row(h) = d

\* A transaction that has updated the row and not committed keeps it locked:
\* other updates wait, and a claim skips it.
Locked(d) == \E h \in Handlers : Row(h) = d /\ At(h, "committing")

Bump(n, cap) == IF n < cap THEN n + 1 ELSE n

Init ==
    /\ status = [d \in Deliveries |-> IF d \in LateRows THEN "absent" ELSE "pending"]
    /\ retryCount = [d \in Deliveries |-> 0]
    /\ startedAt = [d \in Deliveries |-> FALSE]
    /\ eventStatus = [e \in Events |-> "pending"]
    /\ deadLetters = [d \in Deliveries |-> [r \in Reasons |-> 0]]
    /\ consumerStatus = [c \in Consumers |-> "active"]
    /\ handler = [h \in Handlers |-> Idle]
    /\ batch = [w \in Workers |-> {}]
    /\ crashes = 0
    /\ dbErrors = 0
    /\ evidence = [d \in Deliveries |-> FALSE]

\* The rest of a fan-out still under way, a replayed dead letter: a new row for an
\* event that is worked on, and may be settled, already.
Enqueue(d) ==
    /\ status[d] = "absent"
    /\ status' = [status EXCEPT ![d] = "pending"]
    /\ UNCHANGED <<retryCount, startedAt, eventStatus, deadLetters,
                   consumerStatus, handler, batch, faults, evidence>>

-----------------------------------------------------------------------------
(* Claiming.                                                                 *)

\* SELECT ... FOR UPDATE SKIP LOCKED
Claimable == {d \in Deliveries : status[d] = "pending" /\ ~Locked(d)}

\* Mutants: a claim that forgets the event, the status, the lease.
TakeRowsNotEvent(claimed) ==
    /\ status' = [d \in Deliveries |->
                    IF d \in claimed THEN "processing" ELSE status[d]]
    /\ startedAt' = [d \in Deliveries |-> d \in claimed \/ startedAt[d]]
    /\ UNCHANGED <<retryCount, eventStatus>>

TakeRowsNotStatus(claimed) ==
    /\ startedAt' = [d \in Deliveries |-> d \in claimed \/ startedAt[d]]
    /\ eventStatus' = [e \in Events |->
            IF \E d \in claimed : EventOf[d] = e THEN "processing" ELSE eventStatus[e]]
    /\ UNCHANGED <<status, retryCount>>

\* The two UPDATEs of a claim: started_at is the lease the timers look at, and
\* only events still 'pending' are touched.
TakeRows(claimed) ==
    /\ status' = [d \in Deliveries |->
                    IF d \in claimed THEN "processing" ELSE status[d]]
    /\ startedAt' = [d \in Deliveries |-> d \in claimed \/ startedAt[d]]
    /\ eventStatus' =
         [e \in Events |->
            IF eventStatus[e] = "pending" /\ \E d \in claimed : EventOf[d] = e
            THEN "processing" ELSE eventStatus[e]]
    /\ UNCHANGED retryCount

ClaimedJob(d) == [Idle EXCEPT !.pc = "lookup", !.delivery = d,
                              !.attempt = retryCount[d]]

FreeSlots(w) == {s \in Slots : s[1] = w /\ At(s, "idle")}

\* A worker polls again when every job of its last batch has ended.
BatchDone(w) == \A s \in batch[w] : At(s, "idle")

Claim(w) ==
    /\ BatchDone(w)
    /\ \E used \in SUBSET FreeSlots(w) \ {{}} :
       \E job \in [used -> Claimable] :
          /\ \A s, t \in used : job[s] = job[t] => s = t
          /\ TakeRows({job[s] : s \in used})
          /\ handler' = [h \in Handlers |->
                           IF h \in used THEN ClaimedJob(job[h]) ELSE handler[h]]
          /\ batch' = [batch EXCEPT ![w] = used]
    /\ UNCHANGED <<deadLetters, consumerStatus, faults, evidence>>

\* A consumer asks for its rows; the caller, not the API, then holds them.
Consume(c) ==
    /\ consumerStatus[c] # "deleted"
    /\ \E claimed \in SUBSET {d \in Claimable : ConsumerOf[d] = c} \ {{}} :
          TakeRows(claimed)
    /\ UNCHANGED <<deadLetters, consumerStatus, handler, batch, faults, evidence>>

-----------------------------------------------------------------------------
(* What a worker does with a claimed row.                                    *)

\* Mutant: one attempt fewer.
RetryOrBuryEarly(h, caught) ==
    handler' = [handler EXCEPT
        ![h].pc = IF handler[h].attempt + 1 >= MaxAttempts THEN "burying" ELSE "retrying",
        ![h].reason = IF handler[h].attempt + 1 >= MaxAttempts THEN "exhausted" ELSE "none",
        ![h].caught = caught]

\* RetryService decides on the attempt the claim read, not on the row.
RetryOrBury(h, caught) ==
    handler' = [handler EXCEPT
        ![h].pc = IF handler[h].attempt >= MaxAttempts THEN "burying" ELSE "retrying",
        ![h].reason = IF handler[h].attempt >= MaxAttempts THEN "exhausted" ELSE "none",
        ![h].caught = caught]

Bury(h) ==
    handler' = [handler EXCEPT ![h].pc = "burying", ![h].reason = "fatal"]

LookUp(h) ==
    LET c == ConsumerOf[Row(h)] IN
    /\ At(h, "lookup")
    /\ \/ consumerStatus[c] = "deleted" /\ Bury(h)
       \/ /\ consumerStatus[c] # "deleted"
          /\ consumerStatus[c] = "paused" \/ c \in PullConsumers
          /\ Goto(h, "releasing")
       \/ /\ consumerStatus[c] = "active" /\ c \notin PullConsumers
          /\ EventOf[Row(h)] \in CorruptEvents
          /\ Bury(h)
       \/ /\ consumerStatus[c] = "active" /\ c \notin PullConsumers
          /\ EventOf[Row(h)] \notin CorruptEvents
          /\ Goto(h, "posting")
    /\ UNCHANGED <<rows, eventStatus, deadLetters, consumerStatus, batch, faults, evidence>>

\* Mutant: response.ok is tested before the 202.
RespondOkFirst(h, reply) ==
    /\ At(h, "posting")
    /\ \/ reply \in {"ok", "202"} /\ Goto(h, "acking")
       \/ reply = "4xx" /\ Bury(h)
       \/ reply = "5xx" /\ RetryOrBury(h, FALSE)
       \/ reply = "error" /\ RetryOrBury(h, TRUE)
    /\ evidence' = [evidence EXCEPT ![Row(h)] = @ \/ reply = "ok"]
    /\ UNCHANGED <<rows, eventStatus, deadLetters, consumerStatus, batch, faults>>

\* The endpoint answers, or the request fails or times out ("error").
Respond(h, reply) ==
    /\ At(h, "posting")
    /\ \/ reply = "202" /\ Goto(h, "marking")
       \/ reply = "ok"  /\ Goto(h, "acking")
       \/ reply = "4xx" /\ Bury(h)
       \/ reply = "5xx" /\ RetryOrBury(h, FALSE)
       \/ reply = "error" /\ RetryOrBury(h, TRUE)
    /\ evidence' = [evidence EXCEPT ![Row(h)] = @ \/ reply = "ok"]
    /\ UNCHANGED <<rows, eventStatus, deadLetters, consumerStatus, batch, faults>>

-----------------------------------------------------------------------------
(* The statements of the queue engine.  Each names its row by id and does    *)
(* not look at the row's status.                                             *)

MarkAwaitingAck(h) ==
    /\ At(h, "marking") /\ ~Locked(Row(h))
    /\ status' = [status EXCEPT ![Row(h)] = "awaiting_ack"]
    /\ Finish(h)
    /\ UNCHANGED <<retryCount, startedAt, eventStatus, deadLetters,
                   consumerStatus, batch, faults, evidence>>

ReleaseToPending(h) ==
    /\ At(h, "releasing") /\ ~Locked(Row(h))
    /\ status' = [status EXCEPT ![Row(h)] = "pending"]
    /\ startedAt' = [startedAt EXCEPT ![Row(h)] = FALSE]
    /\ Finish(h)
    /\ UNCHANGED <<retryCount, eventStatus, deadLetters,
                   consumerStatus, batch, faults, evidence>>

\* Mutant: the retry is not counted.
ScheduleRetryUncounted(h) ==
    /\ At(h, "retrying") /\ ~Locked(Row(h))
    /\ status' = [status EXCEPT ![Row(h)] = "pending"]
    /\ Finish(h)
    /\ UNCHANGED <<retryCount, startedAt, eventStatus, deadLetters,
                   consumerStatus, batch, faults, evidence>>

ScheduleRetry(h) ==
    /\ At(h, "retrying") /\ ~Locked(Row(h))
    /\ status' = [status EXCEPT ![Row(h)] = "pending"]
    /\ retryCount' = [retryCount EXCEPT ![Row(h)] = Bump(@, RetryCap)]
    /\ Finish(h)
    /\ UNCHANGED <<startedAt, eventStatus, deadLetters,
                   consumerStatus, batch, faults, evidence>>

\* acknowledge: the row first, the event in a second statement of its own.
Acknowledge(h) ==
    /\ At(h, "acking") /\ ~Locked(Row(h))
    /\ status' = [status EXCEPT ![Row(h)] = "delivered"]
    /\ Goto(h, "aggregating")
    /\ UNCHANGED <<retryCount, startedAt, eventStatus, deadLetters,
                   consumerStatus, batch, faults, evidence>>

\* Mutant: a row that waits for its consumer's report is not counted as open.
AggregateUnacked(e, d, s) ==
    LET seen == {IF k = d THEN s ELSE status[k] : k \in DeliveriesOf(e)} IN
    IF seen \cap {"pending", "processing"} # {} THEN "processing"
    ELSE IF "failed" \in seen THEN "failed" ELSE "delivered"

\* Mutant: a failed delivery settles the event, whatever is open.
AggregateFailedFirst(e, d, s) ==
    LET seen == {IF k = d THEN s ELSE status[k] : k \in DeliveriesOf(e)} IN
    IF "failed" \in seen THEN "failed"
    ELSE IF seen \cap Open # {} THEN "processing" ELSE "delivered"

\* The status of an event whose delivery d counts as s.
Aggregate(e, d, s) ==
    LET seen == {IF k = d THEN s ELSE status[k] : k \in DeliveriesOf(e)} IN
    IF seen \cap Open # {} THEN "processing"
    ELSE IF "failed" \in seen THEN "failed" ELSE "delivered"

\* syncEventStatus is one UPDATE: it aggregates the rows of its snapshot, may
\* wait for the event's row, and then writes what it had aggregated.
AggregateRows(h) ==
    /\ At(h, "aggregating")
    /\ handler' = [handler EXCEPT ![h].pc = "syncing",
         ![h].agg = Aggregate(EventOf[Row(h)], Row(h), status[Row(h)])]
    /\ UNCHANGED <<rows, eventStatus, deadLetters, consumerStatus, batch, faults, evidence>>

SyncEventStatus(h) ==
    /\ At(h, "syncing")
    /\ eventStatus' = [eventStatus EXCEPT ![EventOf[Row(h)]] = handler[h].agg]
    /\ Finish(h)
    /\ UNCHANGED <<rows, deadLetters, consumerStatus, batch, faults, evidence>>

\* moveToDeadLetter: up to its last statement the transaction is visible only as
\* the lock on its row; that statement aggregates the rows it sees, its own
\* 'failed' row and the committed ones ...
BeginDeadLetter(h) ==
    /\ At(h, "burying") /\ ~Locked(Row(h))
    /\ handler' = [handler EXCEPT ![h].pc = "committing",
         ![h].agg = Aggregate(EventOf[Row(h)], Row(h), "failed")]
    /\ UNCHANGED <<rows, eventStatus, deadLetters, consumerStatus, batch, faults, evidence>>

\* Mutant: the dead letter is not in the transaction.
CommitFailureOnly(h) ==
    /\ At(h, "committing")
    /\ status' = [status EXCEPT ![Row(h)] = "failed"]
    /\ eventStatus' = [eventStatus EXCEPT ![EventOf[Row(h)]] = handler[h].agg]
    /\ Finish(h)
    /\ UNCHANGED <<retryCount, startedAt, deadLetters, consumerStatus, batch,
                   faults, evidence>>

\* ... and the commit publishes the row, the dead letter and the event at once.
CommitDeadLetter(h) ==
    /\ At(h, "committing")
    /\ status' = [status EXCEPT ![Row(h)] = "failed"]
    /\ deadLetters' = [deadLetters EXCEPT
                         ![Row(h)][handler[h].reason] = Bump(@, LetterCap)]
    /\ eventStatus' = [eventStatus EXCEPT ![EventOf[Row(h)]] = handler[h].agg]
    /\ Finish(h)
    /\ UNCHANGED <<retryCount, startedAt, consumerStatus, batch, faults, evidence>>

-----------------------------------------------------------------------------
(* The consumer reports the outcome of an event through the API.             *)

\* Mutant: the report is applied to a row in any status but 'pending'.
AcknowledgeAnyRow(a, e, success) ==
    /\ At(a, "idle")
    /\ \E d \in DeliveriesOf(e) :
         /\ status[d] # "pending"
         /\ RacingAcks \/ ~Held(d)
         /\ handler' = [handler EXCEPT ![a] =
               [Idle EXCEPT !.delivery = d, !.attempt = retryCount[d],
                  !.pc = IF success THEN "acking" ELSE "retrying"]]
         /\ evidence' = [evidence EXCEPT ![d] = @ \/ success]
    /\ UNCHANGED <<rows, eventStatus, deadLetters, consumerStatus, batch, faults>>

\* A row of the event that someone works on, whoever its consumer is: the
\* first the unordered SELECT returns.
AcknowledgeEvent(a, e, success) ==
    /\ At(a, "idle")
    /\ \E d \in DeliveriesOf(e) :
         /\ status[d] \in {"processing", "awaiting_ack"}
         /\ RacingAcks \/ ~Held(d)
         /\ LET exhausted == retryCount[d] >= MaxApiAttempts IN
            handler' = [handler EXCEPT ![a] =
               [Idle EXCEPT !.delivery = d, !.attempt = retryCount[d],
                  !.pc = IF success THEN "acking"
                         ELSE IF exhausted THEN "burying" ELSE "retrying",
                  !.reason = IF ~success /\ exhausted THEN "reported" ELSE "none"]]
         /\ evidence' = [evidence EXCEPT ![d] = @ \/ success]
    /\ UNCHANGED <<rows, eventStatus, deadLetters, consumerStatus, batch, faults>>

SetConsumer(c, s) ==
    /\ consumerStatus[c] \notin {"deleted", s}
    /\ consumerStatus' = [consumerStatus EXCEPT ![c] = s]
    /\ UNCHANGED <<rows, eventStatus, deadLetters, handler, batch, faults, evidence>>

-----------------------------------------------------------------------------
(* The timers of RetryService.  Each is one UPDATE over all the rows whose   *)
(* started_at is old enough; a null started_at is never old enough.          *)

\* Mutant: a row whose retries are used up is left alone.
OverdueWithRetries(s) ==
    {d \in Deliveries : /\ status[d] = s /\ startedAt[d]
                        /\ retryCount[d] < MaxAttempts
                        /\ LateTimers \/ ~Held(d)}

Overdue(s) == {d \in Deliveries : /\ status[d] = s
                                  /\ startedAt[d]
                                  /\ ~Locked(d)
                                  /\ LateTimers \/ ~Held(d)}

ResetTimedOutAcks(expired) ==
    /\ expired # {} /\ expired \subseteq Overdue("awaiting_ack")
    /\ status' = [d \in Deliveries |->
                    IF d \in expired THEN "pending" ELSE status[d]]
    /\ retryCount' = [d \in Deliveries |->
                        IF d \in expired THEN Bump(retryCount[d], RetryCap)
                        ELSE retryCount[d]]
    /\ UNCHANGED <<startedAt, eventStatus, deadLetters, consumerStatus,
                   handler, batch, faults, evidence>>

ReleaseStuckDeliveries(expired) ==
    /\ expired # {} /\ expired \subseteq Overdue("processing")
    /\ status' = [d \in Deliveries |->
                    IF d \in expired THEN "pending" ELSE status[d]]
    /\ startedAt' = [d \in Deliveries |-> d \notin expired /\ startedAt[d]]
    /\ UNCHANGED <<retryCount, eventStatus, deadLetters, consumerStatus,
                   handler, batch, faults, evidence>>

-----------------------------------------------------------------------------
(* Faults.                                                                   *)

\* A call of deliver() throws: the catch block retries or gives up on the
\* delivery.
CatchError(h) ==
    /\ h \in Slots /\ ~handler[h].caught
    /\ RetryOrBury(h, TRUE)
    /\ UNCHANGED batch

\* A call of the catch block throws: the job ends, and so does the wait of the
\* worker's Promise.all for the rest of the batch.
RejectBatch(h) ==
    /\ h \in Slots /\ handler[h].caught
    /\ Finish(h)
    /\ batch' = [batch EXCEPT ![h[1]] = {}]

\* The API answers 500.
FailRequest(h) ==
    /\ h \in ApiCalls
    /\ Finish(h)
    /\ UNCHANGED batch

DbError(h) ==
    /\ dbErrors < MaxDbErrors
    /\ handler[h].pc \notin {"idle", "posting"}
    /\ CatchError(h) \/ RejectBatch(h) \/ FailRequest(h)
    /\ dbErrors' = dbErrors + 1
    /\ UNCHANGED <<rows, eventStatus, deadLetters, consumerStatus, crashes, evidence>>

\* A process dies and is started again: its handlers are gone, an open
\* transaction is rolled back.
Crash(hs) ==
    /\ crashes < MaxCrashes
    /\ \E h \in hs : ~At(h, "idle")
    /\ handler' = [h \in Handlers |-> IF h \in hs THEN Idle ELSE handler[h]]
    /\ batch' = [w \in Workers |-> batch[w] \ hs]
    /\ crashes' = crashes + 1
    /\ UNCHANGED <<rows, eventStatus, deadLetters, consumerStatus, dbErrors, evidence>>

WorkerCrash(w) == Crash({s \in Slots : s[1] = w})
ApiCrash == Crash(ApiCalls)

-----------------------------------------------------------------------------
HandlerStep(h) ==
    \/ LookUp(h)
    \/ \E reply \in Replies : Respond(h, reply)
    \/ MarkAwaitingAck(h) \/ ReleaseToPending(h) \/ ScheduleRetry(h)
    \/ Acknowledge(h) \/ AggregateRows(h) \/ SyncEventStatus(h)
    \/ BeginDeadLetter(h) \/ CommitDeadLetter(h)

Next ==
    \/ \E w \in Workers : Claim(w) \/ WorkerCrash(w)
    \/ \E h \in Handlers : HandlerStep(h) \/ DbError(h)
    \/ \E a \in ApiCalls, e \in Events, success \in BOOLEAN :
          AcknowledgeEvent(a, e, success)
    \/ \E c \in Consumers :
          Consume(c) \/ \E s \in {"active", "paused", "deleted"} : SetConsumer(c, s)
    \/ \E d \in Deliveries : Enqueue(d)
    \/ \E expired \in SUBSET Deliveries :
          ResetTimedOutAcks(expired) \/ ReleaseStuckDeliveries(expired)
    \/ ApiCrash

Spec == Init /\ [][Next]_vars

\* A started job runs to its end: a POST has a time-out, and the database is assumed to
\* answer each call or fail it (the pool is given no time-out).  The timers keep firing,
\* and a due row is claimed in the end: a claim takes the oldest first.
Fairness ==
    /\ \A h \in Handlers : WF_vars(HandlerStep(h))
    /\ \A d \in Deliveries :
         /\ SF_vars(\E w \in Workers : Claim(w) /\ status[d] = "pending"
                                        /\ status'[d] = "processing")
         /\ WF_vars(ResetTimedOutAcks({d}))
         /\ WF_vars(ReleaseStuckDeliveries({d}))

FairSpec == Spec /\ Fairness

-----------------------------------------------------------------------------
(* Properties.                                                               *)

\* Types of the rows and of the handlers' copies.
TypeOK ==
    /\ status \in [Deliveries -> Statuses]
    /\ retryCount \in [Deliveries -> 0..RetryCap]
    /\ startedAt \in [Deliveries -> BOOLEAN]
    /\ eventStatus \in [Events -> EventStatuses]
    /\ deadLetters \in [Deliveries -> [Reasons -> 0..LetterCap]]
    /\ consumerStatus \in [Consumers -> {"active", "paused", "deleted"}]
    /\ handler \in [Handlers -> HandlerState]
    /\ batch \in [Workers -> SUBSET Slots]
    /\ crashes \in Nat /\ dbErrors \in Nat
    /\ evidence \in [Deliveries -> BOOLEAN]

Buried(d) == \E r \in Reasons : deadLetters[d][r] > 0

\* However late or doubled the handlers of a row are, a row that reads 'failed'
\* has a dead letter to inspect and replay (moveToDeadLetter is one transaction).
FailedIsBuried == \A d \in Deliveries : status[d] = "failed" => Buried(d)

\* An event that still reads 'pending' has never been worked on: none of its rows
\* was ever claimed, retried or timed out, and no handler holds one.  A claim
\* takes the event along in its transaction, and nothing writes 'pending' back.
PendingEventUntouched ==
    \A e \in Events : eventStatus[e] = "pending" =>
        \A d \in DeliveriesOf(e) :
            /\ status[d] \in {"absent", "pending"}
            /\ ~startedAt[d] /\ retryCount[d] = 0 /\ ~Held(d)

\* A row reads 'delivered' only if its endpoint answered 2xx other than 202, or a
\* success was reported for its event: an answer "accepted, not yet processed"
\* never counts as a delivery.
DeliveredHasEvidence ==
    \A d \in Deliveries : status[d] = "delivered" => evidence[d]

\* An event's final status was earned by each of its deliveries, those enqueued late
\* aside, even if the handler that wrote it had aggregated the rows long before:
\* 'delivered' needs all of them delivered, 'failed' a dead letter and no delivery
\* left out.
FinalEventEarned ==
    \A e \in Events :
        /\ eventStatus[e] = "delivered" =>
              \A d \in DeliveriesOf(e) \ LateRows : evidence[d]
        /\ eventStatus[e] = "failed" =>
              /\ \E d \in DeliveriesOf(e) : Buried(d)
              /\ \A d \in DeliveriesOf(e) \ LateRows : evidence[d] \/ Buried(d)

\* Retries are given up on no earlier than configured, although the decision uses
\* the attempt read at the claim while other handlers count the row's retries up.
GivesUpNoEarlier ==
    \A d \in Deliveries :
        /\ deadLetters[d]["exhausted"] > 0 => retryCount[d] >= MaxAttempts
        /\ deadLetters[d]["reported"] > 0 => retryCount[d] >= MaxApiAttempts

\* A claim is a lease: no two handlers work on a row at a time.
LeaseIsExclusive ==
    \A g, h \in Handlers : Row(g) = Row(h) /\ Row(g) # NoDelivery => g = h

\* A claimed row carries the started_at by which the timers find it if its handler
\* dies or its consumer never reports.
LeaseIsRecorded ==
    \A d \in Deliveries : status[d] \in {"processing", "awaiting_ack"} => startedAt[d]

\* What recovery needs of the lease: one handler a row, and a row the timers can find.
LeaseIsKept == LeaseIsExclusive /\ LeaseIsRecorded

\* The status of an event may lag behind its rows, for ever if a handler dies or a newer
\* aggregate is overwritten, but is never ahead of them: an event that reads 'delivered'
\* has no other delivery but delivered ones and one that reads 'failed' a failed delivery
\* and no open one, those enqueued late aside.
EventNeverAhead ==
    \A e \in Events :
        /\ eventStatus[e] = "delivered" =>
              \A d \in DeliveriesOf(e) \ LateRows : status[d] = "delivered"
        /\ eventStatus[e] = "failed" =>
              /\ \E d \in DeliveriesOf(e) : status[d] = "failed"
              /\ \A d \in DeliveriesOf(e) \ LateRows : status[d] \in Settled

\* The queue keeps the delivery contract: a row is settled once and for good, and
\* dead-lettered once if it fails and never if it is delivered.
Contract == INSTANCE DeliveryContract WITH
    outcome <- [d \in Deliveries |->
                  IF status[d] \in Settled THEN status[d] ELSE "open"],
    letters <- [d \in Deliveries |->
                  LET of == deadLetters[d] IN
                  of["fatal"] + of["exhausted"] + of["reported"]]

KeepsContract == Contract!Spec

\* A 202 leaves the delivery to the consumer's report only for a while: either the
\* report comes or the time-out puts the row back in the queue.
AwaitingAckEnds ==
    \A d \in Deliveries : status[d] = "awaiting_ack" ~> status[d] # "awaiting_ack"

\* Every enqueued delivery to an endpoint is settled in the end, through any bounded number
\* of crashes and database errors, if its consumer does not stay paused or go on
\* taking rows itself, and its endpoint does not answer 202 for ever.
EventuallySettled ==
    \A d \in Deliveries :
        (/\ ConsumerOf[d] \notin PullConsumers
         /\ <>(status[d] # "absent")
         /\ <>[](/\ consumerStatus[ConsumerOf[d]] # "paused"
                 /\ status[d] # "awaiting_ack")
         /\ <>[][~Consume(ConsumerOf[d])]_vars)
        => <>[](status[d] \in Settled)
=============================================================================
