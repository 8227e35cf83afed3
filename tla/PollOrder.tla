----------------------------- MODULE PollOrder -----------------------------
(***************************************************************************)
(* The order in which a worker takes due rows.  DeliveryQueue claims any   *)
(* due rows; here a poll takes the WORKER_BATCH_SIZE oldest by             *)
(* scheduled_at, whatever their consumer, and a row the worker cannot push *)
(* (its consumer pulls, or is paused) goes back with the scheduled_at it   *)
(* had).  A retry moves a row behind those that are due.                   *)
(***************************************************************************)
EXTENDS Naturals, FiniteSets

CONSTANTS
    Deliveries,
    Unpushable,     \* rows whose consumer pulls or stays paused
    BatchSize,      \* WORKER_BATCH_SIZE
    MaxAttempts     \* WORKER_DEFAULT_RETRY_ATTEMPTS

PollAssumption ==
    /\ IsFiniteSet(Deliveries)
    /\ Unpushable \subseteq Deliveries
    /\ BatchSize \in Nat \ {0}
    /\ MaxAttempts \in Nat

VARIABLES
    status,         \* "settled" stands for delivered and failed
    scheduledAt,    \* by rank: 1 is the oldest
    due,            \* scheduled_at <= NOW()
    retryCount,
    inHand          \* rows of the worker's current batch not yet dealt with

vars == <<status, scheduledAt, due, retryCount, inHand>>

Rankings == {at \in [Deliveries -> 1..Cardinality(Deliveries)] :
               \A c, d \in Deliveries : at[c] = at[d] => c = d}

Init ==
    /\ status = [d \in Deliveries |-> "pending"]
    /\ scheduledAt \in Rankings
    /\ due = [d \in Deliveries |-> TRUE]
    /\ retryCount = [d \in Deliveries |-> 0]
    /\ inHand = {}

Claimable == {d \in Deliveries : status[d] = "pending" /\ due[d]}

Older(d) == {k \in Claimable : scheduledAt[k] < scheduledAt[d]}

\* Mutant: a batch one row short.
OneRowShort(limit) == {d \in Claimable : Cardinality(Older(d)) < limit - 1}

\* ORDER BY scheduled_at ASC ... LIMIT
OldestRows(limit) == {d \in Claimable : Cardinality(Older(d)) < limit}

Poll ==
    /\ inHand = {} /\ Claimable # {}
    /\ inHand' = OldestRows(BatchSize)
    /\ status' = [d \in Deliveries |->
                    IF d \in OldestRows(BatchSize) THEN "processing" ELSE status[d]]
    /\ UNCHANGED <<scheduledAt, due, retryCount>>

PutBack(d) ==
    /\ d \in inHand /\ d \in Unpushable
    /\ status' = [status EXCEPT ![d] = "pending"]
    /\ inHand' = inHand \ {d}
    /\ UNCHANGED <<scheduledAt, due, retryCount>>

Settle(d) ==
    /\ d \in inHand /\ d \notin Unpushable
    /\ status' = [status EXCEPT ![d] = "settled"]
    /\ inHand' = inHand \ {d}
    /\ UNCHANGED <<scheduledAt, due, retryCount>>

\* A backoff from now: behind every row that is due, anywhere among those not due.
Backoff(d) ==
    LET ahead == {k \in Deliveries \ {d} : due[k]}
        without(k) == IF scheduledAt[k] > scheduledAt[d]
                      THEN scheduledAt[k] - 1 ELSE scheduledAt[k]
    IN \E rank \in Cardinality(ahead) + 1 .. Cardinality(Deliveries) :
         scheduledAt' = [k \in Deliveries |->
             IF k = d THEN rank
             ELSE IF without(k) >= rank THEN without(k) + 1 ELSE without(k)]

\* Mutant: the retry is not counted.
RetryUncounted(d) ==
    /\ d \in inHand /\ d \notin Unpushable
    /\ retryCount[d] < MaxAttempts
    /\ status' = [status EXCEPT ![d] = "pending"]
    /\ Backoff(d)
    /\ due' = [due EXCEPT ![d] = FALSE]
    /\ inHand' = inHand \ {d}
    /\ UNCHANGED retryCount

Retry(d) ==
    /\ d \in inHand /\ d \notin Unpushable
    /\ retryCount[d] < MaxAttempts
    /\ status' = [status EXCEPT ![d] = "pending"]
    /\ Backoff(d)
    /\ due' = [due EXCEPT ![d] = FALSE]
    /\ retryCount' = [retryCount EXCEPT ![d] = @ + 1]
    /\ inHand' = inHand \ {d}

\* Rows become due in the order of their scheduled_at.
BecomeDue(d) ==
    /\ ~due[d]
    /\ \A k \in Deliveries : scheduledAt[k] < scheduledAt[d] => due[k]
    /\ due' = [due EXCEPT ![d] = TRUE]
    /\ UNCHANGED <<status, scheduledAt, retryCount, inHand>>

\* The consumer of an unpushable row takes it through the API and reports.
Pull(d) ==
    /\ d \in Claimable /\ d \in Unpushable
    /\ status' = [status EXCEPT ![d] = "settled"]
    /\ UNCHANGED <<scheduledAt, due, retryCount, inHand>>

\* What a worker does with a row of its batch.
Handle(d) == PutBack(d) \/ Settle(d) \/ Retry(d)

Next ==
    \/ Poll
    \/ \E d \in Deliveries : Handle(d) \/ BecomeDue(d) \/ Pull(d)

Spec == Init /\ [][Next]_vars

\* The poll task repeats, every row of a batch is dealt with, time passes.
\* Nothing makes a consumer pull.
FairSpec ==
    /\ Spec
    /\ WF_vars(Poll)
    /\ \A d \in Deliveries :
         /\ WF_vars(Handle(d))
         /\ WF_vars(BecomeDue(d))

-----------------------------------------------------------------------------
\* Types; a row is in the worker's hand exactly while it reads 'processing', and a
\* row that is not due is behind all that are.
TypeOK ==
    /\ status \in [Deliveries -> {"pending", "processing", "settled"}]
    /\ scheduledAt \in Rankings
    /\ due \in [Deliveries -> BOOLEAN]
    /\ retryCount \in [Deliveries -> 0..MaxAttempts]
    /\ inHand = {d \in Deliveries : status[d] = "processing"}
    /\ \A c, d \in Deliveries : due[c] /\ ~due[d] => scheduledAt[c] < scheduledAt[d]

\* A batch that nobody's rows cannot fill has a push in it whenever one is due, and a push
\* that leaves the worker is settled, for good, or one retry nearer to that: what is left
\* to do shrinks with every poll that finds pushes (postgres-queue-engine.ts 45-54).
PushesGetCloser ==
    [][/\ Poll /\ Cardinality(Unpushable) < BatchSize =>
            (Claimable \ Unpushable # {} => inHand' \ Unpushable # {})
       /\ \A d \in inHand \ (Unpushable \cup inHand') :
            status'[d] = "settled" \/ retryCount'[d] = retryCount[d] + 1
       /\ \A d \in Deliveries :
            /\ status[d] = "settled" => status'[d] = "settled"
            /\ retryCount'[d] >= retryCount[d]]_vars

\* Every event is delivered, or given up on, at every endpoint that takes pushes,
\* even if rows nobody pulls are polled again and again.
PushesAreServed ==
    \A d \in Deliveries \ Unpushable : <>(status[d] = "settled")
=============================================================================
