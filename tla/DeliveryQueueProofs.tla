------------------------ MODULE DeliveryQueueProofs ------------------------
(***************************************************************************)
(* The safety of the delivery queue, for every number of rows, events,     *)
(* consumers, workers and requests, and every setting of the retries.      *)
(*                                                                         *)
(* HandlerOK, what a handler's copy says about the row it was made from,   *)
(* is what makes each of the invariants inductive.                         *)
(***************************************************************************)
EXTENDS DeliveryQueue, TLAPS

\* A handler that works holds a row; when it is about to write a cause or an
\* event status, it has one to write.
HandlerOK ==
    \A h \in Handlers :
        /\ At(h, "idle") <=> Row(h) = NoDelivery
        /\ handler[h].pc \in {"burying", "committing"} => handler[h].reason \in Reasons
        /\ handler[h].pc \in {"syncing", "committing"} =>
              handler[h].agg \in {"processing"} \cup Settled

TypeInv == TypeOK /\ HandlerOK

\* The steps of a handler leave every other handler alone.
LEMMA RowTypes ==
    ASSUME TypeInv, NEW h \in Handlers, ~At(h, "idle")
    PROVE  /\ Row(h) \in Deliveries
           /\ EventOf[Row(h)] \in Events
           /\ ConsumerOf[Row(h)] \in Consumers
BY ConstantsAssumption DEF TypeInv, TypeOK, HandlerOK, HandlerState, Row, At

LEMMA BumpType ==
    ASSUME NEW cap \in Nat, NEW n \in 0..cap
    PROVE  Bump(n, cap) \in 0..cap /\ Bump(n, cap) >= n
BY DEF Bump

LEMMA IdleType == Idle \in HandlerState
BY DEF Idle, HandlerState, PCs

LEMMA InitTypeInv == Init => TypeInv
<1> SUFFICES ASSUME Init PROVE TypeInv
    OBVIOUS
<1>1. TypeOK
  BY IdleType, ConstantsAssumption
     DEF Init, TypeOK, Statuses, Open, Settled, EventStatuses, Reasons
<1>2. HandlerOK
  BY DEF Init, HandlerOK, At, Row, Idle
<1> QED BY <1>1, <1>2 DEF TypeInv

-----------------------------------------------------------------------------
(* Type correctness.  First what the steps write, then one lemma per group   *)
(* of actions.                                                               *)

LEMMA AggregateType ==
    ASSUME NEW e \in Events, NEW d \in Deliveries, NEW s \in Statuses
    PROVE  Aggregate(e, d, s) \in {"processing"} \cup Settled
BY DEF Aggregate, Settled

LEMMA OneHandler ==
    ASSUME TypeInv, NEW h \in Handlers, NEW r \in HandlerState,
           r.pc = "idle" <=> r.delivery = NoDelivery,
           r.pc \in {"burying", "committing"} => r.reason \in Reasons,
           r.pc \in {"syncing", "committing"} => r.agg \in {"processing"} \cup Settled,
           handler' = [handler EXCEPT ![h] = r]
    PROVE  /\ handler' \in [Handlers -> HandlerState]
           /\ HandlerOK'
BY DEF TypeInv, TypeOK, HandlerOK, At, Row

LEMMA RetryOrBuryType ==
    ASSUME TypeInv, NEW h \in Handlers, ~At(h, "idle"), NEW caught \in BOOLEAN,
           RetryOrBury(h, caught)
    PROVE  /\ handler' \in [Handlers -> HandlerState]
           /\ HandlerOK'
<1> DEFINE r == [handler[h] EXCEPT
        !.pc = IF handler[h].attempt >= MaxAttempts THEN "burying" ELSE "retrying",
        !.reason = IF handler[h].attempt >= MaxAttempts THEN "exhausted" ELSE "none",
        !.caught = caught]
<1>1. handler[h] \in HandlerState /\ handler[h].delivery # NoDelivery
  BY DEF TypeInv, TypeOK, HandlerOK, At, Row
<1>2. r \in HandlerState
  BY <1>1 DEF HandlerState, PCs, Reasons
<1>3. r.delivery # NoDelivery /\ r.pc \in {"burying", "retrying"}
      /\ (r.pc = "burying" => r.reason \in Reasons)
  BY <1>1 DEF HandlerState, Reasons
<1>4. handler' = [handler EXCEPT ![h] = r]
  BY <1>1 DEF RetryOrBury, TypeInv, TypeOK, HandlerState
<1> QED BY <1>2, <1>3, <1>4, OneHandler

LEMMA BuryType ==
    ASSUME TypeInv, NEW h \in Handlers, ~At(h, "idle"), Bury(h)
    PROVE  /\ handler' \in [Handlers -> HandlerState]
           /\ HandlerOK'
<1> DEFINE r == [handler[h] EXCEPT !.pc = "burying", !.reason = "fatal"]
<1>1. handler[h] \in HandlerState /\ handler[h].delivery # NoDelivery
  BY DEF TypeInv, TypeOK, HandlerOK, At, Row
<1>2. r \in HandlerState
  BY <1>1 DEF HandlerState, PCs, Reasons
<1>3. r.delivery # NoDelivery /\ r.pc = "burying" /\ r.reason \in Reasons
  BY <1>1 DEF HandlerState, Reasons
<1>4. handler' = [handler EXCEPT ![h] = r]
  BY <1>1 DEF Bury, TypeInv, TypeOK, HandlerState
<1> QED BY <1>2, <1>3, <1>4, OneHandler

LEMMA GotoType ==
    ASSUME TypeInv, NEW h \in Handlers, ~At(h, "idle"),
           NEW pc \in PCs \ {"idle", "burying", "committing", "syncing"}, Goto(h, pc)
    PROVE  /\ handler' \in [Handlers -> HandlerState]
           /\ HandlerOK'
<1> DEFINE r == [handler[h] EXCEPT !.pc = pc]
<1>1. handler[h] \in HandlerState /\ handler[h].delivery # NoDelivery
  BY DEF TypeInv, TypeOK, HandlerOK, At, Row
<1>2. r \in HandlerState /\ r.delivery # NoDelivery /\ r.pc = pc
  BY <1>1 DEF HandlerState
<1>3. handler' = [handler EXCEPT ![h] = r]
  BY <1>1 DEF Goto, TypeInv, TypeOK, HandlerState
<1> QED BY <1>2, <1>3, OneHandler

LEMMA FinishType ==
    ASSUME TypeInv, NEW h \in Handlers, Finish(h)
    PROVE  /\ handler' \in [Handlers -> HandlerState]
           /\ HandlerOK'
BY IdleType DEF TypeInv, TypeOK, HandlerOK, HandlerState, Finish, At, Row, Idle

LEMMA TakeRowsType ==
    ASSUME TypeOK, NEW claimed \in SUBSET Deliveries, TakeRows(claimed)
    PROVE  /\ status' \in [Deliveries -> Statuses]
           /\ retryCount' \in [Deliveries -> 0..RetryCap]
           /\ startedAt' \in [Deliveries -> BOOLEAN]
           /\ eventStatus' \in [Events -> EventStatuses]
BY DEF TypeOK, TakeRows, Statuses, Open, EventStatuses

LEMMA ClaimedJobType ==
    ASSUME TypeOK, NEW d \in Deliveries
    PROVE  /\ ClaimedJob(d) \in HandlerState
           /\ ClaimedJob(d).pc = "lookup"
           /\ ClaimedJob(d).delivery = d
           /\ ClaimedJob(d).attempt = retryCount[d]
<1>1. retryCount[d] \in Nat
  BY ConstantsAssumption DEF TypeOK
<1> QED BY <1>1 DEF ClaimedJob, Idle, HandlerState, PCs

LEMMA WorkerStepType ==
    ASSUME TypeInv, NEW w \in Workers, Claim(w)
    PROVE  TypeInv'
<1> USE DEF TypeInv
<1>1. PICK used \in SUBSET FreeSlots(w) \ {{}} :
      \E job \in [used -> Claimable] :
          /\ \A s, t \in used : job[s] = job[t] => s = t
          /\ TakeRows({job[s] : s \in used})
          /\ handler' = [h \in Handlers |->
                           IF h \in used THEN ClaimedJob(job[h]) ELSE handler[h]]
          /\ batch' = [batch EXCEPT ![w] = used]
  BY DEF Claim
<1>2. PICK job \in [used -> Claimable] :
          /\ TakeRows({job[s] : s \in used})
          /\ handler' = [h \in Handlers |->
                           IF h \in used THEN ClaimedJob(job[h]) ELSE handler[h]]
          /\ batch' = [batch EXCEPT ![w] = used]
  BY <1>1
<1>3. \A s \in used : job[s] \in Deliveries
  BY DEF Claimable
<1>4. {job[s] : s \in used} \in SUBSET Deliveries
  BY <1>3
<1>5. used \in SUBSET Slots
  BY DEF FreeSlots
<1>6. handler' \in [Handlers -> HandlerState]
  BY <1>2, <1>3, ClaimedJobType DEF TypeOK
<1>7. batch' \in [Workers -> SUBSET Slots]
  BY <1>2, <1>5 DEF TypeOK
<1>8. TypeOK'
  BY <1>2, <1>4, <1>6, <1>7, TakeRowsType DEF TypeOK, Claim, faults
<1>9. ASSUME NEW h \in Handlers
      PROVE  /\ h \in used => handler'[h].pc = "lookup" /\ handler'[h].delivery \in Deliveries
             /\ h \notin used => handler'[h] = handler[h]
  BY <1>2, <1>3, ClaimedJobType
<1>10. HandlerOK'
  BY <1>9, ConstantsAssumption DEF HandlerOK, At, Row
<1> QED BY <1>8, <1>10

LEMMA HandlerStepType ==
    ASSUME TypeInv, NEW h \in Handlers, HandlerStep(h)
    PROVE  TypeInv'
<1> USE DEF TypeInv
<1>a. ~At(h, "idle")
  BY DEF HandlerStep, LookUp, Respond, MarkAwaitingAck, ReleaseToPending, ScheduleRetry,
         Acknowledge, AggregateRows, SyncEventStatus, BeginDeadLetter,
         CommitDeadLetter, At
<1>b. Row(h) \in Deliveries /\ EventOf[Row(h)] \in Events
  BY <1>a, RowTypes
<1>c. /\ "pending" \in Statuses /\ "awaiting_ack" \in Statuses
      /\ "delivered" \in Statuses /\ "failed" \in Statuses
      /\ {"processing"} \cup Settled \subseteq EventStatuses
  BY DEF Statuses, Open, Settled, EventStatuses
<1>1. CASE LookUp(h)
  <2>1. /\ handler' \in [Handlers -> HandlerState]
        /\ HandlerOK'
    BY <1>1, <1>a, BuryType, GotoType DEF LookUp, PCs
  <2> QED BY <1>1, <2>1 DEF LookUp, TypeOK, rows, faults
<1>2. ASSUME NEW reply \in Replies, Respond(h, reply)
      PROVE  TypeInv'
  <2>1. /\ handler' \in [Handlers -> HandlerState]
        /\ HandlerOK'
    BY <1>2, <1>a, BuryType, GotoType, RetryOrBuryType DEF Respond, PCs
  <2>2. evidence' \in [Deliveries -> BOOLEAN]
    BY <1>2, <1>b DEF Respond, TypeOK
  <2> QED BY <1>2, <2>1, <2>2 DEF Respond, TypeOK, rows, faults
<1>3. CASE MarkAwaitingAck(h)
  BY <1>3, <1>b, <1>c, FinishType DEF MarkAwaitingAck, TypeOK, faults
<1>4. CASE ReleaseToPending(h)
  BY <1>4, <1>b, <1>c, FinishType DEF ReleaseToPending, TypeOK, faults
<1>5. CASE ScheduleRetry(h)
  <2>1. Bump(retryCount[Row(h)], RetryCap) \in 0..RetryCap
    BY <1>b, BumpType, ConstantsAssumption DEF TypeOK
  <2> QED BY <1>5, <1>b, <1>c, <2>1, FinishType DEF ScheduleRetry, TypeOK, faults
<1>6. CASE Acknowledge(h)
  BY <1>6, <1>a, <1>b, <1>c, GotoType DEF Acknowledge, TypeOK, faults, PCs
<1>7. CASE AggregateRows(h)
  <2>1. Aggregate(EventOf[Row(h)], Row(h), status[Row(h)]) \in {"processing"} \cup Settled
    BY <1>b, AggregateType DEF TypeOK
  <2> DEFINE r == [handler[h] EXCEPT !.pc = "syncing", !.agg = Aggregate(EventOf[Row(h)], Row(h), status[Row(h)])]
  <2>2. handler[h] \in HandlerState /\ handler[h].delivery # NoDelivery
    BY <1>a DEF TypeOK, HandlerOK, At, Row
  <2>3. /\ r \in HandlerState /\ r.delivery # NoDelivery
        /\ r.pc = "syncing" /\ r.agg \in {"processing"} \cup Settled
        /\ r.reason = handler[h].reason
    BY <2>1, <2>2, <1>c DEF HandlerState, PCs
  <2>4. handler' = [handler EXCEPT ![h] = r]
    BY <1>7, <2>2 DEF AggregateRows, TypeOK, HandlerState
  <2>5. handler' \in [Handlers -> HandlerState] /\ HandlerOK'
    BY <2>3, <2>4, OneHandler
  <2> QED BY <1>7, <2>5 DEF AggregateRows, TypeOK, rows, faults
<1>8. CASE SyncEventStatus(h)
  <2>1. handler[h].agg \in EventStatuses
    BY <1>8, <1>c DEF SyncEventStatus, HandlerOK, At
  <2> QED BY <1>8, <1>b, <2>1, FinishType DEF SyncEventStatus, TypeOK, rows, faults
<1>9. CASE BeginDeadLetter(h)
  <2>1. Aggregate(EventOf[Row(h)], Row(h), "failed") \in {"processing"} \cup Settled
    BY <1>b, <1>c, AggregateType
  <2> DEFINE r == [handler[h] EXCEPT !.pc = "committing", !.agg = Aggregate(EventOf[Row(h)], Row(h), "failed")]
  <2>2. handler[h] \in HandlerState /\ handler[h].delivery # NoDelivery
    BY <1>a DEF TypeOK, HandlerOK, At, Row
  <2>3. /\ r \in HandlerState /\ r.delivery # NoDelivery
        /\ r.pc = "committing" /\ r.agg \in {"processing"} \cup Settled
        /\ r.reason = handler[h].reason
    BY <2>1, <2>2, <1>c DEF HandlerState, PCs
  <2>4. r.reason \in Reasons
    BY <1>9, <2>3 DEF BeginDeadLetter, HandlerOK, At
  <2>5. handler' = [handler EXCEPT ![h] = r]
    BY <1>9, <2>2 DEF BeginDeadLetter, TypeOK, HandlerState
  <2>6. handler' \in [Handlers -> HandlerState] /\ HandlerOK'
    BY <2>3, <2>4, <2>5, OneHandler
  <2> QED BY <1>9, <2>6 DEF BeginDeadLetter, TypeOK, rows, faults
<1>10. CASE CommitDeadLetter(h)
  <2>1. handler[h].agg \in EventStatuses /\ handler[h].reason \in Reasons
    BY <1>10, <1>c DEF CommitDeadLetter, HandlerOK, At
  <2>2. deadLetters' \in [Deliveries -> [Reasons -> 0..LetterCap]]
    BY <1>10, <1>b, <2>1, BumpType, ConstantsAssumption DEF CommitDeadLetter, TypeOK
  <2> QED BY <1>10, <1>b, <1>c, <2>1, <2>2, FinishType
          DEF CommitDeadLetter, TypeOK, faults
<1> QED
  BY <1>1, <1>2, <1>3, <1>4, <1>5, <1>6, <1>7, <1>8, <1>9, <1>10 DEF HandlerStep

LEMMA OtherStepType ==
    ASSUME TypeInv, Next,
           \A w \in Workers : ~Claim(w), \A h \in Handlers : ~HandlerStep(h)
    PROVE  TypeInv'
<1> USE DEF TypeInv
<1>1. ASSUME NEW w \in Workers, WorkerCrash(w) PROVE TypeInv'
  BY <1>1, IdleType DEF WorkerCrash, Crash, TypeOK, HandlerOK, At, Row, Idle, rows, Handlers
<1>2. CASE ApiCrash
  BY <1>2, IdleType DEF ApiCrash, Crash, TypeOK, HandlerOK, At, Row, Idle, rows, Handlers
<1>3. ASSUME NEW h \in Handlers, DbError(h) PROVE TypeInv'
  <2>1. ~At(h, "idle")
    BY <1>3 DEF DbError, At
  <2>2. CASE CatchError(h)
    <3>1. handler' \in [Handlers -> HandlerState] /\ HandlerOK'
      BY <2>1, <2>2, RetryOrBuryType DEF CatchError
    <3> QED BY <1>3, <2>2, <3>1 DEF DbError, CatchError, TypeOK, rows
  <2>3. CASE RejectBatch(h)
    <3>1. handler' \in [Handlers -> HandlerState] /\ HandlerOK'
      BY <2>3, FinishType DEF RejectBatch
    <3>2. batch' \in [Workers -> SUBSET Slots]
      BY <2>3 DEF RejectBatch, TypeOK
    <3> QED BY <1>3, <3>1, <3>2 DEF DbError, TypeOK, rows
  <2>4. CASE FailRequest(h)
    <3>1. handler' \in [Handlers -> HandlerState] /\ HandlerOK'
      BY <2>4, FinishType DEF FailRequest
    <3> QED BY <1>3, <2>4, <3>1 DEF DbError, FailRequest, TypeOK, rows
  <2> QED BY <1>3, <2>2, <2>3, <2>4 DEF DbError
<1>4. ASSUME NEW a \in ApiCalls, NEW e \in Events, NEW success \in BOOLEAN,
             AcknowledgeEvent(a, e, success)
      PROVE  TypeInv'
  <2>1. PICK d \in Deliveries :
          /\ handler' = [handler EXCEPT ![a] =
               [Idle EXCEPT !.delivery = d, !.attempt = retryCount[d],
                  !.pc = IF success THEN "acking"
                         ELSE IF retryCount[d] >= MaxApiAttempts THEN "burying"
                         ELSE "retrying",
                  !.reason = IF ~success /\ retryCount[d] >= MaxApiAttempts
                             THEN "reported" ELSE "none"]]
          /\ evidence' = [evidence EXCEPT ![d] = @ \/ success]
    BY <1>4 DEF AcknowledgeEvent, DeliveriesOf
  <2>2. a \in Handlers
    BY DEF Handlers
  <2>3. handler' \in [Handlers -> HandlerState]
    <3>1. retryCount[d] \in Nat
      BY ConstantsAssumption DEF TypeOK
    <3> QED BY <2>1, <2>2, <3>1 DEF TypeOK, HandlerState, Idle, PCs, Reasons
  <2>4. HandlerOK'
    BY <2>1, <2>2, <2>3, ConstantsAssumption
       DEF TypeOK, HandlerOK, HandlerState, At, Row, Idle, Reasons
  <2>5. evidence' \in [Deliveries -> BOOLEAN]
    BY <2>1 DEF TypeOK
  <2> QED BY <1>4, <2>3, <2>4, <2>5 DEF AcknowledgeEvent, TypeOK, rows, faults
<1>5. ASSUME NEW c \in Consumers, Consume(c) PROVE TypeInv'
  <2>1. PICK claimed \in SUBSET Deliveries : TakeRows(claimed)
    BY <1>5 DEF Consume, Claimable
  <2> QED BY <1>5, <2>1, TakeRowsType DEF Consume, TypeOK, HandlerOK, At, Row, faults
<1>6. ASSUME NEW c \in Consumers, NEW s \in {"active", "paused", "deleted"},
             SetConsumer(c, s)
      PROVE  TypeInv'
  BY <1>6 DEF SetConsumer, TypeOK, HandlerOK, At, Row, rows, faults
<1>7. ASSUME NEW expired \in SUBSET Deliveries, ResetTimedOutAcks(expired) PROVE TypeInv'
  <2>1. \A d \in Deliveries : Bump(retryCount[d], RetryCap) \in 0..RetryCap
    BY BumpType, ConstantsAssumption DEF TypeOK
  <2> QED BY <1>7, <2>1
          DEF ResetTimedOutAcks, TypeOK, HandlerOK, At, Row, faults, Statuses, Open
<1>8. ASSUME NEW expired \in SUBSET Deliveries, ReleaseStuckDeliveries(expired)
      PROVE  TypeInv'
  BY <1>8 DEF ReleaseStuckDeliveries, TypeOK, HandlerOK, At, Row, faults, Statuses, Open
<1>9. ASSUME NEW d \in Deliveries, Enqueue(d) PROVE TypeInv'
  BY <1>9 DEF Enqueue, TypeOK, HandlerOK, At, Row, faults, Statuses, Open
<1> QED BY <1>1, <1>2, <1>3, <1>4, <1>5, <1>6, <1>7, <1>8, <1>9 DEF Next

LEMMA TypeInvStep == TypeInv /\ [Next]_vars => TypeInv'
<1> SUFFICES ASSUME TypeInv, [Next]_vars PROVE TypeInv'
    OBVIOUS
<1>1. CASE \E w \in Workers : Claim(w)
  BY <1>1, WorkerStepType
<1>2. CASE \E h \in Handlers : HandlerStep(h)
  BY <1>2, HandlerStepType
<1>3. CASE Next /\ ~(\E w \in Workers : Claim(w)) /\ ~(\E h \in Handlers : HandlerStep(h))
  BY <1>3, OtherStepType
<1>4. CASE UNCHANGED vars
  BY <1>4 DEF vars, rows, faults, TypeInv, TypeOK, HandlerOK, At, Row
<1> QED BY <1>1, <1>2, <1>3, <1>4

\* Every row, event and handler keeps its type, and a handler holds a row exactly
\* while it works, whatever the interleaving of workers, requests and timers.
THEOREM TypeCorrect == Spec => [](TypeOK /\ HandlerOK)
<1>1. Spec => []TypeInv
  BY InitTypeInv, TypeInvStep, PTL DEF Spec
<1> QED BY <1>1, PTL DEF TypeInv

-----------------------------------------------------------------------------
(* The safety invariants.  CopyOf(h) is the strengthening: what the copy a   *)
(* handler works on still says about rows other processes have changed since.*)
(* It lasts because the things it speaks of only grow.                       *)

Accounted(h, d) == Buried(d) \/ (At(h, "committing") /\ d = Row(h))

CopyOf(h) ==
    Row(h) # NoDelivery =>
        /\ eventStatus[EventOf[Row(h)]] # "pending"
        /\ handler[h].attempt <= retryCount[Row(h)]
        /\ handler[h].reason = "exhausted" => handler[h].attempt >= MaxAttempts
        /\ handler[h].reason = "reported" => handler[h].attempt >= MaxApiAttempts
        /\ At(h, "acking") => evidence[Row(h)]
        /\ handler[h].pc \in {"syncing", "committing"} =>
             /\ handler[h].agg = "delivered" =>
                  \A d \in DeliveriesOf(EventOf[Row(h)]) \ LateRows : evidence[d]
             /\ handler[h].agg = "failed" =>
                  /\ \E d \in DeliveriesOf(EventOf[Row(h)]) : Accounted(h, d)
                  /\ \A d \in DeliveriesOf(EventOf[Row(h)]) \ LateRows :
                        evidence[d] \/ Accounted(h, d)

CopiesOK == \A h \in Handlers : CopyOf(h)

\* PendingEventUntouched without its handlers, which CopiesOK takes care of.
PendingRowsUntouched ==
    \A d \in Deliveries : eventStatus[EventOf[d]] = "pending" =>
        status[d] \in {"absent", "pending"} /\ ~startedAt[d] /\ retryCount[d] = 0

\* An aggregate leaves out the rows that are not inserted yet, and no others.
RowsThere == \A d \in Deliveries \ LateRows : status[d] # "absent"

SafeInv ==
    /\ RowsThere
    /\ PendingRowsUntouched
    /\ FailedIsBuried
    /\ DeliveredHasEvidence
    /\ FinalEventEarned
    /\ GivesUpNoEarlier
    /\ CopiesOK

Grows ==
    /\ \A d \in Deliveries :
         /\ retryCount[d] <= retryCount'[d]
         /\ evidence[d] => evidence'[d]
         /\ Buried(d) => Buried(d)'
    /\ \A e \in Events : eventStatus[e] # "pending" => eventStatus'[e] # "pending"

LEMMA InitSafeInv == Init => SafeInv
<1> SUFFICES ASSUME Init PROVE SafeInv
    OBVIOUS
<1>1. CopiesOK
  BY DEF Init, CopiesOK, CopyOf, Row, Idle
<1>2. RowsThere /\ PendingRowsUntouched /\ FailedIsBuried /\ DeliveredHasEvidence
  BY DEF Init, RowsThere, PendingRowsUntouched, FailedIsBuried, DeliveredHasEvidence
<1>3. FinalEventEarned /\ GivesUpNoEarlier
  BY DEF Init, FinalEventEarned, GivesUpNoEarlier, Reasons
<1> QED BY <1>1, <1>2, <1>3 DEF SafeInv

\* A copy that nobody touches stays right, and a handler with none is right.
LEMMA CopyKept ==
    ASSUME TypeInv, TypeInv', Grows, NEW h \in Handlers,
           \/ CopyOf(h) /\ handler'[h] = handler[h]
           \/ handler'[h] = Idle
    PROVE  CopyOf(h)'
<1>1. CASE handler'[h] = Idle
  BY <1>1 DEF CopyOf, Row, Idle
<1>2. CASE CopyOf(h) /\ handler'[h] = handler[h] /\ Row(h) # NoDelivery
  <2>1. /\ Row(h)' = Row(h) /\ (\A pc : At(h, pc)' <=> At(h, pc))
        /\ Row(h) \in Deliveries /\ EventOf[Row(h)] \in Events
    BY <1>2, RowTypes DEF Row, At, TypeInv, HandlerOK
  <2>2. /\ retryCount[Row(h)] \in Nat /\ retryCount'[Row(h)] \in Nat
        /\ handler[h].attempt \in Nat
    <3>1. 0..RetryCap \subseteq Nat
      OBVIOUS
    <3>2. retryCount[Row(h)] \in Nat /\ retryCount'[Row(h)] \in Nat
      BY <2>1, <3>1 DEF TypeInv, TypeOK
    <3>3. handler[h].attempt \in Nat
      BY DEF TypeInv, TypeOK, HandlerState
    <3> QED BY <3>2, <3>3
  <2>3. \A d \in Deliveries : Accounted(h, d) => Accounted(h, d)'
    BY <2>1 DEF Accounted, Grows
  <2>4. DeliveriesOf(EventOf[Row(h)]) \subseteq Deliveries
    BY DEF DeliveriesOf
  <2>5. eventStatus'[EventOf[Row(h)]] # "pending" /\ handler[h].attempt <= retryCount'[Row(h)]
    BY <1>2, <2>1, <2>2 DEF CopyOf, Grows
  <2>6. At(h, "acking")' => evidence'[Row(h)]
    BY <1>2, <2>1 DEF CopyOf, Grows
  <2>7. handler[h].pc \in {"syncing", "committing"} =>
             /\ handler[h].agg = "delivered" =>
                  \A d \in DeliveriesOf(EventOf[Row(h)]) \ LateRows : evidence'[d]
             /\ handler[h].agg = "failed" =>
                  /\ \E d \in DeliveriesOf(EventOf[Row(h)]) : Accounted(h, d)'
                  /\ \A d \in DeliveriesOf(EventOf[Row(h)]) \ LateRows :
                        evidence'[d] \/ Accounted(h, d)'
    BY <1>2, <2>3, <2>4 DEF CopyOf, Grows
  <2>8. /\ handler[h].reason = "exhausted" => handler[h].attempt >= MaxAttempts
        /\ handler[h].reason = "reported" => handler[h].attempt >= MaxApiAttempts
    BY <1>2 DEF CopyOf
  <2> QED BY <1>2, <2>1, <2>5, <2>6, <2>7, <2>8 DEF CopyOf, DeliveriesOf
<1>3. CASE handler'[h] = handler[h] /\ Row(h) = NoDelivery
  BY <1>3 DEF CopyOf, Row
<1> QED BY <1>1, <1>2, <1>3

\* A step that only moves handlers has its copies to answer for and nothing else.
LEMMA QuietStep ==
    ASSUME SafeInv, UNCHANGED <<rows, eventStatus, deadLetters>>, Grows, CopiesOK'
    PROVE  SafeInv'
<1>1. \A d \in Deliveries : Buried(d)' <=> Buried(d)
  BY DEF Buried
<1>2. RowsThere' /\ PendingRowsUntouched' /\ FailedIsBuried' /\ GivesUpNoEarlier'
  BY <1>1 DEF SafeInv, RowsThere, PendingRowsUntouched, FailedIsBuried,
              GivesUpNoEarlier, rows
<1>3. DeliveredHasEvidence'
  BY DEF SafeInv, DeliveredHasEvidence, Grows, rows
<1>4. FinalEventEarned'
  BY <1>1 DEF SafeInv, FinalEventEarned, Grows, DeliveriesOf
<1> QED BY <1>2, <1>3, <1>4 DEF SafeInv

LEMMA QuietGrows ==
    ASSUME TypeInv, UNCHANGED <<rows, eventStatus, deadLetters>>,
           \A d \in Deliveries : evidence[d] => evidence'[d]
    PROVE  Grows
<1>1. \A d \in Deliveries : retryCount[d] <= retryCount[d]
  <2>1. 0..RetryCap \subseteq Nat
    OBVIOUS
  <2> QED BY <2>1 DEF TypeInv, TypeOK
<1> QED BY <1>1 DEF Grows, rows, Buried

\* The handler that moves, when only the fields of its decision change.
LEMMA DecidedCopy ==
    ASSUME TypeInv, TypeInv', SafeInv, Grows, NEW h \in Handlers,
           ~At(h, "idle"),
           handler'[h].delivery = handler[h].delivery,
           handler'[h].attempt = handler[h].attempt,
           \/ handler'[h].reason = handler[h].reason
           \/ handler'[h].reason \in {"none", "fatal"}
           \/ handler'[h].reason = "exhausted" /\ handler[h].attempt >= MaxAttempts,
           handler'[h].pc \notin {"syncing", "committing"},
           handler'[h].pc = "acking" => evidence'[Row(h)]
    PROVE  CopyOf(h)'
<1>1. CopyOf(h) /\ Row(h) \in Deliveries /\ EventOf[Row(h)] \in Events
  BY RowTypes DEF SafeInv, CopiesOK
<1>2. Row(h) # NoDelivery
  BY <1>1, ConstantsAssumption
<1>3. eventStatus'[EventOf[Row(h)]] # "pending"
  BY <1>1, <1>2 DEF CopyOf, Grows
<1>4. handler[h].attempt <= retryCount'[Row(h)]
  <2>1. 0..RetryCap \subseteq Nat
    OBVIOUS
  <2>2. retryCount[Row(h)] \in Nat /\ retryCount'[Row(h)] \in Nat
    BY <1>1, <2>1 DEF TypeInv, TypeOK
  <2>3. handler[h].attempt \in Nat
    BY DEF TypeInv, TypeOK, HandlerState
  <2>4. handler[h].attempt <= retryCount[Row(h)] /\ retryCount[Row(h)] <= retryCount'[Row(h)]
    BY <1>1, <1>2 DEF CopyOf, Grows
  <2> QED BY <2>2, <2>3, <2>4
<1>5. Row(h)' = Row(h)
  BY DEF Row
<1>6. /\ handler'[h].reason = "exhausted" => handler[h].attempt >= MaxAttempts
      /\ handler'[h].reason = "reported" => handler[h].attempt >= MaxApiAttempts
  BY <1>1, <1>2 DEF CopyOf
<1> QED BY <1>3, <1>4, <1>5, <1>6 DEF CopyOf, At

LEMMA CopiesKept ==
    ASSUME TypeInv, TypeInv', SafeInv, Grows, NEW h \in Handlers,
           CopyOf(h)',
           \A g \in Handlers \ {h} : handler'[g] = handler[g]
    PROVE  CopiesOK'
<1>1. ASSUME NEW g \in Handlers \ {h} PROVE CopyOf(g)'
  BY <1>1, CopyKept DEF SafeInv, CopiesOK
<1> QED BY <1>1 DEF CopiesOK

LEMMA FinishedCopies ==
    ASSUME TypeInv, TypeInv', SafeInv, Grows, NEW h \in Handlers, Finish(h)
    PROVE  CopiesOK'
<1>1. handler'[h] = Idle /\ \A g \in Handlers \ {h} : handler'[g] = handler[g]
  BY DEF Finish, TypeInv, TypeOK
<1>2. CopyOf(h)'
  BY <1>1, CopyKept
<1> QED BY <1>1, <1>2, CopiesKept

LEMMA GotoCopies ==
    ASSUME TypeInv, TypeInv', SafeInv, Grows, NEW h \in Handlers, ~At(h, "idle"),
           NEW pc \in PCs \ {"syncing", "committing"},
           pc = "acking" => evidence'[Row(h)], Goto(h, pc)
    PROVE  CopiesOK'
<1>1. /\ handler'[h].pc = pc /\ handler'[h].delivery = handler[h].delivery
      /\ handler'[h].attempt = handler[h].attempt
      /\ handler'[h].reason = handler[h].reason
      /\ \A g \in Handlers \ {h} : handler'[g] = handler[g]
  BY DEF Goto, TypeInv, TypeOK, HandlerState
<1>2. CopyOf(h)'
  BY <1>1, DecidedCopy
<1> QED BY <1>1, <1>2, CopiesKept

LEMMA BuryCopies ==
    ASSUME TypeInv, TypeInv', SafeInv, Grows, NEW h \in Handlers, ~At(h, "idle"), Bury(h)
    PROVE  CopiesOK'
<1>1. /\ handler'[h].pc = "burying" /\ handler'[h].delivery = handler[h].delivery
      /\ handler'[h].attempt = handler[h].attempt
      /\ handler'[h].reason = "fatal"
      /\ \A g \in Handlers \ {h} : handler'[g] = handler[g]
  BY DEF Bury, TypeInv, TypeOK, HandlerState
<1>2. CopyOf(h)'
  BY <1>1, DecidedCopy
<1> QED BY <1>1, <1>2, CopiesKept

LEMMA RetryOrBuryCopies ==
    ASSUME TypeInv, TypeInv', SafeInv, Grows, NEW h \in Handlers, ~At(h, "idle"),
           NEW caught \in BOOLEAN, RetryOrBury(h, caught)
    PROVE  CopiesOK'
<1>1. /\ handler'[h].pc \in {"burying", "retrying"}
      /\ handler'[h].delivery = handler[h].delivery
      /\ handler'[h].attempt = handler[h].attempt
      /\ \/ handler'[h].reason = "none"
         \/ handler'[h].reason = "exhausted" /\ handler[h].attempt >= MaxAttempts
      /\ \A g \in Handlers \ {h} : handler'[g] = handler[g]
  BY DEF RetryOrBury, TypeInv, TypeOK, HandlerState
<1>2. CopyOf(h)'
  BY <1>1, DecidedCopy
<1> QED BY <1>1, <1>2, CopiesKept

LEMMA LookUpSafe ==
    ASSUME TypeInv, TypeInv', SafeInv, NEW h \in Handlers, LookUp(h)
    PROVE  SafeInv'
<1>1. Grows /\ ~At(h, "idle")
  BY QuietGrows DEF LookUp, At
<1>2. CopiesOK'
  BY <1>1, BuryCopies, GotoCopies DEF LookUp, PCs
<1> QED BY <1>1, <1>2, QuietStep DEF LookUp

LEMMA RespondSafe ==
    ASSUME TypeInv, TypeInv', SafeInv, NEW h \in Handlers, NEW reply \in Replies,
           Respond(h, reply)
    PROVE  SafeInv'
<1>1. ~At(h, "idle") /\ Row(h) \in Deliveries
  BY RowTypes DEF Respond, At
<1>2. /\ \A d \in Deliveries : evidence[d] => evidence'[d]
      /\ reply = "ok" => evidence'[Row(h)]
  BY <1>1 DEF Respond, TypeInv, TypeOK
<1>3. Grows
  BY <1>2, QuietGrows DEF Respond
<1>4. ASSUME reply = "202" /\ Goto(h, "marking") PROVE CopiesOK'
  BY <1>1, <1>3, <1>4, GotoCopies DEF PCs
<1>5. ASSUME reply = "ok" /\ Goto(h, "acking") PROVE CopiesOK'
  BY <1>1, <1>2, <1>3, <1>5, GotoCopies DEF PCs
<1>6. ASSUME reply = "4xx" /\ Bury(h) PROVE CopiesOK'
  BY <1>1, <1>3, <1>6, BuryCopies
<1>7. ASSUME NEW caught \in BOOLEAN, RetryOrBury(h, caught) PROVE CopiesOK'
  BY <1>1, <1>3, <1>7, RetryOrBuryCopies
<1>8. CopiesOK'
  BY <1>4, <1>5, <1>6, <1>7 DEF Respond
<1> QED BY <1>3, <1>8, QuietStep DEF Respond

LEMMA DbErrorSafe ==
    ASSUME TypeInv, TypeInv', SafeInv, NEW h \in Handlers, DbError(h)
    PROVE  SafeInv'
<1>1. Grows /\ ~At(h, "idle")
  BY QuietGrows DEF DbError, At
<1>2. CASE CatchError(h)
  BY <1>1, <1>2, RetryOrBuryCopies, QuietStep DEF CatchError, DbError
<1>3. CASE RejectBatch(h)
  BY <1>1, <1>3, FinishedCopies, QuietStep DEF RejectBatch, DbError
<1>4. CASE FailRequest(h)
  BY <1>1, <1>4, FinishedCopies, QuietStep DEF FailRequest, DbError
<1> QED BY <1>2, <1>3, <1>4 DEF DbError

LEMMA CrashSafe ==
    ASSUME TypeInv, TypeInv', SafeInv, NEW hs, Crash(hs)
    PROVE  SafeInv'
<1>1. Grows
  BY QuietGrows DEF Crash
<1>2. ASSUME NEW h \in Handlers PROVE CopyOf(h)'
  <2>1. handler'[h] = Idle \/ handler'[h] = handler[h]
    BY DEF Crash
  <2> QED BY <1>1, <2>1, CopyKept DEF SafeInv, CopiesOK
<1> QED BY <1>1, <1>2, QuietStep DEF Crash, CopiesOK

LEMMA SetConsumerSafe ==
    ASSUME TypeInv, TypeInv', SafeInv, NEW c \in Consumers,
           NEW s \in {"active", "paused", "deleted"}, SetConsumer(c, s)
    PROVE  SafeInv'
<1>1. Grows
  BY QuietGrows DEF SetConsumer
<1>2. CopiesOK'
  BY <1>1, CopyKept DEF SetConsumer, SafeInv, CopiesOK
<1> QED BY <1>1, <1>2, QuietStep DEF SetConsumer

LEMMA AcknowledgeEventSafe ==
    ASSUME TypeInv, TypeInv', SafeInv, NEW a \in ApiCalls, NEW e \in Events,
           NEW success \in BOOLEAN, AcknowledgeEvent(a, e, success)
    PROVE  SafeInv'
<1>1. PICK d \in Deliveries :
          /\ status[d] \in {"processing", "awaiting_ack"}
          /\ handler' = [handler EXCEPT ![a] =
               [Idle EXCEPT !.delivery = d, !.attempt = retryCount[d],
                  !.pc = IF success THEN "acking"
                         ELSE IF retryCount[d] >= MaxApiAttempts THEN "burying"
                         ELSE "retrying",
                  !.reason = IF ~success /\ retryCount[d] >= MaxApiAttempts
                             THEN "reported" ELSE "none"]]
          /\ evidence' = [evidence EXCEPT ![d] = @ \/ success]
  BY DEF AcknowledgeEvent, DeliveriesOf
<1>2. a \in Handlers
  BY DEF Handlers
<1>3. /\ handler'[a].delivery = d
      /\ handler'[a].attempt = retryCount[d]
      /\ handler'[a].pc \in {"acking", "burying", "retrying"}
      /\ handler'[a].pc = "acking" => success
      /\ handler'[a].reason \in {"reported", "none"}
      /\ handler'[a].reason = "reported" => retryCount[d] >= MaxApiAttempts
      /\ \A g \in Handlers \ {a} : handler'[g] = handler[g]
  BY <1>1, <1>2 DEF TypeInv, TypeOK, Idle
<1>4. /\ \A k \in Deliveries : evidence[k] => evidence'[k]
      /\ success => evidence'[d]
  BY <1>1 DEF TypeInv, TypeOK
<1>5. Grows
  BY <1>4, QuietGrows DEF AcknowledgeEvent
<1>6. eventStatus[EventOf[d]] # "pending"
  BY <1>1 DEF SafeInv, PendingRowsUntouched
<1>7. retryCount'[d] = retryCount[d] /\ retryCount[d] \in Nat
  <2>1. 0..RetryCap \subseteq Nat
    OBVIOUS
  <2> QED BY <2>1 DEF AcknowledgeEvent, rows, TypeInv, TypeOK
<1>8. CopyOf(a)'
  BY <1>3, <1>4, <1>6, <1>7 DEF CopyOf, Row, At, AcknowledgeEvent
<1>9. CopiesOK'
  BY <1>2, <1>3, <1>5, <1>8, CopiesKept
<1> QED BY <1>5, <1>9, QuietStep DEF AcknowledgeEvent

\* What an aggregate says of the rows it was computed from, d counting as s.
LEMMA AggregateMeaning ==
    ASSUME NEW e \in Events, NEW d \in DeliveriesOf(e), NEW s \in Statuses,
           status \in [Deliveries -> Statuses]
    PROVE  /\ Aggregate(e, d, s) # "pending"
           /\ Aggregate(e, d, s) = "delivered" =>
                /\ s \in {"absent", "delivered"}
                /\ \A k \in DeliveriesOf(e) \ {d} : status[k] \in {"absent", "delivered"}
           /\ Aggregate(e, d, s) = "failed" =>
                /\ s \in {"absent"} \cup Settled
                /\ s = "failed" \/ \E k \in DeliveriesOf(e) \ {d} : status[k] = "failed"
                /\ \A k \in DeliveriesOf(e) \ {d} : status[k] \in {"absent"} \cup Settled
<1> DEFINE seen == {IF k = d THEN s ELSE status[k] : k \in DeliveriesOf(e)}
<1>1. s \in seen /\ \A k \in DeliveriesOf(e) \ {d} : status[k] \in seen
  OBVIOUS
<1>2. seen \subseteq {"absent"} \cup Open \cup Settled
  BY DEF DeliveriesOf, Statuses
<1>3. "failed" \in seen => s = "failed" \/ \E k \in DeliveriesOf(e) \ {d} : status[k] = "failed"
  OBVIOUS
<1>4. CASE seen \cap Open # {}
  <2>1. Aggregate(e, d, s) = "processing"
    BY <1>4 DEF Aggregate
  <2> QED BY <2>1
<1>5. CASE seen \cap Open = {} /\ "failed" \in seen
  <2>1. Aggregate(e, d, s) = "failed"
    BY <1>5 DEF Aggregate
  <2>2. seen \subseteq {"absent"} \cup Settled
    BY <1>2, <1>5
  <2> QED BY <1>1, <1>3, <1>5, <2>1, <2>2
<1>6. CASE seen \cap Open = {} /\ "failed" \notin seen
  <2>1. Aggregate(e, d, s) = "delivered"
    BY <1>6 DEF Aggregate
  <2>2. seen \subseteq {"absent", "delivered"}
    BY <1>2, <1>6 DEF Settled
  <2> QED BY <1>1, <2>1, <2>2
<1> QED BY <1>4, <1>5, <1>6

LEMMA AggregateRowsSafe ==
    ASSUME TypeInv, TypeInv', SafeInv, NEW h \in Handlers, AggregateRows(h)
    PROVE  SafeInv'
<1> DEFINE d == Row(h)
           e == EventOf[d]
           agg == Aggregate(e, d, status[d])
<1>1. /\ ~At(h, "idle") /\ d \in Deliveries /\ e \in Events
      /\ d \in DeliveriesOf(e) /\ d # NoDelivery /\ status[d] \in Statuses
  <2>1. ~At(h, "idle")
    BY DEF AggregateRows, At
  <2> QED BY <2>1, RowTypes, ConstantsAssumption DEF DeliveriesOf, TypeInv, TypeOK
<1>2. /\ handler'[h].pc = "syncing" /\ handler'[h].agg = agg
      /\ handler'[h].delivery = d
      /\ handler'[h].attempt = handler[h].attempt
      /\ handler'[h].reason = handler[h].reason
      /\ \A g \in Handlers \ {h} : handler'[g] = handler[g]
  BY DEF AggregateRows, TypeInv, TypeOK, HandlerState, Row
<1>3. Grows
  BY QuietGrows DEF AggregateRows
<1>4. /\ \A k \in Deliveries : Buried(k)' <=> Buried(k)
      /\ \A k \in Deliveries : status[k] = "failed" => Buried(k)
      /\ \A k \in Deliveries : status[k] = "delivered" => evidence[k]
  BY DEF AggregateRows, Buried, SafeInv, FailedIsBuried, DeliveredHasEvidence
<1>5. /\ agg = "delivered" => \A k \in DeliveriesOf(e) : status[k] \in {"absent", "delivered"}
      /\ agg = "failed" =>
           /\ \E k \in DeliveriesOf(e) : status[k] = "failed"
           /\ \A k \in DeliveriesOf(e) : status[k] \in {"absent"} \cup Settled
  <2>1. status \in [Deliveries -> Statuses]
    BY DEF TypeInv, TypeOK
  <2> HIDE DEF d, e
  <2> QED BY <1>1, <2>1, AggregateMeaning
<1>6. /\ agg = "delivered" => \A k \in DeliveriesOf(e) \ LateRows : evidence[k]
      /\ agg = "failed" =>
           /\ \E k \in DeliveriesOf(e) : Buried(k)
           /\ \A k \in DeliveriesOf(e) \ LateRows : evidence[k] \/ Buried(k)
  <2>1. DeliveriesOf(e) \subseteq Deliveries
    BY DEF DeliveriesOf
  <2>2. \A k \in DeliveriesOf(e) \ LateRows : status[k] # "absent"
    BY <2>1 DEF SafeInv, RowsThere
  <2> QED BY <1>4, <1>5, <2>1, <2>2 DEF Settled
<1>7. CopyOf(h)'
  <2>1. CopyOf(h)
    BY DEF SafeInv, CopiesOK
  <2>2. DeliveriesOf(e) \subseteq Deliveries
    BY DEF DeliveriesOf
  <2>3. Row(h)' = d
    BY <1>2 DEF Row
  <2>4. \A k \in Deliveries : Buried(k) => Accounted(h, k)'
    BY <1>4 DEF Accounted
  <2>5. UNCHANGED <<evidence, retryCount, eventStatus>>
    BY DEF AggregateRows, rows
  <2> HIDE DEF agg
  <2>6. /\ eventStatus'[e] # "pending" /\ handler'[h].attempt <= retryCount'[d]
        /\ handler'[h].reason = "exhausted" => handler'[h].attempt >= MaxAttempts
        /\ handler'[h].reason = "reported" => handler'[h].attempt >= MaxApiAttempts
    BY <1>1, <1>2, <2>1, <2>5 DEF CopyOf
  <2> QED BY <1>1, <1>2, <1>6, <2>2, <2>3, <2>4, <2>5, <2>6 DEF CopyOf, At
<1>8. CopiesOK'
  BY <1>2, <1>3, <1>7, CopiesKept
<1> QED BY <1>3, <1>8, QuietStep DEF AggregateRows

LEMMA BeginDeadLetterSafe ==
    ASSUME TypeInv, TypeInv', SafeInv, NEW h \in Handlers, BeginDeadLetter(h)
    PROVE  SafeInv'
<1> DEFINE d == Row(h)
           e == EventOf[d]
           agg == Aggregate(e, d, "failed")
<1>1. /\ ~At(h, "idle") /\ d \in Deliveries /\ e \in Events
      /\ d \in DeliveriesOf(e) /\ d # NoDelivery
  <2>1. ~At(h, "idle")
    BY DEF BeginDeadLetter, At
  <2> QED BY <2>1, RowTypes, ConstantsAssumption DEF DeliveriesOf, TypeInv, TypeOK
<1>2. /\ handler'[h].pc = "committing" /\ handler'[h].agg = agg
      /\ handler'[h].delivery = d
      /\ handler'[h].attempt = handler[h].attempt
      /\ handler'[h].reason = handler[h].reason
      /\ \A g \in Handlers \ {h} : handler'[g] = handler[g]
  BY DEF BeginDeadLetter, TypeInv, TypeOK, HandlerState, Row
<1>3. Grows
  BY QuietGrows DEF BeginDeadLetter
<1>4. /\ \A k \in Deliveries : Buried(k)' <=> Buried(k)
      /\ \A k \in Deliveries : status[k] = "failed" => Buried(k)
      /\ \A k \in Deliveries : status[k] = "delivered" => evidence[k]
  BY DEF BeginDeadLetter, Buried, SafeInv, FailedIsBuried, DeliveredHasEvidence
<1>5. /\ agg # "delivered"
      /\ agg = "failed" =>
           \A k \in DeliveriesOf(e) \ {d} : status[k] \in {"absent"} \cup Settled
  <2>1. status \in [Deliveries -> Statuses] /\ "failed" \in Statuses
    BY DEF TypeInv, TypeOK, Statuses, Settled
  <2> HIDE DEF d, e
  <2> QED BY <1>1, <2>1, AggregateMeaning
<1>6. CopyOf(h)'
  <2>1. CopyOf(h)
    BY DEF SafeInv, CopiesOK
  <2>2. DeliveriesOf(e) \subseteq Deliveries
    BY DEF DeliveriesOf
  <2>3. Row(h)' = d
    BY <1>2 DEF Row
  <2>4. /\ \A k \in Deliveries : Buried(k) => Accounted(h, k)'
        /\ Accounted(h, d)'
    BY <1>2, <1>4, <2>3 DEF Accounted, At
  <2>5. UNCHANGED <<evidence, retryCount, eventStatus>>
    BY DEF BeginDeadLetter, rows
  <2>6. /\ eventStatus'[e] # "pending" /\ handler'[h].attempt <= retryCount'[d]
        /\ handler'[h].reason = "exhausted" => handler'[h].attempt >= MaxAttempts
        /\ handler'[h].reason = "reported" => handler'[h].attempt >= MaxApiAttempts
    BY <1>1, <1>2, <2>1, <2>5 DEF CopyOf
  <2>7. agg = "failed" =>
          \A k \in DeliveriesOf(e) \ LateRows : evidence'[k] \/ Accounted(h, k)'
    <3>1. ASSUME agg = "failed", NEW k \in DeliveriesOf(e) \ LateRows
          PROVE  evidence'[k] \/ Accounted(h, k)'
      <4>1. CASE k = d
        BY <1>2, <2>3, <4>1 DEF Accounted, At
      <4>2. CASE k # d
        <5>1. k \in Deliveries /\ status[k] \in Settled
          BY <1>5, <2>2, <3>1, <4>2 DEF SafeInv, RowsThere
        <5> QED BY <1>4, <2>4, <2>5, <5>1 DEF Settled
      <4> QED BY <4>1, <4>2
    <3> QED BY <3>1
  <2> HIDE DEF agg
  <2> QED BY <1>1, <1>2, <1>5, <2>2, <2>3, <2>4, <2>5, <2>6, <2>7 DEF CopyOf, At
<1>7. CopiesOK'
  BY <1>2, <1>3, <1>6, CopiesKept
<1> QED BY <1>3, <1>7, QuietStep DEF BeginDeadLetter

-----------------------------------------------------------------------------
(* Steps that write rows.                                                    *)

\* Only rows that a handler or a timer already works on are written, so their
\* events are not 'pending'.
LEMMA HeldEvent ==
    ASSUME TypeInv, SafeInv, NEW h \in Handlers, ~At(h, "idle")
    PROVE  /\ Row(h) \in Deliveries /\ EventOf[Row(h)] \in Events
           /\ eventStatus[EventOf[Row(h)]] # "pending"
           /\ handler[h].attempt <= retryCount[Row(h)]
           /\ At(h, "acking") => evidence[Row(h)]
<1>1. Row(h) \in Deliveries /\ EventOf[Row(h)] \in Events
  BY RowTypes
<1>2. CopyOf(h) /\ Row(h) # NoDelivery
  BY <1>1, ConstantsAssumption DEF SafeInv, CopiesOK
<1> QED BY <1>1, <1>2 DEF CopyOf

LEMMA CountsAreNumbers ==
    ASSUME TypeInv, TypeInv', NEW d \in Deliveries
    PROVE  retryCount[d] \in 0..RetryCap /\ retryCount[d] \in Nat /\ retryCount'[d] \in Nat
BY ConstantsAssumption DEF TypeInv, TypeOK

LEMMA RowGrows ==
    ASSUME TypeInv, TypeInv', UNCHANGED <<deadLetters, evidence>>,
           \A d \in Deliveries : retryCount'[d] = retryCount[d]
                              \/ retryCount'[d] = Bump(retryCount[d], RetryCap),
           \A e \in Events : eventStatus'[e] # eventStatus[e] => eventStatus'[e] # "pending"
    PROVE  Grows
<1>1. \A d \in Deliveries : retryCount[d] <= retryCount'[d]
  BY CountsAreNumbers, BumpType, ConstantsAssumption
<1> QED BY <1>1 DEF Grows, Buried

\* What is left to show of a step that writes rows and no dead letter.
LEMMA RowStep ==
    ASSUME TypeInv, TypeInv', SafeInv, UNCHANGED <<deadLetters, evidence>>,
           Grows, CopiesOK', PendingRowsUntouched', FinalEventEarned',
           \A d \in Deliveries :
              \/ status'[d] = status[d]
              \/ status'[d] \in Open
              \/ status'[d] = "delivered" /\ evidence[d]
    PROVE  SafeInv'
<1>1. \A d \in Deliveries : Buried(d)' <=> Buried(d)
  BY DEF Buried
<1>2. RowsThere' /\ FailedIsBuried'
  BY <1>1 DEF SafeInv, RowsThere, FailedIsBuried, Open
<1>3. DeliveredHasEvidence'
  BY DEF SafeInv, DeliveredHasEvidence, Open
<1>4. GivesUpNoEarlier'
  <2>1. \A d \in Deliveries : retryCount[d] \in Nat /\ retryCount'[d] \in Nat
                            /\ retryCount[d] <= retryCount'[d]
    BY CountsAreNumbers DEF Grows
  <2> QED BY <2>1, ConstantsAssumption DEF SafeInv, GivesUpNoEarlier
<1> QED BY <1>1, <1>2, <1>3, <1>4 DEF SafeInv

LEMMA SameEventsEarned ==
    ASSUME SafeInv, UNCHANGED <<eventStatus, deadLetters, evidence>>
    PROVE  FinalEventEarned'
<1>1. \A d \in Deliveries : Buried(d)' <=> Buried(d)
  BY DEF Buried
<1> QED BY <1>1 DEF SafeInv, FinalEventEarned, DeliveriesOf

\* The writes of a handler to its own row.
LEMMA OwnRowUntouched ==
    ASSUME TypeInv, SafeInv, NEW h \in Handlers, ~At(h, "idle"),
           \A e \in Events : eventStatus'[e] = "pending" => eventStatus[e] = "pending",
           \A d \in Deliveries \ {Row(h)} :
              /\ status'[d] = status[d]
              /\ startedAt'[d] = startedAt[d]
              /\ retryCount'[d] = retryCount[d],
           eventStatus'[EventOf[Row(h)]] # "pending"
    PROVE  PendingRowsUntouched'
BY HeldEvent, ConstantsAssumption DEF SafeInv, PendingRowsUntouched

LEMMA MarkAwaitingAckSafe ==
    ASSUME TypeInv, TypeInv', SafeInv, NEW h \in Handlers, MarkAwaitingAck(h)
    PROVE  SafeInv'
<1>1. ~At(h, "idle") /\ Row(h) \in Deliveries /\ eventStatus[EventOf[Row(h)]] # "pending"
  <2>1. ~At(h, "idle")
    BY DEF MarkAwaitingAck, At
  <2> QED BY <2>1, HeldEvent
<1>2. Grows
  BY RowGrows DEF MarkAwaitingAck
<1>3. CopiesOK'
  BY <1>2, FinishedCopies DEF MarkAwaitingAck
<1>4. PendingRowsUntouched'
  BY <1>1, OwnRowUntouched DEF MarkAwaitingAck, TypeInv, TypeOK
<1>5. \A d \in Deliveries : status'[d] = status[d] \/ status'[d] \in Open
  BY DEF MarkAwaitingAck, TypeInv, TypeOK, Open
<1> QED BY <1>2, <1>3, <1>4, <1>5, SameEventsEarned, RowStep DEF MarkAwaitingAck

LEMMA ReleaseToPendingSafe ==
    ASSUME TypeInv, TypeInv', SafeInv, NEW h \in Handlers, ReleaseToPending(h)
    PROVE  SafeInv'
<1>1. ~At(h, "idle") /\ Row(h) \in Deliveries /\ eventStatus[EventOf[Row(h)]] # "pending"
  <2>1. ~At(h, "idle")
    BY DEF ReleaseToPending, At
  <2> QED BY <2>1, HeldEvent
<1>2. Grows
  BY RowGrows DEF ReleaseToPending
<1>3. CopiesOK'
  BY <1>2, FinishedCopies DEF ReleaseToPending
<1>4. PendingRowsUntouched'
  BY <1>1, OwnRowUntouched DEF ReleaseToPending, TypeInv, TypeOK
<1>5. \A d \in Deliveries : status'[d] = status[d] \/ status'[d] \in Open
  BY DEF ReleaseToPending, TypeInv, TypeOK, Open
<1> QED BY <1>2, <1>3, <1>4, <1>5, SameEventsEarned, RowStep DEF ReleaseToPending

LEMMA ScheduleRetrySafe ==
    ASSUME TypeInv, TypeInv', SafeInv, NEW h \in Handlers, ScheduleRetry(h)
    PROVE  SafeInv'
<1>1. ~At(h, "idle") /\ Row(h) \in Deliveries /\ eventStatus[EventOf[Row(h)]] # "pending"
  <2>1. ~At(h, "idle")
    BY DEF ScheduleRetry, At
  <2> QED BY <2>1, HeldEvent
<1>2. Grows
  <2>1. \A d \in Deliveries : retryCount'[d] = retryCount[d]
                           \/ retryCount'[d] = Bump(retryCount[d], RetryCap)
    BY DEF ScheduleRetry, TypeInv, TypeOK
  <2> QED BY <2>1, RowGrows DEF ScheduleRetry
<1>3. CopiesOK'
  BY <1>2, FinishedCopies DEF ScheduleRetry
<1>4. PendingRowsUntouched'
  BY <1>1, OwnRowUntouched DEF ScheduleRetry, TypeInv, TypeOK
<1>5. \A d \in Deliveries : status'[d] = status[d] \/ status'[d] \in Open
  BY DEF ScheduleRetry, TypeInv, TypeOK, Open
<1> QED BY <1>2, <1>3, <1>4, <1>5, SameEventsEarned, RowStep DEF ScheduleRetry

LEMMA AcknowledgeSafe ==
    ASSUME TypeInv, TypeInv', SafeInv, NEW h \in Handlers, Acknowledge(h)
    PROVE  SafeInv'
<1>1. /\ ~At(h, "idle") /\ Row(h) \in Deliveries
      /\ eventStatus[EventOf[Row(h)]] # "pending" /\ evidence[Row(h)]
  <2>1. ~At(h, "idle") /\ At(h, "acking")
    BY DEF Acknowledge, At
  <2> QED BY <2>1, HeldEvent
<1>2. Grows
  BY RowGrows DEF Acknowledge
<1>3. CopiesOK'
  BY <1>1, <1>2, GotoCopies DEF Acknowledge, PCs
<1>4. PendingRowsUntouched'
  BY <1>1, OwnRowUntouched DEF Acknowledge, TypeInv, TypeOK
<1>5. \A d \in Deliveries : status'[d] = status[d] \/ (status'[d] = "delivered" /\ evidence[d])
  BY <1>1 DEF Acknowledge, TypeInv, TypeOK
<1> QED BY <1>2, <1>3, <1>4, <1>5, SameEventsEarned, RowStep DEF Acknowledge

LEMMA SyncEventStatusSafe ==
    ASSUME TypeInv, TypeInv', SafeInv, NEW h \in Handlers, SyncEventStatus(h)
    PROVE  SafeInv'
<1>1. /\ ~At(h, "idle") /\ Row(h) \in Deliveries /\ EventOf[Row(h)] \in Events
      /\ eventStatus[EventOf[Row(h)]] # "pending" /\ ~At(h, "committing")
  <2>1. ~At(h, "idle") /\ ~At(h, "committing")
    BY DEF SyncEventStatus, At
  <2> QED BY <2>1, HeldEvent
<1>2. /\ handler[h].agg # "pending"
      /\ eventStatus'[EventOf[Row(h)]] = handler[h].agg
      /\ \A e \in Events \ {EventOf[Row(h)]} : eventStatus'[e] = eventStatus[e]
  BY <1>1 DEF SyncEventStatus, TypeInv, TypeOK, HandlerOK, At, Settled
<1>3. Grows
  BY <1>2, RowGrows DEF SyncEventStatus, rows
<1>4. CopiesOK'
  BY <1>3, FinishedCopies DEF SyncEventStatus
<1>5. PendingRowsUntouched'
  BY <1>1, <1>2, OwnRowUntouched DEF SyncEventStatus, rows
<1>6. FinalEventEarned'
  <2>1. \A d \in Deliveries : Buried(d)' <=> Buried(d)
    BY DEF Buried, SyncEventStatus
  <2>2. CopyOf(h) /\ Row(h) # NoDelivery /\ At(h, "syncing")
    BY <1>1, ConstantsAssumption DEF SafeInv, CopiesOK, SyncEventStatus
  <2>3. \A d \in Deliveries : Accounted(h, d) <=> Buried(d)
    BY <1>1 DEF Accounted
  <2>4. ASSUME NEW e \in Events
        PROVE  /\ eventStatus'[e] = "delivered" =>
                     \A d \in DeliveriesOf(e) \ LateRows : evidence[d]
               /\ eventStatus'[e] = "failed" =>
                     /\ \E d \in DeliveriesOf(e) : Buried(d)
                     /\ \A d \in DeliveriesOf(e) \ LateRows : evidence[d] \/ Buried(d)
    <3>1. CASE e = EventOf[Row(h)]
      BY <1>2, <2>2, <2>3, <3>1 DEF CopyOf, At, DeliveriesOf
    <3>2. CASE e # EventOf[Row(h)]
      BY <1>2, <3>2 DEF SafeInv, FinalEventEarned
    <3> QED BY <3>1, <3>2
  <2> QED BY <2>1, <2>4 DEF FinalEventEarned, DeliveriesOf, SyncEventStatus
<1> QED BY <1>3, <1>4, <1>5, <1>6, RowStep DEF SyncEventStatus, rows

LEMMA ResetTimedOutAcksSafe ==
    ASSUME TypeInv, TypeInv', SafeInv, NEW expired \in SUBSET Deliveries,
           ResetTimedOutAcks(expired)
    PROVE  SafeInv'
<1>1. \A d \in expired : status[d] = "awaiting_ack"
  BY DEF ResetTimedOutAcks, Overdue
<1>2. Grows
  BY RowGrows DEF ResetTimedOutAcks
<1>3. CopiesOK'
  BY <1>2, CopyKept DEF SafeInv, CopiesOK, ResetTimedOutAcks
<1>4. PendingRowsUntouched'
  BY <1>1, ConstantsAssumption DEF SafeInv, PendingRowsUntouched, ResetTimedOutAcks
<1>5. \A d \in Deliveries : status'[d] = status[d] \/ status'[d] \in Open
  BY DEF ResetTimedOutAcks, Open
<1> QED BY <1>2, <1>3, <1>4, <1>5, SameEventsEarned, RowStep DEF ResetTimedOutAcks

LEMMA ReleaseStuckDeliveriesSafe ==
    ASSUME TypeInv, TypeInv', SafeInv, NEW expired \in SUBSET Deliveries,
           ReleaseStuckDeliveries(expired)
    PROVE  SafeInv'
<1>1. Grows
  BY RowGrows DEF ReleaseStuckDeliveries
<1>2. CopiesOK'
  BY <1>1, CopyKept DEF SafeInv, CopiesOK, ReleaseStuckDeliveries
<1>3. PendingRowsUntouched'
  BY DEF SafeInv, PendingRowsUntouched, ReleaseStuckDeliveries
<1>4. \A d \in Deliveries : status'[d] = status[d] \/ status'[d] \in Open
  BY DEF ReleaseStuckDeliveries, Open
<1> QED BY <1>1, <1>2, <1>3, <1>4, SameEventsEarned, RowStep DEF ReleaseStuckDeliveries

\* A claim moves its rows' events on in the same step.
LEMMA TakeRowsSafe ==
    ASSUME TypeInv, TypeInv', SafeInv, NEW claimed \in SUBSET Deliveries,
           TakeRows(claimed), UNCHANGED <<deadLetters, evidence>>, Grows, CopiesOK'
    PROVE  SafeInv'
<1>1. PendingRowsUntouched'
  BY ConstantsAssumption DEF SafeInv, PendingRowsUntouched, TakeRows
<1>2. FinalEventEarned'
  <2>1. \A d \in Deliveries : Buried(d)' <=> Buried(d)
    BY DEF Buried
  <2>2. \A e \in Events : eventStatus'[e] = "processing" \/ eventStatus'[e] = eventStatus[e]
    BY DEF TakeRows
  <2> QED BY <2>1, <2>2 DEF SafeInv, FinalEventEarned, DeliveriesOf
<1>3. \A d \in Deliveries : status'[d] = status[d] \/ status'[d] \in Open
  BY DEF TakeRows, Open
<1> QED BY <1>1, <1>2, <1>3, RowStep

LEMMA TakeRowsGrows ==
    ASSUME TypeInv, TypeInv', NEW claimed \in SUBSET Deliveries, TakeRows(claimed),
           UNCHANGED <<deadLetters, evidence>>
    PROVE  /\ Grows
           /\ \A d \in claimed : eventStatus'[EventOf[d]] # "pending"
           /\ UNCHANGED retryCount
<1>1. \A e \in Events : eventStatus'[e] # eventStatus[e] => eventStatus'[e] # "pending"
  BY DEF TakeRows
<1>2. UNCHANGED retryCount
  BY DEF TakeRows
<1>3. \A d \in claimed : eventStatus'[EventOf[d]] # "pending"
  BY ConstantsAssumption DEF TakeRows
<1> QED BY <1>1, <1>2, <1>3, RowGrows

LEMMA ClaimSafe ==
    ASSUME TypeInv, TypeInv', SafeInv, NEW w \in Workers, Claim(w)
    PROVE  SafeInv'
<1>1. PICK used \in SUBSET FreeSlots(w) \ {{}} :
      \E job \in [used -> Claimable] :
          /\ TakeRows({job[s] : s \in used})
          /\ handler' = [h \in Handlers |->
                           IF h \in used THEN ClaimedJob(job[h]) ELSE handler[h]]
  BY DEF Claim
<1>2. PICK job \in [used -> Claimable] :
          /\ TakeRows({job[s] : s \in used})
          /\ handler' = [h \in Handlers |->
                           IF h \in used THEN ClaimedJob(job[h]) ELSE handler[h]]
  BY <1>1
<1> DEFINE claimed == {job[s] : s \in used}
<1>3. claimed \in SUBSET Deliveries /\ \A s \in used : job[s] \in Deliveries
  BY DEF Claimable
<1>4. Grows /\ (\A d \in claimed : eventStatus'[EventOf[d]] # "pending") /\ UNCHANGED retryCount
  BY <1>2, <1>3, TakeRowsGrows DEF Claim
<1>5. ASSUME NEW h \in Handlers PROVE CopyOf(h)'
  <2>1. CASE h \notin used
    BY <1>2, <1>4, <2>1, CopyKept DEF SafeInv, CopiesOK
  <2>2. CASE h \in used
    <3>1. /\ handler'[h].pc = "lookup" /\ handler'[h].delivery = job[h]
          /\ handler'[h].attempt = retryCount[job[h]]
          /\ handler'[h].reason = "none"
      BY <1>2, <2>2 DEF ClaimedJob, Idle
    <3>2. eventStatus'[EventOf[job[h]]] # "pending" /\ job[h] \in Deliveries
      BY <1>3, <1>4, <2>2
    <3>3. retryCount'[job[h]] = retryCount[job[h]] /\ retryCount[job[h]] \in Nat
      BY <1>4, <3>2, CountsAreNumbers
    <3> QED BY <3>1, <3>2, <3>3 DEF CopyOf, Row, At
  <2> QED BY <2>1, <2>2
<1> QED BY <1>2, <1>3, <1>4, <1>5, TakeRowsSafe DEF Claim, CopiesOK

LEMMA ConsumeSafe ==
    ASSUME TypeInv, TypeInv', SafeInv, NEW c \in Consumers, Consume(c)
    PROVE  SafeInv'
<1>1. PICK claimed \in SUBSET Deliveries : TakeRows(claimed)
  BY DEF Consume, Claimable
<1>2. Grows
  BY <1>1, TakeRowsGrows DEF Consume
<1>3. CopiesOK'
  BY <1>2, CopyKept DEF SafeInv, CopiesOK, Consume
<1> QED BY <1>1, <1>2, <1>3, TakeRowsSafe DEF Consume

LEMMA EnqueueSafe ==
    ASSUME TypeInv, TypeInv', SafeInv, NEW d \in Deliveries, Enqueue(d)
    PROVE  SafeInv'
<1>1. Grows
  BY RowGrows DEF Enqueue
<1>2. CopiesOK'
  BY <1>1, CopyKept DEF SafeInv, CopiesOK, Enqueue
<1>3. \A k \in Deliveries :
         status'[k] = status[k] \/ (status'[k] = "pending" /\ status[k] = "absent")
  BY DEF Enqueue, TypeInv, TypeOK
<1>4. PendingRowsUntouched'
  BY <1>3 DEF SafeInv, PendingRowsUntouched, Enqueue
<1> QED BY <1>1, <1>2, <1>3, <1>4, SameEventsEarned, RowStep DEF Enqueue, Open

\* The one step that writes a dead letter: it is written with the row, for a cause
\* the handler's copy vouches for, and the event may count on it.
LEMMA CommitDeadLetterSafe ==
    ASSUME TypeInv, TypeInv', SafeInv, NEW h \in Handlers, CommitDeadLetter(h)
    PROVE  SafeInv'
<1>1. /\ ~At(h, "idle") /\ At(h, "committing") /\ CopyOf(h) /\ Row(h) # NoDelivery
      /\ eventStatus[EventOf[Row(h)]] # "pending" /\ handler[h].agg # "pending"
  <2>1. ~At(h, "idle") /\ At(h, "committing")
    BY DEF CommitDeadLetter, At
  <2> QED BY <2>1, HeldEvent, ConstantsAssumption
          DEF TypeInv, HandlerOK, At, Settled, SafeInv, CopiesOK
<1>2. PICK d \in Deliveries : d = Row(h)
  BY <1>1, HeldEvent
<1>3. PICK r \in Reasons : r = handler[h].reason
  BY <1>1 DEF TypeInv, HandlerOK, At
<1>4. EventOf[d] \in Events
  BY ConstantsAssumption
<1>5. /\ status'[d] = "failed"
      /\ \A k \in Deliveries \ {d} : status'[k] = status[k]
      /\ UNCHANGED <<retryCount, startedAt, evidence>>
      /\ eventStatus'[EventOf[d]] = handler[h].agg
      /\ \A e \in Events \ {EventOf[d]} : eventStatus'[e] = eventStatus[e]
  BY <1>2, <1>4 DEF CommitDeadLetter, TypeInv, TypeOK
<1>6. /\ deadLetters'[d][r] > 0
      /\ \A k \in Deliveries, q \in Reasons :
            deadLetters'[k][q] = deadLetters[k][q] \/ (k = d /\ q = r)
  <2>1. Bump(deadLetters[d][r], LetterCap) > 0
    BY ConstantsAssumption DEF Bump, TypeInv, TypeOK
  <2>2. deadLetters' = [deadLetters EXCEPT ![d][r] = Bump(deadLetters[d][r], LetterCap)]
    BY <1>2, <1>3 DEF CommitDeadLetter, TypeInv, TypeOK
  <2>3. /\ deadLetters'[d][r] = Bump(deadLetters[d][r], LetterCap)
        /\ \A k \in Deliveries, q \in Reasons :
              deadLetters'[k][q] = deadLetters[k][q] \/ (k = d /\ q = r)
    BY <2>2 DEF TypeInv, TypeOK
  <2> QED BY <2>1, <2>3
<1>7. (\A k \in Deliveries : Buried(k) => Buried(k)') /\ Buried(d)'
  BY <1>6 DEF Buried
<1>8. Grows
  <2>1. \A k \in Deliveries : retryCount[k] <= retryCount'[k]
    BY <1>5, CountsAreNumbers
  <2>2. \A e \in Events : eventStatus[e] # "pending" => eventStatus'[e] # "pending"
    BY <1>1, <1>5
  <2> QED BY <1>5, <1>7, <2>1, <2>2 DEF Grows
<1>9. CopiesOK'
  BY <1>8, FinishedCopies DEF CommitDeadLetter
<1>10. PendingRowsUntouched'
  <2>1. eventStatus'[EventOf[d]] # "pending"
    BY <1>1, <1>5
  <2>2. \A k \in Deliveries : EventOf[k] # EventOf[d] => k # d /\ EventOf[k] \in Events
    BY ConstantsAssumption
  <2> QED BY <1>5, <2>1, <2>2 DEF SafeInv, PendingRowsUntouched
<1>11. RowsThere' /\ FailedIsBuried' /\ DeliveredHasEvidence'
  BY <1>5, <1>7 DEF SafeInv, RowsThere, FailedIsBuried, DeliveredHasEvidence
<1>12. GivesUpNoEarlier'
  <2>1. /\ r = "exhausted" => retryCount[d] >= MaxAttempts
        /\ r = "reported" => retryCount[d] >= MaxApiAttempts
    <3>1. handler[h].attempt \in Nat /\ retryCount[d] \in Nat
      BY CountsAreNumbers DEF TypeInv, TypeOK, HandlerState
    <3> QED BY <1>1, <1>2, <1>3, <3>1, ConstantsAssumption DEF CopyOf
  <2> QED BY <1>5, <1>6, <2>1 DEF SafeInv, GivesUpNoEarlier, Reasons
<1>13. FinalEventEarned'
  <2>1. ASSUME NEW e \in Events
        PROVE  /\ eventStatus'[e] = "delivered" =>
                     \A k \in DeliveriesOf(e) \ LateRows : evidence'[k]
               /\ eventStatus'[e] = "failed" =>
                     /\ \E k \in DeliveriesOf(e) : Buried(k)'
                     /\ \A k \in DeliveriesOf(e) \ LateRows : evidence'[k] \/ Buried(k)'
    <3>1. DeliveriesOf(e) \subseteq Deliveries
      BY DEF DeliveriesOf
    <3>2. CASE e = EventOf[d]
      <4>1. \A k \in Deliveries : Accounted(h, k) => Buried(k)'
        BY <1>2, <1>7 DEF Accounted
      <4> QED BY <1>1, <1>2, <1>5, <3>1, <3>2, <4>1 DEF CopyOf, At
    <3>3. CASE e # EventOf[d]
      BY <1>5, <1>7, <3>1, <3>3 DEF SafeInv, FinalEventEarned
    <3> QED BY <3>2, <3>3
  <2> QED BY <2>1 DEF FinalEventEarned, DeliveriesOf
<1> QED BY <1>9, <1>10, <1>11, <1>12, <1>13 DEF SafeInv

LEMMA SafeInvStep == TypeInv /\ TypeInv' /\ SafeInv /\ [Next]_vars => SafeInv'
<1> SUFFICES ASSUME TypeInv, TypeInv', SafeInv, [Next]_vars PROVE SafeInv'
    OBVIOUS
<1>1. ASSUME NEW w \in Workers, Claim(w) \/ WorkerCrash(w) PROVE SafeInv'
  BY <1>1, ClaimSafe, CrashSafe DEF WorkerCrash
<1>2. ASSUME NEW h \in Handlers, HandlerStep(h) PROVE SafeInv'
  BY <1>2, LookUpSafe, RespondSafe, MarkAwaitingAckSafe, ReleaseToPendingSafe,
     ScheduleRetrySafe, AcknowledgeSafe, AggregateRowsSafe, SyncEventStatusSafe,
     BeginDeadLetterSafe, CommitDeadLetterSafe DEF HandlerStep
<1>3. ASSUME NEW h \in Handlers, DbError(h) PROVE SafeInv'
  BY <1>3, DbErrorSafe
<1>4. ASSUME NEW a \in ApiCalls, NEW e \in Events, NEW success \in BOOLEAN,
             AcknowledgeEvent(a, e, success)
      PROVE  SafeInv'
  BY <1>4, AcknowledgeEventSafe
<1>5. ASSUME NEW c \in Consumers,
             Consume(c) \/ \E s \in {"active", "paused", "deleted"} : SetConsumer(c, s)
      PROVE  SafeInv'
  BY <1>5, ConsumeSafe, SetConsumerSafe
<1>6. ASSUME NEW expired \in SUBSET Deliveries,
             ResetTimedOutAcks(expired) \/ ReleaseStuckDeliveries(expired)
      PROVE  SafeInv'
  BY <1>6, ResetTimedOutAcksSafe, ReleaseStuckDeliveriesSafe
<1>7. CASE ApiCrash
  BY <1>7, CrashSafe DEF ApiCrash
<1>8. ASSUME NEW d \in Deliveries, Enqueue(d) PROVE SafeInv'
  BY <1>8, EnqueueSafe
<1>9. CASE UNCHANGED vars
  <2>1. UNCHANGED <<rows, eventStatus, deadLetters, evidence, handler>>
    BY <1>9 DEF vars
  <2>2. Grows
    BY <2>1, QuietGrows
  <2>3. CopiesOK'
    BY <2>1, <2>2, CopyKept DEF SafeInv, CopiesOK
  <2> QED BY <2>1, <2>2, <2>3, QuietStep
<1> QED BY <1>1, <1>2, <1>3, <1>4, <1>5, <1>6, <1>7, <1>8, <1>9 DEF Next

LEMMA AlwaysSafe == Spec => [](TypeInv /\ SafeInv)
<1>1. Init => TypeInv /\ SafeInv
  BY InitTypeInv, InitSafeInv
<1>2. (TypeInv /\ SafeInv) /\ [Next]_vars => (TypeInv /\ SafeInv)'
  BY TypeInvStep, SafeInvStep
<1> QED BY <1>1, <1>2, PTL DEF Spec

\* Whatever interleaving of late workers, requests, timers, crashes and database
\* errors led to it, a row that reads 'failed' has its dead letter.
THEOREM FailedAlwaysBuried == Spec => []FailedIsBuried
<1>1. SafeInv => FailedIsBuried
  BY DEF SafeInv
<1> QED BY <1>1, AlwaysSafe, PTL

\* An event that reads 'pending' was never worked on.
THEOREM PendingAlwaysUntouched == Spec => []PendingEventUntouched
<1>1. TypeInv /\ SafeInv => PendingEventUntouched
  <2> SUFFICES ASSUME TypeInv, SafeInv, NEW e \in Events, eventStatus[e] = "pending",
                      NEW d \in DeliveriesOf(e)
               PROVE  /\ status[d] \in {"absent", "pending"}
                      /\ ~startedAt[d] /\ retryCount[d] = 0 /\ ~Held(d)
    BY DEF PendingEventUntouched
  <2>1. d \in Deliveries /\ EventOf[d] = e
    BY DEF DeliveriesOf
  <2>2. ~Held(d)
    BY <2>1, ConstantsAssumption DEF Held, SafeInv, CopiesOK, CopyOf
  <2> QED BY <2>1, <2>2 DEF SafeInv, PendingRowsUntouched
<1> QED BY <1>1, AlwaysSafe, PTL

\* A row that reads 'delivered' was accepted by its endpoint or reported a success.
THEOREM DeliveredAlwaysEvidenced == Spec => []DeliveredHasEvidence
<1>1. SafeInv => DeliveredHasEvidence
  BY DEF SafeInv
<1> QED BY <1>1, AlwaysSafe, PTL

\* An event's final status is earned by each of its deliveries, although its writer
\* may have read the rows long before it writes.
THEOREM FinalAlwaysEarned == Spec => []FinalEventEarned
<1>1. SafeInv => FinalEventEarned
  BY DEF SafeInv
<1> QED BY <1>1, AlwaysSafe, PTL

\* No interleaving makes the worker or the API give up before its retries are used.
THEOREM NeverGivesUpEarlier == Spec => []GivesUpNoEarlier
<1>1. SafeInv => GivesUpNoEarlier
  BY DEF SafeInv
<1> QED BY <1>1, AlwaysSafe, PTL

-----------------------------------------------------------------------------
(* The lease.  If timers fire only on rows without a live handler, and       *)
(* consumers report only when no handler holds the row, then a claim is      *)
(* exclusive and every claimed row can be found by the timers.               *)

HeldRowsLeased ==
    \A d \in Deliveries : Held(d) => status[d] \notin {"absent", "pending"} /\ startedAt[d]

LeaseInv == LeaseIsExclusive /\ LeaseIsRecorded /\ HeldRowsLeased

OnlyLetsGo == \A h \in Handlers : Row(h)' = Row(h) \/ Row(h)' = NoDelivery

LEMMA ExclusiveKept ==
    ASSUME LeaseInv, OnlyLetsGo
    PROVE  /\ LeaseIsExclusive'
           /\ \A d \in Deliveries : Held(d)' => Held(d)
<1>1. LeaseIsExclusive'
  BY DEF LeaseInv, LeaseIsExclusive, OnlyLetsGo
<1>2. ASSUME NEW d \in Deliveries, Held(d)' PROVE Held(d)
  BY <1>2, ConstantsAssumption DEF OnlyLetsGo, Held
<1> QED BY <1>1, <1>2

\* Steps that leave the rows alone and take no row into hand.
LEMMA LeaseQuiet ==
    ASSUME LeaseInv, OnlyLetsGo, UNCHANGED rows
    PROVE  LeaseInv'
BY ExclusiveKept DEF LeaseInv, LeaseIsRecorded, HeldRowsLeased, rows

\* Steps by which the handler of a row writes it and lets it go.
LEMMA LeaseFinish ==
    ASSUME TypeInv, LeaseInv, NEW h \in Handlers, ~At(h, "idle"), Finish(h),
           \A d \in Deliveries \ {Row(h)} : status'[d] = status[d] /\ startedAt'[d] = startedAt[d],
           status'[Row(h)] \in {"processing", "awaiting_ack"} => startedAt'[Row(h)]
    PROVE  LeaseInv'
<1>1. /\ Row(h)' = NoDelivery
      /\ \A g \in Handlers \ {h} : Row(g)' = Row(g)
  BY DEF Finish, Row, Idle, TypeInv, TypeOK
<1>2. LeaseIsExclusive' /\ \A d \in Deliveries : Held(d)' => Held(d)
  BY <1>1, ExclusiveKept DEF OnlyLetsGo
<1>3. \A d \in Deliveries : Held(d)' => d # Row(h)
  BY <1>1, ConstantsAssumption DEF Held, LeaseInv, LeaseIsExclusive
<1> QED BY <1>2, <1>3 DEF LeaseInv, LeaseIsRecorded, HeldRowsLeased

\* A decision changes what a handler does next and not its row.
LEMMA DecisionKeepsRow ==
    ASSUME TypeInv, NEW h \in Handlers, NEW pc, NEW caught,
           Bury(h) \/ Goto(h, pc) \/ RetryOrBury(h, caught)
    PROVE  OnlyLetsGo
<1>1. ASSUME NEW g \in Handlers PROVE handler[g] \in HandlerState
  BY DEF TypeInv, TypeOK
<1>2. CASE Bury(h)
  BY <1>1, <1>2 DEF OnlyLetsGo, Row, Bury, HandlerState, TypeInv, TypeOK
<1>3. CASE Goto(h, pc)
  BY <1>1, <1>3 DEF OnlyLetsGo, Row, Goto, HandlerState, TypeInv, TypeOK
<1>4. CASE RetryOrBury(h, caught)
  <2>1. \A g \in Handlers : handler'[g].delivery = handler[g].delivery
    BY <1>1, <1>4 DEF RetryOrBury, HandlerState, TypeInv, TypeOK
  <2> QED BY <2>1 DEF OnlyLetsGo, Row
<1> QED BY <1>2, <1>3, <1>4

LEMMA LeaseHandlerStep ==
    ASSUME TypeInv, LeaseInv, NEW h \in Handlers, HandlerStep(h)
    PROVE  LeaseInv'
<1>1. ~At(h, "idle")
  BY DEF HandlerStep, LookUp, Respond, MarkAwaitingAck, ReleaseToPending, ScheduleRetry,
         Acknowledge, AggregateRows, SyncEventStatus, BeginDeadLetter,
         CommitDeadLetter, At
<1>2. /\ Row(h) \in Deliveries
      /\ status[Row(h)] \notin {"absent", "pending"} /\ startedAt[Row(h)]
  BY <1>1, RowTypes DEF LeaseInv, HeldRowsLeased, Held
<1>3. CASE LookUp(h) \/ (\E reply \in Replies : Respond(h, reply))
           \/ AggregateRows(h) \/ BeginDeadLetter(h)
  <2>1. CASE LookUp(h) \/ (\E reply \in Replies : Respond(h, reply))
    <3>1. OnlyLetsGo
      BY <2>1, DecisionKeepsRow DEF LookUp, Respond
    <3> QED BY <2>1, <3>1, LeaseQuiet DEF LookUp, Respond
  <2>2. CASE AggregateRows(h) \/ BeginDeadLetter(h)
    <3>1. OnlyLetsGo
      <4>1. \A g \in Handlers : handler[g] \in HandlerState
        BY DEF TypeInv, TypeOK
      <4>2. CASE AggregateRows(h)
        BY <4>1, <4>2 DEF OnlyLetsGo, Row, AggregateRows, TypeInv, TypeOK, HandlerState
      <4>3. CASE BeginDeadLetter(h)
        BY <4>1, <4>3 DEF OnlyLetsGo, Row, BeginDeadLetter, TypeInv, TypeOK, HandlerState
      <4> QED BY <2>2, <4>2, <4>3
    <3> QED BY <2>2, <3>1, LeaseQuiet DEF AggregateRows, BeginDeadLetter
  <2> QED BY <1>3, <2>1, <2>2
<1>4. CASE MarkAwaitingAck(h)
  BY <1>1, <1>2, <1>4, LeaseFinish DEF MarkAwaitingAck, TypeInv, TypeOK
<1>5. CASE ReleaseToPending(h)
  BY <1>1, <1>2, <1>5, LeaseFinish DEF ReleaseToPending, TypeInv, TypeOK
<1>6. CASE ScheduleRetry(h)
  BY <1>1, <1>2, <1>6, LeaseFinish DEF ScheduleRetry, TypeInv, TypeOK
<1>7. CASE Acknowledge(h)
  <2>1. OnlyLetsGo
    BY <1>7 DEF OnlyLetsGo, Row, Acknowledge, Goto, TypeInv, TypeOK, HandlerState
  <2>2. /\ status'[Row(h)] = "delivered"
        /\ \A d \in Deliveries \ {Row(h)} : status'[d] = status[d]
        /\ UNCHANGED startedAt
    BY <1>2, <1>7 DEF Acknowledge, TypeInv, TypeOK
  <2> QED BY <2>1, <2>2, ExclusiveKept DEF LeaseInv, LeaseIsRecorded, HeldRowsLeased
<1>8. CASE SyncEventStatus(h)
  BY <1>1, <1>2, <1>8, LeaseFinish DEF SyncEventStatus, rows
<1>9. CASE CommitDeadLetter(h)
  BY <1>1, <1>2, <1>9, LeaseFinish DEF CommitDeadLetter, TypeInv, TypeOK
<1> QED BY <1>3, <1>4, <1>5, <1>6, <1>7, <1>8, <1>9 DEF HandlerStep

\* A claim takes pending rows, which by HeldRowsLeased nobody holds.
LEMMA LeaseClaim ==
    ASSUME TypeInv, LeaseInv, NEW w \in Workers, Claim(w)
    PROVE  LeaseInv'
<1>1. PICK used \in SUBSET FreeSlots(w) \ {{}} :
      \E job \in [used -> Claimable] :
          /\ \A s, t \in used : job[s] = job[t] => s = t
          /\ TakeRows({job[s] : s \in used})
          /\ handler' = [h \in Handlers |->
                           IF h \in used THEN ClaimedJob(job[h]) ELSE handler[h]]
  BY DEF Claim
<1>2. PICK job \in [used -> Claimable] :
          /\ \A s, t \in used : job[s] = job[t] => s = t
          /\ TakeRows({job[s] : s \in used})
          /\ handler' = [h \in Handlers |->
                           IF h \in used THEN ClaimedJob(job[h]) ELSE handler[h]]
  BY <1>1
<1> DEFINE claimed == {job[s] : s \in used}
<1>3. /\ \A s \in used : job[s] \in Deliveries /\ status[job[s]] = "pending"
      /\ used \subseteq Handlers
  BY DEF Claimable, FreeSlots, Handlers
<1>4. \A s \in used : ~Held(job[s]) /\ job[s] # NoDelivery
  BY <1>3, ConstantsAssumption DEF LeaseInv, HeldRowsLeased
<1>5. \A h \in Handlers : Row(h)' = IF h \in used THEN job[h] ELSE Row(h)
  BY <1>2 DEF Row, ClaimedJob, Idle
<1>6. LeaseIsExclusive'
  <2> SUFFICES ASSUME NEW g \in Handlers, NEW h \in Handlers,
                      Row(g)' = Row(h)', Row(g)' # NoDelivery
               PROVE  g = h
    BY DEF LeaseIsExclusive
  <2>1. CASE g \in used /\ h \in used
    BY <1>2, <1>5, <2>1
  <2>2. CASE g \notin used /\ h \notin used
    BY <1>5, <2>2 DEF LeaseInv, LeaseIsExclusive
  <2>3. CASE (g \in used /\ h \notin used) \/ (g \notin used /\ h \in used)
    BY <1>4, <1>5, <2>3 DEF Held
  <2> QED BY <2>1, <2>2, <2>3
<1>7. \A d \in Deliveries : Held(d)' => d \in claimed \/ Held(d)
  BY <1>5 DEF Held
<1>8. \A d \in Deliveries :
         /\ d \in claimed => status'[d] = "processing" /\ startedAt'[d]
         /\ d \notin claimed => status'[d] = status[d] /\ startedAt'[d] = startedAt[d]
  BY <1>2 DEF TakeRows, TypeInv, TypeOK
<1>9. LeaseIsRecorded' /\ HeldRowsLeased'
  BY <1>7, <1>8 DEF LeaseInv, LeaseIsRecorded, HeldRowsLeased
<1> QED BY <1>6, <1>9 DEF LeaseInv

LEMMA LeaseOthers ==
    ASSUME ~LateTimers, ~RacingAcks, TypeInv, LeaseInv, [Next]_vars,
           \A w \in Workers : ~Claim(w), \A h \in Handlers : ~HandlerStep(h)
    PROVE  LeaseInv'
<1>1. ASSUME NEW hs, Crash(hs) PROVE LeaseInv'
  <2>1. OnlyLetsGo
    BY <1>1 DEF Crash, OnlyLetsGo, Row, Idle
  <2> QED BY <1>1, <2>1, LeaseQuiet DEF Crash
<1>2. ASSUME NEW h \in Handlers, DbError(h) PROVE LeaseInv'
  <2>1. CASE CatchError(h)
    <3>1. OnlyLetsGo
      BY <2>1, DecisionKeepsRow DEF CatchError
    <3> QED BY <1>2, <3>1, LeaseQuiet DEF DbError
  <2>2. CASE RejectBatch(h) \/ FailRequest(h)
    <3>1. OnlyLetsGo
      BY <2>2 DEF RejectBatch, FailRequest, Finish, OnlyLetsGo, Row, Idle, TypeInv, TypeOK
    <3> QED BY <1>2, <3>1, LeaseQuiet DEF DbError
  <2> QED BY <1>2, <2>1, <2>2 DEF DbError
<1>3. ASSUME NEW a \in ApiCalls, NEW e \in Events, NEW success \in BOOLEAN,
             AcknowledgeEvent(a, e, success)
      PROVE  LeaseInv'
  <2>1. PICK d \in Deliveries :
          /\ status[d] \in {"processing", "awaiting_ack"} /\ ~Held(d)
          /\ handler'[a].delivery = d
          /\ \A h \in Handlers \ {a} : handler'[h] = handler[h]
    BY <1>3 DEF AcknowledgeEvent, DeliveriesOf, Handlers, Idle, TypeInv, TypeOK
  <2>2. Row(a)' = d /\ \A h \in Handlers \ {a} : Row(h)' = Row(h)
    BY <2>1 DEF Row
  <2>3. LeaseIsExclusive'
    BY <2>1, <2>2 DEF LeaseInv, LeaseIsExclusive, Held
  <2>4. \A k \in Deliveries : Held(k)' => k = d \/ Held(k)
    BY <2>2 DEF Held
  <2>5. UNCHANGED <<status, startedAt>>
    BY <1>3 DEF AcknowledgeEvent, rows
  <2> QED BY <2>1, <2>3, <2>4, <2>5 DEF LeaseInv, LeaseIsRecorded, HeldRowsLeased
<1>4. ASSUME NEW c \in Consumers, Consume(c) PROVE LeaseInv'
  <2>1. PICK claimed \in SUBSET {d \in Deliveries : status[d] = "pending"} : TakeRows(claimed)
    BY <1>4 DEF Consume, Claimable
  <2>2. OnlyLetsGo
    BY <1>4 DEF Consume, OnlyLetsGo, Row
  <2>3. \A d \in Deliveries :
         /\ d \in claimed => status'[d] = "processing" /\ startedAt'[d]
         /\ d \notin claimed => status'[d] = status[d] /\ startedAt'[d] = startedAt[d]
    BY <2>1 DEF TakeRows, TypeInv, TypeOK
  <2> QED BY <2>2, <2>3, ExclusiveKept DEF LeaseInv, LeaseIsRecorded, HeldRowsLeased
<1>5. ASSUME NEW c \in Consumers, NEW s \in {"active", "paused", "deleted"}, SetConsumer(c, s)
      PROVE  LeaseInv'
  BY <1>5, LeaseQuiet DEF SetConsumer, OnlyLetsGo, Row
<1>6. ASSUME NEW expired \in SUBSET Deliveries,
             ResetTimedOutAcks(expired) \/ ReleaseStuckDeliveries(expired)
      PROVE  LeaseInv'
  <2>1. \A d \in expired : ~Held(d)
    BY <1>6 DEF ResetTimedOutAcks, ReleaseStuckDeliveries, Overdue
  <2>2. OnlyLetsGo
    BY <1>6 DEF ResetTimedOutAcks, ReleaseStuckDeliveries, OnlyLetsGo, Row
  <2>3. \A d \in Deliveries :
         /\ d \in expired => status'[d] = "pending"
         /\ d \notin expired => status'[d] = status[d] /\ startedAt'[d] = startedAt[d]
    BY <1>6 DEF ResetTimedOutAcks, ReleaseStuckDeliveries, TypeInv, TypeOK
  <2> QED BY <2>1, <2>2, <2>3, ExclusiveKept DEF LeaseInv, LeaseIsRecorded, HeldRowsLeased
<1>7. ASSUME NEW d \in Deliveries, Enqueue(d) PROVE LeaseInv'
  <2>1. OnlyLetsGo
    BY <1>7 DEF Enqueue, OnlyLetsGo, Row
  <2>2. /\ status[d] = "absent" /\ status'[d] = "pending" /\ UNCHANGED startedAt
        /\ \A k \in Deliveries \ {d} : status'[k] = status[k]
    BY <1>7 DEF Enqueue, TypeInv, TypeOK
  <2> QED BY <2>1, <2>2, ExclusiveKept DEF LeaseInv, LeaseIsRecorded, HeldRowsLeased
<1>8. CASE UNCHANGED vars
  BY <1>8, LeaseQuiet DEF vars, OnlyLetsGo, Row
<1> QED BY <1>1, <1>2, <1>3, <1>4, <1>5, <1>6, <1>7, <1>8 DEF Next, WorkerCrash, ApiCrash

\* With prompt workers and orderly reports, database errors and crashes included, no
\* two handlers ever work on a row, and every claimed row has the started_at by which
\* the timers find it.
THEOREM LeaseHolds ==
    ASSUME ~LateTimers, ~RacingAcks
    PROVE  Spec => []LeaseIsKept
<1>1. Init => LeaseInv
  BY ConstantsAssumption
     DEF Init, LeaseInv, LeaseIsExclusive, LeaseIsRecorded, HeldRowsLeased, Held, Row, Idle
<1>2. TypeInv /\ LeaseInv /\ [Next]_vars => LeaseInv'
  BY LeaseHandlerStep, LeaseClaim, LeaseOthers
<1>3. Spec => []TypeInv
  BY InitTypeInv, TypeInvStep, PTL DEF Spec
<1>4. LeaseInv => LeaseIsKept
  BY DEF LeaseInv, LeaseIsKept
<1> QED BY <1>1, <1>2, <1>3, <1>4, PTL DEF Spec

-----------------------------------------------------------------------------
(* The contract.  With orderly timing and no failing call, the lease keeps   *)
(* every handler but the one that settled it away from a settled row, and    *)
(* that one has only the event's status left to write.                       *)

SettledIsLeft ==
    \A h \in Handlers : ~At(h, "idle") /\ status[Row(h)] \in Settled =>
        handler[h].pc \in {"aggregating", "syncing"}

OpenHasNoLetter ==
    \A d \in Deliveries : status[d] \notin Settled => \A r \in Reasons : deadLetters[d][r] = 0

ContractInv == SettledIsLeft /\ OpenHasNoLetter

NothingSettles ==
    /\ \A d \in Deliveries :
          /\ status[d] \in Settled => status'[d] = status[d]
          /\ status[d] \notin Settled => status'[d] \notin Settled
    /\ UNCHANGED deadLetters

\* A handler goes on with its row, or starts on one that is open.
HandlersGoOn ==
    \A h \in Handlers : handler'[h].pc # "idle" =>
        \/ /\ handler[h].pc # "idle" /\ Row(h)' = Row(h)
           /\ handler[h].pc \in {"aggregating", "syncing"} =>
                 handler'[h].pc \in {"aggregating", "syncing"}
        \/ handler'[h].delivery \in Deliveries /\ status[handler'[h].delivery] \notin Settled

\* To the contract, steps that settle nothing are no steps.
LEMMA NothingSettlesStutters ==
    ASSUME TypeInv, ContractInv, NothingSettles, HandlersGoOn
    PROVE  ContractInv' /\ UNCHANGED Contract!vars
<1>1. OpenHasNoLetter'
  BY DEF ContractInv, OpenHasNoLetter, NothingSettles
<1>2. SettledIsLeft'
  <2> SUFFICES ASSUME NEW h \in Handlers, handler'[h].pc # "idle",
                      status'[handler'[h].delivery] \in Settled
               PROVE  handler'[h].pc \in {"aggregating", "syncing"}
    BY DEF SettledIsLeft, At, Row
  <2>1. CASE handler[h].pc # "idle" /\ Row(h)' = Row(h)
             /\ (handler[h].pc \in {"aggregating", "syncing"} =>
                    handler'[h].pc \in {"aggregating", "syncing"})
    <3>1. Row(h) \in Deliveries
      BY <2>1, RowTypes DEF At
    <3>2. status[Row(h)] \in Settled
      BY <2>1, <3>1 DEF NothingSettles, Row
    <3> QED BY <2>1, <3>2 DEF ContractInv, SettledIsLeft, At
  <2>2. CASE handler'[h].delivery \in Deliveries /\ status[handler'[h].delivery] \notin Settled
    BY <2>2 DEF NothingSettles
  <2> QED BY <2>1, <2>2 DEF HandlersGoOn
<1>3. UNCHANGED Contract!vars
  <2>1. \A d \in Deliveries :
           (IF status[d] \in Settled THEN status[d] ELSE "open")' =
           (IF status[d] \in Settled THEN status[d] ELSE "open")
    BY DEF NothingSettles
  <2> QED BY <2>1 DEF Contract!vars, NothingSettles
<1> QED BY <1>1, <1>2, <1>3 DEF ContractInv

\* A decision leads from where it is made to a statement that is not the last.
LEMMA DecisionGoesOn ==
    ASSUME TypeInv, NEW h \in Handlers, NEW pc, NEW caught,
           handler[h].pc \notin {"idle", "aggregating", "syncing"},
           Bury(h) \/ Goto(h, pc) \/ RetryOrBury(h, caught)
    PROVE  HandlersGoOn
<1>1. \A g \in Handlers : handler[g] \in HandlerState
  BY DEF TypeInv, TypeOK
<1>2. \A g \in Handlers : handler'[g].delivery = handler[g].delivery
  <2>1. CASE Bury(h)
    BY <1>1, <2>1 DEF Bury, HandlerState, TypeInv, TypeOK
  <2>2. CASE Goto(h, pc)
    BY <1>1, <2>2 DEF Goto, HandlerState, TypeInv, TypeOK
  <2>3. CASE RetryOrBury(h, caught)
    BY <1>1, <2>3 DEF RetryOrBury, HandlerState, TypeInv, TypeOK
  <2> QED BY <2>1, <2>2, <2>3
<1>3. \A g \in Handlers \ {h} : handler'[g] = handler[g]
  <2>1. CASE Bury(h)
    BY <1>1, <2>1 DEF Bury, TypeInv, TypeOK
  <2>2. CASE Goto(h, pc)
    BY <1>1, <2>2 DEF Goto, TypeInv, TypeOK
  <2>3. CASE RetryOrBury(h, caught)
    BY <1>1, <2>3 DEF RetryOrBury, TypeInv, TypeOK
  <2> QED BY <2>1, <2>2, <2>3
<1> QED BY <1>2, <1>3 DEF HandlersGoOn, Row

\* A handler that ends leaves the others where they are.
LEMMA FinishGoesOn ==
    ASSUME TypeInv, NEW h \in Handlers, Finish(h)
    PROVE  HandlersGoOn
BY DEF Finish, HandlersGoOn, Row, Idle, TypeInv, TypeOK

\* A statement that makes an open row of its handler another open one.
LEMMA OpenRowStaysOpen ==
    ASSUME TypeInv, ContractInv, NEW h \in Handlers,
           handler[h].pc \notin {"idle", "aggregating", "syncing"},
           NEW s \in Open, status' = [status EXCEPT ![Row(h)] = s], UNCHANGED deadLetters
    PROVE  NothingSettles
<1>1. status[Row(h)] \notin Settled
  BY DEF ContractInv, SettledIsLeft, At
<1>2. s \notin Settled
  BY DEF Open, Settled
<1>3. \A d \in Deliveries : status'[d] = IF d = Row(h) THEN s ELSE status[d]
  BY DEF TypeInv, TypeOK
<1> QED BY <1>1, <1>2, <1>3 DEF NothingSettles

LEMMA AcknowledgeDelivers ==
    ASSUME TypeInv, LeaseIsExclusive, ContractInv, NEW h \in Handlers, Acknowledge(h)
    PROVE  ContractInv' /\ Contract!Next
<1>1. ~At(h, "idle") /\ handler[h].pc = "acking"
  BY DEF Acknowledge, At
<1>2. Row(h) \in Deliveries /\ Row(h) # NoDelivery
  BY <1>1, RowTypes, ConstantsAssumption
<1>3. status[Row(h)] \notin Settled
  BY <1>1 DEF ContractInv, SettledIsLeft, At
<1>4. /\ \A d \in Deliveries : status'[d] = IF d = Row(h) THEN "delivered" ELSE status[d]
      /\ UNCHANGED deadLetters
  BY DEF Acknowledge, TypeInv, TypeOK
<1>5. /\ handler'[h].pc = "aggregating" /\ handler'[h].delivery = Row(h)
      /\ \A g \in Handlers \ {h} : handler'[g] = handler[g]
  BY DEF Acknowledge, Goto, Row, TypeInv, TypeOK, HandlerState
<1>6. OpenHasNoLetter'
  BY <1>4 DEF ContractInv, OpenHasNoLetter, Settled
<1>7. SettledIsLeft'
  <2> SUFFICES ASSUME NEW g \in Handlers \ {h}, ~At(g, "idle")', status'[Row(g)'] \in Settled
               PROVE  handler'[g].pc \in {"aggregating", "syncing"}
    BY <1>5 DEF SettledIsLeft, At
  <2>1. ~At(g, "idle") /\ Row(g)' = Row(g)
    BY <1>5 DEF At, Row
  <2>2. Row(g) \in Deliveries /\ Row(g) # Row(h)
    BY <1>2, <2>1, RowTypes DEF LeaseIsExclusive
  <2> QED BY <1>4, <1>5, <2>1, <2>2 DEF ContractInv, SettledIsLeft
<1>8. PICK d \in Deliveries : d = Row(h)
  BY <1>2
<1>9. Contract!Deliver(d)
  <2>1. [k \in Deliveries |-> IF status[k] \in Settled THEN status[k] ELSE "open"]' =
        [[k \in Deliveries |-> IF status[k] \in Settled THEN status[k] ELSE "open"]
            EXCEPT ![d] = "delivered"]
    BY <1>4, <1>8 DEF Settled
  <2>2. [k \in Deliveries |-> IF status[k] \in Settled THEN status[k] ELSE "open"][d] = "open"
    BY <1>3, <1>8
  <2> QED BY <1>4, <2>1, <2>2 DEF Contract!Deliver
<1> QED BY <1>6, <1>7, <1>9 DEF ContractInv, Contract!Next

\* The first dead letter of a row is counted as one, whatever its cause.
LEMMA OneLetter ==
    ASSUME TypeInv, OpenHasNoLetter, NEW d \in Deliveries, status[d] \notin Settled,
           NEW r \in Reasons,
           deadLetters' = [deadLetters EXCEPT ![d][r] = Bump(@, LetterCap)]
    PROVE  LET of == deadLetters[d]  after == deadLetters'[d] IN
           /\ of["fatal"] + of["exhausted"] + of["reported"] = 0
           /\ after["fatal"] + after["exhausted"] + after["reported"] = 1
<1>1. deadLetters[d] \in [Reasons -> 0..LetterCap]
  BY DEF TypeInv, TypeOK
<1>2. \A q \in Reasons : deadLetters[d][q] = 0
  BY DEF OpenHasNoLetter
<1>3. \A q \in Reasons : deadLetters'[d][q] = IF q = r THEN 1 ELSE 0
  BY <1>1, <1>2, ConstantsAssumption DEF Bump, TypeInv, TypeOK
<1>4. /\ "fatal" \in Reasons /\ "exhausted" \in Reasons /\ "reported" \in Reasons
      /\ r = "fatal" \/ r = "exhausted" \/ r = "reported"
  BY DEF Reasons
<1> QED BY <1>2, <1>3, <1>4

LEMMA CommitGivesUp ==
    ASSUME TypeInv, LeaseIsExclusive, ContractInv, NEW h \in Handlers, CommitDeadLetter(h)
    PROVE  ContractInv' /\ Contract!Next
<1>1. ~At(h, "idle") /\ handler[h].pc = "committing"
  BY DEF CommitDeadLetter, At
<1>2. Row(h) \in Deliveries /\ Row(h) # NoDelivery /\ handler[h].reason \in Reasons
  BY <1>1, RowTypes, ConstantsAssumption DEF TypeInv, HandlerOK
<1>3. status[Row(h)] \notin Settled
  BY <1>1 DEF ContractInv, SettledIsLeft, At
<1>4. /\ \A d \in Deliveries : status'[d] = IF d = Row(h) THEN "failed" ELSE status[d]
      /\ \A d \in Deliveries \ {Row(h)} : deadLetters'[d] = deadLetters[d]
      /\ deadLetters' = [deadLetters EXCEPT ![Row(h)][handler[h].reason] = Bump(@, LetterCap)]
  BY DEF CommitDeadLetter, TypeInv, TypeOK
<1>5. /\ handler'[h].pc = "idle"
      /\ \A g \in Handlers \ {h} : handler'[g] = handler[g]
  BY DEF CommitDeadLetter, Finish, Idle, TypeInv, TypeOK
<1>6. OpenHasNoLetter'
  BY <1>4 DEF ContractInv, OpenHasNoLetter, Settled
<1>7. SettledIsLeft'
  <2> SUFFICES ASSUME NEW g \in Handlers \ {h}, ~At(g, "idle")', status'[Row(g)'] \in Settled
               PROVE  handler'[g].pc \in {"aggregating", "syncing"}
    BY <1>5 DEF SettledIsLeft, At
  <2>1. ~At(g, "idle") /\ Row(g)' = Row(g)
    BY <1>5 DEF At, Row
  <2>2. Row(g) \in Deliveries /\ Row(g) # Row(h)
    BY <1>2, <2>1, RowTypes DEF LeaseIsExclusive
  <2> QED BY <1>4, <1>5, <2>1, <2>2 DEF ContractInv, SettledIsLeft
<1>8. PICK d \in Deliveries : d = Row(h)
  BY <1>2
<1>9. Contract!GiveUp(d)
  <2>1. [k \in Deliveries |-> IF status[k] \in Settled THEN status[k] ELSE "open"]' =
        [[k \in Deliveries |-> IF status[k] \in Settled THEN status[k] ELSE "open"]
            EXCEPT ![d] = "failed"]
    BY <1>4, <1>8 DEF Settled
  <2>2. [k \in Deliveries |-> IF status[k] \in Settled THEN status[k] ELSE "open"][d] = "open"
    BY <1>3, <1>8
  <2> DEFINE count(letters) == letters["fatal"] + letters["exhausted"] + letters["reported"]
  <2>3. count(deadLetters[d]) = 0 /\ count(deadLetters'[d]) = 1
    BY <1>2, <1>3, <1>4, <1>8, OneLetter DEF ContractInv
  <2>4. \A k \in Deliveries :
           count(deadLetters'[k]) = IF k = d THEN count(deadLetters[k]) + 1 ELSE count(deadLetters[k])
    BY <1>4, <1>8, <2>3
  <2>5. [k \in Deliveries |-> count(deadLetters[k])]' =
        [[k \in Deliveries |-> count(deadLetters[k])] EXCEPT ![d] = @ + 1]
    <3> HIDE DEF count
    <3> QED BY <2>4
  <2> QED BY <2>1, <2>2, <2>5 DEF Contract!GiveUp
<1> QED BY <1>6, <1>7, <1>9 DEF ContractInv, Contract!Next

\* What the next lemmas prove of each step.
Conforms == ContractInv' /\ [Contract!Next]_(Contract!vars)

LEMMA OpenStepConforms ==
    ASSUME TypeInv, ContractInv, NothingSettles, HandlersGoOn
    PROVE  Conforms
BY NothingSettlesStutters DEF Conforms

LEMMA ContractHandlerStep ==
    ASSUME TypeInv, LeaseInv, ContractInv, NEW h \in Handlers, HandlerStep(h)
    PROVE  Conforms
<1>1. \A g \in Handlers : handler[g] \in HandlerState
  BY DEF TypeInv, TypeOK
<1>2. CASE LookUp(h)
  <2>1. HandlersGoOn
    BY <1>2, DecisionGoesOn DEF LookUp, At
  <2> QED BY <1>2, <2>1, OpenStepConforms DEF LookUp, rows, NothingSettles
<1>3. ASSUME NEW reply \in Replies, Respond(h, reply) PROVE Conforms
  <2>1. HandlersGoOn
    BY <1>3, DecisionGoesOn DEF Respond, At
  <2> QED BY <1>3, <2>1, OpenStepConforms DEF Respond, rows, NothingSettles
<1>4. CASE MarkAwaitingAck(h) \/ ReleaseToPending(h) \/ ScheduleRetry(h)
  <2>1. handler[h].pc \notin {"idle", "aggregating", "syncing"} /\ Finish(h)
        /\ UNCHANGED deadLetters
    BY <1>4 DEF MarkAwaitingAck, ReleaseToPending, ScheduleRetry, At
  <2>2. PICK s \in Open : status' = [status EXCEPT ![Row(h)] = s]
    BY <1>4 DEF MarkAwaitingAck, ReleaseToPending, ScheduleRetry, Open
  <2> QED BY <2>1, <2>2, FinishGoesOn, OpenRowStaysOpen, OpenStepConforms
<1>5. CASE Acknowledge(h)
  BY <1>5, AcknowledgeDelivers DEF LeaseInv, Conforms
<1>6. CASE AggregateRows(h) \/ BeginDeadLetter(h)
  <2>1. CASE AggregateRows(h)
    <3>1. HandlersGoOn
      BY <1>1, <2>1 DEF AggregateRows, At, HandlersGoOn, Row, TypeInv, TypeOK, HandlerState
    <3> QED BY <2>1, <3>1, OpenStepConforms DEF AggregateRows, rows, NothingSettles
  <2>2. CASE BeginDeadLetter(h)
    <3>1. HandlersGoOn
      BY <1>1, <2>2 DEF BeginDeadLetter, At, HandlersGoOn, Row, TypeInv, TypeOK, HandlerState
    <3> QED BY <2>2, <3>1, OpenStepConforms DEF BeginDeadLetter, rows, NothingSettles
  <2> QED BY <1>6, <2>1, <2>2
<1>7. CASE SyncEventStatus(h)
  BY <1>7, FinishGoesOn, OpenStepConforms DEF SyncEventStatus, rows, NothingSettles
<1>8. CASE CommitDeadLetter(h)
  BY <1>8, CommitGivesUp DEF LeaseInv, Conforms
<1> QED BY <1>2, <1>3, <1>4, <1>5, <1>6, <1>7, <1>8 DEF HandlerStep

\* Claims take pending rows; a worker's new jobs are about such rows.
LEMMA ContractClaim ==
    ASSUME TypeInv, ContractInv, NEW w \in Workers, Claim(w)
    PROVE  Conforms
<1>a. PICK used \in SUBSET FreeSlots(w) \ {{}} :
      \E job \in [used -> Claimable] :
          /\ TakeRows({job[s] : s \in used})
          /\ handler' = [h \in Handlers |->
                           IF h \in used THEN ClaimedJob(job[h]) ELSE handler[h]]
  BY DEF Claim
<1>1. PICK job \in [used -> Claimable] :
          /\ TakeRows({job[s] : s \in used})
          /\ handler' = [h \in Handlers |->
                           IF h \in used THEN ClaimedJob(job[h]) ELSE handler[h]]
  BY <1>a
<1> DEFINE claimed == {job[s] : s \in used}
<1>2. \A s \in used : job[s] \in Deliveries /\ status[job[s]] = "pending"
  BY DEF Claimable
<1>3. \A d \in Deliveries :
         status'[d] = IF d \in claimed THEN "processing" ELSE status[d]
  BY <1>1 DEF TakeRows
<1>4. NothingSettles
  BY <1>2, <1>3 DEF NothingSettles, Claim, Settled
<1>5. HandlersGoOn
  BY <1>1, <1>2 DEF HandlersGoOn, Row, ClaimedJob, Idle, Settled
<1> QED BY <1>4, <1>5, OpenStepConforms

\* Steps that work on open rows only, or on no row.
LEMMA ContractOthers ==
    ASSUME MaxDbErrors = 0, TypeInv, ContractInv, [Next]_vars,
           \A w \in Workers : ~Claim(w), \A h \in Handlers : ~HandlerStep(h)
    PROVE  Conforms
<1>1. ASSUME NEW hs, Crash(hs) PROVE Conforms
  BY <1>1, OpenStepConforms DEF Crash, rows, HandlersGoOn, Row, Idle, NothingSettles
<1>2. ASSUME NEW h \in Handlers PROVE ~DbError(h)
  BY DEF DbError, TypeInv, TypeOK
<1>3. ASSUME NEW a \in ApiCalls, NEW e \in Events, NEW success \in BOOLEAN,
             AcknowledgeEvent(a, e, success)
      PROVE  Conforms
  <2>1. PICK d \in Deliveries :
          /\ status[d] \in {"processing", "awaiting_ack"}
          /\ handler'[a].delivery = d
          /\ \A h \in Handlers \ {a} : handler'[h] = handler[h]
    BY <1>3 DEF AcknowledgeEvent, DeliveriesOf, Handlers, Idle, TypeInv, TypeOK
  <2>2. HandlersGoOn
    BY <2>1 DEF HandlersGoOn, Row, Settled
  <2> QED BY <1>3, <2>2, OpenStepConforms DEF AcknowledgeEvent, rows, NothingSettles
<1>4. ASSUME UNCHANGED <<handler, deadLetters>>,
             NEW moved \in SUBSET Deliveries, NEW s \in Open,
             \A d \in moved : status[d] \notin Settled,
             \A d \in Deliveries : status'[d] = IF d \in moved THEN s ELSE status[d]
      PROVE  Conforms
  <2>1. NothingSettles
    BY <1>4 DEF NothingSettles, Open, Settled
  <2>2. HandlersGoOn
    BY <1>4 DEF HandlersGoOn, Row
  <2> QED BY <2>1, <2>2, OpenStepConforms
<1>5. ASSUME NEW c \in Consumers, Consume(c) PROVE Conforms
  <2>1. PICK claimed \in SUBSET {d \in Deliveries : status[d] = "pending"} : TakeRows(claimed)
    BY <1>5 DEF Consume, Claimable
  <2>2. \A d \in Deliveries : status'[d] = IF d \in claimed THEN "processing" ELSE status[d]
    BY <2>1 DEF TakeRows
  <2>3. claimed \in SUBSET Deliveries /\ \A d \in claimed : status[d] \notin Settled
    BY DEF Settled
  <2> QED BY <1>4, <1>5, <2>2, <2>3 DEF Consume, Open
<1>6. ASSUME NEW c \in Consumers, NEW s \in {"active", "paused", "deleted"}, SetConsumer(c, s)
      PROVE  Conforms
  BY <1>6, OpenStepConforms DEF SetConsumer, rows, HandlersGoOn, Row, NothingSettles
<1>7. ASSUME NEW expired \in SUBSET Deliveries,
             ResetTimedOutAcks(expired) \/ ReleaseStuckDeliveries(expired)
      PROVE  Conforms
  <2>1. \A d \in expired : status[d] \notin Settled
    BY <1>7 DEF ResetTimedOutAcks, ReleaseStuckDeliveries, Overdue, Settled
  <2>2. \A d \in Deliveries : status'[d] = IF d \in expired THEN "pending" ELSE status[d]
    BY <1>7 DEF ResetTimedOutAcks, ReleaseStuckDeliveries
  <2>3. UNCHANGED <<handler, deadLetters>>
    BY <1>7 DEF ResetTimedOutAcks, ReleaseStuckDeliveries
  <2> QED BY <1>4, <2>1, <2>2, <2>3 DEF Open
<1>8. ASSUME NEW d \in Deliveries, Enqueue(d) PROVE Conforms
  <2>1. /\ status[d] \notin Settled
        /\ \A k \in Deliveries : status'[k] = IF k \in {d} THEN "pending" ELSE status[k]
    BY <1>8 DEF Enqueue, Settled, TypeInv, TypeOK
  <2> QED BY <1>4, <1>8, <2>1 DEF Enqueue, Open
<1>9. CASE UNCHANGED vars
  BY <1>9, OpenStepConforms DEF vars, rows, HandlersGoOn, Row, NothingSettles
<1> QED BY <1>1, <1>2, <1>3, <1>5, <1>6, <1>7, <1>8, <1>9 DEF Next, WorkerCrash, ApiCrash

\* With orderly timing, crashes included, and as long as no call to the database fails,
\* the queue refines DeliveryContract: a row is settled once and for good, with one dead
\* letter if it failed and none if it was delivered.
THEOREM QueueKeepsContract ==
    ASSUME ~LateTimers, ~RacingAcks, MaxDbErrors = 0
    PROVE  Spec => KeepsContract
<1>1. Init => LeaseInv /\ ContractInv /\ Contract!Init
  <2> SUFFICES ASSUME Init PROVE LeaseInv /\ ContractInv /\ Contract!Init
    OBVIOUS
  <2>1. LeaseInv
    BY ConstantsAssumption
       DEF Init, LeaseInv, LeaseIsExclusive, LeaseIsRecorded, HeldRowsLeased, Held, Row, Idle
  <2>2. ContractInv
    BY DEF Init, ContractInv, SettledIsLeft, OpenHasNoLetter, At, Idle
  <2>3. Contract!Init
    BY DEF Init, Contract!Init, Settled, Reasons
  <2> QED BY <2>1, <2>2, <2>3
<1>2. TypeInv /\ LeaseInv /\ [Next]_vars => LeaseInv'
  BY LeaseHandlerStep, LeaseClaim, LeaseOthers
<1>3. TypeInv /\ LeaseInv /\ ContractInv /\ [Next]_vars =>
          ContractInv' /\ [Contract!Next]_(Contract!vars)
  BY ContractHandlerStep, ContractClaim, ContractOthers DEF Conforms
<1>4. Spec => []TypeInv
  BY InitTypeInv, TypeInvStep, PTL DEF Spec
<1> QED BY <1>1, <1>2, <1>3, <1>4, PTL DEF Spec, KeepsContract, Contract!Spec

-----------------------------------------------------------------------------
(* The event's status.  What the contract makes final, a settled row, no     *)
(* aggregate can be wrong about, however old it is when it is written: the   *)
(* strengthening says the same of the aggregates in the handlers' hands.     *)

\* Status s of event e says nothing that the rows do not say, those in sunk counted
\* as failed.
Backed(e, s, sunk) ==
    /\ s = "delivered" => \A d \in DeliveriesOf(e) \ LateRows : status[d] = "delivered"
    /\ s = "failed" =>
         /\ \E d \in DeliveriesOf(e) : status[d] = "failed" \/ d \in sunk
         /\ \A d \in DeliveriesOf(e) \ LateRows : status[d] \in Settled \/ d \in sunk

AggregateBacked(h) ==
    /\ At(h, "syncing") => Backed(EventOf[Row(h)], handler[h].agg, {})
    /\ At(h, "committing") =>
         /\ handler[h].agg # "delivered"
         /\ Backed(EventOf[Row(h)], handler[h].agg, {Row(h)})

EventsBacked == \A e \in Events : Backed(e, eventStatus[e], {})

BackedInv == EventsBacked /\ \A h \in Handlers : AggregateBacked(h)

SettledStays == \A d \in Deliveries : status[d] \in Settled => status'[d] = status[d]

\* A step of the contract leaves what is settled as it is.
LEMMA ConformingKeepsSettled ==
    ASSUME Conforms
    PROVE  SettledStays
<1> DEFINE outcome == [d \in Deliveries |-> IF status[d] \in Settled THEN status[d] ELSE "open"]
<1> SUFFICES ASSUME NEW d \in Deliveries, status[d] \in Settled
             PROVE  status'[d] = status[d]
  BY DEF SettledStays
<1>1. outcome[d] = status[d] /\ outcome[d] # "open"
  BY DEF Settled
<1>2. outcome'[d] = IF status'[d] \in Settled THEN status'[d] ELSE "open"
  OBVIOUS
<1>3. outcome'[d] = outcome[d]
  <2>1. CASE UNCHANGED Contract!vars
    BY <2>1 DEF Contract!vars
  <2>2. ASSUME NEW k \in Deliveries, Contract!Deliver(k) \/ Contract!GiveUp(k)
        PROVE  outcome'[d] = outcome[d]
    <3>1. outcome[k] = "open"
      BY <2>2 DEF Contract!Deliver, Contract!GiveUp
    <3>2. k # d
      BY <1>1, <3>1
    <3>3. \E s : outcome' = [outcome EXCEPT ![k] = s]
      BY <2>2 DEF Contract!Deliver, Contract!GiveUp
    <3> QED BY <3>2, <3>3
  <2> QED BY <2>1, <2>2 DEF Conforms, Contract!Next
<1> QED BY <1>1, <1>2, <1>3

LEMMA BackedStays ==
    ASSUME SettledStays, NEW e, NEW s, NEW sunk, Backed(e, s, sunk)
    PROVE  Backed(e, s, sunk)'
BY DEF SettledStays, Backed, DeliveriesOf, Settled

\* Steps that aggregate nothing and settle no event.
LEMMA BackedQuiet ==
    ASSUME BackedInv, SettledStays,
           \A e \in Events : eventStatus'[e] \in {eventStatus[e], "processing"},
           \A h \in Handlers : handler'[h] = handler[h]
                                \/ handler'[h].pc \notin {"syncing", "committing"}
    PROVE  BackedInv'
<1>1. EventsBacked'
  <2> SUFFICES ASSUME NEW e \in Events PROVE Backed(e, eventStatus[e], {})'
    BY DEF EventsBacked
  <2>1. CASE eventStatus'[e] = eventStatus[e]
    <3>1. PICK s : s = eventStatus[e]
      OBVIOUS
    <3>2. Backed(e, s, {})'
      BY <3>1, BackedStays DEF BackedInv, EventsBacked
    <3> QED BY <2>1, <3>1, <3>2 DEF Backed
  <2>2. CASE eventStatus'[e] = "processing"
    BY <2>2 DEF Backed
  <2> QED BY <2>1, <2>2
<1>2. ASSUME NEW h \in Handlers PROVE AggregateBacked(h)'
  <2>1. CASE handler'[h] = handler[h]
    <3>1. AggregateBacked(h)
      BY DEF BackedInv
    <3> QED BY <2>1, <3>1, BackedStays DEF AggregateBacked, At, Row
  <2>2. CASE handler'[h].pc \notin {"syncing", "committing"}
    BY <2>2 DEF AggregateBacked, At
  <2> QED BY <2>1, <2>2
<1> QED BY <1>1, <1>2 DEF BackedInv

\* Steps of one handler that leave its row behind, or take an aggregate with them.
LEMMA BackedAlone ==
    ASSUME BackedInv, SettledStays, NEW h \in Handlers,
           \A g \in Handlers \ {h} : handler'[g] = handler[g]
    PROVE  \A g \in Handlers \ {h} : AggregateBacked(g)'
<1> SUFFICES ASSUME NEW g \in Handlers \ {h} PROVE AggregateBacked(g)'
  OBVIOUS
<1>1. AggregateBacked(g) /\ handler'[g] = handler[g]
  BY DEF BackedInv
<1> QED BY <1>1, BackedStays DEF AggregateBacked, At, Row

\* syncEventStatus aggregates what the rows say at that moment.
LEMMA AggregateRowsBacked ==
    ASSUME TypeInv, RowsThere, BackedInv, SettledStays, NEW h \in Handlers, AggregateRows(h)
    PROVE  BackedInv'
<1>1. handler[h].pc = "aggregating" /\ Row(h) \in DeliveriesOf(EventOf[Row(h)])
      /\ EventOf[Row(h)] \in Events
  BY RowTypes DEF AggregateRows, At, DeliveriesOf
<1> DEFINE d0 == Row(h)  e0 == EventOf[d0]
<1>2. handler[h] \in HandlerState
  BY DEF TypeInv, TypeOK
<1>3. /\ handler'[h].pc = "syncing" /\ handler'[h].delivery = d0
      /\ handler'[h].agg = Aggregate(e0, d0, status[d0])
      /\ \A g \in Handlers \ {h} : handler'[g] = handler[g]
  BY <1>2 DEF AggregateRows, Row, TypeInv, TypeOK, HandlerState
<1>4. UNCHANGED <<status, eventStatus>>
  BY DEF AggregateRows, rows
<1>5. Backed(e0, Aggregate(e0, d0, status[d0]), {})
  <2>1. d0 \in Deliveries /\ status[d0] \in Statuses
    BY <1>1 DEF TypeInv, TypeOK, DeliveriesOf
  <2>2. ASSUME Aggregate(e0, d0, status[d0]) = "delivered", NEW d \in DeliveriesOf(e0) \ LateRows
        PROVE  status[d] = "delivered"
    BY <1>1, <2>1, <2>2, AggregateMeaning DEF TypeInv, TypeOK, RowsThere, DeliveriesOf
  <2>3. ASSUME Aggregate(e0, d0, status[d0]) = "failed"
        PROVE  /\ \E d \in DeliveriesOf(e0) : status[d] = "failed"
               /\ \A d \in DeliveriesOf(e0) \ LateRows : status[d] \in Settled
    BY <1>1, <2>1, <2>3, AggregateMeaning DEF TypeInv, TypeOK, RowsThere, DeliveriesOf
  <2> QED BY <2>2, <2>3 DEF Backed
<1>6. AggregateBacked(h)'
  BY <1>3, <1>4, <1>5 DEF AggregateBacked, At, Row, Backed
<1>7. EventsBacked'
  BY <1>4, BackedStays DEF BackedInv, EventsBacked
<1> QED BY <1>3, <1>6, <1>7, BackedAlone DEF BackedInv

LEMMA SyncBacked ==
    ASSUME TypeInv, BackedInv, SettledStays, NEW h \in Handlers, SyncEventStatus(h)
    PROVE  BackedInv'
<1>1. handler[h].pc = "syncing" /\ EventOf[Row(h)] \in Events
  BY RowTypes DEF SyncEventStatus, At
<1>2. /\ handler'[h].pc = "idle"
      /\ \A g \in Handlers \ {h} : handler'[g] = handler[g]
  BY DEF SyncEventStatus, Finish, Idle, TypeInv, TypeOK
<1>3. \A e \in Events :
        eventStatus'[e] = IF e = EventOf[Row(h)] THEN handler[h].agg ELSE eventStatus[e]
  BY DEF SyncEventStatus, TypeInv, TypeOK
<1>4. Backed(EventOf[Row(h)], handler[h].agg, {})
  BY <1>1 DEF BackedInv, AggregateBacked, At
<1>5. EventsBacked'
  <2> SUFFICES ASSUME NEW e \in Events PROVE Backed(e, eventStatus[e], {})'
    BY DEF EventsBacked
  <2>1. PICK s : s = eventStatus'[e]
    OBVIOUS
  <2>2. Backed(e, s, {})
    BY <1>3, <1>4, <2>1 DEF BackedInv, EventsBacked
  <2>3. Backed(e, s, {})'
    BY <2>2, BackedStays
  <2> QED BY <2>1, <2>3 DEF Backed
<1>6. AggregateBacked(h)'
  BY <1>2 DEF AggregateBacked, At
<1> QED BY <1>2, <1>5, <1>6, BackedAlone DEF BackedInv

\* moveToDeadLetter aggregates its own row as failed before anyone else sees it so.
LEMMA BeginDeadLetterBacked ==
    ASSUME TypeInv, RowsThere, BackedInv, SettledStays, NEW h \in Handlers, BeginDeadLetter(h)
    PROVE  BackedInv'
<1>1. handler[h].pc = "burying" /\ Row(h) \in DeliveriesOf(EventOf[Row(h)])
      /\ EventOf[Row(h)] \in Events
  BY RowTypes DEF BeginDeadLetter, At, DeliveriesOf
<1> DEFINE d0 == Row(h)  e0 == EventOf[d0]
<1>2. handler[h] \in HandlerState
  BY DEF TypeInv, TypeOK
<1>3. /\ handler'[h].pc = "committing" /\ handler'[h].delivery = d0
      /\ handler'[h].agg = Aggregate(e0, d0, "failed")
      /\ \A g \in Handlers \ {h} : handler'[g] = handler[g]
  BY <1>2 DEF BeginDeadLetter, Row, TypeInv, TypeOK, HandlerState
<1>4. UNCHANGED <<status, eventStatus>>
  BY DEF BeginDeadLetter, rows
<1>5. "failed" \in Statuses /\ "failed" \notin {"absent", "delivered"}
  BY DEF Statuses, Settled
<1>6. Aggregate(e0, d0, "failed") # "delivered"
  BY <1>1, <1>5, AggregateMeaning DEF TypeInv, TypeOK
<1>7. Backed(e0, Aggregate(e0, d0, "failed"), {d0})
  <2> SUFFICES ASSUME Aggregate(e0, d0, "failed") = "failed"
               PROVE  /\ \E d \in DeliveriesOf(e0) : status[d] = "failed" \/ d \in {d0}
                      /\ \A d \in DeliveriesOf(e0) \ LateRows :
                            status[d] \in Settled \/ d \in {d0}
    BY <1>6 DEF Backed
  <2> QED BY <1>1, <1>5, AggregateMeaning DEF TypeInv, TypeOK, RowsThere, DeliveriesOf
<1>8. AggregateBacked(h)'
  BY <1>3, <1>4, <1>6, <1>7 DEF AggregateBacked, At, Row, Backed
<1>9. EventsBacked'
  BY <1>4, BackedStays DEF BackedInv, EventsBacked
<1> QED BY <1>3, <1>8, <1>9, BackedAlone DEF BackedInv

\* The commit makes true what the aggregate said.
LEMMA CommitBacked ==
    ASSUME TypeInv, BackedInv, SettledStays, NEW h \in Handlers, CommitDeadLetter(h)
    PROVE  BackedInv'
<1>1. handler[h].pc = "committing" /\ Row(h) \in Deliveries /\ EventOf[Row(h)] \in Events
  BY RowTypes DEF CommitDeadLetter, At
<1> DEFINE d0 == Row(h)  e0 == EventOf[d0]  agg == handler[h].agg
<1>2. /\ handler'[h].pc = "idle"
      /\ \A g \in Handlers \ {h} : handler'[g] = handler[g]
  BY DEF CommitDeadLetter, Finish, Idle, TypeInv, TypeOK
<1>3. /\ status'[d0] = "failed"
      /\ \A e \in Events : eventStatus'[e] = IF e = e0 THEN agg ELSE eventStatus[e]
  BY <1>1 DEF CommitDeadLetter, TypeInv, TypeOK
<1>4. agg # "delivered" /\ Backed(e0, agg, {d0})
  BY <1>1 DEF BackedInv, AggregateBacked, At
<1>5. EventsBacked'
  <2> SUFFICES ASSUME NEW e \in Events PROVE Backed(e, eventStatus[e], {})'
    BY DEF EventsBacked
  <2>1. CASE e # e0
    <3>1. PICK s : s = eventStatus[e]
      OBVIOUS
    <3>2. Backed(e, s, {})'
      BY <3>1, BackedStays DEF BackedInv, EventsBacked
    <3> QED BY <1>3, <2>1, <3>1, <3>2 DEF Backed
  <2>2. CASE e = e0
    <3>1. eventStatus'[e] = agg /\ Backed(e, agg, {d0})
      BY <1>3, <1>4, <2>2
    <3>2. PICK s : s = agg
      OBVIOUS
    <3>3. PICK sunk : sunk = {d0}
      OBVIOUS
    <3>4. Backed(e, s, sunk)'
      BY <3>1, <3>2, <3>3, BackedStays
    <3>5. \A d \in sunk : status'[d] = "failed"
      BY <1>3, <3>3
    <3>6. Backed(e, s, {})'
      BY <1>4, <3>2, <3>4, <3>5 DEF Backed, Settled
    <3> QED BY <3>1, <3>2, <3>6 DEF Backed
  <2> QED BY <2>1, <2>2
<1>6. AggregateBacked(h)'
  BY <1>2 DEF AggregateBacked, At
<1> QED BY <1>2, <1>5, <1>6, BackedAlone DEF BackedInv

\* What the contract's lemmas know of each step.
Safely == TypeInv /\ RowsThere /\ BackedInv /\ SettledStays

LEMMA BackedHandlerStep ==
    ASSUME Safely, NEW h \in Handlers, HandlerStep(h)
    PROVE  BackedInv'
<1>1. \A g \in Handlers : handler[g] \in HandlerState
  BY DEF Safely, TypeInv, TypeOK
<1>2. CASE LookUp(h)
  <2>1. /\ \A g \in Handlers \ {h} : handler'[g] = handler[g]
        /\ handler'[h].pc \in {"burying", "releasing", "posting"}
    BY <1>1, <1>2 DEF LookUp, Bury, Goto, Safely, TypeInv, TypeOK, HandlerState
  <2> QED BY <1>2, <2>1, BackedQuiet DEF LookUp, Safely
<1>3. ASSUME NEW reply \in Replies, Respond(h, reply) PROVE BackedInv'
  <2>1. /\ \A g \in Handlers \ {h} : handler'[g] = handler[g]
        /\ handler'[h].pc \in {"marking", "acking", "burying", "retrying"}
    BY <1>1, <1>3
       DEF Respond, Bury, Goto, RetryOrBury, Safely, TypeInv, TypeOK, HandlerState
  <2> QED BY <1>3, <2>1, BackedQuiet DEF Respond, Safely
<1>4. CASE MarkAwaitingAck(h) \/ ReleaseToPending(h) \/ ScheduleRetry(h)
  <2>1. Finish(h) /\ UNCHANGED eventStatus
    BY <1>4 DEF MarkAwaitingAck, ReleaseToPending, ScheduleRetry
  <2>2. \A g \in Handlers : handler'[g] = handler[g] \/ handler'[g].pc = "idle"
    BY <2>1 DEF Finish, Idle, Safely, TypeInv, TypeOK
  <2> QED BY <2>1, <2>2, BackedQuiet DEF Safely
<1>5. CASE Acknowledge(h)
  <2>1. /\ \A g \in Handlers \ {h} : handler'[g] = handler[g]
        /\ handler'[h].pc = "aggregating"
    BY <1>1, <1>5 DEF Acknowledge, Goto, Safely, TypeInv, TypeOK, HandlerState
  <2> QED BY <1>5, <2>1, BackedQuiet DEF Acknowledge, Safely
<1> QED BY <1>2, <1>3, <1>4, <1>5, AggregateRowsBacked, SyncBacked, BeginDeadLetterBacked,
           CommitBacked DEF HandlerStep, Safely

\* A claim takes an event nobody has worked on into work, and no other.
LEMMA TakeRowsOpens ==
    ASSUME NEW claimed, TakeRows(claimed)
    PROVE  \A e \in Events : eventStatus'[e] \in {eventStatus[e], "processing"}
BY DEF TakeRows

LEMMA BackedClaim ==
    ASSUME Safely, NEW w \in Workers, Claim(w)
    PROVE  BackedInv'
<1>1. PICK used \in SUBSET FreeSlots(w) \ {{}} :
      \E job \in [used -> Claimable] :
          /\ TakeRows({job[s] : s \in used})
          /\ handler' = [h \in Handlers |->
                           IF h \in used THEN ClaimedJob(job[h]) ELSE handler[h]]
  BY DEF Claim
<1>2. PICK job \in [used -> Claimable] :
          /\ TakeRows({job[s] : s \in used})
          /\ handler' = [h \in Handlers |->
                           IF h \in used THEN ClaimedJob(job[h]) ELSE handler[h]]
  BY <1>1
<1>3. \A h \in Handlers : handler'[h] = handler[h] \/ handler'[h].pc = "lookup"
  BY <1>2 DEF ClaimedJob, Idle
<1> QED BY <1>2, <1>3, TakeRowsOpens, BackedQuiet DEF Safely

LEMMA BackedOthers ==
    ASSUME MaxDbErrors = 0, Safely, [Next]_vars,
           \A w \in Workers : ~Claim(w), \A h \in Handlers : ~HandlerStep(h)
    PROVE  BackedInv'
<1>1. ASSUME NEW hs, Crash(hs) PROVE BackedInv'
  BY <1>1, BackedQuiet DEF Crash, Idle, Safely
<1>2. ASSUME NEW h \in Handlers PROVE ~DbError(h)
  BY DEF DbError, Safely, TypeInv, TypeOK
<1>3. ASSUME NEW a \in ApiCalls, NEW e \in Events, NEW success \in BOOLEAN,
             AcknowledgeEvent(a, e, success)
      PROVE  BackedInv'
  <2>1. /\ \A h \in Handlers \ {a} : handler'[h] = handler[h]
        /\ handler'[a].pc \in {"acking", "burying", "retrying"}
    BY <1>3 DEF AcknowledgeEvent, Handlers, Idle, Safely, TypeInv, TypeOK
  <2> QED BY <1>3, <2>1, BackedQuiet DEF AcknowledgeEvent, Safely
<1>4. ASSUME NEW c \in Consumers, Consume(c) PROVE BackedInv'
  <2>1. PICK claimed \in SUBSET {d \in Claimable : ConsumerOf[d] = c} : TakeRows(claimed)
    BY <1>4 DEF Consume
  <2> QED BY <1>4, <2>1, TakeRowsOpens, BackedQuiet DEF Consume, Safely
<1>5. CASE UNCHANGED <<eventStatus, handler>>
  BY <1>5, BackedQuiet DEF Safely
<1>6. ASSUME NEW c \in Consumers, NEW s \in {"active", "paused", "deleted"}, SetConsumer(c, s)
      PROVE  BackedInv'
  BY <1>5, <1>6 DEF SetConsumer
<1>7. ASSUME NEW d \in Deliveries, Enqueue(d) PROVE BackedInv'
  BY <1>5, <1>7 DEF Enqueue
<1>8. ASSUME NEW expired \in SUBSET Deliveries,
             ResetTimedOutAcks(expired) \/ ReleaseStuckDeliveries(expired)
      PROVE  BackedInv'
  BY <1>5, <1>8 DEF ResetTimedOutAcks, ReleaseStuckDeliveries
<1>9. CASE UNCHANGED vars
  BY <1>5, <1>9 DEF vars
<1> QED BY <1>1, <1>2, <1>3, <1>4, <1>6, <1>7, <1>8, <1>9 DEF Next, WorkerCrash, ApiCrash

\* With orderly timing and no failing call, any number of workers and reports at once and
\* crashes between any two statements included, an event's final status is never ahead of
\* its rows (syncEventStatus, moveToDeadLetter, postgres-queue-engine.ts 153, 205).
THEOREM EventIsNeverAhead ==
    ASSUME ~LateTimers, ~RacingAcks, MaxDbErrors = 0
    PROVE  Spec => []EventNeverAhead
<1>1. Init => LeaseInv /\ ContractInv /\ BackedInv
  <2> SUFFICES ASSUME Init PROVE LeaseInv /\ ContractInv /\ BackedInv
    OBVIOUS
  <2>1. LeaseInv
    BY ConstantsAssumption
       DEF Init, LeaseInv, LeaseIsExclusive, LeaseIsRecorded, HeldRowsLeased, Held, Row, Idle
  <2>2. ContractInv
    BY DEF Init, ContractInv, SettledIsLeft, OpenHasNoLetter, At, Idle
  <2>3. BackedInv
    BY DEF Init, BackedInv, EventsBacked, AggregateBacked, Backed, At, Idle
  <2> QED BY <2>1, <2>2, <2>3
<1>2. TypeInv /\ LeaseInv /\ [Next]_vars => LeaseInv'
  BY LeaseHandlerStep, LeaseClaim, LeaseOthers
<1>3. TypeInv /\ LeaseInv /\ ContractInv /\ [Next]_vars => ContractInv' /\ SettledStays
  BY ContractHandlerStep, ContractClaim, ContractOthers, ConformingKeepsSettled DEF Conforms
<1>4. TypeInv /\ SafeInv /\ SettledStays /\ BackedInv /\ [Next]_vars => BackedInv'
  BY BackedHandlerStep, BackedClaim, BackedOthers DEF SafeInv, Safely
<1>5. BackedInv => EventNeverAhead
  BY DEF BackedInv, EventsBacked, Backed, EventNeverAhead
<1> QED BY <1>1, <1>2, <1>3, <1>4, <1>5, AlwaysSafe, PTL DEF Spec
=============================================================================
