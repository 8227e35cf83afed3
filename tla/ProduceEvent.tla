---------------------------- MODULE ProduceEvent ----------------------------
(***************************************************************************)
(* EventService.produce for one tenant and one topic: the requests the API *)
(* serves at once, each a sequence of statements on the shared database    *)
(* with no transaction around them:                                        *)
(*                                                                         *)
(*   quota check - topic and payload check - idempotency look-up -         *)
(*   INSERT of the event - SELECT of the consumers - one INSERT each       *)
(*                                                                         *)
(* What a request decided on may have changed when it writes.  An event is *)
(* named after the request that inserted it.                               *)
(*                                                                         *)
(* Abstracted: payloads (too big or not), clocks (the calendar month is    *)
(* all the quota looks at), authentication.                                *)
(***************************************************************************)
EXTENDS Naturals, FiniteSets

CONSTANTS
    Requests,           \* the POST /v1/events a client may send
    Keys, NoKey,        \* idempotency keys
    KeyOf,              \* the key a request carries, or NoKey
    Oversized,          \* requests whose payload exceeds the plan's limit
    Consumers,          \* the topic's consumers
    Concurrency,        \* requests the API serves at once
    EventsPerMonth,     \* PLAN_<tier>_EVENTS_PER_MONTH
    FanOutLimit,        \* the 100 of findByTopicId(topic.id, 100, 0)
    NoEvent,
    MaxMonth,           \* bound on calendar months
    MaxScheduled,       \* bound on events the scheduler adds in a month
    MaxFaults           \* bound on crashes and failing database calls

ASSUME ProduceAssumption ==
    /\ NoKey \notin Keys
    /\ KeyOf \in [Requests -> Keys \cup {NoKey}]
    /\ Oversized \subseteq Requests
    /\ IsFiniteSet(Requests)
    /\ IsFiniteSet(Consumers)
    /\ Concurrency \in Nat \ {0}
    /\ EventsPerMonth \in Nat \ {0}
    /\ FanOutLimit \in Nat \ {0}
    /\ NoEvent \notin Requests
    /\ MaxMonth \in Nat \ {0}
    /\ MaxScheduled \in Nat
    /\ MaxFaults \in Nat

VARIABLES
    pc,             \* the call a request makes next
    stamp,          \* month of the Event object a request has built, or 0
    reach,          \* consumers a request has still to enqueue for
    answer,         \* what the client was told
    createdIn,      \* events: the month of created_at, 0 when not inserted
    deliveries,     \* event_deliveries: <<event, consumer>>
    consumerStatus, \* consumers.status, or "deleted"
    topicDeleted, tenantDeleted,
    month,          \* date_trunc('month', now())
    scheduled,      \* events of this month that the scheduler created
    faults,
    shaken          \* history: consumers that were ever paused or deleted

request == <<pc, stamp, reach, answer>>
tables  == <<createdIn, deliveries, scheduled>>
admin   == <<consumerStatus, topicDeleted, tenantDeleted, shaken>>
vars    == <<request, tables, admin, month, faults>>

PCs == {"idle", "limit", "topic", "lookup", "inserting", "consumers", "fanning", "done"}
\* 201; 429; 404; 500; the connection broke.
Codes == {"none", "created", "limit", "missing", "error", "lost"}
ConsumerStatuses == {"active", "paused", "deleted"}

Events   == {e \in Requests : createdIn[e] # 0}
InFlight == {r \in Requests : pc[r] # "idle" /\ answer[r].code = "none"}

Unanswered == [code |-> "none", event |-> NoEvent]

Init ==
    /\ pc = [r \in Requests |-> "idle"]
    /\ stamp = [r \in Requests |-> 0]
    /\ reach = [r \in Requests |-> {}]
    /\ answer = [r \in Requests |-> Unanswered]
    /\ createdIn = [r \in Requests |-> 0]
    /\ deliveries = {}
    /\ consumerStatus = [c \in Consumers |-> "active"]
    /\ topicDeleted = FALSE
    /\ tenantDeleted = FALSE
    /\ month = 1
    /\ scheduled = 0
    /\ faults = 0
    /\ shaken = {}

-----------------------------------------------------------------------------
(* Steps of a request.                                                       *)

Goto(r, next) ==
    /\ pc' = [pc EXCEPT ![r] = next]
    /\ UNCHANGED answer

\* The handler ends and the client is answered.
Answer(r, code, event) ==
    /\ pc' = [pc EXCEPT ![r] = "done"]
    /\ answer' = [answer EXCEPT ![r] = [code |-> code, event |-> event]]

Receive(r) ==
    /\ pc[r] = "idle"
    /\ Cardinality(InFlight) < Concurrency
    /\ Goto(r, "limit")
    /\ UNCHANGED <<stamp, reach, tables, admin, month, faults>>

EventsIn(m) == {e \in Requests : createdIn[e] = m}

\* The scheduler's events count too, though it never asks for the quota.
CountThisMonth == Cardinality(EventsIn(month)) + scheduled

\* Mutant: the event to come is not counted.
WithinLimitUncounted(incoming) == CountThisMonth <= EventsPerMonth

WithinLimit(incoming) == CountThisMonth + incoming <= EventsPerMonth

\* Count and limit are two reads of one Promise.all.  The plan never changes, and
\* a tenant deleted between the two is noticed by the next step's read.
AssertWithinLimit(r) ==
    /\ pc[r] = "limit"
    /\ \/ /\ tenantDeleted
          /\ Answer(r, "missing", NoEvent)
       \/ /\ ~tenantDeleted
          /\ WithinLimit(1)
          /\ Goto(r, "topic")
       \/ /\ ~tenantDeleted
          /\ ~WithinLimit(1)
          /\ Answer(r, "limit", NoEvent)
    /\ UNCHANGED <<stamp, reach, tables, admin, month, faults>>

\* The Event object takes its created_at from the API's clock before the INSERT.
NewEvent(r) == stamp' = [stamp EXCEPT ![r] = month]

CheckTopicAndPayload(r) ==
    /\ pc[r] = "topic"
    /\ \/ /\ topicDeleted \/ tenantDeleted
          /\ Answer(r, "missing", NoEvent)
          /\ UNCHANGED stamp
       \/ /\ ~topicDeleted /\ ~tenantDeleted
          /\ r \in Oversized
          /\ Answer(r, "limit", NoEvent)
          /\ UNCHANGED stamp
       \/ /\ ~topicDeleted /\ ~tenantDeleted
          /\ r \notin Oversized
          /\ KeyOf[r] # NoKey
          /\ Goto(r, "lookup")
          /\ UNCHANGED stamp
       \/ /\ ~topicDeleted /\ ~tenantDeleted
          /\ r \notin Oversized
          /\ KeyOf[r] = NoKey
          /\ Goto(r, "inserting")
          /\ NewEvent(r)
    /\ UNCHANGED <<reach, tables, admin, month, faults>>

FindByIdempotencyKey(k) == {e \in Events : KeyOf[e] = k}

\* An event with the request's key is returned as it is, whatever became of its
\* fan-out.
LookUpKey(r) ==
    /\ pc[r] = "lookup"
    /\ \/ /\ \E e \in FindByIdempotencyKey(KeyOf[r]) : Answer(r, "created", e)
          /\ UNCHANGED stamp
       \/ /\ FindByIdempotencyKey(KeyOf[r]) = {}
          /\ Goto(r, "inserting")
          /\ NewEvent(r)
    /\ UNCHANGED <<reach, tables, admin, month, faults>>

\* Mutant: no unique index.
ViolatesNoKey(r) == FALSE

\* The unique index on (idempotency_key, tenant_id) where the key is not null.
ViolatesUniqueKey(r) ==
    /\ KeyOf[r] # NoKey
    /\ \E e \in Events : KeyOf[e] = KeyOf[r]

\* Mutant: ON CONFLICT DO NOTHING, and on with the fan-out.
CreateEventOrNot(r) ==
    /\ pc[r] = "inserting"
    /\ createdIn' = IF ViolatesUniqueKey(r) THEN createdIn
                    ELSE [createdIn EXCEPT ![r] = stamp[r]]
    /\ Goto(r, "consumers")
    /\ UNCHANGED <<stamp, reach, deliveries, scheduled, admin, month, faults>>

CreateEvent(r) ==
    /\ pc[r] = "inserting"
    /\ \/ /\ ~ViolatesUniqueKey(r)
          /\ createdIn' = [createdIn EXCEPT ![r] = stamp[r]]
          /\ Goto(r, "consumers")
       \/ /\ ViolatesUniqueKey(r)
          /\ Answer(r, "error", NoEvent)
          /\ UNCHANGED createdIn
    /\ UNCHANGED <<stamp, reach, deliveries, scheduled, admin, month, faults>>

\* Up to FanOutLimit rows, in no particular order, the paused ones among them.
FindByTopicId ==
    LET found == {c \in Consumers : consumerStatus[c] # "deleted"}
    IN  {page \in SUBSET found :
            \/ page = found /\ Cardinality(found) <= FanOutLimit
            \/ Cardinality(page) = FanOutLimit}

ReadConsumers(r) ==
    /\ pc[r] = "consumers"
    /\ \E page \in FindByTopicId :
          LET active == {c \in page : consumerStatus[c] = "active"}
          IN  /\ reach' = [reach EXCEPT ![r] = active]
              /\ IF active = {} THEN Answer(r, "created", r) ELSE Goto(r, "fanning")
    /\ UNCHANGED <<stamp, tables, admin, month, faults>>

\* The INSERTs of the fan-out run at once; the last to end answers the client,
\* unless one that failed already has.
EnqueueDelivery(r, c) ==
    /\ pc[r] = "fanning"
    /\ c \in reach[r]
    /\ deliveries' = deliveries \cup {<<r, c>>}
    /\ reach' = [reach EXCEPT ![r] = @ \ {c}]
    /\ \/ reach[r] # {c} /\ Goto(r, "fanning")
       \/ reach[r] = {c} /\ answer[r].code = "none" /\ Answer(r, "created", r)
       \/ reach[r] = {c} /\ answer[r].code # "none" /\ Goto(r, "done")
    /\ UNCHANGED <<stamp, createdIn, scheduled, admin, month, faults>>

\* Mutant: allSettled in place of all: a failed INSERT goes unnoticed.
EnqueueFailsSilently(r, c) ==
    /\ pc[r] = "fanning"
    /\ c \in reach[r]
    /\ reach' = [reach EXCEPT ![r] = @ \ {c}]
    /\ \/ reach[r] # {c} /\ Goto(r, "fanning")
       \/ reach[r] = {c} /\ Answer(r, "created", r)

\* One INSERT throws: Promise.all rejects and the client is answered at once, but
\* the other INSERTs are under way and go on.
EnqueueFails(r, c) ==
    /\ pc[r] = "fanning"
    /\ c \in reach[r]
    /\ reach' = [reach EXCEPT ![r] = @ \ {c}]
    /\ pc' = [pc EXCEPT ![r] = IF reach[r] = {c} THEN "done" ELSE "fanning"]
    /\ answer' = IF answer[r].code = "none"
                 THEN [answer EXCEPT ![r] = [code |-> "error", event |-> NoEvent]]
                 ELSE answer

\* A call before the fan-out throws.
CallFails(r) ==
    /\ pc[r] \in {"limit", "topic", "lookup", "inserting", "consumers"}
    /\ Answer(r, "error", NoEvent)
    /\ UNCHANGED reach

DbError ==
    /\ faults < MaxFaults
    /\ faults' = faults + 1
    /\ \E r \in Requests : CallFails(r) \/ \E c \in Consumers : EnqueueFails(r, c)
    /\ UNCHANGED <<stamp, tables, admin, month>>

\* The API process dies: every request it serves is lost where it stands.
ApiCrash ==
    /\ faults < MaxFaults
    /\ faults' = faults + 1
    /\ pc' = [r \in Requests |-> IF pc[r] = "idle" THEN "idle" ELSE "done"]
    /\ answer' = [r \in Requests |->
                    IF r \in InFlight THEN [code |-> "lost", event |-> NoEvent]
                    ELSE answer[r]]
    /\ reach' = [r \in Requests |-> {}]
    /\ UNCHANGED <<stamp, tables, admin, month>>

-----------------------------------------------------------------------------
(* The others.                                                               *)

\* ConsumerService pauses, resumes or deletes a consumer.
SetConsumer(c, s) ==
    /\ consumerStatus[c] \notin {s, "deleted"}
    /\ consumerStatus' = [consumerStatus EXCEPT ![c] = s]
    /\ shaken' = shaken \cup {c}
    /\ UNCHANGED <<request, tables, topicDeleted, tenantDeleted, month, faults>>

DeleteTopic ==
    /\ ~topicDeleted
    /\ topicDeleted' = TRUE
    /\ UNCHANGED <<request, tables, consumerStatus, tenantDeleted, shaken, month, faults>>

DeleteTenant ==
    /\ ~tenantDeleted
    /\ tenantDeleted' = TRUE
    /\ UNCHANGED <<request, tables, consumerStatus, topicDeleted, shaken, month, faults>>

\* SchedulerService.fire inserts an event of the tenant without asking the quota.
FireSchedule ==
    /\ scheduled < MaxScheduled
    /\ scheduled' = scheduled + 1
    /\ UNCHANGED <<request, createdIn, deliveries, admin, month, faults>>

NextMonth ==
    /\ month < MaxMonth
    /\ month' = month + 1
    /\ scheduled' = 0
    /\ UNCHANGED <<request, createdIn, deliveries, admin, faults>>

RequestStep(r) ==
    \/ Receive(r)
    \/ AssertWithinLimit(r)
    \/ CheckTopicAndPayload(r)
    \/ LookUpKey(r)
    \/ CreateEvent(r)
    \/ ReadConsumers(r)
    \/ \E c \in Consumers : EnqueueDelivery(r, c)

Next ==
    \/ \E r \in Requests : RequestStep(r)
    \/ DbError
    \/ ApiCrash
    \/ \E c \in Consumers, s \in ConsumerStatuses : SetConsumer(c, s)
    \/ DeleteTopic
    \/ DeleteTenant
    \/ FireSchedule
    \/ NextMonth

Spec == Init /\ [][Next]_vars

-----------------------------------------------------------------------------
(* Properties.                                                               *)

Answers == [code : Codes, event : Requests \cup {NoEvent}]

\* Types; a 201 names an event that exists, no other answer names one.
TypeOK ==
    /\ pc \in [Requests -> PCs]
    /\ stamp \in [Requests -> Nat]
    /\ reach \in [Requests -> SUBSET Consumers]
    /\ answer \in [Requests -> Answers]
    /\ \A r \in Requests : answer[r].code # "created" <=> answer[r].event = NoEvent
    /\ \A r \in Requests : answer[r].event \in Events \cup {NoEvent}
    /\ createdIn \in [Requests -> Nat]
    /\ deliveries \subseteq Events \X Consumers
    /\ consumerStatus \in [Consumers -> ConsumerStatuses]
    /\ topicDeleted \in BOOLEAN /\ tenantDeleted \in BOOLEAN
    /\ month \in Nat \ {0}
    /\ scheduled \in Nat
    /\ faults \in Nat
    /\ shaken \subseteq Consumers

\* Requests checked against a count that others raise before they insert: a tenant
\* passes its monthly quota by fewer events than the API serves requests at once
\* (usage.service.ts assertWithinLimit, event.service.ts produce).
QuotaOvershootBounded ==
    Cardinality(EventsIn(month)) <= EventsPerMonth + Concurrency - 1

\* Requests with one idempotency key that are told 201 are told the same event,
\* though look-up and INSERT are two statements (event.service.ts 44, the index of
\* migration 0008).
OneAnswerPerKey ==
    \A q, r \in Requests :
        /\ KeyOf[q] = KeyOf[r] /\ KeyOf[q] # NoKey
        /\ answer[q].code = "created" /\ answer[r].code = "created"
        => answer[q].event = answer[r].event

\* A request told 201 for the event it inserted has enqueued it for every consumer
\* that was active all along, if the topic has no more than FanOutLimit consumers
\* (event.service.ts 63-80).
CreatedMeansFannedOut ==
    Cardinality(Consumers) <= FanOutLimit =>
        \A r \in Requests :
            answer[r].code = "created" /\ answer[r].event = r =>
                \A c \in Consumers \ shaken : <<r, c>> \in deliveries
=============================================================================
