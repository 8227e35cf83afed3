------------------------------- MODULE Tenancy -------------------------------
(***************************************************************************)
(* Many tenants in one set of tables, without row-level security: what     *)
(* keeps them apart is the tenant each repository call reads from an       *)
(* AsyncLocalStorage.  A request starts with an empty store of its own,    *)
(* the JWT or API key middleware writes the tenant into it, and the        *)
(* worker runs each delivery and each schedule of a batch in a store of    *)
(* its own.  All of them interleave in one process, statement by           *)
(* statement.                                                              *)
(*                                                                         *)
(* A request may name any row, another tenant's too: ids come from paths   *)
(* and bodies.  The queue's own statements (claim, outcomes, timers) do    *)
(* not ask for the tenant at all; they rely on the rows they were given.   *)
(*                                                                         *)
(* Abstracted: what rows hold besides their references, who is a valid     *)
(* caller (module Session), the fan-out's limit (module ProduceEvent), how *)
(* a delivery ends (module DeliveryQueue), the mark on a fired schedule or *)
(* a replayed letter (modules Scheduler, DeadLetterReplay).  A letter is   *)
(* named after its delivery.                                               *)
(***************************************************************************)
EXTENDS Naturals, FiniteSets

CONSTANTS
    Tenants, NoTenant,
    Topics, TopicOwner,     \* topics, and the tenant that created each
    Consumers, Schedules, Events, Deliveries,   \* ids rows may get
    FirstOn,                \* topic of a consumer that is there at first, or NoRow
    Tasks,                  \* requests and jobs that run at once
    NoRow

Rows    == Topics \cup Consumers \cup Schedules \cup Events \cup Deliveries
Managed == Topics \cup Consumers        \* rows a request deletes
OnTopic == Consumers \cup Schedules \cup Events

Disjoint(A, B) == A \cap B = {}

ASSUME TenancyAssumption ==
    /\ NoTenant \notin Tenants
    /\ NoRow \notin Rows
    /\ TopicOwner \in [Topics -> Tenants]
    /\ FirstOn \in [Consumers -> Topics \cup {NoRow}]
    /\ Disjoint(Topics, OnTopic) /\ Disjoint(Topics, Deliveries)
    /\ Disjoint(OnTopic, Deliveries)
    /\ Disjoint(Consumers, Events) /\ Disjoint(Schedules, Events)
    /\ Disjoint(Consumers, Schedules)

VARIABLES
    owner,      \* tenant_id of each row, NoTenant before its INSERT
    topicOf,    \* topic_id of consumers, schedules and events
    eventOf, consumerOf,    \* event_id and consumer_id of deliveries
    status,     \* event_deliveries.status
    paused, deleted,        \* consumers that are paused, rows of Managed deleted
    letters,    \* deliveries with a dead letter, whatever became of them since
    pc, op,     \* what each task does next, and on behalf of what
    arg,        \* the row it was asked for
    event,      \* the event it has inserted
    reach,      \* consumers it has still to enqueue for
    identity,   \* the tenant of its token, key or job
    context     \* tenantContextStore.getStore().tenantId as the task sees it

tables == <<owner, topicOf, eventOf, consumerOf, status, paused, deleted, letters>>
work   == <<pc, op, arg, event, reach, identity, context>>
vars   == <<tables, work>>

Requests == {"create", "produce", "change", "consume", "acknowledge", "replay"}
Jobs     == {"fire", "deliver"}
PCs      == {"idle", "anonymous", "find", "insert", "consumers", "enqueue",
             "save", "take", "pick", "settle", "event", "consumer"}
Statuses == {"absent", "pending", "processing", "delivered", "failed"}

\* The rows a request of each kind names.
Named(o) ==
    CASE o \in {"create", "produce"} -> Topics
      [] o = "change"                -> Managed
      [] o = "consume"               -> Consumers
      [] o = "acknowledge"           -> Events
      [] o = "replay"                -> Deliveries

Init ==
    /\ topicOf = [r \in OnTopic |-> IF r \in Consumers THEN FirstOn[r] ELSE NoRow]
    /\ owner = [r \in Rows |->
                  CASE r \in Topics -> TopicOwner[r]
                    [] r \in Consumers /\ FirstOn[r] # NoRow -> TopicOwner[FirstOn[r]]
                    [] OTHER -> NoTenant]
    /\ eventOf = [d \in Deliveries |-> NoRow]
    /\ consumerOf = [d \in Deliveries |-> NoRow]
    /\ status = [d \in Deliveries |-> "absent"]
    /\ paused = {} /\ deleted = {} /\ letters = {}
    /\ pc = [x \in Tasks |-> "idle"]
    /\ op = [x \in Tasks |-> "none"]
    /\ arg = [x \in Tasks |-> NoRow]
    /\ event = [x \in Tasks |-> NoRow]
    /\ reach = [x \in Tasks |-> {}]
    /\ identity = [x \in Tasks |-> NoTenant]
    /\ context = [x \in Tasks |-> NoTenant]

-----------------------------------------------------------------------------
(* Contexts.                                                                 *)

\* Mutant: one store for the process, as a module variable would be.
InSharedContext(x, t) == context' = [y \in Tasks |-> t]

\* run({ tenantId }, ...), and the middleware's assignment to the store it is given.
InContext(x, t) == context' = [context EXCEPT ![x] = t]

Goto(x, next) ==
    /\ pc' = [pc EXCEPT ![x] = next]
    /\ UNCHANGED <<op, arg, event, reach, identity, context>>

\* The store goes with its task.
Finish(x) ==
    /\ pc' = [pc EXCEPT ![x] = "idle"]
    /\ op' = [op EXCEPT ![x] = "none"]
    /\ arg' = [arg EXCEPT ![x] = NoRow]
    /\ event' = [event EXCEPT ![x] = NoRow]
    /\ reach' = [reach EXCEPT ![x] = {}]
    /\ identity' = [identity EXCEPT ![x] = NoTenant]
    /\ context' = [context EXCEPT ![x] = NoTenant]

\* A task starts at pc `first`, for tenant t, in a store of its own.
Begin(x, o, row, t, first) ==
    /\ pc[x] = "idle"
    /\ pc' = [pc EXCEPT ![x] = first]
    /\ op' = [op EXCEPT ![x] = o]
    /\ arg' = [arg EXCEPT ![x] = row]
    /\ identity' = [identity EXCEPT ![x] = t]
    /\ InContext(x, t)
    /\ UNCHANGED <<event, reach>>

\* The onRequest hook.  What the caller asks for is settled with who it is: nothing
\* looks at it before.
Receive(x) ==
    /\ Begin(x, "none", NoRow, NoTenant, "anonymous")
    /\ UNCHANGED tables

\* jwtMiddleware and apiKeyMiddleware: whoever the caller is, the store gets its
\* tenant.
Authenticate(x, t, o, row) ==
    /\ pc[x] = "anonymous"
    /\ row \in Named(o)
    /\ pc' = [pc EXCEPT ![x] = IF o = "acknowledge" THEN "pick" ELSE "find"]
    /\ op' = [op EXCEPT ![x] = o]
    /\ arg' = [arg EXCEPT ![x] = row]
    /\ identity' = [identity EXCEPT ![x] = t]
    /\ InContext(x, t)
    /\ UNCHANGED <<tables, event, reach>>

\* processDueSchedules reads the schedules of all tenants.
FireJob(x, s) ==
    /\ owner[s] # NoTenant
    /\ Begin(x, "fire", s, owner[s], "insert")
    /\ UNCHANGED tables

\* claim takes the rows of all tenants.
ClaimJob(x, d) ==
    /\ status[d] = "pending"
    /\ status' = [status EXCEPT ![d] = "processing"]
    /\ Begin(x, "deliver", d, owner[d], "event")
    /\ UNCHANGED <<owner, topicOf, eventOf, consumerOf, paused, deleted, letters>>

-----------------------------------------------------------------------------
(* Statements of a task.                                                     *)

\* Mutant: requiredFilters without the tenant.
VisibleToAll(x, row) == owner[row] # NoTenant /\ row \notin deleted

\* requiredFilters of the repository the row belongs to.
Visible(x, row) ==
    /\ context[x] # NoTenant
    /\ owner[row] = context[x]
    /\ row \notin deleted

\* findById of what the request names; null is answered with 404.
Find(x) ==
    /\ pc[x] = "find"
    /\ \/ /\ Visible(x, arg[x])
          /\ op[x] = "replay" => arg[x] \in letters
          /\ Goto(x, CASE op[x] \in {"create", "produce"} -> "insert"
                       [] op[x] = "change"                -> "save"
                       [] op[x] = "consume"               -> "take"
                       [] op[x] = "replay"                -> "consumer")
       \/ /\ ~Visible(x, arg[x])
          /\ Finish(x)
    /\ UNCHANGED tables

\* The row carries the request's tenant, not the context's: EntityKey.create.
NewRow(x, row) ==
    /\ owner[row] = NoTenant
    /\ owner' = [owner EXCEPT ![row] = identity[x]]

\* A consumer or a schedule on the topic that was found.
InsertChild(x, row) ==
    /\ pc[x] = "insert" /\ op[x] = "create"
    /\ row \in Consumers \cup Schedules
    /\ NewRow(x, row)
    /\ topicOf' = [topicOf EXCEPT ![row] = arg[x]]
    /\ Finish(x)
    /\ UNCHANGED <<eventOf, consumerOf, status, paused, deleted, letters>>

\* A schedule's topic is not looked up again when it fires.
TopicFor(x) == IF op[x] = "fire" THEN topicOf[arg[x]] ELSE arg[x]

InsertEvent(x, e) ==
    /\ pc[x] = "insert" /\ op[x] \in {"produce", "fire"}
    /\ NewRow(x, e)
    /\ topicOf' = [topicOf EXCEPT ![e] = TopicFor(x)]
    /\ pc' = [pc EXCEPT ![x] = "consumers"]
    /\ event' = [event EXCEPT ![x] = e]
    /\ UNCHANGED <<eventOf, consumerOf, status, paused, deleted, letters>>
    /\ UNCHANGED <<op, arg, reach, identity, context>>

\* findByTopicId: the scheduler enqueues for paused consumers too.
Subscribed(x) ==
    {c \in Consumers : /\ topicOf[c] = TopicFor(x)
                       /\ Visible(x, c)
                       /\ op[x] = "produce" => c \notin paused}

ReadConsumers(x) ==
    /\ pc[x] = "consumers"
    /\ \/ /\ Subscribed(x) # {}
          /\ reach' = [reach EXCEPT ![x] = Subscribed(x)]
          /\ pc' = [pc EXCEPT ![x] = "enqueue"]
          /\ UNCHANGED <<op, arg, event, identity, context>>
       \/ /\ Subscribed(x) = {}
          /\ Finish(x)
    /\ UNCHANGED tables

\* queue.enqueue of one delivery of the fan-out.
Enqueue(x, c, d) ==
    /\ pc[x] = "enqueue" /\ op[x] \in {"produce", "fire"}
    /\ c \in reach[x]
    /\ NewRow(x, d)
    /\ eventOf' = [eventOf EXCEPT ![d] = event[x]]
    /\ consumerOf' = [consumerOf EXCEPT ![d] = c]
    /\ status' = [status EXCEPT ![d] = "pending"]
    /\ \/ /\ reach[x] # {c}
          /\ reach' = [reach EXCEPT ![x] = @ \ {c}]
          /\ UNCHANGED <<pc, op, arg, event, identity, context>>
       \/ /\ reach[x] = {c}
          /\ Finish(x)
    /\ UNCHANGED <<topicOf, paused, deleted, letters>>

\* A replayed letter's delivery takes tenant, event and consumer from the letter.
EnqueueReplay(x, d) ==
    /\ pc[x] = "enqueue" /\ op[x] = "replay"
    /\ owner[d] = NoTenant
    /\ owner' = [owner EXCEPT ![d] = owner[arg[x]]]
    /\ eventOf' = [eventOf EXCEPT ![d] = eventOf[arg[x]]]
    /\ consumerOf' = [consumerOf EXCEPT ![d] = consumerOf[arg[x]]]
    /\ status' = [status EXCEPT ![d] = "pending"]
    /\ Finish(x)
    /\ UNCHANGED <<topicOf, paused, deleted, letters>>

\* UPDATE ... WHERE id = ... AND tenant_id = ...: pause, resume or delete.
Save(x) ==
    /\ pc[x] = "save"
    /\ \/ /\ owner[arg[x]] = context[x]
          /\ \/ arg[x] \in Consumers /\ paused' = paused \cup {arg[x]} /\ UNCHANGED deleted
             \/ arg[x] \in Consumers /\ paused' = paused \ {arg[x]} /\ UNCHANGED deleted
             \/ deleted' = deleted \cup {arg[x]} /\ UNCHANGED paused
       \/ /\ owner[arg[x]] # context[x]
          /\ UNCHANGED <<paused, deleted>>
    /\ Finish(x)
    /\ UNCHANGED <<owner, topicOf, eventOf, consumerOf, status, letters>>

\* Mutant: whatever is due, as the workers' claim takes it.
TakeOfAny(x) ==
    /\ pc[x] = "take"
    /\ status' = [d \in Deliveries |->
                    IF status[d] = "pending" THEN "processing" ELSE status[d]]
    /\ Finish(x)
    /\ UNCHANGED <<owner, topicOf, eventOf, consumerOf, paused, deleted, letters>>

\* claimForConsumer, with the request's tenant.
Take(x) ==
    /\ pc[x] = "take"
    /\ status' = [d \in Deliveries |->
                    IF /\ status[d] = "pending"
                       /\ consumerOf[d] = arg[x]
                       /\ owner[d] = identity[x]
                    THEN "processing" ELSE status[d]]
    /\ Finish(x)
    /\ UNCHANGED <<owner, topicOf, eventOf, consumerOf, paused, deleted, letters>>

\* acknowledge: the rows of the event that somebody works on, by findByEventId.
AtWork(x) == {d \in Deliveries : /\ eventOf[d] = arg[x]
                                 /\ Visible(x, d)
                                 /\ status[d] = "processing"}

Pick(x) ==
    /\ pc[x] = "pick"
    /\ \/ \E d \in AtWork(x) :
             /\ arg' = [arg EXCEPT ![x] = d]
             /\ pc' = [pc EXCEPT ![x] = "settle"]
             /\ UNCHANGED <<op, event, reach, identity, context>>
       \/ /\ AtWork(x) = {}
          /\ Finish(x)
    /\ UNCHANGED tables

\* A failed delivery gets its letter in the transaction that fails it.
Becomes(d, s) ==
    /\ status' = [status EXCEPT ![d] = s]
    /\ letters' = IF s = "failed" THEN letters \cup {d} ELSE letters

\* An outcome: the queue's UPDATEs name the row and no tenant.
Settle(x, s) ==
    /\ pc[x] = "settle"
    /\ s \in {"pending", "delivered", "failed"}
    /\ Becomes(arg[x], s)
    /\ Finish(x)
    /\ UNCHANGED <<owner, topicOf, eventOf, consumerOf, paused, deleted>>

\* deliver: a job that does not find its event returns, and says nothing.
FindEvent(x) ==
    /\ pc[x] = "event"
    /\ \/ Visible(x, eventOf[arg[x]]) /\ Goto(x, "consumer")
       \/ ~Visible(x, eventOf[arg[x]]) /\ Finish(x)
    /\ UNCHANGED tables

\* replay and deliver: a deleted consumer is a 404 to one, a dead letter to the other.
FindConsumer(x) ==
    /\ pc[x] = "consumer"
    /\ \/ /\ Visible(x, consumerOf[arg[x]])
          /\ Goto(x, IF op[x] = "replay" THEN "enqueue" ELSE "settle")
          /\ UNCHANGED <<status, letters>>
       \/ /\ ~Visible(x, consumerOf[arg[x]])
          /\ IF op[x] = "deliver" THEN Becomes(arg[x], "failed")
             ELSE UNCHANGED <<status, letters>>
          /\ Finish(x)
    /\ UNCHANGED <<owner, topicOf, eventOf, consumerOf, paused, deleted>>

\* A call throws, a client is refused, a process dies.
Lose(x) ==
    /\ pc[x] # "idle"
    /\ Finish(x)
    /\ UNCHANGED tables

\* releaseStuckDeliveries and resetTimedOutAcks: of all tenants.
Release(d) ==
    /\ status[d] = "processing"
    /\ status' = [status EXCEPT ![d] = "pending"]
    /\ UNCHANGED <<owner, topicOf, eventOf, consumerOf, paused, deleted, letters, work>>

RequestStep(x) ==
    \/ Receive(x)
    \/ \E t \in Tenants, o \in Requests, row \in Rows : Authenticate(x, t, o, row)
    \/ Find(x)
    \/ \E row \in Rows : InsertChild(x, row)
    \/ Save(x)
    \/ Take(x)
    \/ Pick(x)
    \/ \E d \in Deliveries : EnqueueReplay(x, d)

JobStep(x) ==
    \/ \E s \in Schedules : FireJob(x, s)
    \/ \E d \in Deliveries : ClaimJob(x, d)
    \/ FindEvent(x)

SharedStep(x) ==
    \/ \E e \in Events : InsertEvent(x, e)
    \/ ReadConsumers(x)
    \/ \E c \in Consumers, d \in Deliveries : Enqueue(x, c, d)
    \/ \E s \in Statuses : Settle(x, s)
    \/ FindConsumer(x)
    \/ Lose(x)

Next ==
    \/ \E x \in Tasks : RequestStep(x) \/ JobStep(x) \/ SharedStep(x)
    \/ \E d \in Deliveries : Release(d)

Spec == Init /\ [][Next]_vars

-----------------------------------------------------------------------------
(* Properties.                                                               *)

\* Types.
TypeOK ==
    /\ owner \in [Rows -> Tenants \cup {NoTenant}]
    /\ topicOf \in [OnTopic -> Topics \cup {NoRow}]
    /\ eventOf \in [Deliveries -> Events \cup {NoRow}]
    /\ consumerOf \in [Deliveries -> Consumers \cup {NoRow}]
    /\ status \in [Deliveries -> Statuses]
    /\ paused \subseteq Consumers /\ deleted \subseteq Managed
    /\ letters \subseteq Deliveries
    /\ pc \in [Tasks -> PCs]
    /\ op \in [Tasks -> Requests \cup Jobs \cup {"none"}]
    /\ arg \in [Tasks -> Rows \cup {NoRow}]
    /\ event \in [Tasks -> Events \cup {NoRow}]
    /\ reach \in [Tasks -> SUBSET Consumers]
    /\ identity \in [Tasks -> Tenants \cup {NoTenant}]
    /\ context \in [Tasks -> Tenants \cup {NoTenant}]

\* A row that is there, and the row it refers to, have one tenant.
SameTenant(row, parent) ==
    owner[row] # NoTenant => parent # NoRow /\ owner[parent] = owner[row]

\* No row refers to another tenant's row, whatever ids requests name and however
\* requests and jobs interleave: consumers, schedules and events to their topic,
\* deliveries to their event and consumer.  The foreign keys of the schema do not
\* see to it; the look-ups before each INSERT do.
ReferencesStayHome ==
    /\ \A r \in OnTopic : SameTenant(r, topicOf[r])
    /\ \A d \in Deliveries : SameTenant(d, eventOf[d]) /\ SameTenant(d, consumerOf[d])

\* A job finds the event it was claimed for: delivery-service.ts:64 returns without
\* an outcome when it does not, and the row would go round for ever.
JobsSeeTheirEvent ==
    \A x \in Tasks : pc[x] = "event" => Visible(x, eventOf[arg[x]])

Acts(x) == pc'[x] # pc[x] \/ reach'[x] # reach[x]

Touched(r) ==
    \/ owner'[r] # owner[r]
    \/ r \in Deliveries /\ status'[r] # status[r]
    \/ r \in Consumers /\ (r \in paused' <=> r \notin paused)
    \/ r \in Managed /\ (r \in deleted' <=> r \notin deleted)

\* Whatever a request or a job writes belongs to the tenant it was authenticated as,
\* or whose delivery or schedule it runs, also through the queue's statements, which
\* do not ask (postgres-queue-engine.ts 119-203).
WritesStayHome ==
    [][\A x \in Tasks : Acts(x) =>
          \A r \in Rows : Touched(r) =>
              owner'[r] = IF pc[x] = "idle" THEN identity'[x] ELSE identity[x]]_vars
=============================================================================
