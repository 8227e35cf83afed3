--------------------------- MODULE ProducersProofs ---------------------------
(***************************************************************************)
(* What the two routes of the API that add deliveries promise, and the     *)
(* checksum that goes with a payload.                                      *)
(*                                                                         *)
(* POST /v1/events (ProduceEvent), for any number of requests, keys and    *)
(* consumers: the quota is passed by less than the API serves at once, one *)
(* idempotency key has one answer, and 201 means fanned out.  Each rests   *)
(* on a count or a fact that a request carries from statement to statement *)
(* while the others write: what it passed the quota for, the row that the  *)
(* unique index guards, the consumers it has still to reach.               *)
(*                                                                         *)
(* The replay of a dead letter (DeadLetterReplay), for any number of       *)
(* deliveries, consumers and operators: a letter that reads replayed has a *)
(* delivery of its own, and there are no more copies of it than operators  *)
(* race or die.  A request that died after its INSERT leaves a copy and no *)
(* mark, and the next look-up lets another one in: each such copy is paid  *)
(* by a fault.  Those that were let in before the mark are operators of    *)
(* their own.                                                              *)
(*                                                                         *)
(* The checksum of a payload (PayloadChecksum), for any orders of keys and *)
(* documents of any depth: what decides is the value.  In a sorted list an *)
(* entry is where the count of those before it says, so a list that was    *)
(* sorted depends on the set of its entries only, and has the same set.    *)
(* Object by object that makes the canonical text one for documents of one *)
(* value and for no others, and no pass on the way changes the value.      *)
(***************************************************************************)
EXTENDS MCProducers, SequenceTheorems, FiniteSetTheorems, TLAPS

USE ProduceAssumption

-----------------------------------------------------------------------------
(* POST /v1/events: the inductive invariant.                                 *)

\* Where a request is with its event and its answer.
RequestOK(r) ==
    /\ pc[r] \notin {"fanning", "done"} => answer[r] = Unanswered
    /\ pc[r] = "fanning" => answer[r].code \in {"none", "error"}
    /\ pc[r] = "done" => answer[r].code # "none"
    /\ pc[r] \in {"idle", "limit", "topic", "lookup", "inserting"} => createdIn[r] = 0
    /\ pc[r] \in {"consumers", "fanning"} => createdIn[r] # 0
    /\ pc[r] = "inserting" => stamp[r] \in 1 .. month
    /\ createdIn[r] <= month

\* What TypeOK says of the answers, and of the rest.
AnswersOK ==
    /\ answer \in [Requests -> Answers]
    /\ \A r \in Requests : answer[r].code # "created" <=> answer[r].event = NoEvent
    /\ \A r \in Requests : answer[r].event \in Events \cup {NoEvent}

RestOK ==
    /\ pc \in [Requests -> PCs]
    /\ stamp \in [Requests -> Nat]
    /\ reach \in [Requests -> SUBSET Consumers]
    /\ createdIn \in [Requests -> Nat]
    /\ deliveries \subseteq Events \X Consumers
    /\ consumerStatus \in [Consumers -> ConsumerStatuses]
    /\ topicDeleted \in BOOLEAN /\ tenantDeleted \in BOOLEAN
    /\ month \in Nat \ {0}
    /\ scheduled \in Nat
    /\ faults \in Nat
    /\ shaken \subseteq Consumers

RequestsOK == AnswersOK /\ RestOK /\ \A r \in Requests : RequestOK(r)

\* What the unique index guards, and what the look-up and the INSERT make of it.
KeysUnique == \A e, f \in Events : KeyOf[e] = KeyOf[f] /\ KeyOf[e] # NoKey => e = f

AnswersHaveTheKey ==
    \A r \in Requests : answer[r].code = "created" => KeyOf[answer[r].event] = KeyOf[r]

KeysInv == RequestsOK /\ KeysUnique /\ AnswersHaveTheKey

\* Who was never paused or deleted is active; the fan-out of such a topic, while no
\* INSERT failed, has reached each of them or will.
UnshakenIsActive == \A c \in Consumers \ shaken : consumerStatus[c] = "active"

ReachesAll ==
    Cardinality(Consumers) <= FanOutLimit =>
        \A r \in Requests :
            pc[r] = "fanning" /\ answer[r].code = "none" =>
                \A c \in Consumers \ shaken : c \in reach[r] \/ <<r, c>> \in deliveries

FanOutInv == RequestsOK /\ UnshakenIsActive /\ ReachesAll /\ CreatedMeansFannedOut

\* Requests that passed the quota and have still to insert.
Passed == {r \in Requests : pc[r] \in {"topic", "lookup", "inserting"}}

\* The events of the month and those to come never pass the quota by more than
\* the requests that were in flight when the last one was let through.
QuotaInv ==
    /\ RequestsOK
    /\ Cardinality(InFlight) <= Concurrency
    /\ Cardinality(EventsIn(month)) + Cardinality(Passed) <= EventsPerMonth + Concurrency - 1

-----------------------------------------------------------------------------
(* Types, and where each request is.                                         *)

\* An event stays where it is inserted.
EventsStay == \A e \in Requests : createdIn[e] # 0 => (createdIn')[e] # 0

LEMMA AnswerKeeps ==
    ASSUME AnswersOK, EventsStay,
           NEW r \in Requests, NEW code \in Codes, NEW event \in Events \cup {NoEvent},
           code # "created" <=> event = NoEvent,
           Answer(r, code, event)
    PROVE  AnswersOK'
<1>1. event \in Requests \cup {NoEvent}
  BY DEF Events
<1>2. (answer \in [Requests -> Answers])'
  BY <1>1 DEF AnswersOK, Answer, Answers
<1>3. \A q \in Requests : (answer')[q] = IF q = r THEN [code |-> code, event |-> event]
                                         ELSE answer[q]
  BY DEF AnswersOK, Answer
<1>4. (\A q \in Requests : answer[q].code # "created" <=> answer[q].event = NoEvent)'
  BY <1>3 DEF AnswersOK
<1>5. (\A q \in Requests : answer[q].event \in Events \cup {NoEvent})'
  BY <1>3 DEF AnswersOK, EventsStay, Events
<1> QED BY <1>2, <1>4, <1>5 DEF AnswersOK

LEMMA SilenceKeeps ==
    ASSUME AnswersOK, EventsStay, UNCHANGED answer
    PROVE  AnswersOK'
BY DEF AnswersOK, EventsStay, Events

LEMMA ReceiveKeeps ==
    ASSUME NEW r \in Requests, RequestsOK, Receive(r)
    PROVE  RequestsOK'
<1>1. EventsStay
  BY DEF RequestsOK, RestOK, RequestOK, EventsStay, Receive, tables
<1>2. AnswersOK'
  BY <1>1, AnswerKeeps, SilenceKeeps DEF RequestsOK, RequestOK, Receive, Goto, Codes
<1>3. RestOK'
  BY DEF RequestsOK, RequestOK, RestOK, Receive, Goto, Answer, tables, admin, Events,
     PCs
<1>4. \A q \in Requests : RequestOK(q)'
  BY DEF RequestsOK, RequestOK, AnswersOK, RestOK, Receive, Goto, Answer, tables, admin
<1> QED BY <1>2, <1>3, <1>4 DEF RequestsOK

LEMMA AssertWithinLimitKeeps ==
    ASSUME NEW r \in Requests, RequestsOK, AssertWithinLimit(r)
    PROVE  RequestsOK'
<1>1. EventsStay
  BY DEF RequestsOK, RestOK, RequestOK, EventsStay, AssertWithinLimit, tables
<1>2. AnswersOK'
  BY <1>1, AnswerKeeps, SilenceKeeps DEF RequestsOK, RequestOK, AssertWithinLimit, Goto,
     Codes
<1>3. RestOK'
  BY DEF RequestsOK, RequestOK, RestOK, AssertWithinLimit, Goto, Answer, tables, admin,
     Events, PCs
<1>4. \A q \in Requests : RequestOK(q)'
  BY DEF RequestsOK, RequestOK, AnswersOK, RestOK, AssertWithinLimit, Goto, Answer,
     tables, admin
<1> QED BY <1>2, <1>3, <1>4 DEF RequestsOK

LEMMA CheckTopicKeeps ==
    ASSUME NEW r \in Requests, RequestsOK, CheckTopicAndPayload(r)
    PROVE  RequestsOK'
<1>1. EventsStay
  BY DEF RequestsOK, RestOK, RequestOK, EventsStay, CheckTopicAndPayload, tables
<1>2. AnswersOK'
  BY <1>1, AnswerKeeps, SilenceKeeps DEF RequestsOK, RequestOK, CheckTopicAndPayload,
     Goto, Codes
<1>3. RestOK'
  BY DEF RequestsOK, RequestOK, RestOK, CheckTopicAndPayload, Goto, Answer, NewEvent,
     tables, admin, Events, PCs
<1>4. \A q \in Requests : RequestOK(q)'
  BY DEF RequestsOK, RequestOK, AnswersOK, RestOK, CheckTopicAndPayload, Goto, Answer,
     NewEvent, tables, admin
<1> QED BY <1>2, <1>3, <1>4 DEF RequestsOK

LEMMA LookUpKeyKeeps ==
    ASSUME NEW r \in Requests, RequestsOK, LookUpKey(r)
    PROVE  RequestsOK'
<1>1. EventsStay
  BY DEF RequestsOK, RestOK, RequestOK, EventsStay, LookUpKey, tables
<1>2. AnswersOK'
  BY <1>1, AnswerKeeps, SilenceKeeps DEF RequestsOK, RequestOK, LookUpKey, Goto, Codes,
     FindByIdempotencyKey, Events
<1>3. RestOK'
  BY DEF RequestsOK, RequestOK, RestOK, LookUpKey, Goto, Answer, NewEvent, tables,
     admin, Events, PCs
<1>4. \A q \in Requests : RequestOK(q)'
  BY DEF RequestsOK, RequestOK, AnswersOK, RestOK, LookUpKey, Goto, Answer, NewEvent,
     tables, admin
<1> QED BY <1>2, <1>3, <1>4 DEF RequestsOK

LEMMA CreateEventKeeps ==
    ASSUME NEW r \in Requests, RequestsOK, CreateEvent(r)
    PROVE  RequestsOK'
<1>1. EventsStay
  BY DEF RequestsOK, RestOK, RequestOK, EventsStay, CreateEvent
<1>2. AnswersOK'
  BY <1>1, AnswerKeeps, SilenceKeeps DEF RequestsOK, RequestOK, CreateEvent, Goto, Codes
<1>3. RestOK'
  BY DEF RequestsOK, RequestOK, RestOK, CreateEvent, Goto, Answer, admin, Events, PCs
<1>4. \A q \in Requests : RequestOK(q)'
  BY DEF RequestsOK, RequestOK, AnswersOK, RestOK, CreateEvent, Goto, Answer, admin
<1> QED BY <1>2, <1>3, <1>4 DEF RequestsOK

LEMMA ReadConsumersKeeps ==
    ASSUME NEW r \in Requests, RequestsOK, ReadConsumers(r)
    PROVE  RequestsOK'
<1>1. PICK page \in FindByTopicId :
        LET active == {c \in page : consumerStatus[c] = "active"}
        IN  /\ reach' = [reach EXCEPT ![r] = active]
            /\ IF active = {} THEN Answer(r, "created", r) ELSE Goto(r, "fanning")
  BY DEF ReadConsumers
<1>2. page \subseteq Consumers
  BY DEF FindByTopicId
<1>3. EventsStay
  BY DEF RequestsOK, RestOK, RequestOK, EventsStay, ReadConsumers, tables
<1>4. AnswersOK'
  BY <1>1, <1>3, AnswerKeeps, SilenceKeeps DEF RequestsOK, RequestOK, ReadConsumers,
     Goto, Codes, Events
<1>5. RestOK'
  BY <1>1, <1>2 DEF RequestsOK, RequestOK, RestOK, ReadConsumers, Goto, Answer, tables,
     admin, Events, PCs
<1>6. \A q \in Requests : RequestOK(q)'
  BY <1>1 DEF RequestsOK, RequestOK, AnswersOK, RestOK, ReadConsumers, Goto, Answer,
     Unanswered, tables, admin
<1> QED BY <1>4, <1>5, <1>6 DEF RequestsOK

LEMMA EnqueueKeeps ==
    ASSUME NEW r \in Requests, NEW c \in Consumers, RequestsOK, EnqueueDelivery(r, c)
    PROVE  RequestsOK'
<1>1. EventsStay
  BY DEF RequestsOK, RestOK, RequestOK, EventsStay, EnqueueDelivery
<1>2. AnswersOK'
  BY <1>1, AnswerKeeps, SilenceKeeps DEF RequestsOK, RequestOK, EnqueueDelivery, Goto,
     Codes, Events
<1>3. RestOK'
  BY DEF RequestsOK, RequestOK, RestOK, EnqueueDelivery, Goto, Answer, admin, Events,
     PCs
<1>4. \A q \in Requests : RequestOK(q)'
  BY DEF RequestsOK, RequestOK, AnswersOK, RestOK, EnqueueDelivery, Goto, Answer,
     Unanswered, admin
<1> QED BY <1>2, <1>3, <1>4 DEF RequestsOK

LEMMA CallFailsKeeps ==
    ASSUME NEW r \in Requests, RequestsOK, DbError, CallFails(r)
    PROVE  RequestsOK'
<1>1. EventsStay
  BY DEF RequestsOK, RestOK, EventsStay, DbError, tables
<1>2. AnswersOK'
  BY <1>1, AnswerKeeps DEF RequestsOK, CallFails, Codes
<1>3. RestOK'
  BY DEF RequestsOK, RestOK, DbError, CallFails, Answer, tables, admin, Events, PCs
<1>4. \A q \in Requests : RequestOK(q)'
  BY DEF RequestsOK, RequestOK, AnswersOK, RestOK, DbError, CallFails, Answer, tables, admin
<1> QED BY <1>2, <1>3, <1>4 DEF RequestsOK

LEMMA EnqueueFailsKeeps ==
    ASSUME NEW r \in Requests, NEW c \in Consumers, RequestsOK, DbError, EnqueueFails(r, c)
    PROVE  RequestsOK'
<1>1. EventsStay
  BY DEF RequestsOK, RestOK, EventsStay, DbError, tables
<1>2. AnswersOK'
  BY <1>1, AnswerKeeps, SilenceKeeps, [code |-> "error", event |-> NoEvent] \in Answers
     DEF RequestsOK, AnswersOK, EventsStay, EnqueueFails, Answers, Codes, Events
<1>3. RestOK'
  BY DEF RequestsOK, RestOK, DbError, EnqueueFails, tables, admin, Events, PCs
<1>4. \A q \in Requests : RequestOK(q)'
  BY DEF RequestsOK, RequestOK, AnswersOK, RestOK, DbError, EnqueueFails, tables, admin
<1> QED BY <1>2, <1>3, <1>4 DEF RequestsOK

LEMMA ApiCrashKeeps ==
    ASSUME RequestsOK, ApiCrash
    PROVE  RequestsOK'
<1>1. AnswersOK'
  BY DEF RequestsOK, AnswersOK, ApiCrash, InFlight, Answers, Codes, tables, Events
<1>2. RestOK'
  BY DEF RequestsOK, RestOK, ApiCrash, tables, admin, Events, PCs
<1>3. \A q \in Requests : RequestOK(q)'
  BY DEF RequestsOK, RequestOK, AnswersOK, RestOK, ApiCrash, InFlight, tables, admin,
         Unanswered, PCs
<1> QED BY <1>1, <1>2, <1>3 DEF RequestsOK

\* The steps of the others change no request, and move the month forward if at all.
OtherStep ==
    \/ \E c \in Consumers, s \in ConsumerStatuses : SetConsumer(c, s)
    \/ DeleteTopic
    \/ DeleteTenant
    \/ FireSchedule
    \/ NextMonth
    \/ UNCHANGED vars

LEMMA OtherStepIs ==
    ASSUME RequestsOK, OtherStep
    PROVE  /\ UNCHANGED <<request, createdIn, deliveries>>
           /\ month \in Nat /\ month' \in Nat \ {0} /\ month' >= month
BY DEF RequestsOK, RestOK, OtherStep, SetConsumer, DeleteTopic, DeleteTenant, FireSchedule,
       NextMonth, vars, tables, admin

LEMMA OthersKeep ==
    ASSUME RequestsOK, OtherStep
    PROVE  RequestsOK'
<1>1. AnswersOK'
  BY OtherStepIs DEF RequestsOK, AnswersOK, request, Events
<1>2. RestOK'
  <2>1. (deliveries \subseteq Events \X Consumers)'
    BY OtherStepIs DEF RequestsOK, RestOK, Events
  <2>2. (consumerStatus \in [Consumers -> ConsumerStatuses] /\ shaken \subseteq Consumers)'
    BY DEF RequestsOK, RestOK, OtherStep, SetConsumer, DeleteTopic, DeleteTenant,
           FireSchedule, NextMonth, vars, admin
  <2>3. (topicDeleted \in BOOLEAN /\ tenantDeleted \in BOOLEAN)'
    BY DEF RequestsOK, RestOK, OtherStep, SetConsumer, DeleteTopic, DeleteTenant,
           FireSchedule, NextMonth, vars, admin
  <2>4. (scheduled \in Nat /\ faults \in Nat)'
    BY DEF RequestsOK, RestOK, OtherStep, SetConsumer, DeleteTopic, DeleteTenant,
           FireSchedule, NextMonth, vars, tables
  <2> QED BY <2>1, <2>2, <2>3, <2>4, OtherStepIs DEF RequestsOK, RestOK, request
<1>3. \A q \in Requests : RequestOK(q)'
  BY OtherStepIs DEF RequestsOK, RestOK, RequestOK, request
<1> QED BY <1>1, <1>2, <1>3 DEF RequestsOK

LEMMA StepIs ==
    ASSUME [Next]_vars
    PROVE  \/ \E r \in Requests : RequestStep(r)
           \/ \E r \in Requests : DbError /\ CallFails(r)
           \/ \E r \in Requests, c \in Consumers : DbError /\ EnqueueFails(r, c)
           \/ ApiCrash
           \/ OtherStep
BY DEF Next, OtherStep, DbError

LEMMA RequestsStayOK ==
    ASSUME RequestsOK, [Next]_vars
    PROVE  RequestsOK'
<1>1. ASSUME NEW r \in Requests, RequestStep(r)
      PROVE  RequestsOK'
  BY <1>1, ReceiveKeeps, AssertWithinLimitKeeps, CheckTopicKeeps, LookUpKeyKeeps,
     CreateEventKeeps, ReadConsumersKeeps, EnqueueKeeps DEF RequestStep
<1> QED BY <1>1, StepIs, CallFailsKeeps, EnqueueFailsKeeps, ApiCrashKeeps, OthersKeep

LEMMA RequestsStartOK == Init => RequestsOK
<1> SUFFICES ASSUME Init
             PROVE  RequestsOK
  OBVIOUS
<1>1. AnswersOK
  BY DEF Init, AnswersOK, Answers, Codes, Unanswered
<1>2. RestOK
  <2>1. pc \in [Requests -> PCs] /\ consumerStatus \in [Consumers -> ConsumerStatuses]
    BY DEF Init, PCs, ConsumerStatuses
  <2>2. stamp \in [Requests -> Nat] /\ createdIn \in [Requests -> Nat]
    BY DEF Init
  <2>3. /\ reach \in [Requests -> SUBSET Consumers]
        /\ deliveries \subseteq Events \X Consumers
        /\ shaken \subseteq Consumers
    BY DEF Init
  <2>4. topicDeleted \in BOOLEAN /\ tenantDeleted \in BOOLEAN
    BY Zenon DEF Init
  <2>5. month \in Nat \ {0} /\ scheduled \in Nat /\ faults \in Nat
    BY DEF Init
  <2> QED BY <2>1, <2>2, <2>3, <2>4, <2>5 DEF RestOK
<1>3. \A r \in Requests : RequestOK(r)
  BY DEF Init, RequestOK
<1> QED BY <1>1, <1>2, <1>3 DEF RequestsOK

\* Types, and that 201 names an event that is there, however requests interleave
\* (event.service.ts 25-82).
THEOREM TypeCorrect == Spec => []TypeOK
<1>1. RequestsOK => TypeOK
  BY DEF RequestsOK, AnswersOK, RestOK, TypeOK
<1> QED BY <1>1, RequestsStartOK, RequestsStayOK, PTL DEF Spec

-----------------------------------------------------------------------------
(* One idempotency key, one answer.                                          *)

LEMMA KeysStay ==
    ASSUME KeysInv, [Next]_vars
    PROVE  KeysInv'
<1>1. RequestsOK'
  BY RequestsStayOK DEF KeysInv
<1>2. KeysUnique'
  <2>1. ASSUME UNCHANGED createdIn
        PROVE  KeysUnique'
    BY <2>1 DEF KeysInv, KeysUnique, Events
  <2>2. ASSUME NEW r \in Requests, CreateEvent(r)
        PROVE  KeysUnique'
    BY <2>2 DEF KeysInv, RequestsOK, RestOK, KeysUnique, Events, CreateEvent, ViolatesUniqueKey
  <2>3. UNCHANGED createdIn \/ \E r \in Requests : CreateEvent(r)
    BY StepIs, OtherStepIs DEF RequestStep, Receive, AssertWithinLimit, CheckTopicAndPayload,
       LookUpKey, ReadConsumers, EnqueueDelivery, DbError, ApiCrash, KeysInv, tables
  <2> QED BY <2>1, <2>2, <2>3
<1>3. AnswersHaveTheKey'
  <2>1. ASSUME UNCHANGED answer
        PROVE  AnswersHaveTheKey'
    BY <2>1 DEF KeysInv, AnswersHaveTheKey
  <2>2. ASSUME NEW r \in Requests, NEW code, NEW event, Answer(r, code, event),
               code = "created" => KeyOf[event] = KeyOf[r]
        PROVE  AnswersHaveTheKey'
    BY <2>2 DEF KeysInv, RequestsOK, AnswersOK, AnswersHaveTheKey, Answer
  <2>3. ASSUME NEW r \in Requests, RequestStep(r)
        PROVE  AnswersHaveTheKey'
    <3>1. CASE LookUpKey(r)
      BY <3>1, <2>1, <2>2 DEF LookUpKey, FindByIdempotencyKey, Goto
    <3>2. CASE ~LookUpKey(r)
      BY <2>3, <3>2, <2>1, <2>2 DEF RequestStep, Receive, AssertWithinLimit,
         CheckTopicAndPayload, CreateEvent, ReadConsumers, EnqueueDelivery, Goto
    <3> QED BY <3>1, <3>2
  <2>4. ASSUME NEW r \in Requests, CallFails(r)
        PROVE  AnswersHaveTheKey'
    BY <2>4, <2>2 DEF CallFails
  <2>5. ASSUME NEW r \in Requests, NEW c \in Consumers, EnqueueFails(r, c)
        PROVE  AnswersHaveTheKey'
    BY <2>5 DEF KeysInv, RequestsOK, AnswersOK, AnswersHaveTheKey, EnqueueFails
  <2>6. CASE ApiCrash
    BY <2>6 DEF KeysInv, AnswersHaveTheKey, ApiCrash
  <2>7. CASE OtherStep
    BY <2>7, <2>1, OtherStepIs DEF KeysInv, request
  <2> QED BY <2>3, <2>4, <2>5, <2>6, <2>7, StepIs
<1> QED BY <1>1, <1>2, <1>3 DEF KeysInv

\* Requests with one idempotency key that are told 201 are told the same event: the
\* unique index lets one in, the look-up finds it (event.service.ts 44-48, the index of
\* migration 0008).
THEOREM OneEventPerKey == Spec => []OneAnswerPerKey
<1>1. Init => KeysInv
  BY RequestsStartOK DEF Init, KeysInv, KeysUnique, AnswersHaveTheKey, Events, Unanswered
<1>2. KeysInv => OneAnswerPerKey
  BY DEF KeysInv, RequestsOK, AnswersOK, KeysUnique, AnswersHaveTheKey, OneAnswerPerKey
<1> QED BY <1>1, <1>2, KeysStay, PTL DEF Spec

-----------------------------------------------------------------------------
(* 201 means fanned out.                                                     *)

\* A page with room for all consumers holds all that are not deleted.
LEMMA PageHoldsAll ==
    ASSUME Cardinality(Consumers) <= FanOutLimit, NEW page \in FindByTopicId,
           NEW c \in Consumers, consumerStatus[c] # "deleted"
    PROVE  c \in page
<1> DEFINE found == {d \in Consumers : consumerStatus[d] # "deleted"}
<1>1. page \subseteq found /\ (page = found \/ Cardinality(page) = FanOutLimit)
  BY DEF FindByTopicId
<1>2. CASE Cardinality(page) = FanOutLimit
  <2>1. page \in SUBSET Consumers
    BY <1>1
  <2>2. Cardinality(Consumers) \in Nat /\ Cardinality(page) \in Nat
    BY <2>1, FS_CardinalityType, FS_Subset
  <2>3. Cardinality(page) <= Cardinality(Consumers)
    BY <2>1, FS_Subset
  <2>4. Cardinality(page) = Cardinality(Consumers)
    BY <1>2, <2>2, <2>3
  <2> QED BY <2>1, <2>4, FS_Subset
<1> QED BY <1>1, <1>2

\* Who is shaken stays shaken.
LEMMA UnshakenStays ==
    ASSUME FanOutInv, [Next]_vars
    PROVE  UnshakenIsActive' /\ shaken \subseteq shaken'
<1>1. CASE UNCHANGED <<consumerStatus, shaken>>
  BY <1>1 DEF FanOutInv, UnshakenIsActive
<1>2. ASSUME NEW c \in Consumers, NEW s \in ConsumerStatuses, SetConsumer(c, s)
      PROVE  UnshakenIsActive' /\ shaken \subseteq shaken'
  BY <1>2 DEF FanOutInv, RequestsOK, RestOK, UnshakenIsActive, SetConsumer
<1>3. ASSUME NEW r \in Requests, RequestStep(r)
      PROVE  UNCHANGED <<consumerStatus, shaken>>
  BY <1>3 DEF RequestStep, Receive, AssertWithinLimit, CheckTopicAndPayload, LookUpKey,
     CreateEvent, ReadConsumers, EnqueueDelivery, admin
<1>4. UNCHANGED <<consumerStatus, shaken>>
      \/ \E c \in Consumers, s \in ConsumerStatuses : SetConsumer(c, s)
  BY <1>3, StepIs DEF OtherStep, DeleteTopic, DeleteTenant, FireSchedule, NextMonth, DbError,
     ApiCrash, vars, admin
<1> QED BY <1>1, <1>2, <1>4

\* What a fan-out has left to do, and what it has done if it answered 201.
FanOutOf(r) ==
    Cardinality(Consumers) <= FanOutLimit =>
        /\ pc[r] = "fanning" /\ answer[r].code = "none" =>
              \A c \in Consumers \ shaken : c \in reach[r] \/ <<r, c>> \in deliveries
        /\ answer[r].code = "created" /\ answer[r].event = r =>
              \A c \in Consumers \ shaken : <<r, c>> \in deliveries

LEMMA FanOutParts ==
    FanOutInv <=> RequestsOK /\ UnshakenIsActive /\ \A r \in Requests : FanOutOf(r)
BY DEF FanOutInv, ReachesAll, CreatedMeansFannedOut, FanOutOf

\* Nothing that leaves a request where it is harms its fan-out.
LEMMA FanOutRests ==
    ASSUME NEW q \in Requests, FanOutOf(q), shaken \subseteq shaken',
           deliveries \subseteq deliveries',
           pc'[q] = pc[q], answer'[q] = answer[q], reach'[q] = reach[q]
    PROVE  FanOutOf(q)'
BY DEF FanOutOf

\* A request before its fan-out that goes on, or ends without an event of its own.
LEMMA FanOutNotYet ==
    ASSUME NEW q \in Requests,
           pc'[q] # "fanning", answer'[q].code # "created" \/ answer'[q].event # q
    PROVE  FanOutOf(q)'
BY DEF FanOutOf

LEMMA FanOutStays ==
    ASSUME FanOutInv, [Next]_vars
    PROVE  FanOutInv'
<1>1. RequestsOK /\ RequestsOK' /\ UnshakenIsActive
  BY RequestsStayOK DEF FanOutInv
<1>2. UnshakenIsActive' /\ shaken \subseteq shaken'
  BY UnshakenStays
<1>3. \A q \in Requests : FanOutOf(q)
  BY FanOutParts
<1>4. ASSUME NEW r \in Requests, RequestStep(r), NEW q \in Requests
      PROVE  FanOutOf(q)'
  <2>1. deliveries \subseteq deliveries'
    BY <1>4 DEF RequestStep, Receive, AssertWithinLimit, CheckTopicAndPayload, LookUpKey,
       CreateEvent, ReadConsumers, EnqueueDelivery, tables
  <2>2. CASE q # r
    <3>1. pc'[q] = pc[q] /\ answer'[q] = answer[q] /\ reach'[q] = reach[q]
      BY <1>1, <1>4, <2>2 DEF RequestsOK, RestOK, AnswersOK, RequestStep, Receive, Goto, Answer,
         AssertWithinLimit, CheckTopicAndPayload, LookUpKey, CreateEvent, ReadConsumers,
         EnqueueDelivery
    <3> QED BY <1>2, <1>3, <2>1, <3>1, FanOutRests
  <2>3. CASE q = r /\ (Receive(r) \/ AssertWithinLimit(r) \/ CheckTopicAndPayload(r))
    BY <1>1, <2>3, FanOutNotYet DEF RequestsOK, RequestOK, RestOK, AnswersOK, Unanswered, Receive,
       Goto, Answer, AssertWithinLimit, CheckTopicAndPayload
  <2>4. CASE q = r /\ LookUpKey(r)
    <3>1. r \notin FindByIdempotencyKey(KeyOf[r])
      BY <1>1, <2>4 DEF RequestsOK, RequestOK, FindByIdempotencyKey, Events, LookUpKey
    <3> QED BY <1>1, <2>4, <3>1, FanOutNotYet DEF RequestsOK, RequestOK, RestOK, AnswersOK,
               Unanswered, Goto, Answer, LookUpKey
  <2>5. CASE q = r /\ CreateEvent(r)
    BY <1>1, <2>5, FanOutNotYet DEF RequestsOK, RequestOK, RestOK, AnswersOK, Unanswered, Goto,
       Answer, CreateEvent
  <2>6. CASE q = r /\ ReadConsumers(r)
    <3>1. PICK page \in FindByTopicId :
            LET active == {c \in page : consumerStatus[c] = "active"}
            IN  /\ reach' = [reach EXCEPT ![r] = active]
                /\ IF active = {} THEN Answer(r, "created", r) ELSE Goto(r, "fanning")
      BY <2>6 DEF ReadConsumers
    <3>2. ASSUME Cardinality(Consumers) <= FanOutLimit, NEW c \in Consumers \ shaken'
          PROVE  c \in {d \in page : consumerStatus[d] = "active"}
      BY <1>1, <1>2, <3>2, PageHoldsAll DEF UnshakenIsActive
    <3>3. reach'[r] = {d \in page : consumerStatus[d] = "active"}
      BY <1>1, <3>1 DEF RequestsOK, RestOK
    <3>4. Cardinality(Consumers) <= FanOutLimit => \A c \in Consumers \ shaken' : c \in reach'[r]
      BY <3>2, <3>3
    <3>5. answer'[r].code = "created" => reach'[r] = {}
      BY <1>1, <3>1, <3>3, <2>6 DEF RequestsOK, RequestOK, AnswersOK, Unanswered, Goto, Answer,
         ReadConsumers
    <3> QED BY <2>6, <3>4, <3>5 DEF FanOutOf
  <2>7. ASSUME q = r, NEW c \in Consumers, EnqueueDelivery(r, c)
        PROVE  FanOutOf(q)'
    <3>1. pc[r] = "fanning" /\ c \in reach[r] /\ answer[r].code \in {"none", "error"}
      BY <1>1, <2>7 DEF RequestsOK, RequestOK, EnqueueDelivery
    <3>2. deliveries' = deliveries \cup {<<r, c>>} /\ reach'[r] = reach[r] \ {c}
      BY <1>1, <2>7 DEF RequestsOK, RestOK, EnqueueDelivery
    <3>3. CASE answer[r].code = "none"
      <4>1. answer'[r].code = "created" => reach[r] = {c}
        BY <1>1, <2>7, <3>3 DEF RequestsOK, AnswersOK, EnqueueDelivery, Goto
      <4>2. Cardinality(Consumers) <= FanOutLimit =>
              \A d \in Consumers \ shaken' : d \in reach[r] \/ <<r, d>> \in deliveries
        BY <1>2, <1>3, <3>1, <3>3 DEF FanOutOf
      <4> QED BY <2>7, <3>2, <4>1, <4>2 DEF FanOutOf
    <3>4. CASE answer[r].code = "error"
      <4>1. answer'[r] = answer[r]
        BY <1>1, <2>7, <3>4 DEF RequestsOK, AnswersOK, EnqueueDelivery, Goto
      <4> QED BY <2>7, <3>4, <4>1 DEF FanOutOf
    <3> QED BY <3>1, <3>3, <3>4
  <2> QED BY <1>4, <2>2, <2>3, <2>4, <2>5, <2>6, <2>7 DEF RequestStep
<1>5. ASSUME NEW r \in Requests, DbError,
             CallFails(r) \/ \E c \in Consumers : EnqueueFails(r, c), NEW q \in Requests
      PROVE  FanOutOf(q)'
  <2>1. UNCHANGED deliveries
    BY <1>5 DEF DbError, tables
  <2>2. CASE q # r
    <3>1. pc'[q] = pc[q] /\ answer'[q] = answer[q] /\ reach'[q] = reach[q]
      BY <1>1, <1>5, <2>2 DEF RequestsOK, RestOK, AnswersOK, CallFails, EnqueueFails, Answer
    <3> QED BY <1>2, <1>3, <2>1, <3>1, FanOutRests
  <2>3. CASE q = r
    <3>1. answer'[r].code = "error"
      BY <1>1, <1>5 DEF RequestsOK, RequestOK, AnswersOK, CallFails, EnqueueFails, Answer
    <3> QED BY <2>3, <3>1 DEF FanOutOf
  <2> QED BY <2>2, <2>3
<1>6. ASSUME ApiCrash, NEW q \in Requests
      PROVE  FanOutOf(q)'
  <2>1. pc'[q] # "fanning" /\ deliveries' = deliveries
    BY <1>6 DEF ApiCrash, tables
  <2>2. answer'[q].code = "created" => answer'[q] = answer[q]
    BY <1>6 DEF ApiCrash
  <2> QED BY <1>2, <1>3, <2>1, <2>2 DEF FanOutOf
<1>7. ASSUME OtherStep, NEW q \in Requests
      PROVE  FanOutOf(q)'
  BY <1>1, <1>2, <1>3, <1>7, OtherStepIs, FanOutRests DEF request
<1>8. \A q \in Requests : FanOutOf(q)'
  BY <1>4, <1>5, <1>6, <1>7, StepIs
<1>9. (\A q \in Requests : FanOutOf(q))'
  BY <1>8
<1> QED BY <1>1, <1>2, <1>9, FanOutParts DEF FanOutInv, ReachesAll, CreatedMeansFannedOut,
           FanOutOf

\* A request told 201 for its own event has enqueued it for every consumer that was
\* active all along (event.service.ts 63-80), whoever else runs, fails or dies.
THEOREM CreatedIsFannedOut == Spec => []CreatedMeansFannedOut
<1>1. Init => FanOutInv
  BY RequestsStartOK DEF Init, FanOutInv, UnshakenIsActive, ReachesAll, CreatedMeansFannedOut,
     Unanswered
<1>2. FanOutInv => CreatedMeansFannedOut
  BY DEF FanOutInv
<1> QED BY <1>1, <1>2, FanOutStays, PTL DEF Spec

-----------------------------------------------------------------------------
(* How far the quota is passed.                                              *)

\* The sets that the bound counts are finite.
LEMMA CountsAreNats ==
    ASSUME NEW S \in SUBSET Requests
    PROVE  IsFiniteSet(S) /\ Cardinality(S) \in Nat
BY FS_Subset, FS_CardinalityType

LEMMA MoreCountMore ==
    ASSUME NEW S \in SUBSET Requests, NEW T \in SUBSET S
    PROVE  Cardinality(T) <= Cardinality(S)
BY CountsAreNats, FS_Subset

LEMMA OneMore ==
    ASSUME NEW S \in SUBSET Requests, NEW r \in Requests, NEW T \in SUBSET (S \cup {r})
    PROVE  Cardinality(T) <= Cardinality(S) + 1
<1>1. IsFiniteSet(S) /\ Cardinality(S) \in Nat /\ S \cup {r} \in SUBSET Requests
  BY CountsAreNats
<1>2. Cardinality(S \cup {r}) = IF r \in S THEN Cardinality(S) ELSE Cardinality(S) + 1
  BY <1>1, FS_AddElement
<1>3. Cardinality(T) <= Cardinality(S \cup {r})
  BY <1>1, MoreCountMore
<1>4. Cardinality(T) \in Nat /\ Cardinality(S \cup {r}) \in Nat
  BY <1>1, CountsAreNats
<1> QED BY <1>1, <1>2, <1>3, <1>4

\* Most steps only take requests out of the sets.
LEMMA QuotaRests ==
    ASSUME QuotaInv, RequestsOK', month' = month, createdIn' = createdIn,
           Passed' \subseteq Passed, InFlight' \subseteq InFlight
    PROVE  QuotaInv'
<1>1. EventsIn(month)' = EventsIn(month)
  BY DEF EventsIn
<1>2. /\ Passed \in SUBSET Requests /\ Passed' \in SUBSET Passed
      /\ InFlight \in SUBSET Requests /\ InFlight' \in SUBSET InFlight
      /\ EventsIn(month) \in SUBSET Requests
  BY DEF Passed, InFlight, EventsIn
<1>3. /\ Cardinality(Passed') <= Cardinality(Passed)
      /\ Cardinality(InFlight') <= Cardinality(InFlight)
  BY <1>2, MoreCountMore
<1>4. /\ Cardinality(Passed) \in Nat /\ Cardinality(Passed') \in Nat
      /\ Cardinality(InFlight) \in Nat /\ Cardinality(InFlight') \in Nat
      /\ Cardinality(EventsIn(month)) \in Nat
  BY <1>2, CountsAreNats
<1> QED BY <1>1, <1>3, <1>4 DEF QuotaInv

\* Whoever passed the quota is in flight.
LEMMA PassedInFlight ==
    ASSUME RequestsOK
    PROVE  Passed \subseteq InFlight
BY DEF RequestsOK, RequestOK, Passed, InFlight, Unanswered

LEMMA QuotaReceive ==
    ASSUME QuotaInv, RequestsOK', NEW r \in Requests, Receive(r)
    PROVE  QuotaInv'
<1>1. Passed' = Passed /\ InFlight' \subseteq InFlight \cup {r}
  BY DEF QuotaInv, RequestsOK, RestOK, Receive, Goto, Passed, InFlight
<1>2. EventsIn(month)' = EventsIn(month)
  BY DEF EventsIn, Receive, tables
<1>3. InFlight \in SUBSET Requests /\ InFlight' \in SUBSET Requests
  BY <1>1 DEF InFlight
<1>4. Cardinality(InFlight') <= Cardinality(InFlight) + 1
  BY <1>1, <1>3, OneMore
<1>5. Cardinality(InFlight) \in Nat /\ Cardinality(InFlight') \in Nat
  BY <1>3, CountsAreNats
<1> QED BY <1>1, <1>2, <1>4, <1>5 DEF QuotaInv, Receive

LEMMA QuotaAssert ==
    ASSUME QuotaInv, RequestsOK', NEW r \in Requests, AssertWithinLimit(r)
    PROVE  QuotaInv'
<1>1. InFlight' \subseteq InFlight
  BY DEF QuotaInv, RequestsOK, RestOK, AnswersOK, RequestOK, Unanswered, AssertWithinLimit, Goto,
         Answer, InFlight
<1>2. UNCHANGED <<createdIn, month>>
  BY DEF AssertWithinLimit, tables
<1>3. CASE Passed' \subseteq Passed
  BY <1>1, <1>2, <1>3, QuotaRests
<1>4. CASE ~(Passed' \subseteq Passed)
  <2>1. WithinLimit(1)
    BY <1>4 DEF QuotaInv, RequestsOK, RestOK, AssertWithinLimit, Answer, Passed
  <2>2. EventsIn(month)' = EventsIn(month)
    BY <1>2 DEF EventsIn
  <2>3. /\ EventsIn(month) \in SUBSET Requests
        /\ InFlight \in SUBSET Requests /\ InFlight' \in SUBSET InFlight
        /\ Passed' \in SUBSET InFlight /\ Passed' \in SUBSET Requests
    <3>1. Passed' \subseteq InFlight'
      BY DEF RequestsOK, RequestOK, Passed, InFlight, Unanswered
    <3> QED BY <1>1, <3>1 DEF EventsIn, InFlight, Passed
  <2>4. /\ Cardinality(Passed') <= Cardinality(InFlight)
        /\ Cardinality(InFlight') <= Cardinality(InFlight)
    BY <2>3, MoreCountMore
  <2>5. /\ Cardinality(Passed') \in Nat /\ Cardinality(InFlight) \in Nat
        /\ Cardinality(InFlight') \in Nat /\ Cardinality(EventsIn(month)) \in Nat
    BY <2>3, CountsAreNats
  <2>6. scheduled \in Nat
    BY DEF QuotaInv, RequestsOK, RestOK
  <2> QED BY <2>1, <2>2, <2>4, <2>5, <2>6 DEF QuotaInv, WithinLimit, CountThisMonth
<1> QED BY <1>3, <1>4

LEMMA QuotaCreate ==
    ASSUME QuotaInv, RequestsOK', NEW r \in Requests, CreateEvent(r)
    PROVE  QuotaInv'
<1>1. InFlight' \subseteq InFlight
  BY DEF QuotaInv, RequestsOK, RestOK, AnswersOK, RequestOK, Unanswered, CreateEvent, Goto,
         Answer, InFlight
<1>2. Passed' = Passed \ {r} /\ r \in Passed
  BY DEF QuotaInv, RequestsOK, RestOK, CreateEvent, Goto, Answer, Passed
<1>3. EventsIn(month)' \subseteq EventsIn(month) \cup {r}
  BY DEF QuotaInv, RequestsOK, RestOK, CreateEvent, EventsIn
<1>4. /\ Passed \in SUBSET Requests
      /\ InFlight \in SUBSET Requests /\ InFlight' \in SUBSET InFlight
      /\ EventsIn(month) \in SUBSET Requests /\ EventsIn(month)' \in SUBSET Requests
  BY <1>1, <1>3 DEF EventsIn, InFlight, Passed
<1>5. Cardinality(Passed') = Cardinality(Passed) - 1
  BY <1>2, <1>4, CountsAreNats, FS_RemoveElement
<1>6. /\ Cardinality(EventsIn(month)') <= Cardinality(EventsIn(month)) + 1
      /\ Cardinality(InFlight') <= Cardinality(InFlight)
  BY <1>3, <1>4, OneMore, MoreCountMore
<1>7. /\ Cardinality(Passed) \in Nat /\ Cardinality(InFlight) \in Nat
      /\ Cardinality(InFlight') \in Nat /\ Cardinality(EventsIn(month)) \in Nat
      /\ Cardinality(EventsIn(month)') \in Nat
  BY <1>4, CountsAreNats
<1> QED BY <1>5, <1>6, <1>7 DEF QuotaInv

\* A new month starts from nothing.
LEMMA QuotaNextMonth ==
    ASSUME QuotaInv, RequestsOK', NextMonth
    PROVE  QuotaInv'
<1>1. Passed' = Passed /\ InFlight' = InFlight
  BY DEF NextMonth, request, Passed, InFlight
<1>2. EventsIn(month)' = {}
  BY DEF QuotaInv, RequestsOK, RestOK, RequestOK, NextMonth, EventsIn
<1>3. InFlight \in SUBSET Requests /\ Passed \in SUBSET InFlight /\ Passed \in SUBSET Requests
  BY PassedInFlight DEF QuotaInv, InFlight, Passed
<1>4. /\ Cardinality(Passed) <= Cardinality(InFlight)
      /\ Cardinality(Passed) \in Nat /\ Cardinality(InFlight) \in Nat
  BY <1>3, MoreCountMore, CountsAreNats
<1>5. Cardinality(EventsIn(month)') = 0
  BY <1>2, FS_EmptySet
<1> QED BY <1>1, <1>4, <1>5 DEF QuotaInv

LEMMA QuotaStays ==
    ASSUME QuotaInv, [Next]_vars
    PROVE  QuotaInv'
<1>1. RequestsOK /\ RequestsOK'
  BY RequestsStayOK DEF QuotaInv
<1>2. ASSUME NEW r \in Requests,
             CheckTopicAndPayload(r) \/ LookUpKey(r) \/ ReadConsumers(r)
             \/ \E c \in Consumers : EnqueueDelivery(r, c)
      PROVE  QuotaInv'
  <2>1. UNCHANGED <<createdIn, month>>
    BY <1>2 DEF CheckTopicAndPayload, LookUpKey, ReadConsumers, EnqueueDelivery, tables
  <2>2. Passed' \subseteq Passed
    BY <1>1, <1>2 DEF RequestsOK, RestOK, CheckTopicAndPayload, LookUpKey, ReadConsumers,
       EnqueueDelivery, Goto, Answer, Passed
  <2>3. InFlight' \subseteq InFlight
    BY <1>1, <1>2 DEF RequestsOK, RestOK, AnswersOK, CheckTopicAndPayload, LookUpKey,
       ReadConsumers, EnqueueDelivery, Goto, Answer, InFlight
  <2> QED BY <1>1, <2>1, <2>2, <2>3, QuotaRests
<1>3. ASSUME NEW r \in Requests, DbError,
             CallFails(r) \/ \E c \in Consumers : EnqueueFails(r, c)
      PROVE  QuotaInv'
  <2>1. UNCHANGED <<createdIn, month>>
    BY <1>3 DEF DbError, tables
  <2>2. Passed' \subseteq Passed /\ InFlight' \subseteq InFlight
    BY <1>1, <1>3 DEF RequestsOK, RestOK, AnswersOK, CallFails, EnqueueFails, Answer, Passed,
       InFlight
  <2> QED BY <1>1, <2>1, <2>2, QuotaRests
<1>4. ASSUME ApiCrash
      PROVE  QuotaInv'
  BY <1>1, <1>4, QuotaRests DEF ApiCrash, Passed, InFlight, tables
<1>5. ASSUME OtherStep, ~NextMonth
      PROVE  QuotaInv'
  <2>1. UNCHANGED <<createdIn, month, pc, answer>>
    BY <1>5 DEF OtherStep, SetConsumer, DeleteTopic, DeleteTenant, FireSchedule, vars, tables,
       request
  <2> QED BY <1>1, <2>1, QuotaRests DEF Passed, InFlight
<1> QED BY <1>1, <1>2, <1>3, <1>4, <1>5, StepIs, QuotaReceive, QuotaAssert, QuotaCreate,
           QuotaNextMonth DEF RequestStep

\* A tenant passes its monthly quota by fewer events than the API serves requests at
\* once: who was let through and has not inserted yet was in flight beside the last one
\* that was let through (usage.service.ts assertWithinLimit, event.service.ts 25-61).
THEOREM OvershootIsBounded == Spec => []QuotaOvershootBounded
<1>1. Init => QuotaInv
  <2> SUFFICES ASSUME Init
               PROVE  QuotaInv
    OBVIOUS
  <2>1. InFlight = {} /\ Passed = {} /\ EventsIn(month) = {}
    BY DEF Init, InFlight, Passed, EventsIn
  <2> QED BY <2>1, FS_EmptySet, RequestsStartOK DEF QuotaInv
<1>2. QuotaInv => QuotaOvershootBounded
  <2>1. Passed \in SUBSET Requests /\ EventsIn(month) \in SUBSET Requests
    BY DEF Passed, EventsIn
  <2>2. Cardinality(Passed) \in Nat /\ Cardinality(EventsIn(month)) \in Nat
    BY <2>1, CountsAreNats
  <2> QED BY <2>2 DEF QuotaInv, QuotaOvershootBounded
<1> QED BY <1>1, <1>2, QuotaStays, PTL DEF Spec

-----------------------------------------------------------------------------
(* Replay: the inductive invariants.                                         *)

\* A row that is not there came from nowhere.
AbsentIsBlank == \A d \in Rows : status[d] = "absent" => from[d] = NoRow

\* A copy of a letter goes to the letter's consumer.
IsCopy(d, l) == from[d] = l /\ status[d] # "absent" /\ consumer[d] = consumer[l]

\* Who has still to mark a letter has enqueued it.
MarksWhatItEnqueued ==
    \A o \in Operators : replayPc[o] = "marking" => \E d \in Rows : IsCopy(d, letter[o])

EnqueuedInv ==
    /\ Replay!TypeOK /\ AbsentIsBlank /\ MarksWhatItEnqueued
    /\ \A l \in replayed : \E d \in Rows : IsCopy(d, l)

\* The requests that have still to enqueue a letter, and those that have.
Coming(l) == {o \in Operators : replayPc[o] \in {"consumer", "enqueueing"} /\ letter[o] = l}
Marking(l) == {o \in Operators : replayPc[o] = "marking" /\ letter[o] = l}

\* Before the mark a copy has a request that is about to mark, or a fault; the requests
\* under way at the mark, and the copies there are, are no more than that and the rest.
CopiesInv ==
    /\ Replay!TypeOK /\ AbsentIsBlank
    /\ \A l \in Rows \ replayed :
          Cardinality(Replay!Copies(l)) <= Cardinality(Marking(l)) + replayFaults
    /\ \A l \in Rows :
          Cardinality(Replay!Copies(l)) + Cardinality(Coming(l))
          <= Cardinality(Operators) + replayFaults

-----------------------------------------------------------------------------
(* Replay: types.                                                            *)

\* A request past its look-up holds a letter, and a letter stays one.
RequestsHoldLetters ==
    \A o \in Operators : IF replayPc[o] = "idle" THEN letter[o] = NoRow
    ELSE letter[o] \in Replay!Letters

LettersStay == Replay!Letters \subseteq Replay!Letters'

LEMMA LettersKept ==
    ASSUME Replay!TypeOK, [Replay!Next]_Replay!vars
    PROVE  LettersStay
BY DEF LettersStay, Replay!Letters, Replay!TypeOK, Replay!Next, Replay!vars, Replay!table,
   Replay!Step, Replay!FindLetter, Replay!FindConsumer, Replay!Enqueue,
       Replay!Mark, Replay!LoseRequest, Replay!Settle, Replay!DeleteConsumer

LEMMA TypesStay ==
    ASSUME Replay!ReplayAssumption, Replay!TypeOK, [Replay!Next]_Replay!vars
    PROVE  Replay!TypeOK'
<1>1. /\ (status \in [Rows -> Replay!RowStatuses])'
      /\ (consumer \in [Rows -> Consumers \cup {NoConsumer}])'
      /\ (from \in [Rows -> Rows \cup {NoRow}])'
  <2>1. ASSUME NEW o \in Operators, Replay!Enqueue(o)
        PROVE  /\ (status \in [Rows -> Replay!RowStatuses])'
               /\ (consumer \in [Rows -> Consumers \cup {NoConsumer}])'
               /\ (from \in [Rows -> Rows \cup {NoRow}])'
    <3>1. letter[o] \in Rows
      BY <2>1 DEF Replay!TypeOK, Replay!Enqueue, Replay!Letters
    <3> QED BY <2>1, <3>1 DEF Replay!TypeOK, Replay!Enqueue, Replay!RowStatuses
  <2>2. ASSUME NEW d \in Rows, NEW s \in {"delivered", "failed"}, Replay!Settle(d, s)
        PROVE  /\ (status \in [Rows -> Replay!RowStatuses])'
               /\ UNCHANGED <<consumer, from>>
    BY <2>2 DEF Replay!TypeOK, Replay!Settle, Replay!RowStatuses
  <2>3. UNCHANGED Replay!table
        \/ (\E o \in Operators : Replay!Enqueue(o))
        \/ (\E d \in Rows, s \in {"delivered", "failed"} : Replay!Settle(d, s))
    BY DEF Replay!Next, Replay!vars, Replay!Step, Replay!FindLetter, Replay!FindConsumer,
       Replay!Mark, Replay!LoseRequest, Replay!DeleteConsumer
  <2> QED BY <2>1, <2>2, <2>3 DEF Replay!TypeOK, Replay!table
<1>2. LettersStay
  BY LettersKept
<1>3. (replayed \subseteq Replay!Letters)'
  BY <1>2 DEF LettersStay, Replay!Letters, Replay!TypeOK, Replay!Next, Replay!vars, Replay!Step,
     Replay!FindLetter, Replay!FindConsumer, Replay!Enqueue,
     Replay!Mark, Replay!LoseRequest, Replay!Settle, Replay!DeleteConsumer
<1>4. (replayPc \in [Operators -> Replay!PCs] /\ letter \in [Operators -> Rows \cup {NoRow}])'
  BY DEF Replay!TypeOK, Replay!PCs, Replay!Next, Replay!vars, Replay!request, Replay!Step,
     Replay!FindLetter, Replay!FindConsumer, Replay!Enqueue, Replay!Mark,
     Replay!LoseRequest, Replay!Settle, Replay!DeleteConsumer, Replay!Goto, Replay!Finish
<1>5. RequestsHoldLetters'
  <2>1. RequestsHoldLetters
    BY DEF Replay!TypeOK, RequestsHoldLetters
  <2>2. ASSUME UNCHANGED Replay!request
        PROVE  RequestsHoldLetters'
    BY <1>2, <2>1, <2>2 DEF Replay!request, RequestsHoldLetters, LettersStay
  <2>3. ASSUME NEW o \in Operators, Replay!Goto(o, "enqueueing") \/ Replay!Goto(o, "marking"),
               replayPc[o] # "idle"
        PROVE  RequestsHoldLetters'
    BY <1>2, <2>1, <2>3 DEF Replay!TypeOK, Replay!Goto, RequestsHoldLetters, LettersStay
  <2>4. ASSUME NEW o \in Operators, Replay!Finish(o)
        PROVE  RequestsHoldLetters'
    BY <1>2, <2>1, <2>4 DEF Replay!TypeOK, Replay!Finish, RequestsHoldLetters, LettersStay
  <2>5. ASSUME NEW o \in Operators, NEW l \in Rows, Replay!FindLetter(o, l)
        PROVE  RequestsHoldLetters'
    BY <1>2, <2>1, <2>5 DEF Replay!TypeOK, Replay!FindLetter, RequestsHoldLetters, LettersStay
  <2> QED BY <2>2, <2>3, <2>4, <2>5
         DEF Replay!Next, Replay!vars, Replay!Step, Replay!FindConsumer, Replay!Enqueue,
             Replay!Mark,
             Replay!LoseRequest, Replay!Settle, Replay!DeleteConsumer
<1>6. (deleted \subseteq Consumers)' /\ (replayFaults \in Nat)'
  BY DEF Replay!TypeOK, Replay!Next, Replay!vars, Replay!Step, Replay!FindLetter,
     Replay!FindConsumer, Replay!Enqueue, Replay!Mark, Replay!LoseRequest, Replay!Settle,
     Replay!DeleteConsumer
<1> QED BY <1>1, <1>3, <1>4, <1>5, <1>6 DEF Replay!TypeOK, RequestsHoldLetters

LEMMA TypesStart ==
    ASSUME Replay!ReplayAssumption, Replay!Init
    PROVE  Replay!TypeOK /\ AbsentIsBlank
BY DEF Replay!ReplayAssumption, Replay!Init, Replay!TypeOK, AbsentIsBlank, Replay!RowStatuses,
   Replay!PCs, Replay!Letters

\* Types; a request past its look-up works on a dead letter (dead-letter.service.ts 30-52).
THEOREM ReplayTypes ==
    ASSUME Replay!ReplayAssumption
    PROVE  Replay!Spec => []Replay!TypeOK
BY TypesStart, TypesStay, PTL DEF Replay!Spec

\* The types of both ways to the queue (event.service.ts 31-112, dead-letter.service.ts
\* 30-52).
THEOREM TypesHold ==
    ASSUME Replay!ReplayAssumption
    PROVE  Spec /\ Replay!Spec => []TypesOK
BY TypeCorrect, ReplayTypes, PTL DEF TypesOK

LEMMA AbsentStaysBlank ==
    ASSUME Replay!TypeOK, AbsentIsBlank, [Replay!Next]_Replay!vars
    PROVE  AbsentIsBlank'
BY DEF Replay!TypeOK, AbsentIsBlank, Replay!Next, Replay!vars, Replay!table, Replay!Step,
   Replay!FindLetter, Replay!FindConsumer, Replay!Enqueue, Replay!Mark,
       Replay!LoseRequest, Replay!Settle, Replay!DeleteConsumer

-----------------------------------------------------------------------------
(* A letter that reads replayed has been enqueued again.                     *)

\* A copy stays one: only rows that are not there are written over.
LEMMA CopyStays ==
    ASSUME Replay!TypeOK, [Replay!Next]_Replay!vars, NEW d \in Rows, NEW l \in Replay!Letters,
           IsCopy(d, l)
    PROVE  IsCopy(d, l)'
<1>1. status[l] = "failed" /\ l \in Rows
  BY DEF Replay!Letters
<1>2. CASE UNCHANGED Replay!table
  BY <1>2 DEF IsCopy, Replay!table
<1>3. ASSUME NEW o \in Operators, Replay!Enqueue(o)
      PROVE  IsCopy(d, l)'
  BY <1>1, <1>3 DEF Replay!TypeOK, IsCopy, Replay!Enqueue
<1>4. ASSUME NEW e \in Rows, NEW s \in {"delivered", "failed"}, Replay!Settle(e, s)
      PROVE  IsCopy(d, l)'
  BY <1>4 DEF Replay!TypeOK, IsCopy, Replay!Settle
<1> QED BY <1>2, <1>3, <1>4 DEF Replay!Next, Replay!vars, Replay!Step, Replay!FindLetter,
       Replay!FindConsumer, Replay!Mark, Replay!LoseRequest,
           Replay!DeleteConsumer

\* What a request enqueues is a copy of its letter.
LEMMA EnqueuesACopy ==
    ASSUME Replay!TypeOK, NEW o \in Operators, Replay!Enqueue(o)
    PROVE  \E d \in Rows : IsCopy(d, letter[o])'
<1>1. letter[o] \in Rows /\ status[letter[o]] = "failed" /\ letter' = letter
  BY DEF Replay!TypeOK, Replay!Enqueue, Replay!Letters, Replay!Goto
<1>2. PICK d \in Rows :
        /\ status[d] = "absent"
        /\ status' = [status EXCEPT ![d] = "open"]
        /\ consumer' = [consumer EXCEPT ![d] = consumer[letter[o]]]
        /\ from' = [from EXCEPT ![d] = letter[o]]
  BY DEF Replay!Enqueue
<1>3. d # letter[o]
  BY <1>1, <1>2
<1>4. IsCopy(d, letter[o])'
  BY <1>1, <1>2, <1>3 DEF Replay!TypeOK, IsCopy
<1> QED BY <1>4

LEMMA EnqueuedStays ==
    ASSUME Replay!ReplayAssumption, EnqueuedInv, [Replay!Next]_Replay!vars
    PROVE  EnqueuedInv'
<1>1. Replay!TypeOK /\ Replay!TypeOK' /\ AbsentIsBlank'
  BY TypesStay, AbsentStaysBlank DEF EnqueuedInv
<1>2. ASSUME NEW l \in Replay!Letters, \E d \in Rows : IsCopy(d, l)
      PROVE  (\E d \in Rows : IsCopy(d, l))'
  BY <1>1, <1>2, CopyStays
<1>3. MarksWhatItEnqueued'
  <2> SUFFICES ASSUME NEW o \in Operators, replayPc'[o] = "marking"
               PROVE  (\E d \in Rows : IsCopy(d, letter[o]))'
    BY DEF MarksWhatItEnqueued
  <2>1. CASE Replay!Enqueue(o)
    BY <1>1, <2>1, EnqueuesACopy
  <2>2. CASE ~Replay!Enqueue(o)
    <3>1. replayPc[o] = "marking" /\ letter'[o] = letter[o]
      BY <1>1, <2>2 DEF Replay!TypeOK, Replay!Next, Replay!vars, Replay!request, Replay!Step,
         Replay!FindLetter, Replay!FindConsumer, Replay!Enqueue,
         Replay!Mark, Replay!LoseRequest, Replay!Settle, Replay!DeleteConsumer, Replay!Goto,
         Replay!Finish
    <3>2. letter[o] \in Replay!Letters /\ \E d \in Rows : IsCopy(d, letter[o])
      BY <1>1, <3>1 DEF Replay!TypeOK, EnqueuedInv, MarksWhatItEnqueued
    <3>3. PICK l \in Replay!Letters : l = letter[o]
      BY <3>2
    <3>4. (\E d \in Rows : IsCopy(d, l))'
      BY <1>2, <3>2, <3>3
    <3> QED BY <3>1, <3>3, <3>4 DEF IsCopy
  <2> QED BY <2>1, <2>2
<1>4. (\A l \in replayed : \E d \in Rows : IsCopy(d, l))'
  <2> SUFFICES ASSUME NEW l \in replayed'
               PROVE  (\E d \in Rows : IsCopy(d, l))'
    OBVIOUS
  <2>1. CASE l \in replayed
    BY <1>1, <1>2, <2>1 DEF Replay!TypeOK, EnqueuedInv
  <2>2. CASE l \notin replayed
    <3>1. PICK o \in Operators : Replay!Mark(o) /\ l = letter[o]
      BY <2>2 DEF Replay!Next, Replay!vars, Replay!Step, Replay!FindLetter, Replay!FindConsumer,
         Replay!Enqueue, Replay!Mark, Replay!LoseRequest, Replay!Settle,
         Replay!DeleteConsumer
    <3>2. l \in Replay!Letters /\ \E d \in Rows : IsCopy(d, l)
      BY <1>1, <3>1 DEF Replay!TypeOK, EnqueuedInv, MarksWhatItEnqueued, Replay!Mark
    <3> QED BY <1>2, <3>2
  <2> QED BY <2>1, <2>2
<1> QED BY <1>1, <1>3, <1>4 DEF EnqueuedInv

\* No failure is lost by its replay: a letter that reads replayed has a delivery that was
\* enqueued for it, to the same consumer, however requests race and wherever they die
\* (dead-letter.service.ts 41-52: enqueue before update).
THEOREM ReplayIsEnqueued ==
    ASSUME Replay!ReplayAssumption
    PROVE  Replay!Spec => []ReplayedIsEnqueued
<1>1. Replay!Init => EnqueuedInv
  BY TypesStart DEF Replay!Init, EnqueuedInv, MarksWhatItEnqueued
<1>2. EnqueuedInv => ReplayedIsEnqueued
  BY DEF EnqueuedInv, ReplayedIsEnqueued, Replay!ReplayedIsEnqueued, IsCopy, Replay!Copies
<1> QED BY <1>1, <1>2, EnqueuedStays, PTL DEF Replay!Spec

-----------------------------------------------------------------------------
(* How often a letter is sent.                                               *)

\* The instance counts as FiniteSets does.
LEMMA SameCount ==
    /\ \A S : Replay!IsFiniteSet(S) <=> IsFiniteSet(S)
    /\ \A S : Replay!Cardinality(S) = Cardinality(S)
BY DEF IsFiniteSet, Replay!IsFiniteSet, Cardinality, Replay!Cardinality

LEMMA SizesAreNats ==
    ASSUME Replay!ReplayAssumption
    PROVE  /\ \A S \in SUBSET Operators : IsFiniteSet(S) /\ Cardinality(S) \in Nat
           /\ \A S \in SUBSET Rows : IsFiniteSet(S) /\ Cardinality(S) \in Nat
BY SameCount, FS_Subset, FS_CardinalityType DEF Replay!ReplayAssumption

\* To take from a set makes it no bigger, and to add to it bigger by one at most.
LEMMA SubsetIsSmaller ==
    ASSUME NEW S, IsFiniteSet(S), NEW T \in SUBSET S
    PROVE  Cardinality(T) <= Cardinality(S)
BY FS_Subset

LEMMA OneMoreAtMost ==
    ASSUME NEW S, IsFiniteSet(S), NEW x, NEW T \in SUBSET (S \cup {x})
    PROVE  Cardinality(T) <= Cardinality(S) + 1
<1>1. IsFiniteSet(S \cup {x})
      /\ Cardinality(S \cup {x}) = IF x \in S THEN Cardinality(S) ELSE Cardinality(S) + 1
  BY FS_AddElement
<1>2. Cardinality(T) <= Cardinality(S \cup {x}) /\ IsFiniteSet(T)
  BY <1>1, FS_Subset
<1>3. Cardinality(S) \in Nat /\ Cardinality(T) \in Nat /\ Cardinality(S \cup {x}) \in Nat
  BY <1>1, <1>2, FS_CardinalityType
<1> QED BY <1>1, <1>2, <1>3

\* Two kinds of operators that nobody belongs to both of.
LEMMA ApartAddUp ==
    ASSUME Replay!ReplayAssumption, NEW S \in SUBSET Operators, NEW T \in SUBSET Operators,
           S \cap T = {}
    PROVE  Cardinality(S) + Cardinality(T) <= Cardinality(Operators)
<1>1. IsFiniteSet(S) /\ IsFiniteSet(T) /\ S \cup T \in SUBSET Operators
  BY SizesAreNats
<1>2. Cardinality(S \cup T) = Cardinality(S) + Cardinality(T) - Cardinality(S \cap T)
  BY <1>1, FS_Union
<1>3. Cardinality(S \cap T) = 0
  BY FS_EmptySet
<1>4. Cardinality(S \cup T) <= Cardinality(Operators)
  BY <1>1, SameCount, SubsetIsSmaller DEF Replay!ReplayAssumption
<1>5. Cardinality(S) \in Nat /\ Cardinality(T) \in Nat
  BY SizesAreNats
<1> QED BY <1>2, <1>3, <1>4, <1>5

\* The two bounds of one letter.
PaidFor(l) ==
    l \notin replayed => Cardinality(Replay!Copies(l)) <= Cardinality(Marking(l)) + replayFaults
Bounded(l) ==
    Cardinality(Replay!Copies(l)) + Cardinality(Coming(l)) <= Cardinality(Operators) + replayFaults

LEMMA CopiesParts ==
    CopiesInv <=> Replay!TypeOK /\ AbsentIsBlank /\ \A l \in Rows : PaidFor(l) /\ Bounded(l)
BY DEF CopiesInv, PaidFor, Bounded

\* All counts are numbers, before and after a step.
LEMMA Numbers ==
    ASSUME Replay!ReplayAssumption, Replay!TypeOK, Replay!TypeOK', NEW l \in Rows
    PROVE  /\ Replay!Copies(l) \in SUBSET Rows /\ Replay!Copies(l)' \in SUBSET Rows
           /\ Marking(l) \in SUBSET Operators /\ Marking(l)' \in SUBSET Operators
           /\ Coming(l) \in SUBSET Operators /\ Coming(l)' \in SUBSET Operators
           /\ Cardinality(Replay!Copies(l)) \in Nat /\ Cardinality(Replay!Copies(l)') \in Nat
           /\ Cardinality(Marking(l)) \in Nat /\ Cardinality(Marking(l)') \in Nat
           /\ Cardinality(Coming(l)) \in Nat /\ Cardinality(Coming(l)') \in Nat
           /\ Cardinality(Operators) \in Nat /\ replayFaults \in Nat /\ replayFaults' \in Nat
<1>1. /\ Replay!Copies(l) \in SUBSET Rows /\ Replay!Copies(l)' \in SUBSET Rows
      /\ Marking(l) \in SUBSET Operators /\ Marking(l)' \in SUBSET Operators
      /\ Coming(l) \in SUBSET Operators /\ Coming(l)' \in SUBSET Operators
  BY DEF Replay!Copies, Marking, Coming
<1> QED BY <1>1, SizesAreNats DEF Replay!TypeOK

\* A step that adds neither a copy nor a request, nor lets one go from its mark.
LEMMA BoundsRest ==
    ASSUME Replay!ReplayAssumption, Replay!TypeOK, Replay!TypeOK', NEW l \in Rows, PaidFor(l),
           Bounded(l),
           replayed' = replayed, replayFaults' = replayFaults,
           Replay!Copies(l)' = Replay!Copies(l),
           Marking(l)' = Marking(l), Coming(l)' \subseteq Coming(l)
    PROVE  PaidFor(l)' /\ Bounded(l)'
<1>1. Cardinality(Coming(l)') <= Cardinality(Coming(l))
  BY Numbers, SizesAreNats, SubsetIsSmaller
<1> QED BY <1>1, Numbers DEF PaidFor, Bounded

LEMMA BoundsFindLetter ==
    ASSUME Replay!ReplayAssumption, Replay!TypeOK, Replay!TypeOK', NEW l \in Rows, PaidFor(l),
           Bounded(l),
           NEW o \in Operators, Replay!FindLetter(o, l)
    PROVE  PaidFor(l)' /\ Bounded(l)'
<1>1. Replay!Copies(l)' = Replay!Copies(l) /\ Marking(l)' = Marking(l)
  BY DEF Replay!TypeOK, Replay!FindLetter, Replay!Copies, Marking, Replay!table
<1>2. Coming(l)' \cap Marking(l) = {}
  BY <1>1 DEF Coming, Marking
<1>3. Cardinality(Coming(l)') + Cardinality(Marking(l)) <= Cardinality(Operators)
  BY <1>2, Numbers, ApartAddUp
<1>4. Cardinality(Replay!Copies(l)) <= Cardinality(Marking(l)) + replayFaults
  BY DEF PaidFor, Replay!FindLetter
<1> QED BY <1>1, <1>3, <1>4, Numbers DEF PaidFor, Bounded, Replay!FindLetter

LEMMA BoundsEnqueue ==
    ASSUME Replay!ReplayAssumption, Replay!TypeOK, Replay!TypeOK', AbsentIsBlank,
           NEW l \in Rows, PaidFor(l), Bounded(l), NEW o \in Operators, Replay!Enqueue(o)
    PROVE  PaidFor(l)' /\ Bounded(l)'
<1>1. PICK d \in Rows : status[d] = "absent" /\ from' = [from EXCEPT ![d] = letter[o]]
  BY DEF Replay!Enqueue
<1>2. UNCHANGED <<replayed, replayFaults, letter>>
      /\ replayPc' = [replayPc EXCEPT ![o] = "marking"]
  BY DEF Replay!Enqueue, Replay!Goto
<1>3. CASE letter[o] # l
  <2>1. Replay!Copies(l)' = Replay!Copies(l)
    BY <1>1, <1>3 DEF Replay!ReplayAssumption, Replay!TypeOK, AbsentIsBlank, Replay!Copies
  <2>2. Marking(l)' = Marking(l) /\ Coming(l)' \subseteq Coming(l)
    BY <1>2, <1>3 DEF Replay!TypeOK, Marking, Coming
  <2> QED BY <1>2, <2>1, <2>2, BoundsRest
<1>4. CASE letter[o] = l
  <2>1. /\ Replay!Copies(l)' \in SUBSET (Replay!Copies(l) \cup {d})
        /\ Coming(l)' = Coming(l) \ {o} /\ o \in Coming(l)
        /\ Marking(l)' = Marking(l) \cup {o} /\ o \notin Marking(l)
    BY <1>1, <1>2, <1>4 DEF Replay!TypeOK, Replay!Enqueue, Replay!Copies, Coming, Marking
  <2>2. Cardinality(Replay!Copies(l)') <= Cardinality(Replay!Copies(l)) + 1
    BY <2>1, Numbers, SizesAreNats, OneMoreAtMost
  <2>3. Cardinality(Coming(l)') = Cardinality(Coming(l)) - 1
    BY <2>1, Numbers, SizesAreNats, FS_RemoveElement
  <2>4. Cardinality(Marking(l)') = Cardinality(Marking(l)) + 1
    BY <2>1, Numbers, SizesAreNats, FS_AddElement
  <2> QED BY <1>2, <2>2, <2>3, <2>4, Numbers DEF PaidFor, Bounded
<1> QED BY <1>3, <1>4

LEMMA BoundsMark ==
    ASSUME Replay!ReplayAssumption, Replay!TypeOK, Replay!TypeOK', NEW l \in Rows, PaidFor(l),
           Bounded(l),
           NEW o \in Operators, Replay!Mark(o)
    PROVE  PaidFor(l)' /\ Bounded(l)'
<1>1. /\ UNCHANGED replayFaults /\ replayed' = replayed \cup {letter[o]}
      /\ Replay!Copies(l)' = Replay!Copies(l) /\ Coming(l)' = Coming(l)
      /\ letter[o] # l => Marking(l)' = Marking(l)
  BY DEF Replay!ReplayAssumption, Replay!TypeOK, Replay!Mark, Replay!Finish, Replay!Copies,
     Coming, Marking, Replay!table
<1> QED BY <1>1 DEF PaidFor, Bounded

LEMMA BoundsLose ==
    ASSUME Replay!ReplayAssumption, Replay!TypeOK, Replay!TypeOK', NEW l \in Rows, PaidFor(l),
           Bounded(l),
           NEW o \in Operators, Replay!LoseRequest(o)
    PROVE  PaidFor(l)' /\ Bounded(l)'
<1>1. /\ replayFaults' = replayFaults + 1 /\ UNCHANGED replayed
         /\ Replay!Copies(l)' = Replay!Copies(l)
      /\ Coming(l)' \subseteq Coming(l) /\ Marking(l) \subseteq Marking(l)' \cup {o}
  BY DEF Replay!ReplayAssumption, Replay!TypeOK, Replay!LoseRequest, Replay!Finish,
     Replay!Copies, Coming, Marking, Replay!table
<1>2. Cardinality(Coming(l)') <= Cardinality(Coming(l))
  BY <1>1, Numbers, SizesAreNats, SubsetIsSmaller
<1>3. Cardinality(Marking(l)) <= Cardinality(Marking(l)') + 1
  BY <1>1, Numbers, SizesAreNats, OneMoreAtMost
<1> QED BY <1>1, <1>2, <1>3, Numbers DEF PaidFor, Bounded

LEMMA CopiesStay ==
    ASSUME Replay!ReplayAssumption, CopiesInv, [Replay!Next]_Replay!vars
    PROVE  CopiesInv'
<1>1. Replay!TypeOK /\ Replay!TypeOK' /\ AbsentIsBlank /\ AbsentIsBlank'
  BY TypesStay, AbsentStaysBlank DEF CopiesInv
<1>2. ASSUME NEW l \in Rows
      PROVE  PaidFor(l)' /\ Bounded(l)'
  <2>1. PaidFor(l) /\ Bounded(l)
    BY CopiesParts
  <2>2. CASE UNCHANGED <<from, Replay!request, replayed, replayFaults>>
    BY <1>1, <2>1, <2>2, BoundsRest DEF Replay!Copies, Coming, Marking, Replay!request
  <2>3. ASSUME NEW o \in Operators, NEW m \in Rows, Replay!FindLetter(o, m), m # l
        PROVE  PaidFor(l)' /\ Bounded(l)'
    BY <1>1, <2>1, <2>3, BoundsRest
       DEF Replay!TypeOK, Replay!FindLetter, Replay!Copies, Coming, Marking, Replay!table
  <2>4. ASSUME NEW o \in Operators, Replay!FindConsumer(o)
        PROVE  PaidFor(l)' /\ Bounded(l)'
    BY <1>1, <2>1, <2>4, BoundsRest
       DEF Replay!TypeOK, Replay!FindConsumer, Replay!Goto, Replay!Finish, Replay!Copies,
           Coming,
       Marking, Replay!table, Replay!ReplayAssumption
  <2> QED BY <1>1, <2>1, <2>2, <2>3, <2>4, BoundsFindLetter, BoundsEnqueue, BoundsMark,
             BoundsLose DEF Replay!Next, Replay!vars, Replay!table, Replay!Step, Replay!Settle,
             Replay!DeleteConsumer
<1>3. (\A l \in Rows : PaidFor(l) /\ Bounded(l))'
  BY <1>2
<1> QED BY <1>1, <1>3 DEF CopiesInv, PaidFor, Bounded

\* A letter has no more copies than operators race between its look-up and its mark, and
\* requests die in between (dead-letter.service.ts 36-52).
THEOREM FewCopies ==
    ASSUME Replay!ReplayAssumption
    PROVE  Replay!Spec => []CopiesBounded
<1>1. ASSUME Replay!Init
      PROVE  CopiesInv
  <2>1. Replay!TypeOK /\ AbsentIsBlank
    BY <1>1, TypesStart
  <2>2. ASSUME NEW l \in Rows
        PROVE  PaidFor(l) /\ Bounded(l)
    <3>1. Replay!Copies(l) = {} /\ Coming(l) = {} /\ Marking(l) = {} /\ replayFaults = 0
      BY <1>1 DEF Replay!Init, Replay!Copies, Coming, Marking, Replay!ReplayAssumption
    <3>2. Cardinality(Operators) \in Nat
      BY SizesAreNats
    <3> QED BY <3>1, <3>2, FS_EmptySet DEF PaidFor, Bounded
  <2> QED BY <2>1, <2>2, CopiesParts
<1>2. ASSUME CopiesInv
      PROVE  CopiesBounded
  <2> SUFFICES ASSUME NEW l \in Rows
               PROVE  Cardinality(Replay!Copies(l)) <= Cardinality(Operators) + replayFaults
    BY SameCount DEF CopiesBounded, Replay!CopiesBounded
  <2>1. /\ Cardinality(Replay!Copies(l)) \in Nat /\ Cardinality(Coming(l)) \in Nat
        /\ Cardinality(Operators) \in Nat /\ replayFaults \in Nat
    BY <1>2, SizesAreNats DEF CopiesInv, Replay!TypeOK, Replay!Copies, Coming
  <2> QED BY <1>2, <2>1 DEF CopiesInv
<1> QED BY <1>1, <1>2, CopiesStay, PTL DEF Replay!Spec

-----------------------------------------------------------------------------
(* The checksum: entries in the order of their keys.                         *)

KeysOf(S) == {e[1] : e \in S}

\* What an object holds, and how it is written down.
Keyed(S) ==
    /\ IsFiniteSet(S)
    /\ KeysOf(S) \subseteq ObjectKeys
    /\ \A e, f \in S : e[1] = f[1] => e = f

EntryList(s) ==
    /\ s \in Seq(Checksum!Range(s))
    /\ KeysOf(Checksum!Range(s)) \subseteq ObjectKeys
    /\ \A i, j \in DOMAIN s : s[i][1] = s[j][1] => i = j

LEMMA SameCounts == \A S : Checksum!Cardinality(S) = Cardinality(S)
BY DEF Cardinality, Checksum!Cardinality, IsFiniteSet, Checksum!IsFiniteSet

LEMMA ListIsKeyed ==
    ASSUME NEW s, EntryList(s)
    PROVE  Keyed(Checksum!Range(s))
<1> DEFINE S == Checksum!Range(s)
<1>1. s \in Seq(S) /\ Len(s) \in Nat /\ DOMAIN s = 1..Len(s)
  BY DEF EntryList
<1>2. S = {s[i] : i \in 1..Len(s)}
  BY <1>1 DEF Checksum!Range
<1>3. IsFiniteSet(1..Len(s))
  BY <1>1, FS_Interval
<1>4. IsFiniteSet(S)
  <2>1. s \in Surjection(1..Len(s), S)
    BY <1>1, <1>2 DEF Surjection
  <2> QED BY <1>3, <2>1, FS_Surjection
<1>5. \A e, f \in S : e[1] = f[1] => e = f
  BY <1>1, <1>2 DEF EntryList
<1> QED BY <1>4, <1>5 DEF Keyed, EntryList

\* A sorted list has every entry in the one place that the count of those before it says.
LEMMA SortedIs ==
    ASSUME NEW S, NEW order, Keyed(S), Checksum!IsOrder(order, KeysOf(S))
    PROVE  EntryList(Checksum!Sorted(S, order)) /\ Checksum!Range(Checksum!Sorted(S, order)) = S
<1> DEFINE n == Cardinality(S)
           before(e) == {f \in S : <<f[1], e[1]>> \in order}
           rank == [e \in S |-> Cardinality(before(e))]
           s == Checksum!Sorted(S, order)
<1>1. IsFiniteSet(S) /\ n \in Nat
  BY FS_CardinalityType DEF Keyed
<1>2. ASSUME NEW e \in S PROVE before(e) \subseteq S \ {e} /\ IsFiniteSet(before(e))
  <2>1. <<e[1], e[1]>> \notin order
    BY DEF Checksum!IsOrder, KeysOf
  <2>2. before(e) \subseteq S \ {e}
    BY <2>1
  <2> QED BY <1>1, <2>2, FS_Subset
<1>3. ASSUME NEW e \in S PROVE rank[e] \in 0..(n - 1)
  <2>1. IsFiniteSet(S \ {e}) /\ Cardinality(S \ {e}) = n - 1
    BY <1>1, FS_RemoveElement
  <2>2. Cardinality(before(e)) \in Nat /\ Cardinality(before(e)) <= n - 1
    <3>1. before(e) \in SUBSET (S \ {e}) /\ IsFiniteSet(before(e))
      BY <1>2
    <3> HIDE DEF before, n
    <3> QED BY <2>1, <3>1, FS_Subset, FS_CardinalityType
  <2>3. rank[e] = Cardinality(before(e))
    OBVIOUS
  <2> HIDE DEF rank, before
  <2> QED BY <1>1, <2>2, <2>3
<1>4. ASSUME NEW e \in S, NEW f \in S, <<e[1], f[1]>> \in order PROVE rank[e] < rank[f]
  <2>1. before(e) \cup {e} \subseteq before(f)
    <3>1. ASSUME NEW g \in before(e) PROVE g \in before(f)
      <4>1. g[1] \in KeysOf(S) /\ e[1] \in KeysOf(S) /\ f[1] \in KeysOf(S)
        BY DEF KeysOf
      <4>2. <<g[1], f[1]>> \in order
        BY <1>4, <4>1 DEF Checksum!IsOrder
      <4> QED BY <4>2
    <3> QED BY <1>4, <3>1
  <2>2. e \notin before(e)
    BY <1>2
  <2>3. Cardinality(before(e) \cup {e}) = Cardinality(before(e)) + 1
    BY <1>2, <2>2, FS_AddElement
  <2>4. Cardinality(before(e) \cup {e}) <= Cardinality(before(f))
    BY <1>2, <2>1, FS_Subset
  <2>5. Cardinality(before(e)) \in Nat /\ Cardinality(before(f)) \in Nat
    BY <1>2, FS_CardinalityType
  <2> QED BY <2>3, <2>4, <2>5
<1>5. ASSUME NEW e \in S, NEW f \in S, rank[e] = rank[f] PROVE e = f
  <2>1. CASE e[1] = f[1]
    BY <2>1 DEF Keyed
  <2>2. CASE e[1] # f[1]
    <3>1. <<e[1], f[1]>> \in order \/ <<f[1], e[1]>> \in order
      BY <2>2 DEF Checksum!IsOrder, KeysOf
    <3>2. rank[e] < rank[f] \/ rank[f] < rank[e]
      BY <1>4, <3>1
    <3>3. rank[e] \in Nat
      BY <1>3
    <3> QED BY <1>5, <3>2, <3>3
  <2> QED BY <2>1, <2>2
<1>6. ASSUME NEW i \in 1..n PROVE \E e \in S : rank[e] = i - 1
  <2>1. rank \in Injection(S, 0..(n - 1))
    BY <1>3, <1>5 DEF Injection, IsInjective
  <2>2. IsFiniteSet(0..(n - 1)) /\ Cardinality(0..(n - 1)) = n
    <3> HIDE DEF n, rank
    <3>1. 0 \in Int /\ n - 1 \in Int
      BY <1>1
    <3> QED BY <1>1, <3>1, FS_Interval
  <2>3. rank \in Surjection(S, 0..(n - 1))
    BY <1>1, <2>1, <2>2, FS_Injection
  <2>4. i - 1 \in 0..(n - 1)
    BY <1>1
  <2> QED BY <2>3, <2>4 DEF Surjection
<1>7. s = [i \in 1..n |-> CHOOSE e \in S : Checksum!Cardinality(before(e)) = i - 1]
  <2>1. Checksum!Cardinality(S) = n
    BY SameCounts
  <2> QED BY <2>1 DEF Checksum!Sorted
<1>8. ASSUME NEW i \in 1..n PROVE s[i] \in S /\ rank[s[i]] = i - 1
  <2>1. \A e \in S : rank[e] = Checksum!Cardinality(before(e))
    BY SameCounts
  <2>2. s[i] = CHOOSE e \in S : Checksum!Cardinality(before(e)) = i - 1
    BY <1>7
  <2> HIDE DEF s, rank, before
  <2>3. \E e \in S : Checksum!Cardinality(before(e)) = i - 1
    BY <1>6, <2>1
  <2>4. s[i] \in S /\ Checksum!Cardinality(before(s[i])) = i - 1
    BY <2>2, <2>3, Zenon
  <2> QED BY <2>1, <2>4
<1> HIDE DEF s, rank
<1>9. ASSUME NEW e \in S PROVE \E i \in 1..n : s[i] = e
  <2>1. rank[e] + 1 \in 1..n /\ (rank[e] + 1) - 1 = rank[e]
    BY <1>1, <1>3
  <2>2. s[rank[e] + 1] \in S /\ rank[s[rank[e] + 1]] = rank[e]
    BY <1>8, <2>1
  <2> QED BY <1>5, <2>1, <2>2
<1>10. DOMAIN s = 1..n /\ s = [i \in 1..n |-> s[i]]
  <2> DEFINE entry(i) == CHOOSE e \in S : Checksum!Cardinality(before(e)) = i - 1
  <2>1. s = [i \in 1..n |-> entry(i)]
    BY <1>7
  <2> HIDE DEF entry, n
  <2> QED BY <2>1
<1>11. Checksum!Range(s) = S
  BY <1>8, <1>9, <1>10 DEF Checksum!Range
<1>12. s \in Seq(S)
  <2>1. s \in [1..n -> S]
    BY <1>8, <1>10
  <2> QED BY <1>1, <2>1, SeqDef
<1>13. ASSUME NEW i \in 1..n, NEW j \in 1..n, s[i][1] = s[j][1] PROVE i = j
  <2>1. s[i] = s[j]
    BY <1>8, <1>13 DEF Keyed
  <2>2. i - 1 = j - 1
    BY <1>8, <2>1
  <2> QED BY <1>1, <2>2
<1>14. KeysOf(S) \subseteq ObjectKeys
  BY DEF Keyed
<1>15. EntryList(s)
  BY <1>10, <1>11, <1>12, <1>13, <1>14 DEF EntryList
<1> QED BY <1>11, <1>15 DEF s

\* The keys of a list are in an order once indices are put first.
LEMMA JsOrderIs ==
    ASSUME Checksum!ChecksumAssumption, NEW s, EntryList(s)
    PROVE  Checksum!IsOrder(Checksum!JsOrder(s), KeysOf(Checksum!Range(s)))
<1> DEFINE K == KeysOf(Checksum!Range(s))
           added(j, k) == \E a, b \in DOMAIN s : a < b /\ s[a][1] = j /\ s[b][1] = k
<1>1. /\ K \subseteq ObjectKeys /\ DOMAIN s \subseteq Nat
      /\ \A k \in K : \E a \in DOMAIN s : s[a][1] = k
      /\ \A a, b \in DOMAIN s : s[a][1] = s[b][1] => a = b
  BY DEF EntryList, KeysOf, Checksum!Range
<1>2. ASSUME NEW j \in K, NEW k \in K
      PROVE  <<j, k>> \in Checksum!JsOrder(s) <=>
                IF k \in IntegerKeys THEN j \in IntegerKeys /\ <<j, k>> \in ByIndex
                ELSE j \in IntegerKeys \/ added(j, k)
  BY <1>1 DEF Checksum!JsOrder
<1>3. Checksum!IsOrder(ByIndex, IntegerKeys)
  BY DEF Checksum!ChecksumAssumption
<1>4. ASSUME NEW k \in K PROVE ~added(k, k)
  BY <1>1
<1>5. ASSUME NEW j \in K, NEW k \in K, j # k PROVE added(j, k) \/ added(k, j)
  <2>1. PICK a \in DOMAIN s, b \in DOMAIN s : s[a][1] = j /\ s[b][1] = k
    BY <1>1
  <2>2. a # b /\ a \in Nat /\ b \in Nat
    BY <1>1, <1>5, <2>1
  <2>3. a < b \/ b < a
    BY <2>2
  <2> QED BY <2>1, <2>3
<1>6. ASSUME NEW i \in K, NEW j \in K, NEW k \in K, added(i, j), added(j, k) PROVE added(i, k)
  <2>1. PICK a \in DOMAIN s, b \in DOMAIN s : a < b /\ s[a][1] = i /\ s[b][1] = j
    BY <1>6
  <2>2. PICK c \in DOMAIN s, d \in DOMAIN s : c < d /\ s[c][1] = j /\ s[d][1] = k
    BY <1>6
  <2>3. b = c
    BY <1>1, <2>1, <2>2
  <2>4. a \in Nat /\ b \in Nat /\ d \in Nat
    BY <1>1
  <2>5. a < d
    BY <2>1, <2>2, <2>3, <2>4
  <2> QED BY <2>1, <2>2, <2>5
<1> HIDE DEF added
<1>7. \A k \in K : <<k, k>> \notin Checksum!JsOrder(s)
  BY <1>2, <1>3, <1>4 DEF Checksum!IsOrder
<1>8. \A j, k \in K : j # k => <<j, k>> \in Checksum!JsOrder(s) \/ <<k, j>> \in Checksum!JsOrder(s)
  BY <1>2, <1>3, <1>5 DEF Checksum!IsOrder
<1>9. ASSUME NEW i \in K, NEW j \in K, NEW k \in K,
             <<i, j>> \in Checksum!JsOrder(s), <<j, k>> \in Checksum!JsOrder(s)
      PROVE  <<i, k>> \in Checksum!JsOrder(s)
  BY <1>2, <1>3, <1>6, <1>9 DEF Checksum!IsOrder
<1> QED BY <1>7, <1>8, <1>9 DEF Checksum!IsOrder

LEMMA OrderOfSome ==
    ASSUME NEW order, NEW K, NEW L \in SUBSET K, Checksum!IsOrder(order, K)
    PROVE  Checksum!IsOrder(order, L)
BY DEF Checksum!IsOrder

Passes == {"parse", "jsonb", "sort"}

\* A pass over an object keeps its entries.
LEMMA VisitKeeps ==
    ASSUME Checksum!ChecksumAssumption, NEW s, EntryList(s), NEW pass \in Passes
    PROVE  /\ EntryList(Checksum!Visit(pass, s))
           /\ Checksum!Range(Checksum!Visit(pass, s)) = Checksum!Range(s)
<1>1. ASSUME NEW t, EntryList(t)
      PROVE  /\ EntryList(Checksum!AddInOrder(t))
             /\ Checksum!Range(Checksum!AddInOrder(t)) = Checksum!Range(t)
  BY <1>1, ListIsKeyed, JsOrderIs, SortedIs DEF Checksum!AddInOrder
<1>2. ASSUME NEW order, Checksum!IsOrder(order, ObjectKeys)
      PROVE  /\ EntryList(Checksum!Sorted(Checksum!Range(s), order))
             /\ Checksum!Range(Checksum!Sorted(Checksum!Range(s), order)) = Checksum!Range(s)
  <2>1. Checksum!IsOrder(order, KeysOf(Checksum!Range(s)))
    BY <1>2, OrderOfSome DEF EntryList
  <2> QED BY <2>1, ListIsKeyed, SortedIs
<1>3. Checksum!IsOrder(ByCodeUnit, ObjectKeys) /\ Checksum!IsOrder(ByLength, ObjectKeys)
  BY DEF Checksum!ChecksumAssumption
<1>4. CASE pass = "parse"
  BY <1>1, <1>4 DEF Checksum!Visit
<1>5. CASE pass = "jsonb"
  BY <1>2, <1>3, <1>5 DEF Checksum!Visit
<1>6. CASE pass = "sort"
  BY <1>1, <1>2, <1>3, <1>6 DEF Checksum!Visit
<1> QED BY <1>4, <1>5, <1>6 DEF Passes

\* Those that sort know nothing of the order the entries had.
LEMMA VisitForgets ==
    ASSUME NEW s, NEW t, Checksum!Range(s) = Checksum!Range(t), NEW pass \in {"jsonb", "sort"}
    PROVE  Checksum!Visit(pass, s) = Checksum!Visit(pass, t)
BY DEF Checksum!Visit

-----------------------------------------------------------------------------
(* The checksum: documents.                                                  *)

IsDoc(v) ==
    /\ v = [p \in DOMAIN v |-> v[p]]
    /\ \A p \in DOMAIN v :
          v[p].kind = "object" => v[p] = Checksum!Object(v[p].entries) /\ EntryList(v[p].entries)

LEMMA DocumentIs == ASSUME NEW v, Checksum!IsDocument(v) PROVE IsDoc(v)
<1>1. ASSUME NEW p \in DOMAIN v, v[p].kind = "object"
      PROVE  v[p] = Checksum!Object(v[p].entries) /\ EntryList(v[p].entries)
  <2>1. Checksum!IsNode(v[p])
    BY DEF Checksum!IsDocument
  <2>2. v[p] = Checksum!Object(v[p].entries)
    BY <1>1, <2>1 DEF Checksum!IsNode, Checksum!Object, Checksum!Array
  <2> QED BY <1>1, <2>1, <2>2 DEF Checksum!IsNode, EntryList, KeysOf
<1> QED BY <1>1 DEF IsDoc, Checksum!IsDocument

\* A pass over a document keeps its value.
LEMMA ReorderKeeps ==
    ASSUME Checksum!ChecksumAssumption, NEW v, IsDoc(v), NEW pass \in Passes
    PROVE  /\ IsDoc(Checksum!Reorder(v, pass))
           /\ Checksum!Meaning(Checksum!Reorder(v, pass)) = Checksum!Meaning(v)
<1> DEFINE w == Checksum!Reorder(v, pass)
<1>1. /\ w = [p \in DOMAIN v |-> w[p]] /\ DOMAIN w = DOMAIN v
      /\ \A p \in DOMAIN v :
            w[p] = IF v[p].kind = "object"
                   THEN Checksum!Object(Checksum!Visit(pass, v[p].entries)) ELSE v[p]
  BY DEF Checksum!Reorder
<1>2. ASSUME NEW p \in DOMAIN v, v[p].kind = "object"
      PROVE  /\ w[p] = Checksum!Object(w[p].entries) /\ w[p].kind = "object"
             /\ EntryList(w[p].entries)
             /\ Checksum!Range(w[p].entries) = Checksum!Range(v[p].entries)
  <2>1. w[p] = Checksum!Object(Checksum!Visit(pass, v[p].entries))
    BY <1>1, <1>2
  <2>2. w[p].kind = "object" /\ w[p].entries = Checksum!Visit(pass, v[p].entries)
    BY <2>1 DEF Checksum!Object
  <2>3. EntryList(v[p].entries)
    BY <1>2 DEF IsDoc
  <2> QED BY <2>1, <2>2, <2>3, VisitKeeps
<1>3. ASSUME NEW p \in DOMAIN v, v[p].kind # "object" PROVE w[p] = v[p]
  BY <1>1, <1>3
<1> HIDE DEF w
<1>4. IsDoc(w)
  BY <1>1, <1>2, <1>3 DEF IsDoc
<1>5. Checksum!Meaning(w) = Checksum!Meaning(v)
  <2>1. ASSUME NEW p \in DOMAIN v
        PROVE  (IF w[p].kind = "object" THEN Checksum!Object(Checksum!Range(w[p].entries)) ELSE w[p])
             = (IF v[p].kind = "object" THEN Checksum!Object(Checksum!Range(v[p].entries)) ELSE v[p])
    BY <1>2, <1>3
  <2> QED BY <1>1, <2>1 DEF Checksum!Meaning
<1> QED BY <1>4, <1>5 DEF w

\* What two documents of one value have in common.
LEMMA MeaningIs ==
    ASSUME NEW u, NEW v, Checksum!Meaning(u) = Checksum!Meaning(v)
    PROVE  /\ DOMAIN u = DOMAIN v
           /\ \A p \in DOMAIN v :
                 \/ /\ u[p].kind = "object" /\ v[p].kind = "object"
                    /\ Checksum!Range(u[p].entries) = Checksum!Range(v[p].entries)
                 \/ u[p].kind # "object" /\ v[p].kind # "object" /\ u[p] = v[p]
<1> DEFINE value(node) == IF node.kind = "object"
                          THEN Checksum!Object(Checksum!Range(node.entries)) ELSE node
<1>1. /\ DOMAIN Checksum!Meaning(u) = DOMAIN u /\ DOMAIN Checksum!Meaning(v) = DOMAIN v
      /\ \A p \in DOMAIN u : Checksum!Meaning(u)[p] = value(u[p])
      /\ \A p \in DOMAIN v : Checksum!Meaning(v)[p] = value(v[p])
  BY DEF Checksum!Meaning
<1>2. DOMAIN u = DOMAIN v /\ \A p \in DOMAIN v : value(u[p]) = value(v[p])
  BY <1>1
<1>3. \A node : node.kind = "object" =>
          value(node).kind = "object" /\ value(node).entries = Checksum!Range(node.entries)
  BY DEF Checksum!Object
<1>4. \A node : node.kind # "object" => value(node) = node
  OBVIOUS
<1> HIDE DEF value
<1> QED BY <1>2, <1>3, <1>4

\* A pass that sorts makes one text of one value.
LEMMA OneText ==
    ASSUME NEW u, NEW v, Checksum!Meaning(u) = Checksum!Meaning(v), NEW pass \in {"jsonb", "sort"}
    PROVE  Checksum!Reorder(u, pass) = Checksum!Reorder(v, pass)
<1> DEFINE visited(node) == IF node.kind = "object"
                            THEN Checksum!Object(Checksum!Visit(pass, node.entries)) ELSE node
<1>1. DOMAIN u = DOMAIN v /\ \A p \in DOMAIN v : visited(u[p]) = visited(v[p])
  BY MeaningIs, VisitForgets
<1> QED BY <1>1 DEF Checksum!Reorder

\* The canonical text decides: it is one for documents of one value, and for no others.
LEMMA CanonicalDecides ==
    ASSUME Checksum!ChecksumAssumption, NEW u, NEW v, IsDoc(u), IsDoc(v)
    PROVE  Checksum!CanonicalJson(u) = Checksum!CanonicalJson(v)
                <=> Checksum!Meaning(u) = Checksum!Meaning(v)
BY OneText, ReorderKeeps DEF Passes, Checksum!CanonicalJson, Checksum!SortKeys

LEMMA JsonbIs ==
    ASSUME Checksum!ChecksumAssumption, NEW v, IsDoc(v)
    PROVE  /\ IsDoc(Checksum!JsonParse(v)) /\ Checksum!Meaning(Checksum!JsonParse(v)) = Checksum!Meaning(v)
           /\ IsDoc(Checksum!Jsonb(v)) /\ Checksum!Meaning(Checksum!Jsonb(v)) = Checksum!Meaning(v)
           /\ Checksum!Jsonb(Checksum!JsonParse(v)) = Checksum!Jsonb(v)
<1>1. IsDoc(Checksum!JsonParse(v)) /\ Checksum!Meaning(Checksum!JsonParse(v)) = Checksum!Meaning(v)
  BY ReorderKeeps DEF Passes, Checksum!JsonParse
<1>2. /\ IsDoc(Checksum!Reorder(v, "jsonb"))
      /\ Checksum!Meaning(Checksum!Reorder(v, "jsonb")) = Checksum!Meaning(v)
  BY ReorderKeeps DEF Passes
<1>3. IsDoc(Checksum!Jsonb(v)) /\ Checksum!Meaning(Checksum!Jsonb(v)) = Checksum!Meaning(v)
  BY <1>2, ReorderKeeps DEF Passes, Checksum!JsonParse, Checksum!Jsonb
<1>4. Checksum!Jsonb(Checksum!JsonParse(v)) = Checksum!Jsonb(v)
  BY <1>1, OneText DEF Checksum!Jsonb
<1> QED BY <1>1, <1>3, <1>4

-----------------------------------------------------------------------------
(* The checksum: the way of a payload.                                       *)

\* What a row carries on its way, and what the checksum in it was taken of.
OnItsWay ==
    /\ IsDoc(posted) /\ IsDoc(row)
    /\ source \in {"api", "schedule"} /\ stage \in {"client", "schedule", "event"}
    /\ stage # "event" => verdict = "none"
    /\ stage = "schedule" => source = "schedule" /\ row = Checksum!Jsonb(posted)
    /\ stage = "event" => checksum = IF source = "api" THEN Checksum!CanonicalJson(posted)
                                     ELSE Checksum!Jsonb(posted)
    /\ verdict # "none" => (verdict = "sent" <=> Checksum!CanonicalJson(row) = checksum)

LEMMA PayloadStarts == ASSUME Checksum!ChecksumAssumption PROVE Checksum!Init => OnItsWay
<1> SUFFICES ASSUME Checksum!Init PROVE OnItsWay
  OBVIOUS
<1>1. IsDoc(posted)
  BY DocumentIs DEF Checksum!Init, Checksum!ChecksumAssumption
<1>2. IsDoc(row)
  <2>1. row = [p \in {<<>>} |-> Checksum!Object(<<>>)]
    BY DEF Checksum!Init, Checksum!NoPayload
  <2>2. EntryList(<<>>)
    BY DEF EntryList, KeysOf, Checksum!Range
  <2>3. DOMAIN row = {<<>>} /\ row[<<>>] = Checksum!Object(<<>>)
    BY <2>1
  <2>4. Checksum!Object(<<>>).entries = <<>>
    BY DEF Checksum!Object
  <2> QED BY <2>1, <2>2, <2>3, <2>4 DEF IsDoc
<1> QED BY <1>1, <1>2 DEF Checksum!Init, OnItsWay

LEMMA PayloadGoesOn ==
    ASSUME Checksum!ChecksumAssumption
    PROVE  OnItsWay /\ [Checksum!Next]_Checksum!vars => OnItsWay'
<1> SUFFICES ASSUME OnItsWay, [Checksum!Next]_Checksum!vars PROVE OnItsWay'
  OBVIOUS
<1>1. IsDoc(Checksum!Jsonb(posted)) /\ Checksum!Jsonb(Checksum!JsonParse(posted)) = Checksum!Jsonb(posted)
  BY JsonbIs DEF OnItsWay
<1>2. CASE Checksum!Produce
  <2>1. Checksum!CanonicalJson(Checksum!JsonParse(posted)) = Checksum!CanonicalJson(posted)
    BY JsonbIs, CanonicalDecides DEF OnItsWay
  <2> QED BY <1>1, <1>2, <2>1 DEF OnItsWay, Checksum!Produce
<1>3. CASE Checksum!CreateSchedule
  BY <1>1, <1>3 DEF OnItsWay, Checksum!CreateSchedule
<1>4. CASE Checksum!Fire
  <2>1. IsDoc(Checksum!Jsonb(row))
    BY JsonbIs DEF OnItsWay
  <2> QED BY <1>4, <2>1 DEF OnItsWay, Checksum!Fire, Checksum!Stringify
<1>5. CASE Checksum!Damage
  <2>1. \A other \in Edits : IsDoc(Checksum!Jsonb(other))
    BY DocumentIs, JsonbIs DEF Checksum!ChecksumAssumption
  <2> QED BY <1>5, <2>1 DEF OnItsWay, Checksum!Damage
<1>6. CASE Checksum!Deliver
  BY <1>6 DEF OnItsWay, Checksum!Deliver
<1>7. CASE UNCHANGED Checksum!vars
  BY <1>7 DEF OnItsWay, Checksum!vars
<1> QED BY <1>2, <1>3, <1>4, <1>5, <1>6, <1>7 DEF Checksum!Next

\* What came through the API is sent if and only if it still has the value that was posted,
\* and what was scheduled where jsonb leaves it sorted, for any orders of keys and any depth
\* of nesting (canonical-json.helper.ts 3-13, delivery-service.ts 83-91).
THEOREM PayloadIsVerified ==
    ASSUME Checksum!ChecksumAssumption
    PROVE  Checksum!Spec => []PayloadVerified
<1>1. ASSUME OnItsWay PROVE PayloadVerified
  <2>1. Checksum!CanonicalJson(row) = Checksum!CanonicalJson(posted)
            <=> Checksum!Meaning(row) = Checksum!Meaning(posted)
    BY <1>1, CanonicalDecides DEF OnItsWay
  <2>2. Checksum!ApiPayloadVerified
    BY <1>1, <2>1 DEF OnItsWay, Checksum!ApiPayloadVerified
  <2>3. Checksum!ScheduledPayloadVerified
    BY <1>1, <2>1 DEF OnItsWay, Checksum!ScheduledPayloadVerified
  <2> QED BY <2>2, <2>3 DEF PayloadVerified
<1> QED BY <1>1, PayloadStarts, PayloadGoesOn, PTL DEF Checksum!Spec

-----------------------------------------------------------------------------
(* Side by side.                                                             *)

\* A behaviour of the combination that is model-checked is one of each part, so what is
\* proved of the requests, the replays and the payloads holds of it.
THEOREM PartsStandAlone == SideBySide => Spec /\ Replay!Spec /\ Checksum!Spec
<1>1. SideBySideInit => Init /\ Replay!Init /\ Checksum!Init
  BY DEF SideBySideInit
<1>2. UNCHANGED replayVars <=> UNCHANGED Replay!vars
  BY DEF replayVars, Replay!vars, Replay!table, Replay!request
<1>3. UNCHANGED checksumVars <=> UNCHANGED Checksum!vars
  BY DEF checksumVars, Checksum!vars
<1>4. ASSUME [SideBySideNext]_<<part, vars, replayVars, checksumVars>> PROVE [Next]_vars
  BY <1>4 DEF SideBySideNext
<1>5. ASSUME [SideBySideNext]_<<part, vars, replayVars, checksumVars>>
      PROVE  [Replay!Next]_Replay!vars
  BY <1>2, <1>5 DEF SideBySideNext
<1>6. ASSUME [SideBySideNext]_<<part, vars, replayVars, checksumVars>>
      PROVE  [Checksum!Next]_Checksum!vars
  BY <1>3, <1>6 DEF SideBySideNext
<1> QED
  BY <1>1, <1>4, <1>5, <1>6, PTL DEF SideBySide, Spec, Replay!Spec, Checksum!Spec
=============================================================================
