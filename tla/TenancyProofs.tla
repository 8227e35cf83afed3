----------------------------- MODULE TenancyProofs -----------------------------
(***************************************************************************)
(* That tenants stay apart, for any number of tenants, rows, requests and  *)
(* jobs.  The invariant adds to the references what a task knows of the    *)
(* rows it holds: from the statement that found or inserted a row on, the  *)
(* row has the task's tenant, and a row never changes its tenant.          *)
(***************************************************************************)
EXTENDS Tenancy, TLAPS

USE TenancyAssumption DEF Disjoint

\* Row r is there and has the tenant that task x acts for.
Home(x, r) == r \in Rows /\ owner[r] = identity[x]

\* The topic or schedule that the event of task x is for.
HasOrigin(x) ==
    /\ op[x] \in {"produce", "fire"}
    /\ arg[x] \in IF op[x] = "fire" THEN Schedules ELSE Topics
    /\ Home(x, arg[x])

\* What task x holds, by the statement it is about to run.
TaskOK(x) ==
    /\ pc[x] \notin {"idle", "anonymous"} => identity[x] \in Tenants /\ context[x] = identity[x]
    /\ pc[x] = "find" => op[x] \in Requests \ {"acknowledge"} /\ arg[x] \in Named(op[x])
    /\ pc[x] = "insert" =>
          \/ op[x] = "create" /\ arg[x] \in Topics /\ Home(x, arg[x])
          \/ HasOrigin(x)
    /\ pc[x] = "consumers" \/ (pc[x] = "enqueue" /\ op[x] # "replay") =>
          HasOrigin(x) /\ event[x] \in Events /\ Home(x, event[x])
    /\ pc[x] # "enqueue" => reach[x] = {}
    /\ \A c \in reach[x] : Home(x, c)
    /\ pc[x] \in {"event", "consumer", "settle"} \/ (pc[x] = "enqueue" /\ op[x] = "replay") =>
          arg[x] \in Deliveries /\ Home(x, arg[x])
    /\ pc[x] = "event" => op[x] = "deliver"
    /\ pc[x] = "consumer" => op[x] \in {"deliver", "replay"}
    /\ pc[x] = "save" => arg[x] \in Managed
    /\ pc[x] = "take" => arg[x] \in Consumers
    /\ pc[x] = "pick" => arg[x] \in Events

\* A delivery has a status once it is there.
StatusIfThere == \A d \in Deliveries : status[d] = "absent" <=> owner[d] = NoTenant

IInv ==
    /\ TypeOK
    /\ ReferencesStayHome
    /\ StatusIfThere
    /\ \A x \in Tasks : TaskOK(x)

-----------------------------------------------------------------------------
(* Parts of steps.                                                           *)

\* No row changes its tenant once it has one.
OwnersStay == \A r \in Rows : owner[r] # NoTenant => owner'[r] = owner[r]

Registers(y) == <<pc[y], op[y], arg[y], event[y], reach[y], identity[y], context[y]>>

\* What a task knows stays true while others work: rows do not move.
LEMMA OthersKeep ==
    ASSUME IInv, NEW y \in Tasks, OwnersStay, UNCHANGED Registers(y)
    PROVE  TaskOK(y)'
<1>1. \A r \in Rows : identity[y] \in Tenants /\ owner[r] = identity[y] => owner'[r] = identity[y]
    BY DEF OwnersStay
<1>2. pc'[y] = pc[y] /\ op'[y] = op[y] /\ arg'[y] = arg[y] /\ event'[y] = event[y]
      /\ reach'[y] = reach[y] /\ identity'[y] = identity[y] /\ context'[y] = context[y]
    BY DEF Registers
<1>3. TaskOK(y)
    BY DEF IInv
<1>4. \A r : identity[y] \in Tenants /\ Home(y, r) => Home(y, r)'
    BY <1>1, <1>2 DEF Home
<1>5. pc[y] \notin {"idle", "anonymous"} => identity[y] \in Tenants
    BY <1>3 DEF TaskOK
<1>6. identity[y] \in Tenants /\ HasOrigin(y) => HasOrigin(y)'
    BY <1>2, <1>4 DEF HasOrigin
<1>7. (pc[y] \notin {"idle", "anonymous"} => identity[y] \in Tenants /\ context[y] = identity[y])'
    BY <1>2, <1>3 DEF TaskOK
<1>8. (pc[y] = "find" => op[y] \in Requests \ {"acknowledge"} /\ arg[y] \in Named(op[y]))'
  <2>1. Named(op'[y]) = Named(op[y])
    BY <1>2
  <2>2. Named(op[y])' = Named(op'[y])
    BY DEF Named
  <2> QED BY <1>2, <1>3, <2>1, <2>2 DEF TaskOK
<1>9. (pc[y] = "insert" =>
          \/ op[y] = "create" /\ arg[y] \in Topics /\ Home(y, arg[y])
          \/ HasOrigin(y))'
  <2> SUFFICES ASSUME pc[y] = "insert" PROVE (\/ op[y] = "create" /\ arg[y] \in Topics /\ Home(y, arg[y])
                                              \/ HasOrigin(y))'
    BY <1>2
  <2>1. CASE op[y] = "create" /\ arg[y] \in Topics /\ Home(y, arg[y])
    BY <2>1, <1>2, <1>4, <1>5
  <2>2. CASE HasOrigin(y)
    BY <2>2, <1>5, <1>6
  <2> QED BY <2>1, <2>2, <1>3 DEF TaskOK
<1>10. (pc[y] = "consumers" \/ (pc[y] = "enqueue" /\ op[y] # "replay") =>
          HasOrigin(y) /\ event[y] \in Events /\ Home(y, event[y]))'
  <2> SUFFICES ASSUME pc[y] = "consumers" \/ (pc[y] = "enqueue" /\ op[y] # "replay")
               PROVE  (HasOrigin(y) /\ event[y] \in Events /\ Home(y, event[y]))'
    BY <1>2
  <2>1. HasOrigin(y) /\ event[y] \in Events /\ Home(y, event[y])
    BY <1>3 DEF TaskOK
  <2> QED BY <2>1, <1>2, <1>4, <1>5, <1>6
<1>11. (pc[y] # "enqueue" => reach[y] = {})' /\ (\A c \in reach[y] : Home(y, c))'
  <2>1. (pc[y] # "enqueue" => reach[y] = {}) /\ (\A c \in reach[y] : Home(y, c))
    BY <1>3 DEF TaskOK
  <2> QED BY <2>1, <1>2, <1>4, <1>5
<1>12. (pc[y] \in {"event", "consumer", "settle"} \/ (pc[y] = "enqueue" /\ op[y] = "replay") =>
          arg[y] \in Deliveries /\ Home(y, arg[y]))'
  <2> SUFFICES ASSUME pc[y] \in {"event", "consumer", "settle"} \/ (pc[y] = "enqueue" /\ op[y] = "replay")
               PROVE  (arg[y] \in Deliveries /\ Home(y, arg[y]))'
    BY <1>2
  <2>1. arg[y] \in Deliveries /\ Home(y, arg[y])
    BY <1>3 DEF TaskOK
  <2> QED BY <2>1, <1>2, <1>4, <1>5
<1>13. (/\ pc[y] = "event" => op[y] = "deliver"
        /\ pc[y] = "consumer" => op[y] \in {"deliver", "replay"}
        /\ pc[y] = "save" => arg[y] \in Managed
        /\ pc[y] = "take" => arg[y] \in Consumers
        /\ pc[y] = "pick" => arg[y] \in Events)'
    BY <1>2, <1>3 DEF TaskOK, Managed
<1> QED
    BY <1>7, <1>8, <1>9, <1>10, <1>11, <1>12, <1>13 DEF TaskOK

\* A task that is over holds nothing.
LEMMA FinishedHoldsNothing ==
    ASSUME TypeOK, NEW x \in Tasks, Finish(x)
    PROVE  TaskOK(x)'
BY DEF TypeOK, Finish, TaskOK

\* The registers of a finished task are well typed.
LEMMA FinishTypes ==
    ASSUME TypeOK, NEW x \in Tasks, Finish(x)
    PROVE  /\ pc' \in [Tasks -> PCs]
           /\ op' \in [Tasks -> Requests \cup Jobs \cup {"none"}]
           /\ arg' \in [Tasks -> Rows \cup {NoRow}]
           /\ event' \in [Tasks -> Events \cup {NoRow}]
           /\ reach' \in [Tasks -> SUBSET Consumers]
           /\ identity' \in [Tasks -> Tenants \cup {NoTenant}]
           /\ context' \in [Tasks -> Tenants \cup {NoTenant}]
BY DEF TypeOK, Finish, PCs

OthersRest(x) == \A y \in Tasks \ {x} : UNCHANGED Registers(y)

LEMMA GotoLeavesOthers ==
    ASSUME TypeOK, NEW x \in Tasks, NEW next, Goto(x, next)
    PROVE  OthersRest(x)
BY DEF TypeOK, Goto, OthersRest, Registers

LEMMA FinishLeavesOthers ==
    ASSUME TypeOK, NEW x \in Tasks, Finish(x)
    PROVE  OthersRest(x)
BY DEF TypeOK, Finish, OthersRest, Registers

\* A step of one task keeps the invariant if it does so for the rows and for that task.
LEMMA OneTaskMoves ==
    ASSUME IInv, NEW x \in Tasks, OthersRest(x), OwnersStay,
           TypeOK', ReferencesStayHome', StatusIfThere', TaskOK(x)'
    PROVE  IInv'
<1>1. ASSUME NEW y \in Tasks \ {x} PROVE TaskOK(y)'
    BY OthersKeep DEF OthersRest
<1>2. \A y \in Tasks : TaskOK(y)'
    BY <1>1
<1> QED
    BY <1>2 DEF IInv

-----------------------------------------------------------------------------
(* Steps that insert no row.                                                 *)

\* The rows refer to each other as before.
SameRows == UNCHANGED <<owner, topicOf, eventOf, consumerOf>>

\* The statuses that change are those of rows that are there.
Inserted == \A d \in Deliveries : status'[d] = "absent" <=> status[d] = "absent"

LEMMA RowsRest ==
    ASSUME IInv, SameRows, Inserted
    PROVE  OwnersStay /\ ReferencesStayHome' /\ StatusIfThere'
BY DEF IInv, SameRows, Inserted, OwnersStay, ReferencesStayHome, SameTenant, StatusIfThere

LEMMA TablesRest ==
    ASSUME IInv, UNCHANGED tables
    PROVE  OwnersStay /\ ReferencesStayHome' /\ StatusIfThere'
BY RowsRest DEF tables, SameRows, Inserted

\* A task that ends, whatever it did to the columns that say nothing of tenants.
LEMMA EndsWell ==
    ASSUME IInv, NEW x \in Tasks, Finish(x), SameRows, Inserted,
           status' \in [Deliveries -> Statuses],
           paused' \subseteq Consumers, deleted' \subseteq Managed, letters' \subseteq Deliveries
    PROVE  IInv'
<1>1. TypeOK
    BY DEF IInv
<1>2. TypeOK'
    BY <1>1, FinishTypes DEF TypeOK, SameRows
<1> QED
    BY <1>1, <1>2, RowsRest, FinishedHoldsNothing, FinishLeavesOthers, OneTaskMoves

LEMMA EndsQuietly ==
    ASSUME IInv, NEW x \in Tasks, Finish(x), UNCHANGED tables
    PROVE  IInv'
BY EndsWell DEF tables, SameRows, Inserted, IInv, TypeOK

\* A task that goes on to the next statement with what it holds.
LEMMA GoesOn ==
    ASSUME IInv, NEW x \in Tasks, NEW next \in PCs, Goto(x, next), UNCHANGED tables, TaskOK(x)'
    PROVE  IInv'
<1>1. TypeOK
    BY DEF IInv
<1>2. TypeOK'
    BY <1>1 DEF TypeOK, Goto, tables
<1> QED
    BY <1>1, <1>2, TablesRest, GotoLeavesOthers, OneTaskMoves

\* A task starts, with nothing or with a row of its tenant.
LEMMA Begins ==
    ASSUME IInv, NEW x \in Tasks, NEW o \in Jobs \cup {"none"}, NEW row \in Rows \cup {NoRow},
           NEW t \in Tenants \cup {NoTenant}, NEW first \in PCs,
           Begin(x, o, row, t, first), SameRows, Inserted,
           status' \in [Deliveries -> Statuses], UNCHANGED <<paused, deleted, letters>>,
           \/ first = "anonymous"
           \/ /\ first = "insert" /\ o = "fire" /\ row \in Schedules
              /\ t \in Tenants /\ owner[row] = t
           \/ /\ first = "event" /\ o = "deliver" /\ row \in Deliveries
              /\ t \in Tenants /\ owner[row] = t
    PROVE  IInv'
<1>1. TypeOK
    BY DEF IInv
<1>2. TypeOK'
    BY <1>1 DEF TypeOK, Begin, InContext, SameRows
<1>3. OthersRest(x)
    BY <1>1 DEF TypeOK, Begin, InContext, OthersRest, Registers
<1>4. reach[x] = {}
    BY DEF IInv, TaskOK, Begin
<1>5. /\ pc'[x] = first /\ op'[x] = o /\ arg'[x] = row /\ identity'[x] = t
      /\ context'[x] = t /\ reach'[x] = {} /\ owner' = owner
    BY <1>1, <1>4 DEF TypeOK, Begin, InContext, SameRows
<1>6. TaskOK(x)'
    BY <1>5 DEF TaskOK, HasOrigin, Home, Rows
<1> QED
    BY <1>2, <1>3, <1>6, RowsRest, OneTaskMoves

LEMMA StartSteps ==
    ASSUME IInv, NEW x \in Tasks,
           \/ Receive(x)
           \/ \E s \in Schedules : FireJob(x, s)
           \/ \E d \in Deliveries : ClaimJob(x, d)
    PROVE  IInv'
<1>1. TypeOK /\ StatusIfThere
    BY DEF IInv
<1>2. CASE Receive(x)
  <2>1. Begin(x, "none", NoRow, NoTenant, "anonymous") /\ UNCHANGED tables
    BY <1>2 DEF Receive
  <2> QED
    BY <2>1, <1>1, Begins DEF PCs, tables, SameRows, Inserted, TypeOK
<1>3. ASSUME NEW s \in Schedules, FireJob(x, s) PROVE IInv'
  <2>1. Begin(x, "fire", s, owner[s], "insert") /\ UNCHANGED tables /\ owner[s] # NoTenant
    BY <1>3 DEF FireJob
  <2>2. s \in Rows /\ owner[s] \in Tenants
    BY <1>1, <2>1 DEF TypeOK, Rows
  <2> QED
    BY <2>1, <2>2, <1>1, Begins DEF PCs, Jobs, tables, SameRows, Inserted, TypeOK
<1>4. ASSUME NEW d \in Deliveries, ClaimJob(x, d) PROVE IInv'
  <2>1. /\ Begin(x, "deliver", d, owner[d], "event")
        /\ SameRows /\ UNCHANGED <<paused, deleted, letters>>
        /\ status' = [status EXCEPT ![d] = "processing"] /\ status[d] = "pending"
    BY <1>4 DEF ClaimJob, SameRows
  <2>2. d \in Rows /\ owner[d] \in Tenants
    BY <1>1, <2>1 DEF TypeOK, Rows, StatusIfThere
  <2>3. Inserted /\ status' \in [Deliveries -> Statuses]
    BY <1>1, <2>1 DEF TypeOK, Statuses, Inserted
  <2> QED
    BY <2>1, <2>2, <2>3, Begins DEF PCs, Jobs
<1> QED BY <1>2, <1>3, <1>4

LEMMA AuthenticateStep ==
    ASSUME IInv, NEW x \in Tasks, NEW t \in Tenants, NEW o \in Requests, NEW row \in Rows,
           Authenticate(x, t, o, row)
    PROVE  IInv'
<1>1. TypeOK
    BY DEF IInv
<1>2. TypeOK'
    BY <1>1 DEF TypeOK, Authenticate, InContext, tables, PCs
<1>3. OthersRest(x)
    BY <1>1 DEF TypeOK, Authenticate, InContext, OthersRest, Registers
<1>4. reach[x] = {}
    BY DEF IInv, TaskOK, Authenticate
<1>5. /\ pc'[x] = IF o = "acknowledge" THEN "pick" ELSE "find"
      /\ op'[x] = o /\ arg'[x] = row /\ identity'[x] = t /\ context'[x] = t /\ reach'[x] = {}
    BY <1>1, <1>4 DEF TypeOK, Authenticate, InContext
<1>6. row \in Named(o) /\ (o = "acknowledge" => row \in Events)
    BY DEF Authenticate, Named
<1>7. TaskOK(x)'
  <2>1. CASE o = "acknowledge"
    BY <2>1, <1>5, <1>6 DEF TaskOK
  <2>2. CASE o # "acknowledge"
    <3>1. Named(o)' = Named(o)
      BY DEF Named
    <3> QED
      BY <2>2, <3>1, <1>5, <1>6 DEF TaskOK
  <2> QED BY <2>1, <2>2
<1> QED
    BY <1>2, <1>3, <1>7, TablesRest, OneTaskMoves DEF Authenticate

\* What a request finds has its tenant.
LEMMA FindStep ==
    ASSUME IInv, NEW x \in Tasks, Find(x)
    PROVE  IInv'
<1>1. TypeOK /\ TaskOK(x) /\ pc[x] = "find" /\ UNCHANGED tables
    BY DEF IInv, Find
<1>2. CASE Finish(x)
    BY <1>1, <1>2, EndsQuietly
<1>3. CASE Visible(x, arg[x]) /\ \E next \in PCs : Goto(x, next) /\
            next = CASE op[x] \in {"create", "produce"} -> "insert"
                     [] op[x] = "change"                -> "save"
                     [] op[x] = "consume"               -> "take"
                     [] op[x] = "replay"                -> "consumer"
  <2>1. PICK next \in PCs : Goto(x, next) /\
            next = CASE op[x] \in {"create", "produce"} -> "insert"
                     [] op[x] = "change"                -> "save"
                     [] op[x] = "consume"               -> "take"
                     [] op[x] = "replay"                -> "consumer"
    BY <1>3
  <2>2. /\ op[x] \in Requests \ {"acknowledge"} /\ arg[x] \in Named(op[x])
        /\ identity[x] \in Tenants /\ context[x] = identity[x] /\ reach[x] = {}
        /\ owner[arg[x]] = identity[x]
    BY <1>1, <1>3 DEF TaskOK, Visible
  <2>3. /\ pc'[x] = next /\ op'[x] = op[x] /\ arg'[x] = arg[x] /\ identity'[x] = identity[x]
        /\ context'[x] = context[x] /\ reach'[x] = reach[x] /\ owner' = owner
    BY <2>1, <1>1 DEF Goto, TypeOK, tables
  <2>4. CASE op[x] \in {"create", "produce"}
    <3>1. next = "insert" /\ arg[x] \in Topics
      BY <2>1, <2>2, <2>4 DEF Named
    <3> QED
      BY <2>1, <2>2, <2>3, <2>4, <3>1, <1>1, GoesOn DEF TaskOK, HasOrigin, Home, Rows
  <2>5. CASE op[x] = "change"
    <3>1. next = "save" /\ arg[x] \in Managed
      BY <2>1, <2>2, <2>5 DEF Named
    <3> QED
      BY <2>1, <2>2, <2>3, <2>5, <3>1, <1>1, GoesOn DEF TaskOK
  <2>6. CASE op[x] = "consume"
    <3>1. next = "take" /\ arg[x] \in Consumers
      BY <2>1, <2>2, <2>6 DEF Named
    <3> QED
      BY <2>1, <2>2, <2>3, <2>6, <3>1, <1>1, GoesOn DEF TaskOK
  <2>7. CASE op[x] = "replay"
    <3>1. next = "consumer" /\ arg[x] \in Deliveries
      BY <2>1, <2>2, <2>7 DEF Named
    <3> QED
      BY <2>1, <2>2, <2>3, <2>7, <3>1, <1>1, GoesOn DEF TaskOK, Home, Rows
  <2> QED
    BY <2>2, <2>4, <2>5, <2>6, <2>7 DEF Requests
<1>4. op[x] \in Requests \ {"acknowledge"}
    BY <1>1 DEF TaskOK
<1>5. CASE Visible(x, arg[x]) /\ ~Finish(x)
  <2>1. PICK next : next = (CASE op[x] \in {"create", "produce"} -> "insert"
                     [] op[x] = "change"                -> "save"
                     [] op[x] = "consume"               -> "take"
                     [] op[x] = "replay"                -> "consumer")
    OBVIOUS
  <2>2. next \in PCs
    BY <2>1, <1>4 DEF Requests, PCs
  <2>3. Goto(x, next)
    BY <2>1, <1>5 DEF Find
  <2> QED BY <2>1, <2>2, <2>3, <1>5, <1>3
<1> QED
    BY <1>2, <1>5 DEF Find

LEMMA QuietSteps ==
    ASSUME IInv, NEW x \in Tasks,
           \/ Save(x) \/ Take(x) \/ Lose(x)
           \/ \E s \in Statuses : Settle(x, s)
    PROVE  IInv'
<1>1. TypeOK /\ TaskOK(x)
    BY DEF IInv
<1>2. CASE Save(x)
  <2>1. arg[x] \in Managed
    BY <1>1, <1>2 DEF Save, TaskOK
  <2>2. /\ Finish(x) /\ SameRows /\ status' = status
        /\ paused' \subseteq Consumers /\ deleted' \subseteq Managed /\ letters' = letters
    BY <1>1, <1>2, <2>1 DEF Save, SameRows, TypeOK
  <2> QED BY <1>1, <2>2, EndsWell DEF Inserted, TypeOK
<1>3. CASE Take(x)
  <2>1. /\ Finish(x) /\ SameRows /\ UNCHANGED <<paused, deleted, letters>>
        /\ status' = [d \in Deliveries |->
                    IF /\ status[d] = "pending"
                       /\ consumerOf[d] = arg[x]
                       /\ owner[d] = identity[x]
                    THEN "processing" ELSE status[d]]
    BY <1>3 DEF Take, SameRows
  <2>2. Inserted /\ status' \in [Deliveries -> Statuses]
    BY <2>1, <1>1 DEF TypeOK, Statuses, Inserted
  <2> QED BY <1>1, <2>1, <2>2, EndsWell DEF TypeOK
<1>4. CASE Lose(x)
    BY <1>4, EndsQuietly DEF Lose
<1>5. ASSUME NEW s \in Statuses, Settle(x, s) PROVE IInv'
  <2>1. /\ Finish(x) /\ SameRows /\ UNCHANGED <<paused, deleted>>
        /\ s \in {"pending", "delivered", "failed"}
        /\ status' = [status EXCEPT ![arg[x]] = s]
    BY <1>5 DEF Settle, Becomes, SameRows
  <2>2. arg[x] \in Deliveries /\ owner[arg[x]] = identity[x] /\ identity[x] \in Tenants
    BY <1>1, <1>5 DEF Settle, TaskOK, Home
  <2>3. status[arg[x]] # "absent"
    BY <2>2 DEF IInv, StatusIfThere
  <2>4. Inserted /\ status' \in [Deliveries -> Statuses]
    BY <2>1, <2>2, <2>3, <1>1 DEF TypeOK, Statuses, Inserted
  <2>5. letters' \subseteq Deliveries
    BY <1>1, <1>5, <2>2 DEF Settle, Becomes, TypeOK
  <2> QED BY <1>1, <2>1, <2>4, <2>5, EndsWell DEF TypeOK
<1> QED BY <1>2, <1>3, <1>4, <1>5

\* Looking on: an event in work, an event's job, the letter's or the job's consumer.
LEMMA LookUpSteps ==
    ASSUME IInv, NEW x \in Tasks, Pick(x) \/ FindEvent(x) \/ FindConsumer(x)
    PROVE  IInv'
<1>1. TypeOK /\ TaskOK(x)
    BY DEF IInv
<1>2. CASE Finish(x) /\ UNCHANGED tables
    BY <1>2, EndsQuietly
<1>3. ASSUME NEW d \in AtWork(x), pc[x] = "pick",
             arg' = [arg EXCEPT ![x] = d], pc' = [pc EXCEPT ![x] = "settle"],
             UNCHANGED <<op, event, reach, identity, context>>, UNCHANGED tables
      PROVE  IInv'
  <2>1. TypeOK'
    BY <1>1, <1>3 DEF TypeOK, tables, PCs, AtWork, Rows
  <2>2. OthersRest(x)
    BY <1>1, <1>3 DEF TypeOK, OthersRest, Registers
  <2>3. /\ pc'[x] = "settle" /\ arg'[x] = d /\ reach'[x] = {} /\ identity'[x] = identity[x]
        /\ context'[x] = context[x] /\ context[x] = identity[x] /\ identity[x] \in Tenants
    BY <1>1, <1>3 DEF TypeOK, TaskOK
  <2>4. d \in Deliveries /\ owner'[d] = context[x]
    BY <1>3 DEF AtWork, Visible, tables
  <2>5. TaskOK(x)'
    BY <2>3, <2>4 DEF TaskOK, Home, Rows
  <2> QED
    BY <1>3, <2>1, <2>2, <2>5, TablesRest, OneTaskMoves
<1>4. CASE Pick(x)
    BY <1>2, <1>3, <1>4 DEF Pick
<1>5. CASE pc[x] = "event" /\ Goto(x, "consumer") /\ UNCHANGED tables
  <2>1. /\ pc'[x] = "consumer" /\ op'[x] = op[x] /\ arg'[x] = arg[x] /\ reach'[x] = reach[x]
        /\ identity'[x] = identity[x] /\ context'[x] = context[x] /\ owner' = owner
    BY <1>1, <1>5 DEF Goto, TypeOK, tables
  <2>2. TaskOK(x)'
    BY <1>1, <1>5, <2>1 DEF TaskOK, Home
  <2> QED
    BY <1>5, <2>2, GoesOn DEF PCs
<1>6. CASE FindEvent(x)
    BY <1>2, <1>5, <1>6 DEF FindEvent
<1>7. ASSUME NEW next \in {"enqueue", "settle"}, pc[x] = "consumer", Goto(x, next),
             next = IF op[x] = "replay" THEN "enqueue" ELSE "settle", UNCHANGED tables
      PROVE  IInv'
  <2>1. /\ pc'[x] = next /\ op'[x] = op[x] /\ arg'[x] = arg[x] /\ reach'[x] = reach[x]
        /\ identity'[x] = identity[x] /\ context'[x] = context[x] /\ owner' = owner
    BY <1>1, <1>7 DEF Goto, TypeOK, tables
  <2>2. TaskOK(x)'
    BY <1>1, <1>7, <2>1 DEF TaskOK, Home
  <2> QED
    BY <1>7, <2>2, GoesOn DEF PCs
<1>8. ASSUME pc[x] = "consumer", Finish(x), SameRows, UNCHANGED <<paused, deleted>>,
             IF op[x] = "deliver" THEN Becomes(arg[x], "failed")
             ELSE UNCHANGED <<status, letters>>
      PROVE  IInv'
  <2>1. arg[x] \in Deliveries /\ owner[arg[x]] = identity[x] /\ identity[x] \in Tenants
    BY <1>1, <1>8 DEF TaskOK, Home
  <2>2. status[arg[x]] # "absent"
    BY <2>1 DEF IInv, StatusIfThere
  <2>3. Inserted /\ status' \in [Deliveries -> Statuses]
    BY <2>1, <2>2, <1>8, <1>1 DEF Becomes, TypeOK, Statuses, Inserted
  <2>4. letters' \subseteq Deliveries
    BY <1>1, <1>8, <2>1 DEF Becomes, TypeOK
  <2> QED
    BY <1>1, <1>8, <2>3, <2>4, EndsWell DEF TypeOK
<1>9. CASE FindConsumer(x)
  <2>1. CASE Goto(x, IF op[x] = "replay" THEN "enqueue" ELSE "settle") 
             /\ UNCHANGED <<status, letters>>
    BY <1>7, <1>9, <2>1 DEF FindConsumer, tables
  <2>2. CASE Finish(x) /\ IF op[x] = "deliver" THEN Becomes(arg[x], "failed")
                         ELSE UNCHANGED <<status, letters>>
    BY <1>8, <1>9, <2>2 DEF FindConsumer, SameRows
  <2> QED
    BY <1>9, <2>1, <2>2 DEF FindConsumer
<1> QED BY <1>4, <1>6, <1>9

\* The consumers a fan-out reads have the event's tenant.
LEMMA ReadConsumersStep ==
    ASSUME IInv, NEW x \in Tasks, ReadConsumers(x)
    PROVE  IInv'
<1>1. TypeOK /\ TaskOK(x) /\ pc[x] = "consumers" /\ UNCHANGED tables
    BY DEF IInv, ReadConsumers
<1>2. CASE Finish(x)
    BY <1>1, <1>2, EndsQuietly
<1>3. CASE /\ reach' = [reach EXCEPT ![x] = Subscribed(x)]
           /\ pc' = [pc EXCEPT ![x] = "enqueue"]
           /\ UNCHANGED <<op, arg, event, identity, context>>
  <2>1. TypeOK'
    BY <1>1, <1>3 DEF TypeOK, tables, PCs, Subscribed
  <2>2. OthersRest(x)
    BY <1>1, <1>3 DEF TypeOK, OthersRest, Registers
  <2>3. /\ pc'[x] = "enqueue" /\ reach'[x] = Subscribed(x) /\ op'[x] = op[x]
        /\ arg'[x] = arg[x] /\ event'[x] = event[x] /\ identity'[x] = identity[x]
        /\ context'[x] = context[x] /\ owner' = owner
    BY <1>1, <1>3 DEF TypeOK, tables
  <2>4. /\ HasOrigin(x) /\ event[x] \in Events /\ Home(x, event[x])
        /\ identity[x] \in Tenants /\ context[x] = identity[x]
    BY <1>1 DEF TaskOK
  <2>5. \A c \in Subscribed(x) : Home(x, c)
    BY <2>4 DEF Subscribed, Visible, Home, Rows
  <2>6. (\A c \in reach[x] : Home(x, c))'
    BY <2>3, <2>5 DEF Home
  <2>7. TaskOK(x)'
    BY <2>3, <2>4, <2>6 DEF TaskOK, HasOrigin, Home
  <2> QED
    BY <1>1, <2>1, <2>2, <2>7, TablesRest, OneTaskMoves
<1> QED
    BY <1>2, <1>3 DEF ReadConsumers

-----------------------------------------------------------------------------
(* Steps that insert a row.                                                  *)

Arrives(row, t) == owner[row] = NoTenant /\ owner' = [owner EXCEPT ![row] = t]

\* A new row has no rows that refer to it, and the others keep their tenants.
LEMMA RowArrives ==
    ASSUME IInv, NEW row \in Rows, NEW t \in Tenants, Arrives(row, t)
    PROVE  /\ OwnersStay
           /\ owner' \in [Rows -> Tenants \cup {NoTenant}] /\ owner'[row] = t
           /\ \A p \in Rows : owner[p] = t => p # row /\ owner'[p] = t
           /\ \A q \in Rows \ {row}, p \in Rows \cup {NoRow} :
                 SameTenant(q, p) /\ owner'[q] # NoTenant => p # NoRow /\ owner'[p] = owner'[q]
<1>1. owner \in [Rows -> Tenants \cup {NoTenant}] /\ NoTenant \notin Tenants
    BY DEF IInv, TypeOK
<1>2. \A r \in Rows : owner'[r] = IF r = row THEN t ELSE owner[r]
    BY <1>1 DEF Arrives
<1>3. owner[row] = NoTenant
    BY DEF Arrives
<1>4. owner' \in [Rows -> Tenants \cup {NoTenant}]
    BY <1>1 DEF Arrives
<1> QED
    BY <1>1, <1>2, <1>3, <1>4 DEF OwnersStay, SameTenant

\* A row on a topic of its tenant.
LEMMA ChildArrives ==
    ASSUME IInv, NEW row \in OnTopic, NEW t \in Tenants, NEW topic \in Topics,
           Arrives(row, t), owner[topic] = t,
           topicOf' = [topicOf EXCEPT ![row] = topic],
           UNCHANGED <<eventOf, consumerOf, status>>
    PROVE  /\ OwnersStay /\ ReferencesStayHome' /\ StatusIfThere'
           /\ topicOf' \in [OnTopic -> Topics \cup {NoRow}]
           /\ owner' \in [Rows -> Tenants \cup {NoTenant}] /\ owner'[row] = t
<1>1. row \in Rows /\ topic \in Rows /\ OnTopic \subseteq Rows /\ Deliveries \subseteq Rows
    BY DEF Rows, OnTopic
<1>2. /\ OwnersStay
      /\ owner' \in [Rows -> Tenants \cup {NoTenant}] /\ owner'[row] = t /\ owner'[topic] = t
      /\ \A q \in Rows \ {row}, p \in Rows \cup {NoRow} :
            SameTenant(q, p) /\ owner'[q] # NoTenant => p # NoRow /\ owner'[p] = owner'[q]
    BY <1>1, RowArrives
<1>3. TypeOK /\ ReferencesStayHome /\ StatusIfThere
    BY DEF IInv
<1>4. ASSUME NEW r \in OnTopic PROVE SameTenant(r, topicOf[r])'
  <2>1. CASE r = row
    <3>1. topicOf'[r] = topic /\ topic # NoRow
      BY <1>1, <1>3, <2>1 DEF TypeOK
    <3> QED BY <3>1, <1>2, <2>1 DEF SameTenant
  <2>2. CASE r # row
    <3>1. topicOf'[r] = topicOf[r] /\ topicOf[r] \in Rows \cup {NoRow} /\ SameTenant(r, topicOf[r])
      BY <1>3, <2>2 DEF TypeOK, ReferencesStayHome, Rows
    <3> QED BY <3>1, <1>1, <1>2, <2>2 DEF SameTenant
  <2> QED BY <2>1, <2>2
<1>5. ASSUME NEW d \in Deliveries PROVE (SameTenant(d, eventOf[d]) /\ SameTenant(d, consumerOf[d]))'
  <2>1. /\ eventOf[d] \in Rows \cup {NoRow} /\ consumerOf[d] \in Rows \cup {NoRow}
        /\ SameTenant(d, eventOf[d]) /\ SameTenant(d, consumerOf[d])
    BY <1>3 DEF TypeOK, ReferencesStayHome, Rows
  <2>2. d \in Rows \ {row}
    BY <1>1 DEF OnTopic
  <2> QED BY <2>1, <2>2, <1>2 DEF SameTenant
<1>6. \A d \in Deliveries : d # row /\ owner'[d] = owner[d]
    BY <1>1, <1>3 DEF TypeOK, OnTopic, Arrives
<1>7. StatusIfThere'
    BY <1>3, <1>6 DEF StatusIfThere
<1>8. topicOf' \in [OnTopic -> Topics \cup {NoRow}]
    BY <1>3 DEF TypeOK
<1> QED
    BY <1>2, <1>4, <1>5, <1>7, <1>8 DEF ReferencesStayHome

\* A delivery of an event to a consumer, both of its tenant.
LEMMA DeliveryArrives ==
    ASSUME IInv, NEW d \in Deliveries, NEW t \in Tenants, NEW e \in Events, NEW c \in Consumers,
           Arrives(d, t), owner[e] = t, owner[c] = t,
           eventOf' = [eventOf EXCEPT ![d] = e],
           consumerOf' = [consumerOf EXCEPT ![d] = c],
           status' = [status EXCEPT ![d] = "pending"],
           UNCHANGED topicOf
    PROVE  /\ OwnersStay /\ ReferencesStayHome' /\ StatusIfThere'
           /\ owner' \in [Rows -> Tenants \cup {NoTenant}]
           /\ eventOf' \in [Deliveries -> Events \cup {NoRow}]
           /\ consumerOf' \in [Deliveries -> Consumers \cup {NoRow}]
           /\ status' \in [Deliveries -> Statuses]
<1>1. /\ d \in Rows /\ e \in Rows /\ c \in Rows
      /\ OnTopic \subseteq Rows /\ Deliveries \subseteq Rows
    BY DEF Rows, OnTopic
<1>2. /\ OwnersStay
      /\ owner' \in [Rows -> Tenants \cup {NoTenant}] /\ owner'[d] = t
      /\ owner'[e] = t /\ owner'[c] = t
      /\ \A q \in Rows \ {d}, p \in Rows \cup {NoRow} :
            SameTenant(q, p) /\ owner'[q] # NoTenant => p # NoRow /\ owner'[p] = owner'[q]
    BY <1>1, RowArrives
<1>3. TypeOK /\ ReferencesStayHome /\ StatusIfThere
    BY DEF IInv
<1>4. ASSUME NEW r \in OnTopic PROVE SameTenant(r, topicOf[r])'
  <2>1. topicOf[r] \in Rows \cup {NoRow} /\ SameTenant(r, topicOf[r])
    BY <1>3 DEF TypeOK, ReferencesStayHome, Rows
  <2>2. r \in Rows \ {d}
    BY <1>1 DEF OnTopic
  <2> QED BY <2>1, <2>2, <1>2 DEF SameTenant
<1>5. ASSUME NEW q \in Deliveries
      PROVE  (SameTenant(q, eventOf[q]) /\ SameTenant(q, consumerOf[q]))'
  <2>1. CASE q = d
    <3>1. eventOf'[q] = e /\ consumerOf'[q] = c /\ e # NoRow /\ c # NoRow
      BY <1>1, <1>3, <2>1 DEF TypeOK
    <3> QED BY <3>1, <1>2, <2>1 DEF SameTenant
  <2>2. CASE q # d
    <3>1. /\ eventOf'[q] = eventOf[q] /\ consumerOf'[q] = consumerOf[q]
          /\ eventOf[q] \in Rows \cup {NoRow} /\ consumerOf[q] \in Rows \cup {NoRow}
          /\ SameTenant(q, eventOf[q]) /\ SameTenant(q, consumerOf[q])
      BY <1>3, <2>2 DEF TypeOK, ReferencesStayHome, Rows
    <3> QED BY <3>1, <1>1, <1>2, <2>2 DEF SameTenant
  <2> QED BY <2>1, <2>2
<1>6. \A q \in Deliveries : /\ owner'[q] = IF q = d THEN t ELSE owner[q]
                            /\ status'[q] = IF q = d THEN "pending" ELSE status[q]
    BY <1>1, <1>3 DEF TypeOK, Arrives
<1>7. StatusIfThere'
    BY <1>3, <1>6 DEF StatusIfThere
<1>8. /\ eventOf' \in [Deliveries -> Events \cup {NoRow}]
      /\ consumerOf' \in [Deliveries -> Consumers \cup {NoRow}]
      /\ status' \in [Deliveries -> Statuses]
    BY <1>3 DEF TypeOK, Statuses
<1> QED
    BY <1>2, <1>4, <1>5, <1>7, <1>8 DEF ReferencesStayHome

LEMMA InsertChildStep ==
    ASSUME IInv, NEW x \in Tasks, NEW row \in Rows, InsertChild(x, row)
    PROVE  IInv'
<1>1. TypeOK /\ TaskOK(x) /\ Finish(x)
    BY DEF IInv, InsertChild
<1>2. /\ row \in OnTopic /\ arg[x] \in Topics
      /\ identity[x] \in Tenants /\ owner[arg[x]] = identity[x]
    BY <1>1 DEF InsertChild, TaskOK, HasOrigin, Home, OnTopic
<1>3. Arrives(row, identity[x]) /\ UNCHANGED <<eventOf, consumerOf, status>>
    BY DEF InsertChild, NewRow, Arrives
<1>4. topicOf' = [topicOf EXCEPT ![row] = arg[x]] /\ UNCHANGED <<paused, deleted, letters>>
    BY DEF InsertChild
<1>5. /\ OwnersStay /\ ReferencesStayHome' /\ StatusIfThere'
      /\ topicOf' \in [OnTopic -> Topics \cup {NoRow}]
      /\ owner' \in [Rows -> Tenants \cup {NoTenant}]
    BY <1>2, <1>3, <1>4, ChildArrives
<1>6. TypeOK'
    BY <1>1, <1>3, <1>4, <1>5, FinishTypes DEF TypeOK
<1> QED
    BY <1>1, <1>5, <1>6, FinishedHoldsNothing, FinishLeavesOthers, OneTaskMoves

\* A schedule that fires is on a topic of its own tenant, without a look-up.
LEMMA InsertEventStep ==
    ASSUME IInv, NEW x \in Tasks, NEW e \in Events, InsertEvent(x, e)
    PROVE  IInv'
<1>1. /\ TypeOK /\ TaskOK(x) /\ ReferencesStayHome /\ pc[x] = "insert"
      /\ op[x] \in {"produce", "fire"}
    BY DEF IInv, InsertEvent
<1>2. HasOrigin(x) /\ identity[x] \in Tenants /\ context[x] = identity[x] /\ reach[x] = {}
    BY <1>1 DEF TaskOK
<1>3. TopicFor(x) \in Topics /\ owner[TopicFor(x)] = identity[x]
  <2>1. CASE op[x] = "fire"
    <3>1. arg[x] \in OnTopic /\ owner[arg[x]] = identity[x] /\ TopicFor(x) = topicOf[arg[x]]
      BY <1>2, <2>1 DEF HasOrigin, Home, OnTopic, TopicFor
    <3>2. SameTenant(arg[x], topicOf[arg[x]]) /\ topicOf[arg[x]] \in Topics \cup {NoRow}
      BY <3>1, <1>1 DEF ReferencesStayHome, TypeOK
    <3> QED BY <3>1, <3>2, <1>2 DEF SameTenant
  <2>2. CASE op[x] = "produce"
    BY <1>2, <2>2 DEF HasOrigin, Home, TopicFor
  <2> QED BY <1>1, <2>1, <2>2
<1>4. /\ Arrives(e, identity[x]) /\ UNCHANGED <<eventOf, consumerOf, status>>
      /\ topicOf' = [topicOf EXCEPT ![e] = TopicFor(x)]
      /\ UNCHANGED <<paused, deleted, letters, op, arg, reach, identity, context>>
      /\ pc' = [pc EXCEPT ![x] = "consumers"] /\ event' = [event EXCEPT ![x] = e]
    BY DEF InsertEvent, NewRow, Arrives
<1>5. /\ OwnersStay /\ ReferencesStayHome' /\ StatusIfThere'
      /\ topicOf' \in [OnTopic -> Topics \cup {NoRow}]
      /\ owner' \in [Rows -> Tenants \cup {NoTenant}] /\ owner'[e] = identity[x]
    BY <1>2, <1>3, <1>4, ChildArrives DEF OnTopic
<1>6. TypeOK'
    BY <1>1, <1>4, <1>5 DEF TypeOK, PCs
<1>7. OthersRest(x)
    BY <1>1, <1>4 DEF TypeOK, OthersRest, Registers
<1>8. /\ pc'[x] = "consumers" /\ op'[x] = op[x] /\ arg'[x] = arg[x] /\ event'[x] = e
      /\ reach'[x] = {} /\ identity'[x] = identity[x] /\ context'[x] = identity[x]
    BY <1>1, <1>2, <1>4 DEF TypeOK
<1>9. owner'[arg[x]] = identity[x] /\ arg[x] \in Rows /\ e \in Rows
    BY <1>2, <1>5 DEF HasOrigin, Home, OwnersStay, Rows
<1>10. TaskOK(x)'
    BY <1>2, <1>5, <1>8, <1>9 DEF TaskOK, HasOrigin, Home
<1> QED
    BY <1>5, <1>6, <1>7, <1>10, OneTaskMoves

LEMMA EnqueueStep ==
    ASSUME IInv, NEW x \in Tasks, NEW c \in Consumers, NEW d \in Deliveries, Enqueue(x, c, d)
    PROVE  IInv'
<1>1. /\ TypeOK /\ TaskOK(x) /\ pc[x] = "enqueue" /\ op[x] \in {"produce", "fire"}
      /\ c \in reach[x]
    BY DEF IInv, Enqueue
<1>2. /\ HasOrigin(x) /\ event[x] \in Events /\ Home(x, event[x])
      /\ identity[x] \in Tenants /\ context[x] = identity[x]
      /\ \A q \in reach[x] : Home(x, q)
    BY <1>1 DEF TaskOK
<1>3. /\ Arrives(d, identity[x]) /\ UNCHANGED <<topicOf, paused, deleted, letters>>
      /\ eventOf' = [eventOf EXCEPT ![d] = event[x]]
      /\ consumerOf' = [consumerOf EXCEPT ![d] = c]
      /\ status' = [status EXCEPT ![d] = "pending"]
    BY DEF Enqueue, NewRow, Arrives
<1>4. owner[event[x]] = identity[x] /\ owner[c] = identity[x]
    BY <1>1, <1>2 DEF Home
<1>5. /\ OwnersStay /\ ReferencesStayHome' /\ StatusIfThere'
      /\ owner' \in [Rows -> Tenants \cup {NoTenant}]
      /\ eventOf' \in [Deliveries -> Events \cup {NoRow}]
      /\ consumerOf' \in [Deliveries -> Consumers \cup {NoRow}]
      /\ status' \in [Deliveries -> Statuses]
    BY <1>2, <1>3, <1>4, DeliveryArrives
<1>6. CASE Finish(x)
  <2>1. TypeOK'
    BY <1>1, <1>3, <1>5, <1>6, FinishTypes DEF TypeOK
  <2> QED
    BY <1>1, <1>5, <1>6, <2>1, FinishedHoldsNothing, FinishLeavesOthers, OneTaskMoves
<1>7. CASE reach' = [reach EXCEPT ![x] = @ \ {c}] /\ UNCHANGED <<pc, op, arg, event, identity, context>>
  <2>1. TypeOK'
    BY <1>1, <1>3, <1>5, <1>7 DEF TypeOK
  <2>2. OthersRest(x)
    BY <1>1, <1>7 DEF TypeOK, OthersRest, Registers
  <2>3. reach'[x] = reach[x] \ {c}
    BY <1>1, <1>7 DEF TypeOK
  <2>4. \A r \in Rows : owner[r] = identity[x] => owner'[r] = identity[x]
    BY <1>2, <1>5 DEF OwnersStay
  <2>5. \A r : Home(x, r) => Home(x, r)'
    BY <1>7, <2>4 DEF Home
  <2>6. HasOrigin(x)' /\ Home(x, event[x])' /\ (\A q \in reach[x] : Home(x, q))'
    BY <1>2, <1>7, <2>3, <2>5 DEF HasOrigin, Home
  <2>7. TaskOK(x)'
    BY <1>1, <1>2, <1>7, <2>6 DEF TaskOK
  <2> QED
    BY <1>5, <2>1, <2>2, <2>7, OneTaskMoves
<1> QED
    BY <1>6, <1>7 DEF Enqueue

\* A replayed delivery takes over references that were at home.
LEMMA EnqueueReplayStep ==
    ASSUME IInv, NEW x \in Tasks, NEW d \in Deliveries, EnqueueReplay(x, d)
    PROVE  IInv'
<1>1. /\ TypeOK /\ TaskOK(x) /\ ReferencesStayHome /\ pc[x] = "enqueue" /\ op[x] = "replay"
      /\ Finish(x)
    BY DEF IInv, EnqueueReplay
<1>2. /\ arg[x] \in Deliveries /\ owner[arg[x]] = identity[x] /\ identity[x] \in Tenants
    BY <1>1 DEF TaskOK, Home
<1>3. /\ eventOf[arg[x]] \in Events /\ owner[eventOf[arg[x]]] = identity[x]
      /\ consumerOf[arg[x]] \in Consumers /\ owner[consumerOf[arg[x]]] = identity[x]
    BY <1>1, <1>2 DEF TypeOK, ReferencesStayHome, SameTenant
<1>4. /\ Arrives(d, identity[x]) /\ UNCHANGED <<topicOf, paused, deleted, letters>>
      /\ eventOf' = [eventOf EXCEPT ![d] = eventOf[arg[x]]]
      /\ consumerOf' = [consumerOf EXCEPT ![d] = consumerOf[arg[x]]]
      /\ status' = [status EXCEPT ![d] = "pending"]
    BY <1>2 DEF EnqueueReplay, Arrives
<1>5. /\ OwnersStay /\ ReferencesStayHome' /\ StatusIfThere'
      /\ owner' \in [Rows -> Tenants \cup {NoTenant}]
      /\ eventOf' \in [Deliveries -> Events \cup {NoRow}]
      /\ consumerOf' \in [Deliveries -> Consumers \cup {NoRow}]
      /\ status' \in [Deliveries -> Statuses]
    BY <1>2, <1>3, <1>4, DeliveryArrives
<1>6. TypeOK'
    BY <1>1, <1>4, <1>5, FinishTypes DEF TypeOK
<1> QED
    BY <1>1, <1>5, <1>6, FinishedHoldsNothing, FinishLeavesOthers, OneTaskMoves

-----------------------------------------------------------------------------
(* The invariant.                                                            *)

\* The worker's timers put a row back for whoever comes next.
LEMMA ReleaseStep ==
    ASSUME IInv, NEW d \in Deliveries, Release(d)
    PROVE  IInv'
<1>1. TypeOK /\ StatusIfThere
    BY DEF IInv
<1>2. /\ SameRows /\ UNCHANGED <<paused, deleted, letters, work>>
      /\ status' = [status EXCEPT ![d] = "pending"] /\ status[d] = "processing"
    BY DEF Release, SameRows
<1>3. Inserted /\ status' \in [Deliveries -> Statuses]
    BY <1>1, <1>2 DEF TypeOK, Inserted, Statuses
<1>4. TypeOK'
    BY <1>1, <1>2, <1>3 DEF TypeOK, SameRows, work
<1>5. OwnersStay /\ ReferencesStayHome' /\ StatusIfThere'
    BY <1>2, <1>3, RowsRest
<1>6. ASSUME NEW y \in Tasks PROVE TaskOK(y)'
  <2>1. UNCHANGED Registers(y)
    BY <1>2 DEF Registers, work
  <2> QED BY <1>5, <2>1, OthersKeep
<1> QED
    BY <1>4, <1>5, <1>6 DEF IInv

LEMMA Starts == Init => IInv
<1> SUFFICES ASSUME Init PROVE IInv
    OBVIOUS
<1>1. \A x \in Tasks : TaskOK(x)
    BY DEF Init, TaskOK
<1>2. \A d \in Deliveries : d \in Rows /\ owner[d] = NoTenant /\ status[d] = "absent"
  <2>1. \A d \in Deliveries : d \in Rows /\ d \notin Topics /\ d \notin Consumers
    BY DEF Rows, OnTopic
  <2> QED BY <2>1 DEF Init
<1>3. \A t \in Topics : t \in Rows /\ owner[t] = TopicOwner[t] /\ TopicOwner[t] \in Tenants
  <2>1. \A t \in Topics : t \in Rows /\ t \notin Consumers /\ TopicOwner[t] \in Tenants
    BY DEF Rows, OnTopic
  <2> QED BY <2>1 DEF Init
<1>4. \A c \in Consumers : /\ c \in Rows /\ topicOf[c] = FirstOn[c]
                           /\ FirstOn[c] \in Topics \cup {NoRow}
                           /\ owner[c] = IF FirstOn[c] # NoRow THEN TopicOwner[FirstOn[c]]
                                         ELSE NoTenant
  <2>1. \A c \in Consumers : c \in Rows /\ c \in OnTopic /\ c \notin Topics
    BY DEF Rows, OnTopic
  <2> QED BY <2>1 DEF Init
<1>5. \A r \in OnTopic \ Consumers : r \in Rows /\ topicOf[r] = NoRow /\ owner[r] = NoTenant
  <2>1. \A r \in OnTopic \ Consumers : r \in Rows /\ r \notin Topics
    BY DEF Rows, OnTopic
  <2> QED BY <2>1 DEF Init
<1>6. TypeOK
  <2>1. \A r \in Rows : owner[r] \in Tenants \cup {NoTenant}
    BY <1>2, <1>3, <1>4, <1>5 DEF Rows, OnTopic
  <2>2. owner \in [Rows -> Tenants \cup {NoTenant}]
    BY <2>1 DEF Init
  <2>3. topicOf \in [OnTopic -> Topics \cup {NoRow}]
    BY DEF Init
  <2> QED BY <2>2, <2>3 DEF Init, TypeOK, Statuses, PCs
<1>7. ReferencesStayHome
  <2>1. \A c \in Consumers : SameTenant(c, topicOf[c])
    BY <1>3, <1>4 DEF SameTenant
  <2>2. \A r \in OnTopic \ Consumers : SameTenant(r, topicOf[r])
    BY <1>5 DEF SameTenant
  <2>3. \A d \in Deliveries : SameTenant(d, eventOf[d]) /\ SameTenant(d, consumerOf[d])
    BY <1>2 DEF SameTenant
  <2> QED BY <2>1, <2>2, <2>3 DEF ReferencesStayHome
<1>8. StatusIfThere
    BY <1>2 DEF StatusIfThere
<1> QED BY <1>1, <1>6, <1>7, <1>8 DEF IInv

LEMMA Steps == IInv /\ [Next]_vars => IInv'
<1> SUFFICES ASSUME IInv, [Next]_vars PROVE IInv'
    OBVIOUS
<1>1. ASSUME NEW x \in Tasks, RequestStep(x) PROVE IInv'
    BY <1>1, StartSteps, AuthenticateStep, FindStep, InsertChildStep, QuietSteps, LookUpSteps,
       EnqueueReplayStep DEF RequestStep
<1>2. ASSUME NEW x \in Tasks, JobStep(x) PROVE IInv'
    BY <1>2, StartSteps, LookUpSteps DEF JobStep
<1>3. ASSUME NEW x \in Tasks, SharedStep(x) PROVE IInv'
    BY <1>3, InsertEventStep, ReadConsumersStep, EnqueueStep, QuietSteps, LookUpSteps
    DEF SharedStep
<1>4. CASE UNCHANGED vars
  <2>1. TypeOK' /\ OwnersStay /\ ReferencesStayHome' /\ StatusIfThere'
    BY <1>4, TablesRest DEF vars, tables, work, IInv, TypeOK
  <2>2. ASSUME NEW y \in Tasks PROVE TaskOK(y)'
    <3>1. UNCHANGED Registers(y)
      BY <1>4 DEF vars, work, Registers
    <3> QED BY <2>1, <3>1, OthersKeep
  <2> QED BY <2>1, <2>2 DEF IInv
<1> QED
    BY <1>1, <1>2, <1>3, <1>4, ReleaseStep DEF Next

LEMMA Holds == Spec => []IInv
BY Starts, Steps, PTL DEF Spec

-----------------------------------------------------------------------------
(* The theorems.                                                             *)

\* Types: every column and register stays in its range.
THEOREM TypeCorrect == Spec => []TypeOK
BY Holds, PTL DEF IInv

\* Rows refer only to rows of their own tenant, for any number of tenants and tasks
\* (the look-ups in consumer.service.ts, event.service.ts and dead-letter.service.ts).
THEOREM TenantsApart == Spec => []ReferencesStayHome
BY Holds, PTL DEF IInv

\* No job is lost to a tenant filter: delivery-service.ts finds the event it claimed.
THEOREM EventIsFound == Spec => []JobsSeeTheirEvent
<1>1. IInv => JobsSeeTheirEvent
  <2> SUFFICES ASSUME IInv, NEW x \in Tasks, pc[x] = "event"
               PROVE  Visible(x, eventOf[arg[x]])
    BY DEF JobsSeeTheirEvent
  <2>1. /\ arg[x] \in Deliveries /\ owner[arg[x]] = identity[x]
        /\ identity[x] \in Tenants /\ context[x] = identity[x]
    BY DEF IInv, TaskOK, Home
  <2>2. /\ eventOf[arg[x]] \in Events \cup {NoRow} /\ SameTenant(arg[x], eventOf[arg[x]])
        /\ deleted \subseteq Managed
    BY <2>1 DEF IInv, TypeOK, ReferencesStayHome
  <2>3. eventOf[arg[x]] \in Events /\ owner[eventOf[arg[x]]] = context[x]
    BY <2>1, <2>2 DEF SameTenant
  <2>4. eventOf[arg[x]] \notin Managed
    BY <2>3 DEF Managed, OnTopic
  <2> QED BY <2>1, <2>2, <2>3, <2>4 DEF Visible
<1> QED BY <1>1, Holds, PTL

-----------------------------------------------------------------------------
(* What is written.                                                          *)

\* A row that a step of task x touches has the tenant that x acts for.
LEMMA TouchesItsOwn ==
    ASSUME IInv, NEW x \in Tasks, RequestStep(x) \/ JobStep(x) \/ SharedStep(x),
           NEW r \in Rows, Touched(r)
    PROVE  owner'[r] = IF pc[x] = "idle" THEN identity'[x] ELSE identity[x]
<1>1. TypeOK /\ TaskOK(x)
    BY DEF IInv
<1>2. ~UNCHANGED tables
    BY DEF Touched, tables
<1>3. ASSUME NEW d \in Deliveries, ClaimJob(x, d)
      PROVE  owner'[r] = IF pc[x] = "idle" THEN identity'[x] ELSE identity[x]
  <2>1. r = d /\ owner' = owner
    BY <1>1, <1>3 DEF ClaimJob, Touched, TypeOK
  <2>2. pc[x] = "idle" /\ identity'[x] = owner[d]
    BY <1>1, <1>3 DEF ClaimJob, Begin, TypeOK
  <2> QED BY <2>1, <2>2
<1>4. ASSUME NEW row \in Rows, InsertChild(x, row) \/ InsertEvent(x, row)
      PROVE  owner'[r] = identity[x] /\ pc[x] # "idle"
    BY <1>1, <1>4 DEF InsertChild, InsertEvent, NewRow, Touched, TypeOK
<1>5. ASSUME NEW c \in Consumers, NEW d \in Deliveries, Enqueue(x, c, d)
      PROVE  owner'[r] = identity[x] /\ pc[x] # "idle"
  <2>1. d \in Rows
    BY DEF Rows
  <2> QED BY <1>1, <1>5, <2>1 DEF Enqueue, NewRow, Touched, TypeOK
<1>6. ASSUME NEW d \in Deliveries, EnqueueReplay(x, d)
      PROVE  owner'[r] = identity[x] /\ pc[x] # "idle"
  <2>1. d \in Rows /\ owner[arg[x]] = identity[x]
    BY <1>1, <1>6 DEF EnqueueReplay, TaskOK, Home, Rows
  <2> QED BY <1>1, <1>6, <2>1 DEF EnqueueReplay, Touched, TypeOK
<1>7. CASE Save(x)
  <2>1. r = arg[x] /\ owner'[r] = context[x] /\ pc[x] = "save"
    BY <1>1, <1>7 DEF Save, Touched, TypeOK
  <2>2. owner'[r] = identity[x]
    BY <1>1, <2>1 DEF TaskOK
  <2> QED BY <2>1, <2>2
<1>8. CASE Take(x)
  <2>1. owner' = owner /\ r \in Deliveries /\ status'[r] # status[r]
    BY <1>8 DEF Take, Touched
  <2>2. owner[r] = identity[x] /\ pc[x] = "take"
    BY <1>8, <2>1 DEF Take
  <2> QED BY <2>1, <2>2
<1>9. ASSUME NEW s \in Statuses, Settle(x, s) \/ FindConsumer(x)
      PROVE  owner'[r] = identity[x] /\ pc[x] # "idle"
  <2>1. /\ owner' = owner /\ r \in Deliveries /\ status'[r] # status[r]
        /\ pc[x] \in {"settle", "consumer"}
    BY <1>9 DEF Settle, FindConsumer, Becomes, Touched
  <2>2. \/ \E v \in Statuses : status' = [status EXCEPT ![arg[x]] = v]
        \/ status' = status
    BY <1>9 DEF Settle, FindConsumer, Becomes, Statuses
  <2>3. r = arg[x]
    BY <1>1, <2>1, <2>2 DEF TypeOK
  <2>4. owner[arg[x]] = identity[x]
    BY <1>1, <2>1 DEF TaskOK, Home
  <2> QED BY <2>1, <2>3, <2>4
<1>10. CASE RequestStep(x)
  <2>1. CASE Receive(x) \/ Find(x) \/ Pick(x)
    BY <1>2, <2>1 DEF Receive, Find, Pick
  <2>2. ASSUME NEW t, NEW o, NEW row, Authenticate(x, t, o, row) PROVE FALSE
    BY <1>2, <2>2 DEF Authenticate
  <2> QED
    BY <1>4, <1>6, <1>7, <1>8, <1>10, <2>1, <2>2 DEF RequestStep
<1>11. CASE JobStep(x)
  <2>1. ASSUME NEW s, FireJob(x, s) PROVE FALSE
    BY <1>2, <2>1 DEF FireJob
  <2>2. ~FindEvent(x)
    BY <1>2 DEF FindEvent
  <2> QED
    BY <1>3, <1>11, <2>1, <2>2 DEF JobStep
<1>12. CASE SharedStep(x)
  <2>1. ~ReadConsumers(x) /\ ~Lose(x)
    BY <1>2 DEF ReadConsumers, Lose
  <2>2. Events \subseteq Rows /\ "failed" \in Statuses
    BY DEF Rows, OnTopic, Statuses
  <2>3. CASE FindConsumer(x)
    BY <1>9, <2>2, <2>3
  <2> QED
    BY <1>4, <1>5, <1>9, <1>12, <2>1, <2>2, <2>3 DEF SharedStep
<1> QED BY <1>10, <1>11, <1>12

\* Only the task itself goes on.
LEMMA OneActs ==
    ASSUME IInv, NEW x \in Tasks, NEW y \in Tasks,
           RequestStep(x) \/ JobStep(x) \/ SharedStep(x), Acts(y)
    PROVE  y = x
<1>1. pc \in [Tasks -> PCs] /\ reach \in [Tasks -> SUBSET Consumers]
    BY DEF IInv, TypeOK
<1>2. SUFFICES ASSUME y # x PROVE pc'[y] = pc[y] /\ reach'[y] = reach[y]
    BY DEF Acts
<1>3. CASE RequestStep(x)
    BY <1>1, <1>2, <1>3
    DEF RequestStep, Receive, Begin, Authenticate, Find, InsertChild, Save, Take, Pick,
        EnqueueReplay, Goto, Finish
<1>4. CASE JobStep(x)
    BY <1>1, <1>2, <1>4 DEF JobStep, FireJob, ClaimJob, Begin, FindEvent, Goto, Finish
<1>5. CASE SharedStep(x)
    BY <1>1, <1>2, <1>5
    DEF SharedStep, InsertEvent, ReadConsumers, Enqueue, Settle, FindConsumer, Lose, Goto, Finish
<1> QED BY <1>3, <1>4, <1>5

\* Whatever a task writes is its tenant's, also through the statements of
\* postgres-queue-engine.ts that do not ask for a tenant.
THEOREM TasksWriteTheirOwn == Spec => WritesStayHome
<1>1. ASSUME IInv, [Next]_vars
      PROVE  [\A x \in Tasks : Acts(x) =>
                \A r \in Rows : Touched(r) =>
                  owner'[r] = IF pc[x] = "idle" THEN identity'[x] ELSE identity[x]]_vars
  <2>1. SUFFICES ASSUME Next, NEW x \in Tasks, Acts(x), NEW r \in Rows, Touched(r)
                 PROVE  owner'[r] = IF pc[x] = "idle" THEN identity'[x] ELSE identity[x]
    BY <1>1
  <2>2. ASSUME NEW y \in Tasks, RequestStep(y) \/ JobStep(y) \/ SharedStep(y)
        PROVE  owner'[r] = IF pc[x] = "idle" THEN identity'[x] ELSE identity[x]
    <3>1. x = y
      BY <1>1, <2>1, <2>2, OneActs
    <3> QED BY <1>1, <2>1, <2>2, <3>1, TouchesItsOwn
  <2>3. ASSUME NEW d \in Deliveries, Release(d) PROVE FALSE
    BY <2>1, <2>3 DEF Release, work, Acts
  <2> QED BY <2>1, <2>2, <2>3 DEF Next
<1> QED BY <1>1, Holds, PTL DEF Spec, WritesStayHome
=============================================================================
