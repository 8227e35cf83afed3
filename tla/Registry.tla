------------------------------- MODULE Registry -------------------------------
(***************************************************************************)
(* What a tenant registers: topics, their children (consumers and          *)
(* schedules), and API keys.  The services share one pattern, on rows that *)
(* carry a deleted_at in place of being removed:                           *)
(*                                                                         *)
(*   find the row, or the parent, and refuse when it is not there;         *)
(*   then INSERT, UPDATE by id, or set deleted_at by id.                   *)
(*                                                                         *)
(* The statements of requests interleave, and the second one does not look *)
(* at what the first one saw.  An API key also lets requests produce.      *)
(*                                                                         *)
(* Abstracted: ids of other tenants, which no statement finds; columns no  *)
(* rule is about; deletion of the tenant (Session, ProduceEvent).          *)
(***************************************************************************)
EXTENDS Naturals, FiniteSets

CONSTANTS
    Requests,       \* requests the API serves at once
    Topics, Children, ApiKeys,  \* the rows there may ever be
    Pull,           \* children that are pull consumers
    Names,
    Fields, Values, Default,    \* of a topic's config
    NoName, NoTopic, Unset

Entities == Topics \cup Children \cup ApiKeys

RegistryAssumption ==
    /\ Topics \cap Children = {} /\ Topics \cap ApiKeys = {} /\ Children \cap ApiKeys = {}
    /\ Pull \subseteq Children
    /\ NoName \notin Names
    /\ NoTopic \notin Topics
    /\ Default \in Values /\ Unset \notin Values

VARIABLES
    state,      \* of a row: not inserted, live, or with a deleted_at
    name,       \* topics.name
    config,     \* topics.config
    topicOf,    \* consumers.topic_id, schedules.topic_id
    url,        \* children that have a URL
    paused,     \* children with status 'paused'
    req,        \* the requests in flight
    asked,      \* history: the config that the updates of a topic add up to
    torn        \* history: topics with updates that were in flight together

columns == <<state, name, config, topicOf, url, paused>>
history == <<asked, torn>>
vars    == <<columns, req, history>>

States == {"none", "live", "deleted"}
Ops    == {"create", "update", "delete", "produce"}
PCs    == {"none", "finding", "naming", "inserting", "updating", "deleting", "serving"}

Partial == [Fields -> Values \cup {Unset}]
NoFields == [f \in Fields |-> Unset]

\* newName, set: what the body asks for; merged: the config computed from the row that
\* was read; gone: history, the row was deleted when the request started.
NoRequest == [op |-> "create", pc |-> "none", row |-> NoTopic, parent |-> NoTopic,
              newName |-> NoName, set |-> NoFields, merged |-> NoFields, gone |-> FALSE]

Is(r, op, pc) == req[r].op = op /\ req[r].pc = pc
Goto(r, pc) == req' = [req EXCEPT ![r].pc = pc]
Finish(r) == req' = [req EXCEPT ![r] = NoRequest]

Live(row) == row \in Entities /\ state[row] = "live"

Init ==
    /\ state = [row \in Entities |-> "none"]
    /\ name = [t \in Topics |-> NoName]
    /\ config = [t \in Topics |-> NoFields]
    /\ topicOf = [c \in Children |-> NoTopic]
    /\ url = {}
    /\ paused = {}
    /\ req = [r \in Requests |-> NoRequest]
    /\ asked = [t \in Topics |-> NoFields]
    /\ torn = {}

-----------------------------------------------------------------------------
(* Requests start.                                                           *)

Receive(r, request) ==
    /\ req[r].pc = "none"
    /\ req' = [req EXCEPT ![r] = request]
    /\ torn' = torn \cup
         {t \in Topics : request.op = "update" /\ request.row = t
                         /\ \E q \in Requests : req[q].op = "update" /\ req[q].row = t}
    /\ UNCHANGED <<columns, asked>>

\* Each create makes a row of its own: randomUUID.
Fresh(row) == state[row] = "none" /\ \A q \in Requests : req[q].row # row

CreateTopic(r, t, n, set) ==
    /\ Fresh(t)
    /\ Receive(r, [NoRequest EXCEPT !.pc = "naming", !.row = t, !.newName = n, !.set = set])

\* createPush, createPull and ScheduleService.create.
CreateChild(r, c, t) ==
    /\ Fresh(c)
    /\ Receive(r, [NoRequest EXCEPT !.pc = "finding", !.row = c, !.parent = t])

CreateApiKey(r, k) ==
    /\ Fresh(k)
    /\ Receive(r, [NoRequest EXCEPT !.pc = "inserting", !.row = k])

UpdateTopic(r, t, n, set) ==
    Receive(r, [NoRequest EXCEPT !.op = "update", !.pc = "finding", !.row = t,
                                 !.newName = n, !.set = set, !.gone = state[t] = "deleted"])

\* ConsumerService.update, pause and resume.
UpdateChild(r, c) ==
    Receive(r, [NoRequest EXCEPT !.op = "update", !.pc = "finding", !.row = c,
                                 !.gone = state[c] = "deleted"])

Delete(r, row) ==
    Receive(r, [NoRequest EXCEPT !.op = "delete", !.pc = "finding", !.row = row,
                                 !.gone = state[row] = "deleted"])

\* POST /v1/events, in apiKeyMiddleware.
Produce(r, k) ==
    Receive(r, [NoRequest EXCEPT !.op = "produce", !.pc = "finding", !.row = k,
                                 !.gone = state[k] = "deleted"])

-----------------------------------------------------------------------------
(* Their statements.                                                         *)

\* Mutant: deleted rows are found.
FoundEver(row) == row \in Entities /\ state[row] # "none"

\* requiredFilters: of the tenant, and not deleted.
Found(row) == Live(row)

FindByName(n) == {t \in Topics : Live(t) /\ name[t] = n}

\* Mutant: a config in the body replaces the stored one, as in create.
MergeDefaults(stored, set) == [f \in Fields |-> IF set[f] = Unset THEN Default ELSE set[f]]

\* { ...stored, ...set }
Merge(stored, set) == [f \in Fields |-> IF set[f] = Unset THEN stored[f] ELSE set[f]]

FindParent(r) ==
    /\ Is(r, "create", "finding")
    /\ IF Found(req[r].parent) THEN Goto(r, "inserting") ELSE Finish(r)
    /\ UNCHANGED <<columns, history>>

FindTopic(r) ==
    /\ Is(r, "update", "finding")
    /\ req[r].row \in Topics
    /\ LET t == req[r].row
           merged == IF req[r].set = NoFields THEN NoFields ELSE Merge(config[t], req[r].set)
       IN  \/ /\ ~Found(t)
              /\ Finish(r)
           \/ /\ Found(t)
              /\ req' = [req EXCEPT
                    ![r].merged = merged,
                    ![r].pc = IF req[r].newName \in {NoName, name[t]} THEN "updating"
                              ELSE "naming"]
    /\ UNCHANGED <<columns, history>>

FindChild(r) ==
    /\ Is(r, "update", "finding")
    /\ req[r].row \in Children
    /\ IF Found(req[r].row) THEN Goto(r, "updating") ELSE Finish(r)
    /\ UNCHANGED <<columns, history>>

FindToDelete(r) ==
    /\ Is(r, "delete", "finding")
    /\ IF Found(req[r].row) THEN Goto(r, "deleting") ELSE Finish(r)
    /\ UNCHANGED <<columns, history>>

FindByKeyHash(r) ==
    /\ Is(r, "produce", "finding")
    /\ IF Found(req[r].row) THEN Goto(r, "serving") ELSE Finish(r)
    /\ UNCHANGED <<columns, history>>

\* A topic that has the name and is not deleted: 409.
CheckName(r) ==
    /\ req[r].pc = "naming"
    /\ IF FindByName(req[r].newName) # {} THEN Finish(r)
       ELSE Goto(r, IF req[r].op = "create" THEN "inserting" ELSE "updating")
    /\ UNCHANGED <<columns, history>>

\* unique (tenant_id, name) counts the deleted topics too.
NameTaken(t, n) == \E other \in Topics \ {t} : state[other] # "none" /\ name[other] = n

InsertTopic(r) ==
    /\ Is(r, "create", "inserting")
    /\ req[r].row \in Topics
    /\ LET t == req[r].row
           initial == Merge([f \in Fields |-> Default], req[r].set)
       IN  IF NameTaken(t, req[r].newName) THEN UNCHANGED <<columns, history>>
           ELSE /\ state' = [state EXCEPT ![t] = "live"]
                /\ name' = [name EXCEPT ![t] = req[r].newName]
                /\ config' = [config EXCEPT ![t] = initial]
                /\ asked' = [asked EXCEPT ![t] = initial]
                /\ UNCHANGED <<topicOf, url, paused, torn>>
    /\ Finish(r)

\* A pull consumer, and a schedule, has no URL.
InsertChild(r) ==
    /\ Is(r, "create", "inserting")
    /\ req[r].row \in Children
    /\ LET c == req[r].row
       IN  /\ state' = [state EXCEPT ![c] = "live"]
           /\ topicOf' = [topicOf EXCEPT ![c] = req[r].parent]
           /\ url' = IF c \in Pull THEN url ELSE url \cup {c}
    /\ Finish(r)
    /\ UNCHANGED <<name, config, paused, history>>

InsertApiKey(r) ==
    /\ Is(r, "create", "inserting")
    /\ req[r].row \in ApiKeys
    /\ state' = [state EXCEPT ![req[r].row] = "live"]
    /\ Finish(r)
    /\ UNCHANGED <<name, config, topicOf, url, paused, history>>

\* By id: a topic deleted since it was read is updated all the same.
SaveTopic(r) ==
    /\ Is(r, "update", "updating")
    /\ req[r].row \in Topics
    /\ LET t == req[r].row
           renamed == IF req[r].newName = NoName THEN name[t] ELSE req[r].newName
       IN  IF NameTaken(t, renamed) THEN UNCHANGED <<columns, history>>
           ELSE /\ name' = [name EXCEPT ![t] = renamed]
                /\ config' = [config EXCEPT ![t] = Merge(@, req[r].merged)]
                /\ asked' = [asked EXCEPT ![t] = [f \in Fields |->
                                IF req[r].set[f] = Unset THEN @[f] ELSE req[r].set[f]]]
                /\ UNCHANGED <<state, topicOf, url, paused, torn>>
    /\ Finish(r)

\* "Pull consumers do not have a URL": 400.
TakesUrl(c) == c \notin Pull

SaveChild(r) ==
    /\ Is(r, "update", "updating")
    /\ req[r].row \in Children
    /\ LET c == req[r].row
       IN  \/ paused' = paused \cup {c} /\ UNCHANGED url
           \/ paused' = paused \ {c} /\ UNCHANGED url
           \/ TakesUrl(c) /\ url' = url \cup {c} /\ UNCHANGED paused
    /\ Finish(r)
    /\ UNCHANGED <<state, name, config, topicOf, history>>

\* A topic's children, and the deliveries of a consumer, stay.
SoftDelete(r) ==
    /\ Is(r, "delete", "deleting")
    /\ state' = [state EXCEPT ![req[r].row] = "deleted"]
    /\ Finish(r)
    /\ UNCHANGED <<name, config, topicOf, url, paused, history>>

\* ProduceEvent has the rest.
Serve(r) ==
    /\ Is(r, "produce", "serving")
    /\ Finish(r)
    /\ UNCHANGED <<columns, history>>

\* A call throws, or the API process dies.
LoseRequest(r) ==
    /\ req[r].pc # "none"
    /\ Finish(r)
    /\ UNCHANGED <<columns, history>>

Start(r) ==
    \/ \E t \in Topics, n \in Names, set \in Partial : CreateTopic(r, t, n, set)
    \/ \E t \in Topics, n \in Names \cup {NoName}, set \in Partial : UpdateTopic(r, t, n, set)
    \/ \E c \in Children, t \in Topics : CreateChild(r, c, t)
    \/ \E c \in Children : UpdateChild(r, c)
    \/ \E k \in ApiKeys : CreateApiKey(r, k) \/ Produce(r, k)
    \/ \E row \in Entities : Delete(r, row)

Step(r) ==
    \/ FindParent(r) \/ FindTopic(r) \/ FindChild(r) \/ FindToDelete(r) \/ FindByKeyHash(r)
    \/ CheckName(r)
    \/ InsertTopic(r) \/ InsertChild(r) \/ InsertApiKey(r)
    \/ SaveTopic(r) \/ SaveChild(r) \/ SoftDelete(r)
    \/ Serve(r)
    \/ LoseRequest(r)

Next == \E r \in Requests : Start(r) \/ Step(r)

Spec == Init /\ [][Next]_vars

-----------------------------------------------------------------------------
(* Properties.                                                               *)

RequestRecords ==
    [op : Ops, pc : PCs, row : Entities \cup {NoTopic}, parent : Topics \cup {NoTopic},
     newName : Names \cup {NoName}, set : Partial, merged : Partial, gone : BOOLEAN]

\* Types; a child has a topic that was inserted, and a pull consumer has no URL.
TypeOK ==
    /\ state \in [Entities -> States]
    /\ name \in [Topics -> Names \cup {NoName}]
    /\ config \in [Topics -> Partial]
    /\ \A t \in Topics : state[t] # "none" =>
            name[t] # NoName /\ \A f \in Fields : config[t][f] # Unset
    /\ topicOf \in [Children -> Topics \cup {NoTopic}]
    /\ \A c \in Children : state[c] # "none" => topicOf[c] # NoTopic /\ state[topicOf[c]] # "none"
    /\ url \subseteq Children \ Pull
    /\ paused \subseteq Children
    /\ req \in [Requests -> RequestRecords]
    /\ asked \in [Topics -> Partial]
    /\ torn \subseteq Topics

\* A topic's config is what the updates that went through add up to, unless two of them
\* were in flight together and one merged into a config the other replaced
\* (topic.service.ts 48-55).
UpdatesAddUp == \A t \in Topics \ torn : config[t] = asked[t]

\* A request that starts after the row it names was deleted changes nothing, and an API
\* key that is deleted lets no more events in, though the UPDATEs look at the id alone
\* (entity-base-repository.ts 12-17, api-key-middleware.ts 20-22).
GoneIsRefused ==
    \A r \in Requests :
        req[r].gone => req[r].pc \notin {"updating", "deleting", "serving", "naming"}
=============================================================================
