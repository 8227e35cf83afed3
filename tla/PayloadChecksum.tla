---------------------------- MODULE PayloadChecksum ----------------------------
(***************************************************************************)
(* The checksum of an event, from the request or the schedule that carries *)
(* the payload to the worker that delivers it.                             *)
(*                                                                         *)
(*   EventService.produce      checksums canonicalJson(payload)            *)
(*   SchedulerService.fire     checksums JSON.stringify(payload)           *)
(*   DeliveryService.deliver   compares with canonicalJson(payload)        *)
(*                                                                         *)
(* In between the payload goes through jsonb columns, which keep the       *)
(* values and not the order of the keys.  What the texts differ in is that *)
(* order, at each level.  A document is a function: from the path of each  *)
(* object and array in it, whatever is how deep, to the entries there, in  *)
(* the order JSON.stringify visits them; an entry with something inside    *)
(* says only that.  A checksum is the text it is of: SHA-256 is taken to   *)
(* be injective.                                                           *)
(***************************************************************************)
EXTENDS Naturals, Sequences, FiniteSets, Functions

CONSTANTS
    ObjectKeys,
    IntegerKeys,    \* those that JavaScript takes for indices
    ByCodeUnit,     \* the order of Array.prototype.sort
    ByLength,       \* the order of jsonb: length, then bytes
    ByIndex,        \* of IntegerKeys: ascending
    Inside,         \* an entry that holds an object or an array
    Payloads,       \* what clients may post
    Edits           \* what may be written to a row by hand

\* An object or array: <<key or index, value>>, one after the other.
Object(entries) == [kind |-> "object", entries |-> entries]
Array(entries)  == [kind |-> "array", entries |-> entries]

IsNode(node) ==
    /\ node \in {Object(node.entries), Array(node.entries)}
    /\ node.entries \in Seq(Range(node.entries))
    /\ \A i, j \in DOMAIN node.entries : node.entries[i][1] = node.entries[j][1] => i = j
    /\ node.kind = "object" => \A e \in Range(node.entries) : e[1] \in ObjectKeys

\* The places in a document are the root and those that some entry leads to.
IsDocument(v) ==
    /\ v = [p \in DOMAIN v |-> v[p]]
    /\ \A p \in DOMAIN v : IsNode(v[p])
    /\ \A p \in DOMAIN v : \A e \in Range(v[p].entries) :
          e[2] = Inside <=> Append(p, e[1]) \in DOMAIN v
    /\ \A p \in DOMAIN v \ {<<>>} :
          \E q \in DOMAIN v : \E e \in Range(v[q].entries) : p = Append(q, e[1])
    /\ <<>> \in DOMAIN v /\ v[<<>>].kind = "object"

\* The pairs <<j, k>> of keys in which j comes first.
IsOrder(order, keys) ==
    /\ \A k \in keys : <<k, k>> \notin order
    /\ \A j, k \in keys : j # k => <<j, k>> \in order \/ <<k, j>> \in order
    /\ \A i, j, k \in keys : <<i, j>> \in order /\ <<j, k>> \in order => <<i, k>> \in order

ChecksumAssumption ==
    /\ IntegerKeys \subseteq ObjectKeys
    /\ IsOrder(ByCodeUnit, ObjectKeys)
    /\ IsOrder(ByLength, ObjectKeys)
    /\ IsOrder(ByIndex, IntegerKeys)
    /\ \A v \in Payloads \cup Edits : IsDocument(v)

VARIABLES
    source,     \* who made the event: "api", "schedule"
    stage,      \* where the payload is
    posted,     \* the payload as the client wrote it
    row,        \* the payload as the database returns it
    checksum,   \* events.checksum
    verdict     \* of the worker

vars == <<source, stage, posted, row, checksum, verdict>>

-----------------------------------------------------------------------------
(* The order of keys.                                                        *)

\* Entries sorted by key: each has as many before it as its place says.
Sorted(entries, order) ==
    [i \in 1..Cardinality(entries) |->
        CHOOSE e \in entries : Cardinality({f \in entries : <<f[1], e[1]>> \in order}) = i - 1]

\* A JavaScript object visits index-like keys first, ascending, and the others in the
\* order they were added.
JsOrder(entries) ==
    {p \in ObjectKeys \X ObjectKeys :
        IF p[2] \in IntegerKeys
        THEN p[1] \in IntegerKeys /\ p \in ByIndex
        ELSE \/ p[1] \in IntegerKeys
             \/ \E i, j \in DOMAIN entries :
                    i < j /\ entries[i][1] = p[1] /\ entries[j][1] = p[2]}

AddInOrder(entries) == Sorted(Range(entries), JsOrder(entries))

\* An object's entries after one of the passes that visit it.
Visit(pass, entries) ==
    CASE pass = "parse"  -> AddInOrder(entries)
      [] pass = "jsonb"  -> Sorted(Range(entries), ByLength)
      \* Object.fromEntries of the sorted keys: the indices come first again.
      [] pass = "sort"   -> AddInOrder(Sorted(Range(entries), ByCodeUnit))

\* The pass over every object, wherever it is.
Reorder(v, pass) ==
    [p \in DOMAIN v |->
        IF v[p].kind = "object" THEN Object(Visit(pass, v[p].entries)) ELSE v[p]]

JsonParse(v) == Reorder(v, "parse")

\* What a jsonb column returns, parsed by the driver.
Jsonb(v) == JsonParse(Reorder(v, "jsonb"))

\* Mutant: the keys of the outermost object only.
SortTopLevel(v) == [v EXCEPT ![<<>>] = Object(Visit("sort", @.entries))]

SortKeys(v) == Reorder(v, "sort")

CanonicalJson(v) == SortKeys(v)

-----------------------------------------------------------------------------
(* The way of a payload.                                                     *)

NoPayload == [p \in {<<>>} |-> Object(<<>>)]

Init ==
    /\ source \in {"api", "schedule"}
    /\ stage = "client"
    /\ posted \in Payloads
    /\ row = NoPayload
    /\ checksum = NoPayload
    /\ verdict = "none"

Produce ==
    /\ stage = "client" /\ source = "api"
    /\ checksum' = CanonicalJson(JsonParse(posted))
    /\ row' = Jsonb(JsonParse(posted))
    /\ stage' = "event"
    /\ UNCHANGED <<source, posted, verdict>>

CreateSchedule ==
    /\ stage = "client" /\ source = "schedule"
    /\ row' = Jsonb(JsonParse(posted))
    /\ stage' = "schedule"
    /\ UNCHANGED <<source, posted, checksum, verdict>>

\* JSON.stringify: the text of an object in the order it has.
Stringify(v) == v

\* From the row of schedules to one of events.
Fire ==
    /\ stage = "schedule"
    /\ checksum' = Stringify(row)
    /\ row' = Jsonb(row)
    /\ stage' = "event"
    /\ UNCHANGED <<source, posted, verdict>>

\* The row of events is changed by hand: what the checksum is there for.
Damage ==
    /\ stage = "event" /\ verdict = "none"
    /\ \E other \in Edits : row' = Jsonb(other)
    /\ UNCHANGED <<source, stage, posted, checksum, verdict>>

Deliver ==
    /\ stage = "event" /\ verdict = "none"
    /\ verdict' = IF CanonicalJson(row) = checksum THEN "sent" ELSE "dead-lettered"
    /\ UNCHANGED <<source, stage, posted, row, checksum>>

Next == Produce \/ CreateSchedule \/ Fire \/ Damage \/ Deliver

Spec == Init /\ [][Next]_vars

-----------------------------------------------------------------------------
(* Properties.                                                               *)

\* The value of a payload, whatever the order of its keys: an object is a set of entries.
Meaning(v) ==
    [p \in DOMAIN v |->
        IF v[p].kind = "object" THEN Object(Range(v[p].entries)) ELSE v[p]]

\* A payload that came through the API is sent if and only if it is still the value that
\* was posted: neither the orders of three sorts nor nesting make its checksum fail, and
\* no other value passes (canonical-json.helper.ts 3-13, delivery-service.ts 83-91).
ApiPayloadVerified ==
    source = "api" /\ verdict # "none" =>
        (verdict = "sent" <=> Meaning(row) = Meaning(posted))

\* Of a scheduled payload the checksum is that of the jsonb order, so it passes where
\* that order is the sorted one at every level (scheduler-service.ts 53-55).
ScheduledPayloadVerified ==
    source = "schedule" /\ verdict # "none" /\ Meaning(row) = Meaning(posted) =>
        (verdict = "sent" <=> Jsonb(posted) = CanonicalJson(posted))
=============================================================================
