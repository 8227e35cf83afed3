--------------------------- MODULE DeadLetterReplay ---------------------------
(***************************************************************************)
(* DeadLetterService.replay: an operator sends a dead letter back to its   *)
(* consumer.  Look-up of the letter, look-up of the consumer, INSERT of a  *)
(* new delivery and the UPDATE that marks the letter are four statements   *)
(* with no transaction around them, and several operators may replay one   *)
(* letter at once.                                                         *)
(*                                                                         *)
(* The queue (module DeliveryQueue) is reduced to what it promises: an     *)
(* open delivery ends delivered, or failed with a dead letter of its own,  *)
(* which can be replayed in turn.  A letter is named after its delivery.   *)
(***************************************************************************)
EXTENDS Naturals, FiniteSets

CONSTANTS
    Rows,           \* deliveries there may be: the originals and the replays
    Originals,      \* those the fan-out made
    Consumers,
    ConsumerOf,     \* the consumer of an original
    Operators,      \* replay requests the API serves at once
    NoRow, NoConsumer,
    MaxFaults       \* bound on requests that die

ReplayAssumption ==
    /\ Originals \subseteq Rows
    /\ ConsumerOf \in [Originals -> Consumers]
    /\ NoRow \notin Rows
    /\ NoConsumer \notin Consumers
    /\ IsFiniteSet(Rows) /\ IsFiniteSet(Operators)
    /\ MaxFaults \in Nat

VARIABLES
    status,         \* event_deliveries.status; a failed row has its dead letter
    consumer,       \* event_deliveries.consumer_id
    from,           \* history: the letter a row was replayed from
    replayed,       \* letters whose replayed is true
    deleted,        \* consumers with a deleted_at
    pc, letter,     \* what each request does next, and the letter it read
    faults

table   == <<status, consumer, from>>
request == <<pc, letter>>
vars    == <<table, replayed, deleted, request, faults>>

RowStatuses == {"absent", "open", "delivered", "failed"}
PCs == {"idle", "consumer", "enqueueing", "marking"}

Letters   == {l \in Rows : status[l] = "failed"}
Copies(l) == {d \in Rows : from[d] = l}
At(o, l, next) == pc[o] = next /\ letter[o] = l

Init ==
    /\ status = [d \in Rows |-> IF d \in Originals THEN "open" ELSE "absent"]
    /\ consumer = [d \in Rows |-> IF d \in Originals THEN ConsumerOf[d] ELSE NoConsumer]
    /\ from = [d \in Rows |-> NoRow]
    /\ replayed = {}
    /\ deleted = {}
    /\ pc = [o \in Operators |-> "idle"]
    /\ letter = [o \in Operators |-> NoRow]
    /\ faults = 0

Goto(o, next) ==
    /\ pc' = [pc EXCEPT ![o] = next]
    /\ UNCHANGED letter

Finish(o) ==
    /\ pc' = [pc EXCEPT ![o] = "idle"]
    /\ letter' = [letter EXCEPT ![o] = NoRow]

\* Mutant: the mark is not looked at.
FindLetterAgain(o, l) ==
    /\ pc[o] = "idle"
    /\ l \in Letters
    /\ pc' = [pc EXCEPT ![o] = "consumer"]
    /\ letter' = [letter EXCEPT ![o] = l]
    /\ UNCHANGED <<table, replayed, deleted, faults>>

\* A letter that is not there, or is marked, is refused (404, 409) with no effect.
FindLetter(o, l) ==
    /\ pc[o] = "idle"
    /\ l \in Letters \ replayed
    /\ pc' = [pc EXCEPT ![o] = "consumer"]
    /\ letter' = [letter EXCEPT ![o] = l]
    /\ UNCHANGED <<table, replayed, deleted, faults>>

FindConsumer(o) ==
    /\ pc[o] = "consumer"
    /\ \/ consumer[letter[o]] \notin deleted /\ Goto(o, "enqueueing")
       \/ consumer[letter[o]] \in deleted /\ Finish(o)
    /\ UNCHANGED <<table, replayed, deleted, faults>>

\* Mutant: the INSERT's error goes unnoticed.
EnqueueUnchecked(o) ==
    /\ pc[o] = "enqueueing"
    /\ Goto(o, "marking")
    /\ UNCHANGED <<table, replayed, deleted, faults>>

\* The new row starts over: attempt 0, due now.
Enqueue(o) ==
    /\ pc[o] = "enqueueing"
    /\ \E d \in Rows :
          /\ status[d] = "absent"
          /\ status' = [status EXCEPT ![d] = "open"]
          /\ consumer' = [consumer EXCEPT ![d] = consumer[letter[o]]]
          /\ from' = [from EXCEPT ![d] = letter[o]]
    /\ Goto(o, "marking")
    /\ UNCHANGED <<replayed, deleted, faults>>

Mark(o) ==
    /\ pc[o] = "marking"
    /\ replayed' = replayed \cup {letter[o]}
    /\ Finish(o)
    /\ UNCHANGED <<table, deleted, faults>>

\* A call throws, or the API process dies: a crash loses each request it serves.
LoseRequest(o) ==
    /\ pc[o] # "idle"
    /\ faults < MaxFaults
    /\ faults' = faults + 1
    /\ Finish(o)
    /\ UNCHANGED <<table, replayed, deleted>>

\* The workers settle an open row; also one of a deleted consumer is delivered, if the
\* worker had looked the consumer up before.
Settle(d, s) ==
    /\ status[d] = "open"
    /\ status' = [status EXCEPT ![d] = s]
    /\ UNCHANGED <<consumer, from, replayed, deleted, request, faults>>

DeleteConsumer(c) ==
    /\ c \notin deleted
    /\ deleted' = deleted \cup {c}
    /\ UNCHANGED <<table, replayed, request, faults>>

Step(o) == FindConsumer(o) \/ Enqueue(o) \/ Mark(o)

Next ==
    \/ \E o \in Operators : Step(o) \/ LoseRequest(o) \/ \E l \in Rows : FindLetter(o, l)
    \/ \E d \in Rows, s \in {"delivered", "failed"} : Settle(d, s)
    \/ \E c \in Consumers : DeleteConsumer(c)

Spec == Init /\ [][Next]_vars

-----------------------------------------------------------------------------
(* Properties.                                                               *)

\* Types; a request past its look-up works on a dead letter.
TypeOK ==
    /\ status \in [Rows -> RowStatuses]
    /\ consumer \in [Rows -> Consumers \cup {NoConsumer}]
    /\ from \in [Rows -> Rows \cup {NoRow}]
    /\ replayed \subseteq Letters
    /\ deleted \subseteq Consumers
    /\ pc \in [Operators -> PCs]
    /\ letter \in [Operators -> Rows \cup {NoRow}]
    /\ \A o \in Operators :
          IF pc[o] = "idle" THEN letter[o] = NoRow ELSE letter[o] \in Letters
    /\ faults \in Nat

\* A failure is never lost: a letter that reads replayed has a delivery that was
\* enqueued for it, to the same consumer, also when requests die half-way
\* (dead-letter.service.ts 41-52: enqueue before update).
ReplayedIsEnqueued ==
    \A l \in replayed : \E d \in Copies(l) :
        status[d] # "absent" /\ consumer[d] = consumer[l]

\* A letter is sent again once, but for the requests that raced each other between
\* look-up and mark, and those that died in between.
CopiesBounded ==
    \A l \in Rows : Cardinality(Copies(l)) <= Cardinality(Operators) + faults
=============================================================================
