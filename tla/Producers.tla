------------------------------- MODULE Producers -------------------------------
(***************************************************************************)
(* What comes to the queue, side by side: POST /v1/events (ProduceEvent),  *)
(* whose state this module extends, and, as instances with variables of    *)
(* their own, the replay of a dead letter (DeadLetterReplay) and the       *)
(* checksum that goes with a payload (PayloadChecksum).  The three share   *)
(* no variable.  MCProducers adds what TLC takes for the constants, and    *)
(* lets one of the three move.                                             *)
(***************************************************************************)
EXTENDS ProduceEvent

CONSTANTS
    Rows, Originals, ConsumerOf, Operators, NoRow, NoConsumer,      \* of DeadLetterReplay
    ObjectKeys, IntegerKeys, ByCodeUnit, ByLength, ByIndex,         \* of PayloadChecksum
    Inside, Payloads, Edits

VARIABLES
    status, consumer, from, replayed, deleted, replayPc, letter, replayFaults,
    source, stage, posted, row, checksum, verdict

replayVars == <<status, consumer, from, replayed, deleted, replayPc, letter, replayFaults>>
checksumVars == <<source, stage, posted, row, checksum, verdict>>

Replay == INSTANCE DeadLetterReplay WITH pc <- replayPc, faults <- replayFaults
Checksum == INSTANCE PayloadChecksum

-----------------------------------------------------------------------------
(* The properties of the parts.                                              *)

\* The types of the first two, which keep a state over many requests (event.service.ts 31-112,
\* dead-letter.service.ts 30-52).
TypesOK == TypeOK /\ Replay!TypeOK

\* A letter that reads replayed has been enqueued again (dead-letter.service.ts 41-52).
ReplayedIsEnqueued == Replay!ReplayedIsEnqueued

\* A letter has no more copies than operators race and die (dead-letter.service.ts 36).
CopiesBounded == Replay!CopiesBounded

\* The worker's check of a checksum passes what came through the API untouched and
\* nothing else, and of what was scheduled what jsonb leaves in sorted order
\* (canonical-json.helper.ts 3-13, scheduler-service.ts 53-55, delivery-service.ts 83-91).
PayloadVerified == Checksum!ApiPayloadVerified /\ Checksum!ScheduledPayloadVerified
=============================================================================
