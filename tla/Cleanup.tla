------------------------------- MODULE Cleanup -------------------------------
(***************************************************************************)
(* The clean-up of the worker (cleanup-service.ts): five steps in a fixed  *)
(* order, of which the first that throws ends the tick.                    *)
(*                                                                         *)
(* Time is a count of days in a calendar whose months begin on the days    *)
(* given; a partition is known by its month.  The steps of one tick may    *)
(* fall on two days.  Which tables there are is a constant: the migrations *)
(* make project_metrics and no tenant_metrics, and do not partition        *)
(* events, where the service takes it to be partitioned.  What the metrics *)
(* service counts is in project_metrics, which no step of a tick writes.   *)
(***************************************************************************)
EXTENDS Naturals, Sequences, FiniteSetsExt

CONSTANTS
    Firsts,         \* the days on which the months begin
    FirstDays,      \* the days a worker may come up on
    LastDay,        \* bound on time
    Busy,           \* the days on which something is delivered or given up
    Retention,      \* WORKER_MAX_RETENTION_DAYS
    Tables,         \* the tables a statement may name
    Partitioned,    \* whether events is a partitioned table
    MaxFaults       \* bound on the statements that fail by chance

Months == 1..Len(Firsts)
Days   == 1..LastDay

\* The month of a day; no month is before the first.
MonthOf(d) == Max({m \in Months : Firsts[m] <= d} \cup {0})
DayOfMonth(d) == d - Firsts[MonthOf(d)] + 1
Length(m) == Firsts[m + 1] - Firsts[m]

CleanupAssumption ==
    /\ Firsts \in Seq(Nat) /\ Firsts[1] = 1
    /\ \A m \in Months : m + 1 \in Months => Length(m) \in 28..31
    /\ FirstDays \subseteq Days /\ Busy \subseteq Days
    /\ LastDay \in Nat /\ MonthOf(LastDay) + 2 \in Months
    /\ Retention \in Nat \ {0}
    /\ Partitioned \in BOOLEAN
    /\ MaxFaults \in Nat

VARIABLES
    day,
    step,           \* of the tick in progress
    expired,        \* partitions that dropExpiredPartitions has still to drop
    partitions,     \* months whose partition exists
    rows,           \* days whose finished deliveries are in event_deliveries
    letters,        \* days whose dead letters are in dead_letter_events
    inTime,         \* ghost: months in which a tick made a partition by the 28th
    ticked,         \* ghost: months in which a tick made a partition on any day
    faults          \* ghost

tables == <<partitions, rows, letters>>
ghosts == <<inTime, ticked>>
vars == <<day, step, expired, partitions, rows, letters, inTime, ticked, faults>>

Steps == {"idle", "reset", "list", "drop", "create", "letters", "deliveries"}

TypeOK ==
    /\ day \in Days
    /\ step \in Steps
    /\ expired \subseteq Months /\ partitions \subseteq Months
    /\ rows \subseteq Busy /\ letters \subseteq Busy
    /\ inTime \subseteq Months /\ ticked \subseteq Months
    /\ faults \in 0..MaxFaults

Init ==
    /\ day \in FirstDays
    /\ step = "idle"
    /\ expired = {}
    /\ partitions = IF Partitioned THEN 1..MonthOf(day) ELSE {}
    /\ rows = {} /\ letters = {}
    /\ inTime = {} /\ ticked = {}
    /\ faults = 0

-----------------------------------------------------------------------------
(* What goes on around the clean-up.                                         *)

Tomorrow ==
    /\ day < LastDay
    /\ day' = day + 1
    /\ UNCHANGED <<step, expired, tables, ghosts, faults>>

\* A delivery is finished, with a dead letter when it has been given up.
Finish(gaveUp) ==
    /\ day \in Busy
    /\ rows' = rows \cup {day}
    /\ letters' = IF gaveUp THEN letters \cup {day} ELSE letters
    /\ UNCHANGED <<day, step, expired, partitions, ghosts, faults>>

-----------------------------------------------------------------------------
(* tick().                                                                   *)

Tick ==
    /\ step = "idle"
    /\ step' = "reset"
    /\ UNCHANGED <<day, expired, tables, ghosts, faults>>

\* A statement fails, by chance: the tick is over.
Throw ==
    /\ step # "idle" /\ faults < MaxFaults
    /\ faults' = faults + 1
    /\ step' = "idle" /\ expired' = {}
    /\ UNCHANGED <<day, tables, ghosts>>

\* resetMonthlyCounters: on the first of a month, an UPDATE of tenant_metrics.  Where the
\* table is missing it throws; where it is there, nothing of this module is in it.
Reset ==
    /\ step = "reset"
    /\ step' = IF DayOfMonth(day) # 1 \/ "tenant_metrics" \in Tables THEN "list" ELSE "idle"
    /\ UNCHANGED <<day, expired, tables, ghosts, faults>>

CutoffMonth == IF day <= Retention THEN 0 ELSE MonthOf(day - Retention)

\* Mutant: the partition of the cutoff itself.
UpToCutoff == {m \in partitions : m <= CutoffMonth}

\* The names sort as the months do.
BeforeCutoff == {m \in partitions : m < CutoffMonth}

ListExpired ==
    /\ step = "list"
    /\ expired' = BeforeCutoff
    /\ step' = "drop"
    /\ UNCHANGED <<day, tables, ghosts, faults>>

DropPartition ==
    /\ step = "drop"
    /\ \E m \in expired :
        /\ expired' = expired \ {m}
        /\ partitions' = partitions \ {m}
    /\ UNCHANGED <<day, step, rows, letters, ghosts, faults>>

DropsDone ==
    /\ step = "drop" /\ expired = {}
    /\ step' = "create"
    /\ UNCHANGED <<day, expired, tables, ghosts, faults>>

\* Mutant: the partition of the month itself.
ThisMonth == MonthOf(day)

\* setMonth(getMonth() + 1) and then setDate(1): a day that the next month does not have
\* has already gone over into the one after it.
NextMonth ==
    LET m == MonthOf(day) IN IF DayOfMonth(day) <= Length(m + 1) THEN m + 1 ELSE m + 2

\* CREATE TABLE IF NOT EXISTS ... PARTITION OF events.
CreatePartition ==
    /\ step = "create"
    /\ IF Partitioned
       THEN /\ partitions' = partitions \cup {NextMonth}
            /\ ticked' = ticked \cup {MonthOf(day)}
            /\ inTime' = IF DayOfMonth(day) <= 28 THEN inTime \cup {MonthOf(day)} ELSE inTime
            /\ step' = "letters"
       ELSE UNCHANGED <<partitions, ghosts>> /\ step' = "idle"
    /\ UNCHANGED <<day, expired, rows, letters, faults>>

TooOld(d) == d + Retention < day

\* What a purge deletes.
Old(days) == {d \in days : TooOld(d)}

PurgeLetters ==
    /\ step = "letters"
    /\ letters' = letters \ Old(letters)
    /\ step' = "deliveries"
    /\ UNCHANGED <<day, expired, partitions, rows, ghosts, faults>>

\* ON DELETE CASCADE takes the dead letter of a delivery along.
Cascade(deleted) == letters \ deleted

PurgeDeliveries ==
    /\ step = "deliveries"
    /\ rows' = rows \ Old(rows)
    /\ letters' = Cascade(Old(rows))
    /\ step' = "idle"
    /\ UNCHANGED <<day, expired, partitions, ghosts, faults>>

Next ==
    \/ Tomorrow \/ \E gaveUp \in BOOLEAN : Finish(gaveUp)
    \/ Tick \/ Throw \/ Reset \/ ListExpired \/ DropPartition \/ DropsDone
    \/ CreatePartition \/ PurgeLetters \/ PurgeDeliveries

Spec == Init /\ [][Next]_vars

-----------------------------------------------------------------------------
(* Properties.                                                               *)

\* A partition is dropped when the last of its days has been kept for the retention, on
\* whatever day the list was made and whatever midnight passed since
\* (cleanup-service.ts 51-82).
DropsOnlyExpired ==
    [][\A m \in partitions \ partitions' : Firsts[m + 1] - 1 + Retention < day]_vars

\* A month has a partition for its events when a tick made one by the 28th of the month
\* before.  A tick that gets through on the 29th to the 31st is only sure to have made that
\* of the next month or of the one after: if no earlier one did, the next month may be left
\* without (cleanup-service.ts 105-123).
PartitionIsReady ==
    /\ \A m \in inTime : MonthOf(day) = m + 1 => MonthOf(day) \in partitions
    /\ \A m \in ticked : MonthOf(day) <= m + 1 => {m + 1, m + 2} \cap partitions # {}

\* What is young enough is kept: of a delivery and of its dead letter neither goes before
\* its time, though each is deleted by a statement of its own and one takes the other
\* along (cleanup-service.ts 88-103).
KeptForRetention ==
    [][\A d \in rows \cup letters :
        d + Retention >= day => (d \in rows => d \in rows') /\ (d \in letters => d \in letters')]_vars

\* A dead letter has its delivery (schema/dead-letter-events.ts 10).
LettersHaveRows == letters \subseteq rows
=============================================================================
