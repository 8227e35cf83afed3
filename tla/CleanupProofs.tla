----------------------------- MODULE CleanupProofs -----------------------------
(***************************************************************************)
(* What the clean-up promises in any calendar, for any retention and for   *)
(* both databases, the one the service expects and the one the migrations  *)
(* make: nothing goes before its retention is over, and what a tick made   *)
(* for a month to come is there in that month.                             *)
(*                                                                         *)
(* A tick may last past midnight.  What it decided on one day stays right  *)
(* on the next, because a month that was over for longer than the          *)
(* retention stays so, and a month that was to come is not over.  That     *)
(* months come one after the other is an induction over the calendar, by   *)
(* way of the least month that does not.                                   *)
(***************************************************************************)
EXTENDS MCWorker, Sequences, WellFoundedInduction, TLAPS

-----------------------------------------------------------------------------
(* The inductive invariant.                                                  *)

\* What is going to be dropped is past its retention; what was made is there until its
\* month is over.
PartitionInv ==
    /\ \A m \in expired : m + 1 \in Cleaning!Months /\ Firsts[m + 1] - 1 + Retention < day
    /\ \A m \in inTime : Cleaning!MonthOf(day) <= m + 1 => m + 1 \in partitions
    /\ \A m \in ticked : Cleaning!MonthOf(day) <= m + 1 => {m + 1, m + 2} \cap partitions # {}

CleanupInv ==
    Cleaning!TypeOK /\ Cleaning!LettersHaveRows /\ PartitionInv

\* Where events is not partitioned, no tick gets as far as the purges.
MigratedInv ==
    /\ partitions = {} /\ expired = {} /\ inTime = {} /\ ticked = {}
    /\ step \notin {"letters", "deliveries"}

-----------------------------------------------------------------------------
(* The calendar.                                                             *)

\* A set of numbers has a least one.
LEMMA Least ==
    ASSUME NEW S \in SUBSET Nat, S # {}
    PROVE  \E m \in S : \A n \in S : m <= n
<1> DEFINE less == OpToRel(<, Nat)
<1>1. \A m, n \in Nat : m < n => <<m, n>> \in less
  BY DEF OpToRel
<1>2. IsWellFoundedOn(less, Nat)
  BY NatLessThanWellFounded
<1> HIDE DEF less
<1>3. PICK m \in S : \A n \in S : <<n, m>> \notin less
  BY <1>2, WFMin
<1>4. ASSUME NEW n \in S
      PROVE  m <= n
  <2>1. ~(n < m) /\ m \in Nat /\ n \in Nat
    BY <1>1, <1>3
  <2> QED BY <2>1
<1> QED BY <1>4

\* A set of numbers with a bound has a greatest one: its least bound.
LEMMA Greatest ==
    ASSUME NEW S \in SUBSET Nat, S # {}, NEW b \in Nat, \A n \in S : n <= b
    PROVE  \E m \in S : \A n \in S : m >= n
<1> DEFINE U == {u \in Nat : \A n \in S : n <= u}
<1>1. PICK u \in U : \A v \in U : u <= v
  <2>1. b \in U /\ U \in SUBSET Nat
    OBVIOUS
  <2> HIDE DEF U
  <2> QED BY <2>1, Least
<1>2. u \in S
  <2>1. SUFFICES ASSUME u \notin S
                 PROVE  FALSE
    OBVIOUS
  <2>2. \A n \in S : n <= u - 1
    BY <2>1
  <2>3. PICK n \in S : TRUE
    OBVIOUS
  <2>4. u - 1 \in Nat
    BY <2>2, <2>3
  <2>5. u - 1 \in U
    BY <2>2, <2>4
  <2> QED BY <1>1, <2>5
<1> QED BY <1>1, <1>2

\* What the assumption says of the calendar.
LEMMA CalendarIs ==
    ASSUME Cleaning!CleanupAssumption
    PROVE  /\ Cleaning!Months = 1..Len(Firsts) /\ Len(Firsts) \in Nat
           /\ \A m \in Cleaning!Months : Firsts[m] \in Nat
           /\ Firsts[1] = 1
           /\ \A m \in Cleaning!Months : m + 1 \in Cleaning!Months =>
                 Cleaning!Length(m) \in 28..31 /\ Firsts[m + 1] = Firsts[m] + Cleaning!Length(m)
           /\ LastDay \in Nat /\ Retention \in Nat \ {0}
           /\ MaxFaults \in Nat
           /\ FirstDays \subseteq 1..LastDay /\ Busy \subseteq 1..LastDay
           /\ Cleaning!MonthOf(LastDay) + 2 \in Cleaning!Months
BY DEF Cleaning!CleanupAssumption, Cleaning!Months, Cleaning!Length, Cleaning!Days

LEMMA MonthsFollow ==
    ASSUME Cleaning!CleanupAssumption, NEW m \in Cleaning!Months, NEW n \in Cleaning!Months, m < n
    PROVE  Firsts[m] < Firsts[n]
<1> DEFINE late == {k \in Cleaning!Months : m < k /\ ~(Firsts[m] < Firsts[k])}
<1>1. SUFFICES ASSUME late # {}
               PROVE  FALSE
  OBVIOUS
<1>2. late \in SUBSET Nat
  BY CalendarIs
<1>3. PICK k \in late : \A j \in late : k <= j
  BY <1>1, <1>2, Least
<1>4. k - 1 \in Cleaning!Months /\ k \in Cleaning!Months /\ k - 1 \notin late
  <2>1. k \in 1..Len(Firsts) /\ m \in 1..Len(Firsts) /\ m < k /\ Len(Firsts) \in Nat
    BY CalendarIs
  <2>2. k - 1 \in 1..Len(Firsts) /\ ~(k <= k - 1)
    BY <2>1
  <2> QED BY <1>3, <2>1, <2>2, CalendarIs
<1>5. Firsts[k - 1] < Firsts[k]
  <2>1. k \in Nat /\ (k - 1) + 1 = k
    BY <1>2
  <2>2. Cleaning!Length(k - 1) \in 28..31 /\ Firsts[k] = Firsts[k - 1] + Cleaning!Length(k - 1)
    BY <1>4, <2>1, CalendarIs
  <2>3. Firsts[k - 1] \in Nat
    BY <1>4, CalendarIs
  <2> QED BY <2>2, <2>3
<1>6. k - 1 = m \/ Firsts[m] < Firsts[k - 1]
  <2>1. m < k /\ m \in Nat /\ k \in Nat
    BY CalendarIs
  <2>2. k - 1 = m \/ m < k - 1
    BY <2>1
  <2> QED BY <1>4, <2>2
<1>7. /\ Firsts[m] \in Nat /\ Firsts[k] \in Nat /\ Firsts[k - 1] \in Nat
      /\ ~(Firsts[m] < Firsts[k])
  BY <1>4, CalendarIs
<1> QED BY <1>5, <1>6, <1>7

\* A day is in the last month that has begun.
LEMMA MonthIs ==
    ASSUME Cleaning!CleanupAssumption, NEW d \in Nat \ {0}
    PROVE  /\ Cleaning!MonthOf(d) \in Cleaning!Months
           /\ Firsts[Cleaning!MonthOf(d)] <= d
           /\ \A m \in Cleaning!Months : Firsts[m] <= d <=> m <= Cleaning!MonthOf(d)
<1> DEFINE begun == {m \in Cleaning!Months : Firsts[m] <= d} \cup {0}
<1>1. \E m \in begun : \A n \in begun : m >= n
  <2>1. begun \in SUBSET Nat /\ begun # {} /\ \A n \in begun : n <= Len(Firsts)
    BY CalendarIs
  <2> QED BY <2>1, CalendarIs, Greatest
<1>2. Cleaning!MonthOf(d) = CHOOSE m \in begun : \A n \in begun : m >= n
  BY DEF Cleaning!MonthOf, Cleaning!Max
<1>3. Cleaning!MonthOf(d) \in begun /\ \A n \in begun : Cleaning!MonthOf(d) >= n
  BY <1>1, <1>2
<1>4. 1 \in begun
  BY CalendarIs DEF Cleaning!CleanupAssumption
<1>5. Cleaning!MonthOf(d) \in Cleaning!Months /\ Firsts[Cleaning!MonthOf(d)] <= d
  BY <1>3, <1>4
<1>6. ASSUME NEW m \in Cleaning!Months
      PROVE  Firsts[m] <= d <=> m <= Cleaning!MonthOf(d)
  <2>1. Firsts[m] <= d => m <= Cleaning!MonthOf(d)
    BY <1>3, <1>5, CalendarIs
  <2>2. m < Cleaning!MonthOf(d) => Firsts[m] < Firsts[Cleaning!MonthOf(d)]
    BY <1>5, MonthsFollow
  <2> QED BY <1>5, <2>1, <2>2, CalendarIs
<1> QED BY <1>5, <1>6

\* Days of this worker: their months, and the two months after, are in the calendar.
LEMMA MonthOfDay ==
    ASSUME Cleaning!CleanupAssumption, NEW d \in Cleaning!Days
    PROVE  /\ d \in Nat \ {0}
           /\ Cleaning!MonthOf(d) \in Nat
           /\ {Cleaning!MonthOf(d), Cleaning!MonthOf(d) + 1, Cleaning!MonthOf(d) + 2}
              \subseteq Cleaning!Months
<1>1. d \in Nat \ {0} /\ LastDay \in Nat \ {0} /\ d <= LastDay
  BY CalendarIs DEF Cleaning!Days
<1>2. Cleaning!MonthOf(d) \in Cleaning!Months /\ Firsts[Cleaning!MonthOf(d)] <= LastDay
  <2>1. Cleaning!MonthOf(d) \in Cleaning!Months /\ Firsts[Cleaning!MonthOf(d)] <= d
    BY <1>1, MonthIs
  <2>2. Firsts[Cleaning!MonthOf(d)] \in Nat
    BY <2>1, CalendarIs
  <2> QED BY <1>1, <2>1, <2>2
<1>3. Cleaning!MonthOf(d) <= Cleaning!MonthOf(LastDay)
  BY <1>1, <1>2, MonthIs
<1>4. Cleaning!MonthOf(LastDay) \in Cleaning!Months
  BY <1>1, MonthIs
<1> QED BY <1>1, <1>2, <1>3, <1>4, CalendarIs

\* Months do not come back.
LEMMA Midnight ==
    ASSUME Cleaning!CleanupAssumption, NEW d \in Nat \ {0}
    PROVE  Cleaning!MonthOf(d) <= Cleaning!MonthOf(d + 1)
<1>1. /\ Cleaning!MonthOf(d) \in Cleaning!Months /\ Firsts[Cleaning!MonthOf(d)] <= d
      /\ Firsts[Cleaning!MonthOf(d)] \in Nat
  BY MonthIs, CalendarIs
<1>2. \A k \in Cleaning!Months : Firsts[k] <= d + 1 <=> k <= Cleaning!MonthOf(d + 1)
  <2>1. d + 1 \in Nat \ {0}
    OBVIOUS
  <2> QED BY <2>1, MonthIs
<1> QED BY <1>1, <1>2

\* By the 28th the next month is the one that a partition is made for; after it, that or
\* the one after.
LEMMA NextMonthIs ==
    ASSUME Cleaning!CleanupAssumption, NEW d \in Cleaning!Days, d = day
    PROVE  /\ Cleaning!NextMonth \in {Cleaning!MonthOf(day) + 1, Cleaning!MonthOf(day) + 2}
           /\ Cleaning!DayOfMonth(day) <= 28 => Cleaning!NextMonth = Cleaning!MonthOf(day) + 1
<1> DEFINE m == Cleaning!MonthOf(day)
<1>1. /\ m \in Nat /\ m + 1 \in Cleaning!Months /\ m + 2 \in Cleaning!Months
      /\ day \in Nat /\ m \in Cleaning!Months
  BY MonthOfDay
<1>2. Cleaning!Length(m + 1) \in 28..31
  BY <1>1, CalendarIs
<1>3. Cleaning!DayOfMonth(day) \in Int
  BY <1>1, CalendarIs DEF Cleaning!DayOfMonth
<1> QED BY <1>1, <1>2, <1>3 DEF Cleaning!NextMonth

-----------------------------------------------------------------------------
(* The steps of both databases.                                              *)

\* What a tick does where a table is missing: it goes on or ends, and changes nothing.
Skip ==
    /\ step' \in {"list", "idle"}
    /\ UNCHANGED <<day, expired, Cleaning!tables, Cleaning!ghosts, cleanupFaults>>

CleanupStep == Cleaning!Next \/ Skip \/ UNCHANGED cleanupVars

LEMMA MigratedSteps ==
    ASSUME OnMigrated!Next
    PROVE  Cleaning!Next \/ Skip
<1>1. ASSUME OnMigrated!Reset
      PROVE  Skip
  BY <1>1 DEF OnMigrated!Reset, Migrated, Skip, Cleaning!tables, Cleaning!ghosts,
     OnMigrated!tables, OnMigrated!ghosts
<1>2. ASSUME OnMigrated!CreatePartition
      PROVE  Skip
  BY <1>2 DEF OnMigrated!CreatePartition, Skip, Cleaning!tables, Cleaning!ghosts,
     OnMigrated!ghosts
<1>3. ASSUME OnMigrated!Tomorrow
      PROVE  Cleaning!Tomorrow
  BY <1>3 DEF OnMigrated!Tomorrow, Cleaning!Tomorrow, OnMigrated!tables, Cleaning!tables,
     OnMigrated!ghosts, Cleaning!ghosts
<1>4. ASSUME NEW gaveUp \in BOOLEAN, OnMigrated!Finish(gaveUp)
      PROVE  Cleaning!Finish(gaveUp)
  BY <1>4 DEF OnMigrated!Finish, Cleaning!Finish, OnMigrated!ghosts, Cleaning!ghosts
<1>5. ASSUME OnMigrated!ListExpired
      PROVE  Cleaning!ListExpired
  BY <1>5 DEF OnMigrated!ListExpired, Cleaning!ListExpired, OnMigrated!tables, Cleaning!tables,
     OnMigrated!ghosts, Cleaning!ghosts, OnMigrated!BeforeCutoff, Cleaning!BeforeCutoff,
     OnMigrated!CutoffMonth, Cleaning!CutoffMonth, OnMigrated!MonthOf, Cleaning!MonthOf,
     OnMigrated!Months, Cleaning!Months, OnMigrated!Max, Cleaning!Max
<1>6. ASSUME OnMigrated!Tick \/ OnMigrated!Throw \/ OnMigrated!DropPartition
             \/ OnMigrated!DropsDone
      PROVE  Cleaning!Tick \/ Cleaning!Throw \/ Cleaning!DropPartition \/ Cleaning!DropsDone
  BY <1>6 DEF OnMigrated!Tick, OnMigrated!Throw, OnMigrated!DropPartition, OnMigrated!DropsDone,
     Cleaning!Tick, Cleaning!Throw, Cleaning!DropPartition, Cleaning!DropsDone,
     OnMigrated!tables, Cleaning!tables, OnMigrated!ghosts, Cleaning!ghosts
<1>7. ASSUME OnMigrated!PurgeLetters \/ OnMigrated!PurgeDeliveries
      PROVE  Cleaning!PurgeLetters \/ Cleaning!PurgeDeliveries
  BY <1>7 DEF OnMigrated!PurgeLetters, OnMigrated!PurgeDeliveries, Cleaning!PurgeLetters,
     Cleaning!PurgeDeliveries, OnMigrated!ghosts, Cleaning!ghosts, OnMigrated!Old, Cleaning!Old,
     OnMigrated!TooOld, Cleaning!TooOld, OnMigrated!Cascade, Cleaning!Cascade
<1> QED BY <1>1, <1>2, <1>3, <1>4, <1>5, <1>6, <1>7 DEF OnMigrated!Next, Cleaning!Next

LEMMA StepsAre ==
    ASSUME [SideBySideNext]_allVars
    PROVE  /\ CleanupStep /\ part' = part
           /\ part = "migrated" => OnMigrated!Next \/ UNCHANGED cleanupVars
<1>1. CASE UNCHANGED allVars
  BY <1>1 DEF allVars, CleanupStep
<1>2. CASE CleanupNext /\ UNCHANGED part
  BY <1>2, MigratedSteps DEF CleanupNext, CleanupStep
<1>3. CASE UNCHANGED <<part, cleanupVars>>
  BY <1>3 DEF CleanupStep
<1> QED BY <1>1, <1>2, <1>3 DEF SideBySideNext

-----------------------------------------------------------------------------
(* What every step keeps.                                                    *)

LEMMA CleanupStarts ==
    ASSUME Cleaning!CleanupAssumption, Cleaning!Init \/ OnMigrated!Init
    PROVE  CleanupInv
<1>1. /\ day \in Cleaning!Days /\ step = "idle" /\ expired = {} /\ rows = {} /\ letters = {}
      /\ inTime = {} /\ ticked = {} /\ cleanupFaults = 0
      /\ partitions \in {{}, 1..Cleaning!MonthOf(day)}
  BY CalendarIs DEF Cleaning!Days, Cleaning!Init, OnMigrated!Init, OnMigrated!MonthOf,
     Cleaning!MonthOf, OnMigrated!Months, Cleaning!Months, OnMigrated!Max, Cleaning!Max
<1>2. Cleaning!MonthOf(day) \in Cleaning!Months /\ Cleaning!MonthOf(day) \in Nat
  BY <1>1, MonthOfDay
<1>3. partitions \subseteq Cleaning!Months
  BY <1>1, <1>2, CalendarIs
<1> QED BY <1>1, <1>2, <1>3, CalendarIs DEF CleanupInv, Cleaning!TypeOK, Cleaning!LettersHaveRows,
           PartitionInv, Cleaning!Steps

\* Days pass; months do not come back.
LEMMA DaysPass ==
    ASSUME Cleaning!CleanupAssumption, CleanupInv, CleanupStep
    PROVE  /\ day \in Cleaning!Days /\ day' \in Cleaning!Days /\ day <= day'
           /\ Cleaning!MonthOf(day) <= Cleaning!MonthOf(day')
           /\ day' # day => Cleaning!Tomorrow
<1>1. day \in Cleaning!Days /\ day \in Nat \ {0} /\ Cleaning!MonthOf(day) \in Nat
  BY MonthOfDay DEF CleanupInv, Cleaning!TypeOK
<1>2. CASE Cleaning!Tomorrow
  <2>1. day' = day + 1 /\ day' \in Cleaning!Days
    BY <1>1, <1>2, CalendarIs DEF Cleaning!Tomorrow, Cleaning!Days
  <2> QED BY <1>1, <1>2, <2>1, Midnight
<1>3. CASE UNCHANGED day
  BY <1>1, <1>3
<1> QED BY <1>2, <1>3 DEF CleanupStep, Cleaning!Next, Skip, cleanupVars,
           Cleaning!Finish, Cleaning!Tick, Cleaning!Throw, Cleaning!Reset, Cleaning!ListExpired,
           Cleaning!DropPartition, Cleaning!DropsDone, Cleaning!CreatePartition,
           Cleaning!PurgeLetters, Cleaning!PurgeDeliveries

\* What is listed for dropping is past its retention.
LEMMA ListedIsExpired ==
    ASSUME Cleaning!CleanupAssumption, Cleaning!TypeOK, NEW m \in Cleaning!BeforeCutoff
    PROVE  m \in Cleaning!Months /\ m + 1 \in Cleaning!Months
           /\ Firsts[m + 1] - 1 + Retention < day
<1>1. m \in Cleaning!Months /\ m < Cleaning!CutoffMonth /\ m \in Nat /\ m > 0
  BY CalendarIs DEF Cleaning!BeforeCutoff, Cleaning!TypeOK
<1>2. day \in Nat /\ Retention \in Nat
  BY CalendarIs DEF Cleaning!TypeOK, Cleaning!Days
<1>3. day > Retention /\ Cleaning!CutoffMonth = Cleaning!MonthOf(day - Retention)
  BY <1>1, <1>2 DEF Cleaning!CutoffMonth
<1>4. day - Retention \in Nat \ {0}
  BY <1>2, <1>3
<1>5. /\ Cleaning!MonthOf(day - Retention) \in Cleaning!Months
      /\ \A k \in Cleaning!Months :
            Firsts[k] <= day - Retention <=> k <= Cleaning!MonthOf(day - Retention)
  BY <1>4, MonthIs
<1>6. m + 1 \in Cleaning!Months /\ m + 1 <= Cleaning!MonthOf(day - Retention)
  BY <1>1, <1>3, <1>5, CalendarIs
<1>7. Firsts[m + 1] <= day - Retention /\ Firsts[m + 1] \in Nat
  BY <1>5, <1>6, CalendarIs
<1> QED BY <1>1, <1>2, <1>6, <1>7

\* A month that is past its retention is over.
LEMMA ExpiredIsOver ==
    ASSUME Cleaning!CleanupAssumption, Cleaning!TypeOK, NEW m \in Cleaning!Months,
           m + 1 \in Cleaning!Months, Firsts[m + 1] - 1 + Retention < day
    PROVE  m < Cleaning!MonthOf(day)
<1>1. day \in Nat \ {0} /\ Retention \in Nat \ {0} /\ Firsts[m + 1] \in Nat /\ m \in Nat
  <2>1. day \in 1..LastDay
    BY DEF Cleaning!TypeOK, Cleaning!Days
  <2>2. Retention \in Nat \ {0} /\ Firsts[m + 1] \in Nat /\ m \in Nat /\ LastDay \in Nat
    BY CalendarIs
  <2> QED BY <2>1, <2>2
<1>2. Firsts[m + 1] <= day
  BY <1>1
<1>3. m + 1 <= Cleaning!MonthOf(day) /\ Cleaning!MonthOf(day) \in Cleaning!Months
  BY <1>1, <1>2, MonthIs
<1>4. Cleaning!MonthOf(day) \in Nat
  BY <1>3, CalendarIs
<1> QED BY <1>1, <1>3, <1>4

LEMMA CleanupTypesStay ==
    ASSUME Cleaning!CleanupAssumption, CleanupInv, CleanupStep
    PROVE  Cleaning!TypeOK'
<1>1. day' \in Cleaning!Days
  BY DaysPass
<1>2. /\ step' \in Cleaning!Steps
      /\ rows' \subseteq Busy /\ letters' \subseteq Busy
      /\ cleanupFaults' \in 0..MaxFaults
  BY CalendarIs DEF CleanupInv, Cleaning!TypeOK, Cleaning!Steps, CleanupStep, Cleaning!Next, Skip,
     cleanupVars, Cleaning!tables, Cleaning!ghosts, Cleaning!Tomorrow,
     Cleaning!Finish, Cleaning!Tick, Cleaning!Throw, Cleaning!Reset, Cleaning!ListExpired,
     Cleaning!DropPartition, Cleaning!DropsDone, Cleaning!CreatePartition,
     Cleaning!PurgeLetters, Cleaning!PurgeDeliveries, Cleaning!Old, Cleaning!Cascade
<1>3. expired' \subseteq Cleaning!Months /\ partitions' \subseteq Cleaning!Months
      /\ inTime' \subseteq Cleaning!Months /\ ticked' \subseteq Cleaning!Months
  <2>1. /\ expired \subseteq Cleaning!Months /\ partitions \subseteq Cleaning!Months
        /\ inTime \subseteq Cleaning!Months /\ ticked \subseteq Cleaning!Months
    BY DEF CleanupInv, Cleaning!TypeOK
  <2>2. ASSUME Cleaning!CreatePartition
        PROVE  /\ partitions' \subseteq Cleaning!Months /\ expired' = expired
               /\ inTime' \subseteq Cleaning!Months /\ ticked' \subseteq Cleaning!Months
    <3>1. {Cleaning!MonthOf(day), Cleaning!MonthOf(day) + 1, Cleaning!MonthOf(day) + 2}
          \subseteq Cleaning!Months
      BY MonthOfDay DEF CleanupInv, Cleaning!TypeOK
    <3>2. Cleaning!NextMonth \in {Cleaning!MonthOf(day) + 1, Cleaning!MonthOf(day) + 2}
      BY NextMonthIs DEF CleanupInv, Cleaning!TypeOK
    <3> QED BY <2>1, <2>2, <3>1, <3>2 DEF Cleaning!CreatePartition, Cleaning!ghosts
  <2>3. ASSUME Cleaning!ListExpired
        PROVE  expired' \subseteq partitions /\ UNCHANGED <<partitions, inTime, ticked>>
    BY <2>3 DEF Cleaning!ListExpired, Cleaning!BeforeCutoff, Cleaning!tables, Cleaning!ghosts
  <2>4. ASSUME ~Cleaning!CreatePartition, ~Cleaning!ListExpired
        PROVE  /\ expired' \subseteq expired /\ partitions' \subseteq partitions
               /\ UNCHANGED <<inTime, ticked>>
    BY <2>4 DEF CleanupStep, Cleaning!Next, Skip, cleanupVars, Cleaning!tables, Cleaning!ghosts,
       Cleaning!Tomorrow, Cleaning!Finish, Cleaning!Tick, Cleaning!Throw,
       Cleaning!Reset, Cleaning!DropPartition, Cleaning!DropsDone, Cleaning!PurgeLetters,
       Cleaning!PurgeDeliveries
  <2> QED BY <2>1, <2>2, <2>3, <2>4
<1> QED BY <1>1, <1>2, <1>3 DEF Cleaning!TypeOK

LEMMA PartitionsStay ==
    ASSUME Cleaning!CleanupAssumption, CleanupInv, CleanupStep
    PROVE  PartitionInv'
<1>1. /\ day \in Nat /\ day' \in Nat /\ day <= day' /\ Retention \in Nat
      /\ Cleaning!MonthOf(day) <= Cleaning!MonthOf(day')
      /\ Cleaning!MonthOf(day) \in Nat /\ Cleaning!MonthOf(day') \in Nat
      /\ \A m \in Cleaning!Months : m \in Nat /\ Firsts[m] \in Nat
      /\ expired \subseteq Cleaning!Months /\ inTime \subseteq Cleaning!Months
      /\ ticked \subseteq Cleaning!Months
  <2>1. /\ day \in Cleaning!Days /\ day' \in Cleaning!Days /\ day <= day'
        /\ Cleaning!MonthOf(day) <= Cleaning!MonthOf(day')
    BY DaysPass
  <2>2. /\ day \in Nat /\ day' \in Nat
        /\ Cleaning!MonthOf(day) \in Nat /\ Cleaning!MonthOf(day') \in Nat
    BY <2>1, MonthOfDay
  <2>3. Retention \in Nat /\ \A m \in Cleaning!Months : m \in Nat /\ Firsts[m] \in Nat
    BY CalendarIs
  <2> QED BY <2>1, <2>2, <2>3 DEF CleanupInv, Cleaning!TypeOK
<1>2. /\ \A m \in expired : m + 1 \in Cleaning!Months /\ Firsts[m + 1] - 1 + Retention < day
      /\ \A m \in inTime : Cleaning!MonthOf(day) <= m + 1 => m + 1 \in partitions
      /\ \A m \in ticked :
            Cleaning!MonthOf(day) <= m + 1 => {m + 1, m + 2} \cap partitions # {}
  BY DEF CleanupInv, PartitionInv
<1>3. ASSUME NEW m \in expired'
      PROVE  m + 1 \in Cleaning!Months /\ Firsts[m + 1] - 1 + Retention < day'
  <2>1. CASE m \in expired
    BY <1>1, <1>2, <2>1
  <2>2. CASE Cleaning!ListExpired
    <3>1. day' = day /\ m \in Cleaning!BeforeCutoff
      BY <2>2 DEF Cleaning!ListExpired
    <3> QED BY <3>1, ListedIsExpired DEF CleanupInv
  <2> QED BY <2>1, <2>2 DEF CleanupStep, Cleaning!Next, Skip, cleanupVars, Cleaning!Tomorrow,
             Cleaning!Finish, Cleaning!Tick, Cleaning!Throw, Cleaning!Reset,
             Cleaning!DropPartition, Cleaning!DropsDone, Cleaning!CreatePartition,
             Cleaning!PurgeLetters, Cleaning!PurgeDeliveries
<1>4. ASSUME NEW m \in partitions \ partitions'
      PROVE  m < Cleaning!MonthOf(day)
  <2>1. m \in expired
    BY <1>4 DEF CleanupStep, Cleaning!Next, Skip, cleanupVars, Cleaning!tables,
       Cleaning!Tomorrow, Cleaning!Finish, Cleaning!Tick, Cleaning!Throw,
       Cleaning!Reset, Cleaning!ListExpired, Cleaning!DropPartition, Cleaning!DropsDone,
       Cleaning!CreatePartition, Cleaning!PurgeLetters, Cleaning!PurgeDeliveries
  <2> QED BY <1>1, <1>2, <2>1, ExpiredIsOver DEF CleanupInv
<1>5. \/ UNCHANGED <<inTime, ticked>>
      \/ /\ Cleaning!CreatePartition /\ Cleaning!MonthOf(day') = Cleaning!MonthOf(day)
         /\ \/ inTime' = inTime
            \/ /\ inTime' = inTime \cup {Cleaning!MonthOf(day)}
               /\ Cleaning!MonthOf(day) + 1 \in partitions'
         /\ \/ ticked' = ticked
            \/ /\ ticked' = ticked \cup {Cleaning!MonthOf(day)}
               /\ \/ Cleaning!MonthOf(day) + 1 \in partitions'
                  \/ Cleaning!MonthOf(day) + 2 \in partitions'
  <2>1. CASE Cleaning!CreatePartition
    <3>1. /\ Cleaning!NextMonth \in {Cleaning!MonthOf(day) + 1, Cleaning!MonthOf(day) + 2}
          /\ Cleaning!DayOfMonth(day) <= 28 => Cleaning!NextMonth = Cleaning!MonthOf(day) + 1
      BY NextMonthIs DEF CleanupInv, Cleaning!TypeOK
    <3>2. day' = day
      BY <2>1 DEF Cleaning!CreatePartition
    <3>3. Cleaning!MonthOf(day') = Cleaning!MonthOf(day)
      BY <3>2
    <3> QED BY <2>1, <3>1, <3>3 DEF Cleaning!CreatePartition, Cleaning!ghosts
  <2>2. CASE ~Cleaning!CreatePartition
    BY <2>2 DEF CleanupStep, Cleaning!Next, Skip, cleanupVars, Cleaning!ghosts,
       Cleaning!Tomorrow, Cleaning!Finish, Cleaning!Tick, Cleaning!Throw,
       Cleaning!Reset, Cleaning!ListExpired, Cleaning!DropPartition, Cleaning!DropsDone,
       Cleaning!PurgeLetters, Cleaning!PurgeDeliveries
  <2> QED BY <2>1, <2>2
<1>6. ASSUME NEW m \in inTime', Cleaning!MonthOf(day') <= m + 1
      PROVE  m + 1 \in partitions'
  <2>1. CASE m \in inTime
    BY <1>1, <1>2, <1>4, <1>6, <2>1
  <2>2. CASE m \notin inTime
    BY <1>5, <1>6, <2>2
  <2> QED BY <2>1, <2>2
<1>7. ASSUME NEW m \in ticked', Cleaning!MonthOf(day') <= m + 1
      PROVE  {m + 1, m + 2} \cap partitions' # {}
  <2>1. CASE m \in ticked
    <3>1. m \in Nat /\ Cleaning!MonthOf(day) <= m + 1
      BY <1>1, <1>7, <2>1
    <3>2. PICK n \in {m + 1, m + 2} : n \in partitions
      BY <1>2, <2>1, <3>1
    <3>3. n \in partitions'
      BY <1>1, <1>4, <3>1, <3>2
    <3> QED BY <3>2, <3>3
  <2>2. CASE m \notin ticked
    BY <1>5, <1>7, <2>2
  <2> QED BY <2>1, <2>2
<1> QED BY <1>3, <1>6, <1>7 DEF PartitionInv, Cleaning!Months

LEMMA LettersStay ==
    ASSUME CleanupInv, CleanupStep
    PROVE  Cleaning!LettersHaveRows'
BY DEF CleanupInv, Cleaning!LettersHaveRows, CleanupStep, Cleaning!Next, Skip, cleanupVars,
   Cleaning!tables, Cleaning!Tomorrow, Cleaning!Finish, Cleaning!Tick,
   Cleaning!Throw, Cleaning!Reset, Cleaning!ListExpired, Cleaning!DropPartition,
   Cleaning!DropsDone, Cleaning!CreatePartition, Cleaning!PurgeLetters,
   Cleaning!PurgeDeliveries, Cleaning!Old, Cleaning!Cascade

LEMMA CleanupStays ==
    ASSUME Cleaning!CleanupAssumption, CleanupInv, CleanupStep
    PROVE  CleanupInv'
BY CleanupTypesStay, PartitionsStay, LettersStay DEF CleanupInv

-----------------------------------------------------------------------------
(* The results.                                                              *)

LEMMA CleanupHolds ==
    ASSUME Cleaning!CleanupAssumption
    PROVE  SideBySide => []CleanupInv
<1>1. SideBySideInit => CleanupInv
  BY CleanupStarts DEF SideBySideInit
<1>2. CleanupInv /\ [SideBySideNext]_allVars => CleanupInv'
  BY StepsAre, CleanupStays
<1> QED BY <1>1, <1>2, PTL DEF SideBySide

\* Types, in both databases (cleanup-service.ts 31-123).
THEOREM CleanupTypes ==
    ASSUME Cleaning!CleanupAssumption
    PROVE  SideBySide => []Cleaning!TypeOK
<1>1. CleanupInv => Cleaning!TypeOK
  BY DEF CleanupInv
<1> QED BY <1>1, CleanupHolds, PTL

\* A month has a partition when a tick made one by the 28th of the month before, after a
\* tick on a later day the next month has or the one after, and a dead letter has its
\* delivery: in any calendar, whenever midnight passes, whichever statement fails and
\* whatever tables there are (cleanup-service.ts 88-123).
THEOREM LeavesWhole ==
    ASSUME Cleaning!CleanupAssumption
    PROVE  SideBySide => []CleanupLeavesWhole
<1>1. ASSUME CleanupInv
      PROVE  CleanupLeavesWhole
  <2>1. Cleaning!MonthOf(day) \in Nat
    BY <1>1, MonthOfDay DEF CleanupInv, Cleaning!TypeOK
  <2>2. \A m \in inTime : Cleaning!MonthOf(day) = m + 1 => Cleaning!MonthOf(day) <= m + 1
    BY <2>1
  <2> QED BY <1>1, <2>2 DEF CleanupInv, PartitionInv, CleanupLeavesWhole,
             Cleaning!PartitionIsReady
<1> QED BY <1>1, CleanupHolds, PTL

LEMMA MigratedHolds == SideBySide => [](part = "migrated" => MigratedInv)
<1>1. SideBySideInit => (part = "migrated" => MigratedInv)
  BY DEF SideBySideInit, OnMigrated!Init, MigratedInv
<1>2. (part = "migrated" => MigratedInv) /\ [SideBySideNext]_allVars
      => (part = "migrated" => MigratedInv)'
  <2> SUFFICES ASSUME MigratedInv, part = "migrated", [SideBySideNext]_allVars
               PROVE  MigratedInv'
    BY StepsAre
  <2>1. OnMigrated!Next \/ UNCHANGED cleanupVars
    BY StepsAre
  <2> QED BY <2>1 DEF MigratedInv, cleanupVars, OnMigrated!Next, OnMigrated!tables,
             OnMigrated!ghosts, OnMigrated!Tomorrow, OnMigrated!Finish,
             OnMigrated!Tick, OnMigrated!Throw, OnMigrated!Reset, OnMigrated!ListExpired,
             OnMigrated!BeforeCutoff, OnMigrated!DropPartition, OnMigrated!DropsDone,
             OnMigrated!CreatePartition, OnMigrated!PurgeLetters, OnMigrated!PurgeDeliveries
<1> QED BY <1>1, <1>2, PTL DEF SideBySide

\* A partition goes when the last of its days has been kept for the retention.
LEMMA DropsInTime ==
    ASSUME Cleaning!CleanupAssumption, CleanupInv, CleanupStep,
           NEW m \in partitions \ partitions'
    PROVE  Firsts[m + 1] - 1 + Retention < day
<1>1. m \in expired
  BY DEF CleanupStep, Cleaning!Next, Skip, cleanupVars, Cleaning!tables, Cleaning!Tomorrow,
     Cleaning!Finish, Cleaning!Tick, Cleaning!Throw, Cleaning!Reset,
     Cleaning!ListExpired, Cleaning!DropPartition, Cleaning!DropsDone,
     Cleaning!CreatePartition, Cleaning!PurgeLetters, Cleaning!PurgeDeliveries
<1> QED BY <1>1 DEF CleanupInv, PartitionInv

\* A delivery and a dead letter that are young enough stay.
LEMMA YoungStay ==
    ASSUME Cleaning!CleanupAssumption, CleanupInv, CleanupStep,
           NEW d \in rows \cup letters, d + Retention >= day
    PROVE  (d \in rows => d \in rows') /\ (d \in letters => d \in letters')
<1>1. ~Cleaning!TooOld(d)
  <2>1. d \in Nat /\ day \in Nat /\ Retention \in Nat
    BY CalendarIs DEF CleanupInv, Cleaning!TypeOK, Cleaning!Days
  <2> QED BY <2>1 DEF Cleaning!TooOld
<1> QED BY <1>1 DEF CleanupStep, Cleaning!Next, Skip, cleanupVars, Cleaning!tables,
           Cleaning!Tomorrow, Cleaning!Finish, Cleaning!Tick, Cleaning!Throw,
           Cleaning!Reset, Cleaning!ListExpired, Cleaning!DropPartition, Cleaning!DropsDone,
           Cleaning!CreatePartition, Cleaning!PurgeLetters, Cleaning!PurgeDeliveries,
           Cleaning!Old, Cleaning!Cascade

\* Where events is not partitioned, nothing is ever purged.
LEMMA MigratedKeepsAll ==
    ASSUME MigratedInv, OnMigrated!Next \/ UNCHANGED cleanupVars
    PROVE  rows \subseteq rows' /\ letters \subseteq letters'
BY DEF MigratedInv, cleanupVars, OnMigrated!Next, OnMigrated!tables, OnMigrated!Tomorrow,
   OnMigrated!Finish, OnMigrated!Tick, OnMigrated!Throw, OnMigrated!Reset,
   OnMigrated!ListExpired, OnMigrated!DropPartition, OnMigrated!DropsDone,
   OnMigrated!CreatePartition, OnMigrated!PurgeLetters, OnMigrated!PurgeDeliveries

\* No partition, delivery or dead letter goes before its retention is over, also when the
\* tick that drops it began on an earlier day; where events is not partitioned none ever
\* goes (cleanup-service.ts 34-36, 51-103).
THEOREM GoesInTime ==
    ASSUME Cleaning!CleanupAssumption
    PROVE  SideBySide => NothingGoesEarly
<1>1. CleanupInv /\ [SideBySideNext]_allVars =>
        [\A m \in partitions \ partitions' : Firsts[m + 1] - 1 + Retention < day]_Cleaning!vars
  BY StepsAre, DropsInTime
<1>2. CleanupInv /\ [SideBySideNext]_allVars =>
        [\A d \in rows \cup letters :
            d + Retention >= day =>
                (d \in rows => d \in rows') /\ (d \in letters => d \in letters')]_Cleaning!vars
  BY StepsAre, YoungStay
<1>3. (part = "migrated" => MigratedInv) /\ [SideBySideNext]_allVars =>
        [part = "migrated" => rows \subseteq rows' /\ letters \subseteq letters']_cleanupVars
  BY StepsAre, MigratedKeepsAll
<1> QED BY <1>1, <1>2, <1>3, CleanupHolds, MigratedHolds, PTL
        DEF SideBySide, NothingGoesEarly, Cleaning!DropsOnlyExpired, Cleaning!KeptForRetention
=============================================================================
