----------------------------- MODULE PagingProofs -----------------------------
(***************************************************************************)
(* A walk through a list is sound, for any rows and any size of a page.    *)
(*                                                                         *)
(* Where a row stands in a listing lies between the number of rows that    *)
(* are newer and of those that are not older; for a row that shares its    *)
(* createdAt with no other that is one place.  It was on the page just     *)
(* read exactly if that place lies between the page's offset and its end;  *)
(* inserts make it greater and deletes smaller.  So without deletes such a *)
(* row that the client has not got is still ahead of it, and without       *)
(* inserts one that it has got is behind it.                               *)
(***************************************************************************)
EXTENDS RecordsProofs, SequenceTheorems

-----------------------------------------------------------------------------
(* The inductive invariant.                                                  *)

Before(r) == {x \in rows : CreatedAt[x] > CreatedAt[r]}
NotAfter(r) == {x \in rows : CreatedAt[x] >= CreatedAt[r]}

Alone == ToTotal!Alone

\* What the client has, or is about to get.
Got == seen \o items

Elements(s) == {s[i] : i \in 1..Len(s)}
Distinct(s) == \A i, j \in 1..Len(s) : s[i] = s[j] /\ s[i] \in Alone => i = j

\* At every place of s, offset by o, stands a row that may.
InPlace(s, o) ==
    \A i \in 1..Len(s) :
        Cardinality(Before(s[i])) < o + i /\ o + i <= Cardinality(NotAfter(s[i]))

\* How much of the list has been asked for.
Reach == ToTotal!Offset(page) + IF "items" \in queries THEN 0 ELSE PageSize

NothingReadYet ==
    /\ "items" \in queries => items = <<>>
    /\ page = 0 => queries = ToTotal!Both

\* While nothing goes, what was there and the client has not got is ahead.
AheadInv ==
    ~deleted =>
        /\ first \subseteq rows
        /\ page # 0 =>
              \A r \in (first \cap Alone) \ Elements(Got) : Cardinality(Before(r)) >= Reach
        /\ "items" \notin queries /\ Len(items) < PageSize
              => first \cap Alone \subseteq Elements(Got)

\* While nothing comes, what the client has got and is still there is behind.
BehindInv ==
    ~inserted =>
        /\ rows \subseteq first
        /\ Elements(Got) \subseteq first
        /\ Distinct(Got)
        /\ page # 0 =>
              \A r \in rows \cap Elements(Got) : r \in Alone => Cardinality(Before(r)) < Reach

\* While nothing comes or goes, the client has as much of the list as it asked for.
PlaceInv ==
    ~inserted /\ ~deleted =>
        /\ InPlace(Got, 0)
        /\ page # 0 =>
              Len(Got) = IF Reach <= Cardinality(rows) THEN Reach ELSE Cardinality(rows)
        /\ "items" \notin queries /\ Len(items) < PageSize => Len(Got) = Cardinality(rows)

\* The count of a list at rest is the list's.
CountIsRight ==
    ~inserted /\ ~deleted /\ "count" \notin queries => totalCount = Cardinality(first)

\* A walk ends with all that was there.
EndInv ==
    page = 0 =>
        /\ part = "to short" /\ ~deleted => first \cap Alone \subseteq Elements(Got)
        /\ part \in {"to short", "to total"} /\ ~inserted /\ ~deleted
               => first \cap Alone \subseteq Elements(Got) /\ Len(Got) = Cardinality(rows)

WalkInv ==
    /\ ToTotal!TypeOK
    /\ NothingReadYet /\ AheadInv /\ BehindInv /\ PlaceInv /\ CountIsRight /\ EndInv

-----------------------------------------------------------------------------
(* Sizes.                                                                    *)

LEMMA SameSizes ==
    /\ \A S : ToTotal!IsFiniteSet(S) <=> IsFiniteSet(S)
    /\ \A S : ToTotal!Cardinality(S) = Cardinality(S)
    /\ \A S : ToShort!Cardinality(S) = Cardinality(S)
BY DEF IsFiniteSet, ToTotal!IsFiniteSet, Cardinality, ToTotal!Cardinality, ToShort!Cardinality

LEMMA SetsOfRows ==
    ASSUME ToTotal!PagingAssumption, NEW S \in SUBSET Rows
    PROVE  IsFiniteSet(S) /\ Cardinality(S) \in Nat /\ Cardinality(S) <= Cardinality(Rows)
BY SameSizes, FS_Subset, FS_CardinalityType DEF ToTotal!PagingAssumption

LEMMA LargerSet ==
    ASSUME ToTotal!PagingAssumption, NEW S \in SUBSET Rows, NEW T \in SUBSET S
    PROVE  Cardinality(T) <= Cardinality(S)
BY SetsOfRows, FS_Subset

LEMMA Offsets ==
    ASSUME ToTotal!PagingAssumption, NEW p \in Nat \ {0}
    PROVE  /\ ToTotal!Offset(p) \in Nat
           /\ ToTotal!Offset(p + 1) = ToTotal!Offset(p) + PageSize
           /\ PageSize \in Nat \ {0}
<1>1. PageSize \in Nat /\ PageSize # 0
  BY DEF ToTotal!PagingAssumption
<1>2. p - 1 \in Nat /\ (p + 1) - 1 = (p - 1) + 1
  OBVIOUS
<1>3. \A q \in Nat : q * PageSize \in Nat /\ (q + 1) * PageSize = q * PageSize + PageSize
  BY <1>1
<1> QED BY <1>1, <1>2, <1>3 DEF ToTotal!Offset

LEMMA RanksAre ==
    ASSUME ToTotal!PagingAssumption, rows \subseteq Rows, NEW r
    PROVE  Cardinality(Before(r)) \in Nat
BY SetsOfRows DEF Before

-----------------------------------------------------------------------------
(* Sequences.                                                                *)

LEMMA Concatenation ==
    ASSUME NEW S, NEW s \in Seq(S), NEW t \in Seq(S)
    PROVE  /\ s \o t \in Seq(S)
           /\ Len(s \o t) = Len(s) + Len(t)
           /\ Elements(s \o t) = Elements(s) \cup Elements(t)
           /\ Distinct(s) /\ Distinct(t) /\ Elements(s) \cap Elements(t) \cap Alone = {}
                  => Distinct(s \o t)
           /\ Distinct(s \o t) => Distinct(s)
<1> DEFINE u == s \o t
<1>1. /\ u \in Seq(S) /\ Len(u) = Len(s) + Len(t)
      /\ \A i \in 1..Len(s) + Len(t) : u[i] = IF i <= Len(s) THEN s[i] ELSE t[i - Len(s)]
  BY ConcatProperties
<1>2. Len(s) \in Nat /\ Len(t) \in Nat
  OBVIOUS
<1> HIDE DEF u
<1>3. Elements(u) = Elements(s) \cup Elements(t)
  <2>1. ASSUME NEW i \in 1..Len(u) PROVE u[i] \in Elements(s) \cup Elements(t)
    <3>1. CASE i <= Len(s)
      <4>1. i \in 1..Len(s) /\ u[i] = s[i]
        BY <1>1, <1>2, <3>1
      <4> QED BY <4>1 DEF Elements
    <3>2. CASE ~(i <= Len(s))
      <4>1. i - Len(s) \in 1..Len(t) /\ u[i] = t[i - Len(s)]
        BY <1>1, <1>2, <3>2
      <4> QED BY <4>1 DEF Elements
    <3> QED BY <3>1, <3>2
  <2>2. ASSUME NEW i \in 1..Len(s) PROVE s[i] \in Elements(u)
    <3>1. i \in 1..Len(u) /\ u[i] = s[i]
      BY <1>1, <1>2
    <3> QED BY <3>1 DEF Elements
  <2>3. ASSUME NEW i \in 1..Len(t) PROVE t[i] \in Elements(u)
    <3>1. /\ i + Len(s) \in 1..Len(u) /\ ~(i + Len(s) <= Len(s))
          /\ (i + Len(s)) - Len(s) = i /\ Len(u) = Len(s) + Len(t)
      BY <1>1, <1>2
    <3>2. u[i + Len(s)] = t[i]
      BY <1>1, <3>1
    <3> QED BY <3>1, <3>2 DEF Elements
  <2>4. Elements(u) \subseteq Elements(s) \cup Elements(t)
    <3> SUFFICES ASSUME NEW x \in Elements(u) PROVE x \in Elements(s) \cup Elements(t)
      OBVIOUS
    <3>1. PICK i \in 1..Len(u) : x = u[i]
      BY DEF Elements
    <3> QED BY <2>1, <3>1
  <2>5. Elements(s) \subseteq Elements(u)
    BY <2>2 DEF Elements
  <2>6. Elements(t) \subseteq Elements(u)
    BY <2>3 DEF Elements
  <2> QED BY <2>4, <2>5, <2>6
<1>4. ASSUME Distinct(s), Distinct(t), Elements(s) \cap Elements(t) \cap Alone = {},
             NEW i \in 1..Len(u), NEW j \in 1..Len(u), u[i] = u[j], u[i] \in Alone
      PROVE  i = j
  <2>1. CASE i <= Len(s) /\ j <= Len(s)
    <3>1. i \in 1..Len(s) /\ j \in 1..Len(s) /\ s[i] = s[j] /\ s[i] \in Alone
      BY <1>1, <1>2, <1>4, <2>1
    <3> QED BY <1>4, <3>1 DEF Distinct
  <2>2. CASE i > Len(s) /\ j > Len(s)
    <3>1. /\ i - Len(s) \in 1..Len(t) /\ j - Len(s) \in 1..Len(t)
          /\ t[i - Len(s)] = t[j - Len(s)] /\ t[i - Len(s)] \in Alone
      BY <1>1, <1>2, <1>4, <2>2
    <3>2. i - Len(s) = j - Len(s)
      BY <1>4, <3>1 DEF Distinct
    <3> QED BY <1>1, <1>2, <3>2
  <2>3. ASSUME NEW k \in 1..Len(u), NEW l \in 1..Len(u), k <= Len(s), l > Len(s),
               u[k] \in Alone
        PROVE  u[k] # u[l]
    <3>1. k \in 1..Len(s) /\ u[k] = s[k] /\ l - Len(s) \in 1..Len(t) /\ u[l] = t[l - Len(s)]
      BY <1>1, <1>2, <2>3
    <3>2. u[k] \in Elements(s) /\ u[l] \in Elements(t)
      BY <3>1 DEF Elements
    <3> QED BY <1>4, <2>3, <3>2
  <2> QED BY <1>1, <1>2, <1>4, <2>1, <2>2, <2>3
<1>5. Distinct(s) /\ Distinct(t) /\ Elements(s) \cap Elements(t) \cap Alone = {} => Distinct(u)
  BY <1>4 DEF Distinct
<1>6. Distinct(u) => Distinct(s)
  <2>1. \A i \in 1..Len(s) : i \in 1..Len(u) /\ u[i] = s[i]
    BY <1>1, <1>2
  <2> QED BY <2>1 DEF Distinct
<1> QED BY <1>1, <1>3, <1>5, <1>6 DEF u

-----------------------------------------------------------------------------
(* One page.                                                                 *)

Listing(s) ==
    /\ s \in [1..Cardinality(rows) -> rows]
    /\ \A i, j \in 1..Cardinality(rows) : s[i] = s[j] => i = j
    /\ \A i, j \in 1..Cardinality(rows) : i < j => CreatedAt[s[i]] >= CreatedAt[s[j]]

\* What alone means for a row of the list.
LEMMA AloneIs ==
    ASSUME NEW r \in Alone, NEW q \in Rows, CreatedAt[q] = CreatedAt[r]
    PROVE  q = r
BY DEF Alone, ToTotal!Alone

\* The first k rows of a listing are k rows.
LEMMA FrontSize ==
    ASSUME ToTotal!PagingAssumption, rows \subseteq Rows, NEW s, Listing(s),
           NEW k \in 0..Cardinality(rows)
    PROVE  Cardinality({s[j] : j \in 1..k}) = k /\ {s[j] : j \in 1..k} \in SUBSET rows
<1> DEFINE n == Cardinality(rows)
           front == {s[j] : j \in 1..k}
           b == [j \in 1..k |-> s[j]]
<1>1. n \in Nat /\ k \in Nat /\ \A j \in 1..k : j \in 1..n
  BY SetsOfRows
<1>2. front \in SUBSET rows
  BY <1>1 DEF Listing
<1>3. b \in Bijection(1..k, front)
  <2>1. b \in [1..k -> front] /\ \A x \in front : \E j \in 1..k : b[j] = x
    OBVIOUS
  <2>2. \A i, j \in 1..k : b[i] = b[j] => i = j
    BY <1>1 DEF Listing
  <2> QED BY <2>1, <2>2 DEF Bijection, Injection, Surjection, IsInjective
<1>4. IsFiniteSet(1..k) /\ Cardinality(1..k) = k
  BY <1>1, FS_Interval
<1> QED BY <1>2, <1>3, <1>4, FS_Bijection DEF ExistsBijection

\* Where a row may stand in a listing, and where one that is alone does.
LEMMA PlacesAre ==
    ASSUME ToTotal!PagingAssumption, rows \subseteq Rows, NEW s, Listing(s)
    PROVE  /\ \A i \in 1..Cardinality(rows) :
                 /\ Cardinality(Before(s[i])) <= i - 1
                 /\ i <= Cardinality(NotAfter(s[i]))
                 /\ s[i] \in Alone => Cardinality(Before(s[i])) = i - 1
           /\ \A r \in rows : \E i \in 1..Cardinality(rows) : s[i] = r
<1> DEFINE n == Cardinality(rows)
           Front(k) == {s[j] : j \in 1..k}
<1>1. n \in Nat /\ IsFiniteSet(rows)
  BY SetsOfRows
<1>2. /\ \A i \in 1..n : s[i] \in rows /\ CreatedAt[s[i]] \in Nat
      /\ \A r \in rows : CreatedAt[r] \in Nat
  BY DEF ToTotal!PagingAssumption, Listing
<1>3. ASSUME NEW r \in rows PROVE \E i \in 1..n : s[i] = r
  <2>1. s \in Injection(1..n, rows)
    BY DEF Listing, Injection, IsInjective
  <2>2. IsFiniteSet(1..n) /\ Cardinality(1..n) = n
    BY <1>1, FS_Interval
  <2>3. s \in Surjection(1..n, rows)
    BY <1>1, <2>1, <2>2, FS_Injection
  <2> QED BY <2>3 DEF Surjection
<1>4. ASSUME NEW i \in 1..n
      PROVE  /\ Cardinality(Before(s[i])) <= i - 1
             /\ i <= Cardinality(NotAfter(s[i]))
             /\ s[i] \in Alone => Cardinality(Before(s[i])) = i - 1
  <2>1. i \in 0..n /\ i - 1 \in 0..n /\ i \in Nat
    BY <1>1
  <2>2. /\ Cardinality(Front(i - 1)) = i - 1 /\ Front(i - 1) \in SUBSET rows
        /\ Cardinality(Front(i)) = i /\ Front(i) \in SUBSET rows
    BY <2>1, FrontSize
  <2>3. Before(s[i]) \subseteq Front(i - 1)
    <3> SUFFICES ASSUME NEW x \in Before(s[i]) PROVE x \in Front(i - 1)
      OBVIOUS
    <3>1. x \in rows /\ CreatedAt[x] > CreatedAt[s[i]]
      BY DEF Before
    <3>2. PICK j \in 1..n : s[j] = x
      BY <1>3, <3>1
    <3>3. ~(i < j) /\ i # j
      <4>1. i < j => CreatedAt[s[i]] >= CreatedAt[s[j]]
        BY DEF Listing
      <4> QED BY <1>2, <3>1, <3>2, <4>1
    <3>4. j \in 1..(i - 1)
      BY <1>1, <2>1, <3>3
    <3> QED BY <3>2, <3>4
  <2>4. Front(i) \subseteq NotAfter(s[i])
    <3> SUFFICES ASSUME NEW j \in 1..i PROVE s[j] \in NotAfter(s[i])
      OBVIOUS
    <3>1. j \in 1..n /\ (j < i \/ j = i)
      BY <1>1, <2>1
    <3>2. CreatedAt[s[j]] >= CreatedAt[s[i]] /\ s[j] \in rows
      BY <1>2, <3>1 DEF Listing
    <3> QED BY <3>2 DEF NotAfter
  <2>5. s[i] \in Alone => Front(i - 1) \subseteq Before(s[i])
    <3> SUFFICES ASSUME s[i] \in Alone, NEW j \in 1..(i - 1) PROVE s[j] \in Before(s[i])
      OBVIOUS
    <3>1. j \in 1..n /\ j < i /\ j # i
      BY <1>1, <2>1
    <3>2. /\ CreatedAt[s[j]] >= CreatedAt[s[i]] /\ s[j] \in rows /\ s[j] # s[i]
      BY <1>2, <3>1 DEF Listing
    <3>3. CreatedAt[s[j]] # CreatedAt[s[i]]
      BY <3>2, AloneIs
    <3>4. CreatedAt[s[j]] \in Nat /\ CreatedAt[s[i]] \in Nat
      BY <1>2, <3>1
    <3> QED BY <3>2, <3>3, <3>4 DEF Before
  <2>6. Before(s[i]) \in SUBSET Rows /\ NotAfter(s[i]) \in SUBSET Rows
    BY DEF Before, NotAfter
  <2>7. Cardinality(Before(s[i])) <= i - 1
    BY <2>2, <2>3, LargerSet
  <2>8. i <= Cardinality(NotAfter(s[i]))
    BY <2>2, <2>4, <2>6, LargerSet
  <2>9. s[i] \in Alone => Cardinality(Before(s[i])) = i - 1
    BY <2>2, <2>3, <2>5
  <2> QED BY <2>7, <2>8, <2>9
<1> QED BY <1>3, <1>4

\* A page that is read holds the lone rows whose rank is between its offset and its end, each
\* once, and no row out of its place; one that is not full reaches beyond the last row.
LEMMA PageIs ==
    ASSUME ToTotal!PagingAssumption, rows \subseteq Rows, page \in Nat \ {0},
           ToTotal!ReadItems
    PROVE  /\ items' \in Seq(rows) /\ Len(items') <= PageSize
           /\ Distinct(items')
           /\ \A r \in rows \cap Alone :
                 r \in Elements(items') <=>
                     /\ Cardinality(Before(r)) >= ToTotal!Offset(page)
                     /\ Cardinality(Before(r)) < ToTotal!Offset(page) + PageSize
           /\ Len(items') < PageSize =>
                 \A r \in rows : Cardinality(Before(r)) < ToTotal!Offset(page) + PageSize
           /\ InPlace(items', ToTotal!Offset(page))
           /\ Len(items') = IF Cardinality(rows) <= ToTotal!Offset(page) THEN 0
                            ELSE IF Cardinality(rows) <= ToTotal!Offset(page) + PageSize
                            THEN Cardinality(rows) - ToTotal!Offset(page) ELSE PageSize
<1> DEFINE n == Cardinality(rows)  o == ToTotal!Offset(page)
           m == IF o + PageSize <= n THEN o + PageSize ELSE n
<1>1. n \in Nat /\ o \in Nat /\ PageSize \in Nat \ {0} /\ m \in Nat /\ m <= n
  BY SetsOfRows, Offsets
<1>2. PICK s : Listing(s) /\ items' = ToTotal!Slice(s, page)
  <2>1. PICK s \in ToTotal!Listings : items' = ToTotal!Slice(s, page)
    BY DEF ToTotal!ReadItems
  <2>2. s \in [1..n -> rows] /\ DOMAIN s = 1..n
    BY <2>1, SameSizes DEF ToTotal!Listings
  <2>3. \A i, j \in 1..n :
            (s[i] = s[j] => i = j) /\ (i < j => CreatedAt[s[i]] >= CreatedAt[s[j]])
    BY <2>1, <2>2 DEF ToTotal!Listings, ToTotal!Descending
  <2> QED BY <2>1, <2>2, <2>3 DEF Listing
<1>3. /\ \A i \in 1..n : /\ s[i] \in rows
                         /\ Cardinality(Before(s[i])) <= i - 1
                         /\ i <= Cardinality(NotAfter(s[i]))
                         /\ s[i] \in Alone => Cardinality(Before(s[i])) = i - 1
      /\ \A r \in rows : \E i \in 1..n : s[i] = r
      /\ \A i, j \in 1..n : s[i] = s[j] => i = j
  BY <1>2, PlacesAre DEF Listing
<1>4. s \in Seq(rows) /\ Len(s) = n
  BY <1>1, <1>2 DEF Listing
<1>5. items' = SubSeq(s, o + 1, m)
  <2>1. ToTotal!Min({o + PageSize, n}) = m
    <3>1. m \in {o + PageSize, n} /\ \A x \in {o + PageSize, n} : m <= x
      BY <1>1
    <3>2. \A y \in {o + PageSize, n} : (\A x \in {o + PageSize, n} : y <= x) => y = m
      BY <1>1
    <3> QED BY <3>1, <3>2 DEF ToTotal!Min
  <2> QED BY <1>2, <1>4, <2>1 DEF ToTotal!Slice
<1> HIDE DEF m
<1>6. /\ items' \in Seq(rows)
      /\ Len(items') = IF o + 1 <= m THEN m - o ELSE 0
      /\ \A i \in 1..Len(items') : items'[i] = s[o + i]
  BY <1>1, <1>4, <1>5, SubSeqProperties
<1> DEFINE l == Len(items')
<1>7. l \in Nat /\ l <= PageSize
  BY <1>1, <1>6 DEF m
<1>8. \A i \in 1..l : o + i \in 1..n /\ o + i <= m
  BY <1>1, <1>6
<1>9. Distinct(items')
  <2> SUFFICES ASSUME NEW i \in 1..l, NEW j \in 1..l, items'[i] = items'[j]
               PROVE  i = j
    BY DEF Distinct
  <2>1. s[o + i] = s[o + j] /\ o + i \in 1..n /\ o + j \in 1..n
    BY <1>6, <1>8
  <2>2. o + i = o + j
    BY <1>3, <2>1
  <2> QED BY <1>1, <2>2
<1>10. ASSUME NEW r \in rows
       PROVE  /\ r \in Alone =>
                    (r \in Elements(items') <=> /\ Cardinality(Before(r)) >= o
                                                /\ Cardinality(Before(r)) < o + PageSize)
              /\ l < PageSize => Cardinality(Before(r)) < o + PageSize
  <2>1. PICK k \in 1..n : s[k] = r
    BY <1>3
  <2>2. /\ Cardinality(Before(r)) <= k - 1 /\ (r \in Alone => Cardinality(Before(r)) = k - 1)
        /\ Cardinality(Before(r)) \in Nat /\ k \in Nat /\ k >= 1 /\ k <= n
    BY <1>1, <1>3, <2>1, RanksAre
  <2>3. r \in Elements(items') => k >= o + 1 /\ k <= m
    <3>1. SUFFICES ASSUME r \in Elements(items') PROVE k >= o + 1 /\ k <= m
      OBVIOUS
    <3>2. PICK i \in 1..l : items'[i] = r
      BY <3>1 DEF Elements
    <3>3. s[o + i] = s[k] /\ o + i \in 1..n /\ o + i <= m
      BY <1>6, <1>8, <2>1, <3>2
    <3>4. o + i = k
      BY <1>3, <3>3
    <3> QED BY <1>1, <3>3, <3>4
  <2>4. k >= o + 1 /\ k <= m => r \in Elements(items')
    <3>1. SUFFICES ASSUME k >= o + 1, k <= m PROVE r \in Elements(items')
      OBVIOUS
    <3>2. k - o \in 1..l /\ o + (k - o) = k
      BY <1>1, <1>6, <2>2, <3>1
    <3>3. items'[k - o] = r
      BY <1>6, <2>1, <3>2
    <3> QED BY <3>2, <3>3 DEF Elements
  <2>5. k <= m <=> k < o + PageSize + 1
    BY <1>1, <2>2 DEF m
  <2>6. l < PageSize => k <= m
    BY <1>1, <1>6, <2>2 DEF m
  <2>7. k >= o + 1 <=> k - 1 >= o
    BY <1>1, <2>2
  <2>8. k < o + PageSize + 1 <=> k - 1 < o + PageSize
    BY <1>1, <2>2
  <2>9. l < PageSize => Cardinality(Before(r)) < o + PageSize
    BY <1>1, <2>2, <2>5, <2>6
  <2> QED BY <2>2, <2>3, <2>4, <2>5, <2>7, <2>8, <2>9
<1>11. InPlace(items', o)
  <2> SUFFICES ASSUME NEW i \in 1..l
               PROVE  /\ Cardinality(Before(items'[i])) < o + i
                      /\ o + i <= Cardinality(NotAfter(items'[i]))
    BY DEF InPlace
  <2>1. o + i \in 1..n /\ items'[i] = s[o + i]
    BY <1>6, <1>8
  <2>2. /\ Cardinality(Before(items'[i])) <= (o + i) - 1
        /\ o + i <= Cardinality(NotAfter(items'[i]))
    BY <1>3, <2>1
  <2>3. Cardinality(Before(items'[i])) \in Nat /\ o + i \in Nat
    BY <1>1, <2>1, RanksAre
  <2> QED BY <2>2, <2>3
<1>12. l = IF n <= o THEN 0 ELSE IF n <= o + PageSize THEN n - o ELSE PageSize
  BY <1>1, <1>6 DEF m
<1> QED BY <1>6, <1>7, <1>9, <1>10, <1>11, <1>12

-----------------------------------------------------------------------------
(* The steps.                                                                *)

BeyondTotal == page >= ToTotal!TotalPages(totalCount)

WalkEnds ==
    /\ part = "to short" => Len(items) < PageSize
    /\ part = "to total" => BeyondTotal

\* The client got a page, of the walk that it is on.
Answered ==
    /\ page # 0 /\ queries = {}
    /\ seen' = Got /\ items' = <<>> /\ queries' = ToTotal!Both /\ totalCount' = 0
    /\ UNCHANGED <<rows, unused, first, inserted, deleted>>
    /\ page' = page + 1 \/ (page' = 0 /\ WalkEnds)

WalkStep ==
    /\ part' = part
    /\ \/ ToTotal!Insert \/ ToTotal!Delete \/ ToTotal!ReadItems \/ ToTotal!ReadCount
       \/ Answered \/ UNCHANGED pagingVars

LEMMA StepsOfAWalk ==
    [SideBySideNext]_<<part, vars, sessionVars, registryVars, pagingVars>> => WalkStep
<1> SUFFICES ASSUME [SideBySideNext]_<<part, vars, sessionVars, registryVars, pagingVars>>
             PROVE  WalkStep
  OBVIOUS
<1>1. ASSUME part = "to short", ToShort!Respond PROVE Answered
  BY <1>1 DEF ToShort!Respond, ToShort!IsLast, ToShort!Both, ToTotal!Both, Answered, WalkEnds, Got
<1>2. ASSUME part = "to total", ToTotal!Respond PROVE Answered
  BY <1>2 DEF ToTotal!Respond, ToTotal!IsLast, Answered, WalkEnds, BeyondTotal, Got
<1>3. /\ ToShort!Insert => ToTotal!Insert
      /\ ToShort!Delete => ToTotal!Delete
      /\ ToShort!ReadCount => ToTotal!ReadCount
  BY SameSizes DEF ToShort!Insert, ToShort!Delete, ToShort!ReadCount,
                   ToTotal!Insert, ToTotal!Delete, ToTotal!ReadCount
<1>4. ToShort!ReadItems => ToTotal!ReadItems
  <2>1. ToShort!Listings = ToTotal!Listings
    BY SameSizes DEF ToShort!Listings, ToTotal!Listings, ToShort!Descending, ToTotal!Descending
  <2>2. \A s : ToShort!Slice(s, page) = ToTotal!Slice(s, page)
    BY DEF ToShort!Slice, ToTotal!Slice, ToShort!Offset, ToTotal!Offset, ToShort!Min, ToTotal!Min
  <2> QED BY <2>1, <2>2 DEF ToShort!ReadItems, ToTotal!ReadItems
<1>5. part' = part
  BY DEF SideBySideNext, RegistryNext
<1>6. CASE part = "to short" /\ ToShort!Next
  BY <1>1, <1>3, <1>4, <1>5, <1>6 DEF ToShort!Next, WalkStep
<1>7. CASE part = "to total" /\ ToTotal!Next
  BY <1>2, <1>5, <1>7 DEF ToTotal!Next, WalkStep
<1>8. CASE UNCHANGED pagingVars
  BY <1>5, <1>8 DEF WalkStep
<1> QED BY <1>6, <1>7, <1>8 DEF SideBySideNext, RegistryNext

LEMMA GotIs ==
    ASSUME ToTotal!TypeOK
    PROVE  /\ Got \in Seq(Rows) /\ Len(Got) = Len(seen) + Len(items)
           /\ Elements(Got) = Elements(seen) \cup Elements(items)
           /\ Distinct(Got) => Distinct(seen)
           /\ items = <<>> => Got = seen
<1>1. seen \in Seq(Rows) /\ items \in Seq(Rows)
  BY DEF ToTotal!TypeOK
<1>2. items = <<>> => Got = seen
  BY <1>1, ConcatEmptySeq DEF Got
<1> QED BY <1>1, <1>2, Concatenation DEF Got

LEMMA WalkTypesStay ==
    ASSUME ToTotal!PagingAssumption, ToTotal!TypeOK, WalkStep
    PROVE  ToTotal!TypeOK'
<1>1. CASE ToTotal!Insert
  BY <1>1 DEF ToTotal!TypeOK, ToTotal!Insert
<1>2. CASE ToTotal!Delete
  BY <1>2 DEF ToTotal!TypeOK, ToTotal!Delete
<1>3. CASE ToTotal!ReadItems
  <2>1. items' \in Seq(rows) /\ Len(items') <= PageSize
    BY <1>3, PageIs DEF ToTotal!TypeOK, ToTotal!ReadItems
  <2>2. items' \in Seq(Rows)
    BY <2>1, SeqMonotonic DEF ToTotal!TypeOK
  <2> QED BY <1>3, <2>1, <2>2 DEF ToTotal!TypeOK, ToTotal!ReadItems
<1>4. CASE ToTotal!ReadCount
  <2>1. Cardinality(rows) \in 0..Cardinality(Rows)
    BY SetsOfRows DEF ToTotal!TypeOK
  <2> QED BY <1>4, <2>1, SameSizes DEF ToTotal!TypeOK, ToTotal!ReadCount
<1>5. CASE Answered
  <2>1. seen' \in Seq(Rows)
    BY <1>5, GotIs DEF Answered
  <2>2. items' \in Seq(Rows) /\ Len(items') <= PageSize
    <3>1. PageSize \in Nat /\ items' = <<>>
      BY <1>5 DEF Answered, ToTotal!PagingAssumption
    <3>2. Len(<<>>) = 0 /\ <<>> \in Seq(Rows)
      OBVIOUS
    <3> QED BY <3>1, <3>2
  <2>3. totalCount' \in 0..ToTotal!Cardinality(Rows)
    <3>1. Cardinality(Rows) \in Nat
      BY SetsOfRows
    <3>2. totalCount' = 0
      BY <1>5 DEF Answered
    <3>3. ToTotal!Cardinality(Rows) = Cardinality(Rows)
      BY SameSizes
    <3> QED BY <3>1, <3>2, <3>3
  <2>4. page' \in Nat
    <3>1. page \in Nat
      BY DEF ToTotal!TypeOK
    <3>2. page' = page + 1 \/ page' = 0
      BY <1>5, Zenon DEF Answered
    <3> QED BY <3>1, <3>2
  <2> QED BY <1>5, <2>1, <2>2, <2>3, <2>4 DEF ToTotal!TypeOK, Answered, ToTotal!Both
<1>6. CASE UNCHANGED pagingVars
  BY <1>6 DEF ToTotal!TypeOK, pagingVars
<1> QED BY <1>1, <1>2, <1>3, <1>4, <1>5, <1>6 DEF WalkStep

-----------------------------------------------------------------------------
(* Each step keeps the invariant.                                            *)

LEMMA ReachIs ==
    ASSUME ToTotal!PagingAssumption, page \in Nat \ {0}
    PROVE  /\ Reach \in Nat
           /\ Reach = IF "items" \in queries THEN ToTotal!Offset(page)
                     ELSE ToTotal!Offset(page) + PageSize
<1>1. ToTotal!Offset(page) \in Nat /\ PageSize \in Nat
  BY Offsets
<1> QED BY <1>1 DEF Reach

LEMMA InsertKeeps ==
    ASSUME ToTotal!PagingAssumption, WalkInv, WalkStep, ToTotal!Insert
    PROVE  WalkInv'
<1>1. /\ ToTotal!TypeOK /\ ToTotal!TypeOK'
      /\ UNCHANGED <<page, queries, items, totalCount, seen, first, deleted, part, Got, Reach>>
      /\ rows \subseteq rows' /\ inserted'
  BY WalkTypesStay DEF WalkInv, ToTotal!Insert, Got, Reach, WalkStep
<1>2. ASSUME ~deleted, page # 0, NEW r \in (first \cap Alone) \ Elements(Got)
      PROVE  Cardinality(Before(r)') >= Reach
  <2>1. Before(r) \subseteq Before(r)' /\ Before(r)' \in SUBSET Rows
    BY <1>1 DEF Before, ToTotal!TypeOK
  <2>2. Cardinality(Before(r)) <= Cardinality(Before(r)')
    BY <2>1, LargerSet
  <2>3. Cardinality(Before(r)) \in Nat /\ Cardinality(Before(r)') \in Nat
    BY <1>1, <2>1, SetsOfRows, RanksAre DEF ToTotal!TypeOK
  <2>4. Cardinality(Before(r)) >= Reach
    BY <1>2 DEF WalkInv, AheadInv
  <2>5. Reach \in Nat
    BY <1>1, <1>2, ReachIs DEF ToTotal!TypeOK
  <2> QED BY <2>2, <2>3, <2>4, <2>5
<1>3. AheadInv'
  BY <1>1, <1>2 DEF WalkInv, AheadInv, Elements
<1>4. NothingReadYet' /\ BehindInv' /\ PlaceInv' /\ CountIsRight' /\ EndInv'
  BY <1>1 DEF WalkInv, NothingReadYet, BehindInv, PlaceInv, CountIsRight, EndInv, Elements
<1> QED BY <1>1, <1>3, <1>4 DEF WalkInv

LEMMA DeleteKeeps ==
    ASSUME ToTotal!PagingAssumption, WalkInv, WalkStep, ToTotal!Delete
    PROVE  WalkInv'
<1>1. /\ ToTotal!TypeOK /\ ToTotal!TypeOK'
      /\ UNCHANGED <<page, queries, items, totalCount, seen, first, inserted, part, Got, Reach>>
      /\ rows' \subseteq rows /\ deleted'
  BY WalkTypesStay DEF WalkInv, ToTotal!Delete, Got, Reach, WalkStep
<1>2. ASSUME ~inserted, page # 0, NEW r \in rows' \cap Elements(Got), r \in Alone
      PROVE  Cardinality(Before(r)') < Reach
  <2>1. Before(r)' \subseteq Before(r) /\ Before(r) \in SUBSET Rows
    BY <1>1 DEF Before, ToTotal!TypeOK
  <2>2. Cardinality(Before(r)') <= Cardinality(Before(r))
    BY <2>1, LargerSet
  <2>3. Cardinality(Before(r)) \in Nat /\ Cardinality(Before(r)') \in Nat
    BY <1>1, <2>1, SetsOfRows, RanksAre DEF ToTotal!TypeOK
  <2>4. Cardinality(Before(r)) < Reach
    BY <1>1, <1>2 DEF WalkInv, BehindInv
  <2>5. Reach \in Nat
    BY <1>1, <1>2, ReachIs DEF ToTotal!TypeOK
  <2> QED BY <2>2, <2>3, <2>4, <2>5
<1>3. BehindInv'
  BY <1>1, <1>2 DEF WalkInv, BehindInv, Elements, Distinct
<1>4. NothingReadYet' /\ AheadInv' /\ PlaceInv' /\ CountIsRight' /\ EndInv'
  BY <1>1 DEF WalkInv, NothingReadYet, AheadInv, PlaceInv, CountIsRight, EndInv, Elements
<1> QED BY <1>1, <1>3, <1>4 DEF WalkInv

LEMMA ReadItemsKeeps ==
    ASSUME ToTotal!PagingAssumption, WalkInv, WalkStep, ToTotal!ReadItems
    PROVE  WalkInv'
<1> DEFINE o == ToTotal!Offset(page)
<1>1. /\ ToTotal!TypeOK /\ ToTotal!TypeOK' /\ page \in Nat \ {0}
      /\ UNCHANGED <<rows, page, totalCount, seen, first, inserted, deleted, part>>
      /\ "items" \in queries /\ "items" \notin queries'
      /\ "count" \in queries' <=> "count" \in queries
  BY WalkTypesStay DEF WalkInv, ToTotal!ReadItems, WalkStep, ToTotal!TypeOK
<1>2. /\ Distinct(items')
      /\ Elements(items') \subseteq rows
      /\ \A r \in rows \cap Alone :
            r \in Elements(items') <=> /\ Cardinality(Before(r)) >= o
                                      /\ Cardinality(Before(r)) < o + PageSize
      /\ Len(items') < PageSize => \A r \in rows : Cardinality(Before(r)) < o + PageSize
      /\ InPlace(items', o)
      /\ Len(items') = IF Cardinality(rows) <= o THEN 0
                       ELSE IF Cardinality(rows) <= o + PageSize
                       THEN Cardinality(rows) - o ELSE PageSize
  <2>1. items' \in Seq(rows) /\ rows \subseteq Rows
    BY <1>1, PageIs DEF ToTotal!TypeOK
  <2>2. Elements(items') \subseteq rows
    BY <2>1, ElementOfSeq DEF Elements
  <2> QED BY <1>1, <2>1, <2>2, PageIs
<1>3. /\ o \in Nat /\ PageSize \in Nat \ {0}
      /\ Reach = o /\ Reach' = o + PageSize
      /\ \A r : Before(r)' = Before(r) /\ Cardinality(Before(r)) \in Nat
  <2>1. o \in Nat /\ PageSize \in Nat \ {0} /\ o' = o
    BY <1>1, Offsets DEF ToTotal!Offset
  <2>2. Reach = o
    BY <1>1, ReachIs
  <2>3. Reach' = o + PageSize
    BY <1>1, <2>1 DEF Reach
  <2>4. \A r : Before(r)' = Before(r) /\ Cardinality(Before(r)) \in Nat
    BY <1>1, RanksAre DEF ToTotal!TypeOK, Before
  <2> QED BY <2>1, <2>2, <2>3, <2>4
<1>4. /\ Got = seen
      /\ Elements(Got') = Elements(seen) \cup Elements(items')
      /\ Distinct(seen) /\ Elements(seen) \cap Elements(items') \cap Alone = {} => Distinct(Got')
  <2>1. Got = seen
    BY <1>1, GotIs DEF WalkInv, NothingReadYet
  <2>2. seen \in Seq(Rows) /\ items' \in Seq(Rows) /\ Got' = seen \o items'
    BY <1>1 DEF ToTotal!TypeOK, Got
  <2> QED BY <1>2, <2>1, <2>2, Concatenation
<1> HIDE DEF o
<1>5. AheadInv'
  <2>1. SUFFICES ASSUME ~deleted
                 PROVE  /\ first \subseteq rows
                        /\ \A r \in (first \cap Alone) \ Elements(Got') :
                              Cardinality(Before(r)) >= o + PageSize
                        /\ Len(items') < PageSize => first \cap Alone \subseteq Elements(Got')
    BY <1>1, <1>3 DEF AheadInv, Elements
  <2>2. /\ first \subseteq rows
        /\ \A r \in (first \cap Alone) \ Elements(seen) : Cardinality(Before(r)) >= o
    BY <1>1, <1>3, <1>4, <2>1 DEF WalkInv, AheadInv
  <2>3. \A r \in (first \cap Alone) \ Elements(Got') : Cardinality(Before(r)) >= o + PageSize
    BY <1>2, <1>3, <1>4, <2>2
  <2>4. Len(items') < PageSize => first \cap Alone \subseteq Elements(Got')
    BY <1>2, <1>4, <2>2
  <2> QED BY <2>2, <2>3, <2>4
<1>6. BehindInv'
  <2>1. SUFFICES ASSUME ~inserted
                 PROVE  /\ rows \subseteq first /\ Elements(Got') \subseteq first
                        /\ Distinct(Got')
                        /\ \A r \in rows \cap Elements(Got') :
                              r \in Alone => Cardinality(Before(r)) < o + PageSize
    BY <1>1, <1>3 DEF BehindInv, Elements, Distinct
  <2>2. /\ rows \subseteq first /\ Elements(seen) \subseteq first /\ Distinct(seen)
        /\ \A r \in rows \cap Elements(seen) : r \in Alone => Cardinality(Before(r)) < o
    BY <1>1, <1>3, <1>4, <2>1 DEF WalkInv, BehindInv
  <2>3. Elements(seen) \cap Elements(items') \cap Alone = {}
    <3> SUFFICES ASSUME NEW r \in Elements(seen), r \in Elements(items'), r \in Alone
                 PROVE  FALSE
      OBVIOUS
    <3>1. r \in rows /\ Cardinality(Before(r)) < o /\ Cardinality(Before(r)) >= o
      BY <1>2, <2>2
    <3> QED BY <1>3, <3>1
  <2>4. \A r \in rows \cap Elements(Got') : r \in Alone => Cardinality(Before(r)) < o + PageSize
    BY <1>2, <1>3, <1>4, <2>2
  <2> QED BY <1>2, <1>4, <2>2, <2>3, <2>4
<1>7. NothingReadYet' /\ CountIsRight' /\ EndInv'
  BY <1>1 DEF WalkInv, NothingReadYet, CountIsRight, EndInv
<1>8. PlaceInv'
  <2>1. SUFFICES ASSUME ~inserted, ~deleted
                 PROVE  /\ InPlace(Got', 0)
                        /\ Len(Got') = IF o + PageSize <= Cardinality(rows) THEN o + PageSize
                                       ELSE Cardinality(rows)
                        /\ Len(items') < PageSize => Len(Got') = Cardinality(rows)
    BY <1>1, <1>3 DEF PlaceInv, InPlace, Before, NotAfter
  <2> DEFINE n == Cardinality(rows)
  <2>2. /\ InPlace(seen, 0) /\ Len(seen) = IF o <= n THEN o ELSE n
        /\ n \in Nat
    BY <1>1, <1>3, <1>4, <2>1, SetsOfRows DEF WalkInv, PlaceInv, ToTotal!TypeOK
  <2>3. /\ Len(Got') = Len(seen) + Len(items')
        /\ \A i \in 1..Len(Got') : Got'[i] = IF i <= Len(seen) THEN seen[i] ELSE items'[i - Len(seen)]
        /\ Len(seen) \in Nat /\ Len(items') \in Nat
    <3>1. seen \in Seq(Rows) /\ items' \in Seq(Rows) /\ Got' = seen \o items'
      BY <1>1 DEF ToTotal!TypeOK, Got
    <3> QED BY <3>1, ConcatProperties
  <2> HIDE DEF n
  <2>4. /\ Len(items') = IF n <= o THEN 0 ELSE IF n <= o + PageSize THEN n - o ELSE PageSize
        /\ InPlace(items', o)
    BY <1>2 DEF n
  <2>5. /\ Len(Got') = IF o + PageSize <= n THEN o + PageSize ELSE n
        /\ Len(items') < PageSize => Len(Got') = n
    BY <1>3, <2>2, <2>3, <2>4
  <2>6. ASSUME NEW i \in 1..Len(Got')
        PROVE  Cardinality(Before(Got'[i])) < 0 + i /\ 0 + i <= Cardinality(NotAfter(Got'[i]))
    <3>1. CASE i <= Len(seen)
      <4>1. i \in 1..Len(seen) /\ Got'[i] = seen[i]
        BY <2>3, <3>1
      <4> QED BY <2>2, <4>1 DEF InPlace
    <3>2. CASE ~(i <= Len(seen))
      <4>1. /\ i - Len(seen) \in 1..Len(items') /\ Got'[i] = items'[i - Len(seen)]
            /\ Len(seen) = o /\ o + (i - Len(seen)) = i /\ 0 + i = i
        BY <1>3, <2>2, <2>3, <2>4, <3>2
      <4>2. /\ Cardinality(Before(items'[i - Len(seen)])) < o + (i - Len(seen))
            /\ o + (i - Len(seen)) <= Cardinality(NotAfter(items'[i - Len(seen)]))
        BY <2>4, <4>1 DEF InPlace
      <4> QED BY <4>1, <4>2
    <3> QED BY <3>1, <3>2
  <2> QED BY <2>5, <2>6 DEF InPlace, n
<1> QED BY <1>1, <1>5, <1>6, <1>7, <1>8 DEF WalkInv

LEMMA ReadCountKeeps ==
    ASSUME ToTotal!PagingAssumption, WalkInv, WalkStep, ToTotal!ReadCount
    PROVE  WalkInv'
<1>1. /\ ToTotal!TypeOK /\ ToTotal!TypeOK' /\ page # 0
      /\ UNCHANGED <<rows, page, items, seen, first, inserted, deleted, part, Got, Reach>>
      /\ "items" \in queries' <=> "items" \in queries
      /\ \A r : Before(r)' = Before(r)
      /\ totalCount' = Cardinality(rows)
  BY WalkTypesStay, SameSizes
     DEF WalkInv, ToTotal!ReadCount, Got, Reach, WalkStep, Before, ToTotal!Offset
<1>2. AheadInv' /\ BehindInv' /\ NothingReadYet' /\ EndInv'
  BY <1>1 DEF WalkInv, NothingReadYet, AheadInv, BehindInv, EndInv, Elements, Distinct
<1>4. PlaceInv'
  BY <1>1 DEF WalkInv, PlaceInv, InPlace, Before, NotAfter
<1>3. CountIsRight'
  <2>1. ~inserted /\ ~deleted => rows = first
    BY DEF WalkInv, AheadInv, BehindInv
  <2> QED BY <1>1, <2>1 DEF CountIsRight
<1> QED BY <1>1, <1>2, <1>3, <1>4 DEF WalkInv

\* As many whole pages as totalPages says hold the list.
LEMMA PagesHoldAll ==
    ASSUME ToTotal!PagingAssumption, page \in Nat \ {0}, NEW total \in Nat,
           page >= ToTotal!TotalPages(total)
    PROVE  ToTotal!Offset(page) + PageSize >= total
<1> DEFINE q == (total + PageSize - 1) \div PageSize
<1>1. PageSize \in Nat \ {0}
  BY DEF ToTotal!PagingAssumption
<1>2. q \in Nat /\ q * PageSize >= total
  BY <1>1
<1>3. page * PageSize >= q * PageSize
  BY <1>1, <1>2 DEF ToTotal!TotalPages
<1>4. ToTotal!Offset(page) + PageSize = page * PageSize
  BY <1>1 DEF ToTotal!Offset
<1> QED BY <1>1, <1>2, <1>3, <1>4

LEMMA RankIsSmall ==
    ASSUME ToTotal!PagingAssumption, rows \subseteq Rows, NEW r \in rows
    PROVE  Cardinality(Before(r)) < Cardinality(rows)
<1>1. IsFiniteSet(rows) /\ Cardinality(rows) \in Nat
  BY SetsOfRows
<1>2. Before(r) \subseteq rows \ {r}
  BY DEF Before, ToTotal!PagingAssumption
<1>3. Cardinality(rows \ {r}) = Cardinality(rows) - 1 /\ IsFiniteSet(rows \ {r})
  BY <1>1, FS_RemoveElement
<1>4. Cardinality(Before(r)) <= Cardinality(rows \ {r}) /\ Cardinality(Before(r)) \in Nat
  BY <1>2, <1>3, FS_Subset, RanksAre
<1> QED BY <1>1, <1>3, <1>4

LEMMA AnswerEnds ==
    ASSUME ToTotal!PagingAssumption, WalkInv, WalkStep, Answered
    PROVE  WalkInv'
<1>1. /\ ToTotal!TypeOK /\ ToTotal!TypeOK' /\ page \in Nat \ {0} /\ queries = {}
      /\ UNCHANGED <<rows, first, inserted, deleted, part>>
      /\ queries' = ToTotal!Both /\ items' = <<>>
      /\ \A r : Before(r)' = Before(r)
  BY WalkTypesStay DEF WalkInv, WalkStep, Answered, Before, ToTotal!TypeOK
<1>2. Got' = Got
  <2>1. seen' \in Seq(Rows) /\ seen' = Got
    BY <1>1 DEF Answered, ToTotal!TypeOK
  <2> QED BY <1>1, <2>1, ConcatEmptySeq DEF Got
<1>3. page' # 0 => Reach' = Reach
  <2>1. SUFFICES ASSUME page' # 0 PROVE Reach' = Reach
    OBVIOUS
  <2>2. page' = page + 1 /\ page' \in Nat \ {0}
    <3>1. page' = page + 1 \/ page' = 0
      BY Zenon DEF Answered
    <3> QED BY <1>1, <2>1, <3>1
  <2>3. Reach' = ToTotal!Offset(page + 1)
    <3>1. ToTotal!Offset(page + 1) \in Nat
      BY <1>1, Offsets
    <3>2. ToTotal!Offset(page)' = ToTotal!Offset(page + 1)
      BY <2>2 DEF ToTotal!Offset
    <3> QED BY <1>1, <3>1, <3>2 DEF Reach, ToTotal!Both
  <2>4. Reach = ToTotal!Offset(page) + PageSize
    BY <1>1, ReachIs
  <2> QED BY <1>1, <2>3, <2>4, Offsets
<1>4. AheadInv' /\ BehindInv' /\ NothingReadYet' /\ CountIsRight'
  <2>1. Elements(Got)' = Elements(Got) /\ (Distinct(Got) => Distinct(Got)')
    BY <1>2 DEF Elements, Distinct
  <2>2. AheadInv'
    BY <1>1, <1>3, <2>1 DEF WalkInv, AheadInv, ToTotal!Both
  <2>3. BehindInv'
    BY <1>1, <1>3, <2>1 DEF WalkInv, BehindInv
  <2> QED BY <1>1, <2>2, <2>3 DEF NothingReadYet, CountIsRight, ToTotal!Both
<1>5. ASSUME page' = 0, ~deleted, part = "to short" \/ (part = "to total" /\ ~inserted)
      PROVE  /\ first \cap Alone \subseteq Elements(Got)
             /\ ~inserted => Len(Got) = Cardinality(rows)
  <2>1. WalkEnds
    <3>1. page' = page + 1 \/ WalkEnds
      BY Zenon DEF Answered
    <3>2. page \in Nat \ {0} /\ page' = 0
      BY <1>1, <1>5, Zenon
    <3>3. page' # page + 1
      BY <3>2
    <3> QED BY <3>1, <3>3
  <2>2. CASE part = "to short"
    BY <1>1, <1>5, <2>1, <2>2 DEF WalkEnds, WalkInv, AheadInv, PlaceInv
  <2>3. CASE part = "to total" /\ ~inserted
    <3>1. rows = first /\ totalCount = Cardinality(rows) /\ BeyondTotal
      BY <1>1, <1>5, <2>1, <2>3 DEF WalkEnds, WalkInv, AheadInv, BehindInv, CountIsRight
    <3>2. Cardinality(rows) \in Nat /\ rows \subseteq Rows
      BY <1>1, SetsOfRows DEF ToTotal!TypeOK
    <3>3. Reach \in Nat /\ Reach >= Cardinality(rows)
      <4>1. page >= ToTotal!TotalPages(Cardinality(rows))
        BY <3>1, Zenon DEF BeyondTotal
      <4>2. Reach = ToTotal!Offset(page) + PageSize /\ Reach \in Nat
        BY <1>1, ReachIs
      <4> QED BY <1>1, <3>2, <4>1, <4>2, PagesHoldAll
    <3>4. ASSUME NEW r \in first \cap Alone, r \notin Elements(Got) PROVE FALSE
      <4>1. Cardinality(Before(r)) >= Reach
        BY <1>1, <1>5, <3>4 DEF WalkInv, AheadInv
      <4>2. Cardinality(Before(r)) < Cardinality(rows) /\ Cardinality(Before(r)) \in Nat
        BY <3>1, <3>2, RankIsSmall, RanksAre
      <4> QED BY <3>2, <3>3, <4>1, <4>2
    <3>5. Len(Got) = Cardinality(rows)
      <4>1. Len(Got) = IF Reach <= Cardinality(rows) THEN Reach ELSE Cardinality(rows)
        BY <1>1, <1>5, <2>3 DEF WalkInv, PlaceInv
      <4> QED BY <3>2, <3>3, <4>1
    <3> QED BY <3>4, <3>5
  <2> QED BY <1>5, <2>2, <2>3
<1>6. EndInv'
  <2>1. Elements(Got)' = Elements(Got)
    BY <1>2 DEF Elements
  <2>2. (page' = 0 /\ ~deleted' /\ (part' = "to short" \/ (part' = "to total" /\ ~inserted')))
        => /\ first' \cap Alone \subseteq Elements(Got)'
           /\ ~inserted' => Len(Got)' = Cardinality(rows)'
    BY <1>1, <1>2, <1>5, <2>1
  <2> QED BY <2>2 DEF EndInv
<1>7. PlaceInv'
  <2>1. InPlace(Got, 0)' <=> InPlace(Got, 0)
    BY <1>1, <1>2 DEF InPlace, Before, NotAfter
  <2> QED BY <1>1, <1>2, <1>3, <2>1 DEF WalkInv, PlaceInv, ToTotal!Both
<1> QED BY <1>1, <1>4, <1>6, <1>7 DEF WalkInv

LEMMA WalkStays ==
    ASSUME ToTotal!PagingAssumption, WalkInv, WalkStep
    PROVE  WalkInv'
<1>1. CASE UNCHANGED pagingVars
  <2>1. UNCHANGED <<part, Got, Reach>> /\ \A r : Before(r)' = Before(r)
    BY <1>1 DEF pagingVars, WalkStep, Got, Reach, Before, ToTotal!Offset
  <2>2. UNCHANGED <<rows, unused, page, queries, items, totalCount, seen>>
        /\ UNCHANGED <<first, inserted, deleted>>
    BY <1>1 DEF pagingVars
  <2>3. Elements(Got)' = Elements(Got) /\ (Distinct(Got) => Distinct(Got)')
    BY <2>1 DEF Elements, Distinct
  <2>4. AheadInv' /\ BehindInv'
    BY <2>1, <2>2, <2>3 DEF WalkInv, AheadInv, BehindInv
  <2>6. PlaceInv'
    BY <2>1, <2>2 DEF WalkInv, PlaceInv, InPlace, Before, NotAfter
  <2>5. NothingReadYet' /\ CountIsRight' /\ EndInv'
    BY <2>1, <2>2, <2>3 DEF WalkInv, NothingReadYet, CountIsRight, EndInv
  <2> QED BY <2>4, <2>5, <2>6, WalkTypesStay DEF WalkInv
<1> QED BY <1>1, InsertKeeps, DeleteKeeps, ReadItemsKeeps, ReadCountKeeps, AnswerEnds
        DEF WalkStep

LEMMA WalkStarts ==
    ASSUME ToTotal!PagingAssumption, SideBySideInit
    PROVE  WalkInv
<1>1. ToTotal!Init
  BY DEF SideBySideInit
<1>2. /\ rows \subseteq Rows /\ page = 1 /\ totalCount = 0 /\ first = rows
      /\ queries = ToTotal!Both /\ inserted = FALSE /\ deleted = FALSE
  BY <1>1 DEF ToTotal!Init
<1>3. items = <<>> /\ seen = <<>>
  BY <1>1 DEF ToTotal!Init
<1>4. Len(<<>>) = 0 /\ <<>> \in Seq(Rows) /\ PageSize \in Nat
  BY DEF ToTotal!PagingAssumption
<1>5. ToTotal!TypeOK
  <2>1. 0 \in 0..ToTotal!Cardinality(Rows)
    <3>1. Cardinality(Rows) \in Nat /\ ToTotal!Cardinality(Rows) = Cardinality(Rows)
      BY SameSizes, SetsOfRows
    <3> QED BY <3>1
  <2>2. Len(items) <= PageSize /\ items \in Seq(Rows) /\ seen \in Seq(Rows)
    BY <1>4, <1>3
  <2>3. unused = Rows \ rows
    BY <1>1 DEF ToTotal!Init
  <2> QED BY <1>2, <2>1, <2>2, <2>3 DEF ToTotal!TypeOK, ToTotal!Both
<1>6. Got = <<>>
  BY <1>5, <1>3, GotIs
<1>7. Elements(Got) = {} /\ Distinct(Got)
  BY <1>4, <1>6 DEF Elements, Distinct
<1>8. Reach = 0
  <2>1. ToTotal!Offset(page) = 0
    BY <1>2, <1>4 DEF ToTotal!Offset
  <2> QED BY <1>2, <2>1 DEF Reach, ToTotal!Both
<1>9. \A r : Cardinality(Before(r)) >= 0
  BY <1>2, RanksAre
<1>10. InPlace(Got, 0) /\ Len(Got) = 0 /\ Cardinality(rows) \in Nat
  BY <1>2, <1>4, <1>6, SetsOfRows DEF InPlace
<1>11. PlaceInv
  BY <1>2, <1>8, <1>10 DEF PlaceInv, ToTotal!Both
<1> QED BY <1>2, <1>5, <1>7, <1>8, <1>9, <1>11, <1>3
        DEF WalkInv, AheadInv, BehindInv, NothingReadYet, CountIsRight, EndInv, ToTotal!Both

LEMMA WalkHolds == ASSUME ToTotal!PagingAssumption PROVE SideBySide => []WalkInv
<1>1. SideBySideInit => WalkInv
  BY WalkStarts
<1>2. WalkInv /\ [SideBySideNext]_<<part, vars, sessionVars, registryVars, pagingVars>> => WalkInv'
  BY WalkStays, StepsOfAWalk
<1> QED BY <1>1, <1>2, PTL DEF SideBySide

-----------------------------------------------------------------------------
(* The theorems.                                                             *)

LEMMA WalkInvIsSound == ASSUME ToTotal!PagingAssumption, WalkInv PROVE WalkIsSound
<1>1. /\ ToTotal!TypeOK /\ seen \in Seq(Rows)
      /\ DOMAIN seen = 1..Len(seen) /\ Len(seen) \in Nat
  BY DEF WalkInv, ToTotal!TypeOK
<1>2. Elements(seen) = ToTotal!Range(seen) /\ Elements(seen) = ToShort!Range(seen)
  BY <1>1 DEF Elements, ToTotal!Range, ToShort!Range
<1>3. page = 0 => Elements(Got) = Elements(seen)
  <2>1. page = 0 => items = <<>>
    BY DEF WalkInv, NothingReadYet, ToTotal!Both
  <2> QED BY <1>1, <2>1, GotIs
<1>4. ~inserted => Distinct(seen) /\ Elements(seen) \subseteq first
  BY <1>1, GotIs DEF WalkInv, BehindInv
<1>5. part = "to short" => ToShort!InsertsHideNothing
  <2>1. ToShort!Alone = Alone
    BY DEF Alone, ToTotal!Alone, ToShort!Alone
  <2> QED BY <1>2, <1>3, <2>1 DEF WalkInv, EndInv, ToShort!InsertsHideNothing, ToShort!Over
<1>6. ToTotal!DeletesRepeatNothing
  BY <1>1, <1>4 DEF Distinct, ToTotal!DeletesRepeatNothing, Alone
<1>7. part \in {"to short", "to total"} => ToTotal!UndisturbedWalkIsComplete
  <2>1. SUFFICES ASSUME part \in {"to short", "to total"}, page = 0, ~inserted, ~deleted
                 PROVE  /\ Len(seen) = Cardinality(first)
                        /\ \A k \in 1..Len(seen) : ToTotal!MayStandAt(seen[k], k)
                        /\ first \cap Alone \subseteq Elements(seen)
    BY <1>1, <1>2, SameSizes DEF ToTotal!UndisturbedWalkIsComplete, ToTotal!Over, Alone
  <2>2. rows = first /\ Got = seen
    <3>1. items = <<>>
      BY <2>1 DEF WalkInv, NothingReadYet, ToTotal!Both
    <3> QED BY <1>1, <2>1, <3>1, GotIs DEF WalkInv, AheadInv, BehindInv
  <2>3. Len(seen) = Cardinality(first) /\ first \cap Alone \subseteq Elements(seen)
    BY <2>1, <2>2 DEF WalkInv, EndInv
  <2>4. ASSUME NEW k \in 1..Len(seen) PROVE ToTotal!MayStandAt(seen[k], k)
    <3>1. Cardinality(Before(seen[k])) < 0 + k /\ 0 + k <= Cardinality(NotAfter(seen[k]))
      BY <2>1, <2>2 DEF WalkInv, PlaceInv, InPlace
    <3>2. 0 + k = k
      BY <1>1
    <3> QED BY <2>2, <3>1, <3>2, SameSizes DEF ToTotal!MayStandAt, Before, NotAfter
  <2> QED BY <2>3, <2>4
<1> QED BY <1>5, <1>6, <1>7 DEF WalkIsSound

\* Whatever comes and goes during a walk: of the rows that share their createdAt with no
\* other, deletes repeat none and inserts hide none from a client that reads to a short page.
\* A walk that nothing disturbs returns as many items as there are rows, each at a place for
\* its createdAt (entity-base-readonly-repository.ts 47-57, paginated-response.ts 11).
THEOREM WalksAreSound ==
    ASSUME ToTotal!PagingAssumption
    PROVE  SideBySide => []WalkIsSound
BY WalkHolds, WalkInvIsSound, PTL

\* Accounts, sessions, the registry and the lists keep their types, over any number of
\* requests (auth.service.ts, topic.service.ts, entity-base-readonly-repository.ts).
THEOREM TypesHold ==
    ASSUME AccountsAssumption, Auth!SessionAssumption, Kept!RegistryAssumption,
           ToTotal!PagingAssumption
    PROVE  SideBySide => []TypesOK
<1> DEFINE Parts ==
      part \in {"accounts", "session", "topics", "children", "to short", "to total"}
<1>1. SideBySide => []Parts
  <2>1. SideBySideInit => Parts
    BY DEF SideBySideInit
  <2>2. Parts /\ [SideBySideNext]_<<part, vars, sessionVars, registryVars, pagingVars>> => Parts'
    BY DEF SideBySideNext, RegistryNext
  <2> QED BY <2>1, <2>2, PTL DEF SideBySide
<1>2. WalkInv => ToTotal!TypeOK
  BY DEF WalkInv
<1>3. Parts /\ TypeOK /\ Auth!TypeOK /\ Kept!TypeOK /\ ToTotal!TypeOK => TypesOK
  BY DEF TypesOK
<1> QED BY <1>1, <1>2, <1>3, AccountTypes, SessionTypes, RegistryTypes, PartsStandAlone,
           WalkHolds, PTL
=============================================================================
