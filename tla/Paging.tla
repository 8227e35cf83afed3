------------------------------- MODULE Paging -------------------------------
(***************************************************************************)
(* A client that walks through a list page by page, while rows come and    *)
(* go.  Every list of the API is this one: topics, consumers, schedules,   *)
(* API keys, events and dead letters.  A page is a LIMIT and an OFFSET,    *)
(* read at the same time as a count, in two statements.                    *)
(*                                                                         *)
(* Rows are sorted by createdAt, the newest first, and by nothing else: of *)
(* rows with one createdAt any may come first, and another in the next     *)
(* query.  A row may be inserted after one that is newer than it.          *)
(***************************************************************************)
EXTENDS Naturals, Sequences, FiniteSets, SequencesExt

CONSTANTS
    Rows,           \* all the rows there can be
    CreatedAt,      \* for each
    MaxFirst,       \* bound on the rows there are when the client begins
    PageSize,
    Ordered,        \* FALSE: consumers by topic, which come in any order
    StopsShort      \* the client reads to a page that is not full, or to totalPages

PagingAssumption ==
    /\ IsFiniteSet(Rows) /\ CreatedAt \in [Rows -> Nat]
    /\ PageSize \in Nat \ {0}
    /\ Ordered \in BOOLEAN /\ StopsShort \in BOOLEAN

VARIABLES
    rows,           \* those not deleted
    unused,         \* those that have not been there yet
    page,           \* the page requested, 0 when the walk is over
    queries,        \* of the request in progress, those not answered yet
    items,          \* of the request in progress
    totalCount,     \* of the request in progress
    seen,           \* all the items the client got
    first,          \* ghost: the rows when the walk began
    inserted,       \* ghost: whether a row has come since
    deleted         \* ghost: whether a row has gone since

vars == <<rows, unused, page, queries, items, totalCount, seen, first, inserted, deleted>>

Both == {"items", "count"}

TypeOK ==
    /\ rows \subseteq Rows /\ unused \subseteq Rows /\ rows \cap unused = {}
    /\ page \in Nat
    /\ queries \subseteq Both
    /\ items \in Seq(Rows) /\ Len(items) <= PageSize
    /\ totalCount \in 0..Cardinality(Rows)
    /\ seen \in Seq(Rows)
    /\ first \subseteq Rows
    /\ inserted \in BOOLEAN /\ deleted \in BOOLEAN

Init ==
    /\ rows \in {R \in SUBSET Rows : Cardinality(R) <= MaxFirst}
    /\ unused = Rows \ rows
    /\ page = 1
    /\ queries = Both /\ items = <<>> /\ totalCount = 0
    /\ seen = <<>>
    /\ first = rows
    /\ inserted = FALSE /\ deleted = FALSE

-----------------------------------------------------------------------------
(* Other clients.                                                            *)

Insert ==
    /\ \E r \in unused : rows' = rows \cup {r} /\ unused' = unused \ {r}
    /\ inserted' = TRUE
    /\ UNCHANGED <<page, queries, items, totalCount, seen, first, deleted>>

Delete ==
    /\ \E r \in rows : rows' = rows \ {r}
    /\ deleted' = TRUE
    /\ UNCHANGED <<unused, page, queries, items, totalCount, seen, first, inserted>>

-----------------------------------------------------------------------------
(* A request.                                                                *)

\* ORDER BY created_at DESC: not newer than the one before it.
Descending(r, s) == CreatedAt[r] >= CreatedAt[s]

\* The orders in which the database may return the rows.
Listings ==
    {s \in [1..Cardinality(rows) -> rows] :
        /\ \A i, j \in DOMAIN s : s[i] = s[j] => i = j
        /\ Ordered => \A i, j \in DOMAIN s : i < j => Descending(s[i], s[j])}

\* Mutant: pages counted from zero.
OffsetFromZero(p) == p * PageSize

Offset(p) == (p - 1) * PageSize

\* LIMIT and OFFSET.
Slice(s, p) == SubSeq(s, Offset(p) + 1, Min({Offset(p) + PageSize, Len(s)}))

ReadItems ==
    /\ page # 0 /\ "items" \in queries
    /\ queries' = queries \ {"items"}
    /\ \E s \in Listings : items' = Slice(s, page)
    /\ UNCHANGED <<rows, unused, page, totalCount, seen, first, inserted, deleted>>

ReadCount ==
    /\ page # 0 /\ "count" \in queries
    /\ queries' = queries \ {"count"}
    /\ totalCount' = Cardinality(rows)
    /\ UNCHANGED <<rows, unused, page, items, seen, first, inserted, deleted>>

TotalPages(total) == (total + PageSize - 1) \div PageSize

IsLast == IF StopsShort THEN Len(items) < PageSize ELSE page >= TotalPages(totalCount)

\* The client gets a PaginatedResponse, and asks for the next page or stops.
Respond ==
    /\ page # 0 /\ queries = {}
    /\ seen' = seen \o items
    /\ page' = IF IsLast THEN 0 ELSE page + 1
    /\ queries' = Both /\ items' = <<>> /\ totalCount' = 0
    /\ UNCHANGED <<rows, unused, first, inserted, deleted>>

Next == Insert \/ Delete \/ ReadItems \/ ReadCount \/ Respond

Spec == Init /\ [][Next]_vars

-----------------------------------------------------------------------------
(* Properties.                                                               *)

Over == page = 0

\* The rows that share their createdAt with no other.
Alone == {r \in Rows : \A q \in Rows \ {r} : CreatedAt[q] # CreatedAt[r]}

\* Rows that come during a walk shift the others to later pages: the client may get one
\* twice, and misses none that was there, but for those with one createdAt, which may
\* change places between two pages (entity-base-readonly-repository.ts 47-57).
InsertsHideNothing == Over /\ ~deleted => first \cap Alone \subseteq Range(seen)

\* Rows that go shift the others to earlier pages: the client may miss some, and gets none
\* twice, but for those with one createdAt.
DeletesRepeatNothing ==
    ~inserted => \A i, j \in DOMAIN seen : seen[i] = seen[j] /\ seen[i] \in Alone => i = j

\* A row with the createdAt of r may stand at place k.
MayStandAt(r, k) ==
    /\ Cardinality({q \in first : CreatedAt[q] > CreatedAt[r]}) < k
    /\ k <= Cardinality({q \in first : CreatedAt[q] >= CreatedAt[r]})

\* totalPages is how far one has to read: a walk that nothing disturbs returns as many items
\* as there are rows, at each place one with the createdAt that belongs there, and so every
\* row that is alone with its createdAt.  Of rows with the same one it may return one twice
\* in place of another (paginated-response.ts 11, pagination.helper.ts 4).
UndisturbedWalkIsComplete ==
    Over /\ ~inserted /\ ~deleted =>
        /\ Len(seen) = Cardinality(first)
        /\ \A k \in DOMAIN seen : MayStandAt(seen[k], k)
        /\ first \cap Alone \subseteq Range(seen)
=============================================================================
