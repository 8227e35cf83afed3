------------------------------- MODULE MCRecords -------------------------------
(***************************************************************************)
(* What the API keeps about tenants, checked side by side: their accounts  *)
(* (Accounts), the sessions of a user (Session), what they register        *)
(* (Registry) and the lists of it (Paging).  The four share no variable.   *)
(* "part" says which one a behaviour is about; the others rest in an       *)
(* initial state of theirs, so a behaviour of this module is one of the    *)
(* part that moves, and every property is asked of each part as if the     *)
(* part were alone.                                                        *)
(***************************************************************************)
EXTENDS Accounts, TLC

CONSTANTS
    Clients,                    \* requests of Session and Registry
    r4, alice, bob, t2, n2,
    Passwords, RefreshTTL, AccessTTL, GracePeriod, MaxLatency, MaxTime,     \* of Session
    Topics, Children, ApiKeys, Pull, Names, Fields, Values, Default,        \* of Registry
    NoName, NoTopic, Unset,
    Rows, CreatedAt, MaxFirst, PageSize                                     \* of Paging

\* Two registrations and a new user compete for one e-mail.
MCEmailOf == [r \in Requests |-> IF r = r4 THEN bob ELSE alice]

\* Two of four rows were made in one millisecond, and two pages may part them.
MCCreatedAt == <<1, 2, 2, 3>>

VARIABLES
    part,
    now, user, deletedAt, issued, sessionReq, loggedOut,
    state, name, config, topicOf, url, paused, registryReq, asked, torn,
    rows, unused, page, queries, items, totalCount, seen, first, inserted, deleted

sessionVars  == <<now, user, deletedAt, issued, sessionReq, loggedOut>>
registryVars == <<state, name, config, topicOf, url, paused, registryReq, asked, torn>>
pagingVars   ==
    <<rows, unused, page, queries, items, totalCount, seen, first, inserted, deleted>>

Auth    == INSTANCE Session WITH Requests <- Clients, req <- sessionReq
Kept    == INSTANCE Registry WITH Requests <- Clients, req <- registryReq
\* One client reads to a page that is not full, another to totalPages.
ToShort == INSTANCE Paging WITH Ordered <- TRUE, StopsShort <- TRUE
ToTotal == INSTANCE Paging WITH Ordered <- TRUE, StopsShort <- FALSE

ASSUME Auth!SessionAssumption /\ Kept!RegistryAssumption /\ ToTotal!PagingAssumption

SideBySideInit ==
    /\ part \in {"accounts", "session", "topics", "children", "to short", "to total"}
    /\ Init
    /\ Auth!Init
    /\ Kept!Init
    /\ ToTotal!Init
    /\ part \notin {"to short", "to total"} => rows = {}

\* Two topics and two names, or one topic with its children and API keys.
RegistryNext ==
    /\ part \in {"topics", "children"}
    /\ Kept!Next
    /\ \A r \in Clients :
        \/ part = "topics" /\ registryReq'[r].row \in Topics \cup {NoTopic}
        \/ part = "children" /\ registryReq'[r].row # t2 /\ registryReq'[r].newName # n2

SideBySideNext ==
    \/ part = "accounts" /\ Next /\ UNCHANGED <<part, sessionVars, registryVars, pagingVars>>
    \/ part = "session" /\ Auth!Next /\ UNCHANGED <<part, vars, registryVars, pagingVars>>
    \/ RegistryNext /\ UNCHANGED <<part, vars, sessionVars, pagingVars>>
    \/ part = "to short" /\ ToShort!Next /\ UNCHANGED <<part, vars, sessionVars, registryVars>>
    \/ part = "to total" /\ ToTotal!Next /\ UNCHANGED <<part, vars, sessionVars, registryVars>>

SideBySide ==
    SideBySideInit /\ [][SideBySideNext]_<<part, vars, sessionVars, registryVars, pagingVars>>

\* The two first requests of each part differ in nothing.
Interchangeable == Permutations(Clients)

-----------------------------------------------------------------------------
(* The properties of the parts.                                              *)

\* Types of all four.
TypesOK ==
    CASE part = "accounts"                -> TypeOK
      [] part = "session"                 -> Auth!TypeOK
      [] part \in {"topics", "children"}  -> Kept!TypeOK
      [] part \in {"to short", "to total"} -> ToTotal!TypeOK

\* Sessions end: a replaced refresh token is worth nothing any more, and a log-out that
\* nothing raced leaves no session (auth.service.ts 77-85, 118-130).
SessionsEnd == Auth!SessionsEnd

\* A deleted tenant comes back no later than the grace period allows (auth.service.ts
\* 100-107).
WindowCloses == Auth!WindowCloses

\* Users, topics, consumers, schedules and keys that were deleted before a request starts
\* are out of its reach (user-root-repository.ts 12-20, entity-base-repository.ts 12-17).
GoneIsRefused == Auth!GoneIsRefused /\ Kept!GoneIsRefused

\* A topic's config is the sum of its updates, but for those in flight together
\* (topic.service.ts 48-55).
UpdatesAddUp == Kept!UpdatesAddUp

\* Pages fit together, but for rows with one createdAt: deletes repeat no row, inserts hide
\* none from a client that does not rely on totalPages, and a walk that nothing disturbs is
\* complete (entity-base-readonly-repository.ts 47-57, pagination.helper.ts 4).
WalkIsSound ==
    /\ part = "to short" => ToShort!InsertsHideNothing
    /\ part \in {"to short", "to total"} =>
            ToTotal!DeletesRepeatNothing /\ ToTotal!UndisturbedWalkIsComplete
=============================================================================
