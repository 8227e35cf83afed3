------------------------------- MODULE Accounts -------------------------------
(***************************************************************************)
(* How tenants and users come into being: AuthService.register, which      *)
(* creates a tenant, its owner and a session, and UserService.create,      *)
(* which adds a user to a tenant.  Statement by statement, with no         *)
(* transaction:                                                            *)
(*                                                                         *)
(*   look for the e-mail - INSERT the tenant - INSERT the user - UPDATE    *)
(*   the user with its refresh token                                       *)
(*                                                                         *)
(* A tenant and a user are named after the request that inserted them.     *)
(* Abstracted: names, passwords and tokens (Session has those).            *)
(***************************************************************************)
EXTENDS Naturals, FiniteSets

CONSTANTS
    Requests,
    Emails,
    EmailOf,        \* the e-mail a request asks for
    Registrations,  \* POST /v1/auth/register; the others are POST /v1/users
    MaxFaults       \* bound on crashes and failing calls

AccountsAssumption ==
    /\ EmailOf \in [Requests -> Emails]
    /\ Registrations \subseteq Requests
    /\ MaxFaults \in Nat

ASSUME AccountsAssumption

VARIABLES
    pc,         \* the call a request makes next
    answer,     \* what the client was told
    tenants,    \* the tenants inserted
    users,      \* the users inserted: live, or deleted and anonymized
    raced,      \* history: requests that were in flight with another one
    faults

vars == <<pc, answer, tenants, users, raced, faults>>

PCs == {"idle", "email", "tenant", "user", "token", "done"}
\* 201; 409; 500; the connection broke.
Codes == {"none", "created", "conflict", "error", "lost"}
UserStates == {"none", "live", "deleted"}

InFlight == {r \in Requests : pc[r] \notin {"idle", "done"}}

Init ==
    /\ pc = [r \in Requests |-> "idle"]
    /\ answer = [r \in Requests |-> "none"]
    /\ tenants = {}
    /\ users = [r \in Requests |-> "none"]
    /\ raced = {}
    /\ faults = 0

Goto(r, next) ==
    /\ pc' = [pc EXCEPT ![r] = next]
    /\ UNCHANGED answer

Answer(r, code) ==
    /\ pc' = [pc EXCEPT ![r] = "done"]
    /\ answer' = [answer EXCEPT ![r] = code]

Receive(r) ==
    /\ pc[r] = "idle"
    /\ Goto(r, "email")
    /\ raced' = IF InFlight = {} THEN raced ELSE raced \cup InFlight \cup {r}
    /\ UNCHANGED <<tenants, users, faults>>

LiveUsersOf(email) == {u \in Requests : users[u] = "live" /\ EmailOf[u] = email}

FindByEmail(r) ==
    /\ pc[r] = "email"
    /\ \/ LiveUsersOf(EmailOf[r]) # {} /\ Answer(r, "conflict")
       \/ LiveUsersOf(EmailOf[r]) = {} /\ r \in Registrations /\ Goto(r, "tenant")
       \/ LiveUsersOf(EmailOf[r]) = {} /\ r \notin Registrations /\ Goto(r, "user")
    /\ UNCHANGED <<tenants, users, raced, faults>>

\* Mutant: the user is inserted first.
CreateTenantLater(r) ==
    /\ pc[r] = "tenant"
    /\ Goto(r, "user")
    /\ UNCHANGED <<tenants, users, raced, faults>>

CreateTenant(r) ==
    /\ pc[r] = "tenant"
    /\ tenants' = tenants \cup {r}
    /\ Goto(r, "user")
    /\ UNCHANGED <<users, raced, faults>>

\* Mutant: deleted users keep their e-mail.
EmailTakenForGood(email) == \E u \in Requests : users[u] # "none" /\ EmailOf[u] = email

\* The unique constraint counts deleted rows, but those carry an e-mail made of
\* their id.
EmailTaken(email) == LiveUsersOf(email) # {}

\* A violated constraint is an error like any other.
CreateUser(r) ==
    /\ pc[r] = "user"
    /\ \/ /\ EmailTaken(EmailOf[r])
          /\ Answer(r, "error")
          /\ UNCHANGED users
       \/ /\ ~EmailTaken(EmailOf[r])
          /\ users' = [users EXCEPT ![r] = "live"]
          /\ IF r \in Registrations THEN Goto(r, "token") ELSE Answer(r, "created")
    /\ UNCHANGED <<tenants, raced, faults>>

WriteToken(r) ==
    /\ pc[r] = "token"
    /\ Answer(r, "created")
    /\ UNCHANGED <<tenants, users, raced, faults>>

\* UserService.delete of a user that exists.
Anonymize(u) ==
    /\ users[u] = "live"
    /\ users' = [users EXCEPT ![u] = "deleted"]
    /\ UNCHANGED <<pc, answer, tenants, raced, faults>>

DbError ==
    /\ faults < MaxFaults
    /\ faults' = faults + 1
    /\ \E r \in InFlight : Answer(r, "error")
    /\ UNCHANGED <<tenants, users, raced>>

ApiCrash ==
    /\ faults < MaxFaults
    /\ faults' = faults + 1
    /\ pc' = [r \in Requests |-> IF r \in InFlight THEN "done" ELSE pc[r]]
    /\ answer' = [r \in Requests |-> IF r \in InFlight THEN "lost" ELSE answer[r]]
    /\ UNCHANGED <<tenants, users, raced>>

Step(r) ==
    \/ Receive(r)
    \/ FindByEmail(r)
    \/ CreateTenant(r)
    \/ CreateUser(r)
    \/ WriteToken(r)

Next ==
    \/ \E r \in Requests : Step(r) \/ Anonymize(r)
    \/ DbError
    \/ ApiCrash

Spec == Init /\ [][Next]_vars

-----------------------------------------------------------------------------
(* Properties.                                                               *)

\* Types; a user that registered has a tenant, and a client that was told 201 has a
\* user.
TypeOK ==
    /\ pc \in [Requests -> PCs]
    /\ answer \in [Requests -> Codes]
    /\ \A r \in Requests : answer[r] # "none" <=> pc[r] = "done"
    /\ tenants \subseteq Registrations
    /\ users \in [Requests -> UserStates]
    /\ \A r \in Registrations : users[r] # "none" => r \in tenants
    /\ \A r \in Requests : answer[r] = "created" => users[r] # "none"
    /\ raced \subseteq Requests
    /\ faults \in Nat

\* A request that met no other and no fault is never answered 500: what the look-up
\* finds free the INSERT finds free, also the e-mail of a deleted user
\* (user-repository.ts 80-94).
AloneNeverFails ==
    \A r \in Requests : answer[r] = "error" => r \in raced \/ faults > 0
=============================================================================
