------------------------------- MODULE Session -------------------------------
(***************************************************************************)
(* One user of one tenant: log-in, refresh and log-out, profile, password  *)
(* and deletion of the user, deletion and reactivation of the tenant.      *)
(* Each request is a sequence of statements on the shared database; what   *)
(* it read may have changed when it writes, and none of its UPDATEs says   *)
(* what it expects to find.                                                *)
(*                                                                         *)
(* A refresh token is named after the second it was signed in: a signature *)
(* covers the user, its tenant and role, and that second, so two tokens of *)
(* one second are the same string.  Abstracted: the access token, issued   *)
(* with each refresh token, which only lets requests start;                *)
(* refresh_token_expiry, written and never read; hashing.                  *)
(***************************************************************************)
EXTENDS Naturals, FiniteSets

CONSTANTS
    Requests,       \* requests the API serves at once
    Passwords,      \* an initial segment of the numbers from 1
    RefreshTTL,     \* REFRESH_TOKEN_EXPIRY_DAYS
    AccessTTL,      \* JWT_ACCESS_TOKEN_EXPIRY
    GracePeriod,    \* TENANT_DELETION_GRACE_PERIOD_DAYS
    MaxLatency,     \* how long a request may last
    MaxTime         \* bound on the clock

Null == 0
Redacted == 0

SessionAssumption ==
    /\ IsFiniteSet(Requests)
    /\ Passwords \subseteq Nat \ {Redacted} /\ 1 \in Passwords
    /\ RefreshTTL \in Nat \ {0}
    /\ AccessTTL \in Nat \ {0}
    /\ GracePeriod \in Nat
    /\ MaxLatency \in Nat
    /\ MaxTime \in Nat \ {0}

VARIABLES
    now,        \* seconds
    user,       \* the row of users
    deletedAt,  \* tenants.deleted_at, 0 for null
    issued,     \* refresh tokens that clients were given
    req,        \* the requests in flight
    loggedOut   \* history: nobody signs in since a log-out

vars == <<now, user, deletedAt, issued, req, loggedOut>>

Ops == {"login", "reactivate", "refresh", "logout", "deleteTenant", "deleteUser",
        "changePassword", "updateUser"}
SignIns == {"login", "reactivate"}
PCs == {"none", "auth", "user", "tenant", "session", "reactivating", "signing",
        "writing", "revoking", "clearing", "deleting", "anonymizing", "updating"}

\* presented: the refresh token or the password of the request.  stale, gone:
\* history, what was already so when it started.
NoRequest == [op |-> "login", pc |-> "none", presented |-> Null, signed |-> Null,
              since |-> Null, stale |-> FALSE, gone |-> FALSE]

At(r, pc) == req[r].pc = pc
Is(r, op, pc) == req[r].op = op /\ req[r].pc = pc
InFlight == {r \in Requests : ~At(r, "none")}
Goto(r, pc) == req' = [req EXCEPT ![r].pc = pc]
Finish(r) == req' = [req EXCEPT ![r] = NoRequest]

Init ==
    /\ now = 1
    /\ user = [live |-> TRUE, token |-> Null, name |-> "own", password |-> 1]
    /\ deletedAt = Null
    /\ issued = {}
    /\ req = [r \in Requests |-> NoRequest]
    /\ loggedOut = "no"

-----------------------------------------------------------------------------
(* Where requests start.                                                     *)

\* No signer of token t is left, and none can come: t is not the stored token for
\* good.
Spent(t) ==
    /\ t # user.token
    /\ t < now
    /\ \A q \in Requests : req[q].signed # t

FirstStep(op) ==
    CASE op \in SignIns   -> "user"
      [] op = "refresh"   -> "session"
      [] OTHER            -> "auth"

\* jwtVerify accepts a token until it expires.
Receive(r, op, presented) ==
    /\ At(r, "none")
    /\ \/ op \in SignIns \cup {"changePassword"} /\ presented \in Passwords
       \/ op = "refresh" /\ presented \in issued /\ now < presented + RefreshTTL
       \/ op \notin SignIns \cup {"changePassword", "refresh"} /\ presented = Null
    /\ op \notin SignIns \cup {"refresh"} => \E t \in issued : now < t + AccessTTL
    /\ req' = [req EXCEPT ![r] = [
            op |-> op, pc |-> FirstStep(op), presented |-> presented,
            signed |-> Null, since |-> now,
            stale |-> op = "refresh" /\ Spent(presented),
            gone |-> ~user.live]]
    /\ loggedOut' = IF op \in SignIns THEN "no" ELSE loggedOut
    /\ UNCHANGED <<now, user, deletedAt, issued>>

\* jwtMiddleware: the tenant is looked up, the user is not.
Authenticate(r) ==
    /\ At(r, "auth")
    /\ \/ deletedAt # Null /\ Finish(r)
       \/ deletedAt = Null /\ req[r].op = "deleteTenant" /\ Goto(r, "tenant")
       \/ deletedAt = Null /\ req[r].op # "deleteTenant" /\ Goto(r, "user")
    /\ UNCHANGED <<now, user, deletedAt, issued, loggedOut>>

-----------------------------------------------------------------------------
(* Tokens.                                                                   *)

FindByEmail(r) ==
    /\ At(r, "user") /\ req[r].op \in SignIns
    /\ LET valid == user.live /\ user.password = req[r].presented
       IN  \/ ~valid /\ Finish(r)
           \/ valid /\ req[r].op = "login" /\ Goto(r, "signing")
           \/ valid /\ req[r].op = "reactivate" /\ Goto(r, "tenant")
    /\ UNCHANGED <<now, user, deletedAt, issued, loggedOut>>

\* Mutant: the signature is all that is looked at.
FindSessionSigned(r) ==
    /\ At(r, "session")
    /\ \/ ~user.live /\ Finish(r)
       \/ user.live /\ Goto(r, "signing")
    /\ UNCHANGED <<now, user, deletedAt, issued, loggedOut>>

FindSession(r) ==
    /\ At(r, "session")
    /\ \/ ~user.live /\ Finish(r)
       \/ user.live /\ user.token # req[r].presented /\ Goto(r, "revoking")
       \/ user.live /\ user.token = req[r].presented /\ Goto(r, "signing")
    /\ UNCHANGED <<now, user, deletedAt, issued, loggedOut>>

\* A token that is not the stored one was used before: whoever holds the stored one
\* is signed out too.
Revoke(r) ==
    /\ At(r, "revoking")
    /\ user' = [user EXCEPT !.token = Null]
    /\ Finish(r)
    /\ UNCHANGED <<now, deletedAt, issued, loggedOut>>

Sign(r) ==
    /\ At(r, "signing")
    /\ req' = [req EXCEPT ![r].pc = "writing", ![r].signed = now]
    /\ UNCHANGED <<now, user, deletedAt, issued, loggedOut>>

\* Found by id alone, so a user deleted since then gets a token too.
WriteToken(r) ==
    /\ At(r, "writing")
    /\ user' = [user EXCEPT !.token = req[r].signed]
    /\ issued' = issued \cup {req[r].signed}
    /\ Finish(r)
    /\ UNCHANGED <<now, deletedAt, loggedOut>>

FindUser(r) ==
    /\ At(r, "user") /\ req[r].op \notin SignIns
    /\ \/ /\ ~user.live
          /\ Finish(r)
       \/ /\ user.live
          /\ req[r].op = "changePassword" /\ user.password # req[r].presented
          /\ Finish(r)
       \/ /\ user.live
          /\ req[r].op = "changePassword" => user.password = req[r].presented
          /\ Goto(r, CASE req[r].op = "logout"     -> "clearing"
                       [] req[r].op = "deleteUser" -> "anonymizing"
                       [] OTHER                    -> "updating")
    /\ UNCHANGED <<now, user, deletedAt, issued, loggedOut>>

\* History: whether tokens are on their way when the log-out takes effect.
Clear(r) ==
    /\ At(r, "clearing")
    /\ user' = [user EXCEPT !.token = Null]
    /\ loggedOut' = IF \E q \in InFlight : req[q].op \in SignIns THEN "no"
                    ELSE IF \E q \in InFlight : req[q].op = "refresh" THEN "raced"
                    ELSE "clean"
    /\ Finish(r)
    /\ UNCHANGED <<now, deletedAt, issued>>

-----------------------------------------------------------------------------
(* The user and the tenant.                                                  *)

\* Found by id and tenant, deleted or not.
UpdateUser(r) ==
    /\ At(r, "updating")
    /\ \/ /\ req[r].op = "updateUser"
          /\ user' = [user EXCEPT !.name = "own"]
       \/ /\ req[r].op = "changePassword"
          /\ \E p \in Passwords : user' = [user EXCEPT !.password = p]
    /\ Finish(r)
    /\ UNCHANGED <<now, deletedAt, issued, loggedOut>>

Anonymize(r) ==
    /\ At(r, "anonymizing")
    /\ user' = [live |-> FALSE, token |-> Null, name |-> "redacted", password |-> Redacted]
    /\ Finish(r)
    /\ UNCHANGED <<now, deletedAt, issued, loggedOut>>

\* Mutant: no look at the date.
FindTenantOfAnyAge(r) ==
    /\ At(r, "tenant")
    /\ Goto(r, IF req[r].op = "deleteTenant" THEN "deleting"
               ELSE IF deletedAt = Null THEN "signing" ELSE "reactivating")
    /\ UNCHANGED <<now, user, deletedAt, issued, loggedOut>>

FindTenant(r) ==
    /\ At(r, "tenant")
    /\ \/ /\ req[r].op = "deleteTenant"
          /\ IF deletedAt = Null THEN Goto(r, "deleting") ELSE Finish(r)
       \/ /\ req[r].op = "reactivate"
          /\ deletedAt = Null
          /\ Goto(r, "signing")
       \/ /\ req[r].op = "reactivate"
          /\ deletedAt # Null
          /\ IF now <= deletedAt + GracePeriod THEN Goto(r, "reactivating") ELSE Finish(r)
    /\ UNCHANGED <<now, user, deletedAt, issued, loggedOut>>

SoftDelete(r) ==
    /\ At(r, "deleting")
    /\ deletedAt' = now
    /\ Finish(r)
    /\ UNCHANGED <<now, user, issued, loggedOut>>

\* Whatever deletion it finds, also one later than the one it looked at.
Reactivate(r) ==
    /\ At(r, "reactivating")
    /\ deletedAt' = Null
    /\ Goto(r, "signing")
    /\ UNCHANGED <<now, user, issued, loggedOut>>

\* A call throws, or the API process dies.
LoseRequest(r) ==
    /\ ~At(r, "none")
    /\ Finish(r)
    /\ UNCHANGED <<now, user, deletedAt, issued, loggedOut>>

Tick ==
    /\ now < MaxTime
    /\ \A r \in InFlight : now < req[r].since + MaxLatency
    /\ now' = now + 1
    /\ UNCHANGED <<user, deletedAt, issued, req, loggedOut>>

Step(r) ==
    \/ Authenticate(r)
    \/ FindByEmail(r) \/ FindSession(r) \/ FindUser(r) \/ FindTenant(r)
    \/ Sign(r) \/ WriteToken(r) \/ Revoke(r) \/ Clear(r)
    \/ UpdateUser(r) \/ Anonymize(r)
    \/ SoftDelete(r) \/ Reactivate(r)
    \/ LoseRequest(r)

Next ==
    \/ \E r \in Requests, op \in Ops, p \in issued \cup Passwords \cup {Null} : Receive(r, op, p)
    \/ \E r \in Requests : Step(r)
    \/ Tick

Spec == Init /\ [][Next]_vars

-----------------------------------------------------------------------------
(* Properties.                                                               *)

RequestRecords ==
    [op : Ops, pc : PCs, presented : Nat, signed : Nat, since : Nat,
     stale : BOOLEAN, gone : BOOLEAN]

\* Types; tokens are of the past, and the stored one is one that a client has.
TypeOK ==
    /\ now \in Nat \ {0}
    /\ user \in [live : BOOLEAN, token : Nat, name : {"own", "redacted"},
                 password : Passwords \cup {Redacted}]
    /\ deletedAt \in 0..now
    /\ issued \subseteq 1..now
    /\ user.token \in issued \cup {Null}
    /\ req \in [Requests -> RequestRecords]
    /\ \A r \in Requests : At(r, "writing") <=> req[r].signed # Null
    /\ loggedOut \in {"no", "raced", "clean"}

\* The request is about to change the user's row.
Accepted(r) == req[r].pc \in {"signing", "writing", "updating", "clearing", "anonymizing"}

\* A refresh token that another one has replaced is worth nothing from the next
\* second on, once the requests that might write it again are over
\* (auth.service.ts 118-130).
StaleIsRefused == \A r \in Requests : req[r].stale => ~Accepted(r)

\* A request that starts after its user was deleted neither changes the user nor gets
\* a token, though requests that started before may write a token to the deleted row
\* (user-root-repository.ts 12-20 and 58-77).
GoneIsRefused == \A r \in Requests : req[r].gone => ~Accepted(r)

\* After a log-out that no sign-in or refresh raced, no session is left until somebody
\* signs in (auth.service.ts 77-85).
LogoutHolds == loggedOut = "clean" => user.token = Null

SessionsEnd == StaleIsRefused /\ LogoutHolds

\* The window of a deletion closes: later than a request takes after the grace period,
\* nothing brings the tenant back (auth.service.ts 100-107).
WindowCloses ==
    [][deletedAt # Null /\ now > deletedAt + GracePeriod + MaxLatency => deletedAt' # Null]_vars
=============================================================================
