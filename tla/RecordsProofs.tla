---------------------------- MODULE RecordsProofs ----------------------------
(***************************************************************************)
(* What the API promises of its records, for any number of requests, in    *)
(* three parts that share nothing but the requests.                        *)
(*                                                                         *)
(* Sessions (Session), for any lengths of time: a refresh token that was   *)
(* replaced, a deleted user and a log-out stay what they are, and the      *)
(* window of a deletion closes.  No statement repeats the check that the   *)
(* statement before it made.  What makes up for it is that the things      *)
(* checked do not come back: a spent token is in nobody's hand, a deleted  *)
(* user is deleted for good, and a request that is about to reactivate a   *)
(* tenant is young.                                                        *)
(*                                                                         *)
(* Accounts (Accounts), for any e-mails: registration and the creation of  *)
(* users fail only in a race or a fault.  A request that met no other one  *)
(* is alone in flight, so nobody can take the e-mail that it has looked up *)
(* and found free.                                                         *)
(*                                                                         *)
(* The registry (Registry), for any topics, children and keys: a config is *)
(* what its updates add up to, and a deleted row is out of reach.  An      *)
(* update that met no other one of its topic carries the stored config     *)
(* with its own fields in place until it writes.                           *)
(***************************************************************************)
EXTENDS MCRecords, FiniteSetTheorems, TLAPS

-----------------------------------------------------------------------------
(* Sessions: the inductive invariant.                                        *)

\* The steps that only one kind of request gets to.
Fits(r) ==
    /\ Auth!At(r, "auth") => sessionReq[r].op \notin Auth!SignIns \cup {"refresh"}
    /\ Auth!At(r, "user") => sessionReq[r].op \notin {"refresh", "deleteTenant"}
    /\ Auth!At(r, "session") \/ Auth!At(r, "revoking") => sessionReq[r].op = "refresh"
    /\ Auth!At(r, "signing") \/ Auth!At(r, "writing")
       => sessionReq[r].op \in Auth!SignIns \cup {"refresh"}
    /\ Auth!At(r, "reactivating") => sessionReq[r].op = "reactivate"
    /\ Auth!At(r, "tenant") => sessionReq[r].op \in {"reactivate", "deleteTenant"}
    /\ Auth!At(r, "updating") => sessionReq[r].op \in {"updateUser", "changePassword"}
    /\ Auth!At(r, "clearing") => sessionReq[r].op = "logout"

\* A token is signed with the time, and a request lasts no longer than MaxLatency.
Young(r) ==
    /\ sessionReq[r].signed <= now
    /\ ~Auth!At(r, "none") =>
          /\ sessionReq[r].since <= now
          /\ now <= sessionReq[r].since + MaxLatency

\* A spent token was issued, is not stored, and nobody is about to store it.
StaleIsSpent(r) ==
    sessionReq[r].stale =>
        /\ Auth!At(r, "session") \/ Auth!At(r, "revoking")
        /\ sessionReq[r].presented \in issued
        /\ Auth!Spent(sessionReq[r].presented)

\* A request of a deleted user gets as far as a look at the user.
GoneIsOver(r) ==
    sessionReq[r].gone =>
        /\ ~user.live
        /\ sessionReq[r].pc \in {"auth", "user", "session", "tenant", "deleting"}
        /\ Auth!At(r, "tenant") => sessionReq[r].op = "deleteTenant"

\* After a clean log-out there is nobody who could store a token.
NobodySigns ==
    loggedOut = "clean" =>
        /\ user.token = Auth!Null
        /\ \A r \in Auth!InFlight :
              /\ sessionReq[r].op \notin Auth!SignIns
              /\ sessionReq[r].op = "refresh" =>
                    /\ Auth!At(r, "session") \/ Auth!At(r, "revoking")
                    /\ sessionReq[r].presented # Auth!Null

\* Whoever reactivates a tenant started before the window closed: a later deletion only
\* moves the end of the window.
ReactivatesInTime(r) ==
    Auth!At(r, "reactivating") /\ deletedAt # Auth!Null
    => sessionReq[r].since <= deletedAt + GracePeriod

RequestOK(r) ==
    Fits(r) /\ Young(r) /\ StaleIsSpent(r) /\ GoneIsOver(r) /\ ReactivatesInTime(r)

IInv ==
    /\ Auth!TypeOK
    /\ \A r \in Clients : RequestOK(r)
    /\ NobodySigns

-----------------------------------------------------------------------------
(* Sessions: lemmas.                                                         *)

\* What TypeOK says of the requests, and of the rest.
RequestTypes ==
    /\ sessionReq \in [Clients -> Auth!RequestRecords]
    /\ \A r \in Clients : Auth!At(r, "writing") <=> sessionReq[r].signed # Auth!Null

SharedTypes ==
    /\ now \in Nat \ {0}
    /\ user \in [live : BOOLEAN, token : Nat, name : {"own", "redacted"},
                 password : Passwords \cup {Auth!Redacted}]
    /\ deletedAt \in 0..now
    /\ issued \subseteq 1..now
    /\ user.token \in issued \cup {Auth!Null}
    /\ loggedOut \in {"no", "raced", "clean"}

LEMMA TypesApart ==
    /\ Auth!TypeOK <=> RequestTypes /\ SharedTypes
    /\ Auth!TypeOK' <=> RequestTypes' /\ SharedTypes'
BY DEF Auth!TypeOK, RequestTypes, SharedTypes

LEMMA Starts == ASSUME Auth!SessionAssumption PROVE Auth!Init => IInv
<1>1. SUFFICES ASSUME Auth!Init PROVE IInv
    OBVIOUS
<1>2. Auth!NoRequest \in Auth!RequestRecords
    BY DEF Auth!NoRequest, Auth!RequestRecords, Auth!Ops, Auth!PCs, Auth!Null
<1>3. SharedTypes
    BY <1>1 DEF Auth!Init, SharedTypes, Auth!SessionAssumption, Auth!Null, Auth!Redacted
<1>4. RequestTypes
    BY <1>1, <1>2 DEF Auth!Init, RequestTypes, Auth!At, Auth!NoRequest, Auth!Null
<1>5. \A r \in Clients : RequestOK(r)
    BY <1>1 DEF Auth!Init, RequestOK, Fits, Young, StaleIsSpent, GoneIsOver, ReactivatesInTime,
       Auth!At,
            Auth!NoRequest, Auth!Null
<1>6. NobodySigns
    BY <1>1 DEF Auth!Init, NobodySigns
<1> QED
    BY <1>3, <1>4, <1>5, <1>6, TypesApart DEF IInv

\* The fields of a request.
LEMMA RequestParts ==
    ASSUME IInv, NEW r \in Clients
    PROVE  /\ sessionReq[r] \in Auth!RequestRecords
           /\ sessionReq[r].op \in Auth!Ops /\ sessionReq[r].pc \in Auth!PCs
           /\ sessionReq[r].presented \in Nat /\ sessionReq[r].signed \in Nat
              /\ sessionReq[r].since \in Nat
           /\ sessionReq[r].stale \in BOOLEAN /\ sessionReq[r].gone \in BOOLEAN
           /\ Auth!At(r, "writing") <=> sessionReq[r].signed # Auth!Null
<1>1. sessionReq[r] \in Auth!RequestRecords
      /\ (Auth!At(r, "writing") <=> sessionReq[r].signed # Auth!Null)
    BY DEF IInv, Auth!TypeOK
<1> QED
    BY <1>1 DEF Auth!RequestRecords

\* Tokens are of the past, and none of them is Null.
LEMMA Clock ==
    ASSUME IInv
    PROVE  /\ now \in Nat \ {0} /\ issued \subseteq 1..now /\ deletedAt \in 0..now
           /\ issued \subseteq Nat /\ Auth!Null \notin issued
<1>1. now \in Nat \ {0} /\ issued \subseteq 1..now /\ deletedAt \in 0..now
    BY DEF IInv, Auth!TypeOK
<1> QED
    BY <1>1 DEF Auth!Null

LEMMA FinishDoes ==
    ASSUME IInv, NEW r \in Clients, Auth!Finish(r)
    PROVE  /\ sessionReq'[r] = Auth!NoRequest
           /\ \A q \in Clients \ {r} : sessionReq'[q] = sessionReq[q]
           /\ RequestTypes'
<1>1. sessionReq \in [Clients -> Auth!RequestRecords]
    BY DEF IInv, Auth!TypeOK
<1>2. /\ sessionReq'[r] = Auth!NoRequest
      /\ \A q \in Clients \ {r} : sessionReq'[q] = sessionReq[q]
    BY <1>1 DEF Auth!Finish
<1>3. Auth!NoRequest \in Auth!RequestRecords
    BY DEF Auth!NoRequest, Auth!RequestRecords, Auth!Ops, Auth!PCs, Auth!Null
<1>4. sessionReq' \in [Clients -> Auth!RequestRecords]
    BY <1>1, <1>3 DEF Auth!Finish
<1>5. ASSUME NEW q \in Clients
      PROVE  Auth!At(q, "writing")' <=> (sessionReq[q].signed # Auth!Null)'
    <2>1. CASE q = r
        BY <1>2, <2>1 DEF Auth!At, Auth!NoRequest
    <2>2. CASE q # r
        BY <1>2, <2>2, RequestParts DEF Auth!At
    <2> QED
        BY <2>1, <2>2
<1> QED
    BY <1>2, <1>4, <1>5 DEF RequestTypes

LEMMA GotoDoes ==
    ASSUME IInv, NEW r \in Clients, NEW to \in Auth!PCs \ {"writing"}, ~Auth!At(r, "writing"),
           Auth!Goto(r, to)
    PROVE  /\ sessionReq'[r] = [sessionReq[r] EXCEPT !.pc = to]
           /\ sessionReq'[r].pc = to
           /\ sessionReq'[r].op = sessionReq[r].op
              /\ sessionReq'[r].presented = sessionReq[r].presented
           /\ sessionReq'[r].signed = sessionReq[r].signed
              /\ sessionReq'[r].since = sessionReq[r].since
           /\ sessionReq'[r].stale = sessionReq[r].stale
              /\ sessionReq'[r].gone = sessionReq[r].gone
           /\ \A q \in Clients \ {r} : sessionReq'[q] = sessionReq[q]
           /\ RequestTypes'
<1>1. sessionReq \in [Clients -> Auth!RequestRecords]
    BY DEF IInv, Auth!TypeOK
<1>2. /\ sessionReq'[r] = [sessionReq[r] EXCEPT !.pc = to]
      /\ \A q \in Clients \ {r} : sessionReq'[q] = sessionReq[q]
    BY <1>1 DEF Auth!Goto
<1>3. sessionReq[r] \in Auth!RequestRecords
    BY <1>1
<1>4. [sessionReq[r] EXCEPT !.pc = to] \in Auth!RequestRecords
    BY <1>3 DEF Auth!RequestRecords
<1>5. /\ sessionReq'[r].pc = to
      /\ sessionReq'[r].op = sessionReq[r].op
         /\ sessionReq'[r].presented = sessionReq[r].presented
      /\ sessionReq'[r].signed = sessionReq[r].signed
         /\ sessionReq'[r].since = sessionReq[r].since
      /\ sessionReq'[r].stale = sessionReq[r].stale /\ sessionReq'[r].gone = sessionReq[r].gone
    BY <1>2, <1>3 DEF Auth!RequestRecords
<1>6. sessionReq' \in [Clients -> Auth!RequestRecords]
    BY <1>1, <1>4 DEF Auth!Goto
<1>7. ASSUME NEW q \in Clients
      PROVE  Auth!At(q, "writing")' <=> (sessionReq[q].signed # Auth!Null)'
    <2>1. CASE q = r
        BY <1>5, <2>1, RequestParts DEF Auth!At
    <2>2. CASE q # r
        BY <1>2, <2>2, RequestParts DEF Auth!At
    <2> QED
        BY <2>1, <2>2
<1> QED
    BY <1>2, <1>5, <1>6, <1>7 DEF RequestTypes

\* What a statement of request r may do to the rows: a user is deleted for good, a token
\* is taken away or is the one r has signed, a deletion is undone or is of this second.
Effects(r) ==
    /\ now' = now /\ issued \subseteq issued'
    /\ ~user.live => ~user'.live
    /\ \/ user'.token \in {user.token, Auth!Null}
       \/ Auth!At(r, "writing") /\ user'.token = sessionReq[r].signed
    /\ deletedAt' \in {deletedAt, now, Auth!Null}

LEMMA OthersKeep ==
    ASSUME IInv, Auth!SessionAssumption, SharedTypes',
           NEW r \in Clients, NEW q \in Clients \ {r}, Effects(r),
           \A p \in Clients \ {r} : sessionReq'[p] = sessionReq[p],
           sessionReq'[r].signed \in {Auth!Null, sessionReq[r].signed, now}
    PROVE  RequestOK(q)'
<1>1. sessionReq'[q] = sessionReq[q] /\ RequestOK(q) /\ now' = now
    BY DEF IInv, Effects
<1>2. Fits(q)' /\ Young(q)'
    BY <1>1 DEF RequestOK, Fits, Young, Auth!At
<1>3. GoneIsOver(q)'
    BY <1>1 DEF RequestOK, GoneIsOver, Auth!At, Effects
<1>4. ReactivatesInTime(q)'
    <2>1. SUFFICES ASSUME Auth!At(q, "reactivating"), deletedAt' # Auth!Null
                   PROVE  sessionReq[q].since <= deletedAt' + GracePeriod
        BY <1>1 DEF ReactivatesInTime, Auth!At
    <2>2. CASE deletedAt' = deletedAt
        BY <1>1, <2>1, <2>2 DEF RequestOK, ReactivatesInTime
    <2>3. CASE deletedAt' = now
        <3>1. sessionReq[q].since <= now /\ sessionReq[q].since \in Nat /\ now \in Nat
              /\ GracePeriod \in Nat
            BY <1>1, <2>1, RequestParts
               DEF RequestOK, Young, Auth!At, IInv, Auth!TypeOK, Auth!SessionAssumption
        <3> QED
            BY <2>3, <3>1
    <2>4. deletedAt' \in {deletedAt, now, Auth!Null}
        BY DEF Effects
    <2> QED
        BY <2>1, <2>2, <2>3, <2>4
<1>5. StaleIsSpent(q)'
    <2>1. SUFFICES ASSUME sessionReq[q].stale
                   PROVE  /\ (Auth!At(q, "session") \/ Auth!At(q, "revoking"))'
                          /\ sessionReq[q].presented \in issued'
                          /\ sessionReq[q].presented # user'.token
                          /\ sessionReq[q].presented < now'
                          /\ \A p \in Clients : sessionReq'[p].signed # sessionReq[q].presented
        BY <1>1 DEF StaleIsSpent, Auth!Spent
    <2>2. /\ Auth!At(q, "session") \/ Auth!At(q, "revoking")
          /\ sessionReq[q].presented \in issued
          /\ Auth!Spent(sessionReq[q].presented)
        BY <1>1, <2>1 DEF RequestOK, StaleIsSpent
    <2>3. /\ sessionReq[q].presented # user.token /\ sessionReq[q].presented < now
          /\ \A p \in Clients : sessionReq[p].signed # sessionReq[q].presented
        BY <2>2 DEF Auth!Spent
    <2>4. sessionReq[q].presented \in Nat /\ sessionReq[q].presented # Auth!Null /\ now \in Nat
        BY <2>2, Clock
    <2>5. sessionReq[q].presented # user'.token
        BY <2>3, <2>4 DEF Effects
    <2>6. \A p \in Clients : sessionReq'[p].signed # sessionReq[q].presented
        BY <2>3, <2>4
    <2> QED
        BY <1>1, <2>2, <2>3, <2>5, <2>6 DEF Auth!At, Effects
<1> QED
    BY <1>2, <1>3, <1>4, <1>5 DEF RequestOK

\* A step of r, whose own request is in order after it.
LEMMA StepKeeps ==
    ASSUME IInv, Auth!SessionAssumption, SharedTypes', RequestTypes',
           NEW r \in Clients, Effects(r),
           \A p \in Clients \ {r} : sessionReq'[p] = sessionReq[p],
           sessionReq'[r].signed \in {Auth!Null, sessionReq[r].signed, now},
           RequestOK(r)', NobodySigns'
    PROVE  IInv'
BY OthersKeep, TypesApart DEF IInv

\* After a clean log-out, r has nothing to store.
LEMMA NothingToStore ==
    ASSUME IInv, NEW r \in Clients, loggedOut = "clean"
    PROVE  /\ user.token = Auth!Null
           /\ ~Auth!At(r, "none") => /\ sessionReq[r].op \notin Auth!SignIns
                                     /\ sessionReq[r].op = "refresh" => Auth!At(r, "session")
                                        \/ Auth!At(r, "revoking")
           /\ ~Auth!At(r, "signing") /\ ~Auth!At(r, "writing")
<1>1. /\ user.token = Auth!Null
      /\ ~Auth!At(r, "none") => /\ sessionReq[r].op \notin Auth!SignIns
                                /\ sessionReq[r].op = "refresh" => Auth!At(r, "session")
                                   \/ Auth!At(r, "revoking")
    BY DEF IInv, NobodySigns, Auth!InFlight
<1>2. Fits(r)
    BY DEF IInv, RequestOK
<1> QED
    BY <1>1, <1>2 DEF Fits, Auth!At

LEMMA FinishStep ==
    ASSUME IInv, Auth!SessionAssumption, SharedTypes', NEW r \in Clients, Effects(r),
           Auth!Finish(r),
           loggedOut' = loggedOut
    PROVE  IInv'
<1>1. /\ sessionReq'[r] = Auth!NoRequest
      /\ \A q \in Clients \ {r} : sessionReq'[q] = sessionReq[q]
      /\ RequestTypes'
    BY FinishDoes
<1>2. RequestOK(r)'
    BY <1>1 DEF SharedTypes, RequestOK, Fits, Young, StaleIsSpent, GoneIsOver,
            ReactivatesInTime, Auth!At, Auth!NoRequest, Auth!Null
<1>3. NobodySigns'
    <2>1. SUFFICES ASSUME loggedOut = "clean"
                   PROVE  /\ user'.token = Auth!Null
                          /\ \A q \in Auth!InFlight' :
                                /\ sessionReq'[q].op \notin Auth!SignIns
                                /\ sessionReq'[q].op = "refresh" =>
                                             /\ (Auth!At(q, "session")
                                                \/ Auth!At(q, "revoking"))'
                                             /\ sessionReq'[q].presented # Auth!Null
        BY DEF NobodySigns
    <2>2. user'.token = Auth!Null
        BY <2>1, NothingToStore DEF Effects
    <2>3. \A q \in Auth!InFlight' : q # r /\ q \in Auth!InFlight
          /\ sessionReq'[q] = sessionReq[q]
        BY <1>1 DEF Auth!InFlight, Auth!At, Auth!NoRequest
    <2> QED
        BY <2>1, <2>2, <2>3 DEF IInv, NobodySigns, Auth!At
<1> QED
    BY <1>1, <1>2, <1>3, StepKeeps DEF Auth!NoRequest

LEMMA GotoStep ==
    ASSUME IInv, Auth!SessionAssumption, SharedTypes', NEW r \in Clients, Effects(r),
           NEW to \in Auth!PCs \ {"writing"}, ~Auth!At(r, "writing"), ~Auth!At(r, "none"),
           Auth!Goto(r, to),
           loggedOut' = loggedOut,
           Fits(r)', StaleIsSpent(r)', GoneIsOver(r)', ReactivatesInTime(r)',
           sessionReq[r].op = "refresh" /\ loggedOut = "clean" => to \in {"session", "revoking"}
    PROVE  IInv'
<1>1. /\ sessionReq'[r].pc = to
      /\ sessionReq'[r].op = sessionReq[r].op
         /\ sessionReq'[r].presented = sessionReq[r].presented
      /\ sessionReq'[r].signed = sessionReq[r].signed
         /\ sessionReq'[r].since = sessionReq[r].since
      /\ \A q \in Clients \ {r} : sessionReq'[q] = sessionReq[q]
      /\ RequestTypes'
    BY GotoDoes
<1>2. Young(r)'
    BY <1>1 DEF IInv, RequestOK, Young, Effects, Auth!At
<1>3. RequestOK(r)'
    BY <1>2 DEF RequestOK
<1>4. NobodySigns'
    <2>1. SUFFICES ASSUME loggedOut = "clean"
                   PROVE  /\ user'.token = Auth!Null
                          /\ \A q \in Auth!InFlight' :
                                /\ sessionReq'[q].op \notin Auth!SignIns
                                /\ sessionReq'[q].op = "refresh" =>
                                             /\ (Auth!At(q, "session")
                                                \/ Auth!At(q, "revoking"))'
                                             /\ sessionReq'[q].presented # Auth!Null
        BY DEF NobodySigns
    <2>2. user'.token = Auth!Null
        BY <2>1, NothingToStore DEF Effects
    <2>3. \A q \in Auth!InFlight' : q \in Auth!InFlight
          /\ (q = r \/ sessionReq'[q] = sessionReq[q])
        BY <1>1 DEF Auth!InFlight, Auth!At
    <2>4. \A q \in Auth!InFlight :
              /\ sessionReq[q].op \notin Auth!SignIns
              /\ sessionReq[q].op = "refresh" =>
                           (Auth!At(q, "session") \/ Auth!At(q, "revoking"))
                           /\ sessionReq[q].presented # Auth!Null
        BY <2>1 DEF IInv, NobodySigns
    <2> QED
        BY <1>1, <2>1, <2>2, <2>3, <2>4 DEF Auth!At
<1> QED
    BY <1>1, <1>3, <1>4, StepKeeps
-----------------------------------------------------------------------------
(* Sessions: the steps.                                                      *)

LEMMA ReceiveStep ==
    ASSUME IInv, Auth!SessionAssumption, NEW r \in Clients, NEW op \in Auth!Ops,
           NEW p \in issued \cup Passwords \cup {Auth!Null}, Auth!Receive(r, op, p)
    PROVE  IInv'
<1> DEFINE new == [op |-> op, pc |-> Auth!FirstStep(op), presented |-> p,
                   signed |-> Auth!Null, since |-> now,
                   stale |-> op = "refresh" /\ Auth!Spent(p),
                   gone |-> ~user.live]
<1>1. /\ sessionReq' = [sessionReq EXCEPT ![r] = new]
      /\ UNCHANGED <<now, user, deletedAt, issued>>
      /\ loggedOut' = IF op \in Auth!SignIns THEN "no" ELSE loggedOut
      /\ op = "refresh" => p \in issued
    BY DEF Auth!Receive, Auth!SignIns
<1>2. Auth!FirstStep(op) = IF op \in Auth!SignIns THEN "user"
                           ELSE IF op = "refresh" THEN "session" ELSE "auth"
    BY DEF Auth!FirstStep, Auth!SignIns
<1>3. p \in Nat /\ (p \in issued => p # Auth!Null) /\ now \in Nat \ {0} /\ user.live \in BOOLEAN
    BY DEF IInv, Auth!TypeOK, Auth!SessionAssumption, Auth!Null
<1>4. new \in Auth!RequestRecords
    <2>1. Auth!FirstStep(op) \in Auth!PCs
        BY <1>2 DEF Auth!PCs
    <2>2. (op = "refresh" /\ Auth!Spent(p)) \in BOOLEAN
        OBVIOUS
    <2> QED
        BY <1>3, <2>1, <2>2 DEF Auth!RequestRecords, Auth!Null
<1>5. sessionReq \in [Clients -> Auth!RequestRecords]
    BY DEF IInv, Auth!TypeOK
<1>6. sessionReq'[r] = new /\ \A q \in Clients \ {r} : sessionReq'[q] = sessionReq[q]
    BY <1>1, <1>5
<1>7. sessionReq' \in [Clients -> Auth!RequestRecords]
    BY <1>1, <1>4, <1>5
<1>8. /\ new.op = op /\ new.presented = p /\ new.signed = Auth!Null /\ new.since = now
      /\ new.pc = IF op \in Auth!SignIns THEN "user" ELSE IF op = "refresh" THEN "session"
         ELSE "auth"
      /\ new.stale => op = "refresh" /\ Auth!Spent(p)
      /\ new.gone => ~user.live
    BY <1>2
<1> HIDE DEF new
<1>9. RequestTypes'
    <2>1. ASSUME NEW q \in Clients
          PROVE  Auth!At(q, "writing")' <=> (sessionReq[q].signed # Auth!Null)'
        BY <1>6, <1>8, RequestParts DEF Auth!At
    <2> QED
        BY <1>7, <2>1 DEF RequestTypes
<1>10. SharedTypes'
    BY <1>1, TypesApart DEF IInv, SharedTypes
<1>11. Effects(r)
    BY <1>1 DEF Effects
<1>12. RequestOK(r)'
    <2>1. Fits(r)' /\ ReactivatesInTime(r)'
        BY <1>6, <1>8 DEF Fits, ReactivatesInTime, Auth!At, Auth!SignIns
    <2>2. Young(r)'
        BY <1>1, <1>3, <1>6, <1>8 DEF Young, Auth!At, Auth!SessionAssumption, Auth!Null
    <2>3. GoneIsOver(r)'
        BY <1>1, <1>6, <1>8 DEF GoneIsOver, Auth!At
    <2>4. StaleIsSpent(r)'
        BY <1>1, <1>3, <1>6, <1>8 DEF StaleIsSpent, Auth!At, Auth!Spent, Auth!SignIns
    <2> QED
        BY <2>1, <2>2, <2>3, <2>4 DEF RequestOK
<1>13. NobodySigns'
    <2>1. SUFFICES ASSUME loggedOut' = "clean"
                   PROVE  /\ user'.token = Auth!Null
                          /\ \A q \in Auth!InFlight' :
                                /\ sessionReq'[q].op \notin Auth!SignIns
                                /\ sessionReq'[q].op = "refresh" =>
                                             /\ (Auth!At(q, "session")
                                                \/ Auth!At(q, "revoking"))'
                                             /\ sessionReq'[q].presented # Auth!Null
        BY DEF NobodySigns
    <2>2. loggedOut = "clean" /\ op \notin Auth!SignIns
        <3>1. loggedOut' = IF op \in Auth!SignIns THEN "no" ELSE loggedOut
            BY <1>1
        <3> QED
            BY <2>1, <3>1
    <2>3. \A q \in Auth!InFlight' : q = r
          \/ (q \in Auth!InFlight /\ sessionReq'[q] = sessionReq[q])
        BY <1>6 DEF Auth!InFlight, Auth!At
    <2>4. user.token = Auth!Null /\ \A q \in Auth!InFlight :
              /\ sessionReq[q].op \notin Auth!SignIns
              /\ sessionReq[q].op = "refresh" =>
                           (Auth!At(q, "session") \/ Auth!At(q, "revoking"))
                           /\ sessionReq[q].presented # Auth!Null
        BY <2>2 DEF IInv, NobodySigns
    <2> QED
        BY <1>1, <1>3, <1>6, <1>8, <2>2, <2>3, <2>4 DEF Auth!At
<1> QED
    BY <1>6, <1>8, <1>9, <1>10, <1>11, <1>12, <1>13, StepKeeps

\* A statement that only reads.
LEMMA ReadsOnly ==
    ASSUME IInv, NEW r \in Clients, UNCHANGED <<now, user, deletedAt, issued, loggedOut>>
    PROVE  SharedTypes' /\ Effects(r) /\ loggedOut' = loggedOut
BY TypesApart DEF IInv, SharedTypes, Effects

LEMMA AuthenticateStep ==
    ASSUME IInv, Auth!SessionAssumption, NEW r \in Clients, Auth!Authenticate(r)
    PROVE  IInv'
<1>1. Auth!At(r, "auth") /\ UNCHANGED <<now, user, deletedAt, issued, loggedOut>>
    BY DEF Auth!Authenticate
<1>2. SharedTypes' /\ Effects(r) /\ loggedOut' = loggedOut
    BY <1>1, ReadsOnly
<1>3. RequestOK(r)
    BY DEF IInv
<1>4. CASE Auth!Finish(r)
    BY <1>2, <1>4, FinishStep
<1>5. ASSUME NEW to \in {"tenant", "user"}, Auth!Goto(r, to),
             to = "tenant" <=> sessionReq[r].op = "deleteTenant"
      PROVE  IInv'
    <2>1. to \in Auth!PCs \ {"writing"} /\ ~Auth!At(r, "none") /\ ~Auth!At(r, "writing")
        BY <1>1 DEF Auth!PCs, Auth!At
    <2>2. /\ sessionReq'[r].pc = to /\ sessionReq'[r].op = sessionReq[r].op
          /\ sessionReq'[r].stale = sessionReq[r].stale
             /\ sessionReq'[r].gone = sessionReq[r].gone
        BY <1>5, <2>1, GotoDoes
    <2>3. Fits(r)' /\ ReactivatesInTime(r)'
        BY <1>1, <1>3, <1>5, <2>2 DEF RequestOK, Fits, ReactivatesInTime, Auth!At
    <2>4. StaleIsSpent(r)'
        BY <1>1, <1>3, <2>2 DEF RequestOK, StaleIsSpent, Auth!At
    <2>5. GoneIsOver(r)'
        BY <1>1, <1>3, <1>5, <2>2 DEF RequestOK, GoneIsOver, Auth!At
    <2>6. ~(sessionReq[r].op = "refresh" /\ loggedOut = "clean")
        BY <1>1, NothingToStore DEF Auth!At
    <2> QED
        BY <1>2, <1>5, <2>1, <2>3, <2>4, <2>5, <2>6, GotoStep
<1> QED
    BY <1>4, <1>5 DEF Auth!Authenticate

LEMMA FindByEmailStep ==
    ASSUME IInv, Auth!SessionAssumption, NEW r \in Clients, Auth!FindByEmail(r)
    PROVE  IInv'
<1>1. /\ Auth!At(r, "user") /\ sessionReq[r].op \in Auth!SignIns
      /\ UNCHANGED <<now, user, deletedAt, issued, loggedOut>>
    BY DEF Auth!FindByEmail
<1>2. SharedTypes' /\ Effects(r) /\ loggedOut' = loggedOut
    BY <1>1, ReadsOnly
<1>3. RequestOK(r)
    BY DEF IInv
<1>4. CASE Auth!Finish(r)
    BY <1>2, <1>4, FinishStep
<1>5. ASSUME NEW to \in {"signing", "tenant"}, Auth!Goto(r, to), user.live,
             to = "tenant" => sessionReq[r].op = "reactivate"
      PROVE  IInv'
    <2>1. to \in Auth!PCs \ {"writing"} /\ ~Auth!At(r, "none") /\ ~Auth!At(r, "writing")
        BY <1>1 DEF Auth!PCs, Auth!At
    <2>2. /\ sessionReq'[r].pc = to /\ sessionReq'[r].op = sessionReq[r].op
          /\ sessionReq'[r].stale = sessionReq[r].stale
             /\ sessionReq'[r].gone = sessionReq[r].gone
        BY <1>5, <2>1, GotoDoes
    <2>3. Fits(r)' /\ ReactivatesInTime(r)'
        BY <1>1, <1>5, <2>2 DEF Fits, ReactivatesInTime, Auth!At
    <2>4. StaleIsSpent(r)'
        BY <1>1, <1>3, <2>2 DEF RequestOK, StaleIsSpent, Auth!At
    <2>5. GoneIsOver(r)'
        BY <1>3, <1>5, <2>2 DEF RequestOK, GoneIsOver
    <2>6. ~(sessionReq[r].op = "refresh" /\ loggedOut = "clean")
        BY <1>1, NothingToStore DEF Auth!At
    <2> QED
        BY <1>2, <1>5, <2>1, <2>3, <2>4, <2>5, <2>6, GotoStep
<1>6. CASE Auth!Goto(r, "signing") /\ user.live
    BY <1>5, <1>6
<1>7. CASE Auth!Goto(r, "tenant") /\ user.live /\ sessionReq[r].op = "reactivate"
    BY <1>5, <1>7
<1> QED
    BY <1>4, <1>6, <1>7 DEF Auth!FindByEmail

\* A replaced token is not the stored one.
LEMMA FindSessionStep ==
    ASSUME IInv, Auth!SessionAssumption, NEW r \in Clients, Auth!FindSession(r)
    PROVE  IInv'
<1>1. Auth!At(r, "session") /\ UNCHANGED <<now, user, deletedAt, issued, loggedOut>>
    BY DEF Auth!FindSession
<1>2. SharedTypes' /\ Effects(r) /\ loggedOut' = loggedOut
    BY <1>1, ReadsOnly
<1>3. RequestOK(r) /\ sessionReq[r].op = "refresh"
    BY <1>1 DEF IInv, RequestOK, Fits
<1>4. CASE Auth!Finish(r)
    BY <1>2, <1>4, FinishStep
<1>5. ASSUME NEW to \in {"signing", "revoking"}, Auth!Goto(r, to), user.live,
             to = "signing" => user.token = sessionReq[r].presented
      PROVE  IInv'
    <2>1. to \in Auth!PCs \ {"writing"} /\ ~Auth!At(r, "none") /\ ~Auth!At(r, "writing")
        BY <1>1 DEF Auth!PCs, Auth!At
    <2>2. /\ sessionReq'[r].pc = to /\ sessionReq'[r].op = sessionReq[r].op
          /\ sessionReq'[r].presented = sessionReq[r].presented
             /\ sessionReq'[r].signed = sessionReq[r].signed
          /\ sessionReq'[r].stale = sessionReq[r].stale
             /\ sessionReq'[r].gone = sessionReq[r].gone
          /\ \A q \in Clients \ {r} : sessionReq'[q] = sessionReq[q]
        BY <1>5, <2>1, GotoDoes
    <2>3. Fits(r)' /\ ReactivatesInTime(r)'
        BY <1>3, <1>5, <2>2 DEF Fits, ReactivatesInTime, Auth!At
    <2>4. StaleIsSpent(r)'
        <3>1. SUFFICES ASSUME sessionReq[r].stale
                       PROVE  /\ to = "revoking"
                              /\ sessionReq[r].presented \in issued
                              /\ Auth!Spent(sessionReq[r].presented)
                              /\ \A q \in Clients : sessionReq'[q].signed = sessionReq[q].signed
            BY <1>1, <2>2 DEF StaleIsSpent, Auth!At, Auth!Spent
        <3>2. sessionReq[r].presented \in issued /\ Auth!Spent(sessionReq[r].presented)
            BY <1>3, <3>1 DEF RequestOK, StaleIsSpent
        <3>3. to = "revoking"
            BY <1>5, <3>2 DEF Auth!Spent
        <3> QED
            BY <2>2, <3>2, <3>3
    <2>5. GoneIsOver(r)'
        BY <1>3, <1>5, <2>2 DEF RequestOK, GoneIsOver
    <2>6. sessionReq[r].op = "refresh" /\ loggedOut = "clean" => to \in {"session", "revoking"}
        <3>1. SUFFICES ASSUME loggedOut = "clean" PROVE user.token # sessionReq[r].presented
            BY <1>5
        <3>2. user.token = Auth!Null /\ sessionReq[r].presented # Auth!Null
            BY <1>1, <1>3, <3>1 DEF IInv, NobodySigns, Auth!InFlight, Auth!At
        <3> QED
            BY <3>2
    <2> QED
        BY <1>2, <1>5, <2>1, <2>3, <2>4, <2>5, <2>6, GotoStep
<1>6. CASE Auth!Goto(r, "revoking") /\ user.live
    BY <1>5, <1>6
<1>7. CASE Auth!Goto(r, "signing") /\ user.live /\ user.token = sessionReq[r].presented
    BY <1>5, <1>7
<1> QED
    BY <1>4, <1>6, <1>7 DEF Auth!FindSession

LEMMA FindUserStep ==
    ASSUME IInv, Auth!SessionAssumption, NEW r \in Clients, Auth!FindUser(r)
    PROVE  IInv'
<1>1. /\ Auth!At(r, "user") /\ sessionReq[r].op \notin Auth!SignIns
      /\ UNCHANGED <<now, user, deletedAt, issued, loggedOut>>
    BY DEF Auth!FindUser
<1>2. SharedTypes' /\ Effects(r) /\ loggedOut' = loggedOut
    BY <1>1, ReadsOnly
<1>3. RequestOK(r)
    BY DEF IInv
<1>4. CASE Auth!Finish(r)
    BY <1>2, <1>4, FinishStep
<1>5. CASE ~Auth!Finish(r)
    <2> DEFINE to == CASE sessionReq[r].op = "logout"     -> "clearing"
                       [] sessionReq[r].op = "deleteUser" -> "anonymizing"
                       [] OTHER                    -> "updating"
    <2>1. Auth!Goto(r, to) /\ user.live
        BY <1>5 DEF Auth!FindUser
    <2>2. to \in Auth!PCs \ {"writing"} /\ ~Auth!At(r, "none") /\ ~Auth!At(r, "writing")
        BY <1>1 DEF Auth!PCs, Auth!At
    <2>3. /\ sessionReq'[r].pc = to /\ sessionReq'[r].op = sessionReq[r].op
          /\ sessionReq'[r].stale = sessionReq[r].stale
             /\ sessionReq'[r].gone = sessionReq[r].gone
        BY <2>1, <2>2, GotoDoes
    <2>4. /\ to = "clearing" => sessionReq[r].op = "logout"
          /\ to = "updating" => sessionReq[r].op \notin {"logout", "deleteUser"}
          /\ to \in {"clearing", "anonymizing", "updating"}
        OBVIOUS
    <2>5. sessionReq[r].op \in {"logout", "deleteUser", "changePassword", "updateUser"}
        BY <1>1, <1>3, RequestParts DEF RequestOK, Fits, Auth!At, Auth!Ops, Auth!SignIns
    <2> HIDE DEF to
    <2>6. Fits(r)' /\ ReactivatesInTime(r)'
        BY <2>3, <2>4, <2>5 DEF Fits, ReactivatesInTime, Auth!At
    <2>7. StaleIsSpent(r)'
        BY <1>1, <1>3, <2>3 DEF RequestOK, StaleIsSpent, Auth!At
    <2>8. GoneIsOver(r)'
        BY <1>3, <2>1, <2>3 DEF RequestOK, GoneIsOver
    <2> QED
        BY <1>2, <2>1, <2>2, <2>5, <2>6, <2>7, <2>8, GotoStep
<1> QED
    BY <1>4, <1>5

\* Who reactivates found the window open, and so started before it closed.
LEMMA FindTenantStep ==
    ASSUME IInv, Auth!SessionAssumption, NEW r \in Clients, Auth!FindTenant(r)
    PROVE  IInv'
<1>1. Auth!At(r, "tenant") /\ UNCHANGED <<now, user, deletedAt, issued, loggedOut>>
    BY DEF Auth!FindTenant
<1>2. SharedTypes' /\ Effects(r) /\ loggedOut' = loggedOut
    BY <1>1, ReadsOnly
<1>3. RequestOK(r)
    BY DEF IInv
<1>4. CASE Auth!Finish(r)
    BY <1>2, <1>4, FinishStep
<1>5. ASSUME NEW to \in {"deleting", "signing", "reactivating"}, Auth!Goto(r, to),
             to = "deleting" <=> sessionReq[r].op = "deleteTenant",
             to = "reactivating" => now <= deletedAt + GracePeriod
      PROVE  IInv'
    <2>1. to \in Auth!PCs \ {"writing"} /\ ~Auth!At(r, "none") /\ ~Auth!At(r, "writing")
        BY <1>1 DEF Auth!PCs, Auth!At
    <2>2. /\ sessionReq'[r].pc = to /\ sessionReq'[r].op = sessionReq[r].op
             /\ sessionReq'[r].since = sessionReq[r].since
          /\ sessionReq'[r].stale = sessionReq[r].stale
             /\ sessionReq'[r].gone = sessionReq[r].gone
        BY <1>5, <2>1, GotoDoes
    <2>3. sessionReq[r].op \in {"reactivate", "deleteTenant"}
        BY <1>1, <1>3 DEF RequestOK, Fits
    <2>4. Fits(r)'
        BY <1>5, <2>2, <2>3 DEF Fits, Auth!At, Auth!SignIns
    <2>5. ReactivatesInTime(r)'
        <3>1. SUFFICES ASSUME to = "reactivating"
                       PROVE  sessionReq[r].since <= deletedAt + GracePeriod
            BY <1>1, <2>2 DEF ReactivatesInTime, Auth!At
        <3>2. sessionReq[r].since <= now
            BY <1>3, <2>1 DEF RequestOK, Young
        <3>3. sessionReq[r].since \in Nat /\ now \in Nat /\ deletedAt \in Nat
              /\ GracePeriod \in Nat
            BY RequestParts, Clock DEF Auth!SessionAssumption
        <3> QED
            BY <1>5, <3>1, <3>2, <3>3
    <2>6. StaleIsSpent(r)'
        BY <1>1, <1>3, <2>2 DEF RequestOK, StaleIsSpent, Auth!At
    <2>7. GoneIsOver(r)'
        BY <1>1, <1>3, <1>5, <2>2 DEF RequestOK, GoneIsOver, Auth!At
    <2> QED
        BY <1>2, <1>5, <2>1, <2>3, <2>4, <2>5, <2>6, <2>7, GotoStep
<1>6. CASE Auth!Goto(r, "deleting") /\ sessionReq[r].op = "deleteTenant"
    BY <1>5, <1>6
<1>7. CASE Auth!Goto(r, "signing") /\ sessionReq[r].op = "reactivate"
    BY <1>5, <1>7
<1>8. CASE /\ Auth!Goto(r, "reactivating") /\ sessionReq[r].op = "reactivate"
           /\ now <= deletedAt + GracePeriod
    BY <1>5, <1>8
<1> QED
    BY <1>4, <1>6, <1>7, <1>8 DEF Auth!FindTenant

\* The time that r signs is later than any spent token.
LEMMA SignStep ==
    ASSUME IInv, Auth!SessionAssumption, NEW r \in Clients, Auth!Sign(r)
    PROVE  IInv'
<1>1. /\ Auth!At(r, "signing") /\ UNCHANGED <<now, user, deletedAt, issued, loggedOut>>
      /\ sessionReq' = [sessionReq EXCEPT ![r].pc = "writing", ![r].signed = now]
    BY DEF Auth!Sign
<1>2. SharedTypes' /\ Effects(r) /\ loggedOut' = loggedOut
    BY <1>1, ReadsOnly
<1>3. RequestOK(r) /\ sessionReq[r].op \in Auth!SignIns \cup {"refresh"}
    BY <1>1 DEF IInv, RequestOK, Fits
<1>4. sessionReq \in [Clients -> Auth!RequestRecords] /\ now \in Nat \ {0}
    BY DEF IInv, Auth!TypeOK
<1> DEFINE new == [sessionReq[r] EXCEPT !.pc = "writing", !.signed = now]
<1>5. sessionReq' = [sessionReq EXCEPT ![r] = new]
    BY <1>1, <1>4
<1>6. new \in Auth!RequestRecords
    BY <1>4 DEF Auth!RequestRecords, Auth!PCs
<1>7. /\ new.pc = "writing" /\ new.signed = now
      /\ new.op = sessionReq[r].op /\ new.since = sessionReq[r].since
      /\ new.stale = sessionReq[r].stale /\ new.gone = sessionReq[r].gone
    BY <1>4 DEF Auth!RequestRecords
<1> HIDE DEF new
<1>8. /\ sessionReq'[r] = new /\ \A q \in Clients \ {r} : sessionReq'[q] = sessionReq[q]
      /\ sessionReq' \in [Clients -> Auth!RequestRecords]
    BY <1>4, <1>5, <1>6
<1>9. RequestTypes'
    <2>1. ASSUME NEW q \in Clients
          PROVE  Auth!At(q, "writing")' <=> (sessionReq[q].signed # Auth!Null)'
        <3>1. CASE q = r
            BY <1>4, <1>7, <1>8, <3>1 DEF Auth!At, Auth!Null
        <3>2. CASE q # r
            BY <1>8, <3>2, RequestParts DEF Auth!At
        <3> QED
            BY <3>1, <3>2
    <2> QED
        BY <1>8, <2>1 DEF RequestTypes
<1>10. RequestOK(r)'
    <2>1. Fits(r)' /\ ReactivatesInTime(r)'
        BY <1>3, <1>7, <1>8 DEF Fits, ReactivatesInTime, Auth!At
    <2>2. Young(r)'
        BY <1>1, <1>3, <1>4, <1>7, <1>8 DEF RequestOK, Young, Auth!At
    <2>3. StaleIsSpent(r)' /\ GoneIsOver(r)'
        BY <1>1, <1>3, <1>7, <1>8 DEF RequestOK, StaleIsSpent, GoneIsOver, Auth!At
    <2> QED
        BY <2>1, <2>2, <2>3 DEF RequestOK
<1>11. NobodySigns'
    BY <1>1, NothingToStore DEF NobodySigns
<1> QED
    BY <1>2, <1>7, <1>8, <1>9, <1>10, <1>11, StepKeeps

\* The user's row, typed.
LEMMA UserRow ==
    ASSUME IInv
    PROVE  /\ user \in [live : BOOLEAN, token : Nat, name : {"own", "redacted"},
                        password : Passwords \cup {Auth!Redacted}]
           /\ user.live \in BOOLEAN /\ user.token \in issued \cup {Auth!Null}
           /\ loggedOut \in {"no", "raced", "clean"}
BY DEF IInv, Auth!TypeOK

LEMMA RevokeStep ==
    ASSUME IInv, Auth!SessionAssumption, NEW r \in Clients, Auth!Revoke(r)
    PROVE  IInv'
<1>1. /\ user' = [user EXCEPT !.token = Auth!Null] /\ Auth!Finish(r)
      /\ UNCHANGED <<now, deletedAt, issued, loggedOut>>
    BY DEF Auth!Revoke
<1>2. user'.token = Auth!Null /\ user'.live = user.live
    BY <1>1, UserRow
<1>3. user' \in [live : BOOLEAN, token : Nat, name : {"own", "redacted"},
                 password : Passwords \cup {Auth!Redacted}]
    BY <1>1, UserRow DEF Auth!Null
<1>4. SharedTypes'
    BY <1>1, <1>2, <1>3, Clock, UserRow DEF SharedTypes
<1>5. Effects(r)
    BY <1>1, <1>2 DEF Effects
<1> QED
    BY <1>1, <1>4, <1>5, FinishStep

LEMMA WriteTokenStep ==
    ASSUME IInv, Auth!SessionAssumption, NEW r \in Clients, Auth!WriteToken(r)
    PROVE  IInv'
<1>1. /\ user' = [user EXCEPT !.token = sessionReq[r].signed] /\ Auth!Finish(r)
      /\ Auth!At(r, "writing") /\ issued' = issued \cup {sessionReq[r].signed}
      /\ UNCHANGED <<now, deletedAt, loggedOut>>
    BY DEF Auth!WriteToken
<1>2. user'.token = sessionReq[r].signed /\ user'.live = user.live
    BY <1>1, UserRow
<1>3. sessionReq[r].signed \in 1..now
    <2>1. sessionReq[r].signed \in Nat /\ sessionReq[r].signed # Auth!Null
          /\ sessionReq[r].signed <= now
        BY <1>1, RequestParts DEF IInv, RequestOK, Young
    <2> QED
        BY <2>1, Clock DEF Auth!Null
<1>4. user' \in [live : BOOLEAN, token : Nat, name : {"own", "redacted"},
                 password : Passwords \cup {Auth!Redacted}]
    BY <1>1, <1>3, UserRow
<1>5. SharedTypes'
    BY <1>1, <1>2, <1>3, <1>4, Clock, UserRow DEF SharedTypes
<1>6. Effects(r)
    BY <1>1, <1>2 DEF Effects
<1> QED
    BY <1>1, <1>5, <1>6, FinishStep

LEMMA UpdateUserStep ==
    ASSUME IInv, Auth!SessionAssumption, NEW r \in Clients, Auth!UpdateUser(r)
    PROVE  IInv'
<1>1. /\ Auth!Finish(r) /\ UNCHANGED <<now, deletedAt, issued, loggedOut>>
      /\ \/ user' = [user EXCEPT !.name = "own"]
         \/ \E p \in Passwords : user' = [user EXCEPT !.password = p]
    BY DEF Auth!UpdateUser
<1>2. /\ user' \in [live : BOOLEAN, token : Nat, name : {"own", "redacted"},
                    password : Passwords \cup {Auth!Redacted}]
      /\ user'.token = user.token /\ user'.live = user.live
    BY <1>1, UserRow
<1>3. SharedTypes'
    BY <1>1, <1>2, Clock, UserRow DEF SharedTypes
<1>4. Effects(r)
    BY <1>1, <1>2 DEF Effects
<1> QED
    BY <1>1, <1>3, <1>4, FinishStep

LEMMA AnonymizeStep ==
    ASSUME IInv, Auth!SessionAssumption, NEW r \in Clients, Auth!Anonymize(r)
    PROVE  IInv'
<1>1. /\ Auth!Finish(r) /\ UNCHANGED <<now, deletedAt, issued, loggedOut>>
      /\ user'
         = [live |-> FALSE, token |-> Auth!Null, name |-> "redacted",
         password |-> Auth!Redacted]
    BY DEF Auth!Anonymize
<1>2. /\ user' \in [live : BOOLEAN, token : Nat, name : {"own", "redacted"},
                    password : Passwords \cup {Auth!Redacted}]
      /\ user'.token = Auth!Null /\ ~user'.live
    BY <1>1 DEF Auth!Null
<1>3. SharedTypes'
    BY <1>1, <1>2, Clock, UserRow DEF SharedTypes
<1>4. Effects(r)
    BY <1>1, <1>2 DEF Effects
<1> QED
    BY <1>1, <1>3, <1>4, FinishStep

LEMMA SoftDeleteStep ==
    ASSUME IInv, Auth!SessionAssumption, NEW r \in Clients, Auth!SoftDelete(r)
    PROVE  IInv'
<1>1. /\ Auth!Finish(r) /\ UNCHANGED <<now, user, issued, loggedOut>>
      /\ deletedAt' = now
    BY DEF Auth!SoftDelete
<1>2. SharedTypes'
    BY <1>1, Clock, UserRow DEF SharedTypes
<1>3. Effects(r)
    BY <1>1 DEF Effects
<1> QED
    BY <1>1, <1>2, <1>3, FinishStep

LEMMA ReactivateStep ==
    ASSUME IInv, Auth!SessionAssumption, NEW r \in Clients, Auth!Reactivate(r)
    PROVE  IInv'
<1>1. /\ Auth!At(r, "reactivating") /\ Auth!Goto(r, "signing") /\ deletedAt' = Auth!Null
      /\ UNCHANGED <<now, user, issued, loggedOut>>
    BY DEF Auth!Reactivate
<1>2. SharedTypes'
    BY <1>1, Clock, UserRow DEF SharedTypes, Auth!Null
<1>3. Effects(r)
    BY <1>1 DEF Effects
<1>4. RequestOK(r) /\ sessionReq[r].op = "reactivate"
    BY <1>1 DEF IInv, RequestOK, Fits
<1>5. "signing" \in Auth!PCs \ {"writing"} /\ ~Auth!At(r, "none") /\ ~Auth!At(r, "writing")
    BY <1>1 DEF Auth!PCs, Auth!At
<1>6. /\ sessionReq'[r].pc = "signing" /\ sessionReq'[r].op = sessionReq[r].op
      /\ sessionReq'[r].stale = sessionReq[r].stale /\ sessionReq'[r].gone = sessionReq[r].gone
    BY <1>1, <1>5, GotoDoes
<1>7. Fits(r)' /\ ReactivatesInTime(r)'
    BY <1>4, <1>6 DEF Fits, ReactivatesInTime, Auth!At, Auth!SignIns
<1>8. StaleIsSpent(r)' /\ GoneIsOver(r)'
    BY <1>1, <1>4, <1>6 DEF RequestOK, StaleIsSpent, GoneIsOver, Auth!At
<1> QED
    BY <1>1, <1>2, <1>3, <1>4, <1>5, <1>7, <1>8, GotoStep

LEMMA ClearStep ==
    ASSUME IInv, Auth!SessionAssumption, NEW r \in Clients, Auth!Clear(r)
    PROVE  IInv'
<1>1. /\ user' = [user EXCEPT !.token = Auth!Null] /\ Auth!Finish(r)
      /\ UNCHANGED <<now, deletedAt, issued>>
      /\ loggedOut' \in {"no", "raced", "clean"}
      /\ loggedOut' = "clean"
         => \A q \in Auth!InFlight : sessionReq[q].op \notin Auth!SignIns \cup {"refresh"}
    BY DEF Auth!Clear
<1>2. user'.token = Auth!Null /\ user'.live = user.live
    BY <1>1, UserRow
<1>3. user' \in [live : BOOLEAN, token : Nat, name : {"own", "redacted"},
                 password : Passwords \cup {Auth!Redacted}]
    BY <1>1, UserRow DEF Auth!Null
<1>4. SharedTypes'
    BY <1>1, <1>2, <1>3, Clock DEF SharedTypes
<1>5. Effects(r)
    BY <1>1, <1>2 DEF Effects
<1>6. /\ sessionReq'[r] = Auth!NoRequest
      /\ \A q \in Clients \ {r} : sessionReq'[q] = sessionReq[q]
      /\ RequestTypes'
    BY <1>1, FinishDoes
<1>7. RequestOK(r)'
    BY <1>6, Clock, <1>1 DEF RequestOK, Fits, Young, StaleIsSpent, GoneIsOver,
            ReactivatesInTime, Auth!At, Auth!NoRequest, Auth!Null
<1>8. NobodySigns'
    <2>1. \A q \in Auth!InFlight' : q \in Auth!InFlight /\ sessionReq'[q] = sessionReq[q]
        BY <1>6 DEF Auth!InFlight, Auth!At, Auth!NoRequest
    <2> QED
        BY <1>1, <1>2, <2>1 DEF NobodySigns
<1> QED
    BY <1>4, <1>5, <1>6, <1>7, <1>8, StepKeeps DEF Auth!NoRequest

LEMMA LoseRequestStep ==
    ASSUME IInv, Auth!SessionAssumption, NEW r \in Clients, Auth!LoseRequest(r)
    PROVE  IInv'
<1>1. Auth!Finish(r) /\ UNCHANGED <<now, user, deletedAt, issued, loggedOut>>
    BY DEF Auth!LoseRequest
<1> QED
    BY <1>1, ReadsOnly, FinishStep

LEMMA TickStep ==
    ASSUME IInv, Auth!SessionAssumption, Auth!Tick
    PROVE  IInv'
<1>1. /\ now' = now + 1 /\ UNCHANGED <<user, deletedAt, issued, sessionReq, loggedOut>>
      /\ \A r \in Auth!InFlight : now < sessionReq[r].since + MaxLatency
    BY DEF Auth!Tick
<1>2. SharedTypes'
    BY <1>1, Clock, UserRow DEF SharedTypes
<1>3. RequestTypes'
    BY <1>1 DEF IInv, Auth!TypeOK, RequestTypes, Auth!At
<1>4. ASSUME NEW r \in Clients
      PROVE  RequestOK(r)'
    <2>1. RequestOK(r)
        BY DEF IInv
    <2>2. Fits(r)' /\ GoneIsOver(r)' /\ ReactivatesInTime(r)'
        BY <1>1, <2>1 DEF RequestOK, Fits, GoneIsOver, ReactivatesInTime, Auth!At
    <2>3. Young(r)'
        <3>1. now \in Nat /\ sessionReq[r].signed \in Nat /\ sessionReq[r].since \in Nat
              /\ MaxLatency \in Nat
            BY Clock, RequestParts DEF Auth!SessionAssumption
        <3> QED
            BY <1>1, <2>1, <3>1 DEF RequestOK, Young, Auth!InFlight, Auth!At
    <2>4. StaleIsSpent(r)'
        <3>1. now \in Nat /\ sessionReq[r].presented \in Nat
            BY Clock, RequestParts
        <3> QED
            BY <1>1, <2>1, <3>1 DEF RequestOK, StaleIsSpent, Auth!Spent, Auth!At
    <2> QED
        BY <2>2, <2>3, <2>4 DEF RequestOK
<1>5. NobodySigns'
    BY <1>1 DEF IInv, NobodySigns, Auth!InFlight, Auth!At
<1> QED
    BY <1>2, <1>3, <1>4, <1>5, TypesApart DEF IInv

LEMMA Stutters == IInv /\ UNCHANGED Auth!vars => IInv'
BY DEF Auth!vars, IInv, Auth!TypeOK, RequestOK, Fits, Young, StaleIsSpent, GoneIsOver,
   ReactivatesInTime,
       NobodySigns, Auth!Spent, Auth!InFlight, Auth!At

LEMMA Inductive == ASSUME Auth!SessionAssumption PROVE IInv /\ [Auth!Next]_Auth!vars => IInv'
<1>1. SUFFICES ASSUME IInv, Auth!Next PROVE IInv'
    BY Stutters
<1>2. ASSUME NEW r \in Clients, NEW op \in Auth!Ops,
             NEW p \in issued \cup Passwords \cup {Auth!Null},
             Auth!Receive(r, op, p)
      PROVE  IInv'
    BY <1>1, <1>2, ReceiveStep
<1>3. ASSUME NEW r \in Clients, Auth!Step(r) PROVE IInv'
    <2> USE <1>1
    <2>1. CASE Auth!Authenticate(r) BY <2>1, AuthenticateStep
    <2>2. CASE Auth!FindByEmail(r)  BY <2>2, FindByEmailStep
    <2>3. CASE Auth!FindSession(r)  BY <2>3, FindSessionStep
    <2>4. CASE Auth!FindUser(r)     BY <2>4, FindUserStep
    <2>5. CASE Auth!FindTenant(r)   BY <2>5, FindTenantStep
    <2>6. CASE Auth!Sign(r)         BY <2>6, SignStep
    <2>7. CASE Auth!WriteToken(r)   BY <2>7, WriteTokenStep
    <2>8. CASE Auth!Revoke(r)       BY <2>8, RevokeStep
    <2>9. CASE Auth!Clear(r)        BY <2>9, ClearStep
    <2>10. CASE Auth!UpdateUser(r)  BY <2>10, UpdateUserStep
    <2>11. CASE Auth!Anonymize(r)   BY <2>11, AnonymizeStep
    <2>12. CASE Auth!SoftDelete(r)  BY <2>12, SoftDeleteStep
    <2>13. CASE Auth!Reactivate(r)  BY <2>13, ReactivateStep
    <2>14. CASE Auth!LoseRequest(r) BY <2>14, LoseRequestStep
    <2> QED
        BY <1>3, <2>1, <2>2, <2>3, <2>4, <2>5, <2>6, <2>7, <2>8, <2>9, <2>10, <2>11, <2>12,
           <2>13, <2>14 DEF Auth!Step
<1>4. CASE Auth!Tick
    BY <1>1, <1>4, TickStep
<1> QED
    BY <1>1, <1>2, <1>3, <1>4 DEF Auth!Next

LEMMA Always == ASSUME Auth!SessionAssumption PROVE Auth!Spec => []IInv
<1>1. Auth!Init => IInv
    BY Starts
<1>2. IInv /\ [Auth!Next]_Auth!vars => IInv'
    BY Inductive
<1> QED
    BY <1>1, <1>2, PTL DEF Auth!Spec

-----------------------------------------------------------------------------
(* Sessions: the theorems.                                                   *)

\* Types; tokens are of the past, and the stored one is one that a client has.
THEOREM SessionTypes == ASSUME Auth!SessionAssumption PROVE Auth!Spec => []Auth!TypeOK
<1>1. IInv => Auth!TypeOK
    BY DEF IInv
<1> QED
    BY <1>1, Always, PTL

\* A refresh token that was replaced gets nobody in, and after a log-out that nothing raced
\* there is no session until somebody signs in (auth.service.ts 77-85, 118-130).
THEOREM SessionsStayOver == ASSUME Auth!SessionAssumption PROVE Auth!Spec => []SessionsEnd
<1>1. IInv => SessionsEnd
    BY DEF IInv, RequestOK, StaleIsSpent, NobodySigns, SessionsEnd, Auth!SessionsEnd,
           Auth!StaleIsRefused, Auth!LogoutHolds, Auth!Accepted, Auth!At
<1> QED
    BY <1>1, Always, PTL

\* A request that starts after its user was deleted changes nothing of the user
\* (user-root-repository.ts 12-20 and 58-77).
LEMMA GoneUsersStay == ASSUME Auth!SessionAssumption PROVE Auth!Spec => []Auth!GoneIsRefused
<1>1. IInv => Auth!GoneIsRefused
    BY DEF IInv, RequestOK, GoneIsOver, Auth!GoneIsRefused, Auth!Accepted
<1> QED
    BY <1>1, Always, PTL

\* No step brings a tenant back when its window has been over for longer than a request
\* takes (auth.service.ts 100-107).
LEMMA OnlyInTime ==
    ASSUME Auth!SessionAssumption, IInv, [Auth!Next]_Auth!vars,
           deletedAt # Auth!Null, now > deletedAt + GracePeriod + MaxLatency
    PROVE  deletedAt' # Auth!Null
<1>1. SUFFICES ASSUME deletedAt' = Auth!Null PROVE FALSE
    OBVIOUS
<1>2. PICK r \in Clients : Auth!Reactivate(r)
    <2>1. deletedAt' # deletedAt /\ deletedAt' # now
        BY <1>1, Clock DEF Auth!Null
    <2> QED
        BY <2>1 DEF Auth!Next, Auth!Step, Auth!Receive, Auth!Authenticate, Auth!FindByEmail,
           Auth!FindSession, Auth!FindUser,
            Auth!FindTenant, Auth!Sign, Auth!WriteToken, Auth!Revoke, Auth!Clear,
            Auth!UpdateUser, Auth!Anonymize, Auth!SoftDelete,
            Auth!LoseRequest, Auth!Tick, Auth!vars
<1>3. Auth!At(r, "reactivating") /\ RequestOK(r)
    BY <1>2 DEF Auth!Reactivate, IInv
<1>4. sessionReq[r].since <= deletedAt + GracePeriod /\ now <= sessionReq[r].since + MaxLatency
    BY <1>3 DEF RequestOK, ReactivatesInTime, Young, Auth!At
<1>5. /\ sessionReq[r].since \in Nat /\ now \in Nat /\ deletedAt \in Nat
      /\ GracePeriod \in Nat /\ MaxLatency \in Nat
    BY RequestParts, Clock DEF Auth!SessionAssumption
<1> QED
    BY <1>4, <1>5

THEOREM DeletionIsFinal == ASSUME Auth!SessionAssumption PROVE Auth!Spec => WindowCloses
<1>1. IInv /\ [Auth!Next]_Auth!vars =>
        [deletedAt # Auth!Null /\ now > deletedAt + GracePeriod + MaxLatency
        => deletedAt' # Auth!Null]_Auth!vars
    BY OnlyInTime
<1> QED
    BY <1>1, Always, PTL DEF Auth!Spec, WindowCloses, Auth!WindowCloses

-----------------------------------------------------------------------------
(* Accounts.                                                                 *)

\* A request that met no other is the only one in flight.
UnracedIsAlone ==
    \A r \in Requests : r \in InFlight /\ r \notin raced => InFlight = {r}

\* What its look-up found free is free.
FoundFreeStaysFree ==
    \A r \in Requests :
        pc[r] \in {"tenant", "user"} /\ r \notin raced => ~EmailTaken(EmailOf[r])

\* Who registers, and nobody else, is to have a tenant, and has it before a user.
TenantFirst ==
    /\ \A r \in Requests : pc[r] = "tenant" => r \in Registrations
    /\ \A r \in Registrations : pc[r] \in {"user", "token"} => r \in tenants

\* Who has its token still to write has its user.
UserFirst == \A r \in Requests : pc[r] = "token" => users[r] # "none"

AccountInv ==
    /\ TypeOK /\ AloneNeverFails
    /\ UnracedIsAlone /\ FoundFreeStaysFree /\ TenantFirst /\ UserFirst

-----------------------------------------------------------------------------
(* Accounts: the inductive invariant.                                        *)

LEMMA AccountStarts ==
    ASSUME AccountsAssumption PROVE Init => AccountInv
BY DEF AccountsAssumption, Init, AccountInv, TypeOK,
       AloneNeverFails, UnracedIsAlone, FoundFreeStaysFree, TenantFirst, UserFirst,
       InFlight, PCs, Codes, UserStates

\* The e-mails that are taken when no user was added.
LEMMA NoneTaken ==
    ASSUME \A u \in Requests : users'[u] = "live" => users[u] = "live",
           NEW e, ~EmailTaken(e)
    PROVE  ~EmailTaken(e)'
BY DEF EmailTaken, LiveUsersOf

LEMMA TakeInStep ==
    ASSUME AccountsAssumption, AccountInv, NEW r \in Requests, Receive(r)
    PROVE  AccountInv'
<1>1. /\ TypeOK /\ pc[r] = "idle" /\ pc' = [pc EXCEPT ![r] = "email"]
      /\ UNCHANGED <<answer, tenants, users, faults>>
      /\ raced' = IF InFlight = {} THEN raced ELSE raced \cup InFlight \cup {r}
    BY DEF AccountInv, Receive, Goto
<1>2. \A q \in Requests : pc'[q] = IF q = r THEN "email" ELSE pc[q]
    BY <1>1 DEF TypeOK
<1>3. /\ InFlight' = InFlight \cup {r}
      /\ InFlight \subseteq Requests /\ raced \subseteq raced'
    BY <1>1, <1>2 DEF InFlight
<1>4. TypeOK'
    BY <1>1, <1>2, <1>3 DEF TypeOK, PCs
<1>5. AloneNeverFails'
    BY <1>1, <1>3 DEF AccountInv, AloneNeverFails
<1>6. UnracedIsAlone'
    BY <1>1, <1>3 DEF UnracedIsAlone
<1>7. FoundFreeStaysFree'
  <2>1. \A e : EmailTaken(e)' = EmailTaken(e)
    BY <1>1 DEF EmailTaken, LiveUsersOf
  <2> QED BY <1>2, <1>3, <2>1 DEF AccountInv, FoundFreeStaysFree
<1>8. TenantFirst' /\ UserFirst'
    BY <1>1, <1>2 DEF AccountInv, TenantFirst, UserFirst
<1> QED BY <1>4, <1>5, <1>6, <1>7, <1>8 DEF AccountInv

\* A request that is in flight goes on to its next statement.
LEMMA GoesOn ==
    ASSUME AccountsAssumption, AccountInv, NEW r \in InFlight,
           NEW next \in {"tenant", "user", "token"}, Goto(r, next),
           UNCHANGED <<raced, faults>>,
           tenants' \in SUBSET Registrations, tenants \subseteq tenants',
           users' \in [Requests -> UserStates],
           \A u \in Requests : users[u] # "none" => users'[u] # "none",
           \A u \in Registrations : users'[u] # "none" => u \in tenants',
           next = "tenant" => r \in Registrations,
           next \in {"tenant", "user"} /\ r \notin raced => ~EmailTaken(EmailOf[r])',
           r \in Registrations /\ next \in {"user", "token"} => r \in tenants',
           next = "token" => users'[r] # "none"
    PROVE  AccountInv'
<1>1. /\ TypeOK /\ r \in Requests /\ pc' = [pc EXCEPT ![r] = next] /\ answer' = answer
    BY DEF AccountInv, Goto, InFlight
<1>2. \A q \in Requests : pc'[q] = IF q = r THEN next ELSE pc[q]
    BY <1>1 DEF TypeOK
<1>3. InFlight' = InFlight
    BY <1>1, <1>2 DEF InFlight
<1>4. TypeOK'
  <2>1. pc' \in [Requests -> PCs] /\ answer' \in [Requests -> Codes]
    BY <1>1 DEF TypeOK, PCs
  <2>2. \A q \in Requests : answer'[q] # "none" <=> pc'[q] = "done"
    BY <1>1, <1>2 DEF TypeOK, InFlight
  <2> QED BY <1>1, <2>1, <2>2 DEF TypeOK
<1>5. AloneNeverFails'
    BY <1>1 DEF AccountInv, AloneNeverFails
<1>6. UnracedIsAlone'
    BY <1>3 DEF AccountInv, UnracedIsAlone
<1>7. FoundFreeStaysFree'
  <2>1. ASSUME NEW q \in Requests, pc'[q] \in {"tenant", "user"}, q \notin raced, q # r
        PROVE  FALSE
    BY <1>1, <1>2, <2>1 DEF AccountInv, UnracedIsAlone, InFlight
  <2> QED BY <1>2, <2>1 DEF FoundFreeStaysFree
<1>8. TenantFirst' /\ UserFirst'
    BY <1>1, <1>2 DEF AccountInv, TenantFirst, UserFirst
<1> QED BY <1>4, <1>5, <1>6, <1>7, <1>8 DEF AccountInv

\* A request is answered.
LEMMA IsAnswered ==
    ASSUME AccountsAssumption, AccountInv, NEW r \in InFlight,
           NEW code \in Codes \ {"none"}, Answer(r, code),
           UNCHANGED <<raced, tenants>>, faults' \in Nat, faults' >= faults,
           users' \in [Requests -> UserStates],
           \A u \in Requests : users[u] # "none" => users'[u] # "none",
           \A u \in Registrations : users'[u] # "none" => u \in tenants,
           code = "created" => users'[r] # "none",
           code = "error" => r \in raced \/ faults' > 0
    PROVE  AccountInv'
<1>1. /\ TypeOK /\ r \in Requests /\ pc' = [pc EXCEPT ![r] = "done"]
      /\ answer' = [answer EXCEPT ![r] = code]
    BY DEF AccountInv, Answer, InFlight
<1>2. \A q \in Requests : /\ pc'[q] = IF q = r THEN "done" ELSE pc[q]
                          /\ answer'[q] = IF q = r THEN code ELSE answer[q]
    BY <1>1 DEF TypeOK
<1>3. InFlight' = InFlight \ {r}
    BY <1>1, <1>2 DEF InFlight
<1>4. TypeOK'
  <2>1. pc' \in [Requests -> PCs] /\ answer' \in [Requests -> Codes]
    BY <1>1 DEF TypeOK, PCs
  <2>2. \A q \in Requests : answer'[q] # "none" <=> pc'[q] = "done"
    BY <1>1, <1>2 DEF TypeOK
  <2>3. \A q \in Requests : answer'[q] = "created" => users'[q] # "none"
    BY <1>1, <1>2 DEF TypeOK
  <2> QED BY <1>1, <2>1, <2>2, <2>3 DEF TypeOK
<1>5. AloneNeverFails'
  <2>1. faults \in Nat
    BY <1>1 DEF TypeOK
  <2> QED BY <1>2, <2>1 DEF AccountInv, AloneNeverFails
<1>6. UnracedIsAlone'
    BY <1>3 DEF AccountInv, UnracedIsAlone
<1>7. FoundFreeStaysFree'
  <2>1. ASSUME NEW q \in Requests, pc'[q] \in {"tenant", "user"}, q \notin raced PROVE FALSE
    BY <1>1, <1>2, <2>1 DEF AccountInv, UnracedIsAlone, InFlight
  <2> QED BY <2>1 DEF FoundFreeStaysFree
<1>8. TenantFirst' /\ UserFirst'
    BY <1>1, <1>2 DEF AccountInv, TenantFirst, UserFirst
<1> QED BY <1>4, <1>5, <1>6, <1>7, <1>8 DEF AccountInv

LEMMA LookUpStep ==
    ASSUME AccountsAssumption, AccountInv, NEW r \in Requests, FindByEmail(r)
    PROVE  AccountInv'
<1>1. /\ TypeOK /\ r \in InFlight /\ UNCHANGED <<tenants, users, raced, faults>>
    BY DEF AccountInv, FindByEmail, InFlight
<1>2. faults \in Nat /\ \A u \in Registrations : users[u] # "none" => u \in tenants
    BY <1>1 DEF TypeOK
<1>3. CASE Answer(r, "conflict")
    BY <1>1, <1>2, <1>3, IsAnswered DEF TypeOK, Codes
<1>4. ASSUME NEW next \in {"tenant", "user"}, Goto(r, next),
             LiveUsersOf(EmailOf[r]) = {},
             next = "tenant" <=> r \in Registrations
      PROVE  AccountInv'
  <2>1. ~EmailTaken(EmailOf[r])'
    BY <1>1, <1>4 DEF EmailTaken, LiveUsersOf
  <2> QED BY <1>1, <1>2, <1>4, <2>1, GoesOn DEF TypeOK
<1> QED BY <1>3, <1>4 DEF FindByEmail

LEMMA CreateTenantStep ==
    ASSUME AccountsAssumption, AccountInv, NEW r \in Requests, CreateTenant(r)
    PROVE  AccountInv'
<1>1. /\ TypeOK /\ r \in Registrations /\ r \in InFlight /\ pc[r] = "tenant"
      /\ UNCHANGED <<users, raced, faults>>
      /\ tenants' = tenants \cup {r} /\ Goto(r, "user")
    BY DEF AccountInv, CreateTenant, InFlight, TenantFirst
<1>2. r \notin raced => ~EmailTaken(EmailOf[r])'
    BY <1>1 DEF AccountInv, FoundFreeStaysFree, EmailTaken, LiveUsersOf
<1> QED BY <1>1, <1>2, GoesOn DEF TypeOK

\* The INSERT meets the unique constraint only when another request was in flight.
LEMMA CreateUserStep ==
    ASSUME AccountsAssumption, AccountInv, NEW r \in Requests, CreateUser(r)
    PROVE  AccountInv'
<1>1. /\ TypeOK /\ r \in InFlight /\ pc[r] = "user"
      /\ UNCHANGED <<tenants, raced, faults>>
      /\ faults \in Nat
    BY DEF AccountInv, CreateUser, InFlight, TypeOK
<1>2. CASE EmailTaken(EmailOf[r]) /\ Answer(r, "error") /\ UNCHANGED users
  <2>1. r \in raced
    BY <1>1, <1>2 DEF AccountInv, FoundFreeStaysFree
  <2> QED BY <1>1, <1>2, <2>1, IsAnswered DEF TypeOK, Codes
<1>3. CASE /\ users' = [users EXCEPT ![r] = "live"]
           /\ IF r \in Registrations THEN Goto(r, "token")
              ELSE Answer(r, "created")
  <2>1. /\ users' \in [Requests -> UserStates]
        /\ \A u \in Requests : users'[u] = IF u = r THEN "live" ELSE users[u]
    BY <1>1, <1>3 DEF TypeOK, UserStates
  <2>2. r \in Registrations => r \in tenants
    BY <1>1 DEF AccountInv, TenantFirst
  <2>3. \A u \in Registrations : users'[u] # "none" => u \in tenants
    BY <1>1, <2>1, <2>2 DEF TypeOK, AccountsAssumption
  <2>4. tenants \in SUBSET Registrations
    BY <1>1 DEF TypeOK
  <2>5. CASE r \in Registrations
    BY <1>1, <1>3, <2>1, <2>2, <2>3, <2>4, <2>5, GoesOn
  <2>6. CASE r \notin Registrations
    BY <1>1, <1>3, <2>1, <2>3, <2>6, IsAnswered DEF Codes
  <2> QED BY <2>5, <2>6
<1> QED BY <1>2, <1>3 DEF CreateUser

LEMMA FirstTokenStep ==
    ASSUME AccountsAssumption, AccountInv, NEW r \in Requests, WriteToken(r)
    PROVE  AccountInv'
<1>1. /\ TypeOK /\ r \in InFlight
      /\ Answer(r, "created") /\ users[r] # "none"
      /\ UNCHANGED <<tenants, users, raced, faults>> /\ faults \in Nat
    BY DEF AccountInv, WriteToken, InFlight, TypeOK, UserFirst
<1> QED BY <1>1, IsAnswered DEF TypeOK, Codes

LEMMA DbErrorStep ==
    ASSUME AccountsAssumption, AccountInv, DbError
    PROVE  AccountInv'
<1>1. PICK r \in InFlight : Answer(r, "error")
    BY DEF DbError
<1>2. /\ TypeOK /\ UNCHANGED <<tenants, users, raced>>
      /\ faults' \in Nat /\ faults' >= faults /\ faults' > 0
    BY DEF AccountInv, TypeOK, DbError
<1> QED BY <1>1, <1>2, IsAnswered DEF TypeOK, Codes

\* An e-mail may become free.
LEMMA FreesEmailStep ==
    ASSUME AccountsAssumption, AccountInv, NEW u \in Requests, Anonymize(u)
    PROVE  AccountInv'
<1>1. /\ TypeOK /\ UNCHANGED <<pc, answer, tenants, raced, faults>>
      /\ users[u] = "live" /\ users' = [users EXCEPT ![u] = "deleted"]
    BY DEF AccountInv, Anonymize
<1>2. \A q \in Requests : users'[q] = IF q = u THEN "deleted" ELSE users[q]
    BY <1>1 DEF TypeOK
<1>3. TypeOK'
  <2>1. users' \in [Requests -> UserStates]
    BY <1>1 DEF TypeOK, UserStates
  <2>2. \A q \in Requests : users'[q] = "none" <=> users[q] = "none"
    BY <1>1, <1>2
  <2> QED BY <1>1, <2>1, <2>2 DEF TypeOK
<1>4. FoundFreeStaysFree'
  <2>1. \A q \in Requests : users'[q] = "live" => users[q] = "live"
    BY <1>2
  <2> QED BY <1>1, <2>1, NoneTaken DEF AccountInv, FoundFreeStaysFree
<1>5. UserFirst'
    BY <1>1, <1>2 DEF AccountInv, UserFirst
<1> QED
    BY <1>1, <1>3, <1>4, <1>5
    DEF AccountInv, AloneNeverFails, UnracedIsAlone, TenantFirst, InFlight

LEMMA ApiCrashStep ==
    ASSUME AccountsAssumption, AccountInv, ApiCrash
    PROVE  AccountInv'
<1>1. /\ TypeOK /\ UNCHANGED <<tenants, users, raced>>
      /\ faults' \in Nat /\ faults' > 0
      /\ pc' = [r \in Requests |-> IF r \in InFlight THEN "done" ELSE pc[r]]
      /\ answer' = [r \in Requests |-> IF r \in InFlight THEN "lost" ELSE answer[r]]
    BY DEF AccountInv, TypeOK, ApiCrash
<1>2. \A q \in Requests : pc'[q] \in {"idle", "done"}
    BY <1>1 DEF InFlight
<1>3. TypeOK'
  <2>1. pc' \in [Requests -> PCs] /\ answer' \in [Requests -> Codes]
    BY <1>1 DEF TypeOK, PCs, Codes
  <2>2. \A q \in Requests : answer'[q] # "none" <=> pc'[q] = "done"
    BY <1>1 DEF TypeOK
  <2>3. \A q \in Requests : answer'[q] = "created" => users'[q] # "none"
    BY <1>1 DEF TypeOK
  <2> QED BY <1>1, <2>1, <2>2, <2>3 DEF TypeOK
<1>4. InFlight' = {}
    BY <1>2 DEF InFlight
<1> QED
    BY <1>1, <1>2, <1>3, <1>4
    DEF AccountInv, AccountsAssumption, AloneNeverFails, UnracedIsAlone,
        FoundFreeStaysFree, TenantFirst, UserFirst

LEMMA AccountSteps ==
    ASSUME AccountsAssumption
    PROVE  AccountInv /\ [Next]_vars => AccountInv'
<1> SUFFICES ASSUME AccountInv, [Next]_vars PROVE AccountInv'
    OBVIOUS
<1>1. CASE UNCHANGED vars
    BY <1>1
    DEF vars, AccountInv, TypeOK, AloneNeverFails, UnracedIsAlone,
        FoundFreeStaysFree, TenantFirst, UserFirst, InFlight, EmailTaken,
        LiveUsersOf
<1>2. ASSUME NEW r \in Requests, Step(r) PROVE AccountInv'
    BY <1>2, TakeInStep, LookUpStep, CreateTenantStep, CreateUserStep, FirstTokenStep
       DEF Step
<1> QED
    BY <1>1, <1>2, FreesEmailStep, DbErrorStep, ApiCrashStep DEF Next

LEMMA AccountHolds ==
    ASSUME AccountsAssumption PROVE Spec => []AccountInv
BY AccountStarts, AccountSteps, PTL DEF Spec

-----------------------------------------------------------------------------
(* Accounts: the theorems.                                                   *)

\* Types; whoever registered has a tenant, and whoever was told 201 has a user.
THEOREM AccountTypes ==
    ASSUME AccountsAssumption PROVE Spec => []TypeOK
BY AccountHolds, PTL DEF AccountInv

\* Without a race and without a fault nobody is answered 500, for any number of requests
\* and e-mails (auth.service.ts, user.service.ts).
THEOREM NobodyFailsAlone ==
    ASSUME AccountsAssumption PROVE Spec => []AloneNeverFails
BY AccountHolds, PTL DEF AccountInv

-----------------------------------------------------------------------------
(* The registry: the inductive invariant.                                    *)

\* A create has a row of its own, which nobody inserts before it does, and a topic to insert
\* a child under.
CreateOK(r) ==
    LET q == registryReq[r] IN
    q.op = "create" /\ q.pc # "none" =>
        /\ q.row \in Kept!Entities /\ state[q.row] = "none"
        /\ q.pc \in {"finding", "naming", "inserting"}
        /\ q.pc = "finding" => q.row \in Children
        /\ q.pc = "naming" => q.row \notin Children
        /\ q.row \in Topics => q.newName \in Names
        /\ q.row \in Children =>
              q.parent \in Topics /\ (q.pc = "inserting" => state[q.parent] # "none")

\* The config that an update is going to write is what the topic has, with the update's
\* fields in place: of a topic that is updated by no other request.
UpdateOK(r) ==
    LET q == registryReq[r] IN
    q.op = "update" =>
        /\ q.row \in Topics \cup Children
        /\ q.pc \in {"finding", "naming", "updating"}
        /\ q.pc # "finding" => state[q.row] # "none"
        /\ q.row \in Topics \ torn /\ q.pc # "finding" =>
              q.merged = IF q.set = Kept!NoFields THEN Kept!NoFields
              ELSE Kept!Merge(config[q.row], q.set)

\* Nothing to update, delete or use is found when the row was gone before.
GoneOK(r) ==
    LET q == registryReq[r] IN
    /\ q.op = "delete" =>
          q.row \in Kept!Entities /\ q.pc \in {"finding", "deleting"}
          /\ (q.pc = "deleting" => state[q.row] # "none")
    /\ q.op = "produce" => q.pc \in {"finding", "serving"}
    /\ q.gone =>
          /\ q.op # "create" /\ q.pc = "finding"
          /\ q.row \in Kept!Entities /\ state[q.row] = "deleted"

CallOK(r) == CreateOK(r) /\ UpdateOK(r) /\ GoneOK(r)

RowsApart ==
    \A r, q \in Clients : r # q =>
        /\ registryReq[r].op = "create" /\ registryReq[q].op = "create"
           /\ registryReq[r].pc # "none" /\ registryReq[q].pc # "none"
              => registryReq[r].row # registryReq[q].row
        /\ registryReq[r].op = "update" /\ registryReq[q].op = "update"
           /\ registryReq[r].row = registryReq[q].row
           /\ registryReq[r].row \in Topics => registryReq[r].row \in torn

RegistryInv ==
    /\ Kept!TypeOK /\ Kept!UpdatesAddUp /\ RowsApart
    /\ \A r \in Clients : CallOK(r)

-----------------------------------------------------------------------------
(* The registry: lemmas.                                                     *)

ColumnTypes ==
    /\ state \in [Kept!Entities -> Kept!States]
    /\ name \in [Topics -> Names \cup {NoName}]
    /\ config \in [Topics -> Kept!Partial]
    /\ \A t \in Topics : state[t] # "none" =>
            name[t] # NoName /\ \A f \in Fields : config[t][f] # Unset
    /\ topicOf \in [Children -> Topics \cup {NoTopic}]
    /\ \A c \in Children : state[c] # "none" => topicOf[c] # NoTopic
       /\ state[topicOf[c]] # "none"
    /\ url \subseteq Children \ Pull
    /\ paused \subseteq Children
    /\ asked \in [Topics -> Kept!Partial]
    /\ torn \subseteq Topics

KeptRequestTypes == registryReq \in [Clients -> Kept!RequestRecords]

LEMMA RegistryTypesApart ==
    /\ Kept!TypeOK <=> ColumnTypes /\ KeptRequestTypes
    /\ Kept!TypeOK' <=> ColumnTypes' /\ KeptRequestTypes'
BY DEF Kept!TypeOK, ColumnTypes, KeptRequestTypes

LEMMA NoRequestIsOne == Kept!NoRequest \in Kept!RequestRecords
BY DEF Kept!NoRequest, Kept!RequestRecords, Kept!Ops, Kept!PCs, Kept!NoFields, Kept!Partial

LEMMA RegistryStarts == ASSUME Kept!RegistryAssumption PROVE Kept!Init => RegistryInv
<1>1. SUFFICES ASSUME Kept!Init PROVE RegistryInv
    OBVIOUS
<1>2. ColumnTypes
    BY <1>1 DEF Kept!Init, ColumnTypes, Kept!Entities, Kept!States, Kept!Partial, Kept!NoFields
<1>3. KeptRequestTypes
    BY <1>1, NoRequestIsOne DEF Kept!Init, KeptRequestTypes
<1>4. Kept!UpdatesAddUp
    BY <1>1 DEF Kept!Init, Kept!UpdatesAddUp
<1>5. RowsApart /\ \A r \in Clients : CallOK(r)
    BY <1>1 DEF Kept!Init, RowsApart, CallOK, CreateOK, UpdateOK, GoneOK, Kept!NoRequest
<1> QED
    BY <1>2, <1>3, <1>4, <1>5, RegistryTypesApart DEF RegistryInv

LEMMA KeptRequestFields ==
    ASSUME RegistryInv, NEW r \in Clients
    PROVE  /\ registryReq[r] \in Kept!RequestRecords
           /\ registryReq[r].op \in Kept!Ops /\ registryReq[r].pc \in Kept!PCs
           /\ registryReq[r].row \in Kept!Entities \cup {NoTopic}
              /\ registryReq[r].parent \in Topics \cup {NoTopic}
           /\ registryReq[r].newName \in Names \cup {NoName}
           /\ registryReq[r].set \in Kept!Partial /\ registryReq[r].merged \in Kept!Partial
              /\ registryReq[r].gone \in BOOLEAN
<1>1. registryReq[r] \in Kept!RequestRecords
    BY DEF RegistryInv, Kept!TypeOK
<1> QED
    BY <1>1 DEF Kept!RequestRecords

\* A merge is a config, and takes what is set.
LEMMA MergeIs ==
    ASSUME NEW stored \in Kept!Partial, NEW set \in Kept!Partial
    PROVE  /\ Kept!Merge(stored, set) \in Kept!Partial
           /\ \A f \in Fields :
                 Kept!Merge(stored, set)[f] = IF set[f] = Unset THEN stored[f] ELSE set[f]
           /\ Kept!Merge(stored, Kept!NoFields) = stored
<1>1. \A f \in Fields : stored[f] \in Values \cup {Unset} /\ set[f] \in Values \cup {Unset}
    BY DEF Kept!Partial
<1>2. Kept!Merge(stored, set) \in Kept!Partial
    BY <1>1 DEF Kept!Merge, Kept!Partial
<1>3. stored = [f \in Fields |-> stored[f]]
    BY DEF Kept!Partial
<1>4. Kept!Merge(stored, Kept!NoFields) = [f \in Fields |-> stored[f]]
    BY DEF Kept!Merge, Kept!NoFields
<1> QED
    BY <1>2, <1>3, <1>4 DEF Kept!Merge

LEMMA RegistryFinish ==
    ASSUME RegistryInv, NEW r \in Clients, Kept!Finish(r)
    PROVE  /\ registryReq'[r] = Kept!NoRequest
           /\ \A q \in Clients \ {r} : registryReq'[q] = registryReq[q]
           /\ KeptRequestTypes'
<1>1. registryReq \in [Clients -> Kept!RequestRecords]
    BY DEF RegistryInv, Kept!TypeOK
<1> QED
    BY <1>1, NoRequestIsOne DEF Kept!Finish, KeptRequestTypes

LEMMA RegistryGoto ==
    ASSUME RegistryInv, NEW r \in Clients, NEW to \in Kept!PCs, Kept!Goto(r, to)
    PROVE  /\ registryReq'[r].pc = to
           /\ registryReq'[r].op = registryReq[r].op /\ registryReq'[r].row = registryReq[r].row
           /\ registryReq'[r].parent = registryReq[r].parent
              /\ registryReq'[r].newName = registryReq[r].newName
           /\ registryReq'[r].set = registryReq[r].set
              /\ registryReq'[r].merged = registryReq[r].merged
           /\ registryReq'[r].gone = registryReq[r].gone
           /\ \A q \in Clients \ {r} : registryReq'[q] = registryReq[q]
           /\ KeptRequestTypes'
<1>1. registryReq \in [Clients -> Kept!RequestRecords]
    BY DEF RegistryInv, Kept!TypeOK
<1>2. registryReq[r] \in Kept!RequestRecords
    BY <1>1
<1>3. [registryReq[r] EXCEPT !.pc = to] \in Kept!RequestRecords
    BY <1>2 DEF Kept!RequestRecords
<1>4. /\ registryReq'[r] = [registryReq[r] EXCEPT !.pc = to]
      /\ \A q \in Clients \ {r} : registryReq'[q] = registryReq[q]
      /\ registryReq' \in [Clients -> Kept!RequestRecords]
    BY <1>1, <1>3 DEF Kept!Goto
<1> QED
    BY <1>2, <1>4 DEF Kept!RequestRecords, KeptRequestTypes

\* What a step of r may do to the rows: insert the row it creates, delete one that is there,
\* change the config of a topic it creates or updates.
RowEffects(r) ==
    /\ \A x \in Kept!Entities :
          \/ state'[x] = state[x]
          \/ /\ registryReq[r].op = "create" /\ registryReq[r].pc # "none"
                /\ x = registryReq[r].row
             /\ state'[x] = "live"
          \/ state[x] # "none" /\ state'[x] = "deleted"
    /\ \A t \in Topics :
          \/ config'[t] = config[t]
          \/ registryReq[r].op \in {"create", "update"} /\ registryReq[r].pc # "none"
             /\ t = registryReq[r].row
    /\ torn \subseteq torn'

\* A row that was there is there, one that was deleted is deleted.
LEMMA RowsStay ==
    ASSUME RegistryInv, NEW r \in Clients, RowEffects(r), NEW x \in Kept!Entities
    PROVE  /\ state[x] # "none" => state'[x] # "none"
           /\ state[x] = "deleted" => state'[x] = "deleted"
<1>1. CreateOK(r)
    BY DEF RegistryInv, CallOK
<1> QED
    BY <1>1 DEF RowEffects, CreateOK

LEMMA OthersCallOK ==
    ASSUME RegistryInv, NEW r \in Clients, NEW q \in Clients \ {r}, RowEffects(r),
           registryReq'[q] = registryReq[q]
    PROVE  CallOK(q)'
<1>1. CreateOK(q) /\ UpdateOK(q) /\ GoneOK(q) /\ CreateOK(r) /\ UpdateOK(r)
    BY DEF RegistryInv, CallOK
<1>2. Topics \subseteq Kept!Entities /\ Children \subseteq Kept!Entities
    BY DEF Kept!Entities
<1>3. CreateOK(q)'
    <2>1. SUFFICES ASSUME registryReq[q].op = "create", registryReq[q].pc # "none"
                   PROVE  /\ state'[registryReq[q].row] = "none"
                          /\ registryReq[q].row \in Children /\ registryReq[q].pc = "inserting"
                                        => state'[registryReq[q].parent] # "none"
        BY <1>1 DEF CreateOK
    <2>2. registryReq[q].row \in Kept!Entities /\ state[registryReq[q].row] = "none"
        BY <1>1, <2>1 DEF CreateOK
    <2>3. registryReq[r].op = "create" /\ registryReq[r].pc # "none"
          => registryReq[r].row # registryReq[q].row
        BY <2>1 DEF RegistryInv, RowsApart
    <2>4. state'[registryReq[q].row] = "none"
        BY <2>2, <2>3 DEF RowEffects
    <2>5. registryReq[q].row \in Children /\ registryReq[q].pc = "inserting"
            => registryReq[q].parent \in Topics /\ state[registryReq[q].parent] # "none"
        BY <1>1, <2>1 DEF CreateOK
    <2> QED
        BY <1>2, <2>4, <2>5, RowsStay
<1>4. UpdateOK(q)'
    <2>1. SUFFICES ASSUME registryReq[q].op = "update"
                   PROVE  /\ registryReq[q].pc # "finding"
                             => state'[registryReq[q].row] # "none"
                          /\ registryReq[q].row \in Topics \ torn'
                             /\ registryReq[q].pc # "finding" =>
                                        /\ registryReq[q].row \in Topics \ torn
                                        /\ config'[registryReq[q].row]
                                           = config[registryReq[q].row]
        BY <1>1 DEF UpdateOK
    <2>2. registryReq[q].row \in Topics \cup Children
          /\ (registryReq[q].pc # "finding" => state[registryReq[q].row] # "none")
        BY <1>1, <2>1 DEF UpdateOK
    <2>3. registryReq[q].pc # "finding" => state'[registryReq[q].row] # "none"
        BY <1>2, <2>2, RowsStay
    <2>4. ASSUME registryReq[q].row \in Topics \ torn', registryReq[q].pc # "finding"
          PROVE  /\ registryReq[q].row \in Topics \ torn
                 /\ config'[registryReq[q].row] = config[registryReq[q].row]
        <3>1. registryReq[q].row \notin torn
            BY <2>4 DEF RowEffects
        <3>2. ~(registryReq[r].op = "update" /\ registryReq[r].row = registryReq[q].row)
            BY <2>1, <2>4, <3>1 DEF RegistryInv, RowsApart
        <3>3. ~(registryReq[r].op = "create" /\ registryReq[r].pc # "none"
              /\ registryReq[r].row = registryReq[q].row)
            BY <1>1, <2>2, <2>4 DEF CreateOK
        <3> QED
            BY <2>4, <3>1, <3>2, <3>3 DEF RowEffects
    <2> QED
        BY <2>3, <2>4
<1>5. GoneOK(q)'
    <2>1. /\ registryReq[q].op = "delete" =>
                        registryReq[q].row \in Kept!Entities
                        /\ registryReq[q].pc \in {"finding", "deleting"}
                        /\ (registryReq[q].pc = "deleting"
                           => state[registryReq[q].row] # "none")
          /\ registryReq[q].op = "produce" => registryReq[q].pc \in {"finding", "serving"}
          /\ registryReq[q].gone =>
                        /\ registryReq[q].op # "create" /\ registryReq[q].pc = "finding"
                        /\ registryReq[q].row \in Kept!Entities
                           /\ state[registryReq[q].row] = "deleted"
        BY <1>1 DEF GoneOK
    <2>2. registryReq[q].row \in Kept!Entities =>
            /\ state[registryReq[q].row] # "none" => state'[registryReq[q].row] # "none"
            /\ state[registryReq[q].row] = "deleted" => state'[registryReq[q].row] = "deleted"
        BY RowsStay
    <2> QED
        BY <2>1, <2>2 DEF GoneOK
<1> QED
    BY <1>3, <1>4, <1>5 DEF CallOK

\* A request is over, after its last statement or without it.
LEMMA RegistryFinishStep ==
    ASSUME RegistryInv, NEW r \in Clients, Kept!Finish(r), RowEffects(r), ColumnTypes',
           Kept!UpdatesAddUp'
    PROVE  RegistryInv'
<1>1. /\ registryReq'[r] = Kept!NoRequest
      /\ \A q \in Clients \ {r} : registryReq'[q] = registryReq[q]
      /\ KeptRequestTypes'
    BY RegistryFinish
<1>2. CallOK(r)'
    BY <1>1 DEF CallOK, CreateOK, UpdateOK, GoneOK, Kept!NoRequest
<1>3. \A q \in Clients : CallOK(q)'
    BY <1>1, <1>2, OthersCallOK
<1>4. torn \subseteq torn'
    BY DEF RowEffects
<1>5. RowsApart'
    BY <1>1, <1>4 DEF RegistryInv, RowsApart, Kept!NoRequest
<1> QED
    BY <1>1, <1>3, <1>5, RegistryTypesApart DEF RegistryInv

\* A statement that reads, and lets the request go on as the one it was.
LEMMA KeptReadStep ==
    ASSUME RegistryInv, NEW r \in Clients, UNCHANGED <<Kept!columns, Kept!history>>,
           KeptRequestTypes',
           registryReq[r].pc # "none", registryReq'[r].op = registryReq[r].op,
           registryReq'[r].row = registryReq[r].row,
           \A q \in Clients \ {r} : registryReq'[q] = registryReq[q],
           CallOK(r)'
    PROVE  RegistryInv'
<1>1. ColumnTypes' /\ Kept!UpdatesAddUp'
    BY RegistryTypesApart
       DEF RegistryInv, Kept!UpdatesAddUp, ColumnTypes, Kept!columns, Kept!history
<1>2. RowEffects(r)
    BY DEF RowEffects, Kept!columns, Kept!history
<1>3. \A q \in Clients : CallOK(q)'
    BY <1>2, OthersCallOK
<1>4. RowsApart'
    BY DEF RegistryInv, RowsApart, Kept!history
<1> QED
    BY <1>1, <1>3, <1>4, RegistryTypesApart DEF RegistryInv

LEMMA KeptReadFinish ==
    ASSUME RegistryInv, NEW r \in Clients, UNCHANGED <<Kept!columns, Kept!history>>,
           Kept!Finish(r)
    PROVE  RegistryInv'
<1>1. ColumnTypes' /\ Kept!UpdatesAddUp'
    BY RegistryTypesApart
       DEF RegistryInv, Kept!UpdatesAddUp, ColumnTypes, Kept!columns, Kept!history
<1>2. RowEffects(r)
    BY DEF RowEffects, Kept!columns, Kept!history
<1> QED
    BY <1>1, <1>2, RegistryFinishStep

\* A request starts.
LEMMA RegistryReceiveStep ==
    ASSUME RegistryInv, NEW r \in Clients, NEW request \in Kept!RequestRecords,
           Kept!Receive(r, request),
           request.pc # "none",
           request.op = "create" =>
                /\ request.row \in Kept!Entities /\ Kept!Fresh(request.row) /\ ~request.gone
                /\ request.pc \in {"finding", "naming", "inserting"}
                /\ request.pc = "finding" => request.row \in Children
                /\ request.row \in Topics => request.newName \in Names
                /\ request.row \in Children => request.parent \in Topics
                   /\ request.pc = "finding",
           request.op # "create" =>
                /\ request.pc = "finding" /\ request.row \in Kept!Entities
                /\ request.gone => state[request.row] = "deleted",
           request.op = "update" => request.row \in Topics \cup Children
    PROVE  RegistryInv'
<1>1. /\ registryReq' = [registryReq EXCEPT ![r] = request] /\ registryReq[r].pc = "none"
      /\ torn' = torn \cup
            {t \in Topics : request.op = "update" /\ request.row = t
                            /\ \E q \in Clients : registryReq[q].op = "update"
                               /\ registryReq[q].row = t}
      /\ UNCHANGED <<Kept!columns, asked>>
    BY DEF Kept!Receive
<1>2. registryReq \in [Clients -> Kept!RequestRecords]
    BY DEF RegistryInv, Kept!TypeOK
<1>3. /\ registryReq'[r] = request /\ \A q \in Clients \ {r} : registryReq'[q] = registryReq[q]
      /\ KeptRequestTypes'
    BY <1>1, <1>2 DEF KeptRequestTypes
<1>4. torn \subseteq torn' /\ torn' \subseteq Topics
    BY <1>1 DEF RegistryInv, Kept!TypeOK
<1>5. ColumnTypes' /\ Kept!UpdatesAddUp'
    BY <1>1, <1>4, RegistryTypesApart
       DEF RegistryInv, Kept!UpdatesAddUp, ColumnTypes, Kept!columns
<1>6. RowEffects(r)
    BY <1>1, <1>4 DEF RowEffects, Kept!columns
<1>7. CallOK(r)'
    <2>1. UNCHANGED state
        BY <1>1 DEF Kept!columns
    <2>2. CreateOK(r)'
        BY <1>3, <2>1 DEF CreateOK, Kept!Fresh
    <2>3. UpdateOK(r)'
        BY <1>3, <2>1 DEF UpdateOK
    <2>4. GoneOK(r)'
        BY <1>3, <2>1 DEF GoneOK
    <2> QED
        BY <2>2, <2>3, <2>4 DEF CallOK
<1>8. \A q \in Clients : CallOK(q)'
    BY <1>3, <1>6, <1>7, OthersCallOK
<1>9. RowsApart'
    <2>1. ASSUME NEW p \in Clients, NEW q \in Clients, p # q,
                 registryReq'[p].op = "create", registryReq'[q].op = "create",
                 registryReq'[p].pc # "none", registryReq'[q].pc # "none"
          PROVE  registryReq'[p].row # registryReq'[q].row
        BY <1>3, <2>1 DEF RegistryInv, RowsApart, Kept!Fresh
    <2>2. ASSUME NEW p \in Clients, NEW q \in Clients, p # q,
                 registryReq'[p].op = "update", registryReq'[q].op = "update",
                 registryReq'[p].row = registryReq'[q].row, registryReq'[p].row \in Topics
          PROVE  registryReq'[p].row \in torn'
        <3>1. CASE p = r
            BY <1>1, <1>3, <2>2, <3>1
        <3>2. CASE q = r
            BY <1>1, <1>3, <2>2, <3>2
        <3>3. CASE p # r /\ q # r
            BY <1>3, <1>4, <2>2, <3>3 DEF RegistryInv, RowsApart
        <3> QED
            BY <3>1, <3>2, <3>3
    <2> QED
        BY <2>1, <2>2 DEF RowsApart
<1> QED
    BY <1>3, <1>5, <1>8, <1>9, RegistryTypesApart DEF RegistryInv

\* The bodies of the requests are records, whatever they ask for.
LEMMA KeptStartStep ==
    ASSUME Kept!RegistryAssumption, RegistryInv, NEW r \in Clients, Kept!Start(r)
    PROVE  RegistryInv'
<1>1. /\ Kept!NoRequest \in Kept!RequestRecords
      /\ Topics \subseteq Kept!Entities /\ Children \subseteq Kept!Entities
         /\ ApiKeys \subseteq Kept!Entities
      /\ Topics \cap Children = {} /\ Topics \cap ApiKeys = {} /\ Children \cap ApiKeys = {}
    BY NoRequestIsOne DEF Kept!Entities, Kept!RegistryAssumption
<1>2. ASSUME NEW t \in Topics, NEW n \in Names, NEW set \in Kept!Partial,
             Kept!CreateTopic(r, t, n, set)
      PROVE  RegistryInv'
    <2> DEFINE new == [Kept!NoRequest EXCEPT !.pc = "naming", !.row = t, !.newName = n,
                      !.set = set]
    <2>1. new \in Kept!RequestRecords
        BY <1>1 DEF Kept!RequestRecords, Kept!PCs
    <2>2. /\ new.op = "create" /\ new.pc = "naming" /\ new.row = t /\ new.newName = n
          /\ ~new.gone
        BY DEF Kept!NoRequest
    <2>3. Kept!Receive(r, new) /\ Kept!Fresh(t)
        BY <1>2 DEF Kept!CreateTopic
    <2> HIDE DEF new
    <2> QED
        BY <1>1, <2>1, <2>2, <2>3, RegistryReceiveStep
<1>3. ASSUME NEW c \in Children, NEW t \in Topics, Kept!CreateChild(r, c, t)
      PROVE  RegistryInv'
    <2> DEFINE new == [Kept!NoRequest EXCEPT !.pc = "finding", !.row = c, !.parent = t]
    <2>1. new \in Kept!RequestRecords
        BY <1>1 DEF Kept!RequestRecords, Kept!PCs
    <2>2. /\ new.op = "create" /\ new.pc = "finding" /\ new.row = c /\ new.parent = t
          /\ ~new.gone
        BY DEF Kept!NoRequest
    <2>3. Kept!Receive(r, new) /\ Kept!Fresh(c)
        BY <1>3 DEF Kept!CreateChild
    <2> HIDE DEF new
    <2> QED
        BY <1>1, <2>1, <2>2, <2>3, RegistryReceiveStep
<1>4. ASSUME NEW k \in ApiKeys, Kept!CreateApiKey(r, k)
      PROVE  RegistryInv'
    <2> DEFINE new == [Kept!NoRequest EXCEPT !.pc = "inserting", !.row = k]
    <2>1. new \in Kept!RequestRecords
        BY <1>1 DEF Kept!RequestRecords, Kept!PCs
    <2>2. new.op = "create" /\ new.pc = "inserting" /\ new.row = k /\ ~new.gone
        BY DEF Kept!NoRequest
    <2>3. Kept!Receive(r, new) /\ Kept!Fresh(k)
        BY <1>4 DEF Kept!CreateApiKey
    <2> HIDE DEF new
    <2> QED
        BY <1>1, <2>1, <2>2, <2>3, RegistryReceiveStep
<1>5. ASSUME NEW t \in Topics, NEW n \in Names \cup {NoName}, NEW set \in Kept!Partial,
             Kept!UpdateTopic(r, t, n, set)
      PROVE  RegistryInv'
    <2> DEFINE new == [Kept!NoRequest EXCEPT !.op = "update", !.pc = "finding", !.row = t,
                            !.newName = n, !.set = set, !.gone = state[t] = "deleted"]
    <2>1. new \in Kept!RequestRecords
        BY <1>1 DEF Kept!RequestRecords, Kept!PCs, Kept!Ops
    <2>2. /\ new.op = "update" /\ new.pc = "finding" /\ new.row = t
          /\ new.gone => state[t] = "deleted"
        BY DEF Kept!NoRequest
    <2>3. Kept!Receive(r, new)
        BY <1>5 DEF Kept!UpdateTopic
    <2> HIDE DEF new
    <2> QED
        BY <1>1, <2>1, <2>2, <2>3, RegistryReceiveStep
<1>6. ASSUME NEW c \in Children, Kept!UpdateChild(r, c)
      PROVE  RegistryInv'
    <2> DEFINE new == [Kept!NoRequest EXCEPT !.op = "update", !.pc = "finding", !.row = c,
                            !.gone = state[c] = "deleted"]
    <2>1. new \in Kept!RequestRecords
        BY <1>1 DEF Kept!RequestRecords, Kept!PCs, Kept!Ops
    <2>2. /\ new.op = "update" /\ new.pc = "finding" /\ new.row = c
          /\ new.gone => state[c] = "deleted"
        BY DEF Kept!NoRequest
    <2>3. Kept!Receive(r, new)
        BY <1>6 DEF Kept!UpdateChild
    <2> HIDE DEF new
    <2> QED
        BY <1>1, <2>1, <2>2, <2>3, RegistryReceiveStep
<1>7. ASSUME NEW row \in Kept!Entities, Kept!Delete(r, row)
      PROVE  RegistryInv'
    <2> DEFINE new == [Kept!NoRequest EXCEPT !.op = "delete", !.pc = "finding", !.row = row,
                            !.gone = state[row] = "deleted"]
    <2>1. new \in Kept!RequestRecords
        BY <1>1 DEF Kept!RequestRecords, Kept!PCs, Kept!Ops
    <2>2. /\ new.op = "delete" /\ new.pc = "finding" /\ new.row = row
          /\ new.gone => state[row] = "deleted"
        BY DEF Kept!NoRequest
    <2>3. Kept!Receive(r, new)
        BY <1>7 DEF Kept!Delete
    <2> HIDE DEF new
    <2> QED
        BY <1>1, <2>1, <2>2, <2>3, RegistryReceiveStep
<1>8. ASSUME NEW k \in ApiKeys, Kept!Produce(r, k)
      PROVE  RegistryInv'
    <2> DEFINE new == [Kept!NoRequest EXCEPT !.op = "produce", !.pc = "finding", !.row = k,
                            !.gone = state[k] = "deleted"]
    <2>1. new \in Kept!RequestRecords
        BY <1>1 DEF Kept!RequestRecords, Kept!PCs, Kept!Ops
    <2>2. /\ new.op = "produce" /\ new.pc = "finding" /\ new.row = k
          /\ new.gone => state[k] = "deleted"
        BY DEF Kept!NoRequest
    <2>3. Kept!Receive(r, new)
        BY <1>8 DEF Kept!Produce
    <2> HIDE DEF new
    <2> QED
        BY <1>1, <2>1, <2>2, <2>3, RegistryReceiveStep
<1> QED
    BY <1>2, <1>3, <1>4, <1>5, <1>6, <1>7, <1>8 DEF Kept!Start

-----------------------------------------------------------------------------
(* The registry: the statements.                                             *)

\* A statement that finds its row, or the parent, and goes on with what it found.
LEMMA RegistryGotoStep ==
    ASSUME RegistryInv, NEW r \in Clients, NEW to \in Kept!PCs, Kept!Goto(r, to),
           UNCHANGED <<Kept!columns, Kept!history>>, registryReq[r].pc # "none", CallOK(r)'
    PROVE  RegistryInv'
BY RegistryGoto, KeptReadStep

LEMMA FindParentStep ==
    ASSUME RegistryInv, NEW r \in Clients, Kept!FindParent(r)
    PROVE  RegistryInv'
<1>1. /\ registryReq[r].op = "create" /\ registryReq[r].pc = "finding"
         /\ UNCHANGED <<Kept!columns, Kept!history>>
    BY DEF Kept!FindParent, Kept!Is
<1>2. CASE Kept!Finish(r)
    BY <1>1, <1>2, KeptReadFinish
<1>3. CASE Kept!Goto(r, "inserting") /\ Kept!Found(registryReq[r].parent)
    <2>1. /\ registryReq'[r].pc = "inserting" /\ registryReq'[r].op = "create"
             /\ registryReq'[r].row = registryReq[r].row
          /\ registryReq'[r].parent = registryReq[r].parent
             /\ registryReq'[r].newName = registryReq[r].newName
          /\ registryReq'[r].gone = registryReq[r].gone
        BY <1>1, <1>3, RegistryGoto DEF Kept!PCs
    <2>2. CreateOK(r) /\ GoneOK(r) /\ UNCHANGED state
        BY <1>1 DEF RegistryInv, CallOK, Kept!columns
    <2>3. state[registryReq[r].parent] # "none"
        BY <1>3 DEF Kept!Found, Kept!Live
    <2>4. CallOK(r)'
        BY <1>1, <2>1, <2>2, <2>3 DEF CallOK, CreateOK, UpdateOK, GoneOK
    <2> QED
        BY <1>1, <1>3, <2>4, RegistryGotoStep DEF Kept!PCs
<1> QED
    BY <1>2, <1>3 DEF Kept!FindParent

LEMMA FindTopicStep ==
    ASSUME RegistryInv, NEW r \in Clients, Kept!FindTopic(r)
    PROVE  RegistryInv'
<1> DEFINE t == registryReq[r].row
           next == IF registryReq[r].newName \in {NoName, name[t]} THEN "updating" ELSE "naming"
           found == IF registryReq[r].set = Kept!NoFields THEN Kept!NoFields
           ELSE Kept!Merge(config[t], registryReq[r].set)
           new == [registryReq[r] EXCEPT !.merged = found, !.pc = next]
<1>1. /\ registryReq[r].op = "update" /\ registryReq[r].pc = "finding" /\ t \in Topics
      /\ UNCHANGED <<Kept!columns, Kept!history>>
      /\ \/ Kept!Finish(r)
         \/ Kept!Found(t)
            /\ registryReq' = [registryReq EXCEPT ![r].merged = found, ![r].pc = next]
    BY DEF Kept!FindTopic, Kept!Is
<1>2. CASE Kept!Finish(r)
    BY <1>1, <1>2, KeptReadFinish
<1>3. CASE Kept!Found(t)
           /\ registryReq' = [registryReq EXCEPT ![r].merged = found, ![r].pc = next]
    <2>1. registryReq \in [Clients -> Kept!RequestRecords]
          /\ registryReq[r] \in Kept!RequestRecords
        BY DEF RegistryInv, Kept!TypeOK
    <2>2. found \in Kept!Partial
        <3>1. config[t] \in Kept!Partial /\ registryReq[r].set \in Kept!Partial
            BY <1>1, KeptRequestFields DEF RegistryInv, Kept!TypeOK
        <3>2. Kept!NoFields \in Kept!Partial
            BY DEF Kept!NoFields, Kept!Partial
        <3> QED
            BY <3>1, <3>2, MergeIs
    <2>3. next \in Kept!PCs
        BY DEF Kept!PCs
    <2>4. new \in Kept!RequestRecords
        BY <2>1, <2>2, <2>3 DEF Kept!RequestRecords
    <2>5. registryReq' = [registryReq EXCEPT ![r] = new]
        BY <1>3, <2>1
    <2>6. /\ new.op = "update" /\ new.pc \in {"updating", "naming"} /\ new.row = t
          /\ new.set = registryReq[r].set /\ new.merged = found
             /\ new.gone = registryReq[r].gone
        BY <1>1, <2>1 DEF Kept!RequestRecords
    <2>7. state[t] = "live"
        BY <1>3 DEF Kept!Found, Kept!Live
    <2>8. UpdateOK(r) /\ GoneOK(r)
        BY DEF RegistryInv, CallOK
    <2>9. ~registryReq[r].gone
        BY <2>7, <2>8 DEF GoneOK
    <2>10. found = IF new.set = Kept!NoFields THEN Kept!NoFields
           ELSE Kept!Merge(config[t], new.set)
        BY <2>6
    <2> HIDE DEF new, found, next
    <2>11. /\ registryReq'[r] = new /\ \A q \in Clients \ {r} : registryReq'[q] = registryReq[q]
           /\ KeptRequestTypes'
        BY <2>1, <2>4, <2>5 DEF KeptRequestTypes
    <2>12. CallOK(r)'
        <3>1. UNCHANGED <<state, config, torn>>
            BY <1>1 DEF Kept!columns, Kept!history
        <3>2. CreateOK(r)' /\ GoneOK(r)'
            BY <2>6, <2>9, <2>11 DEF CreateOK, GoneOK
        <3>3. UpdateOK(r)'
            BY <1>1, <2>6, <2>7, <2>10, <2>11, <3>1 DEF UpdateOK
        <3> QED
            BY <3>2, <3>3 DEF CallOK
    <2> QED
        BY <1>1, <2>6, <2>11, <2>12, KeptReadStep
<1> QED
    BY <1>1, <1>2, <1>3

LEMMA FindChildStep ==
    ASSUME Kept!RegistryAssumption, RegistryInv, NEW r \in Clients, Kept!FindChild(r)
    PROVE  RegistryInv'
<1>1. /\ registryReq[r].op = "update" /\ registryReq[r].pc = "finding"
         /\ registryReq[r].row \in Children
      /\ UNCHANGED <<Kept!columns, Kept!history>>
    BY DEF Kept!FindChild, Kept!Is
<1>2. CASE Kept!Finish(r)
    BY <1>1, <1>2, KeptReadFinish
<1>3. CASE Kept!Goto(r, "updating") /\ Kept!Found(registryReq[r].row)
    <2>1. /\ registryReq'[r].pc = "updating" /\ registryReq'[r].op = "update"
             /\ registryReq'[r].row = registryReq[r].row
          /\ registryReq'[r].gone = registryReq[r].gone
        BY <1>1, <1>3, RegistryGoto DEF Kept!PCs
    <2>2. UpdateOK(r) /\ GoneOK(r) /\ UNCHANGED state
        BY <1>1 DEF RegistryInv, CallOK, Kept!columns
    <2>3. state[registryReq[r].row] = "live"
        BY <1>3 DEF Kept!Found, Kept!Live
    <2>4. CallOK(r)'
        <3>1. registryReq[r].row \notin Topics
            BY <1>1 DEF Kept!RegistryAssumption
        <3>2. CreateOK(r)' /\ GoneOK(r)'
            BY <1>1, <2>1, <2>2, <2>3 DEF CreateOK, GoneOK
        <3>3. UpdateOK(r)'
            BY <1>1, <2>1, <2>2, <2>3, <3>1 DEF UpdateOK
        <3> QED
            BY <3>2, <3>3 DEF CallOK
    <2> QED
        BY <1>1, <1>3, <2>4, RegistryGotoStep DEF Kept!PCs
<1> QED
    BY <1>2, <1>3 DEF Kept!FindChild

LEMMA FindToDeleteStep ==
    ASSUME RegistryInv, NEW r \in Clients, Kept!FindToDelete(r)
    PROVE  RegistryInv'
<1>1. /\ registryReq[r].op = "delete" /\ registryReq[r].pc = "finding"
         /\ UNCHANGED <<Kept!columns, Kept!history>>
    BY DEF Kept!FindToDelete, Kept!Is
<1>2. CASE Kept!Finish(r)
    BY <1>1, <1>2, KeptReadFinish
<1>3. CASE Kept!Goto(r, "deleting") /\ Kept!Found(registryReq[r].row)
    <2>1. /\ registryReq'[r].pc = "deleting" /\ registryReq'[r].op = "delete"
             /\ registryReq'[r].row = registryReq[r].row
          /\ registryReq'[r].gone = registryReq[r].gone
        BY <1>1, <1>3, RegistryGoto DEF Kept!PCs
    <2>2. GoneOK(r) /\ UNCHANGED state
        BY <1>1 DEF RegistryInv, CallOK, Kept!columns
    <2>3. state[registryReq[r].row] = "live"
        BY <1>3 DEF Kept!Found, Kept!Live
    <2>4. CallOK(r)'
        BY <1>1, <2>1, <2>2, <2>3 DEF CallOK, CreateOK, UpdateOK, GoneOK
    <2> QED
        BY <1>1, <1>3, <2>4, RegistryGotoStep DEF Kept!PCs
<1> QED
    BY <1>2, <1>3 DEF Kept!FindToDelete

LEMMA FindByKeyHashStep ==
    ASSUME RegistryInv, NEW r \in Clients, Kept!FindByKeyHash(r)
    PROVE  RegistryInv'
<1>1. /\ registryReq[r].op = "produce" /\ registryReq[r].pc = "finding"
         /\ UNCHANGED <<Kept!columns, Kept!history>>
    BY DEF Kept!FindByKeyHash, Kept!Is
<1>2. CASE Kept!Finish(r)
    BY <1>1, <1>2, KeptReadFinish
<1>3. CASE Kept!Goto(r, "serving") /\ Kept!Found(registryReq[r].row)
    <2>1. /\ registryReq'[r].pc = "serving" /\ registryReq'[r].op = "produce"
             /\ registryReq'[r].row = registryReq[r].row
          /\ registryReq'[r].gone = registryReq[r].gone
        BY <1>1, <1>3, RegistryGoto DEF Kept!PCs
    <2>2. GoneOK(r) /\ UNCHANGED state
        BY <1>1 DEF RegistryInv, CallOK, Kept!columns
    <2>3. state[registryReq[r].row] = "live"
        BY <1>3 DEF Kept!Found, Kept!Live
    <2>4. CallOK(r)'
        BY <1>1, <2>1, <2>2, <2>3 DEF CallOK, CreateOK, UpdateOK, GoneOK
    <2> QED
        BY <1>1, <1>3, <2>4, RegistryGotoStep DEF Kept!PCs
<1> QED
    BY <1>2, <1>3 DEF Kept!FindByKeyHash

LEMMA CheckNameStep ==
    ASSUME RegistryInv, NEW r \in Clients, Kept!CheckName(r)
    PROVE  RegistryInv'
<1> DEFINE next == IF registryReq[r].op = "create" THEN "inserting" ELSE "updating"
<1>1. registryReq[r].pc = "naming" /\ UNCHANGED <<Kept!columns, Kept!history>>
    BY DEF Kept!CheckName
<1>2. CASE Kept!Finish(r)
    BY <1>1, <1>2, KeptReadFinish
<1>3. CASE Kept!Goto(r, next)
    <2>1. next \in Kept!PCs
        BY DEF Kept!PCs
    <2>2. /\ next = "inserting" <=> registryReq[r].op = "create"
          /\ next \in {"inserting", "updating"}
        OBVIOUS
    <2> HIDE DEF next
    <2>3. /\ registryReq'[r].pc = next /\ registryReq'[r].op = registryReq[r].op
             /\ registryReq'[r].row = registryReq[r].row
          /\ registryReq'[r].parent = registryReq[r].parent
             /\ registryReq'[r].newName = registryReq[r].newName
          /\ registryReq'[r].set = registryReq[r].set
             /\ registryReq'[r].merged = registryReq[r].merged
          /\ registryReq'[r].gone = registryReq[r].gone
        BY <1>3, <2>1, RegistryGoto
    <2>4. CreateOK(r) /\ UpdateOK(r) /\ GoneOK(r) /\ UNCHANGED <<state, config, torn>>
        BY <1>1 DEF RegistryInv, CallOK, Kept!columns, Kept!history
    <2>5. CreateOK(r)'
        <3>1. SUFFICES ASSUME registryReq[r].op = "create"
                       PROVE  /\ registryReq[r].row \in Kept!Entities
                                 /\ state[registryReq[r].row] = "none"
                              /\ registryReq[r].row \in Topics
                                 => registryReq[r].newName \in Names
                              /\ registryReq[r].row \in Children =>
                                            registryReq[r].parent \in Topics
                                            /\ state[registryReq[r].parent] # "none"
            BY <2>2, <2>3, <2>4 DEF CreateOK
        <3> QED
            BY <1>1, <2>4, <3>1 DEF CreateOK
    <2>6. UpdateOK(r)'
        BY <1>1, <2>2, <2>3, <2>4 DEF UpdateOK
    <2>7. GoneOK(r)'
        BY <1>1, <2>2, <2>3, <2>4 DEF GoneOK
    <2> QED
        BY <1>1, <1>3, <2>1, <2>5, <2>6, <2>7, RegistryGotoStep DEF CallOK
<1> QED
    BY <1>2, <1>3 DEF Kept!CheckName

LEMMA InsertTopicStep ==
    ASSUME Kept!RegistryAssumption, RegistryInv, NEW r \in Clients, Kept!InsertTopic(r)
    PROVE  RegistryInv'
<1> DEFINE t == registryReq[r].row
           initial == Kept!Merge([f \in Fields |-> Default], registryReq[r].set)
<1>1. registryReq[r].op = "create" /\ registryReq[r].pc = "inserting" /\ t \in Topics
      /\ Kept!Finish(r)
    BY DEF Kept!InsertTopic, Kept!Is
<1>2. CASE UNCHANGED <<Kept!columns, Kept!history>>
    BY <1>1, <1>2, KeptReadFinish
<1>3. CASE /\ state' = [state EXCEPT ![t] = "live"]
           /\ name' = [name EXCEPT ![t] = registryReq[r].newName]
           /\ config' = [config EXCEPT ![t] = initial]
           /\ asked' = [asked EXCEPT ![t] = initial]
           /\ UNCHANGED <<topicOf, url, paused, torn>>
    <2>1. ColumnTypes /\ Kept!UpdatesAddUp /\ CreateOK(r) /\ t \in Kept!Entities
        BY <1>1, RegistryTypesApart DEF RegistryInv, CallOK, Kept!Entities
    <2>2. initial \in Kept!Partial /\ \A f \in Fields : initial[f] # Unset
        <3>1. [f \in Fields |-> Default] \in Kept!Partial /\ Default # Unset
            BY DEF Kept!Partial, Kept!RegistryAssumption
        <3>2. registryReq[r].set \in Kept!Partial
            BY KeptRequestFields
        <3> QED
            BY <3>1, <3>2, MergeIs
    <2> HIDE DEF initial
    <2>3. registryReq[r].newName \in Names /\ NoName \notin Names /\ state[t] = "none"
        BY <1>1, <2>1 DEF CreateOK, Kept!RegistryAssumption
    <2>4. /\ state' \in [Kept!Entities -> Kept!States] /\ state'[t] = "live"
          /\ \A x \in Kept!Entities \ {t} : state'[x] = state[x]
        BY <1>3, <2>1 DEF ColumnTypes, Kept!States
    <2>5. /\ name' \in [Topics -> Names \cup {NoName}] /\ name'[t] = registryReq[r].newName
          /\ \A x \in Topics \ {t} : name'[x] = name[x]
        BY <1>1, <1>3, <2>1, <2>3 DEF ColumnTypes
    <2>6. /\ config' \in [Topics -> Kept!Partial] /\ config'[t] = initial
          /\ \A x \in Topics \ {t} : config'[x] = config[x]
        BY <1>1, <1>3, <2>1, <2>2 DEF ColumnTypes
    <2>7. /\ asked' \in [Topics -> Kept!Partial] /\ asked'[t] = initial
          /\ \A x \in Topics \ {t} : asked'[x] = asked[x]
        BY <1>1, <1>3, <2>1, <2>2 DEF ColumnTypes
    <2>8. ColumnTypes'
        <3>1. \A x \in Topics : state'[x] # "none" =>
                    name'[x] # NoName /\ \A f \in Fields : config'[x][f] # Unset
            BY <2>1, <2>2, <2>3, <2>4, <2>5, <2>6 DEF ColumnTypes, Kept!Entities
        <3>2. \A c \in Children : state'[c] # "none" =>
                    topicOf'[c] # NoTopic /\ state'[topicOf'[c]] # "none"
            BY <1>1, <1>3, <2>1, <2>4 DEF ColumnTypes, Kept!Entities, Kept!RegistryAssumption
        <3> QED
            BY <1>3, <2>1, <2>4, <2>5, <2>6, <2>7, <3>1, <3>2 DEF ColumnTypes
    <2>9. Kept!UpdatesAddUp'
        BY <1>3, <2>1, <2>6, <2>7 DEF Kept!UpdatesAddUp
    <2>10. RowEffects(r)
        BY <1>1, <1>3, <2>4, <2>6 DEF RowEffects
    <2> QED
        BY <1>1, <2>8, <2>9, <2>10, RegistryFinishStep
<1> QED
    BY <1>2, <1>3 DEF Kept!InsertTopic

LEMMA InsertChildStep ==
    ASSUME Kept!RegistryAssumption, RegistryInv, NEW r \in Clients, Kept!InsertChild(r)
    PROVE  RegistryInv'
<1> DEFINE c == registryReq[r].row
<1>1. /\ registryReq[r].op = "create" /\ registryReq[r].pc = "inserting" /\ c \in Children
         /\ Kept!Finish(r)
      /\ state' = [state EXCEPT ![c] = "live"]
      /\ topicOf' = [topicOf EXCEPT ![c] = registryReq[r].parent]
      /\ url' = IF c \in Pull THEN url ELSE url \cup {c}
      /\ UNCHANGED <<name, config, paused, Kept!history>>
    BY DEF Kept!InsertChild, Kept!Is
<1>2. ColumnTypes /\ Kept!UpdatesAddUp /\ CreateOK(r) /\ c \in Kept!Entities
    BY <1>1, RegistryTypesApart DEF RegistryInv, CallOK, Kept!Entities
<1>3. registryReq[r].parent \in Topics /\ state[registryReq[r].parent] # "none"
    BY <1>1, <1>2 DEF CreateOK
<1>4. /\ state' \in [Kept!Entities -> Kept!States] /\ state'[c] = "live"
      /\ \A x \in Kept!Entities \ {c} : state'[x] = state[x]
    BY <1>1, <1>2 DEF ColumnTypes, Kept!States
<1>5. /\ topicOf' \in [Children -> Topics \cup {NoTopic}] /\ topicOf'[c] = registryReq[r].parent
      /\ \A x \in Children \ {c} : topicOf'[x] = topicOf[x]
    BY <1>1, <1>2, <1>3 DEF ColumnTypes
<1>6. ColumnTypes'
    <2>1. \A t \in Topics : state'[t] # "none" =>
                name'[t] # NoName /\ \A f \in Fields : config'[t][f] # Unset
        BY <1>1, <1>2, <1>4 DEF ColumnTypes, Kept!Entities, Kept!RegistryAssumption
    <2>2. \A x \in Children : state'[x] # "none" =>
                topicOf'[x] # NoTopic /\ state'[topicOf'[x]] # "none"
        <3>1. SUFFICES ASSUME NEW x \in Children, state'[x] # "none"
                       PROVE  topicOf'[x] # NoTopic /\ state'[topicOf'[x]] # "none"
            OBVIOUS
        <3>2. CASE x = c
            BY <1>1, <1>3, <1>4, <1>5, <3>2 DEF Kept!Entities, Kept!RegistryAssumption
        <3>3. CASE x # c
            <4>1. topicOf[x] # NoTopic /\ state[topicOf[x]] # "none" /\ topicOf[x] \in Topics
                BY <1>2, <1>4, <3>1, <3>3 DEF ColumnTypes, Kept!Entities
            <4> QED
                BY <1>4, <1>5, <3>3, <4>1 DEF Kept!Entities
        <3> QED
            BY <3>2, <3>3
    <2>3. url' \subseteq Children \ Pull
        BY <1>1, <1>2 DEF ColumnTypes
    <2> QED
        BY <1>1, <1>2, <1>4, <1>5, <2>1, <2>2, <2>3 DEF ColumnTypes, Kept!history
<1>7. Kept!UpdatesAddUp'
    BY <1>1, <1>2 DEF Kept!UpdatesAddUp, Kept!history
<1>8. RowEffects(r)
    BY <1>1, <1>4 DEF RowEffects, Kept!history
<1> QED
    BY <1>1, <1>6, <1>7, <1>8, RegistryFinishStep

LEMMA InsertApiKeyStep ==
    ASSUME Kept!RegistryAssumption, RegistryInv, NEW r \in Clients, Kept!InsertApiKey(r)
    PROVE  RegistryInv'
<1> DEFINE k == registryReq[r].row
<1>1. /\ registryReq[r].op = "create" /\ registryReq[r].pc = "inserting" /\ k \in ApiKeys
         /\ Kept!Finish(r)
      /\ state' = [state EXCEPT ![k] = "live"]
      /\ UNCHANGED <<name, config, topicOf, url, paused, Kept!history>>
    BY DEF Kept!InsertApiKey, Kept!Is
<1>2. ColumnTypes /\ Kept!UpdatesAddUp /\ k \in Kept!Entities
    BY <1>1, RegistryTypesApart DEF RegistryInv, Kept!Entities
<1>3. /\ state' \in [Kept!Entities -> Kept!States] /\ state'[k] = "live"
      /\ \A x \in Kept!Entities \ {k} : state'[x] = state[x]
    BY <1>1, <1>2 DEF ColumnTypes, Kept!States
<1>4. ColumnTypes'
    <2>1. \A x \in Topics \cup Children : state'[x] = state[x]
        BY <1>1, <1>3 DEF Kept!Entities, Kept!RegistryAssumption
    <2> QED
        BY <1>1, <1>2, <1>3, <2>1 DEF ColumnTypes, Kept!history
<1>5. Kept!UpdatesAddUp'
    BY <1>1, <1>2 DEF Kept!UpdatesAddUp, Kept!history
<1>6. RowEffects(r)
    BY <1>1, <1>3 DEF RowEffects, Kept!history
<1> QED
    BY <1>1, <1>4, <1>5, <1>6, RegistryFinishStep

\* What an update writes is the stored config with its fields in place, unless another update
\* of the topic was in flight.
LEMMA SaveTopicStep ==
    ASSUME Kept!RegistryAssumption, RegistryInv, NEW r \in Clients, Kept!SaveTopic(r)
    PROVE  RegistryInv'
<1> DEFINE t == registryReq[r].row
           renamed == IF registryReq[r].newName = NoName THEN name[t]
           ELSE registryReq[r].newName
           written == Kept!Merge(config[t], registryReq[r].merged)
           set == [f \in Fields |->
                      IF registryReq[r].set[f] = Unset THEN asked[t][f]
                      ELSE registryReq[r].set[f]]
<1>1. registryReq[r].op = "update" /\ registryReq[r].pc = "updating" /\ t \in Topics
      /\ Kept!Finish(r)
    BY DEF Kept!SaveTopic, Kept!Is
<1>2. CASE UNCHANGED <<Kept!columns, Kept!history>>
    BY <1>1, <1>2, KeptReadFinish
<1>3. CASE /\ name' = [name EXCEPT ![t] = renamed]
           /\ config' = [config EXCEPT ![t] = Kept!Merge(@, registryReq[r].merged)]
           /\ asked' = [asked EXCEPT ![t] = [f \in Fields |->
                            IF registryReq[r].set[f] = Unset THEN @[f]
                            ELSE registryReq[r].set[f]]]
           /\ UNCHANGED <<state, topicOf, url, paused, torn>>
    <2>1. ColumnTypes /\ Kept!UpdatesAddUp /\ UpdateOK(r) /\ t \in Kept!Entities
        BY <1>1, RegistryTypesApart DEF RegistryInv, CallOK, Kept!Entities
    <2>2. /\ config[t] \in Kept!Partial /\ asked[t] \in Kept!Partial
          /\ registryReq[r].set \in Kept!Partial /\ registryReq[r].merged \in Kept!Partial
          /\ registryReq[r].newName \in Names \cup {NoName}
        BY <1>1, <2>1, KeptRequestFields DEF ColumnTypes
    <2>3. state[t] # "none" /\ name[t] # NoName /\ \A f \in Fields : config[t][f] # Unset
        BY <1>1, <2>1 DEF UpdateOK, ColumnTypes
    <2>4. set \in Kept!Partial
        BY <2>2 DEF Kept!Partial
    <2>5. written \in Kept!Partial /\ \A f \in Fields : written[f] # Unset
        BY <2>2, <2>3, MergeIs
    <2>6. renamed \in Names \cup {NoName} /\ renamed # NoName
        BY <1>1, <2>1, <2>2, <2>3 DEF ColumnTypes
    <2>7. t \notin torn => written = set
        <3>1. SUFFICES ASSUME t \notin torn PROVE written = set
            OBVIOUS
        <3>2. /\ config[t] = asked[t]
              /\ registryReq[r].merged = IF registryReq[r].set = Kept!NoFields
                 THEN Kept!NoFields
                                         ELSE Kept!Merge(config[t], registryReq[r].set)
            BY <1>1, <2>1, <3>1 DEF Kept!UpdatesAddUp, UpdateOK
        <3>3. set = Kept!Merge(config[t], registryReq[r].set)
            BY <3>2 DEF Kept!Merge
        <3>4. CASE registryReq[r].set = Kept!NoFields
            BY <2>2, <3>2, <3>3, <3>4, MergeIs
        <3>5. CASE registryReq[r].set # Kept!NoFields
            <4>1. registryReq[r].merged = set
                BY <3>2, <3>3, <3>5
            <4>2. \A f \in Fields : set[f] = Unset => config[t][f] = Unset
                BY <3>2
            <4>3. \A f \in Fields : written[f] = set[f]
                BY <2>2, <2>4, <4>1, <4>2, MergeIs
            <4>4. written \in [Fields -> Values \cup {Unset}]
                  /\ set \in [Fields -> Values \cup {Unset}]
                BY <2>4, <2>5 DEF Kept!Partial
            <4> HIDE DEF written, set
            <4> QED
                BY <4>3, <4>4
        <3> QED
            BY <3>4, <3>5
    <2>8. /\ config' = [config EXCEPT ![t] = written]
          /\ asked' = [asked EXCEPT ![t] = set]
        BY <1>1, <1>3, <2>1 DEF ColumnTypes
    <2> HIDE DEF renamed, written, set
    <2>9. /\ name' \in [Topics -> Names \cup {NoName}] /\ name'[t] = renamed
          /\ \A x \in Topics \ {t} : name'[x] = name[x]
        BY <1>1, <1>3, <2>1, <2>6 DEF ColumnTypes
    <2>10. /\ config' \in [Topics -> Kept!Partial] /\ config'[t] = written
           /\ \A x \in Topics \ {t} : config'[x] = config[x]
        BY <1>1, <2>1, <2>5, <2>8 DEF ColumnTypes
    <2>11. /\ asked' \in [Topics -> Kept!Partial] /\ asked'[t] = set
           /\ \A x \in Topics \ {t} : asked'[x] = asked[x]
        BY <1>1, <2>1, <2>4, <2>8 DEF ColumnTypes
    <2>12. ColumnTypes'
        <3>1. \A x \in Topics : state'[x] # "none" =>
                    name'[x] # NoName /\ \A f \in Fields : config'[x][f] # Unset
            BY <1>3, <2>1, <2>5, <2>6, <2>9, <2>10 DEF ColumnTypes
        <3> QED
            BY <1>3, <2>1, <2>9, <2>10, <2>11, <3>1 DEF ColumnTypes
    <2>13. Kept!UpdatesAddUp'
        BY <1>3, <2>1, <2>7, <2>10, <2>11 DEF Kept!UpdatesAddUp
    <2>14. RowEffects(r)
        BY <1>1, <1>3, <2>10 DEF RowEffects
    <2> QED
        BY <1>1, <2>12, <2>13, <2>14, RegistryFinishStep
<1> QED
    BY <1>2, <1>3 DEF Kept!SaveTopic

LEMMA SaveChildStep ==
    ASSUME RegistryInv, NEW r \in Clients, Kept!SaveChild(r)
    PROVE  RegistryInv'
<1>1. /\ registryReq[r].row \in Children /\ Kept!Finish(r)
      /\ UNCHANGED <<state, name, config, topicOf, Kept!history>>
      /\ paused' \subseteq paused \cup {registryReq[r].row}
      /\ url' = url \/ (url' = url \cup {registryReq[r].row} /\ registryReq[r].row \notin Pull)
    BY DEF Kept!SaveChild, Kept!TakesUrl
<1>2. ColumnTypes /\ Kept!UpdatesAddUp
    BY RegistryTypesApart DEF RegistryInv
<1>3. ColumnTypes'
    BY <1>1, <1>2 DEF ColumnTypes, Kept!history
<1>4. Kept!UpdatesAddUp'
    BY <1>1, <1>2 DEF Kept!UpdatesAddUp, Kept!history
<1>5. RowEffects(r)
    BY <1>1 DEF RowEffects, Kept!history
<1> QED
    BY <1>1, <1>3, <1>4, <1>5, RegistryFinishStep

LEMMA DeleteRowStep ==
    ASSUME RegistryInv, NEW r \in Clients, Kept!SoftDelete(r)
    PROVE  RegistryInv'
<1> DEFINE row == registryReq[r].row
<1>1. /\ registryReq[r].op = "delete" /\ registryReq[r].pc = "deleting" /\ Kept!Finish(r)
      /\ state' = [state EXCEPT ![row] = "deleted"]
      /\ UNCHANGED <<name, config, topicOf, url, paused, Kept!history>>
    BY DEF Kept!SoftDelete, Kept!Is
<1>2. ColumnTypes /\ Kept!UpdatesAddUp /\ GoneOK(r)
    BY RegistryTypesApart DEF RegistryInv, CallOK
<1>3. row \in Kept!Entities /\ state[row] # "none"
    BY <1>1, <1>2 DEF GoneOK
<1>4. /\ state' \in [Kept!Entities -> Kept!States] /\ state'[row] = "deleted"
      /\ \A x \in Kept!Entities \ {row} : state'[x] = state[x]
    BY <1>1, <1>2, <1>3 DEF ColumnTypes, Kept!States
<1>5. \A x \in Kept!Entities : (state'[x] # "none") <=> (state[x] # "none")
    BY <1>3, <1>4
<1>6. ColumnTypes'
    <2>1. \A x \in Topics : state'[x] # "none" =>
                name'[x] # NoName /\ \A f \in Fields : config'[x][f] # Unset
        BY <1>1, <1>2, <1>5 DEF ColumnTypes, Kept!Entities
    <2>2. \A c \in Children : state'[c] # "none" =>
                topicOf'[c] # NoTopic /\ state'[topicOf'[c]] # "none"
        BY <1>1, <1>2, <1>5 DEF ColumnTypes, Kept!Entities
    <2> QED
        BY <1>1, <1>2, <1>4, <2>1, <2>2 DEF ColumnTypes, Kept!history
<1>7. Kept!UpdatesAddUp'
    BY <1>1, <1>2 DEF Kept!UpdatesAddUp, Kept!history
<1>8. RowEffects(r)
    BY <1>1, <1>3, <1>4 DEF RowEffects, Kept!history
<1> QED
    BY <1>1, <1>6, <1>7, <1>8, RegistryFinishStep

-----------------------------------------------------------------------------
(* The registry: its theorems.                                               *)

LEMMA KeptStatementStep ==
    ASSUME Kept!RegistryAssumption, RegistryInv, NEW r \in Clients, Kept!Step(r)
    PROVE  RegistryInv'
<1>1. CASE Kept!FindParent(r) \/ Kept!FindTopic(r) \/ Kept!FindChild(r) \/ Kept!FindToDelete(r)
           \/ Kept!FindByKeyHash(r) \/ Kept!CheckName(r)
    BY <1>1, FindParentStep, FindTopicStep, FindChildStep, FindToDeleteStep,
       FindByKeyHashStep, CheckNameStep
<1>2. CASE Kept!InsertTopic(r) \/ Kept!InsertChild(r) \/ Kept!InsertApiKey(r)
    BY <1>2, InsertTopicStep, InsertChildStep, InsertApiKeyStep
<1>3. CASE Kept!SaveTopic(r) \/ Kept!SaveChild(r) \/ Kept!SoftDelete(r)
    BY <1>3, SaveTopicStep, SaveChildStep, DeleteRowStep
<1>4. CASE Kept!Serve(r) \/ Kept!LoseRequest(r)
    BY <1>4, KeptReadFinish DEF Kept!Serve, Kept!LoseRequest
<1> QED
    BY <1>1, <1>2, <1>3, <1>4 DEF Kept!Step

LEMMA RegistryInductive ==
    ASSUME Kept!RegistryAssumption PROVE RegistryInv /\ [Kept!Next]_Kept!vars => RegistryInv'
<1> SUFFICES ASSUME RegistryInv, [Kept!Next]_Kept!vars PROVE RegistryInv'
    OBVIOUS
<1>1. CASE Kept!Next
    BY <1>1, KeptStartStep, KeptStatementStep DEF Kept!Next
<1>2. CASE UNCHANGED Kept!vars
    <2>1. UNCHANGED <<state, name, config, topicOf, url, paused, registryReq, asked, torn>>
        BY <1>2 DEF Kept!vars, Kept!columns, Kept!history
    <2>2. Kept!TypeOK' /\ Kept!UpdatesAddUp'
        BY <2>1 DEF RegistryInv, Kept!TypeOK, Kept!UpdatesAddUp
    <2>3. RowsApart'
        BY <2>1 DEF RegistryInv, RowsApart
    <2>4. \A r \in Clients : CallOK(r)'
        BY <2>1 DEF RegistryInv, CallOK, CreateOK, UpdateOK, GoneOK
    <2> QED
        BY <2>2, <2>3, <2>4 DEF RegistryInv
<1> QED
    BY <1>1, <1>2

LEMMA RegistryHolds == ASSUME Kept!RegistryAssumption PROVE Kept!Spec => []RegistryInv
BY RegistryStarts, RegistryInductive, PTL DEF Kept!Spec

\* Types: of what a tenant registers, of the columns and of the requests.
THEOREM RegistryTypes == ASSUME Kept!RegistryAssumption PROVE Kept!Spec => []Kept!TypeOK
<1>1. RegistryInv => Kept!TypeOK
    BY DEF RegistryInv
<1> QED
    BY <1>1, RegistryHolds, PTL

\* A topic's config is what its updates add up to, but for those in flight together
\* (topic.service.ts 48-55).
THEOREM ConfigsAddUp == ASSUME Kept!RegistryAssumption PROVE Kept!Spec => []UpdatesAddUp
<1>1. RegistryInv => UpdatesAddUp
    BY DEF RegistryInv, UpdatesAddUp
<1> QED
    BY <1>1, RegistryHolds, PTL

\* A row that was deleted before a request starts is out of its reach, a deleted API key too
\* (entity-base-repository.ts 12-17, api-key-middleware.ts 20-22).
LEMMA GoneRowsStay == ASSUME Kept!RegistryAssumption PROVE Kept!Spec => []Kept!GoneIsRefused
<1>1. RegistryInv => Kept!GoneIsRefused
    BY DEF RegistryInv, Kept!GoneIsRefused, CallOK, GoneOK
<1> QED
    BY <1>1, RegistryHolds, PTL

-----------------------------------------------------------------------------
(* Side by side.                                                             *)

\* Users, topics, consumers, schedules and keys that were deleted before a request starts
\* are out of its reach (user-root-repository.ts 12-20, entity-base-repository.ts 12-17).
THEOREM DeletedStaysOut ==
    ASSUME Auth!SessionAssumption, Kept!RegistryAssumption
    PROVE  Auth!Spec /\ Kept!Spec => []GoneIsRefused
BY GoneUsersStay, GoneRowsStay, PTL DEF GoneIsRefused

\* A behaviour of the combination that is model-checked is one of each part, so what is
\* proved of the parts holds of it.
THEOREM PartsStandAlone == SideBySide => Spec /\ Auth!Spec /\ Kept!Spec
<1> DEFINE all == <<part, vars, sessionVars, registryVars, pagingVars>>
<1>1. SideBySideInit => Init /\ Auth!Init /\ Kept!Init
    BY DEF SideBySideInit
<1>2. UNCHANGED sessionVars <=> UNCHANGED Auth!vars
    BY DEF sessionVars, Auth!vars
<1>3. UNCHANGED registryVars <=> UNCHANGED Kept!vars
    BY DEF registryVars, Kept!vars, Kept!columns, Kept!history
<1>4. ASSUME [SideBySideNext]_all PROVE [Next]_vars
    BY <1>4 DEF SideBySideNext, RegistryNext
<1>5. ASSUME [SideBySideNext]_all PROVE [Auth!Next]_Auth!vars
    BY <1>2, <1>5 DEF SideBySideNext, RegistryNext
<1>6. ASSUME [SideBySideNext]_all PROVE [Kept!Next]_Kept!vars
    BY <1>3, <1>6 DEF SideBySideNext, RegistryNext
<1> QED
    BY <1>1, <1>4, <1>5, <1>6, PTL DEF SideBySide, Spec, Auth!Spec, Kept!Spec
=============================================================================
