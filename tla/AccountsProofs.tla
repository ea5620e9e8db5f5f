----------------------------- MODULE AccountsProofs -----------------------------
(***************************************************************************)
(* Theorems about Accounts, for any number of members, sessions, links,    *)
(* keys and requests in flight.                                            *)
(*                                                                         *)
(* The properties hold because of the locks, so the invariant says first   *)
(* which locks exclude each other, then what a request knows while it      *)
(* holds them, and last what the committed rows look like.                 *)
(***************************************************************************)
EXTENDS Accounts, FiniteSetTheorems, TLAPS

(***************************************************************************)
(* The inductive invariant.                                                *)
(***************************************************************************)
Changing == {"register", "update"}
Using    == {"login", "request", "complete"}

LocksExclude ==
    /\ \A t, s \in Txs : Holds(t, Changing) /\ Holds(s, Changing) => t = s
    /\ \A t, s \in Txs :
          Holds(t, {"update"}) /\ tx[s].kind \notin Changing
             /\ tx[s].user \in {tx[t].user, tx[t].target} => tx[s].step \notin {"member", "granted"}
    /\ \A t, s \in Txs :
          Holds(t, {"request", "complete"}) /\ Holds(s, Using)
             /\ tx[t].user = tx[s].user => t = s
    /\ \A t, s \in Txs :
          Holds(t, {"useKey", "revokeKey"}) /\ Holds(s, {"useKey", "revokeKey"})
             /\ tx[t].key = tx[s].key => t = s

RequestFacts ==
    \A t \in Txs :
        /\ tx[t].kind = "complete" => link[tx[t].link].user = tx[t].user
        /\ tx[t].kind = "update" => tx[t].version > 0
        /\ tx[t].step = "member" => tx[t].kind \notin Changing
        /\ Holds(t, {"register"}) =>
              role[tx[t].user] = "none" /\ tx[t].role \in {"owner", "member"}
        /\ Holds(t, {"request"}) =>
              ~\E l \in Links : link[l].user = tx[t].user /\ link[l].status = "active"
                                  /\ link[l].age = "new"

MemberRows ==
    \A u \in Users :
        /\ role[u] = "none" <=> version[u] = 0
        /\ active[u] => role[u] # "none"
        /\ role[u] # "none" => initialized
        /\ role[u] = "none" => \A l \in Links : link[l].user # u

UsedLinks(u) == {l \in Links : link[l].user = u /\ link[l].status = "used"}
UsedFinite == \A u \in Users : IsFiniteSet(UsedLinks(u))

IInv ==
    /\ TypeOK
    /\ LocksExclude
    /\ RequestFacts
    /\ AuthorizationHolds
    /\ MemberRows
    /\ UsedFinite
    /\ SessionsAreCurrent
    /\ LinksAreCurrent
    /\ OneRecentLink
    /\ OneChangePerLink
    /\ OwnerRemains

(***************************************************************************)
(* Requests.                                                               *)
(***************************************************************************)

\* q is the request r, perhaps in another step.
SameRequest(q, r) ==
    /\ q.kind = r.kind
    /\ q.user = r.user
    /\ r.kind = "register" => q.role = r.role
    /\ r.kind = "login" => q.hash = r.hash
    /\ r.kind = "complete" => q.link = r.link
    /\ r.kind \in {"createKey", "revokeKey"} => q.session = r.session
    /\ r.kind \in {"useKey", "revokeKey"} => q.key = r.key
    /\ r.kind = "update" => /\ q.target = r.target
                            /\ q.role = r.role
                            /\ q.active = r.active
                            /\ q.version = r.version

\* The fields of a request are those of its kind.
LEMMA RequestTypes ==
    ASSUME NEW r \in Requests
    PROVE  /\ r.kind \in {"register", "login", "request", "complete", "createKey",
                          "revokeKey", "useKey", "update"}
           /\ r.step \in Steps
           /\ r.user \in Users
           /\ r.kind = "register" => r.role \in Roles \cup {None}
           /\ r.kind = "login" => r.hash \in Nat
           /\ r.kind = "complete" => r.link \in Links
           /\ r.kind \in {"createKey", "revokeKey"} => r.session \in Sessions
           /\ r.kind \in {"useKey", "revokeKey"} => r.key \in Keys
           /\ r.kind = "update" => /\ r.target \in Users
                                   /\ r.role \in Roles
                                   /\ r.active \in BOOLEAN
                                   /\ r.version \in Nat
    BY DEF Requests

\* A request that moves to another step stays a request, and the same one.
LEMMA StepRequest ==
    ASSUME NEW r \in Requests, NEW s \in Steps
    PROVE  LET q == [r EXCEPT !.step = s]
           IN  q \in Requests /\ q.step = s /\ SameRequest(q, r)
<1> DEFINE q == [r EXCEPT !.step = s]
<1>1. CASE r \in [kind : {"register"}, step : Steps, user : Users, role : Roles \cup {None}]
    BY <1>1 DEF Requests, SameRequest
<1>2. CASE r \in [kind : {"login"}, step : Steps, user : Users, hash : Nat]
    BY <1>2 DEF Requests, SameRequest
<1>3. CASE r \in [kind : {"request"}, step : Steps, user : Users]
    BY <1>3 DEF Requests, SameRequest
<1>4. CASE r \in [kind : {"complete"}, step : Steps, user : Users, link : Links]
    BY <1>4 DEF Requests, SameRequest
<1>5. CASE r \in [kind : {"createKey"}, step : Steps, user : Users, session : Sessions]
    BY <1>5 DEF Requests, SameRequest
<1>6. CASE r \in [kind : {"revokeKey"}, step : Steps, user : Users, session : Sessions,
                  key : Keys]
    BY <1>6 DEF Requests, SameRequest
<1>7. CASE r \in [kind : {"useKey"}, step : Steps, user : Users, key : Keys]
    BY <1>7 DEF Requests, SameRequest
<1>8. CASE r \in [kind : {"update"}, step : Steps, user : Users, target : Users,
                  role : Roles, active : BOOLEAN, version : Nat]
    BY <1>8 DEF Requests, SameRequest
<1>9. QED
    BY <1>1, <1>2, <1>3, <1>4, <1>5, <1>6, <1>7, <1>8 DEF Requests

\* A request that takes its next lock: the others stay where they are.
LEMMA ToStep ==
    ASSUME tx \in [Txs -> {Idle} \cup Requests], NEW t \in Txs, NEW s \in Steps,
           tx[t] # Idle, To(t, s)
    PROVE  /\ tx' \in [Txs -> {Idle} \cup Requests]
           /\ tx'[t].step = s
           /\ SameRequest(tx'[t], tx[t])
           /\ \A x \in Txs \ {t} : tx'[x] = tx[x]
<1>1. tx[t] \in Requests
    OBVIOUS
<1>2. tx' = [tx EXCEPT ![t] = [tx[t] EXCEPT !.step = s]]
    BY DEF To
<1>3. QED
    BY <1>1, <1>2, StepRequest

\* Registration learns from the organization it locked who becomes the owner.
LEMMA RegisterStep ==
    ASSUME tx \in [Txs -> {Idle} \cup Requests], initialized \in BOOLEAN,
           NEW t \in Txs, GrantRegister(t)
    PROVE  /\ tx' \in [Txs -> {Idle} \cup Requests]
           /\ tx'[t].kind = "register" /\ tx'[t].step = "granted"
           /\ tx'[t].user = tx[t].user
           /\ tx'[t].role = IF initialized THEN "member" ELSE "owner"
           /\ \A x \in Txs \ {t} : tx'[x] = tx[x]
<1>1. tx[t] \in [kind : {"register"}, step : Steps, user : Users, role : Roles \cup {None}]
    BY DEF GrantRegister, Idle, Requests
<1> DEFINE new == IF initialized THEN "member" ELSE "owner"
           q == [[tx[t] EXCEPT !.step = "granted"] EXCEPT !.role = new]
<1>2. tx' = [tx EXCEPT ![t] = q]
    BY DEF GrantRegister
<1>3. /\ q \in [kind : {"register"}, step : Steps, user : Users, role : Roles \cup {None}]
      /\ q.step = "granted" /\ q.user = tx[t].user /\ q.role = new
    BY <1>1 DEF Roles, Steps
<1>4. q \in Requests /\ q.kind = "register"
    BY <1>3 DEF Requests
<1>5. QED
    BY <1>2, <1>3, <1>4

TxType == tx \in [Txs -> {Idle} \cup Requests]

\* Only the request of t moves.
Alone(t) == \A x \in Txs \ {t} : tx'[x] = tx[x]

\* A request begins in step "ready" with what its reads showed.
LEMMA BeginFacts ==
    ASSUME TypeOK, NEW t \in Txs, BeginStep(t)
    PROVE  /\ TxType'
           /\ Alone(t)
           /\ tx'[t].step = "ready"
           /\ tx'[t].kind = "complete" => link[tx'[t].link].user = tx'[t].user
           /\ tx'[t].kind = "update" => tx'[t].version > 0
<1> DEFINE Fits(r) == /\ r \in Requests
                      /\ r.step = "ready"
                      /\ r.kind = "complete" => link[r.link].user = r.user
                      /\ r.kind = "update" => r.version > 0
<1>1. SUFFICES ASSUME NEW r, Fits(r), Begin(t, r)
               PROVE  /\ TxType' /\ Alone(t) /\ Fits(tx'[t])
    <2>1. ASSUME NEW u \in Users, BeginRegister(t, u)
          PROVE  \E r : Fits(r) /\ Begin(t, r)
        BY <2>1 DEF BeginRegister, Requests, Steps
    <2>2. ASSUME NEW u \in Users, BeginLogin(t, u)
          PROVE  \E r : Fits(r) /\ Begin(t, r)
        BY <2>2 DEF BeginLogin, Requests, Steps, TypeOK
    <2>3. ASSUME NEW u \in Users, BeginRequest(t, u)
          PROVE  \E r : Fits(r) /\ Begin(t, r)
        BY <2>3 DEF BeginRequest, Requests, Steps
    <2>4. ASSUME NEW l \in Links, BeginComplete(t, l)
          PROVE  \E r : Fits(r) /\ Begin(t, r)
        <3>1. link[l].user \in Users
            BY <2>4 DEF BeginComplete, Usable, TypeOK, NoLink
        <3>2. QED
            BY <2>4, <3>1 DEF BeginComplete, Requests, Steps
    <2>5. ASSUME NEW s \in Sessions, NEW u \in Users, BeginCreateKey(t, s, u)
          PROVE  \E r : Fits(r) /\ Begin(t, r)
        BY <2>5 DEF BeginCreateKey, Requests, Steps
    <2>6. ASSUME NEW s \in Sessions, NEW u \in Users, NEW k \in Keys,
                 BeginRevokeKey(t, s, u, k)
          PROVE  \E r : Fits(r) /\ Begin(t, r)
        BY <2>6 DEF BeginRevokeKey, Requests, Steps
    <2>7. ASSUME NEW s \in Sessions, NEW u \in Users, NEW v \in Users,
                 NEW newRole \in Roles, NEW newActive \in BOOLEAN,
                 BeginUpdate(t, s, u, v, newRole, newActive)
          PROVE  \E r : Fits(r) /\ Begin(t, r)
        <3>1. version[v] \in Nat /\ version[v] > 0
            BY <2>7, AccountsAssumption DEF BeginUpdate, TypeOK
        <3>2. QED
            BY <2>7, <3>1 DEF BeginUpdate, Requests, Steps
    <2>8. ASSUME NEW k \in Keys, BeginUseKey(t, k)
          PROVE  \E r : Fits(r) /\ Begin(t, r)
        <3>1. key[k].user \in Users
            BY <2>8 DEF BeginUseKey, TypeOK, NoKey
        <3>2. QED
            BY <2>8, <3>1 DEF BeginUseKey, Requests, Steps
    <2>9. QED
        BY <2>1, <2>2, <2>3, <2>4, <2>5, <2>6, <2>7, <2>8 DEF BeginStep
<1>2. TxType
    BY DEF TypeOK, TxType
<1>3. QED
    BY <1>1, <1>2 DEF Begin, TxType, Alone

\* A request that takes a lock is the one it was, in step "member" or "granted".
LEMMA LockFacts ==
    ASSUME TypeOK, NEW t \in Txs, LockStep(t)
    PROVE  /\ TxType'
           /\ Alone(t)
           /\ tx[t] \in Requests
           /\ tx'[t].step \in {"member", "granted"}
           /\ tx'[t].kind = tx[t].kind
           /\ tx'[t].user = tx[t].user
           /\ tx[t].kind # "register" => SameRequest(tx'[t], tx[t])
           /\ tx[t].kind = "register" => GrantRegister(t)
<1>1. TxType /\ initialized \in BOOLEAN
    BY DEF TypeOK, TxType
<1>2. CASE GrantRegister(t)
    <2>1. tx[t].kind = "register"
        BY <1>2 DEF GrantRegister
    <2>2. tx[t] \in Requests
        BY <1>1, <2>1 DEF TxType, Idle
    <2>3. tx \in [Txs -> {Idle} \cup Requests] /\ initialized \in BOOLEAN
        BY <1>1 DEF TxType
    <2>4. TxType' /\ Alone(t) /\ tx'[t].kind = "register" /\ tx'[t].step = "granted"
          /\ tx'[t].user = tx[t].user
        BY <1>2, <2>3, RegisterStep DEF TxType, Alone
    <2>5. QED
        BY <1>2, <2>1, <2>2, <2>4
<1>3. ASSUME NEW s \in {"member", "granted"}, To(t, s), tx[t].kind \notin {"none", "register"}
      PROVE  /\ TxType' /\ Alone(t) /\ tx[t] \in Requests
             /\ tx'[t].step = s /\ SameRequest(tx'[t], tx[t])
    <2>1. tx[t] # Idle
        BY <1>3 DEF Idle
    <2>2. s \in Steps
        BY DEF Steps
    <2>3. QED
        BY <1>1, <1>3, <2>1, <2>2, ToStep DEF TxType, Alone
<1>4. CASE LockMember(t)
    <2>1. tx[t] # Idle
        BY <1>4 DEF LockMember, Idle
    <2>2. tx[t] \in Requests
        BY <1>1, <2>1 DEF TxType
    <2>3. tx[t].kind # "none"
        BY <2>2, RequestTypes
    <2>4. QED
        BY <1>3, <1>4, <2>3 DEF LockMember, SameRequest
<1>5. CASE GrantLogin(t)
    BY <1>3, <1>5 DEF GrantLogin, SameRequest
<1>6. CASE GrantRequest(t)
    BY <1>3, <1>6 DEF GrantRequest, SameRequest
<1>7. CASE GrantComplete(t)
    BY <1>3, <1>7 DEF GrantComplete, SameRequest
<1>8. CASE GrantCreateKey(t)
    BY <1>3, <1>8 DEF GrantCreateKey, SameRequest
<1>9. CASE GrantRevokeKey(t)
    BY <1>3, <1>9 DEF GrantRevokeKey, SameRequest
<1>10. CASE GrantUseKey(t)
    BY <1>3, <1>10 DEF GrantUseKey, SameRequest
<1>11. CASE GrantUpdate(t)
    BY <1>3, <1>11 DEF GrantUpdate, SameRequest
<1>12. QED
    BY <1>2, <1>4, <1>5, <1>6, <1>7, <1>8, <1>9, <1>10, <1>11 DEF LockStep

\* A request that ends, or that registration hands on to the first sign-in, holds
\* nothing any more.
LEMMA ReleaseFacts ==
    ASSUME TypeOK, NEW t \in Txs, Rollback(t) \/ CommitStep(t)
    PROVE  /\ TxType'
           /\ Alone(t)
           /\ tx[t] \in Requests
           /\ tx'[t].step \in {"idle", "ready"}
           /\ tx'[t].kind \in {"none", "login"}
<1>1. TxType
    BY DEF TypeOK, TxType
<1>2. ASSUME End(t), tx[t] # Idle
      PROVE  /\ TxType' /\ Alone(t) /\ tx[t] \in Requests
             /\ tx'[t].step = "idle" /\ tx'[t].kind = "none"
    BY <1>1, <1>2 DEF End, TxType, Alone, Idle
<1>3. CASE CommitRegister(t)
    <2>1. tx[t].kind = "register"
        BY <1>3 DEF CommitRegister, Holds
    <2>2. tx[t] \in Requests
        BY <1>1, <2>1 DEF TxType, Idle
    <2>3. tx[t].user \in Users
        BY <2>2, RequestTypes
    <2> DEFINE q == [kind |-> "login", step |-> "ready", user |-> tx[t].user, hash |-> 1]
    <2>4. q \in Requests
        BY <2>3 DEF Requests, Steps
    <2>5. tx' = [tx EXCEPT ![t] = q]
        BY <1>3 DEF CommitRegister
    <2>6. QED
        BY <1>1, <2>2, <2>4, <2>5 DEF TxType, Alone
<1>4. ASSUME NEW k \in {"login", "request", "complete", "createKey", "revokeKey", "useKey",
                        "update"}, Holds(t, {k})
      PROVE  tx[t] # Idle
    BY <1>4 DEF Holds, Idle
<1>5. CASE Rollback(t)
    BY <1>2, <1>5 DEF Rollback
<1>6. CASE CommitLogin(t)
    BY <1>2, <1>4, <1>6 DEF CommitLogin
<1>7. CASE CommitRequest(t)
    BY <1>2, <1>4, <1>7 DEF CommitRequest
<1>8. CASE CommitComplete(t)
    BY <1>2, <1>4, <1>8 DEF CommitComplete
<1>9. CASE CommitCreateKey(t)
    BY <1>2, <1>4, <1>9 DEF CommitCreateKey
<1>10. CASE CommitRevokeKey(t)
    BY <1>2, <1>4, <1>10 DEF CommitRevokeKey
<1>11. CASE CommitUseKey(t)
    BY <1>2, <1>4, <1>11 DEF CommitUseKey
<1>12. CASE CommitUpdate(t)
    BY <1>2, <1>4, <1>12 DEF CommitUpdate
<1>13. QED
    BY <1>3, <1>5, <1>6, <1>7, <1>8, <1>9, <1>10, <1>11, <1>12 DEF CommitStep

(***************************************************************************)
(* Type correctness.                                                       *)
(***************************************************************************)

\* Ending links keeps them links, and keeps whose and which password's they are.
LEMMA LinksWithoutType ==
    ASSUME TypeOK, NEW u
    PROVE  /\ LinksWithout(u) \in [Links -> {NoLink} \cup
                 [user : Users, hash : Nat, status : {"active", "used", "revoked"},
                  age : {"new", "old", "expired"}]]
           /\ \A l \in Links :
                 /\ link[l].user # u => LinksWithout(u)[l] = link[l]
                 /\ LinksWithout(u)[l].user = link[l].user
                 /\ LinksWithout(u)[l].hash = link[l].hash
                 /\ LinksWithout(u)[l].age = link[l].age
                 /\ LinksWithout(u)[l].status =
                      IF link[l].user = u /\ link[l].status = "active"
                      THEN "revoked" ELSE link[l].status
<1>1. \A l \in Links : link[l].status = "active" =>
        link[l] \in [user : Users, hash : Nat, status : {"active", "used", "revoked"},
                     age : {"new", "old", "expired"}]
    BY DEF TypeOK, NoLink
<1>2. QED
    BY <1>1 DEF LinksWithout, TypeOK

\* The links after a password reset: the one that was used is used, the others of
\* the member have ended, and the rest is unchanged.
LEMMA CompleteLinks ==
    ASSUME TypeOK, NEW t \in Txs, CommitComplete(t), tx[t].link \in Links,
           link[tx[t].link].user = tx[t].user, tx[t].user \in Users
    PROVE  \A l \in Links :
             /\ link'[l].user = link[l].user
             /\ link'[l].hash = link[l].hash
             /\ link'[l].age = link[l].age
             /\ link[l].user # tx[t].user => link'[l] = link[l]
             /\ link'[l].status = IF l = tx[t].link THEN "used"
                                  ELSE IF link[l].user = tx[t].user /\ link[l].status = "active"
                                  THEN "revoked" ELSE link[l].status
<1> DEFINE u == tx[t].user
           L == tx[t].link
           lw == LinksWithout(u)
<1>1. link' = [lw EXCEPT ![L] = [lw[L] EXCEPT !.status = "used"]]
    BY DEF CommitComplete
<1>2. lw[L] \in [user : Users, hash : Nat, status : {"active", "used", "revoked"},
                 age : {"new", "old", "expired"}]
    BY LinksWithoutType, AccountsAssumption DEF NoLink
<1>3. lw \in [Links -> {NoLink} \cup
            [user : Users, hash : Nat, status : {"active", "used", "revoked"},
             age : {"new", "old", "expired"}]]
    BY LinksWithoutType
<1>4. \A l \in Links : l # L => link'[l] = lw[l]
    BY <1>1, <1>3
<1>5. link'[L] = [lw[L] EXCEPT !.status = "used"]
    BY <1>1, <1>3
<1>6. /\ link'[L].user = lw[L].user /\ link'[L].hash = lw[L].hash
      /\ link'[L].age = lw[L].age /\ link'[L].status = "used"
    BY <1>2, <1>5
<1> HIDE DEF lw
<1>7. \A l \in Links :
        /\ link[l].user # u => lw[l] = link[l]
        /\ lw[l].user = link[l].user
        /\ lw[l].hash = link[l].hash
        /\ lw[l].age = link[l].age
        /\ lw[l].status = IF link[l].user = u /\ link[l].status = "active"
                          THEN "revoked" ELSE link[l].status
    BY LinksWithoutType DEF lw
<1>8. QED
    BY <1>4, <1>6, <1>7

\* Every step keeps the types; what a commit writes comes from what it checked.
LEMMA TypeStep == IInv /\ [Next]_vars => TypeOK'
<1> SUFFICES ASSUME IInv, [Next]_vars PROVE TypeOK'
    OBVIOUS
<1>0. TypeOK
    BY DEF IInv
<1>1. CASE UNCHANGED vars
    BY <1>0, <1>1 DEF vars, memberVars, TypeOK
<1>2. ASSUME NEW t \in Txs, BeginStep(t) \/ LockStep(t) \/ Rollback(t)
      PROVE  TypeOK'
    <2>1. TxType'
        BY <1>0, <1>2, BeginFacts, LockFacts, ReleaseFacts
    <2>2. UNCHANGED <<memberVars, hash, session, link, key>>
        BY <1>2 DEF BeginStep, LockStep, Rollback
    <2>3. QED
        BY <1>0, <2>1, <2>2 DEF TypeOK, TxType, memberVars
<1>3. ASSUME NEW t \in Txs, CommitStep(t)
      PROVE  TypeOK'
    <2>1. TxType' /\ tx[t] \in Requests
        BY <1>0, <1>3, ReleaseFacts
    <2>2. tx[t].user \in Users
        BY <2>1, RequestTypes
    <2>3. CASE CommitRegister(t)
        <3>1. tx[t].role \in Roles
            BY <2>3 DEF CommitRegister, IInv, RequestFacts, Roles
        <3>2. QED
            BY <1>0, <2>1, <2>2, <2>3, <3>1 DEF CommitRegister, TypeOK, TxType, Roles
    <2>4. CASE CommitLogin(t)
        <3>1. tx[t].hash \in Nat
            BY <2>1, <2>4, RequestTypes DEF CommitLogin, Holds
        <3>2. QED
            BY <1>0, <2>1, <2>2, <2>4, <3>1 DEF CommitLogin, TypeOK, TxType, memberVars
    <2>5. CASE CommitRequest(t)
        BY <1>0, <2>1, <2>2, <2>5 DEF CommitRequest, TypeOK, TxType, memberVars
    <2>6. CASE CommitComplete(t)
        <3>1. /\ tx[t].link \in Links
              /\ active[tx[t].user]
              /\ link[tx[t].link].status = "active"
            BY <2>1, <2>6, RequestTypes DEF CommitComplete, Holds, IInv, AuthorizationHolds
        <3>2. role[tx[t].user] # "none"
            BY <2>2, <3>1 DEF IInv, MemberRows
        <3>3. link' = [LinksWithout(tx[t].user) EXCEPT ![tx[t].link].status = "used"]
            BY <2>6 DEF CommitComplete
        <3>4. LinksWithout(tx[t].user)[tx[t].link] # NoLink
            BY <1>0, <3>1, LinksWithoutType DEF NoLink
        <3>5. link' \in [Links -> {NoLink} \cup
                 [user : Users, hash : Nat, status : {"active", "used", "revoked"},
                  age : {"new", "old", "expired"}]]
            BY <1>0, <3>1, <3>3, <3>4, LinksWithoutType
        <3>6. session' \in [Sessions -> {NoSession} \cup [user : Users, hash : Nat]]
            BY <1>0, <2>6 DEF CommitComplete, SessionsWithout, TypeOK
        <3>7. hash' \in [Users -> Nat] /\ \A u \in Users : role[u] = "none" <=> hash'[u] = 0
            BY <1>0, <2>2, <2>6, <3>2 DEF CommitComplete, TypeOK
        <3>8. QED
            BY <1>0, <2>1, <2>6, <3>5, <3>6, <3>7 DEF CommitComplete, TypeOK, TxType, memberVars
    <2>7. CASE CommitCreateKey(t)
        BY <1>0, <2>1, <2>2, <2>7 DEF CommitCreateKey, TypeOK, TxType, memberVars
    <2>8. CASE CommitRevokeKey(t)
        <3>1. tx[t].key \in Keys /\ key[tx[t].key].status = "active"
            BY <2>1, <2>8, RequestTypes DEF CommitRevokeKey, Holds, IInv, AuthorizationHolds
        <3>2. key[tx[t].key] \in [user : Users, status : {"active", "revoked"}]
            BY <1>0, <3>1 DEF TypeOK, NoKey
        <3>3. QED
            BY <1>0, <2>1, <2>8, <3>1, <3>2 DEF CommitRevokeKey, TypeOK, TxType, memberVars
    <2>9. CASE CommitUseKey(t)
        BY <1>0, <2>1, <2>9 DEF CommitUseKey, TypeOK, TxType, memberVars
    <2>10. CASE CommitUpdate(t)
        <3>1. /\ tx[t].target \in Users
              /\ tx[t].role \in Roles
              /\ tx[t].active \in BOOLEAN
              /\ tx[t].version = version[tx[t].target]
              /\ tx[t].version > 0
            BY <2>1, <2>10, RequestTypes
            DEF CommitUpdate, Holds, IInv, AuthorizationHolds, RequestFacts
        <3>2. role[tx[t].target] # "none"
            BY <3>1 DEF IInv, MemberRows
        <3>3. session' \in [Sessions -> {NoSession} \cup [user : Users, hash : Nat]]
            BY <1>0, <2>10 DEF CommitUpdate, SessionsWithout, TypeOK
        <3>4. link' \in [Links -> {NoLink} \cup
                 [user : Users, hash : Nat, status : {"active", "used", "revoked"},
                  age : {"new", "old", "expired"}]]
            BY <1>0, <2>10, LinksWithoutType DEF CommitUpdate, TypeOK
        <3>5. /\ role' \in [Users -> Roles \cup {"none"}]
              /\ active' \in [Users -> BOOLEAN]
              /\ version' \in [Users -> Nat]
            BY <1>0, <2>10, <3>1 DEF CommitUpdate, TypeOK
        <3>6. \A u \in Users : role'[u] = "none" <=> hash'[u] = 0
            BY <1>0, <2>10, <3>1, <3>2 DEF CommitUpdate, TypeOK, Roles
        <3>7. QED
            BY <1>0, <2>1, <2>10, <3>3, <3>4, <3>5, <3>6 DEF CommitUpdate, TypeOK, TxType
    <2>11. QED
        BY <1>3, <2>3, <2>4, <2>5, <2>6, <2>7, <2>8, <2>9, <2>10 DEF CommitStep
<1>4. ASSUME NEW s \in Sessions, Logout(s) PROVE TypeOK'
    BY <1>0, <1>4 DEF Logout, TypeOK, memberVars
<1>5. ASSUME NEW l \in Links, NEW age \in {"old", "expired"}, LinkAges(l, age) PROVE TypeOK'
    <2>1. link[l] \in [user : Users, hash : Nat, status : {"active", "used", "revoked"},
                       age : {"new", "old", "expired"}]
        BY <1>0, <1>5 DEF LinkAges, TypeOK, NoLink
    <2>2. QED
        BY <1>0, <1>5, <2>1 DEF LinkAges, TypeOK, memberVars
<1>6. QED
    BY <1>1, <1>2, <1>3, <1>4, <1>5 DEF Next

(***************************************************************************)
(* The locks exclude each other.                                           *)
(***************************************************************************)

\* A request that holds nothing disturbs no lock.
LEMMA QuietLocks ==
    ASSUME LocksExclude, NEW t \in Txs, Alone(t), tx'[t].step \notin {"member", "granted"}
    PROVE  LocksExclude'
<1>1. \A x \in Txs : tx'[x].step \in {"member", "granted"} => x # t /\ tx'[x] = tx[x]
    BY DEF Alone
<1>2. \A x \in Txs : \A kinds : Holds(x, kinds)' => Holds(x, kinds) /\ tx'[x] = tx[x]
    BY <1>1 DEF Holds
<1>3. \A x, y \in Txs : Holds(x, Changing)' /\ Holds(y, Changing)' => x = y
    BY <1>2 DEF LocksExclude
<1>4. \A x, y \in Txs :
          Holds(x, {"update"})' /\ tx'[y].kind \notin Changing
             /\ tx'[y].user \in {tx'[x].user, tx'[x].target}
             => tx'[y].step \notin {"member", "granted"}
    BY <1>1, <1>2 DEF LocksExclude
<1>5. \A x, y \in Txs :
          Holds(x, {"request", "complete"})' /\ Holds(y, Using)'
             /\ tx'[x].user = tx'[y].user => x = y
    BY <1>2 DEF LocksExclude
<1>6. \A x, y \in Txs :
          Holds(x, {"useKey", "revokeKey"})' /\ Holds(y, {"useKey", "revokeKey"})'
             /\ tx'[x].key = tx'[y].key => x = y
    BY <1>2 DEF LocksExclude
<1>7. QED
    BY <1>3, <1>4, <1>5, <1>6 DEF LocksExclude, Changing, Using

\* A request that is granted its locks found them free, and what it checks true.
LEMMA ToGranted ==
    ASSUME TypeOK, NEW t \in Txs, LockStep(t), tx'[t].step = "granted"
    PROVE  /\ tx[t].kind = "register" => GrantRegister(t)
           /\ tx[t].kind = "login" => GrantLogin(t)
           /\ tx[t].kind = "request" => GrantRequest(t)
           /\ tx[t].kind = "complete" => GrantComplete(t)
           /\ tx[t].kind = "createKey" => GrantCreateKey(t)
           /\ tx[t].kind = "revokeKey" => GrantRevokeKey(t)
           /\ tx[t].kind = "useKey" => GrantUseKey(t)
           /\ tx[t].kind = "update" => GrantUpdate(t)
<1>1. ~LockMember(t)
    <2>1. SUFFICES ASSUME LockMember(t) PROVE FALSE
        OBVIOUS
    <2>2. tx[t] # Idle
        BY <2>1 DEF LockMember, Idle
    <2>3. tx'[t].step = "member"
        BY <2>1, <2>2, ToStep DEF LockMember, TypeOK, Steps
    <2>4. QED
        BY <2>3
<1>2. QED
    BY <1>1 DEF LockStep, GrantLogin, GrantRequest, GrantComplete, GrantCreateKey,
        GrantRevokeKey, GrantUseKey, GrantRegister, GrantUpdate

\* A request takes a lock only where no other holds one that excludes it.
LEMMA LockLocks ==
    ASSUME TypeOK, LocksExclude, NEW t \in Txs, LockStep(t)
    PROVE  LocksExclude'
<1>1. /\ Alone(t)
      /\ tx[t] \in Requests
      /\ tx'[t].step \in {"member", "granted"}
      /\ tx'[t].kind = tx[t].kind
      /\ tx'[t].user = tx[t].user
      /\ tx[t].kind # "register" => SameRequest(tx'[t], tx[t])
    BY LockFacts
<1>2. \A x \in Txs \ {t} : tx'[x] = tx[x]
    BY <1>1 DEF Alone
<1>3. \A x, y \in Txs : Holds(x, Changing)' /\ Holds(y, Changing)' => x = y
    <2>1. CASE tx[t].kind \in Changing
        <3>1. OrganizationFree
            BY <2>1 DEF LockStep, LockMember, GrantLogin, GrantRequest, GrantComplete,
                GrantCreateKey, GrantRevokeKey, GrantUseKey, GrantRegister, GrantUpdate, Changing
        <3>2. QED
            BY <1>2, <3>1 DEF OrganizationFree, Holds, Changing
    <2>2. CASE tx[t].kind \notin Changing
        BY <1>1, <1>2, <2>2 DEF LocksExclude, Holds, Changing
    <2>3. QED
        BY <2>1, <2>2
<1>4. \A x, y \in Txs :
          Holds(x, {"update"})' /\ tx'[y].kind \notin Changing
             /\ tx'[y].user \in {tx'[x].user, tx'[x].target}
             => tx'[y].step \notin {"member", "granted"}
    <2>1. CASE tx[t].kind = "update"
        <3>1. GrantUpdate(t)
            BY <2>1 DEF LockStep, LockMember, GrantLogin, GrantRequest, GrantComplete,
                GrantCreateKey, GrantRevokeKey, GrantUseKey, GrantRegister
        <3>2. \A x \in Txs : Holds(x, {"update"})' => x = t
            BY <1>2, <3>1 DEF GrantUpdate, OrganizationFree, Holds
        <3>3. \A y \in Txs : tx[y].kind \notin Changing
                 /\ tx[y].user \in {tx[t].user, tx[t].target} => tx[y].step = "ready"
            BY <3>1 DEF GrantUpdate, MembershipFree, Changing
        <3>4. tx'[t].target = tx[t].target /\ tx'[t].kind = "update"
            BY <1>1, <2>1 DEF SameRequest
        <3>5. QED
            BY <1>1, <1>2, <3>2, <3>3, <3>4 DEF Changing
    <2>2. CASE tx[t].kind = "register"
        BY <1>1, <1>2, <2>2 DEF LocksExclude, Holds, Changing
    <2>3. CASE tx[t].kind \notin Changing
        <3>1. CASE tx[t].step = "ready"
            <4>1. LockMember(t)
                BY <2>3, <3>1 DEF LockStep, LockMember, GrantLogin, GrantRequest, GrantComplete,
                    GrantCreateKey, GrantRevokeKey, GrantUseKey, GrantRegister, GrantUpdate,
                    Changing
            <4>2. ~Administered(tx[t].user)
                BY <4>1 DEF LockMember
            <4>3. \A x \in Txs : Holds(x, {"update"})' => x # t /\ Holds(x, {"update"})
                BY <1>1, <1>2, <2>3 DEF Holds, Changing
            <4>4. QED
                BY <1>1, <1>2, <4>2, <4>3 DEF Administered, LocksExclude
        <3>2. CASE tx[t].step # "ready"
            <4>1. tx[t].step \in {"member", "granted"}
                BY <1>1, <3>2, RequestTypes DEF Steps
            <4>2. \A x \in Txs : Holds(x, {"update"})' => x # t /\ Holds(x, {"update"})
                BY <1>1, <1>2, <2>3 DEF Holds, Changing
            <4>3. QED
                BY <1>1, <1>2, <2>3, <4>1, <4>2 DEF LocksExclude
        <3>3. QED
            BY <3>1, <3>2
    <2>4. QED
        BY <2>1, <2>2, <2>3 DEF Changing
<1>5. \A x, y \in Txs :
          Holds(x, {"request", "complete"})' /\ Holds(y, Using)'
             /\ tx'[x].user = tx'[y].user => x = y
    <2>1. CASE tx'[t].step = "granted" /\ tx[t].kind \in {"request", "complete"}
        <3>1. CredentialFree(tx[t].user, Using)
            BY <1>1, <2>1, ToGranted DEF GrantRequest, GrantComplete, Using
        <3>2. QED
            BY <1>1, <1>2, <2>1, <3>1 DEF CredentialFree, Holds, LocksExclude, Using
    <2>2. CASE tx'[t].step = "granted" /\ tx[t].kind = "login"
        <3>1. CredentialFree(tx[t].user, {"request", "complete"})
            BY <1>1, <2>2, ToGranted DEF GrantLogin
        <3>2. QED
            BY <1>1, <1>2, <2>2, <3>1 DEF CredentialFree, Holds, LocksExclude, Using
    <2>3. CASE tx'[t].step # "granted" \/ tx[t].kind \notin Using
        BY <1>1, <1>2, <2>3 DEF Holds, LocksExclude, Using
    <2>4. QED
        BY <2>1, <2>2, <2>3 DEF Using
<1>6. \A x, y \in Txs :
          Holds(x, {"useKey", "revokeKey"})' /\ Holds(y, {"useKey", "revokeKey"})'
             /\ tx'[x].key = tx'[y].key => x = y
    <2>1. CASE tx'[t].step = "granted" /\ tx[t].kind \in {"useKey", "revokeKey"}
        <3>1. KeyFree(tx[t].key)
            BY <1>1, <2>1, ToGranted DEF GrantUseKey, GrantRevokeKey
        <3>2. tx'[t].key = tx[t].key
            BY <1>1, <2>1 DEF SameRequest
        <3>3. QED
            BY <1>1, <1>2, <2>1, <3>1, <3>2 DEF KeyFree, Holds, LocksExclude
    <2>2. CASE tx'[t].step # "granted" \/ tx[t].kind \notin {"useKey", "revokeKey"}
        BY <1>1, <1>2, <2>2 DEF Holds, LocksExclude
    <2>3. QED
        BY <2>1, <2>2
<1>7. QED
    BY <1>3, <1>4, <1>5, <1>6 DEF LocksExclude, Changing, Using

(***************************************************************************)
(* What a request checked stays true while it holds its locks.             *)
(***************************************************************************)

\* What a request knows of the rows it read and locked, RequestFacts and
\* AuthorizationHolds for one request r.
Known(r) ==
    /\ r.kind = "complete" => link[r.link].user = r.user
    /\ r.kind = "update" => r.version > 0
    /\ r.step = "member" => active[r.user] /\ r.kind \notin Changing
    /\ r.step = "granted" =>
         /\ r.kind = "register" => /\ role[r.user] = "none"
                                   /\ r.role \in {"owner", "member"}
                                   /\ r.role = "owner" <=> ~initialized
         /\ r.kind # "register" => active[r.user]
         /\ r.kind = "request" =>
              ~\E l \in Links : link[l].user = r.user /\ link[l].status = "active"
                                  /\ link[l].age = "new"
         /\ r.kind = "login" => r.hash = hash[r.user]
         /\ r.kind = "complete" => link[r.link].status = "active"
         /\ r.kind \in {"createKey", "revokeKey"} => session[r.session].user = r.user
         /\ r.kind \in {"useKey", "revokeKey"} => key[r.key].status = "active"
         /\ r.kind = "update" => /\ r.version = version[r.target]
                                 /\ CanManage(role[r.user], role[r.target])
                                 /\ LeavesOwner(r.target, r.role, r.active)

\* Known, request by request, is RequestFacts and AuthorizationHolds.
LEMMA KnownIsAll ==
    (\A t \in Txs : Known(tx[t])) <=> RequestFacts /\ AuthorizationHolds
    BY DEF Known, RequestFacts, AuthorizationHolds, Holds

\* Whoever takes a lock has checked what it knows; the others are not concerned.
LEMMA LockKnown ==
    ASSUME TypeOK, NEW t \in Txs, LockStep(t), \A x \in Txs : Known(tx[x])
    PROVE  \A x \in Txs : Known(tx[x])'
<1>1. /\ Alone(t)
      /\ tx[t] \in Requests
      /\ tx'[t].step \in {"member", "granted"}
      /\ tx'[t].kind = tx[t].kind
      /\ tx'[t].user = tx[t].user
      /\ tx[t].kind # "register" => SameRequest(tx'[t], tx[t])
    BY LockFacts
<1>2. UNCHANGED <<role, active, version, initialized, hash, session, link, key>>
    BY DEF LockStep, memberVars
<1>3. \A x \in Txs \ {t} : Known(tx[x])'
    BY <1>1, <1>2 DEF Alone, Known, LeavesOwner, Owner
<1> SUFFICES Known(tx[t])'
    BY <1>3
<1>4. CASE tx'[t].step = "member"
    <2>1. LockMember(t)
        <3>1. ~GrantRegister(t)
            BY <1>4, RegisterStep DEF TypeOK
        <3>2. ASSUME To(t, "granted") PROVE FALSE
            BY <1>1, <1>4, <3>2, ToStep DEF TypeOK, Steps, Idle, Requests
        <3>3. QED
            BY <3>1, <3>2 DEF LockStep, GrantLogin, GrantRequest, GrantComplete,
                GrantCreateKey, GrantRevokeKey, GrantUseKey, GrantUpdate
    <2>2. active[tx[t].user] /\ tx[t].kind \notin {"register", "update"}
        BY <2>1 DEF LockMember
    <2>3. Known(tx[t])
        OBVIOUS
    <2>4. QED
        BY <1>1, <1>2, <1>4, <2>2, <2>3 DEF Known, SameRequest, Changing
<1>5. CASE tx'[t].step = "granted"
    <2>1. CASE tx[t].kind = "register"
        <3>1. GrantRegister(t)
            BY <1>1, <2>1, <1>5, ToGranted
        <3>2. tx'[t].role = IF initialized THEN "member" ELSE "owner"
            BY <3>1, RegisterStep DEF TypeOK
        <3>3. role[tx[t].user] = "none"
            BY <3>1 DEF GrantRegister
        <3>4. QED
            BY <1>1, <1>2, <1>5, <2>1, <3>2, <3>3 DEF Known
    <2>2. CASE tx[t].kind = "update"
        <3>1. GrantUpdate(t)
            BY <1>1, <2>2, <1>5, ToGranted
        <3>2. /\ active[tx[t].user]
              /\ CanManage(role[tx[t].user], role[tx[t].target])
              /\ version[tx[t].target] = tx[t].version
              /\ LeavesOwner(tx[t].target, tx[t].role, tx[t].active)
            BY <3>1 DEF GrantUpdate
        <3>3. Known(tx[t])
            OBVIOUS
        <3>4. /\ tx'[t].kind = "update" /\ tx'[t].target = tx[t].target
              /\ tx'[t].role = tx[t].role /\ tx'[t].active = tx[t].active
              /\ tx'[t].version = tx[t].version
            BY <1>1, <2>2 DEF SameRequest
        <3>5. LeavesOwner(tx[t].target, tx[t].role, tx[t].active)'
            BY <1>2, <3>2, <3>4 DEF LeavesOwner, Owner
        <3>6. tx'[t].version > 0
            BY <2>2, <3>3, <3>4 DEF Known
        <3>7. QED
            BY <1>1, <1>2, <1>5, <3>2, <3>4, <3>5, <3>6 DEF Known
    <2>3. CASE tx[t].kind \notin {"register", "update"}
        <3>1. tx[t].step = "member" /\ Known(tx[t])
            BY <1>1, <1>5, <2>3, ToGranted, RequestTypes DEF GrantLogin, GrantRequest,
                GrantComplete, GrantCreateKey, GrantRevokeKey, GrantUseKey
        <3>2. active[tx[t].user]
            BY <3>1 DEF Known
        <3>3. CASE tx[t].kind = "login"
            BY <1>1, <1>2, <1>5, <3>2, <3>3, ToGranted DEF GrantLogin, Known, SameRequest
        <3>4. CASE tx[t].kind = "request"
            BY <1>1, <1>2, <1>5, <3>2, <3>4, ToGranted DEF GrantRequest, Known, SameRequest
        <3>5. CASE tx[t].kind = "complete"
            BY <1>1, <1>2, <1>5, <3>1, <3>2, <3>5, ToGranted
            DEF GrantComplete, Usable, Known, SameRequest
        <3>6. CASE tx[t].kind = "createKey"
            BY <1>1, <1>2, <1>5, <3>2, <3>6, ToGranted DEF GrantCreateKey, Known, SameRequest
        <3>7. CASE tx[t].kind = "revokeKey"
            <4>1. GrantRevokeKey(t)
                BY <1>1, <1>5, <3>7, ToGranted
            <4>2. /\ session[tx[t].session].user = tx[t].user
                  /\ key[tx[t].key].status = "active"
                BY <4>1 DEF GrantRevokeKey
            <4>3. /\ tx'[t].kind = "revokeKey" /\ tx'[t].session = tx[t].session
                  /\ tx'[t].key = tx[t].key
                BY <1>1, <3>7 DEF SameRequest
            <4>4. QED
                BY <1>1, <1>2, <1>5, <3>2, <4>2, <4>3 DEF Known
        <3>8. CASE tx[t].kind = "useKey"
            BY <1>1, <1>2, <1>5, <3>2, <3>8, ToGranted DEF GrantUseKey, Known, SameRequest
        <3>9. QED
            BY <1>1, <2>3, <3>3, <3>4, <3>5, <3>6, <3>7, <3>8, RequestTypes
    <2>4. QED
        BY <2>1, <2>2, <2>3
<1>6. QED
    BY <1>1, <1>4, <1>5

\* Idle requests and requests of a kind.
LEMMA TxFields ==
    ASSUME TypeOK, NEW x \in Txs
    PROVE  /\ tx[x].step = "idle" \/ tx[x].step \in Steps
           /\ tx[x].kind # "none" => tx[x] \in Requests
           /\ tx[x].step \in {"member", "granted"} => tx[x] \in Requests
    BY RequestTypes DEF TypeOK, Idle, Steps

\* A commit changes no row that another request has locked or still relies on.
LEMMA CommitKnown ==
    ASSUME TypeOK, LocksExclude, MemberRows, NEW t \in Txs, CommitStep(t),
           \A x \in Txs : Known(tx[x])
    PROVE  \A x \in Txs : Known(tx[x])'
<1>1. /\ Alone(t)
      /\ tx[t] \in Requests
      /\ tx'[t].step \in {"idle", "ready"}
      /\ tx'[t].kind \in {"none", "login"}
    BY ReleaseFacts
<1>2. Known(tx[t])'
    BY <1>1 DEF Known
<1> SUFFICES ASSUME NEW x \in Txs, x # t
             PROVE  Known(tx[x])'
    BY <1>2
<1>3. tx'[x] = tx[x] /\ Known(tx[x]) /\ Known(tx[t])
    BY <1>1 DEF Alone
<1>4. tx[x].step \in {"member", "granted"} \/ tx[x].kind = "complete" => tx[x] \in Requests
    BY TxFields
<1>5. CASE CommitRegister(t)
    <2>1. Holds(t, {"register"}) /\ tx[t].user \in Users
        BY <1>1, <1>5, RequestTypes DEF CommitRegister
    <2>2. tx[x].step = "granted" => tx[x].kind \notin Changing
        BY <2>1 DEF LocksExclude, Holds, Changing
    <2>3. role[tx[t].user] = "none"
        BY <1>3, <2>1 DEF Known, Holds
    <2>4. ASSUME tx[x].step \in {"member", "granted"}, active[tx[x].user]
          PROVE  active'[tx[x].user] /\ hash'[tx[x].user] = hash[tx[x].user]
        <3>1. tx[x].user \in Users
            BY <1>4, <2>4, RequestTypes
        <3>2. tx[x].user # tx[t].user
            BY <2>3, <2>4, <3>1 DEF MemberRows
        <3>3. QED
            BY <1>5, <2>4, <3>1, <3>2 DEF CommitRegister, TypeOK
    <2>5. UNCHANGED <<session, link, key>>
        BY <1>5 DEF CommitRegister
    <2>6. QED
        BY <1>3, <2>2, <2>4, <2>5 DEF Known, Changing
<1>6. CASE CommitLogin(t)
    <2>1. PICK s \in Sessions :
             /\ Unused(s)
             /\ session' = [session EXCEPT ![s] = [user |-> tx[t].user, hash |-> tx[t].hash]]
        BY <1>6 DEF CommitLogin
    <2>2. tx[x].kind \in {"createKey", "revokeKey"}
             => session'[tx[x].session] = session[tx[x].session]
        BY <2>1 DEF Unused, TypeOK
    <2>3. UNCHANGED <<role, active, version, initialized, hash, link, key>>
        BY <1>6 DEF CommitLogin, memberVars
    <2>4. QED
        BY <1>3, <2>2, <2>3 DEF Known, LeavesOwner, Owner
<1>7. CASE CommitRequest(t)
    <2>1. PICK l \in Links :
             /\ link[l] = NoLink
             /\ link' = [link EXCEPT ![l] = [user |-> tx[t].user, hash |-> hash[tx[t].user],
                                             status |-> "active", age |-> "new"]]
        BY <1>7 DEF CommitRequest
    <2>2. ASSUME tx[x].kind = "complete" PROVE link'[tx[x].link] = link[tx[x].link]
        <3>1. tx[x].link \in Links /\ link[tx[x].link].user \in Users
            BY <1>3, <1>4, <2>2, RequestTypes DEF Known
        <3>2. tx[x].link # l
            BY <2>1, <3>1, AccountsAssumption DEF NoLink
        <3>3. QED
            BY <2>1, <3>1, <3>2 DEF TypeOK
    <2>3. tx[x].kind = "request" /\ tx[x].step = "granted" => tx[x].user # tx[t].user
        BY <1>7 DEF CommitRequest, LocksExclude, Holds, Using
    <2>4. \A m \in Links : link'[m] = link[m] \/ link'[m].user = tx[t].user
        BY <2>1 DEF TypeOK
    <2>5. UNCHANGED <<role, active, version, initialized, hash, session, key>>
        BY <1>7 DEF CommitRequest, memberVars
    <2>6. QED
        BY <1>3, <2>2, <2>3, <2>4, <2>5 DEF Known, LeavesOwner, Owner
<1>8. CASE CommitComplete(t)
    <2> DEFINE u == tx[t].user
    <2>1. Holds(t, {"complete"}) /\ u \in Users /\ tx[t].link \in Links
        BY <1>1, <1>8, RequestTypes DEF CommitComplete, Holds
    <2>2. tx[x].step = "granted" /\ tx[x].kind \in Using => tx[x].user # u
        BY <2>1 DEF LocksExclude, Holds, Using
    <2>3. link[tx[t].link].user = u
        BY <1>3, <2>1 DEF Known, Holds
    <2>4. \A l \in Links : /\ link'[l].user = link[l].user
                           /\ link[l].user # u => link'[l] = link[l]
        BY <1>8, <2>1, <2>3, CompleteLinks
    <2>5. ASSUME tx[x].kind \in {"createKey", "revokeKey"}, tx[x].step = "granted",
                 session[tx[x].session].user = tx[x].user
          PROVE  session'[tx[x].session] = session[tx[x].session]
        <3>1. tx[x].session \in Sessions
            BY <1>4, <2>5, RequestTypes
        <3>2. ~SessionFree(tx[x].session)
            BY <2>5 DEF SessionFree, Holds
        <3>3. session[tx[x].session].user # u
            BY <1>8, <3>1, <3>2 DEF CommitComplete
        <3>4. QED
            BY <1>8, <3>1, <3>3 DEF CommitComplete, SessionsWithout, TypeOK
    <2>6. tx[x].step = "granted" /\ tx[x].kind = "login" => hash'[tx[x].user] = hash[tx[x].user]
        BY <1>8, <1>4, <2>1, <2>2, RequestTypes DEF CommitComplete, TypeOK, Using
    <2>7. UNCHANGED <<role, active, version, initialized, key>>
        BY <1>8 DEF CommitComplete, memberVars
    <2>8. tx[x].kind = "complete" => tx[x].link \in Links
        BY <1>4, RequestTypes
    <2> HIDE DEF u
    <2>9. QED
        BY <1>3, <2>2, <2>4, <2>5, <2>6, <2>7, <2>8 DEF Known, LeavesOwner, Owner, Using
<1>9. CASE CommitCreateKey(t)
    <2>1. PICK k \in Keys :
             /\ key[k] = NoKey
             /\ key' = [key EXCEPT ![k] = [user |-> tx[t].user, status |-> "active"]]
        BY <1>9 DEF CommitCreateKey
    <2>2. \A k2 : key[k2].status = "active" => key'[k2].status = "active"
        BY <2>1 DEF TypeOK, NoKey
    <2>3. UNCHANGED <<role, active, version, initialized, hash, session, link>>
        BY <1>9 DEF CommitCreateKey, memberVars
    <2>4. QED
        BY <1>3, <2>2, <2>3 DEF Known, LeavesOwner, Owner
<1>10. CASE CommitRevokeKey(t)
    <2>1. tx[x].kind \in {"useKey", "revokeKey"} /\ tx[x].step = "granted"
             => key'[tx[x].key] = key[tx[x].key]
        BY <1>10, <1>4, RequestTypes DEF CommitRevokeKey, LocksExclude, Holds, TypeOK
    <2>2. UNCHANGED <<role, active, version, initialized, hash, session, link>>
        BY <1>10 DEF CommitRevokeKey, memberVars
    <2>3. QED
        BY <1>3, <2>1, <2>2 DEF Known, LeavesOwner, Owner
<1>11. CASE CommitUseKey(t)
    BY <1>3, <1>11 DEF CommitUseKey, memberVars, Known, LeavesOwner, Owner
<1>12. CASE CommitUpdate(t)
    <2> DEFINE v == tx[t].target
    <2>1. Holds(t, {"update"}) /\ v \in Users
        BY <1>1, <1>12, RequestTypes DEF CommitUpdate, Holds
    <2>2. tx[x].step = "granted" => tx[x].kind \notin Changing
        BY <2>1 DEF LocksExclude, Holds, Changing
    <2>3. tx[x].step = "member" => tx[x].kind \notin Changing
        BY <1>3 DEF Known, Changing
    <2>4. tx[x].step \in {"member", "granted"} => tx[x].user # v
        BY <2>1, <2>2, <2>3 DEF LocksExclude
    <2>5. \A l \in Links : /\ link'[l].user = link[l].user
                           /\ link[l].user # v => link'[l] = link[l]
        BY <1>12, LinksWithoutType DEF CommitUpdate, LinksWithout, TypeOK
    <2>6. \A s \in Sessions : session[s].user # v => session'[s] = session[s]
        BY <1>12 DEF CommitUpdate, SessionsWithout, TypeOK
    <2>7. \A w \in Users : w # v => active'[w] = active[w]
        BY <1>12, <2>1 DEF CommitUpdate, TypeOK
    <2>8. UNCHANGED <<hash, key>>
        BY <1>12 DEF CommitUpdate
    <2>9. /\ tx[x].step \in {"member", "granted"} => tx[x].user \in Users
          /\ tx[x].kind = "complete" => tx[x].link \in Links
          /\ tx[x].step = "granted" /\ tx[x].kind \in {"createKey", "revokeKey"}
                => tx[x].session \in Sessions
        BY <1>4, RequestTypes
    <2> HIDE DEF v
    <2>10. QED
        BY <1>3, <2>2, <2>4, <2>5, <2>6, <2>7, <2>8, <2>9 DEF Known, Changing
<1>13. QED
    BY <1>5, <1>6, <1>7, <1>8, <1>9, <1>10, <1>11, <1>12 DEF CommitStep

(***************************************************************************)
(* What the committed rows look like.                                      *)
(***************************************************************************)

\* The part of the invariant that is about rows only.
RowInv ==
    /\ MemberRows
    /\ UsedFinite
    /\ SessionsAreCurrent
    /\ LinksAreCurrent
    /\ OneRecentLink
    /\ OneChangePerLink
    /\ OwnerRemains

\* OneChangePerLink, with its set named.
LEMMA ChangesCounted ==
    OneChangePerLink <=>
        \A u \in Users : role[u] # "none" => hash[u] = 1 + Cardinality(UsedLinks(u))
    BY DEF OneChangePerLink, UsedLinks

\* Rows that a step leaves alone keep what is said of them.
LEMMA OtherRows ==
    ASSUME RowInv, UNCHANGED <<role, active, version, initialized, hash, link>>
    PROVE  /\ MemberRows' /\ UsedFinite' /\ LinksAreCurrent' /\ OneRecentLink'
           /\ OneChangePerLink' /\ OwnerRemains'
<1>1. \A u \in Users : UsedLinks(u)' = UsedLinks(u)
    BY DEF UsedLinks
<1>2. MemberRows'
    BY DEF RowInv, MemberRows
<1>3. UsedFinite'
    BY <1>1 DEF RowInv, UsedFinite
<1>4. LinksAreCurrent'
    BY DEF RowInv, LinksAreCurrent
<1>5. OneRecentLink'
    BY DEF RowInv, OneRecentLink
<1>6. OneChangePerLink'
    BY DEF RowInv, OneChangePerLink
<1>7. OwnerRemains'
    BY DEF RowInv, OwnerRemains, Owner
<1>8. QED
    BY <1>2, <1>3, <1>4, <1>5, <1>6, <1>7

\* A step that uses no link and changes no password keeps the count.
LEMMA UsedSame ==
    ASSUME OneChangePerLink, UNCHANGED <<role, hash>>,
           \A u \in Users : UsedLinks(u)' = UsedLinks(u)
    PROVE  OneChangePerLink'
<1>1. \A u \in Users : role'[u] # "none" => hash'[u] = 1 + Cardinality(UsedLinks(u)')
    BY ChangesCounted
<1>2. QED
    BY <1>1 DEF OneChangePerLink, UsedLinks

\* A new member has neither sessions nor links, and is the owner of an
\* organization that had none.
LEMMA RegisterRows ==
    ASSUME IInv, NEW t \in Txs, CommitRegister(t)
    PROVE  RowInv'
<1> DEFINE u == tx[t].user
<1>1. /\ TypeOK /\ RowInv
      /\ u \in Users
      /\ role[u] = "none"
      /\ tx[t].role \in {"owner", "member"}
      /\ tx[t].role = "owner" <=> ~initialized
    BY ReleaseFacts, RequestTypes
    DEF IInv, RowInv, CommitRegister, CommitStep, RequestFacts, AuthorizationHolds, Holds
<1>2. /\ role' = [role EXCEPT ![u] = tx[t].role]
      /\ active' = [active EXCEPT ![u] = TRUE]
      /\ version' = [version EXCEPT ![u] = 1]
      /\ initialized'
      /\ hash' = [hash EXCEPT ![u] = 1]
      /\ UNCHANGED <<session, link, key>>
    BY DEF CommitRegister
<1>3. ~active[u] /\ hash[u] = 0
    BY <1>1 DEF RowInv, MemberRows, TypeOK
<1> HIDE DEF u
<1>4. MemberRows'
    BY <1>1, <1>2 DEF RowInv, MemberRows, TypeOK
<1>5. SessionsAreCurrent'
    <2>1. SUFFICES ASSUME NEW s \in Sessions, session[s] # NoSession
                   PROVE  active'[session[s].user] /\ session[s].hash = hash'[session[s].user]
        BY <1>2 DEF SessionsAreCurrent
    <2>2. session[s].user \in Users /\ active[session[s].user]
             /\ session[s].hash = hash[session[s].user]
        BY <1>1, <2>1 DEF RowInv, SessionsAreCurrent, TypeOK
    <2>3. QED
        BY <1>1, <1>2, <1>3, <2>2 DEF TypeOK
<1>6. LinksAreCurrent'
    <2>1. SUFFICES ASSUME NEW l \in Links, link[l].status = "active"
                   PROVE  active'[link[l].user] /\ link[l].hash = hash'[link[l].user]
        BY <1>2 DEF LinksAreCurrent
    <2>2. link[l].user \in Users /\ active[link[l].user]
             /\ link[l].hash = hash[link[l].user]
        BY <1>1, <2>1 DEF RowInv, LinksAreCurrent, TypeOK, NoLink
    <2>3. QED
        BY <1>1, <1>2, <1>3, <2>2 DEF TypeOK
<1>7. UsedFinite' /\ OneRecentLink'
    <2>1. \A v \in Users : UsedLinks(v)' = UsedLinks(v)
        BY <1>2 DEF UsedLinks
    <2>2. UsedFinite'
        BY <1>1, <2>1 DEF RowInv, UsedFinite
    <2>3. OneRecentLink'
        <3>1. OneRecentLink /\ link' = link
            BY <1>1, <1>2 DEF RowInv
        <3>2. QED
            BY <3>1 DEF OneRecentLink
    <2>4. QED
        BY <2>2, <2>3
<1>8. OneChangePerLink'
    <2>1. UsedLinks(u) = {}
        BY <1>1 DEF RowInv, MemberRows, UsedLinks
    <2>2. \A v \in Users : UsedLinks(v)' = UsedLinks(v)
        BY <1>2 DEF UsedLinks
    <2>3. Cardinality({}) = 0
        BY FS_EmptySet
    <2>4. \A v \in Users : role'[v] # "none" => hash'[v] = 1 + Cardinality(UsedLinks(v))
        <3>1. \A v \in Users : role[v] # "none" => hash[v] = 1 + Cardinality(UsedLinks(v))
            BY <1>1, ChangesCounted DEF RowInv
        <3>2. hash'[u] = 1 + Cardinality(UsedLinks(u))
            BY <1>1, <1>2, <2>1, <2>3 DEF TypeOK
        <3>3. \A v \in Users \ {u} : role'[v] = role[v] /\ hash'[v] = hash[v]
            BY <1>1, <1>2 DEF TypeOK
        <3>4. QED
            BY <3>1, <3>2, <3>3
    <2>5. QED
        BY <2>2, <2>4 DEF OneChangePerLink, UsedLinks
<1>9. OwnerRemains'
    <2>1. CASE initialized
        <3>1. PICK v \in Users : Owner(v)
            BY <1>1, <2>1 DEF RowInv, OwnerRemains
        <3>2. v # u
            BY <1>1, <3>1 DEF Owner
        <3>3. Owner(v)'
            BY <1>1, <1>2, <3>1, <3>2 DEF Owner, TypeOK
        <3>4. QED
            BY <3>3 DEF OwnerRemains
    <2>2. CASE ~initialized
        <3>1. role'[u] = "owner" /\ active'[u]
            BY <1>1, <1>2, <2>2 DEF TypeOK
        <3>2. QED
            BY <1>1, <3>1 DEF OwnerRemains, Owner
    <2>3. QED
        BY <2>1, <2>2
<1>10. QED
    BY <1>4, <1>5, <1>6, <1>7, <1>8, <1>9 DEF RowInv

\* A sign-in adds a session of the present password; nothing else changes.
LEMMA LoginRows ==
    ASSUME IInv, NEW t \in Txs, CommitLogin(t)
    PROVE  RowInv'
<1>1. /\ TypeOK /\ RowInv
      /\ tx[t].user \in Users
      /\ active[tx[t].user]
      /\ tx[t].hash = hash[tx[t].user]
    BY ReleaseFacts, RequestTypes
    DEF IInv, RowInv, CommitLogin, CommitStep, AuthorizationHolds, Holds
<1>2. PICK s \in Sessions :
        session' = [session EXCEPT ![s] = [user |-> tx[t].user, hash |-> tx[t].hash]]
    BY DEF CommitLogin
<1>3. UNCHANGED <<role, active, version, initialized, hash, link, key>>
    BY DEF CommitLogin, memberVars
<1>4. SessionsAreCurrent'
    BY <1>1, <1>2, <1>3 DEF RowInv, SessionsAreCurrent, TypeOK
<1>5. QED
    BY <1>1, <1>3, <1>4, OtherRows DEF RowInv

\* A reset request adds the only recent link of the member, for the present password.
LEMMA RequestRows ==
    ASSUME IInv, NEW t \in Txs, CommitRequest(t)
    PROVE  RowInv'
<1>1. /\ TypeOK /\ RowInv
      /\ tx[t].user \in Users
      /\ active[tx[t].user]
      /\ \A l \in Links : link[l].user = tx[t].user /\ link[l].status = "active"
                             => link[l].age # "new"
    BY ReleaseFacts, RequestTypes
    DEF IInv, RowInv, CommitRequest, CommitStep, AuthorizationHolds, RequestFacts, Holds
<1> DEFINE row == [user |-> tx[t].user, hash |-> hash[tx[t].user],
                   status |-> "active", age |-> "new"]
<1>2. PICK l \in Links : link[l] = NoLink /\ link' = [link EXCEPT ![l] = row]
    BY DEF CommitRequest
<1>3. UNCHANGED <<role, active, version, initialized, hash, session, key>>
    BY DEF CommitRequest, memberVars
<1>4. link'[l] = row /\ \A m \in Links \ {l} : link'[m] = link[m]
    BY <1>1, <1>2 DEF TypeOK
<1>5. role[tx[t].user] # "none"
    BY <1>1 DEF RowInv, MemberRows
<1>6. MemberRows'
    BY <1>1, <1>3, <1>4, <1>5 DEF RowInv, MemberRows
<1>7. LinksAreCurrent'
    BY <1>1, <1>3, <1>4 DEF RowInv, LinksAreCurrent
<1>8. OneRecentLink'
    BY <1>1, <1>4 DEF RowInv, OneRecentLink
<1>9. \A u \in Users : UsedLinks(u)' = UsedLinks(u)
    BY <1>2, <1>4 DEF UsedLinks, NoLink
<1>10. UsedFinite'
    BY <1>1, <1>9 DEF RowInv, UsedFinite
<1>11. OneChangePerLink'
    BY <1>1, <1>3, <1>9, UsedSame DEF RowInv
<1>12. SessionsAreCurrent' /\ OwnerRemains'
    BY <1>1, <1>3 DEF RowInv, SessionsAreCurrent, OwnerRemains, Owner
<1>13. QED
    BY <1>6, <1>7, <1>8, <1>10, <1>11, <1>12 DEF RowInv

\* A password reset: every session and every other link of the member ends, and
\* one more link is used.
LEMMA CompleteRows ==
    ASSUME IInv, NEW t \in Txs, CommitComplete(t)
    PROVE  RowInv'
<1>0. /\ tx[t].user \in Users /\ tx[t].link \in Links
      /\ active[tx[t].user]
      /\ link[tx[t].link].user = tx[t].user /\ link[tx[t].link].status = "active"
    BY ReleaseFacts, RequestTypes
    DEF IInv, RowInv, CommitComplete, CommitStep, AuthorizationHolds, RequestFacts, Holds
<1> PICK u \in Users, L \in Links : u = tx[t].user /\ L = tx[t].link
    BY <1>0
<1>1. /\ TypeOK /\ RowInv
      /\ active[u]
      /\ link[L].user = u /\ link[L].status = "active"
    BY <1>0 DEF IInv, RowInv
<1>2. \A l \in Links :
        /\ link'[l].user = link[l].user
        /\ link'[l].hash = link[l].hash
        /\ link'[l].age = link[l].age
        /\ link[l].user # u => link'[l] = link[l]
        /\ link'[l].status = IF l = L THEN "used"
                             ELSE IF link[l].user = u /\ link[l].status = "active"
                             THEN "revoked" ELSE link[l].status
    BY <1>1, CompleteLinks
<1>3. /\ UNCHANGED <<role, active, version, initialized, key>>
      /\ hash' = [hash EXCEPT ![u] = @ + 1]
      /\ session' = SessionsWithout(u)
    BY DEF CommitComplete, memberVars
<1>4. role[u] # "none"
    BY <1>1 DEF RowInv, MemberRows
<1>5. MemberRows'
    BY <1>1, <1>2, <1>3 DEF RowInv, MemberRows
<1>6. SessionsAreCurrent'
    <2>1. SUFFICES ASSUME NEW s \in Sessions, session'[s] # NoSession
                   PROVE  active[session'[s].user] /\ session'[s].hash = hash'[session'[s].user]
        BY <1>3 DEF SessionsAreCurrent
    <2>2. session'[s] = session[s] /\ session[s].user # u
        BY <1>3, <2>1 DEF SessionsWithout, NoSession
    <2>3. session[s].user \in Users
        BY <1>1, <2>1, <2>2 DEF TypeOK
    <2>4. QED
        BY <1>1, <1>3, <2>1, <2>2, <2>3 DEF RowInv, SessionsAreCurrent, TypeOK
<1>7. LinksAreCurrent'
    <2>1. SUFFICES ASSUME NEW l \in Links, link'[l].status = "active"
                   PROVE  active[link'[l].user] /\ link'[l].hash = hash'[link'[l].user]
        BY <1>3 DEF LinksAreCurrent
    <2>2. link[l].status = "active" /\ link[l].user # u
        BY <1>2, <2>1
    <2>3. link[l].user \in Users
        BY <1>1, <2>2 DEF TypeOK, NoLink
    <2>4. QED
        BY <1>1, <1>2, <1>3, <2>2, <2>3 DEF RowInv, LinksAreCurrent, TypeOK
<1>8. OneRecentLink'
    <2>1. \A l \in Links : link'[l].status = "active" => link[l].status = "active"
        BY <1>2
    <2>2. OneRecentLink
        BY <1>1 DEF RowInv
    <2>3. QED
        BY <1>2, <2>1, <2>2 DEF OneRecentLink
<1>9. \A v \in Users : UsedLinks(v)' = IF v = u THEN UsedLinks(u) \cup {L} ELSE UsedLinks(v)
    BY <1>1, <1>2 DEF UsedLinks
<1>10. IsFiniteSet(UsedLinks(u)) /\ L \notin UsedLinks(u)
    BY <1>1 DEF RowInv, UsedFinite, UsedLinks
<1>11. /\ IsFiniteSet(UsedLinks(u) \cup {L})
       /\ Cardinality(UsedLinks(u) \cup {L}) = Cardinality(UsedLinks(u)) + 1
    BY <1>10, FS_AddElement
<1>12. UsedFinite'
    BY <1>1, <1>9, <1>11 DEF RowInv, UsedFinite
<1>13. OneChangePerLink'
    <2>1. \A v \in Users : role[v] # "none" => hash[v] = 1 + Cardinality(UsedLinks(v))
        BY <1>1, ChangesCounted DEF RowInv
    <2>2. Cardinality(UsedLinks(u)) \in Nat
        BY <1>10, FS_CardinalityType
    <2>3. \A v \in Users : role[v] # "none" => hash'[v] = 1 + Cardinality(UsedLinks(v)')
        <3>1. hash'[u] = hash[u] + 1 /\ hash[u] \in Nat
            BY <1>1, <1>3 DEF TypeOK
        <3>2. Cardinality(UsedLinks(u)') = Cardinality(UsedLinks(u)) + 1
            BY <1>1, <1>9, <1>11
        <3>3. hash'[u] = 1 + Cardinality(UsedLinks(u)')
            BY <1>1, <1>4, <2>1, <2>2, <3>1, <3>2
        <3>4. \A v \in Users \ {u} : hash'[v] = hash[v] /\ UsedLinks(v)' = UsedLinks(v)
            BY <1>1, <1>3, <1>9 DEF TypeOK
        <3>5. \A v \in Users \ {u} :
                role[v] # "none" => hash'[v] = 1 + Cardinality(UsedLinks(v)')
            BY <2>1, <3>4
        <3>6. QED
            BY <3>3, <3>5
    <2>4. QED
        BY <1>3, <2>3 DEF OneChangePerLink, UsedLinks
<1>14. OwnerRemains'
    BY <1>1, <1>3 DEF RowInv, OwnerRemains, Owner
<1>15. QED
    BY <1>5, <1>6, <1>7, <1>8, <1>12, <1>13, <1>14 DEF RowInv

\* A change of a member: deactivation ends sessions and links, and an active owner
\* stays.
LEMMA UpdateRows ==
    ASSUME IInv, NEW t \in Txs, CommitUpdate(t)
    PROVE  RowInv'
<1>0. /\ tx[t].target \in Users
      /\ tx[t].role \in Roles /\ tx[t].active \in BOOLEAN
      /\ version[tx[t].target] > 0
      /\ LeavesOwner(tx[t].target, tx[t].role, tx[t].active)
    BY ReleaseFacts, RequestTypes
    DEF IInv, RowInv, CommitUpdate, CommitStep, AuthorizationHolds, RequestFacts, Holds
<1> PICK v \in Users, r \in Roles, a \in BOOLEAN :
        v = tx[t].target /\ r = tx[t].role /\ a = tx[t].active
    BY <1>0
<1>1. /\ TypeOK /\ RowInv
      /\ role[v] # "none"
      /\ Owner(v) /\ ~(r = "owner" /\ a) => \E w \in Users \ {v} : Owner(w)
    BY <1>0 DEF IInv, RowInv, MemberRows, LeavesOwner
<1>2. /\ role' = [role EXCEPT ![v] = r]
      /\ active' = [active EXCEPT ![v] = a]
      /\ version' = [version EXCEPT ![v] = @ + 1]
      /\ session' = IF a THEN session ELSE SessionsWithout(v)
      /\ link' = IF a THEN link ELSE LinksWithout(v)
      /\ UNCHANGED <<initialized, hash, key>>
    BY DEF CommitUpdate
<1>3. \A s \in Sessions : session'[s] # NoSession =>
        session'[s] = session[s] /\ (session[s].user # v \/ a)
    BY <1>2 DEF SessionsWithout
<1>4. \A l \in Links :
        /\ link'[l].user = link[l].user
        /\ link'[l].hash = link[l].hash
        /\ link'[l].age = link[l].age
        /\ link'[l].status = "active" =>
              link[l].status = "active" /\ (link[l].user # v \/ a)
        /\ (link'[l].status = "used") = (link[l].status = "used")
    BY <1>1, <1>2, LinksWithoutType
<1>5. \A w \in Users : /\ w # v => role'[w] = role[w] /\ active'[w] = active[w]
                                     /\ version'[w] = version[w]
                       /\ w = v => role'[w] = r /\ active'[w] = a
                                     /\ version'[w] = version[w] + 1
    BY <1>1, <1>2 DEF TypeOK
<1>6. MemberRows'
    <2>1. \A w \in Users : role'[w] = "none" <=> role[w] = "none"
        BY <1>1, <1>5 DEF Roles
    <2>2. \A w \in Users : version'[w] = 0 <=> version[w] = 0
        BY <1>0, <1>1, <1>5 DEF TypeOK
    <2>3. \A w \in Users : active'[w] => role'[w] # "none"
        BY <1>1, <1>5, <2>1 DEF RowInv, MemberRows
    <2>4. QED
        BY <1>1, <1>2, <1>4, <2>1, <2>2, <2>3 DEF RowInv, MemberRows
<1>7. SessionsAreCurrent'
    <2>1. SUFFICES ASSUME NEW s \in Sessions, session'[s] # NoSession
                   PROVE  active'[session'[s].user] /\ session'[s].hash = hash[session'[s].user]
        BY <1>2 DEF SessionsAreCurrent
    <2>2. session'[s] = session[s] /\ (session[s].user # v \/ a)
        BY <1>3, <2>1
    <2>3. session[s].user \in Users
        BY <1>1, <2>1, <2>2 DEF TypeOK
    <2>4. QED
        BY <1>1, <1>5, <2>1, <2>2, <2>3 DEF RowInv, SessionsAreCurrent
<1>8. LinksAreCurrent'
    <2>1. SUFFICES ASSUME NEW l \in Links, link'[l].status = "active"
                   PROVE  active'[link'[l].user] /\ link'[l].hash = hash[link'[l].user]
        BY <1>2 DEF LinksAreCurrent
    <2>2. link[l].status = "active" /\ (link[l].user # v \/ a)
        BY <1>4, <2>1
    <2>3. link[l].user \in Users
        BY <1>1, <2>2 DEF TypeOK, NoLink
    <2>4. QED
        BY <1>1, <1>4, <1>5, <2>2, <2>3 DEF RowInv, LinksAreCurrent
<1>9. OneRecentLink'
    <2>1. OneRecentLink
        BY <1>1 DEF RowInv
    <2>2. QED
        BY <1>4, <2>1 DEF OneRecentLink
<1>10. \A w \in Users : UsedLinks(w)' = UsedLinks(w)
    BY <1>4 DEF UsedLinks
<1>11. UsedFinite'
    BY <1>1, <1>10 DEF RowInv, UsedFinite
<1>12. OneChangePerLink'
    <2>1. \A w \in Users : role'[w] # "none" => role[w] # "none"
        BY <1>1, <1>5
    <2>2. \A w \in Users : role[w] # "none" => hash[w] = 1 + Cardinality(UsedLinks(w))
        BY <1>1, ChangesCounted DEF RowInv
    <2>3. \A w \in Users : role'[w] # "none" => hash'[w] = 1 + Cardinality(UsedLinks(w)')
        BY <1>2, <1>10, <2>1, <2>2
    <2>4. QED
        BY <2>3 DEF OneChangePerLink, UsedLinks
<1>13. OwnerRemains'
    <2>1. SUFFICES ASSUME initialized PROVE \E w \in Users : Owner(w)'
        BY <1>2 DEF OwnerRemains
    <2>2. PICK w \in Users : Owner(w)
        BY <1>1, <2>1 DEF RowInv, OwnerRemains
    <2>3. CASE w # v
        BY <1>5, <2>2, <2>3 DEF Owner
    <2>4. CASE w = v /\ r = "owner" /\ a
        BY <1>5, <2>4 DEF Owner
    <2>5. CASE w = v /\ ~(r = "owner" /\ a)
        BY <1>1, <1>5, <2>2, <2>5 DEF Owner
    <2>6. QED
        BY <2>3, <2>4, <2>5
<1>14. QED
    BY <1>6, <1>7, <1>8, <1>9, <1>11, <1>12, <1>13 DEF RowInv

\* Logout waits for key management that relies on the session.
LEMMA LogoutStep ==
    ASSUME IInv, NEW s \in Sessions, Logout(s), \A x \in Txs : Known(tx[x])
    PROVE  RowInv' /\ \A x \in Txs : Known(tx[x])'
<1>1. /\ TypeOK /\ RowInv
      /\ session' = [session EXCEPT ![s] = NoSession]
      /\ UNCHANGED <<role, active, version, initialized, hash, link, key, tx>>
    BY DEF IInv, RowInv, Logout, memberVars
<1>2. SessionsAreCurrent'
    BY <1>1 DEF RowInv, SessionsAreCurrent, TypeOK
<1>3. RowInv'
    BY <1>1, <1>2, OtherRows DEF RowInv
<1>4. ASSUME NEW x \in Txs, tx[x].step = "granted", tx[x].kind \in {"createKey", "revokeKey"}
      PROVE  session'[tx[x].session] = session[tx[x].session]
    <2>1. tx[x].session # s
        BY <1>4 DEF Logout, SessionFree, Holds
    <2>2. tx[x].session \in Sessions
        BY <1>1, <1>4, TxFields, RequestTypes
    <2>3. QED
        BY <1>1, <2>1, <2>2 DEF TypeOK
<1>5. \A x \in Txs : Known(tx[x])'
    BY <1>1, <1>4 DEF Known, LeavesOwner, Owner
<1>6. QED
    BY <1>3, <1>5

\* A link that gets older works for nobody else, and never becomes recent again.
LEMMA LinkAgesStep ==
    ASSUME IInv, NEW l \in Links, NEW age \in {"old", "expired"}, LinkAges(l, age),
           \A x \in Txs : Known(tx[x])
    PROVE  RowInv' /\ \A x \in Txs : Known(tx[x])'
<1>1. /\ TypeOK /\ RowInv
      /\ link' = [link EXCEPT ![l].age = age]
      /\ UNCHANGED <<role, active, version, initialized, hash, session, key, tx>>
    BY DEF IInv, RowInv, LinkAges, memberVars
<1>2. link[l] \in [user : Users, hash : Nat, status : {"active", "used", "revoked"},
                   age : {"new", "old", "expired"}]
    BY <1>1 DEF LinkAges, TypeOK, NoLink
<1>3. \A m \in Links :
        /\ link'[m].user = link[m].user
        /\ link'[m].hash = link[m].hash
        /\ link'[m].status = link[m].status
        /\ link'[m].age = "new" => link[m].age = "new"
    BY <1>1, <1>2 DEF TypeOK
<1>4. MemberRows'
    BY <1>1, <1>3 DEF RowInv, MemberRows
<1>5. LinksAreCurrent'
    BY <1>1, <1>3 DEF RowInv, LinksAreCurrent
<1>6. OneRecentLink'
    <2>1. OneRecentLink
        BY <1>1 DEF RowInv
    <2>2. QED
        BY <1>3, <2>1 DEF OneRecentLink
<1>7. \A u \in Users : UsedLinks(u)' = UsedLinks(u)
    BY <1>3 DEF UsedLinks
<1>8. UsedFinite'
    BY <1>1, <1>7 DEF RowInv, UsedFinite
<1>9. OneChangePerLink'
    BY <1>1, <1>7, UsedSame DEF RowInv
<1>10. SessionsAreCurrent' /\ OwnerRemains'
    BY <1>1 DEF RowInv, SessionsAreCurrent, OwnerRemains, Owner
<1>11. ASSUME NEW x \in Txs PROVE Known(tx[x])'
    <2>1. tx[x].kind = "complete" => tx[x].link \in Links
        BY <1>1, TxFields, RequestTypes
    <2>2. Known(tx[x])
        OBVIOUS
    <2>3. QED
        BY <1>1, <1>3, <2>1, <2>2 DEF Known, LeavesOwner, Owner
<1>12. QED
    BY <1>4, <1>5, <1>6, <1>8, <1>9, <1>10, <1>11 DEF RowInv

(***************************************************************************)
(* The invariant is inductive.                                             *)
(***************************************************************************)

\* Nobody is registered, nothing is locked.
LEMMA InitInv == Init => IInv
<1> SUFFICES ASSUME Init PROVE IInv
    OBVIOUS
<1>1. TypeOK
    BY DEF Init, TypeOK, NoLink, NoKey, NoSession, Idle
<1>2. LocksExclude /\ RequestFacts /\ AuthorizationHolds
    BY DEF Init, LocksExclude, RequestFacts, AuthorizationHolds, Holds, Idle, Changing
<1>3. \A u \in Users : UsedLinks(u) = {}
    BY DEF Init, UsedLinks, NoLink
<1>4. UsedFinite
    BY <1>3, FS_EmptySet DEF UsedFinite
<1>5. MemberRows
    BY AccountsAssumption DEF Init, MemberRows, NoLink
<1>6. SessionsAreCurrent /\ LinksAreCurrent /\ OneRecentLink /\ OneChangePerLink
        /\ OwnerRemains
    BY DEF Init, SessionsAreCurrent, LinksAreCurrent, OneRecentLink, OneChangePerLink,
        OwnerRemains, NoLink
<1>7. QED
    BY <1>1, <1>2, <1>4, <1>5, <1>6 DEF IInv

\* Every step keeps the invariant.
LEMMA InvStep == IInv /\ [Next]_vars => IInv'
<1> SUFFICES ASSUME IInv, [Next]_vars PROVE IInv'
    OBVIOUS
<1>1. TypeOK'
    BY TypeStep
<1>2. /\ TypeOK /\ LocksExclude /\ MemberRows /\ RowInv
      /\ \A x \in Txs : Known(tx[x])
    BY KnownIsAll DEF IInv, RowInv
<1>3. SUFFICES LocksExclude' /\ RowInv' /\ \A x \in Txs : Known(tx[x])'
    <2>1. (\A x \in Txs : Known(tx[x])') => RequestFacts' /\ AuthorizationHolds'
        BY DEF Known, RequestFacts, AuthorizationHolds, Holds
    <2>2. QED
        BY <1>1, <2>1 DEF IInv, RowInv
<1>4. ASSUME UNCHANGED <<role, active, version, initialized, hash, session, link>>
      PROVE  RowInv'
    <2>1. SessionsAreCurrent'
        BY <1>2, <1>4 DEF RowInv, SessionsAreCurrent
    <2>2. QED
        BY <1>2, <1>4, <2>1, OtherRows DEF RowInv
<1>5. CASE UNCHANGED vars
    <2>1. UNCHANGED <<role, active, version, initialized, hash, session, link, key, tx>>
        BY <1>5 DEF vars, memberVars
    <2>2. LocksExclude'
        BY <1>2, <2>1 DEF LocksExclude, Holds, Changing, Using
    <2>3. \A x \in Txs : Known(tx[x])'
        BY <1>2, <2>1 DEF Known, LeavesOwner, Owner
    <2>4. QED
        BY <1>4, <2>1, <2>2, <2>3
<1>6. ASSUME NEW t \in Txs, BeginStep(t) \/ LockStep(t) \/ Rollback(t)
      PROVE  LocksExclude' /\ RowInv' /\ \A x \in Txs : Known(tx[x])'
    <2>1. UNCHANGED <<role, active, version, initialized, hash, session, link, key>>
        BY <1>6 DEF BeginStep, LockStep, Rollback, memberVars
    <2>2. RowInv'
        BY <1>4, <2>1
    <2>3. CASE LockStep(t)
        BY <1>2, <2>2, <2>3, LockLocks, LockKnown
    <2>4. CASE BeginStep(t) \/ Rollback(t)
        <3>1. /\ Alone(t)
              /\ tx'[t].step \in {"idle", "ready"}
              /\ tx'[t].kind = "complete" => link[tx'[t].link].user = tx'[t].user
              /\ tx'[t].kind = "update" => tx'[t].version > 0
            BY <1>2, <2>4, BeginFacts, ReleaseFacts
        <3>2. LocksExclude'
            BY <1>2, <3>1, QuietLocks
        <3>3. Known(tx[t])'
            BY <2>1, <3>1 DEF Known
        <3>4. \A x \in Txs \ {t} : Known(tx[x])'
            BY <1>2, <2>1, <3>1 DEF Alone, Known, LeavesOwner, Owner
        <3>5. QED
            BY <2>2, <3>2, <3>3, <3>4
    <2>5. QED
        BY <1>6, <2>3, <2>4
<1>7. ASSUME NEW t \in Txs, CommitStep(t)
      PROVE  LocksExclude' /\ RowInv' /\ \A x \in Txs : Known(tx[x])'
    <2>1. LocksExclude'
        BY <1>2, <1>7, ReleaseFacts, QuietLocks
    <2>2. \A x \in Txs : Known(tx[x])'
        BY <1>2, <1>7, CommitKnown
    <2>3. CASE CommitCreateKey(t) \/ CommitRevokeKey(t) \/ CommitUseKey(t)
        <3>1. UNCHANGED <<role, active, version, initialized, hash, session, link>>
            BY <2>3 DEF CommitCreateKey, CommitRevokeKey, CommitUseKey, memberVars
        <3>2. RowInv'
            BY <1>4, <3>1
        <3>3. QED
            BY <2>1, <2>2, <3>2
    <2>4. CASE \/ CommitRegister(t)
               \/ CommitLogin(t)
               \/ CommitRequest(t)
               \/ CommitComplete(t)
               \/ CommitUpdate(t)
        BY <2>1, <2>2, <2>4, RegisterRows, LoginRows, RequestRows, CompleteRows, UpdateRows
    <2>5. QED
        BY <1>7, <2>3, <2>4 DEF CommitStep
<1>8. ASSUME tx' = tx PROVE LocksExclude'
    BY <1>2, <1>8 DEF LocksExclude, Holds, Changing, Using
<1>9. ASSUME NEW s \in Sessions, Logout(s)
      PROVE  LocksExclude' /\ RowInv' /\ \A x \in Txs : Known(tx[x])'
    BY <1>2, <1>8, <1>9, LogoutStep DEF Logout
<1>10. ASSUME NEW l \in Links, NEW age \in {"old", "expired"}, LinkAges(l, age)
       PROVE  LocksExclude' /\ RowInv' /\ \A x \in Txs : Known(tx[x])'
    BY <1>2, <1>8, <1>10, LinkAgesStep DEF LinkAges
<1>11. QED
    BY <1>5, <1>6, <1>7, <1>9, <1>10 DEF Next

\* The invariant holds in every behaviour.
LEMMA InvCorrect == Spec => []IInv
<1>1. QED
    BY InitInv, InvStep, PTL DEF Spec

(***************************************************************************)
(* The theorems.                                                           *)
(***************************************************************************)

\* Type correctness; that exactly the members have a password needs the whole
\* invariant.
THEOREM TypeCorrect == Spec => []TypeOK
<1>1. IInv => TypeOK
    BY DEF IInv
<1>2. QED
    BY <1>1, InvCorrect, PTL

\* What a transaction of identity, organization or api_keys checked is true until
\* it commits.
THEOREM AuthorizationCorrect == Spec => []AuthorizationHolds
<1>1. IInv => AuthorizationHolds
    BY DEF IInv
<1>2. QED
    BY <1>1, InvCorrect, PTL

\* No sign-in, reset or deactivation leaves a session of an old password or of a
\* former member.
THEOREM SessionsCorrect == Spec => []SessionsAreCurrent
<1>1. IInv => SessionsAreCurrent
    BY DEF IInv
<1>2. QED
    BY <1>1, InvCorrect, PTL

\* No reset link outlives the password it was asked for under, or a deactivation.
THEOREM LinksCorrect == Spec => []LinksAreCurrent
<1>1. IInv => LinksAreCurrent
    BY DEF IInv
<1>2. QED
    BY <1>1, InvCorrect, PTL

\* Concurrent reset requests of one member leave one recent link.
THEOREM OneRecentLinkCorrect == Spec => []OneRecentLink
<1>1. IInv => OneRecentLink
    BY DEF IInv
<1>2. QED
    BY <1>1, InvCorrect, PTL

\* A password changes once per used link, and by nothing else.
THEOREM OneChangeCorrect == Spec => []OneChangePerLink
<1>1. IInv => OneChangePerLink
    BY DEF IInv
<1>2. QED
    BY <1>1, InvCorrect, PTL

\* Both at once: however resets overlap, one recent link and one change per link.
THEOREM ResetsOnceCorrect == Spec => []ResetsAreOnce
<1>1. IInv => ResetsAreOnce
    BY DEF IInv, ResetsAreOnce
<1>2. QED
    BY <1>1, InvCorrect, PTL

\* The organization keeps an active owner, whatever owners do at once.
THEOREM OwnerCorrect == Spec => []OwnerRemains
<1>1. IInv => OwnerRemains
    BY DEF IInv
<1>2. QED
    BY <1>1, InvCorrect, PTL

\* One founder: only registration makes somebody who is no member an owner, and
\* only while the organization has no member at all.
THEOREM FounderCorrect == Spec => OneFounder
<1> DEFINE Founds == \A u \in Users : role[u] = "none" /\ role'[u] = "owner"
                        => \A v \in Users : role[v] = "none"
<1>1. ASSUME IInv, [Next]_vars PROVE Founds
    <2> SUFFICES ASSUME NEW u \in Users, role[u] = "none", role'[u] = "owner",
                        NEW v \in Users
                 PROVE  role[v] = "none"
        OBVIOUS
    <2>1. TypeOK /\ MemberRows
        BY <1>1 DEF IInv
    <2>2. PICK t \in Txs : CommitRegister(t) \/ CommitUpdate(t)
        <3>1. role' # role
            OBVIOUS
        <3>2. QED
            BY <1>1, <3>1 DEF Next, vars, memberVars, BeginStep, LockStep, Rollback, CommitStep,
                CommitLogin, CommitRequest, CommitComplete, CommitCreateKey, CommitRevokeKey,
                CommitUseKey, Logout, LinkAges
    <2>3. CASE CommitRegister(t)
        <3>1. tx[t].user = u /\ tx[t].role = "owner"
            BY <2>1, <2>3 DEF CommitRegister, TypeOK
        <3>2. ~initialized
            BY <1>1, <2>3, <3>1 DEF CommitRegister, Holds, IInv, AuthorizationHolds
        <3>3. QED
            BY <2>1, <3>2 DEF MemberRows
    <2>4. CASE CommitUpdate(t)
        <3>1. tx[t].target = u
            BY <2>1, <2>4 DEF CommitUpdate, TypeOK
        <3>2. version[u] > 0
            BY <1>1, <2>4, <3>1 DEF CommitUpdate, Holds, IInv, AuthorizationHolds, RequestFacts
        <3>3. QED
            BY <2>1, <3>2 DEF MemberRows
    <2>5. QED
        BY <2>2, <2>3, <2>4
<1>2. IInv /\ [Next]_vars => [Founds]_vars
    BY <1>1
<1>3. QED
    BY <1>2, InvCorrect, PTL DEF Spec, OneFounder
=============================================================================
