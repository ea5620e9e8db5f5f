------------------------------- MODULE Accounts -------------------------------
(***************************************************************************)
(* Accounts (crates/app/src/modules/identity, organization, api_keys): who  *)
(* is a member in which role, passwords, sessions, password-reset links and *)
(* API keys, and the PostgreSQL transactions that change them.              *)
(*                                                                         *)
(* Every request first reads without locks (a password is verified, a link  *)
(* looked up, a session required), may then be delayed at will, and runs    *)
(* one READ COMMITTED transaction: it locks the membership, then the        *)
(* credential, link, session or key, checks again what it read, and         *)
(* commits.  Locks are held until the commit and follow from tx: step       *)
(* "ready" holds nothing, "member" the membership, "granted" every lock of  *)
(* the request.  A check that fails, a timeout or a lost client is          *)
(* Rollback.                                                                *)
(*                                                                         *)
(* A password hash is a number, salted and so fresh at each change.  A      *)
(* revoked session is as good as absent, and its slot stands for the next   *)
(* one; expiry of sessions and keys only ends them sooner and is left out.  *)
(***************************************************************************)
EXTENDS Naturals, FiniteSets

CONSTANTS
    Users, Sessions, Links, Keys,
    Txs,          \* requests in flight
    None,
    MaxHash,      \* bound: passwords an account has
    MaxVersion    \* bound: versions of a membership

ASSUME AccountsAssumption ==
    /\ None \notin Users
    /\ MaxHash \in Nat /\ MaxVersion \in Nat

VARIABLES
    role, active, version,   \* saas_core.memberships
    initialized,             \* saas_core.organizations.owner_initialized
    hash,                    \* saas_core.credentials
    session,                 \* saas_core.sessions, with the hash at issue
    link,                    \* saas_core.password_resets, with the hash at issue
    key,                     \* saas_core.api_keys
    tx

memberVars == <<role, active, version, initialized>>
vars == <<memberVars, hash, session, link, key, tx>>

Roles == {"owner", "admin", "member"}

Idle      == [kind |-> "none", step |-> "idle", user |-> None]
NoSession == [user |-> None, hash |-> 0]
NoLink    == [user |-> None, hash |-> 0, status |-> "none", age |-> "new"]
NoKey     == [user |-> None, status |-> "none"]

Steps == {"ready", "member", "granted"}
Requests ==
    [kind : {"register"}, step : Steps, user : Users, role : Roles \cup {None}]
      \cup [kind : {"login"}, step : Steps, user : Users, hash : Nat]
      \cup [kind : {"request"}, step : Steps, user : Users]
      \cup [kind : {"complete"}, step : Steps, user : Users, link : Links]
      \cup [kind : {"createKey"}, step : Steps, user : Users, session : Sessions]
      \cup [kind : {"revokeKey"}, step : Steps, user : Users, session : Sessions, key : Keys]
      \cup [kind : {"useKey"}, step : Steps, user : Users, key : Keys]
      \cup [kind : {"update"}, step : Steps, user : Users, target : Users,
            role : Roles, active : BOOLEAN, version : Nat]

TypeOK ==
    /\ role \in [Users -> Roles \cup {"none"}]
    /\ active \in [Users -> BOOLEAN]
    /\ version \in [Users -> Nat]
    /\ initialized \in BOOLEAN
    /\ hash \in [Users -> Nat]
    /\ session \in [Sessions -> {NoSession} \cup [user : Users, hash : Nat]]
    /\ link \in [Links -> {NoLink} \cup
           [user : Users, hash : Nat, status : {"active", "used", "revoked"},
            age : {"new", "old", "expired"}]]
    /\ key \in [Keys -> {NoKey} \cup [user : Users, status : {"active", "revoked"}]]
    /\ tx \in [Txs -> {Idle} \cup Requests]
    /\ \A u \in Users : role[u] = "none" <=> hash[u] = 0

Init ==
    /\ role = [u \in Users |-> "none"]
    /\ active = [u \in Users |-> FALSE]
    /\ version = [u \in Users |-> 0]
    /\ initialized = FALSE
    /\ hash = [u \in Users |-> 0]
    /\ session = [s \in Sessions |-> NoSession]
    /\ link = [l \in Links |-> NoLink]
    /\ key = [k \in Keys |-> NoKey]
    /\ tx = [t \in Txs |-> Idle]

(***************************************************************************)
(* Locks.  Registration and member administration lock the organization;   *)
(* administration locks both memberships exclusively, everyone else one    *)
(* membership shared.  Login shares the credential, the two halves of a    *)
(* password reset lock it exclusively.  Key management shares the session. *)
(***************************************************************************)
Holds(t, kinds) == tx[t].kind \in kinds /\ tx[t].step = "granted"

\* "Faulty" definitions are plausible mistakes that no action uses: each replaces
\* the definition after it to show that a property notices.
FaultyOrganizationFree == TRUE
OrganizationFree == \A t \in Txs : ~Holds(t, {"register", "update"})

Administered(u) ==
    \E t \in Txs : Holds(t, {"update"}) /\ u \in {tx[t].user, tx[t].target}

\* No lock on the membership of u, shared or exclusive.
FaultyMembershipFree(u) == ~Administered(u)
MembershipFree(u) ==
    /\ ~Administered(u)
    /\ \A t \in Txs : tx[t].kind \notin {"register", "update"} /\ tx[t].user = u
                         => tx[t].step = "ready"

FaultyCredentialFree(u, kinds) == TRUE
CredentialFree(u, kinds) == \A t \in Txs : ~(Holds(t, kinds) /\ tx[t].user = u)

SessionFree(s) ==
    \A t \in Txs : ~(Holds(t, {"createKey", "revokeKey"}) /\ tx[t].session = s)

KeyFree(k) == \A t \in Txs : ~(Holds(t, {"useKey", "revokeKey"}) /\ tx[t].key = k)

(***************************************************************************)
(* Helpers.                                                                *)
(***************************************************************************)
Owner(u) == role[u] = "owner" /\ active[u]

CanManage(actor, target) ==
    actor = "owner" \/ (actor = "admin" /\ target # "owner")

\* validate_change: the last active owner stays.
LeavesOwner(u, newRole, newActive) ==
    Owner(u) /\ ~(newRole = "owner" /\ newActive) => \E v \in Users \ {u} : Owner(v)

\* require_session: a session that is not revoked, of an active member.
SignedIn(s, u) == session[s].user = u /\ active[u]

Unused(s) ==
    /\ session[s] = NoSession
    /\ \A t \in Txs : tx[t].kind \in {"createKey", "revokeKey"} => tx[t].session # s

SessionsWithout(u) ==
    [s \in Sessions |-> IF session[s].user = u THEN NoSession ELSE session[s]]

\* The links of u after revoke: those that are neither used nor revoked are revoked.
LinksWithout(u) ==
    [l \in Links |-> IF link[l].user = u /\ link[l].status = "active"
                     THEN [link[l] EXCEPT !.status = "revoked"] ELSE link[l]]

Usable(l) == link[l].status = "active" /\ link[l].age # "expired"

To(t, step) == tx' = [tx EXCEPT ![t].step = step]
Begin(t, request) == tx[t] = Idle /\ tx' = [tx EXCEPT ![t] = request]
End(t) == tx' = [tx EXCEPT ![t] = Idle]

(***************************************************************************)
(* Requests begin: the reads that take no lock.                            *)
(***************************************************************************)
BeginRegister(t, u) ==
    /\ role[u] = "none"
    /\ Begin(t, [kind |-> "register", step |-> "ready", user |-> u, role |-> None])

\* The stored hash is read, and the password verified against it.
BeginLogin(t, u) ==
    /\ active[u]
    /\ Begin(t, [kind |-> "login", step |-> "ready", user |-> u, hash |-> hash[u]])

BeginRequest(t, u) ==
    /\ role[u] # "none"
    /\ Begin(t, [kind |-> "request", step |-> "ready", user |-> u])

\* eligible; then the new password is hashed.
BeginComplete(t, l) ==
    /\ Usable(l)
    /\ active[link[l].user]
    /\ hash[link[l].user] < MaxHash
    /\ Begin(t, [kind |-> "complete", step |-> "ready", user |-> link[l].user, link |-> l])

BeginCreateKey(t, s, u) ==
    /\ SignedIn(s, u)
    /\ Begin(t, [kind |-> "createKey", step |-> "ready", user |-> u, session |-> s])

BeginRevokeKey(t, s, u, k) ==
    /\ SignedIn(s, u)
    /\ Begin(t, [kind |-> "revokeKey", step |-> "ready", user |-> u, session |-> s, key |-> k])

BeginUseKey(t, k) ==
    /\ key[k].status = "active"
    /\ Begin(t, [kind |-> "useKey", step |-> "ready", user |-> key[k].user, key |-> k])

\* An actor that is signed in sends a change of the version it has seen.
BeginUpdate(t, s, u, v, newRole, newActive) ==
    /\ SignedIn(s, u)
    /\ version[v] \in 1 .. MaxVersion - 1
    /\ Begin(t, [kind |-> "update", step |-> "ready", user |-> u, target |-> v,
                 role |-> newRole, active |-> newActive, version |-> version[v]])

BeginStep(t) ==
    /\ \/ \E u \in Users : \/ BeginRegister(t, u)
                           \/ BeginLogin(t, u)
                           \/ BeginRequest(t, u)
       \/ \E l \in Links : BeginComplete(t, l)
       \/ \E s \in Sessions, u \in Users :
              \/ BeginCreateKey(t, s, u)
              \/ \E k \in Keys : BeginRevokeKey(t, s, u, k)
              \/ \E v \in Users, newRole \in Roles, newActive \in BOOLEAN :
                     BeginUpdate(t, s, u, v, newRole, newActive)
       \/ \E k \in Keys : BeginUseKey(t, k)
    /\ UNCHANGED <<memberVars, hash, session, link, key>>

(***************************************************************************)
(* Transactions lock and check again.                                      *)
(***************************************************************************)

\* active_role_in: share the membership, which must be active.
LockMember(t) ==
    /\ tx[t].step = "ready"
    /\ tx[t].kind \notin {"register", "update"}
    /\ ~Administered(tx[t].user)
    /\ active[tx[t].user]
    /\ To(t, "member")

GrantLogin(t) ==
    /\ tx[t].kind = "login" /\ tx[t].step = "member"
    /\ CredentialFree(tx[t].user, {"request", "complete"})
    /\ hash[tx[t].user] = tx[t].hash
    /\ To(t, "granted")

\* A recent link that still works is not replaced.
GrantRequest(t) ==
    /\ tx[t].kind = "request" /\ tx[t].step = "member"
    /\ CredentialFree(tx[t].user, {"login", "request", "complete"})
    /\ ~\E l \in Links : link[l].user = tx[t].user /\ link[l].status = "active"
                           /\ link[l].age = "new"
    /\ To(t, "granted")

FaultyGrantComplete(t) ==
    /\ tx[t].kind = "complete" /\ tx[t].step = "member"
    /\ CredentialFree(tx[t].user, {"login", "request", "complete"})
    /\ To(t, "granted")
GrantComplete(t) ==
    /\ tx[t].kind = "complete" /\ tx[t].step = "member"
    /\ CredentialFree(tx[t].user, {"login", "request", "complete"})
    /\ Usable(tx[t].link)
    /\ To(t, "granted")

\* background_credential: share the session, which must not be revoked.
GrantCreateKey(t) ==
    /\ tx[t].kind = "createKey" /\ tx[t].step = "member"
    /\ session[tx[t].session].user = tx[t].user
    /\ To(t, "granted")

\* A key that is already revoked stays as it is: nothing to commit.
GrantRevokeKey(t) ==
    /\ tx[t].kind = "revokeKey" /\ tx[t].step = "member"
    /\ session[tx[t].session].user = tx[t].user
    /\ KeyFree(tx[t].key)
    /\ key[tx[t].key] = [user |-> tx[t].user, status |-> "active"]
    /\ To(t, "granted")

\* The UPDATE of last_used_at checks the key again and locks it.
GrantUseKey(t) ==
    /\ tx[t].kind = "useKey" /\ tx[t].step = "member"
    /\ KeyFree(tx[t].key)
    /\ key[tx[t].key].status = "active"
    /\ To(t, "granted")

\* enroll locks the singleton organization: the first member is its owner.
GrantRegister(t) ==
    /\ tx[t].kind = "register" /\ tx[t].step = "ready"
    /\ OrganizationFree
    /\ role[tx[t].user] = "none"
    /\ tx' = [tx EXCEPT ![t].step = "granted",
                        ![t].role = IF initialized THEN "member" ELSE "owner"]

GrantUpdate(t) ==
    LET actor == tx[t].user
        target == tx[t].target
    IN  /\ tx[t].kind = "update" /\ tx[t].step = "ready"
        /\ OrganizationFree
        /\ MembershipFree(actor) /\ MembershipFree(target)
        /\ active[actor]
        /\ CanManage(role[actor], role[target]) /\ CanManage(role[actor], tx[t].role)
        /\ version[target] = tx[t].version
        /\ LeavesOwner(target, tx[t].role, tx[t].active)
        /\ To(t, "granted")

LockStep(t) ==
    /\ \/ LockMember(t)
       \/ GrantLogin(t)
       \/ GrantRequest(t)
       \/ GrantComplete(t)
       \/ GrantCreateKey(t)
       \/ GrantRevokeKey(t)
       \/ GrantUseKey(t)
       \/ GrantRegister(t)
       \/ GrantUpdate(t)
    /\ UNCHANGED <<memberVars, hash, session, link, key>>

Rollback(t) ==
    /\ tx[t] # Idle
    /\ End(t)
    /\ UNCHANGED <<memberVars, hash, session, link, key>>

(***************************************************************************)
(* Transactions commit.                                                    *)
(***************************************************************************)

\* The account exists; its first session is issued by a second transaction.
CommitRegister(t) ==
    LET u == tx[t].user
    IN  /\ Holds(t, {"register"})
        /\ role' = [role EXCEPT ![u] = tx[t].role]
        /\ active' = [active EXCEPT ![u] = TRUE]
        /\ version' = [version EXCEPT ![u] = 1]
        /\ initialized' = TRUE
        /\ hash' = [hash EXCEPT ![u] = 1]
        /\ tx' = [tx EXCEPT ![t] =
               [kind |-> "login", step |-> "ready", user |-> u, hash |-> 1]]
        /\ UNCHANGED <<session, link, key>>

CommitLogin(t) ==
    /\ Holds(t, {"login"})
    /\ \E s \in Sessions :
          /\ Unused(s)
          /\ session' = [session EXCEPT ![s] = [user |-> tx[t].user, hash |-> tx[t].hash]]
    /\ End(t)
    /\ UNCHANGED <<memberVars, hash, link, key>>

CommitRequest(t) ==
    /\ Holds(t, {"request"})
    /\ \E l \in Links :
          /\ link[l] = NoLink
          /\ link' = [link EXCEPT ![l] = [user |-> tx[t].user, hash |-> hash[tx[t].user],
                                          status |-> "active", age |-> "new"]]
    /\ End(t)
    /\ UNCHANGED <<memberVars, hash, session, key>>

\* The new password, the end of this and every other link, and of every session.
CommitComplete(t) ==
    LET u == tx[t].user
    IN  /\ Holds(t, {"complete"})
        /\ \A s \in Sessions : session[s].user = u => SessionFree(s)
        /\ hash' = [hash EXCEPT ![u] = @ + 1]
        /\ session' = SessionsWithout(u)
        /\ link' = [LinksWithout(u) EXCEPT ![tx[t].link].status = "used"]
        /\ End(t)
        /\ UNCHANGED <<memberVars, key>>

CommitCreateKey(t) ==
    /\ Holds(t, {"createKey"})
    /\ \E k \in Keys :
          /\ key[k] = NoKey
          /\ key' = [key EXCEPT ![k] = [user |-> tx[t].user, status |-> "active"]]
    /\ End(t)
    /\ UNCHANGED <<memberVars, hash, session, link>>

CommitRevokeKey(t) ==
    /\ Holds(t, {"revokeKey"})
    /\ key' = [key EXCEPT ![tx[t].key].status = "revoked"]
    /\ End(t)
    /\ UNCHANGED <<memberVars, hash, session, link>>

CommitUseKey(t) ==
    /\ Holds(t, {"useKey"})
    /\ End(t)
    /\ UNCHANGED <<memberVars, hash, session, link, key>>

FaultyCommitUpdate(t) ==
    LET u == tx[t].target
    IN  /\ Holds(t, {"update"})
        /\ role' = [role EXCEPT ![u] = tx[t].role]
        /\ active' = [active EXCEPT ![u] = tx[t].active]
        /\ version' = [version EXCEPT ![u] = @ + 1]
        /\ session' = IF tx[t].active THEN session ELSE SessionsWithout(u)
        /\ End(t)
        /\ UNCHANGED <<initialized, hash, link, key>>
CommitUpdate(t) ==
    LET u == tx[t].target
    IN  /\ Holds(t, {"update"})
        /\ role' = [role EXCEPT ![u] = tx[t].role]
        /\ active' = [active EXCEPT ![u] = tx[t].active]
        /\ version' = [version EXCEPT ![u] = @ + 1]
        /\ session' = IF tx[t].active THEN session ELSE SessionsWithout(u)
        /\ link' = IF tx[t].active THEN link ELSE LinksWithout(u)
        /\ End(t)
        /\ UNCHANGED <<initialized, hash, key>>

CommitStep(t) ==
    \/ CommitRegister(t)
    \/ CommitLogin(t)
    \/ CommitRequest(t)
    \/ CommitComplete(t)
    \/ CommitCreateKey(t)
    \/ CommitRevokeKey(t)
    \/ CommitUseKey(t)
    \/ CommitUpdate(t)

\* One UPDATE, which waits for key management that shares the session.
Logout(s) ==
    /\ session[s] # NoSession
    /\ SessionFree(s)
    /\ session' = [session EXCEPT ![s] = NoSession]
    /\ UNCHANGED <<memberVars, hash, link, key, tx>>

\* PASSWORD_RESET_COOLDOWN_SECS and PASSWORD_RESET_TTL_SECS, in either order.
LinkAges(l, age) ==
    /\ link[l].status = "active"
    /\ <<link[l].age, age>> \in {<<"new", "old">>, <<"new", "expired">>, <<"old", "expired">>}
    /\ link' = [link EXCEPT ![l].age = age]
    /\ UNCHANGED <<memberVars, hash, session, key, tx>>

Next ==
    \/ \E t \in Txs : \/ BeginStep(t)
                      \/ LockStep(t)
                      \/ CommitStep(t)
                      \/ Rollback(t)
    \/ \E s \in Sessions : Logout(s)
    \/ \E l \in Links, age \in {"old", "expired"} : LinkAges(l, age)

Spec == Init /\ [][Next]_vars

(***************************************************************************)
(* Properties.                                                             *)
(***************************************************************************)

\* What a transaction checked is true until it commits: nobody deactivates the
\* member, changes the password, uses the link, ends the session, revokes the key
\* or changes the roles in between.
AuthorizationHolds ==
    \A t \in Txs :
        LET r == tx[t]
        IN  /\ r.step = "member" => active[r.user]
            /\ r.step = "granted" =>
                 /\ r.kind = "register" => (r.role = "owner" <=> ~initialized)
                 /\ r.kind # "register" => active[r.user]
                 /\ r.kind = "login" => r.hash = hash[r.user]
                 /\ r.kind = "complete" => link[r.link].status = "active"
                 /\ r.kind \in {"createKey", "revokeKey"} =>
                        session[r.session].user = r.user
                 /\ r.kind \in {"useKey", "revokeKey"} => key[r.key].status = "active"
                 /\ r.kind = "update" =>
                        /\ r.version = version[r.target]
                        /\ CanManage(role[r.user], role[r.target])
                        /\ LeavesOwner(r.target, r.role, r.active)

\* A session is worth no more than the password it was issued for: a password
\* verified before a reset, or a membership checked before a deactivation, never
\* leaves a session behind, and deactivation and reset end every older one.
SessionsAreCurrent ==
    \A s \in Sessions : session[s] # NoSession =>
        active[session[s].user] /\ session[s].hash = hash[session[s].user]

\* A link that still works was asked for under the present password by a member
\* who was never deactivated since.
LinksAreCurrent ==
    \A l \in Links : link[l].status = "active" =>
        active[link[l].user] /\ link[l].hash = hash[link[l].user]

\* Concurrent requests send one link per cooldown.
OneRecentLink ==
    \A l, m \in Links :
        /\ link[l].status = "active" /\ link[l].age = "new"
        /\ link[m].status = "active" /\ link[m].age = "new"
        /\ link[l].user = link[m].user
        => l = m

\* Each link changes a password at most once, and nothing else changes it.
OneChangePerLink ==
    \A u \in Users : role[u] # "none" =>
        hash[u] = 1 + Cardinality({l \in Links : link[l].user = u /\ link[l].status = "used"})

\* However reset requests and uses of links overlap, a member has one link that still
\* works from the last minute, and a link spends itself on one change.
ResetsAreOnce == OneRecentLink /\ OneChangePerLink

\* Two owners who demote or deactivate each other, or themselves, at once never
\* leave the organization without an active owner.
OwnerRemains == initialized => \E u \in Users : Owner(u)

\* Of members who register at once, exactly one becomes the owner.
OneFounder ==
    [][\A u \in Users : role[u] = "none" /\ role'[u] = "owner"
           => \A v \in Users : role[v] = "none"]_vars

\* docs/index.en.md:73: "Role changes and deactivation revoke sessions
\* immediately".
RoleChangeRevokesSessions ==
    [][\A u \in Users : role[u] # "none" /\ role'[u] # role[u]
           => \A s \in Sessions : session'[s].user # u]_vars
=============================================================================
