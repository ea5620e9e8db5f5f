------------------------------- MODULE Browser -------------------------------
(***************************************************************************)
(* What every page of the web client shares (packages/views/src/identity/  *)
(* session.ts): the cookie, which all tabs of the browser share and the    *)
(* server resolves to an account, the session this tab has cached, and the *)
(* request that refreshes it.  A page keeps its data in the same query     *)
(* cache; a refreshed session that belongs to someone else, or to nobody,  *)
(* empties it.  Modules of pages extend this one.                          *)
(*                                                                         *)
(* A session is a record: its serial (which stands for the secret, and so  *)
(* for the CSRF token derived from it), its user and the role the server   *)
(* reported.  Serial 0 is "signed out", -1 is "not read yet".              *)
(***************************************************************************)
EXTENDS Integers, FiniteSets

CONSTANTS
    Users, Nobody, Roles,
    MaxLogins,      \* bounds the sessions issued
    MaxEvents       \* bounds what users do here and elsewhere, requests apart

ASSUME BrowserAssumption ==
    /\ Nobody \notin Users
    /\ Roles # {}
    /\ MaxLogins \in Nat \ {0}
    /\ MaxEvents \in Nat

VARIABLES
    cookie,     \* the browser's session cookie; serial 0 when there is none
    live,       \* the sessions the server accepts
    logins,     \* how many sessions were issued
    events,     \* how much users did
    role,       \* the role the server holds of each user
    tab,        \* the session this tab has cached
    probe       \* the session request of this tab

browserVars == <<cookie, live, logins, events, role, tab, probe>>

Secret == [serial : 1..MaxLogins, user : Users]
NoSecret == [serial |-> 0, user |-> Nobody]
NoRole == CHOOSE r \in Roles : TRUE
SignedOut == [serial |-> 0, user |-> Nobody, role |-> NoRole]
Unknown == [SignedOut EXCEPT !.serial = -1]
Identity == [serial : 1..MaxLogins, user : Users, role : Roles]

Idle == [stage |-> "idle", with |-> NoSecret, answer |-> Unknown]
SignedIn == tab.serial > 0

BrowserTypeOK ==
    /\ cookie \in Secret \cup {NoSecret}
    /\ live \subseteq Secret
    /\ logins \in 0..MaxLogins
    /\ events \in 0..MaxEvents
    /\ role \in [Users -> Roles]
    /\ tab \in Identity \cup {SignedOut, Unknown}
    /\ probe \in [stage : {"idle", "sent", "served"},
                  with : Secret \cup {NoSecret},
                  answer : Identity \cup {SignedOut, Unknown}]

BrowserInit ==
    /\ \E u \in Users : cookie = [serial |-> 1, user |-> u]
    /\ live = {cookie}
    /\ logins = 1
    /\ events = 0
    /\ role = [u \in Users |-> NoRole]
    /\ tab = Unknown
    /\ probe = Idle

-----------------------------------------------------------------------------
(* The session request of the tab.                                         *)

\* A page is mounted or the window gets the focus: the cached session is stale
\* at once (staleTime 0) and read again, with the cookie of that moment.
ProbeSend ==
    /\ probe.stage = "idle"
    /\ probe' = [stage |-> "sent", with |-> cookie, answer |-> Unknown]
    /\ UNCHANGED <<cookie, live, logins, events, role, tab>>

\* The server resolves the cookie; 401 when it knows no such session.
ProbeServed ==
    /\ probe.stage = "sent"
    /\ probe' = [probe EXCEPT
        !.stage = "served",
        !.answer = IF probe.with \in live
                   THEN [serial |-> probe.with.serial, user |-> probe.with.user,
                         role |-> role[probe.with.user]]
                   ELSE SignedOut]
    /\ UNCHANGED <<cookie, live, logins, events, role, tab>>

\* Whether an answer belongs to someone else than the tab has shown so far, so
\* that every other query is cancelled and removed before it is stored.
Foreign(answer) ==
    \/ answer.serial = 0
    \/ tab.user # answer.user
    \/ tab.role # answer.role

\* The answer is stored.  The await in the query function only lets cancelled
\* requests reject, so nothing else runs between its steps; what it does to the
\* pages' data is in the modules of the pages.
ProbeStored ==
    /\ probe.stage = "served"
    /\ tab' = probe.answer
    /\ probe' = Idle
    /\ UNCHANGED <<cookie, live, logins, events, role>>

\* The request failed: the session cached so far stays (retry: false).
ProbeFailed ==
    /\ probe.stage # "idle"
    /\ probe' = Idle
    /\ UNCHANGED <<cookie, live, logins, events, role, tab>>

-----------------------------------------------------------------------------
(* The rest of the browser and the administrators of the server.           *)

Event ==
    /\ events < MaxEvents
    /\ events' = events + 1

\* The server issues a session and the browser stores its cookie.
Issue(u) ==
    LET s == [serial |-> logins + 1, user |-> u]
    IN  /\ logins < MaxLogins
        /\ logins' = logins + 1
        /\ live' = live \cup {s}
        /\ cookie' = s

LoginElsewhere(u) == Issue(u) /\ UNCHANGED role

LogoutElsewhere ==
    /\ cookie # NoSecret
    /\ live' = live \ {cookie}
    /\ cookie' = NoSecret
    /\ UNCHANGED <<logins, role>>

\* Every session of a user is revoked: a password reset or a deactivation.
RevokeSessions(u) ==
    /\ \E s \in live : s.user = u
    /\ live' = {s \in live : s.user # u}
    /\ UNCHANGED <<cookie, logins, role>>

ChangeRole(u, r) ==
    /\ role[u] # r
    /\ role' = [role EXCEPT ![u] = r]
    /\ UNCHANGED <<cookie, live, logins>>

Elsewhere ==
    /\ Event
    /\ \/ \E u \in Users : LoginElsewhere(u) \/ RevokeSessions(u)
       \/ LogoutElsewhere
       \/ \E u \in Users, r \in Roles : ChangeRole(u, r)
    /\ UNCHANGED <<tab, probe>>
=============================================================================
