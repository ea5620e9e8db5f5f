------------------------------- MODULE Entry -------------------------------
(***************************************************************************)
(* How a tab of the web client gets into and out of a session: the login,  *)
(* registration and home pages and the page of a password-reset link       *)
(* (packages/views/src/identity), against the session request of the tab,  *)
(* other tabs and the server.                                              *)
(*                                                                         *)
(* What changes the session here stores it itself (replaceSession): every  *)
(* query is cancelled and removed first, the session request included.     *)
(***************************************************************************)
EXTENDS Browser

CONSTANT
    MaxLinks        \* bounds the reset links mailed

ASSUME EntryAssumption == MaxLinks \in Nat

VARIABLES
    route,      \* "home", "login", "register" or "reset"
    sign,       \* the request of the page that changes the session
    ended,      \* the sessions this tab was told are over
    link,       \* the reset page: the link opened last and the token it still holds
    mailed,     \* how many links were mailed; a link is its number
    consumed    \* the links the server has accepted or replaced

entryVars == <<browserVars, route, sign, ended, link, mailed, consumed>>

\* here: whether the page that asked is still mounted.
NoSign == [what |-> "none", stage |-> "idle", with |-> NoSecret, shown |-> 0, link |-> 0,
           result |-> "none", answer |-> SignedOut, here |-> FALSE]

NoLink == [opened |-> 0, token |-> 0]

Owner == CHOOSE u \in Users : TRUE

EntryInit ==
    /\ BrowserInit
    /\ route = "home"
    /\ sign = NoSign
    /\ ended = {}
    /\ link = NoLink
    /\ mailed = 0
    /\ consumed = {}

-----------------------------------------------------------------------------
(* Pages.                                                                  *)

\* The request of a page that is left: that of the reset page is aborted, the others
\* run on and still replace the session.
Leaving == IF sign.what \in {"none", "reset"} THEN NoSign ELSE [sign EXCEPT !.here = FALSE]

Visit(r) ==
    /\ r \in {"home", "login", "register"}
    /\ r # route
    /\ route' = r
    /\ link' = NoLink
    /\ sign' = Leaving
    /\ UNCHANGED <<browserVars, ended, mailed, consumed>>

\* A mail with a link is sent: the link before it is void.
MailLink ==
    /\ Event
    /\ mailed < MaxLinks
    /\ mailed' = mailed + 1
    /\ consumed' = consumed \cup {mailed}
    /\ UNCHANGED <<cookie, live, logins, role, tab, probe, route, sign, ended, link>>

\* A link is opened, also on the page of an older one: its token is kept, the fragment
\* cleared, and the page mounted afresh.
OpenLink ==
    /\ mailed > link.opened
    /\ route' = "reset"
    /\ link' = [opened |-> mailed, token |-> mailed]
    /\ sign' = Leaving
    /\ UNCHANGED <<browserVars, ended, mailed, consumed>>

LoginView == route = "login"
RegisterView == route = "register"
HomeView == route = "home" /\ SignedIn
ResetPasswordView == route = "reset" /\ link.token > 0

\* A request that changes the session is sent by a page; one at a time in this model,
\* although one of a page that was left may still run.
Request(what) ==
    /\ sign = NoSign
    /\ \/ what = "login" /\ LoginView
       \/ what = "register" /\ RegisterView
       \/ what = "logout" /\ HomeView
       \/ what = "reset" /\ ResetPasswordView
    /\ sign' = [NoSign EXCEPT !.what = what, !.stage = "sent", !.with = cookie,
                              !.shown = tab.serial, !.link = link.token, !.here = TRUE]
    /\ UNCHANGED <<browserVars, route, ended, link, mailed, consumed>>

-----------------------------------------------------------------------------
(* The server.                                                             *)

Settle(result, answer) ==
    sign' = [sign EXCEPT !.stage = "served", !.result = result, !.answer = answer]

\* A session is issued to whoever signs in; the browser stores its cookie when the
\* answer arrives.
SignInServed(u) ==
    LET s == [serial |-> logins + 1, user |-> u]
    IN  /\ sign.stage = "sent"
        /\ sign.what \in {"login", "register"}
        /\ logins < MaxLogins
        /\ logins' = logins + 1
        /\ live' = live \cup {s}
        /\ Settle("ok", [serial |-> s.serial, user |-> u, role |-> role[u]])
        /\ UNCHANGED <<cookie, events, role, tab, probe, route, ended, link, mailed, consumed>>

\* Without a cookie the session is over already; a token that is not the cookie's is
\* refused.
LogoutServed ==
    /\ sign.stage = "sent"
    /\ sign.what = "logout"
    /\ \/ sign.with = NoSecret /\ Settle("over", SignedOut) /\ UNCHANGED live
       \/ /\ sign.with # NoSecret
          /\ sign.with.serial # sign.shown
          /\ Settle("refused", SignedOut)
          /\ UNCHANGED live
       \/ /\ sign.with.serial = sign.shown
          /\ Settle("ok", SignedOut)
          /\ live' = live \ {sign.with}
    /\ UNCHANGED <<cookie, logins, events, role, tab, probe, route, ended, link, mailed, consumed>>

\* A link that is valid sets the password and revokes every session of its account.
ResetServed ==
    /\ sign.stage = "sent"
    /\ sign.what = "reset"
    /\ IF sign.link \in consumed
       THEN Settle("refused", SignedOut) /\ UNCHANGED <<live, consumed>>
       ELSE /\ Settle("ok", SignedOut)
            /\ consumed' = consumed \cup {sign.link}
            /\ live' = {s \in live : s.user # Owner}
    /\ UNCHANGED <<cookie, logins, events, role, tab, probe, route, ended, link, mailed>>

-----------------------------------------------------------------------------
(* The answers.                                                            *)

\* Every query is cancelled before the new session is stored, its own one included.
Cancelled == Idle

SignInArrives ==
    /\ sign.stage = "served"
    /\ sign.what \in {"login", "register"}
    /\ cookie' = [serial |-> sign.answer.serial, user |-> sign.answer.user]
    /\ tab' = sign.answer
    /\ probe' = Cancelled
    /\ sign' = NoSign
    /\ route' = IF sign.here THEN "home" ELSE route
    /\ UNCHANGED <<live, logins, events, role, ended, link, mailed, consumed>>

LogoutArrives ==
    /\ sign.stage = "served"
    /\ sign.what = "logout"
    /\ sign' = NoSign
    /\ IF sign.result = "refused"
       THEN UNCHANGED <<cookie, tab, probe, ended>>
       ELSE /\ cookie' = IF sign.result = "ok" THEN NoSecret ELSE cookie
            /\ tab' = SignedOut
            /\ probe' = Cancelled
            /\ ended' = ended \cup {sign.shown}
    /\ UNCHANGED <<live, logins, events, role, route, link, mailed, consumed>>

\* The token is dropped once its link is used, the cookie cleared; a refusal keeps it and is shown.
ResetArrives ==
    /\ sign.stage = "served"
    /\ sign.what = "reset"
    /\ sign' = NoSign
    /\ IF sign.result = "refused"
       THEN UNCHANGED <<cookie, tab, probe, link>>
       ELSE /\ cookie' = NoSecret
            /\ tab' = SignedOut
            /\ probe' = Cancelled
            /\ link' = [link EXCEPT !.token = 0]
    /\ UNCHANGED <<live, logins, events, role, route, ended, mailed, consumed>>

\* The request or its answer is lost: the page says so and may ask again.
SignLost ==
    /\ sign # NoSign
    /\ sign' = NoSign
    /\ UNCHANGED <<browserVars, route, ended, link, mailed, consumed>>

EntryNext ==
    \/ /\ ProbeSend \/ ProbeServed \/ ProbeStored \/ ProbeFailed \/ Elsewhere
       /\ UNCHANGED <<route, sign, ended, link, mailed, consumed>>
    \/ \E r \in {"home", "login", "register"} : Visit(r)
    \/ MailLink
    \/ OpenLink
    \/ \E what \in {"login", "register", "logout", "reset"} : Request(what)
    \/ \E u \in Users : SignInServed(u)
    \/ LogoutServed
    \/ ResetServed
    \/ SignInArrives
    \/ LogoutArrives
    \/ ResetArrives
    \/ SignLost

(***************************************************************************)
(* Properties.                                                             *)
(***************************************************************************)

\* Once a tab was told that its session is over it does not show that session again,
\* also when a session request that was answered before arrives after the logout.
LogoutIsFinal == tab.serial \notin ended

\* The reset page loses its token only when that very link is void: the answer for an
\* older link, which was under way when this one was opened, does not take it away.
FreshLinkKept == link.opened > 0 /\ link.token = 0 => link.opened \in consumed

\* What the pages into and out of a session show and keep belongs to where they are.
EntryIsCurrent == LogoutIsFinal /\ FreshLinkKept
=============================================================================
