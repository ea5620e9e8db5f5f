------------------------------- MODULE Editor -------------------------------
(***************************************************************************)
(* One tab that reads, edits or creates one knowledge document             *)
(* (packages/views/src/knowledge/documents-view.tsx), against the server's *)
(* document, other writers and other tabs of the same browser.             *)
(*                                                                         *)
(* The tab caches the document per user, refreshes it whenever a page is   *)
(* mounted or focused, and mounts an uncontrolled form over it: the form   *)
(* keeps a baseline of its own, so a refresh never moves it.  A save names *)
(* the version of that baseline; a refused one is reconciled by reading    *)
(* the latest version and keeping the draft or taking the stored text.  A  *)
(* save runs on when its form is unmounted, and its success is written     *)
(* into the cache only for the user who is still signed in.  A refused one *)
(* reads the document again through the page it was submitted on, also     *)
(* when that page was left and another user signed in meanwhile.           *)
(*                                                                         *)
(* Titles and texts are left out: versions stand for them, and "typed"     *)
(* says whether the draft differs from the text of its baseline.  On the   *)
(* page "new" the cached entry is the permission to create (version 0).    *)
(***************************************************************************)
EXTENDS Browser

CONSTANTS
    Levels,         \* what a user may do: "none", "reader", "editor"
    MaxVersion,     \* bounds the versions of the document
    MaxSubmits      \* bounds the saves of the tab

ASSUME EditorAssumption ==
    /\ Levels \subseteq {"none", "reader", "editor"}
    /\ "editor" \in Levels
    /\ MaxVersion \in Nat \ {0}
    /\ MaxSubmits \in Nat

VARIABLES
    ver,        \* the version of the stored document, 0 before it is created
    access,     \* what each user may do with it
    claimed,    \* the idempotency keys the server has completed
    copies,     \* how many documents the tab's saves created
    page,       \* "new", "read" or "edit"
    cache,      \* the cached document of each user
    fetch,      \* the tab's request for it
    form,       \* the mounted form
    saves,      \* the saves under way, those of unmounted forms too
    submits,    \* how many saves were submitted
    keys,       \* how many idempotency keys the tab drew
    texts,      \* how many times a new text was submitted to be created
    left,       \* of the saves whose page was left, the user whose document it read last
    late        \* what such saves read of users the tab does not show, Nobody among them

serverVars == <<ver, access, claimed, copies>>
countVars == <<submits, keys, texts>>
lateVars == <<left, late>>
vars == <<browserVars, serverVars, page, cache, fetch, form, saves, countVars, lateVars>>

NoEntry == [version |-> -1, edit |-> FALSE, broken |-> FALSE]
Entry == [version : 0..MaxVersion, edit : BOOLEAN, broken : BOOLEAN]
Held(u) == cache[u].version >= 0

NoFetch == [stage |-> "idle", user |-> Nobody, with |-> NoSecret,
            version |-> -1, edit |-> FALSE]

\* A request for a document no page reads; held: data of an earlier one is in the cache.
NoLate == [stage |-> "idle", with |-> NoSecret, known |-> FALSE, held |-> FALSE]

NoForm == [up |-> FALSE, base |-> 0, seen |-> {}, typed |-> FALSE, latest |-> -1,
           asks |-> "nothing", status |-> "ready", save |-> 0, key |-> 0, changed |-> TRUE]

\* A fresh form over a cached entry: its baseline is what it shows.
Mounted(e) == [NoForm EXCEPT !.up = TRUE, !.base = e.version, !.seen = {e.version}]

TypeOK ==
    /\ BrowserTypeOK
    /\ ver \in 0..MaxVersion
    /\ access \in [Users -> Levels]
    /\ claimed \subseteq Users \X (1..MaxSubmits)
    /\ copies \in 0..MaxSubmits
    /\ page \in {"new", "read", "edit"}
    /\ cache \in [Users -> Entry \cup {NoEntry}]
    /\ fetch \in [stage : {"idle", "sent", "served"}, user : Users \cup {Nobody},
                  with : Secret \cup {NoSecret}, version : -1..MaxVersion, edit : BOOLEAN]
    /\ form \in [up : BOOLEAN, base : 0..MaxVersion, seen : SUBSET (0..MaxVersion),
                 typed : BOOLEAN, latest : -1..MaxVersion,
                 asks : {"nothing", "latest", "permission"},
                 status : {"ready", "conflict", "denied", "failed", "saved"},
                 save : 0..MaxSubmits, key : 0..MaxSubmits, changed : BOOLEAN]
    /\ saves \subseteq [id : 1..MaxSubmits, user : Users, serial : 1..MaxLogins,
                        with : Secret \cup {NoSecret}, base : 0..MaxVersion,
                        seen : SUBSET (0..MaxVersion), key : 0..MaxSubmits,
                        stage : {"sent", "served", "joining"},
                        result : {"none", "ok", "conflict", "denied", "refused"},
                        version : 0..MaxVersion, lost : BOOLEAN]
    /\ submits \in 0..MaxSubmits
    /\ keys \in 0..MaxSubmits
    /\ texts \in 0..MaxSubmits
    /\ DOMAIN left \subseteq 1..MaxSubmits
    /\ \A i \in DOMAIN left : left[i] \in Users \cup {Nobody}
    /\ late \in [Users \cup {Nobody} ->
                [stage : {"idle", "sent", "served"}, with : Secret \cup {NoSecret},
                 known : BOOLEAN, held : BOOLEAN]]

Init ==
    /\ BrowserInit
    /\ ver \in {0, 1}
    /\ access = [u \in Users |-> "editor"]
    /\ claimed = {}
    /\ copies = 0
    /\ page = IF ver = 0 THEN "new" ELSE "read"
    /\ cache = [u \in Users |-> NoEntry]
    /\ fetch = NoFetch
    /\ form = NoForm
    /\ saves = {}
    /\ submits = 0
    /\ keys = 0
    /\ texts = 0
    /\ left = <<>>
    /\ late = [u \in Users \cup {Nobody} |-> NoLate]

-----------------------------------------------------------------------------
(* Rendering and the cache.                                                *)

\* The form of the next render: it lives as long as the page, the signed-in user
\* (its key) and the cached data do, and is mounted afresh over new data.
Rendered(f, p, who, c) ==
    IF p = "read" \/ who.serial <= 0 THEN NoForm
    ELSE IF c[who.user].version < 0 THEN NoForm
    ELSE IF f.up /\ who.user = tab.user THEN f
    ELSE Mounted(c[who.user])

\* Faulty: what a save returned replaces the entry, whatever it is.
FaultyNewer(e, version) == [version |-> version, edit |-> TRUE, broken |-> FALSE]

\* The later of the cached entry and what a save returned.
Newer(e, version) ==
    IF e.version > version THEN e
    ELSE [version |-> version, edit |-> TRUE, broken |-> FALSE]

\* What a button that reads the document again does with the outcome, the entry e:
\* the latest version to reconcile with, or the permission that ends a refusal.
Answered(f, e, good) ==
    CASE f.asks = "latest" ->
            [f EXCEPT !.asks = "nothing", !.latest = IF good THEN e.version ELSE -1]
      [] f.asks = "permission" ->
            [f EXCEPT !.asks = "nothing", !.status = IF good /\ e.edit THEN "ready" ELSE @]
      [] OTHER -> f

\* A cancelled request leaves what is cached as the outcome.
Cancelled(f) == Answered(f, cache[tab.user], Held(tab.user) /\ ~cache[tab.user].broken)

\* Faulty: whoever is signed in now.
FaultyStillOf(s, who) == SignedIn

\* The user who submitted the save is the one who is signed in when it ends.
StillOf(s, who) == s.user = who.user

\* The page is left: the query it read with stays at the user it was rendered for last.
PageLeft ==
    [i \in {s.id : s \in saves} |-> IF i \in DOMAIN left THEN left[i] ELSE tab.user]

\* The end of onSuccess for the saves done: those of the user who is signed in now
\* reach the cache, and the form of one of them, if it is still there, leaves for
\* the document's page.  The others change nothing.  A created document has an
\* entry of its own, shown once the page is left.
Finish(done, who, c, f, request) ==
    LET own == {s \in done : StillOf(s, who)}
        mine(u) == {s \in own : s.user = u /\ s.base > 0}
        top(u) == CHOOSE s \in mine(u) : \A t \in mine(u) : s.version >= t.version
        leaving == {s \in own : f.up /\ s.id = f.save}
        created(u) == \E s \in leaving : s.user = u
        over == f.up /\ \E s \in done : s.id = f.save
        rest == IF over THEN [f EXCEPT !.save = 0, !.status = "saved"] ELSE f
        kept == IF page = "new" /\ leaving # {}
                THEN [u \in Users |-> IF created(u)
                        THEN Newer(NoEntry, (CHOOSE s \in leaving : TRUE).version) ELSE NoEntry]
                ELSE [u \in Users |-> IF mine(u) = {} THEN c[u] ELSE Newer(c[u], top(u).version)]
        next == IF leaving # {} THEN "read" ELSE page
    IN  /\ page' = next
        /\ cache' = kept
        /\ fetch' = IF page = "new" /\ leaving # {} THEN NoFetch ELSE request
        /\ form' = Rendered(rest, next, who, kept)
        /\ left' = IF leaving # {} THEN PageLeft ELSE left

-----------------------------------------------------------------------------
(* The session of the tab.                                                 *)

Joining == {s \in saves : s.stage = "joining"}

\* A session that belongs to someone else empties the cache and cancels every request
\* for the document; saves that waited for it go on with the new session.
SessionArrives ==
    LET purge == Foreign(probe.answer)
        rest == IF purge THEN [u \in Users |-> NoEntry] ELSE cache
    IN  /\ ProbeStored
        /\ saves' = saves \ Joining
        /\ Finish(Joining, probe.answer, rest, form, IF purge THEN NoFetch ELSE fetch)
        /\ late' = IF purge THEN [u \in DOMAIN late |-> NoLate] ELSE late
        /\ UNCHANGED <<serverVars, countVars>>

\* A save that waited for a session request that failed ends without a word: the
\* document is saved, but neither the cache nor the page learns of it.
SessionFails ==
    /\ ProbeFailed
    /\ saves' = saves \ Joining
    /\ form' = IF \E s \in Joining : s.id = form.save
               THEN [form EXCEPT !.save = 0, !.status = "saved"] ELSE form
    /\ UNCHANGED <<serverVars, page, cache, fetch, countVars, lateVars>>

Browse ==
    /\ ProbeSend \/ ProbeServed \/ Elsewhere
    /\ UNCHANGED <<serverVars, page, cache, fetch, form, saves, countVars, lateVars>>

-----------------------------------------------------------------------------
(* The document query.                                                     *)

NewFetch == [stage |-> "sent", user |-> tab.user, with |-> cookie, version |-> -1, edit |-> FALSE]

\* The page is mounted or focused: the document is read again.
FetchSend ==
    /\ SignedIn
    /\ fetch.stage = "idle"
    /\ fetch' = NewFetch
    /\ UNCHANGED <<browserVars, serverVars, page, cache, form, saves, countVars, lateVars>>

\* The server answers as of now, for the account of the cookie.
FetchServed ==
    LET u == fetch.with.user
        known == fetch.with \in live /\ access[u] # "none"
    IN  /\ fetch.stage = "sent"
        /\ fetch' = [fetch EXCEPT
            !.stage = "served",
            !.version = IF ~known THEN -1 ELSE IF page = "new" THEN 0 ELSE ver,
            !.edit = known /\ access[u] = "editor"]
        /\ UNCHANGED <<browserVars, serverVars, page, cache, form, saves, countVars, lateVars>>

\* The answer reaches the cache.  A failure keeps the data and marks it.
FetchArrives ==
    LET u == fetch.user
        good == fetch.version >= 0
        e == IF good THEN [version |-> fetch.version, edit |-> fetch.edit, broken |-> FALSE]
             ELSE IF Held(u) THEN [cache[u] EXCEPT !.broken = TRUE] ELSE NoEntry
        c == [cache EXCEPT ![u] = e]
    IN  /\ fetch.stage = "served"
        /\ fetch' = NoFetch
        /\ cache' = c
        /\ form' = Rendered(Answered(form, e, good), page, tab, c)
        /\ UNCHANGED <<browserVars, serverVars, page, saves, countVars, lateVars>>

FetchLost ==
    /\ fetch.stage # "idle"
    /\ fetch' = NoFetch
    /\ cache' = IF Held(fetch.user) THEN [cache EXCEPT ![fetch.user].broken = TRUE] ELSE cache
    /\ form' = Answered(form, NoEntry, FALSE)
    /\ UNCHANGED <<browserVars, serverVars, page, saves, countVars, lateVars>>
-----------------------------------------------------------------------------
(* The pages and the form.                                                 *)

\* What the form is over: the user's cached entry as refreshed since it was mounted.
Shown == cache[tab.user]

\* The fields accept input: no save is under way and editing is allowed.
CanType ==
    /\ form.up
    /\ form.save = 0
    /\ form.status # "denied"
    /\ Shown.edit
    /\ ~Shown.broken

OpenEditor ==
    /\ page = "read"
    /\ SignedIn
    /\ Held(tab.user)
    /\ Shown.edit
    /\ page' = "edit"
    /\ form' = Rendered(form, "edit", tab, cache)
    /\ UNCHANGED <<browserVars, serverVars, cache, fetch, saves, countVars, lateVars>>

\* Leaving an edited draft needs a confirmation; a save under way runs on.
LeaveEditor ==
    /\ page = "edit"
    /\ page' = "read"
    /\ form' = NoForm
    /\ left' = PageLeft
    /\ UNCHANGED <<browserVars, serverVars, cache, fetch, saves, countVars, late>>

Type ==
    /\ CanType
    /\ form' = [form EXCEPT !.typed = TRUE, !.changed = TRUE]
    /\ UNCHANGED <<browserVars, serverVars, page, cache, fetch, saves, countVars, lateVars>>

\* Faulty: the version on the screen's query is named, which a refresh moves.
FaultyNamedVersion == cache[tab.user].version

\* The version a save names: the baseline of the form, whatever was refreshed since.
NamedVersion == form.base

\* Faulty: every submission draws a key.
FaultyDrawsKey == TRUE

\* The key of a submission: kept while the text is the same.
DrawsKey == form.changed

Submit ==
    LET key == IF page # "new" THEN 0 ELSE IF DrawsKey THEN keys + 1 ELSE form.key
    IN  /\ CanType
        /\ form.status # "conflict"
        /\ submits < MaxSubmits
        /\ Event
        /\ submits' = submits + 1
        /\ keys' = IF page = "new" /\ DrawsKey THEN keys + 1 ELSE keys
        /\ texts' = IF page = "new" /\ form.changed THEN texts + 1 ELSE texts
        /\ saves' = saves \cup
            {[id |-> submits + 1, user |-> tab.user, serial |-> tab.serial, with |-> cookie,
              base |-> NamedVersion, seen |-> form.seen, key |-> key,
              stage |-> "sent", result |-> "none", version |-> 0, lost |-> FALSE]}
        /\ form' = [form EXCEPT !.save = submits + 1, !.status = "ready",
                                !.key = key, !.changed = FALSE]
        /\ UNCHANGED <<cookie, live, logins, role, tab, probe, serverVars, page, cache, fetch,
                       lateVars>>

\* What the user reads and chooses from after a conflict: the cached document, when
\* it is still the version that the last read returned.
Latest == form.latest >= 0 /\ form.latest = Shown.version

ReadLatest ==
    /\ form.up
    /\ form.status = "conflict"
    /\ fetch.stage = "idle"
    /\ fetch' = NewFetch
    /\ form' = [form EXCEPT !.asks = "latest"]
    /\ UNCHANGED <<browserVars, serverVars, page, cache, saves, countVars, lateVars>>

\* Keep the draft over the latest version, or take its text: both make it the
\* baseline of the form.
Reconcile(take) ==
    /\ form.up
    /\ form.status = "conflict"
    /\ Latest
    /\ form' = [form EXCEPT !.base = Shown.version,
                            !.seen = @ \cup {Shown.version},
                            !.typed = @ /\ ~take,
                            !.changed = TRUE,
                            !.latest = -1,
                            !.status = "ready"]
    /\ UNCHANGED <<browserVars, serverVars, page, cache, fetch, saves, countVars, lateVars>>

\* A reader, or a save that was denied, asks for the permission again.
RetryPermission ==
    /\ form.up
    /\ form.save = 0
    /\ fetch.stage = "idle"
    /\ \/ form.status = "denied"
       \/ ~Shown.edit
       \/ Shown.broken
    /\ fetch' = NewFetch
    /\ form' = [form EXCEPT !.asks = "permission"]
    /\ UNCHANGED <<browserVars, serverVars, page, cache, saves, countVars, lateVars>>

-----------------------------------------------------------------------------
(* The server and the answers.                                             *)

\* The request carries the cookie of the browser and the CSRF token the tab shows.
Authentic(s) == s.with \in live /\ s.with.serial = s.serial

Verdict(s) ==
    LET u == s.with.user
    IN  IF ~Authentic(s) THEN "refused"
        ELSE IF access[u] # "editor" THEN "denied"
        ELSE IF s.base > 0 /\ s.base # ver THEN "conflict"
        ELSE "ok"

\* One transaction: an accepted update is a new version, an accepted creation a
\* document for a key the server does not know; a known key returns the document.
Serve(s) ==
    LET ok == Verdict(s) = "ok"
        creates == ok /\ s.base = 0 /\ <<s.with.user, s.key>> \notin claimed
        updates == ok /\ s.base > 0
        now == IF updates THEN ver + 1 ELSE IF creates /\ ver = 0 THEN 1 ELSE ver
    IN  /\ s.stage = "sent"
        /\ updates => ver < MaxVersion
        /\ ver' = now
        /\ claimed' = IF creates THEN claimed \cup {<<s.with.user, s.key>>} ELSE claimed
        /\ copies' = IF creates THEN copies + 1 ELSE copies
        /\ saves' = (saves \ {s}) \cup
            {[s EXCEPT !.stage = "served", !.result = Verdict(s),
                       !.version = IF ok THEN now ELSE 0]}
        /\ UNCHANGED <<browserVars, access, page, cache, fetch, form, countVars, lateVars>>

Owns(s) == form.up /\ form.save = s.id

\* A success cancels the request for the document, which may carry an older version,
\* and waits for a session request that is under way before it goes on.
SaveSucceeds(s) ==
    LET cancels == s.base > 0 /\ fetch.user = s.user
        request == IF cancels THEN NoFetch ELSE fetch
        f == IF cancels THEN Cancelled(form) ELSE form
    IN  /\ s.stage = "served"
        /\ ~s.lost
        /\ s.result = "ok"
        /\ IF probe.stage # "idle"
           THEN /\ saves' = (saves \ {s}) \cup {[s EXCEPT !.stage = "joining"]}
                /\ fetch' = request
                /\ form' = f
                /\ UNCHANGED <<page, cache, left>>
           ELSE /\ saves' = saves \ {s}
                /\ Finish({s}, tab, cache, f, request)
        /\ UNCHANGED <<browserVars, serverVars, countVars, late>>

\* The user whose document the page of a save reads, or read when it was left.
ReadBy(s) == IF s.id \in DOMAIN left THEN left[s.id] ELSE tab.user

\* A read of the page's query replaces one under way, but waits for it while there is no
\* data.  For the user the tab shows it is the request of the pages (the permission to
\* create, once that page was left, is of no page); for anyone else it starts, after the
\* session change that would have cancelled it, a request with the cookie of this moment.
RefreshPermission(s) ==
    LET u == ReadBy(s)
        joins(stage, held) == stage # "idle" /\ ~held
        elsewhere == s.base = 0 /\ page # "new"
    IN  IF SignedIn /\ u = tab.user
        THEN /\ fetch' = IF elsewhere \/ joins(fetch.stage, Held(u)) THEN fetch ELSE NewFetch
             /\ UNCHANGED late
        ELSE /\ late' = IF joins(late[u].stage, late[u].held) THEN late
                        ELSE [late EXCEPT ![u].stage = "sent", ![u].with = cookie]
             /\ UNCHANGED fetch

\* A refusal is shown by the form, if it is still there; a denied save also asks for the
\* permission again, whether or not it is.
SaveRefused(s) ==
    LET shown == CASE s.result = "conflict" -> "conflict"
                   [] s.result = "denied" -> "denied"
                   [] OTHER -> "failed"
    IN  /\ s.stage = "served"
        /\ ~s.lost
        /\ s.result # "ok"
        /\ saves' = saves \ {s}
        /\ form' = IF Owns(s) THEN [form EXCEPT !.save = 0, !.status = shown] ELSE form
        /\ IF shown = "denied" THEN RefreshPermission(s) ELSE UNCHANGED <<fetch, late>>
        /\ UNCHANGED <<browserVars, serverVars, page, cache, countVars, left>>

\* The server answers a late request, for the account of the cookie.
LateServed(u) ==
    /\ late[u].stage = "sent"
    /\ late' = [late EXCEPT ![u].stage = "served",
            ![u].known = late[u].with \in live /\ access[late[u].with.user] # "none"]
    /\ UNCHANGED <<browserVars, serverVars, page, cache, fetch, form, saves, countVars, left>>

\* Its answer goes into the cache under the key it was sent for; a failure keeps the data.
LateEnds(u) ==
    /\ late[u].stage # "idle"
    /\ \E good \in {FALSE, late[u].stage = "served" /\ late[u].known} :
            late' = [late EXCEPT ![u] = [NoLate EXCEPT !.held = good \/ late[u].held]]
    /\ UNCHANGED <<browserVars, serverVars, page, cache, fetch, form, saves, countVars, left>>

\* The request or its answer is lost: the tab cannot know whether it was saved, and
\* a request that left may still reach the server later.
SaveLost(s) ==
    /\ s.stage # "joining"
    /\ \/ saves' = saves \ {s}
       \/ /\ s.stage = "sent"
          /\ ~s.lost
          /\ saves' = (saves \ {s}) \cup {[s EXCEPT !.lost = TRUE]}
    /\ form' = IF Owns(s) THEN [form EXCEPT !.save = 0, !.status = "failed"] ELSE form
    /\ UNCHANGED <<browserVars, serverVars, page, cache, fetch, countVars, lateVars>>

\* Someone else saves, or an administrator changes what a user may do.
WriteElsewhere ==
    /\ Event
    /\ ver \in 1..(MaxVersion - 1)
    /\ ver' = ver + 1
    /\ UNCHANGED <<cookie, live, logins, role, tab, probe, access, claimed, copies, page, cache,
                   fetch, form, saves, countVars, lateVars>>

ChangeAccess(u, level) ==
    /\ Event
    /\ access[u] # level
    /\ access' = [access EXCEPT ![u] = level]
    /\ UNCHANGED <<cookie, live, logins, role, tab, probe, ver, claimed, copies, page, cache,
                   fetch, form, saves, countVars, lateVars>>

-----------------------------------------------------------------------------
Next ==
    \/ Browse
    \/ SessionArrives
    \/ SessionFails
    \/ FetchSend
    \/ FetchServed
    \/ FetchArrives
    \/ FetchLost
    \/ OpenEditor
    \/ LeaveEditor
    \/ Type
    \/ Submit
    \/ ReadLatest
    \/ \E take \in BOOLEAN : Reconcile(take)
    \/ RetryPermission
    \/ \E s \in saves : Serve(s) \/ SaveSucceeds(s) \/ SaveRefused(s) \/ SaveLost(s)
    \/ \E u \in Users \cup {Nobody} : LateServed(u) \/ LateEnds(u)
    \/ WriteElsewhere
    \/ \E u \in Users, level \in Levels : ChangeAccess(u, level)

Spec == Init /\ [][Next]_vars

(***************************************************************************)
(* Properties.                                                             *)
(***************************************************************************)

Accepted(s) ==
    \E t \in saves' : t.id = s.id /\ s.stage = "sent" /\ t.stage = "served" /\ t.result = "ok"

\* A save is accepted only over a version its author has had in front of them, and
\* only for the account the tab shows: the server compares the version named, which the
\* form never moves by itself, and the token shown with the cookie another tab changed.
SavesWhatWasSeen ==
    [][\A s \in saves : Accepted(s) =>
            /\ s.with.user = s.user
            /\ s.base > 0 => ver \in s.seen]_vars

\* What the tab holds for the user it shows was read or saved since it shows that user: a
\* session change leaves nothing behind, and no save, read or refused save of a page of
\* before brings anything back for a page to show.  Of the users it does not show it
\* holds only what refused saves have read late, which is gone when it shows them again.
CacheIsOfSession ==
    /\ \A u \in Users : Held(u) => tab.user = u
    /\ SignedIn => late[tab.user] = NoLate

\* While the tab shows one user in one role, the document it holds never goes back
\* to an older version: an older answer does not overwrite what a save returned.
\* (A role that changes empties the cache, and a save that ends then may fill it with
\* a version older than the one shown before.)
NeverOlder ==
    [][\A u \in Users : Held(u) /\ cache'[u].version >= 0 /\ tab'.role = tab.role
                            => cache'[u].version >= cache[u].version]_vars

\* Submitting one text again after a lost answer does not create a second document.
CreatedOnce == copies <= texts
=============================================================================
