---------------------------- MODULE EditorProofs ----------------------------
(***************************************************************************)
(* Proofs about the tab that reads, edits and creates a document: for any  *)
(* users, roles and levels and any number of logins, versions, saves and   *)
(* events.                                                                 *)
(***************************************************************************)
EXTENDS Editor, FiniteSetTheorems, WellFoundedInduction, TLAPS

-----------------------------------------------------------------------------
(* The inductive invariant.                                                *)

\* A session is known by its serial, and the browser never mixes two of them up: in
\* the cookie, at the server, in the tab, in the session request and in the saves.
Known(a) ==
    \/ a \in live \cup {cookie, probe.with}
    \/ a.serial = tab.serial /\ a.user = tab.user
    \/ a.serial = probe.answer.serial /\ a.user = probe.answer.user
    \/ \E s \in saves : a = s.with \/ (a.serial = s.serial /\ a.user = s.user)

SerialsAreOnce ==
    /\ \A a \in Secret : Known(a) => a.serial <= logins
    /\ \A a, b \in Secret : Known(a) /\ Known(b) /\ a.serial = b.serial => a.user = b.user

\* A request for the document, and a form, are of the user the tab shows; without a
\* form nothing of the one before is left.
RequestIsOwn == fetch.stage # "idle" => fetch.user = tab.user
FormIsOfSession ==
    IF form.up THEN tab.serial > 0 /\ cache[tab.user].version >= 0 ELSE form = NoForm

\* Version 0 is on the page "new" and nowhere else, and the text of a document is
\* read without a form.
OnNew ==
    page = "new" =>
        /\ \A u \in Users : cache[u].version <= 0
        /\ fetch.version <= 0
        /\ form.up => form.base = 0
        /\ \A s \in saves : s.base = 0
OffNew ==
    page # "new" =>
        /\ ver > 0
        /\ \A u \in Users : cache[u].version # 0
        /\ fetch.version # 0
        /\ form.up => form.base > 0
ReadHasNoForm == page = "read" => ~form.up

\* The baseline of a form, and of a save, was on the screen.
BaseIsSeen ==
    /\ form.up => form.base \in form.seen
    /\ \A s \in saves : s.base \in s.seen

\* A save is known by its number.
SavesAreNumbered ==
    /\ \A s \in saves : s.id <= submits
    /\ \A s, t \in saves : s.id = t.id => s = t

\* Nothing is newer than the document, and an answer on its way is not older than
\* what it will replace, nor than what a save that waits will have put there.
NothingIsNewer ==
    /\ claimed # {} => ver > 0
    /\ \A u \in Users : cache[u].version <= ver
    /\ fetch.version <= ver
    /\ \A s \in saves : s.version <= ver
    /\ \A s \in saves : s.result = "ok" => s.version > 0
    /\ \A s \in saves : s.stage = "joining" => s.result = "ok"
AnswerIsNotOlder ==
    fetch.stage = "served" /\ fetch.version >= 0 =>
        /\ \A u \in Users : u = fetch.user => cache[u].version <= fetch.version
        /\ \A s \in saves : s.stage = "joining" /\ s.base > 0 /\ s.user = fetch.user
                                => s.version <= fetch.version

\* An idempotency key is drawn for one text of one user: whoever holds it.
Holds(u, k) ==
    \/ \E s \in saves : s.key = k /\ s.user = u
    \/ <<u, k>> \in claimed
    \/ page = "new" /\ form.up /\ ~form.changed /\ form.key = k /\ tab.user = u

KeysAreOwned ==
    /\ \A u \in Users, k \in 1..MaxSubmits : Holds(u, k) => k <= keys
    /\ \A u, v \in Users, k \in 1..MaxSubmits : Holds(u, k) /\ Holds(v, k) => u = v
    /\ \A s \in saves : s.base = 0 => s.key > 0
    /\ page = "new" /\ form.up /\ ~form.changed => form.key > 0
KeysAreTexts == keys = texts /\ keys <= submits

\* The documents created are as many as the keys the server has completed.
ClaimedKeys == {k \in 1..MaxSubmits : \E u \in Users : <<u, k>> \in claimed}
CopiesAreClaimed == copies = Cardinality(ClaimedKeys)

EditorInv ==
    /\ TypeOK
    /\ SerialsAreOnce
    /\ RequestIsOwn
    /\ FormIsOfSession
    /\ CacheIsOfSession
    /\ OnNew
    /\ OffNew
    /\ ReadHasNoForm
    /\ BaseIsSeen
    /\ SavesAreNumbered
    /\ NothingIsNewer
    /\ AnswerIsNotOlder
    /\ KeysAreOwned
    /\ KeysAreTexts
    /\ CopiesAreClaimed

-----------------------------------------------------------------------------
(* Types.                                                                  *)

Shows == Identity \cup {SignedOut, Unknown}
Cookies == Secret \cup {NoSecret}
Entries == Entry \cup {NoEntry}
Caches == [Users -> Entries]
Pages == {"new", "read", "edit"}
Requests == [stage : {"idle", "sent", "served"}, user : Users \cup {Nobody},
             with : Cookies, version : -1..MaxVersion, edit : BOOLEAN]
Forms == [up : BOOLEAN, base : 0..MaxVersion, seen : SUBSET (0..MaxVersion),
          typed : BOOLEAN, latest : -1..MaxVersion,
          asks : {"nothing", "latest", "permission"},
          status : {"ready", "conflict", "denied", "failed", "saved"},
          save : 0..MaxSubmits, key : 0..MaxSubmits, changed : BOOLEAN]
Submitted == [id : 1..MaxSubmits, user : Users, serial : 1..MaxLogins,
              with : Cookies, base : 0..MaxVersion,
              seen : SUBSET (0..MaxVersion), key : 0..MaxSubmits,
              stage : {"sent", "served", "joining"},
              result : {"none", "ok", "conflict", "denied", "refused"},
              version : 0..MaxVersion, lost : BOOLEAN]
Probes == [stage : {"idle", "sent", "served"}, with : Cookies, answer : Shows]
Readers == Users \cup {Nobody}
LateRequests == [stage : {"idle", "sent", "served"}, with : Cookies, known : BOOLEAN, held : BOOLEAN]
Lates == [Readers -> LateRequests]
LeftTyped == DOMAIN left \subseteq 1..MaxSubmits /\ \A i \in DOMAIN left : left[i] \in Readers

LEMMA TypeParts ==
    TypeOK <=>
        /\ cookie \in Cookies /\ live \subseteq Secret
        /\ logins \in 0..MaxLogins /\ events \in 0..MaxEvents
        /\ role \in [Users -> Roles] /\ tab \in Shows /\ probe \in Probes
        /\ ver \in 0..MaxVersion /\ access \in [Users -> Levels]
        /\ claimed \subseteq Users \X (1..MaxSubmits) /\ copies \in 0..MaxSubmits
        /\ page \in Pages /\ cache \in Caches /\ fetch \in Requests
        /\ form \in Forms /\ saves \subseteq Submitted
        /\ submits \in 0..MaxSubmits /\ keys \in 0..MaxSubmits /\ texts \in 0..MaxSubmits
        /\ LeftTyped /\ late \in Lates
BY DEF TypeOK, BrowserTypeOK, Cookies, Shows, Probes, Pages, Caches, Entries, Requests, Forms, Submitted,
       LeftTyped, Lates, LateRequests, Readers

LEMMA TypePartsNext ==
    ASSUME cookie' \in Cookies, live' \subseteq Secret,
           logins' \in 0..MaxLogins, events' \in 0..MaxEvents,
           role' \in [Users -> Roles], tab' \in Shows, probe' \in Probes,
           ver' \in 0..MaxVersion, access' \in [Users -> Levels],
           claimed' \subseteq Users \X (1..MaxSubmits), copies' \in 0..MaxSubmits,
           page' \in Pages, cache' \in Caches, fetch' \in Requests,
           form' \in Forms, saves' \subseteq Submitted,
           submits' \in 0..MaxSubmits, keys' \in 0..MaxSubmits, texts' \in 0..MaxSubmits,
           LeftTyped', late' \in Lates
    PROVE  TypeOK'
BY DEF TypeOK, BrowserTypeOK, Cookies, Shows, Probes, Pages, Caches, Entries, Requests, Forms, Submitted,
       LeftTyped, Lates, LateRequests, Readers

LEMMA FormFields ==
    ASSUME NEW f \in Forms
    PROVE  /\ f.up \in BOOLEAN /\ f.changed \in BOOLEAN /\ f.typed \in BOOLEAN
           /\ f.base \in 0..MaxVersion /\ f.seen \in SUBSET (0..MaxVersion)
           /\ f.latest \in -1..MaxVersion
           /\ f.save \in 0..MaxSubmits /\ f.key \in 0..MaxSubmits
BY DEF Forms

LEMMA SaveFields ==
    ASSUME NEW s \in Submitted
    PROVE  /\ s.id \in 1..MaxSubmits /\ s.user \in Users /\ s.serial \in 1..MaxLogins
           /\ s.with \in Cookies /\ s.base \in 0..MaxVersion
           /\ s.seen \in SUBSET (0..MaxVersion) /\ s.key \in 0..MaxSubmits
           /\ s.stage \in {"sent", "served", "joining"}
           /\ s.result \in {"none", "ok", "conflict", "denied", "refused"}
           /\ s.version \in 0..MaxVersion /\ s.lost \in BOOLEAN
BY DEF Submitted

LEMMA EntryFields ==
    ASSUME NEW e \in Entries
    PROVE  /\ e.version \in -1..MaxVersion /\ e.edit \in BOOLEAN /\ e.broken \in BOOLEAN
           /\ e.version < 0 <=> e = NoEntry
<1>1. CASE e \in Entry
    BY <1>1, EditorAssumption DEF Entry, NoEntry
<1>2. CASE e = NoEntry
    BY <1>2, EditorAssumption DEF NoEntry
<1>3. QED
    BY <1>1, <1>2 DEF Entries

LEMMA ShownFields ==
    ASSUME NEW a \in Shows
    PROVE  /\ a.serial \in -1..MaxLogins /\ a.user \in Users \cup {Nobody}
           /\ a.serial > 0 <=> a \in Identity
           /\ a.user \in Users <=> a \in Identity
           /\ a \in Identity => a.serial \in 1..MaxLogins
<1>1. CASE a \in Identity
    BY <1>1, BrowserAssumption DEF Identity
<1>2. CASE a = SignedOut
    BY <1>2, BrowserAssumption DEF SignedOut, Identity
<1>3. CASE a = Unknown
    <2>1. a.serial = -1 /\ a.user = Nobody
        BY <1>3 DEF Unknown, SignedOut
    <2>2. QED
        BY <2>1, BrowserAssumption DEF Identity
<1>4. QED
    BY <1>1, <1>2, <1>3 DEF Shows

LEMMA SecretFields ==
    ASSUME NEW a \in Cookies
    PROVE  /\ a.serial \in 0..MaxLogins /\ a.user \in Users \cup {Nobody}
           /\ a.serial > 0 <=> a \in Secret
           /\ a \in Secret => a.user \in Users
           /\ a \in Secret => a = [serial |-> a.serial, user |-> a.user]
<1>1. CASE a \in Secret
    BY <1>1, BrowserAssumption DEF Secret
<1>2. CASE a = NoSecret
    BY <1>2, BrowserAssumption DEF NoSecret, Secret
<1>3. QED
    BY <1>1, <1>2 DEF Cookies

LEMMA Constants ==
    /\ NoRole \in Roles
    /\ SignedOut \in Shows /\ Unknown \in Shows /\ Idle \in Probes
    /\ NoSecret \in Cookies /\ NoFetch \in Requests /\ NoForm \in Forms /\ NoEntry \in Entries
    /\ ~NoForm.up /\ NoFetch.stage = "idle" /\ NoFetch.version = -1 /\ NoEntry.version = -1
<1>1. NoRole \in Roles
    BY BrowserAssumption DEF NoRole
<1>2. Unknown \in Shows /\ SignedOut \in Shows
    BY DEF Shows
<1>3. NoSecret \in Cookies
    BY DEF Cookies
<1>4. Idle \in Probes
    BY <1>2, <1>3 DEF Idle, Probes
<1>5. NoFetch \in Requests /\ NoFetch.stage = "idle" /\ NoFetch.version = -1
    BY <1>3, EditorAssumption DEF NoFetch, Requests
<1>6. NoForm \in Forms /\ ~NoForm.up
    BY EditorAssumption DEF NoForm, Forms
<1>7. NoEntry \in Entries /\ NoEntry.version = -1
    BY DEF NoEntry, Entries
<1>8. QED
    BY <1>1, <1>2, <1>3, <1>4, <1>5, <1>6, <1>7

-----------------------------------------------------------------------------
(* What the operators of the model return.                                 *)

SameDraft(f, g) ==
    /\ f.up <=> g.up
    /\ f.base = g.base
    /\ f.seen = g.seen
    /\ f.key = g.key
    /\ f.changed <=> g.changed

LEMMA MountedFacts ==
    ASSUME NEW e \in Entry
    PROVE  /\ Mounted(e) \in Forms
           /\ Mounted(e).up /\ Mounted(e).changed
           /\ Mounted(e).base = e.version /\ Mounted(e).seen = {e.version}
<1>1. e.version \in 0..MaxVersion
    BY DEF Entry
<1>2. NoForm \in Forms
    BY Constants
<1>3. /\ Mounted(e) \in Forms
      /\ Mounted(e).up /\ Mounted(e).changed = NoForm.changed
      /\ Mounted(e).base = e.version /\ Mounted(e).seen = {e.version}
    BY <1>1, <1>2 DEF Mounted, Forms
<1>4. NoForm.changed
    BY DEF NoForm
<1>5. QED
    BY <1>3, <1>4

\* The form of the next render is none, the one before for the same user, or a fresh one
\* over the entry of the user the tab shows.
RenderedAs(f, p, who, c, r) ==
    \/ r = NoForm
    \/ r = f /\ f.up /\ who.user = tab.user /\ p # "read" /\ who.serial > 0
             /\ c[who.user].version >= 0
    \/ /\ r.up /\ r.changed /\ p # "read" /\ who.serial > 0
       /\ r.base = c[who.user].version /\ r.seen = {r.base}

LEMMA RenderedFacts ==
    ASSUME NEW f \in Forms, NEW p, NEW who \in Shows, NEW c \in Caches
    PROVE  /\ Rendered(f, p, who, c) \in Forms
           /\ RenderedAs(f, p, who, c, Rendered(f, p, who, c))
           /\ p = "read" => Rendered(f, p, who, c) = NoForm
<1>1. CASE p = "read" \/ who.serial <= 0
    BY <1>1, Constants DEF Rendered, RenderedAs
<1>2. CASE p # "read" /\ ~(who.serial <= 0)
    <2>1. who.serial > 0 /\ who.user \in Users
        BY <1>2, ShownFields
    <2>2. c[who.user] \in Entries
        BY <2>1 DEF Caches
    <2>3. CASE c[who.user].version < 0
        BY <1>2, <2>3, Constants DEF Rendered, RenderedAs
    <2>4. CASE ~(c[who.user].version < 0)
        <3>1. c[who.user].version >= 0 /\ c[who.user] \in Entry
            BY <2>2, <2>4, EntryFields DEF Entries
        <3>2. CASE f.up /\ who.user = tab.user
            <4>1. Rendered(f, p, who, c) = f
                BY <1>2, <2>4, <3>2 DEF Rendered
            <4>2. QED
                BY <1>2, <2>1, <3>1, <3>2, <4>1 DEF RenderedAs
        <3>3. CASE ~(f.up /\ who.user = tab.user)
            <4>1. Rendered(f, p, who, c) = Mounted(c[who.user])
                BY <1>2, <2>4, <3>3 DEF Rendered
            <4>2. QED
                BY <1>2, <2>1, <3>1, <4>1, MountedFacts DEF RenderedAs
        <3>4. QED
            BY <3>2, <3>3
    <2>5. QED
        BY <2>3, <2>4
<1>3. QED
    BY <1>1, <1>2

LEMMA AnsweredFacts ==
    ASSUME NEW f \in Forms, NEW e \in Entries, NEW good \in BOOLEAN
    PROVE  Answered(f, e, good) \in Forms /\ SameDraft(Answered(f, e, good), f)
<1>1. e.version \in -1..MaxVersion
    BY EntryFields
<1>2. CASE f.asks = "latest"
    <2>1. PICK v \in -1..MaxVersion : v = IF good THEN e.version ELSE -1
        BY <1>1, EditorAssumption
    <2>2. Answered(f, e, good) = [f EXCEPT !.asks = "nothing", !.latest = v]
        BY <1>2, <2>1 DEF Answered
    <2>3. QED
        BY <2>2 DEF Forms, SameDraft
<1>3. CASE f.asks = "permission"
    BY <1>3 DEF Answered, Forms, SameDraft
<1>4. CASE f.asks # "latest" /\ f.asks # "permission"
    BY <1>4 DEF Answered, SameDraft
<1>5. QED
    BY <1>2, <1>3, <1>4

LEMMA EndedFacts ==
    ASSUME NEW f \in Forms, NEW status \in {"ready", "conflict", "denied", "failed", "saved"}
    PROVE  /\ [f EXCEPT !.save = 0, !.status = status] \in Forms
           /\ SameDraft([f EXCEPT !.save = 0, !.status = status], f)
<1>1. 0 \in 0..MaxSubmits
    BY EditorAssumption
<1>2. [f EXCEPT !.save = 0, !.status = status] \in Forms
    BY <1>1 DEF Forms
<1>3. SameDraft([f EXCEPT !.save = 0, !.status = status], f)
    BY DEF Forms, SameDraft
<1>4. QED
    BY <1>2, <1>3

LEMMA NewerFacts ==
    ASSUME NEW e \in Entries, NEW v \in 0..MaxVersion
    PROVE  /\ Newer(e, v) \in Entry
           /\ Newer(e, v).version = IF e.version > v THEN e.version ELSE v
<1>1. CASE e.version > v
    <2>1. e \in Entry
        BY <1>1, EntryFields, EditorAssumption DEF Entries
    <2>2. QED
        BY <1>1, <2>1 DEF Newer
<1>2. CASE ~(e.version > v)
    BY <1>2 DEF Newer, Entry
<1>3. QED
    BY <1>1, <1>2

\* Of saves, one returned the newest version.
LEMMA SomeNewest ==
    ASSUME NEW S, S \subseteq Submitted, S # {}
    PROVE  \E s \in S : \A t \in S : s.version >= t.version
<1> DEFINE Below == {MaxVersion - s.version : s \in S}
           R == OpToRel(<, Nat)
<1>1. \A s \in S : s.version \in 0..MaxVersion /\ MaxVersion - s.version \in Nat
    BY SaveFields, EditorAssumption
<1>2. Below \subseteq Nat /\ Below # {}
    BY <1>1
<1>3. IsWellFoundedOn(R, Nat)
    BY NatLessThanWellFounded
<1>4. R = OpToRel(<, Nat)
    OBVIOUS
<1> HIDE DEF R
<1>5. PICK m \in Below : \A n \in Below : <<n, m>> \notin R
    BY <1>2, <1>3, WFMin
<1>6. PICK s \in S : m = MaxVersion - s.version
    BY <1>5
<1>7. ASSUME NEW t \in S PROVE s.version >= t.version
    <2>1. MaxVersion - t.version \in Below /\ MaxVersion - t.version \in Nat /\ m \in Nat
        BY <1>1, <1>2, <1>5
    <2>2. ~(MaxVersion - t.version < m)
        BY <1>4, <1>5, <2>1 DEF OpToRel
    <2>3. s.version \in Int /\ t.version \in Int /\ MaxVersion \in Int
        BY <1>1, EditorAssumption
    <2>4. QED
        BY <1>6, <2>2, <2>3
<1>8. QED
    BY <1>7

\* What the end of onSuccess leaves: either the page "new" was left for the document's, with
\* an entry of its own, or the entry of the user the tab shows is the later one, and the
\* others are as they were.
FinishedAs(done, who, c, f, request) ==
    /\ page' \in Pages /\ cache' \in Caches /\ fetch' \in Requests /\ form' \in Forms
    /\ \E g \in Forms : SameDraft(g, f) /\ RenderedAs(g, page', who, cache', form')
    /\ \/ /\ page = "new" /\ page' = "read" /\ fetch' = NoFetch
          /\ \E s \in done : s.user = who.user
          /\ \A u \in Users :
                \/ cache'[u] = NoEntry
                \/ u = who.user /\ \E s \in done : s.user = u /\ cache'[u] = Newer(NoEntry, s.version)
       \/ /\ page = "new" <=> page' = "new"
          /\ page' \in {page, "read"}
          /\ fetch' = request
          /\ \A u \in Users :
                \/ cache'[u] = c[u]
                \/ /\ u = who.user
                   /\ \E s \in done : s.user = u /\ s.base > 0 /\ cache'[u] = Newer(c[u], s.version)

LEMMA FinishFacts ==
    ASSUME page \in Pages, NEW done, done \subseteq Submitted, NEW who \in Shows,
           NEW c \in Caches, NEW f \in Forms, NEW request \in Requests,
           Finish(done, who, c, f, request)
    PROVE  FinishedAs(done, who, c, f, request)
<1> DEFINE own == {s \in done : StillOf(s, who)}
           mine(u) == {s \in own : s.user = u /\ s.base > 0}
           top(u) == CHOOSE s \in mine(u) : \A t \in mine(u) : s.version >= t.version
           leaving == {s \in own : f.up /\ s.id = f.save}
           created(u) == \E s \in leaving : s.user = u
           one == CHOOSE s \in leaving : TRUE
           over == f.up /\ \E s \in done : s.id = f.save
           rest == IF over THEN [f EXCEPT !.save = 0, !.status = "saved"] ELSE f
           first == [u \in Users |-> IF created(u) THEN Newer(NoEntry, one.version) ELSE NoEntry]
           later == [u \in Users |-> IF mine(u) = {} THEN c[u] ELSE Newer(c[u], top(u).version)]
           kept == IF page = "new" /\ leaving # {} THEN first ELSE later
           next == IF leaving # {} THEN "read" ELSE page
<1>1. /\ page' = next /\ cache' = kept
      /\ fetch' = IF page = "new" /\ leaving # {} THEN NoFetch ELSE request
      /\ form' = Rendered(rest, next, who, kept)
    BY DEF Finish
<1>2. rest \in Forms /\ SameDraft(rest, f)
    <2>1. f \in Forms /\ SameDraft(f, f)
        BY DEF SameDraft
    <2>2. CASE over
        BY <2>2, EndedFacts
    <2>3. QED
        BY <2>1, <2>2
<1>3. \A s \in own : s \in done /\ s.user = who.user
    BY DEF StillOf
<1>4. ASSUME leaving # {} PROVE one \in leaving /\ one \in own /\ one.version \in 0..MaxVersion
    BY <1>4, SaveFields
<1>5. ASSUME NEW u \in Users, mine(u) # {}
      PROVE  top(u) \in mine(u) /\ top(u) \in own /\ top(u).version \in 0..MaxVersion
    <2>1. mine(u) \subseteq Submitted
        OBVIOUS
    <2>2. \E s \in mine(u) : \A t \in mine(u) : s.version >= t.version
        BY <1>5, <2>1, SomeNewest
    <2>3. top(u) \in mine(u)
        BY <2>2
    <2>4. QED
        BY <2>1, <2>3, SaveFields
<1>6. first \in Caches
    <2>1. ASSUME NEW u \in Users, created(u) PROVE Newer(NoEntry, one.version) \in Entries
        BY <2>1, <1>4, NewerFacts, Constants DEF Entries
    <2>2. QED
        BY <2>1, Constants DEF Caches
<1>7. later \in Caches
    <2>1. ASSUME NEW u \in Users, mine(u) # {} PROVE Newer(c[u], top(u).version) \in Entries
        <3>1. c[u] \in Entries
            BY DEF Caches
        <3>2. QED
            BY <2>1, <3>1, <1>5, NewerFacts DEF Entries
    <2>2. QED
        BY <2>1 DEF Caches
<1> HIDE DEF own, mine, top, leaving, created, one, over, rest, first, later, kept, next
<1>8. kept \in Caches
    BY <1>6, <1>7 DEF kept
<1>9. next \in Pages
    BY DEF next, Pages
<1>10. form' \in Forms /\ RenderedAs(rest, next, who, kept, form') /\ (next = "read" => form' = NoForm)
    BY <1>1, <1>2, <1>8, RenderedFacts
<1>11. /\ page' \in Pages /\ cache' \in Caches /\ fetch' \in Requests /\ form' \in Forms
       /\ \E g \in Forms : SameDraft(g, f) /\ RenderedAs(g, page', who, cache', form')
    BY <1>1, <1>2, <1>8, <1>9, <1>10, Constants
<1>12. CASE page = "new" /\ leaving # {}
    <2>1. page' = "read" /\ fetch' = NoFetch /\ cache' = first
        BY <1>1, <1>12 DEF next, kept
    <2>2. one \in done /\ one.user = who.user
        BY <1>3, <1>4, <1>12
    <2>3. ASSUME NEW u \in Users
          PROVE  \/ cache'[u] = NoEntry
                 \/ u = who.user /\ \E s \in done : s.user = u /\ cache'[u] = Newer(NoEntry, s.version)
        <3>1. CASE ~created(u)
            BY <2>1, <3>1 DEF first
        <3>2. CASE created(u)
            <4>1. cache'[u] = Newer(NoEntry, one.version)
                BY <2>1, <3>2 DEF first
            <4>2. u = who.user
                BY <1>3, <3>2 DEF created, leaving
            <4>3. QED
                BY <2>2, <4>1, <4>2
        <3>3. QED
            BY <3>1, <3>2
    <2>4. QED
        BY <1>11, <1>12, <2>1, <2>2, <2>3 DEF FinishedAs
<1>13. CASE ~(page = "new" /\ leaving # {})
    <2>1. cache' = later /\ fetch' = request
        BY <1>1, <1>13 DEF kept
    <2>2. (page = "new" <=> page' = "new") /\ page' \in {page, "read"}
        BY <1>1, <1>13 DEF next
    <2>3. ASSUME NEW u \in Users
          PROVE  \/ cache'[u] = c[u]
                 \/ /\ u = who.user
                    /\ \E s \in done : s.user = u /\ s.base > 0 /\ cache'[u] = Newer(c[u], s.version)
        <3>1. CASE mine(u) = {}
            BY <2>1, <3>1 DEF later
        <3>2. CASE mine(u) # {}
            <4>1. cache'[u] = Newer(c[u], top(u).version)
                BY <2>1, <3>2 DEF later
            <4>2. top(u) \in mine(u) /\ top(u) \in own
                BY <1>5, <3>2
            <4>3. top(u).user = u /\ top(u).base > 0 /\ top(u) \in done /\ u = who.user
                BY <1>3, <4>2 DEF mine
            <4>4. QED
                BY <4>1, <4>3
        <3>3. QED
            BY <3>1, <3>2
    <2>4. QED
        BY <1>11, <2>1, <2>2, <2>3 DEF FinishedAs
<1>14. QED
    BY <1>12, <1>13

-----------------------------------------------------------------------------
(* How the saves move.                                                     *)

\* The save t is the save s, further on.
Follows(t, s) ==
    /\ t.id = s.id /\ t.user = s.user /\ t.serial = s.serial /\ t.with = s.with
    /\ t.base = s.base /\ t.seen = s.seen /\ t.key = s.key

Advanced(s, t) ==
    \/ s.stage = "sent" /\ t.stage = "sent" /\ t.version = s.version /\ t.result = s.result
    \/ /\ s.stage = "sent" /\ t.stage = "served" /\ t.version <= ver'
       /\ t.result = "ok" => t.version > 0 /\ Verdict(s) = "ok"
    \/ /\ s.stage = "served" /\ t.stage = "joining" /\ t.version = s.version
       /\ s.result = "ok" /\ t.result = "ok"
       /\ t.base > 0 /\ fetch.user = t.user => fetch' = NoFetch

\* What a submission adds.
Fresh(t) ==
    /\ t.id = submits + 1 /\ t.user = tab.user /\ t.serial = tab.serial /\ t.with = cookie
    /\ t.base = form.base /\ t.seen = form.seen
    /\ t.stage = "sent" /\ t.result = "none" /\ t.version = 0
    /\ t.key = IF page # "new" THEN 0 ELSE IF form.changed THEN keys + 1 ELSE form.key

SavesMove ==
    \/ saves' \subseteq saves /\ UNCHANGED countVars
    \/ /\ UNCHANGED countVars
       /\ \E s \in saves, t \in Submitted :
             saves' = (saves \ {s}) \cup {t} /\ Follows(t, s) /\ Advanced(s, t)
    \/ /\ submits' = submits + 1 /\ submits < MaxSubmits /\ form.up
       /\ keys' = IF page = "new" /\ form.changed THEN keys + 1 ELSE keys
       /\ texts' = IF page = "new" /\ form.changed THEN texts + 1 ELSE texts
       /\ \E t \in Submitted : saves' = saves \cup {t} /\ Fresh(t)

\* The server resolves the cookie of an authentic save to the user who submitted it.
LEMMA AuthenticUser ==
    ASSUME TypeOK, SerialsAreOnce, NEW s \in saves, Authentic(s)
    PROVE  s.with \in Secret /\ s.with \in live /\ s.with.user = s.user
<1>1. s \in Submitted /\ live \subseteq Secret
    BY TypeParts
<1>2. s.with \in live /\ s.with.serial = s.serial /\ s.with \in Secret
    BY <1>1 DEF Authentic
<1> DEFINE b == [serial |-> s.serial, user |-> s.user]
<1>3. b \in Secret /\ b.serial = s.serial /\ b.user = s.user
    BY <1>1, SaveFields DEF Secret
<1> HIDE DEF b
<1>4. Known(s.with) /\ Known(b)
    BY <1>2, <1>3 DEF Known
<1>5. QED
    BY <1>2, <1>3, <1>4 DEF SerialsAreOnce

LEMMA ServeFacts ==
    ASSUME TypeOK, SerialsAreOnce, KeysAreOwned, NothingIsNewer, NEW s \in saves, Serve(s)
    PROVE  /\ ver' \in 0..MaxVersion /\ ver' >= ver
           /\ \E t \in Submitted :
                 saves' = (saves \ {s}) \cup {t} /\ Follows(t, s) /\ Advanced(s, t)
           /\ \/ claimed' = claimed /\ copies' = copies
              \/ /\ s.key \in 1..MaxSubmits /\ s.user \in Users
                 /\ <<s.user, s.key>> \notin claimed
                 /\ claimed' = claimed \cup {<<s.user, s.key>>}
                 /\ copies' = copies + 1
                 /\ ver' > 0
<1> DEFINE ok == Verdict(s) = "ok"
           creates == ok /\ s.base = 0 /\ <<s.with.user, s.key>> \notin claimed
           updates == ok /\ s.base > 0
           now == IF updates THEN ver + 1 ELSE IF creates /\ ver = 0 THEN 1 ELSE ver
           t == [s EXCEPT !.stage = "served", !.result = Verdict(s),
                          !.version = IF ok THEN now ELSE 0]
<1>1. /\ s.stage = "sent" /\ (updates => ver < MaxVersion)
      /\ ver' = now
      /\ claimed' = IF creates THEN claimed \cup {<<s.with.user, s.key>>} ELSE claimed
      /\ copies' = IF creates THEN copies + 1 ELSE copies
      /\ saves' = (saves \ {s}) \cup {t}
    BY DEF Serve
<1>2. s \in Submitted /\ ver \in 0..MaxVersion
    BY TypeParts
<1>3. Verdict(s) \in {"refused", "denied", "conflict", "ok"}
    BY DEF Verdict
<1>4. now \in 0..MaxVersion /\ now >= ver
    BY <1>1, <1>2, EditorAssumption
<1>5. ok => now > 0
    <2>1. CASE updates
        BY <1>2, <2>1
    <2>2. CASE ~updates /\ creates
        BY <1>2, <2>2
    <2>3. CASE ~updates /\ ~creates /\ ok
        <3>1. s.base = 0
            BY <1>2, <2>3, SaveFields
        <3>2. claimed # {}
            BY <2>3, <3>1
        <3>3. QED
            BY <1>2, <2>3, <3>2 DEF NothingIsNewer
    <2>4. QED
        BY <2>1, <2>2, <2>3
<1>6. creates => /\ s.key \in 1..MaxSubmits /\ s.with.user = s.user /\ s.user \in Users
                 /\ <<s.user, s.key>> \notin claimed
    <2>1. ASSUME creates PROVE s.key > 0 /\ s.key \in 0..MaxSubmits /\ s.user \in Users
        BY <1>2, <2>1, SaveFields DEF KeysAreOwned
    <2>2. ASSUME creates PROVE Authentic(s)
        BY <2>2 DEF Verdict
    <2>3. QED
        BY <2>1, <2>2, AuthenticUser, EditorAssumption
<1> DEFINE v == IF ok THEN now ELSE 0
<1>7. v \in 0..MaxVersion /\ v <= now /\ (ok => v > 0)
    BY <1>4, <1>5, EditorAssumption
<1>8. t = [s EXCEPT !.stage = "served", !.result = Verdict(s), !.version = v]
    OBVIOUS
<1> HIDE DEF ok, creates, updates, now, t, v
<1>9. t \in Submitted
    BY <1>2, <1>3, <1>7, <1>8 DEF Submitted
<1>10. /\ Follows(t, s) /\ t.stage = "served" /\ t.result = Verdict(s) /\ t.version = v
    BY <1>2, <1>8 DEF Follows, Submitted
<1>11. Advanced(s, t)
    BY <1>1, <1>7, <1>10 DEF Advanced, ok
<1>12. ver' \in 0..MaxVersion /\ ver' >= ver
    BY <1>1, <1>4
<1>13. \/ claimed' = claimed /\ copies' = copies
       \/ /\ s.key \in 1..MaxSubmits /\ s.user \in Users
          /\ <<s.user, s.key>> \notin claimed
          /\ claimed' = claimed \cup {<<s.user, s.key>>}
          /\ copies' = copies + 1
          /\ ver' > 0
    <2>1. creates => ver' > 0
        BY <1>1, <1>5 DEF creates
    <2>2. QED
        BY <1>1, <1>6, <2>1
<1>14. \E r \in Submitted : saves' = (saves \ {s}) \cup {r} /\ Follows(r, s) /\ Advanced(s, r)
    BY <1>1, <1>9, <1>10, <1>11
<1>15. QED
    BY <1>12, <1>13, <1>14

LEMMA SubmitFacts ==
    ASSUME TypeOK, FormIsOfSession, keys <= submits, Submit
    PROVE  /\ submits' = submits + 1 /\ submits < MaxSubmits /\ form.up
           /\ keys' = IF page = "new" /\ form.changed THEN keys + 1 ELSE keys
           /\ texts' = IF page = "new" /\ form.changed THEN texts + 1 ELSE texts
           /\ \E t \in Submitted : saves' = saves \cup {t} /\ Fresh(t) /\ form'.key = t.key
           /\ form' \in Forms /\ (form'.up <=> form.up) /\ form'.base = form.base
           /\ form'.seen = form.seen /\ ~form'.changed
<1> DEFINE key == IF page # "new" THEN 0 ELSE IF form.changed THEN keys + 1 ELSE form.key
           t == [id |-> submits + 1, user |-> tab.user, serial |-> tab.serial, with |-> cookie,
                 base |-> form.base, seen |-> form.seen, key |-> key,
                 stage |-> "sent", result |-> "none", version |-> 0, lost |-> FALSE]
<1>1. /\ form.up /\ submits < MaxSubmits /\ submits' = submits + 1
      /\ saves' = saves \cup {t}
      /\ form' = [form EXCEPT !.save = submits + 1, !.status = "ready",
                              !.key = key, !.changed = FALSE]
    <2>1. form.up /\ submits < MaxSubmits /\ submits' = submits + 1
        BY DEF Submit, CanType
    <2>2. saves' = saves \cup {t}
        BY DEF Submit, NamedVersion, DrawsKey
    <2>3. form' = [form EXCEPT !.save = submits + 1, !.status = "ready",
                               !.key = key, !.changed = FALSE]
        BY Zenon DEF Submit, DrawsKey
    <2>4. QED
        BY <2>1, <2>2, <2>3
<1>2. form \in Forms /\ tab \in Shows /\ cookie \in Cookies /\ keys \in 0..MaxSubmits
      /\ submits \in 0..MaxSubmits
    BY TypeParts
<1>3. submits + 1 \in 1..MaxSubmits
    BY <1>1, <1>2, EditorAssumption
<1>4. key \in 0..MaxSubmits
    BY <1>1, <1>2, FormFields, EditorAssumption
<1> HIDE DEF key
<1>5. form' \in Forms
    <2>1. PICK n \in 0..MaxSubmits : n = submits + 1
        BY <1>3
    <2>2. form' = [form EXCEPT !.save = n, !.status = "ready", !.key = key, !.changed = FALSE]
        BY <1>1, <2>1
    <2>3. QED
        BY <1>2, <1>4, <2>2 DEF Forms
<1>6. (form'.up <=> form.up) /\ form'.base = form.base /\ form'.seen = form.seen /\ form'.key = key
      /\ ~form'.changed
    BY <1>1, <1>2 DEF Forms
<1>7. t \in Submitted
    <2>1. tab.serial \in 1..MaxLogins /\ tab.user \in Users
        BY <1>1, <1>2, ShownFields DEF FormIsOfSession
    <2>2. form.base \in 0..MaxVersion /\ form.seen \in SUBSET (0..MaxVersion)
        BY <1>2, FormFields
    <2>3. 0 \in 0..MaxVersion
        BY EditorAssumption
    <2>4. QED
        BY <1>2, <1>3, <1>4, <2>1, <2>2, <2>3 DEF Submitted
<1>8. Fresh(t) /\ t.key = key
    BY DEF Fresh, key
<1>9. /\ keys' = IF page = "new" /\ form.changed THEN keys + 1 ELSE keys
      /\ texts' = IF page = "new" /\ form.changed THEN texts + 1 ELSE texts
    BY DEF Submit, DrawsKey
<1>10. QED
    BY <1>1, <1>5, <1>6, <1>7, <1>8, <1>9

LEMMA UserOfForm ==
    ASSUME TypeOK, FormIsOfSession, form.up
    PROVE  tab.user \in Users /\ tab \in Identity /\ cache[tab.user] \in Entry
<1>1. tab \in Shows /\ tab.serial > 0 /\ cache \in Caches
    BY TypeParts DEF FormIsOfSession
<1>2. tab.user \in Users /\ tab \in Identity
    BY <1>1, ShownFields
<1>3. cache[tab.user] \in Entries /\ cache[tab.user].version >= 0
    BY <1>1, <1>2 DEF Caches, FormIsOfSession
<1>4. QED
    BY <1>2, <1>3, Constants DEF Entries

\* A button that waits for the document has its answer, and the draft stays.
LEMMA CancelledFacts ==
    ASSUME TypeOK, FormIsOfSession
    PROVE  Cancelled(form) \in Forms /\ SameDraft(Cancelled(form), form)
           /\ (~form.up => Cancelled(form) = NoForm)
<1>1. CASE form.up
    <2>1. cache[tab.user] \in Entries /\ form \in Forms
        BY <1>1, UserOfForm, TypeParts DEF Entries
    <2> DEFINE good == Held(tab.user) /\ ~cache[tab.user].broken
    <2>2. good \in BOOLEAN
        OBVIOUS
    <2>3. Cancelled(form) = Answered(form, cache[tab.user], good)
        BY DEF Cancelled
    <2> HIDE DEF good
    <2>4. QED
        BY <1>1, <2>1, <2>2, <2>3, AnsweredFacts
<1>2. CASE ~form.up
    <2>1. form = NoForm /\ form.asks = "nothing"
        BY <1>2 DEF FormIsOfSession, NoForm
    <2>2. Cancelled(form) = form
        BY <2>1 DEF Cancelled, Answered
    <2>3. QED
        BY <1>2, <2>1, <2>2, Constants DEF SameDraft
<1>3. QED
    BY <1>1, <1>2

LEMMA SaveSucceedsFacts ==
    ASSUME TypeOK, FormIsOfSession, NEW s \in saves, SaveSucceeds(s)
    PROVE  /\ s.stage = "served" /\ s.result = "ok"
           /\ \E f \in Forms, request \in Requests :
                 /\ SameDraft(f, form) /\ (~form.up => f = NoForm)
                 /\ request \in {fetch, NoFetch}
                 /\ s.base > 0 /\ fetch.user = s.user => request = NoFetch
                 /\ \/ /\ \E t \in Submitted :
                             /\ saves' = (saves \ {s}) \cup {t} /\ Follows(t, s)
                             /\ Advanced(s, t)
                       /\ fetch' = request /\ form' = f /\ page' = page /\ cache' = cache
                    \/ /\ saves' = saves \ {s}
                       /\ FinishedAs({s}, tab, cache, f, request)
<1> DEFINE cancels == s.base > 0 /\ fetch.user = s.user
           request == IF cancels THEN NoFetch ELSE fetch
           f == IF cancels THEN Cancelled(form) ELSE form
<1>1. s.stage = "served" /\ s.result = "ok"
    BY DEF SaveSucceeds
<1>2. \/ /\ saves' = (saves \ {s}) \cup {[s EXCEPT !.stage = "joining"]}
         /\ fetch' = request /\ form' = f /\ page' = page /\ cache' = cache
      \/ saves' = saves \ {s} /\ Finish({s}, tab, cache, f, request)
    BY DEF SaveSucceeds
<1>3. /\ s \in Submitted /\ form \in Forms /\ fetch \in Requests /\ page \in Pages
      /\ tab \in Shows /\ cache \in Caches
    BY TypeParts
<1>4. f \in Forms /\ SameDraft(f, form) /\ (~form.up => f = NoForm)
    <2>1. SameDraft(form, form)
        BY DEF SameDraft
    <2>2. QED
        BY <1>3, <2>1, CancelledFacts DEF FormIsOfSession
<1>5. request \in Requests /\ request \in {fetch, NoFetch} /\ (cancels => request = NoFetch)
    BY <1>3, Constants
<1> HIDE DEF f, request
<1>6. CASE /\ saves' = (saves \ {s}) \cup {[s EXCEPT !.stage = "joining"]}
           /\ fetch' = request /\ form' = f /\ page' = page /\ cache' = cache
    <2> DEFINE t == [s EXCEPT !.stage = "joining"]
    <2>1. t \in Submitted /\ t.stage = "joining" /\ t.version = s.version /\ t.result = s.result
          /\ Follows(t, s)
        BY <1>3 DEF Submitted, Follows
    <2>2. t.base > 0 /\ fetch.user = t.user => fetch' = NoFetch
        BY <1>5, <1>6, <2>1 DEF Follows
    <2> HIDE DEF t
    <2>3. Advanced(s, t)
        BY <1>1, <2>1, <2>2 DEF Advanced
    <2>4. saves' = (saves \ {s}) \cup {t}
        BY <1>6 DEF t
    <2>5. QED
        BY <1>1, <1>4, <1>5, <1>6, <2>1, <2>3, <2>4
<1>7. CASE saves' = saves \ {s} /\ Finish({s}, tab, cache, f, request)
    <2>1. {s} \subseteq Submitted
        BY <1>3
    <2>2. FinishedAs({s}, tab, cache, f, request)
        BY <1>3, <1>4, <1>5, <1>7, <2>1, FinishFacts
    <2>3. QED
        BY <1>1, <1>4, <1>5, <1>7, <2>2
<1>8. QED
    BY <1>2, <1>6, <1>7

LEMMA SessionArrivesFacts ==
    ASSUME TypeOK, SessionArrives
    PROVE  /\ probe.stage = "served" /\ tab' = probe.answer /\ probe' = Idle
           /\ UNCHANGED <<cookie, live, logins, events, role>>
           /\ saves' = saves \ Joining
           /\ \E c \in Caches, request \in Requests :
                 /\ \/ /\ Foreign(probe.answer) /\ request = NoFetch
                       /\ c = [u \in Users |-> NoEntry]
                    \/ ~Foreign(probe.answer) /\ request = fetch /\ c = cache
                 /\ FinishedAs(Joining, probe.answer, c, form, request)
<1> DEFINE purge == Foreign(probe.answer)
           c == IF purge THEN [u \in Users |-> NoEntry] ELSE cache
           request == IF purge THEN NoFetch ELSE fetch
<1>1. /\ probe.stage = "served" /\ tab' = probe.answer /\ probe' = Idle
      /\ UNCHANGED <<cookie, live, logins, events, role>>
      /\ saves' = saves \ Joining
    BY DEF SessionArrives, ProbeStored
<1>2. Finish(Joining, probe.answer, c, form, request)
    BY DEF SessionArrives
<1>3. /\ probe.answer \in Shows /\ form \in Forms /\ fetch \in Requests /\ page \in Pages
      /\ cache \in Caches /\ Joining \subseteq Submitted
    BY TypeParts DEF Probes, Joining
<1>4. c \in Caches /\ request \in Requests
    BY <1>3, Constants DEF Caches
<1>5. \/ purge /\ request = NoFetch /\ c = [u \in Users |-> NoEntry]
      \/ ~purge /\ request = fetch /\ c = cache
    OBVIOUS
<1> HIDE DEF c, request
<1>6. FinishedAs(Joining, probe.answer, c, form, request)
    BY <1>2, <1>3, <1>4, FinishFacts
<1>7. QED
    BY <1>1, <1>4, <1>5, <1>6

LEMMA SaveEndsFacts ==
    ASSUME TypeOK, NEW s \in saves, SaveRefused(s) \/ SaveLost(s)
    PROVE  /\ \/ saves' = saves \ {s}
              \/ \E t \in Submitted :
                    saves' = (saves \ {s}) \cup {t} /\ Follows(t, s) /\ Advanced(s, t)
           /\ form' \in Forms /\ SameDraft(form', form) /\ (~form.up => form' = form)
           /\ fetch' \in {fetch, NewFetch}
           /\ UNCHANGED <<browserVars, serverVars, page, cache, countVars>>
<1>1. s \in Submitted /\ form \in Forms /\ SameDraft(form, form)
    BY TypeParts DEF SameDraft
<1>2. CASE SaveRefused(s)
    <2> DEFINE shown == CASE s.result = "conflict" -> "conflict"
                          [] s.result = "denied" -> "denied"
                          [] OTHER -> "failed"
    <2>1. /\ saves' = saves \ {s}
          /\ form' = IF Owns(s) THEN [form EXCEPT !.save = 0, !.status = shown] ELSE form
          /\ UNCHANGED <<browserVars, serverVars, page, cache, countVars>>
        BY <1>2 DEF SaveRefused
    <2>2. shown \in {"ready", "conflict", "denied", "failed", "saved"}
        OBVIOUS
    <2> HIDE DEF shown
    <2>3. Owns(s) => form.up
        BY DEF Owns
    <2>4. form' \in Forms /\ SameDraft(form', form) /\ (~form.up => form' = form)
        BY <1>1, <2>1, <2>2, <2>3, EndedFacts
    <2>5. fetch' \in {fetch, NewFetch}
        BY <1>2 DEF SaveRefused, RefreshPermission
    <2>6. QED
        BY <2>1, <2>4, <2>5
<1>3. CASE SaveLost(s)
    <2>1. /\ \/ saves' = saves \ {s}
             \/ s.stage = "sent" /\ saves' = (saves \ {s}) \cup {[s EXCEPT !.lost = TRUE]}
          /\ form' = IF Owns(s) THEN [form EXCEPT !.save = 0, !.status = "failed"] ELSE form
          /\ UNCHANGED <<browserVars, serverVars, page, cache, fetch, countVars>>
        BY <1>3 DEF SaveLost
    <2>2. Owns(s) => form.up
        BY DEF Owns
    <2>3. form' \in Forms /\ SameDraft(form', form) /\ (~form.up => form' = form)
        BY <1>1, <2>1, <2>2, EndedFacts
    <2> DEFINE t == [s EXCEPT !.lost = TRUE]
    <2>4. t \in Submitted /\ Follows(t, s) /\ t.stage = s.stage /\ t.version = s.version
          /\ t.result = s.result
        BY <1>1 DEF Submitted, Follows
    <2>5. s.stage = "sent" => Advanced(s, t)
        BY <2>4 DEF Advanced
    <2>6. QED
        BY <2>1, <2>3, <2>4, <2>5
<1>4. QED
    BY <1>2, <1>3

LEMMA SavesSteps ==
    ASSUME EditorInv, [Next]_vars
    PROVE  SavesMove
<1>0. TypeOK /\ SerialsAreOnce /\ FormIsOfSession /\ NothingIsNewer /\ KeysAreOwned /\ keys <= submits
    BY DEF EditorInv, KeysAreTexts
<1>1. CASE Browse \/ FetchSend \/ FetchServed \/ FetchArrives \/ FetchLost
    BY <1>1 DEF SavesMove, Browse, FetchSend, FetchServed, FetchArrives, FetchLost, countVars
<1>2. CASE OpenEditor \/ LeaveEditor \/ Type \/ ReadLatest \/ RetryPermission
           \/ WriteElsewhere \/ \E take \in BOOLEAN : Reconcile(take)
    BY <1>2 DEF SavesMove, OpenEditor, LeaveEditor, Type, ReadLatest, RetryPermission, WriteElsewhere,
                Reconcile, countVars
<1>3. CASE \E u \in Users, level \in Levels : ChangeAccess(u, level)
    BY <1>3 DEF SavesMove, ChangeAccess, countVars
<1>4. CASE SessionArrives \/ SessionFails
    BY <1>4 DEF SavesMove, SessionArrives, SessionFails, countVars
<1>5. CASE Submit
    BY <1>0, <1>5, SubmitFacts DEF SavesMove
<1>6. ASSUME NEW s \in saves, Serve(s) PROVE SavesMove
    <2>1. UNCHANGED countVars
        BY <1>6 DEF Serve, countVars
    <2>2. QED
        BY <1>0, <1>6, <2>1, ServeFacts DEF SavesMove
<1>7. ASSUME NEW s \in saves, SaveSucceeds(s) PROVE SavesMove
    <2>1. UNCHANGED countVars
        BY <1>7 DEF SaveSucceeds, countVars
    <2>2. \/ saves' = saves \ {s}
          \/ \E t \in Submitted :
                saves' = (saves \ {s}) \cup {t} /\ Follows(t, s) /\ Advanced(s, t)
        BY <1>0, <1>7, SaveSucceedsFacts
    <2>3. QED
        BY <2>1, <2>2 DEF SavesMove
<1>8. ASSUME NEW s \in saves, SaveRefused(s) \/ SaveLost(s) PROVE SavesMove
    <2>1. UNCHANGED countVars
        BY <1>0, <1>8, SaveEndsFacts DEF countVars
    <2>2. \/ saves' = saves \ {s}
          \/ \E t \in Submitted :
                saves' = (saves \ {s}) \cup {t} /\ Follows(t, s) /\ Advanced(s, t)
        BY <1>0, <1>8, SaveEndsFacts
    <2>3. QED
        BY <2>1, <2>2 DEF SavesMove
<1>9. CASE \E u \in Users \cup {Nobody} : LateServed(u) \/ LateEnds(u)
    BY <1>9 DEF SavesMove, LateServed, LateEnds, countVars
<1>10. CASE UNCHANGED vars
    BY <1>10 DEF SavesMove, vars, countVars
<1>11. QED
    BY <1>1, <1>2, <1>3, <1>4, <1>5, <1>6, <1>7, <1>8, <1>9, <1>10 DEF Next

-----------------------------------------------------------------------------
(* How the sessions and the server move.                                   *)

LEMMA BrowserStays ==
    ASSUME TypeOK, [Next]_vars
    PROVE  /\ \/ UNCHANGED <<cookie, live, logins, role, tab, probe>>
              \/ Browse \/ SessionArrives \/ SessionFails
           /\ events' \in 0..MaxEvents
<1>0. events \in 0..MaxEvents
    BY TypeParts
<1>1. CASE Browse
    <2>1. events' = events \/ Event
        BY <1>1 DEF Browse, ProbeSend, ProbeServed, Elsewhere
    <2>2. QED
        BY <1>0, <1>1, <2>1, BrowserAssumption DEF Event
<1>2. CASE SessionArrives \/ SessionFails
    BY <1>0, <1>2 DEF SessionArrives, SessionFails, ProbeStored, ProbeFailed
<1>3. CASE FetchSend \/ FetchServed \/ FetchArrives \/ FetchLost
    BY <1>0, <1>3 DEF FetchSend, FetchServed, FetchArrives, FetchLost, browserVars
<1>4. CASE OpenEditor \/ LeaveEditor \/ Type \/ ReadLatest \/ RetryPermission
           \/ \E take \in BOOLEAN : Reconcile(take)
    BY <1>0, <1>4 DEF OpenEditor, LeaveEditor, Type, ReadLatest, RetryPermission,
                Reconcile, browserVars
<1>5. CASE Submit \/ WriteElsewhere \/ \E u \in Users, level \in Levels : ChangeAccess(u, level)
    <2>1. Event /\ UNCHANGED <<cookie, live, logins, role, tab, probe>>
        BY <1>5 DEF Submit, WriteElsewhere, ChangeAccess
    <2>2. QED
        BY <1>0, <2>1, BrowserAssumption DEF Event
<1>6. CASE \E s \in saves : Serve(s) \/ SaveSucceeds(s) \/ SaveRefused(s) \/ SaveLost(s)
    BY <1>0, <1>6 DEF Serve, SaveSucceeds, SaveRefused, SaveLost, browserVars
<1>7. CASE \E u \in Users \cup {Nobody} : LateServed(u) \/ LateEnds(u)
    BY <1>0, <1>7 DEF LateServed, LateEnds, browserVars
<1>8. CASE UNCHANGED vars
    BY <1>0, <1>8 DEF vars, browserVars
<1>9. QED
    BY <1>1, <1>2, <1>3, <1>4, <1>5, <1>6, <1>7, <1>8 DEF Next

\* What a step of the tab, of other tabs and of administrators leaves of the sessions.
BrowserTyped ==
    /\ cookie \in Cookies /\ live \subseteq Secret /\ logins \in 0..MaxLogins
    /\ role \in [Users -> Roles] /\ tab \in Shows /\ probe \in Probes

LEMMA ElsewhereFacts ==
    ASSUME TypeOK, Elsewhere
    PROVE  /\ BrowserTyped' /\ tab' = tab /\ probe' = probe
           /\ logins' >= logins
           /\ \/ live' \subseteq live /\ cookie' \in {cookie, NoSecret}
              \/ /\ logins' = logins + 1 /\ cookie' \in Secret /\ cookie'.serial = logins'
                 /\ live' \subseteq live \cup {cookie'}
<1>0. BrowserTyped
    BY TypeParts DEF BrowserTyped
<1>1. tab' = tab /\ probe' = probe
    BY DEF Elsewhere
<1>2. ASSUME NEW u \in Users, LoginElsewhere(u)
      PROVE  /\ BrowserTyped' /\ logins' = logins + 1 /\ cookie' \in Secret
             /\ cookie'.serial = logins' /\ live' \subseteq live \cup {cookie'}
    <2> DEFINE s == [serial |-> logins + 1, user |-> u]
    <2>1. logins < MaxLogins /\ logins' = logins + 1 /\ live' = live \cup {s} /\ cookie' = s
          /\ role' = role
        BY <1>2 DEF LoginElsewhere, Issue
    <2>2. logins + 1 \in 1..MaxLogins
        BY <1>0, <2>1, BrowserAssumption DEF BrowserTyped
    <2>3. s \in Secret /\ s.serial = logins + 1
        BY <2>2 DEF Secret
    <2>4. QED
        BY <1>0, <1>1, <2>1, <2>2, <2>3, BrowserAssumption DEF BrowserTyped, Cookies
<1>3. ASSUME NEW u \in Users, RevokeSessions(u)
      PROVE  BrowserTyped' /\ live' \subseteq live /\ cookie' = cookie /\ logins' = logins
    BY <1>0, <1>1, <1>3 DEF BrowserTyped, RevokeSessions
<1>4. ASSUME LogoutElsewhere
      PROVE  BrowserTyped' /\ live' \subseteq live /\ cookie' = NoSecret /\ logins' = logins
    BY <1>0, <1>1, <1>4, Constants DEF BrowserTyped, LogoutElsewhere
<1>5. ASSUME NEW u \in Users, NEW r \in Roles, ChangeRole(u, r)
      PROVE  BrowserTyped' /\ live' = live /\ cookie' = cookie /\ logins' = logins
    <2>1. role' \in [Users -> Roles]
        BY <1>0, <1>5 DEF BrowserTyped, ChangeRole
    <2>2. live' = live /\ cookie' = cookie /\ logins' = logins
        BY <1>5 DEF ChangeRole
    <2>3. QED
        BY <1>0, <1>1, <2>1, <2>2 DEF BrowserTyped
<1>6. logins \in Int
    BY <1>0 DEF BrowserTyped
<1>7. QED
    BY <1>1, <1>2, <1>3, <1>4, <1>5, <1>6 DEF Elsewhere

LEMMA ProbeServedFacts ==
    ASSUME TypeOK, ProbeServed
    PROVE  /\ probe' \in Probes /\ probe'.with = probe.with
           /\ \/ probe'.answer.serial = 0
              \/ /\ probe'.answer.serial = probe.with.serial
                 /\ probe'.answer.user = probe.with.user
           /\ UNCHANGED <<cookie, live, logins, events, role, tab>>
<1>1. probe \in Probes /\ live \subseteq Secret /\ role \in [Users -> Roles]
    BY TypeParts
<1> DEFINE answer == IF probe.with \in live
                     THEN [serial |-> probe.with.serial, user |-> probe.with.user,
                           role |-> role[probe.with.user]]
                     ELSE SignedOut
<1>2. probe' = [probe EXCEPT !.stage = "served", !.answer = answer]
      /\ UNCHANGED <<cookie, live, logins, events, role, tab>>
    BY DEF ProbeServed
<1>3. answer \in Shows /\ \/ answer.serial = 0
                          \/ answer.serial = probe.with.serial /\ answer.user = probe.with.user
    <2>1. CASE probe.with \in live
        <3>1. probe.with.serial \in 1..MaxLogins /\ probe.with.user \in Users
            BY <1>1, <2>1 DEF Secret
        <3>2. answer \in Identity
            BY <1>1, <2>1, <3>1 DEF Identity
        <3>3. QED
            BY <2>1, <3>2 DEF Shows
    <2>2. CASE probe.with \notin live
        BY <2>2, Constants DEF SignedOut
    <2>3. QED
        BY <2>1, <2>2
<1> HIDE DEF answer
<1>4. QED
    BY <1>1, <1>2, <1>3 DEF Probes

LEMMA BrowserTypes ==
    ASSUME TypeOK, [Next]_vars
    PROVE  BrowserTyped' /\ logins' >= logins
<1>0. BrowserTyped
    BY TypeParts DEF BrowserTyped
<1>1. logins \in Int
    BY <1>0 DEF BrowserTyped
<1>2. CASE UNCHANGED <<cookie, live, logins, role, tab, probe>>
    BY <1>0, <1>1, <1>2 DEF BrowserTyped
<1>3. CASE ProbeSend
    <2>1. probe' = [stage |-> "sent", with |-> cookie, answer |-> Unknown]
        BY <1>3 DEF ProbeSend
    <2>2. probe' \in Probes
        BY <1>0, <2>1, Constants DEF Probes, BrowserTyped
    <2>3. QED
        BY <1>0, <1>1, <1>3, <2>2 DEF BrowserTyped, ProbeSend
<1>4. CASE ProbeServed
    BY <1>0, <1>1, <1>4, ProbeServedFacts DEF BrowserTyped
<1>5. CASE Elsewhere
    BY <1>5, ElsewhereFacts
<1>6. CASE SessionArrives
    <2>1. probe.answer \in Shows
        BY <1>0 DEF BrowserTyped, Probes
    <2>2. QED
        BY <1>0, <1>1, <1>6, <2>1, Constants DEF BrowserTyped, SessionArrives, ProbeStored
<1>7. CASE SessionFails
    BY <1>0, <1>1, <1>7, Constants DEF BrowserTyped, SessionFails, ProbeFailed
<1>8. QED
    BY <1>2, <1>3, <1>4, <1>5, <1>6, <1>7, BrowserStays DEF Browse

LEMMA KnownSteps ==
    ASSUME EditorInv, [Next]_vars, NEW a \in Secret, Known(a)'
    PROVE  Known(a) \/ (logins' = logins + 1 /\ a = cookie' /\ a.serial = logins')
<1>0. TypeOK /\ SavesMove /\ a.serial > 0 /\ a \in Cookies
    BY SavesSteps, SecretFields DEF EditorInv, Cookies
<1> DEFINE Session ==
              \/ a \in live' \cup {cookie', probe'.with}
              \/ a.serial = tab'.serial /\ a.user = tab'.user
              \/ a.serial = probe'.answer.serial /\ a.user = probe'.answer.user
<1>1. Session \/ \E t \in saves' : a = t.with \/ (a.serial = t.serial /\ a.user = t.user)
    BY DEF Known
<1> HIDE DEF Session
<1>2. ASSUME NEW t \in saves', a = t.with \/ (a.serial = t.serial /\ a.user = t.user)
      PROVE  Known(a)
    <2>1. CASE t \in saves
        BY <1>2, <2>1 DEF Known
    <2>2. CASE \E s \in saves : Follows(t, s)
        BY <1>2, <2>2 DEF Known, Follows
    <2>3. CASE Fresh(t)
        BY <1>2, <2>3 DEF Known, Fresh
    <2>4. QED
        BY <1>0, <2>1, <2>2, <2>3 DEF SavesMove
<1>3. ASSUME Session, UNCHANGED <<cookie, live, logins, role, tab, probe>> PROVE Known(a)
    BY <1>3 DEF Session, Known
<1>4. ASSUME Session, ProbeSend PROVE Known(a)
    <2>1. probe'.with = cookie /\ probe'.answer.serial = -1
        BY <1>4 DEF ProbeSend, Unknown, SignedOut
    <2>2. QED
        BY <1>0, <1>4, <2>1 DEF Session, Known, ProbeSend
<1>5. ASSUME Session, ProbeServed PROVE Known(a)
    <2>1. a.serial = probe'.answer.serial /\ a.user = probe'.answer.user => a = probe.with
        <3>1. SUFFICES ASSUME a.serial = probe'.answer.serial, a.user = probe'.answer.user
                       PROVE  a = probe.with
            OBVIOUS
        <3>2. probe.with \in Cookies
            BY <1>0, TypeParts DEF Probes
        <3>3. a.serial = probe.with.serial /\ a.user = probe.with.user
            BY <1>0, <1>5, <3>1, ProbeServedFacts
        <3>4. QED
            BY <1>0, <3>2, <3>3, SecretFields
    <2>2. QED
        BY <1>0, <1>5, <2>1, ProbeServedFacts DEF Session, Known
<1>6. ASSUME Session, Elsewhere
      PROVE  Known(a) \/ (logins' = logins + 1 /\ a = cookie' /\ a.serial = logins')
    <2>1. a # NoSecret
        BY <1>0 DEF NoSecret
    <2>2. QED
        BY <1>0, <1>6, <2>1, ElsewhereFacts DEF Session, Known
<1>7. ASSUME Session, SessionArrives \/ SessionFails PROVE Known(a)
    <2>1. probe' = Idle /\ tab' \in {tab, probe.answer} /\ cookie' = cookie /\ live' = live
        BY <1>7 DEF SessionArrives, SessionFails, ProbeStored, ProbeFailed
    <2>2. Idle.with = NoSecret /\ Idle.answer.serial = -1 /\ a # NoSecret
        BY <1>0 DEF Idle, Unknown, SignedOut, NoSecret
    <2>3. QED
        BY <1>0, <1>7, <2>1, <2>2 DEF Session, Known
<1>8. Session => Known(a) \/ (logins' = logins + 1 /\ a = cookie' /\ a.serial = logins')
    BY <1>0, <1>3, <1>4, <1>5, <1>6, <1>7, BrowserStays DEF Browse
<1>9. QED
    BY <1>1, <1>2, <1>8

LEMMA SerialsNext ==
    ASSUME EditorInv, [Next]_vars
    PROVE  SerialsAreOnce'
<1>0. TypeOK /\ SerialsAreOnce /\ logins' >= logins /\ logins \in Int /\ logins' \in Int
    BY TypeParts, BrowserTypes DEF EditorInv, BrowserTyped
<1>1. ASSUME NEW a \in Secret, Known(a)' PROVE a.serial <= logins'
    <2>1. a.serial \in Int
        BY SecretFields DEF Cookies
    <2>2. QED
        BY <1>0, <1>1, <2>1, KnownSteps DEF SerialsAreOnce
<1>2. ASSUME NEW a \in Secret, NEW b \in Secret, Known(a)', Known(b)', a.serial = b.serial
      PROVE  a.user = b.user
    <2>1. a.serial \in Int /\ b.serial \in Int
        BY SecretFields DEF Cookies
    <2>2. CASE Known(a) /\ Known(b)
        BY <1>0, <1>2, <2>2 DEF SerialsAreOnce
    <2>3. CASE ~Known(a)
        <3>1. a = cookie' /\ logins' = logins + 1 /\ a.serial = logins + 1
            BY <1>0, <1>2, <2>3, KnownSteps
        <3>2. ~Known(b)
            BY <1>0, <1>2, <2>1, <3>1 DEF SerialsAreOnce
        <3>3. QED
            BY <1>2, <3>1, <3>2, KnownSteps
    <2>4. CASE ~Known(b)
        <3>1. b = cookie' /\ logins' = logins + 1 /\ b.serial = logins + 1
            BY <1>0, <1>2, <2>4, KnownSteps
        <3>2. ~Known(a)
            BY <1>0, <1>2, <2>1, <3>1 DEF SerialsAreOnce
        <3>3. QED
            BY <1>2, <3>1, <3>2, KnownSteps
    <2>5. QED
        BY <2>2, <2>3, <2>4
<1>3. QED
    BY <1>1, <1>2 DEF SerialsAreOnce

LEMMA NumberedNext ==
    ASSUME EditorInv, [Next]_vars
    PROVE  SavesAreNumbered'
<1>0. SavesMove /\ SavesAreNumbered /\ saves \subseteq Submitted /\ submits \in Int
    BY SavesSteps, TypeParts DEF EditorInv
<1>1. CASE saves' \subseteq saves /\ UNCHANGED countVars
    BY <1>0, <1>1 DEF SavesAreNumbered, countVars
<1>2. ASSUME UNCHANGED countVars, NEW s \in saves, NEW t \in Submitted,
             saves' = (saves \ {s}) \cup {t}, Follows(t, s)
      PROVE  SavesAreNumbered'
    <2>1. t.id = s.id
        BY <1>2 DEF Follows
    <2>2. QED
        BY <1>0, <1>2, <2>1 DEF SavesAreNumbered, countVars
<1>3. ASSUME submits' = submits + 1, NEW t \in Submitted, saves' = saves \cup {t}, Fresh(t)
      PROVE  SavesAreNumbered'
    <2>1. t.id = submits + 1
        BY <1>3 DEF Fresh
    <2>2. \A s \in saves : s.id \in Int /\ s.id <= submits
        BY <1>0, SaveFields DEF SavesAreNumbered
    <2>3. QED
        BY <1>0, <1>3, <2>1, <2>2 DEF SavesAreNumbered
<1>4. QED
    BY <1>0, <1>1, <1>2, <1>3 DEF SavesMove

-----------------------------------------------------------------------------
(* The server, and the keys it completes.                                  *)

ServerMove ==
    /\ ver' \in 0..MaxVersion /\ ver' >= ver
    /\ access' \in [Users -> Levels]
    /\ \/ claimed' = claimed /\ copies' = copies
       \/ \E s \in saves :
             /\ s.key \in 1..MaxSubmits /\ s.user \in Users
             /\ <<s.user, s.key>> \notin claimed
             /\ claimed' = claimed \cup {<<s.user, s.key>>}
             /\ copies' = copies + 1
             /\ ver' > 0
             /\ form' = form /\ page' = page /\ tab' = tab /\ keys' = keys

LEMMA ServerSteps ==
    ASSUME EditorInv, [Next]_vars
    PROVE  ServerMove
<1>0. /\ TypeOK /\ SerialsAreOnce /\ KeysAreOwned /\ NothingIsNewer
      /\ ver \in 0..MaxVersion /\ access \in [Users -> Levels]
    BY TypeParts DEF EditorInv
<1>1. UNCHANGED serverVars => ServerMove
    <2>1. ver >= ver
        BY <1>0
    <2>2. QED
        BY <1>0, <2>1 DEF ServerMove, serverVars
<1>2. CASE Browse \/ FetchSend \/ FetchServed \/ FetchArrives \/ FetchLost
    BY <1>1, <1>2 DEF Browse, FetchSend, FetchServed, FetchArrives, FetchLost
<1>3. CASE OpenEditor \/ LeaveEditor \/ Type \/ ReadLatest \/ RetryPermission
           \/ Submit \/ \E take \in BOOLEAN : Reconcile(take)
    BY <1>1, <1>3 DEF OpenEditor, LeaveEditor, Type, ReadLatest, RetryPermission, Submit,
                Reconcile
<1>4. ASSUME NEW u \in Users, NEW level \in Levels, ChangeAccess(u, level) PROVE ServerMove
    <2>1. access' \in [Users -> Levels]
        BY <1>0, <1>4 DEF ChangeAccess
    <2>2. QED
        BY <1>0, <1>4, <2>1 DEF ServerMove, ChangeAccess
<1>5. CASE SessionArrives \/ SessionFails
    BY <1>1, <1>5 DEF SessionArrives, SessionFails
<1>6. CASE WriteElsewhere
    BY <1>0, <1>6, EditorAssumption DEF ServerMove, WriteElsewhere
<1>7. ASSUME NEW s \in saves, Serve(s) PROVE ServerMove
    <2>1. access' = access /\ form' = form /\ page' = page /\ tab' = tab /\ keys' = keys
        BY <1>7 DEF Serve, browserVars, countVars
    <2>2. ver' \in 0..MaxVersion /\ ver' >= ver
        BY <1>0, <1>7, ServeFacts
    <2>3. \/ claimed' = claimed /\ copies' = copies
          \/ /\ s.key \in 1..MaxSubmits /\ s.user \in Users
             /\ <<s.user, s.key>> \notin claimed
             /\ claimed' = claimed \cup {<<s.user, s.key>>}
             /\ copies' = copies + 1
             /\ ver' > 0
        BY <1>0, <1>7, ServeFacts
    <2>4. QED
        BY <1>0, <2>1, <2>2, <2>3 DEF ServerMove
<1>8. CASE \E s \in saves : SaveSucceeds(s) \/ SaveRefused(s) \/ SaveLost(s)
    BY <1>1, <1>8 DEF SaveSucceeds, SaveRefused, SaveLost
<1>9. CASE (\E u \in Users \cup {Nobody} : LateServed(u) \/ LateEnds(u)) \/ UNCHANGED vars
    BY <1>1, <1>9 DEF LateServed, LateEnds, vars
<1>10. QED
    BY <1>2, <1>3, <1>4, <1>5, <1>6, <1>7, <1>8, <1>9 DEF Next

LEMMA CopiesNext ==
    ASSUME EditorInv, [Next]_vars
    PROVE  /\ CopiesAreClaimed' /\ copies' \in 0..MaxSubmits
           /\ claimed' \subseteq Users \X (1..MaxSubmits)
<1>0. /\ ServerMove /\ CopiesAreClaimed /\ KeysAreOwned
      /\ claimed \subseteq Users \X (1..MaxSubmits) /\ saves \subseteq Submitted
    BY ServerSteps, TypeParts DEF EditorInv
<1>1. /\ MaxSubmits \in Nat /\ IsFiniteSet(1..MaxSubmits) /\ Cardinality(1..MaxSubmits) = MaxSubmits
    BY EditorAssumption, FS_Interval
<1>2. IsFiniteSet(ClaimedKeys) /\ ClaimedKeys \subseteq 1..MaxSubmits
    BY <1>1, FS_Subset DEF ClaimedKeys
<1>3. CASE claimed' = claimed /\ copies' = copies
    <2>1. ClaimedKeys' = ClaimedKeys
        BY <1>3 DEF ClaimedKeys
    <2>2. copies \in 0..MaxSubmits
        BY TypeParts DEF EditorInv
    <2>3. QED
        BY <1>0, <1>3, <2>1, <2>2 DEF CopiesAreClaimed
<1>4. ASSUME NEW s \in saves, s.key \in 1..MaxSubmits, s.user \in Users,
             <<s.user, s.key>> \notin claimed,
             claimed' = claimed \cup {<<s.user, s.key>>}, copies' = copies + 1
      PROVE  /\ CopiesAreClaimed' /\ copies' \in 0..MaxSubmits
             /\ claimed' \subseteq Users \X (1..MaxSubmits)
    <2>1. s.key \notin ClaimedKeys
        <3>1. SUFFICES ASSUME NEW u \in Users, <<u, s.key>> \in claimed PROVE FALSE
            BY DEF ClaimedKeys
        <3>2. Holds(u, s.key) /\ Holds(s.user, s.key)
            BY <3>1 DEF Holds
        <3>3. u = s.user
            BY <1>0, <1>4, <3>2 DEF KeysAreOwned
        <3>4. QED
            BY <1>4, <3>1, <3>3
    <2>2. ClaimedKeys' = ClaimedKeys \cup {s.key}
        BY <1>4 DEF ClaimedKeys
    <2>3. IsFiniteSet(ClaimedKeys') /\ Cardinality(ClaimedKeys') = Cardinality(ClaimedKeys) + 1
        BY <1>2, <2>1, <2>2, FS_AddElement
    <2>4. copies' = Cardinality(ClaimedKeys')
        BY <1>0, <1>4, <2>3 DEF CopiesAreClaimed
    <2>5. ClaimedKeys' \subseteq 1..MaxSubmits
        BY <1>2, <1>4, <2>2
    <2>6. Cardinality(ClaimedKeys') <= MaxSubmits /\ Cardinality(ClaimedKeys') \in Nat
        BY <1>1, <2>3, <2>5, FS_Subset, FS_CardinalityType, ZenonT(60)
    <2>7. copies' \in 0..MaxSubmits
        BY <1>1, <2>4, <2>6
    <2>8. QED
        BY <1>0, <1>4, <2>4, <2>7 DEF CopiesAreClaimed
<1>5. QED
    BY <1>0, <1>3, <1>4 DEF ServerMove

-----------------------------------------------------------------------------
(* How the page, the cache, the request for the document and the form move. *)

PageMove ==
    /\ page' \in Pages
    /\ page' = "new" => page = "new"
    /\ page = "new" /\ page' # "new" =>
          /\ fetch' = NoFetch /\ form' = NoForm
          /\ \A u \in Users : cache'[u].version # 0
          /\ \E s \in saves : s.result = "ok"

\* An entry stays, is dropped, is what the request answered, or is what a save returned.
CacheMove ==
    /\ cache' \in Caches
    /\ \A u \in Users :
          \/ cache'[u].version = cache[u].version /\ tab'.user = tab.user
          \/ cache'[u].version = -1 /\ fetch' = NoFetch
          \/ /\ fetch.stage = "served" /\ fetch.version >= 0 /\ u = fetch.user /\ tab' = tab
             /\ cache'[u].version = fetch.version /\ fetch' = NoFetch
          \/ /\ u = tab'.user /\ page' # "new"
             /\ \E s \in saves :
                   /\ s.result = "ok" /\ s.user = u
                   /\ \/ /\ tab'.user = tab.user
                         /\ s.base > 0
                         /\ s.stage = "joining" \/ (fetch.user = u => fetch' = NoFetch)
                         /\ cache'[u].version = IF cache[u].version > s.version
                                                THEN cache[u].version ELSE s.version
                      \/ /\ page = "new" \/ Foreign(tab')
                         /\ fetch' = NoFetch
                         /\ cache'[u].version = s.version

FetchMove ==
    /\ fetch' \in Requests
    /\ \/ fetch' = NoFetch
       \/ fetch' = fetch /\ tab'.user = tab.user
       \/ fetch' = NewFetch /\ tab' = tab
       \/ FetchServed

DraftMove ==
    /\ form' \in Forms
    /\ \/ form' = NoForm
       \/ /\ form.up /\ form'.up
          /\ form'.base = form.base /\ form'.seen = form.seen /\ tab'.user = tab.user
          /\ tab'.serial > 0 /\ cache'[tab'.user].version >= 0 /\ page' # "read"
       \/ /\ form'.up /\ tab'.serial > 0 /\ page' # "read"
          /\ form'.base = cache'[tab'.user].version /\ form'.base \in form'.seen

KeyMove ==
    page' = "new" /\ form'.up /\ ~form'.changed =>
        \/ form.up /\ ~form.changed /\ form'.key = form.key /\ tab'.user = tab.user
        \/ \E t \in saves' : t.key = form'.key /\ t.user = tab'.user /\ Fresh(t) /\ tab' = tab

ClientMove == PageMove /\ CacheMove /\ FetchMove /\ DraftMove /\ KeyMove

LEMMA PageAndCacheStay ==
    ASSUME TypeOK, UNCHANGED <<tab, page>>, cache' \in Caches,
           \A u \in Users : cache'[u].version = cache[u].version
    PROVE  PageMove /\ CacheMove
BY TypeParts DEF PageMove, CacheMove

LEMMA DraftStays ==
    ASSUME TypeOK, FormIsOfSession, ReadHasNoForm, UNCHANGED <<tab, page>>,
           \A u \in Users : cache'[u].version = cache[u].version,
           form' \in Forms, SameDraft(form', form), ~form.up => form' = NoForm
    PROVE  DraftMove /\ KeyMove
<1>1. KeyMove
    BY DEF KeyMove, SameDraft
<1>2. CASE ~form.up
    BY <1>1, <1>2 DEF DraftMove
<1>3. CASE form.up
    <2>1. tab.user \in Users /\ tab.serial > 0 /\ cache[tab.user].version >= 0 /\ page # "read"
        BY <1>3, UserOfForm DEF FormIsOfSession, ReadHasNoForm
    <2>2. QED
        BY <1>1, <1>3, <2>1 DEF DraftMove, SameDraft
<1>4. QED
    BY <1>2, <1>3

LEMMA ClientStays ==
    ASSUME EditorInv, UNCHANGED <<tab, page, cache, fetch, form>>
    PROVE  ClientMove
<1>1. /\ TypeOK /\ FormIsOfSession /\ ReadHasNoForm /\ cache \in Caches /\ fetch \in Requests
      /\ form \in Forms
    BY TypeParts DEF EditorInv
<1>2. FetchMove
    BY <1>1 DEF FetchMove
<1>3. PageMove /\ CacheMove
    BY <1>1, PageAndCacheStay
<1>4. DraftMove /\ KeyMove
    <2>1. SameDraft(form', form) /\ (~form.up => form' = NoForm)
        BY <1>1 DEF SameDraft, FormIsOfSession
    <2>2. QED
        BY <1>1, <2>1, DraftStays
<1>5. QED
    BY <1>2, <1>3, <1>4 DEF ClientMove

LEMMA NewFetchFacts ==
    ASSUME TypeOK
    PROVE  /\ NewFetch \in Requests /\ NewFetch.stage = "sent" /\ NewFetch.user = tab.user
           /\ NewFetch.version = -1
<1>1. tab.user \in Users \cup {Nobody} /\ cookie \in Cookies
    BY TypeParts, ShownFields
<1>2. QED
    BY <1>1, EditorAssumption DEF NewFetch, Requests

\* Steps that touch the request and the flags of the form only.
LEMMA FlagSteps ==
    ASSUME EditorInv, UNCHANGED <<tab, page, cache>>,
           fetch' = fetch \/ fetch' = NewFetch \/ FetchServed, fetch' \in Requests,
           form' \in Forms, SameDraft(form', form), ~form.up => form' = form
    PROVE  ClientMove
<1>1. TypeOK /\ FormIsOfSession /\ ReadHasNoForm /\ cache \in Caches /\ fetch \in Requests
    BY TypeParts DEF EditorInv
<1>2. PageMove /\ CacheMove
    BY <1>1, PageAndCacheStay
<1>3. DraftMove /\ KeyMove
    BY <1>1, DraftStays DEF FormIsOfSession
<1>4. FetchMove
    BY <1>1, NewFetchFacts DEF FetchMove
<1>5. QED
    BY <1>2, <1>3, <1>4 DEF ClientMove

LEMMA FetchServedFacts ==
    ASSUME TypeOK, FetchServed
    PROVE  /\ fetch' \in Requests /\ fetch'.stage = "served" /\ fetch'.user = fetch.user
           /\ fetch'.version \in {-1, IF page = "new" THEN 0 ELSE ver}
           /\ fetch.stage = "sent"
           /\ UNCHANGED <<browserVars, serverVars, page, cache, form, saves, countVars>>
<1>1. fetch \in Requests /\ ver \in 0..MaxVersion
    BY TypeParts
<1> DEFINE known == fetch.with \in live /\ access[fetch.with.user] # "none"
           version == IF ~known THEN -1 ELSE IF page = "new" THEN 0 ELSE ver
           edit == known /\ access[fetch.with.user] = "editor"
<1>2. fetch' = [fetch EXCEPT !.stage = "served", !.version = version, !.edit = edit]
      /\ fetch.stage = "sent"
      /\ UNCHANGED <<browserVars, serverVars, page, cache, form, saves, countVars>>
    BY DEF FetchServed
<1>3. /\ version \in {-1, IF page = "new" THEN 0 ELSE ver}
      /\ version \in -1..MaxVersion /\ edit \in BOOLEAN
    BY <1>1, EditorAssumption
<1> HIDE DEF version, edit
<1>4. QED
    BY <1>1, <1>2, <1>3 DEF Requests

LEMMA RenderedDraft ==
    ASSUME NEW g \in Forms, SameDraft(g, form), form' \in Forms,
           RenderedAs(g, page', tab', cache', form')
    PROVE  DraftMove /\ KeyMove
<1>1. CASE form' = NoForm
    BY <1>1, Constants DEF DraftMove, KeyMove
<1>2. CASE /\ form' = g /\ g.up /\ tab'.user = tab.user /\ page' # "read" /\ tab'.serial > 0
           /\ cache'[tab'.user].version >= 0
    BY <1>2 DEF DraftMove, KeyMove, SameDraft
<1>3. CASE /\ form'.up /\ form'.changed /\ page' # "read" /\ tab'.serial > 0
           /\ form'.base = cache'[tab'.user].version /\ form'.seen = {form'.base}
    BY <1>3 DEF DraftMove, KeyMove
<1>4. QED
    BY <1>1, <1>2, <1>3 DEF RenderedAs

LEMMA FetchArrivesMoves ==
    ASSUME EditorInv, FetchArrives
    PROVE  ClientMove
<1>0. /\ TypeOK /\ FormIsOfSession /\ cache \in Caches /\ fetch \in Requests /\ form \in Forms
      /\ tab \in Shows /\ page \in Pages
    BY TypeParts DEF EditorInv
<1> DEFINE u == fetch.user
           good == fetch.version >= 0
           e == IF good THEN [version |-> fetch.version, edit |-> fetch.edit, broken |-> FALSE]
                ELSE IF Held(u) THEN [cache[u] EXCEPT !.broken = TRUE] ELSE NoEntry
           c == [cache EXCEPT ![u] = e]
<1>1. /\ fetch.stage = "served" /\ fetch' = NoFetch /\ cache' = c
      /\ form' = Rendered(Answered(form, e, good), page, tab, c)
      /\ UNCHANGED <<tab, page>>
    BY DEF FetchArrives, browserVars
<1>2. u = tab.user
    BY <1>1 DEF EditorInv, RequestIsOwn
<1>3. ASSUME u \in Users
      PROVE  /\ e \in Entries
             /\ \/ good /\ e.version = fetch.version
                \/ e.version = cache[u].version
    <2>1. cache[u] \in Entries /\ fetch.version \in -1..MaxVersion /\ fetch.edit \in BOOLEAN
        BY <1>0, <1>3 DEF Caches, Requests
    <2>2. CASE good
        BY <2>1, <2>2, EditorAssumption DEF Entries, Entry
    <2>3. CASE ~good /\ Held(u)
        <3>1. cache[u] \in Entry
            BY <2>1, <2>3, Constants DEF Held, Entries
        <3>2. QED
            BY <2>3, <3>1 DEF Entries, Entry
    <2>4. CASE ~good /\ ~Held(u)
        <3>1. cache[u] = NoEntry
            BY <2>1, <2>4, EntryFields DEF Held
        <3>2. QED
            BY <2>4, <3>1, Constants
    <2>5. QED
        BY <2>2, <2>3, <2>4
<1>4. good \in BOOLEAN
    OBVIOUS
<1>5. c \in Caches
    BY <1>0, <1>3 DEF Caches
<1>6. PageMove
    BY <1>0, <1>1 DEF PageMove
<1>7. CacheMove
    <2>1. ASSUME NEW x \in Users
          PROVE  \/ cache'[x].version = cache[x].version
                 \/ good /\ x = u /\ cache'[x].version = fetch.version
        <3>1. CASE x = u
            <4>1. cache'[x] = e
                BY <1>0, <1>1, <3>1 DEF Caches
            <4>2. QED
                BY <1>3, <3>1, <4>1
        <3>2. CASE x # u
            <4>1. cache'[x] = cache[x]
                BY <1>0, <1>1, <3>2 DEF Caches
            <4>2. QED
                BY <4>1
        <3>3. QED
            BY <3>1, <3>2
    <2>2. QED
        BY <1>1, <1>5, <2>1 DEF CacheMove
<1>8. FetchMove
    BY <1>1, Constants DEF FetchMove
<1> DEFINE g == Answered(form, e, good)
<1>9. g \in Forms /\ SameDraft(g, form)
    <2>1. CASE form.up
        BY <1>0, <1>2, <1>3, <1>4, <2>1, UserOfForm, AnsweredFacts
    <2>2. CASE ~form.up
        <3>1. form = NoForm /\ form.asks = "nothing"
            BY <1>0, <2>2 DEF FormIsOfSession, NoForm
        <3>2. g = form
            BY <3>1 DEF Answered
        <3>3. QED
            BY <1>0, <3>2 DEF SameDraft
    <2>3. QED
        BY <2>1, <2>2
<1> HIDE DEF g, e, c, good
<1>10. RenderedAs(g, page', tab', cache', form') /\ form' \in Forms
    <2>1. Rendered(g, page, tab, c) \in Forms /\ RenderedAs(g, page, tab, c, Rendered(g, page, tab, c))
        BY <1>0, <1>5, <1>9, RenderedFacts
    <2>2. form' = Rendered(g, page, tab, c)
        BY <1>1 DEF g
    <2>3. QED
        BY <1>1, <2>1, <2>2 DEF RenderedAs
<1>11. DraftMove /\ KeyMove
    BY <1>9, <1>10, RenderedDraft
<1>12. QED
    BY <1>6, <1>7, <1>8, <1>11 DEF ClientMove

LEMMA FetchLostMoves ==
    ASSUME EditorInv, FetchLost
    PROVE  ClientMove
<1>0. /\ TypeOK /\ FormIsOfSession /\ ReadHasNoForm /\ cache \in Caches /\ form \in Forms
    BY TypeParts DEF EditorInv
<1>1. /\ fetch' = NoFetch
      /\ cache' = IF Held(fetch.user) THEN [cache EXCEPT ![fetch.user].broken = TRUE] ELSE cache
      /\ form' = Answered(form, NoEntry, FALSE)
      /\ UNCHANGED <<tab, page>>
    BY DEF FetchLost, browserVars
<1>2. cache' \in Caches /\ \A u \in Users : cache'[u].version = cache[u].version
    <2>1. CASE ~Held(fetch.user)
        BY <1>0, <1>1, <2>1
    <2>2. CASE Held(fetch.user)
        <3>1. ASSUME NEW u \in Users
              PROVE  cache'[u] \in Entries /\ cache'[u].version = cache[u].version
            <4>1. cache[u] \in Entries
                BY <1>0 DEF Caches
            <4>2. CASE u = fetch.user
                <5>1. cache[u] \in Entry
                    BY <2>2, <4>1, <4>2, Constants DEF Held, Entries
                <5>2. cache'[u] = [cache[u] EXCEPT !.broken = TRUE]
                    BY <1>0, <1>1, <2>2, <4>2 DEF Caches
                <5>3. QED
                    BY <5>1, <5>2 DEF Entries, Entry
            <4>3. CASE u # fetch.user
                <5>1. cache'[u] = cache[u]
                    BY <1>0, <1>1, <2>2, <4>3 DEF Caches
                <5>2. QED
                    BY <4>1, <5>1
            <4>4. QED
                BY <4>2, <4>3
        <3>2. cache' = [u \in Users |-> cache'[u]]
            BY <1>0, <1>1, <2>2 DEF Caches
        <3>3. QED
            BY <3>1, <3>2 DEF Caches
    <2>3. QED
        BY <2>1, <2>2
<1>3. form' \in Forms /\ SameDraft(form', form) /\ (~form.up => form' = NoForm)
    <2>1. Answered(form, NoEntry, FALSE) \in Forms /\ SameDraft(Answered(form, NoEntry, FALSE), form)
        BY <1>0, Constants, AnsweredFacts
    <2>2. NoForm.asks = "nothing"
        BY DEF NoForm
    <2>3. ~form.up => Answered(form, NoEntry, FALSE) = NoForm
        BY <1>0, <2>2 DEF FormIsOfSession, Answered
    <2>4. QED
        BY <1>1, <2>1, <2>3
<1>4. PageMove /\ CacheMove
    BY <1>0, <1>1, <1>2, PageAndCacheStay
<1>5. DraftMove /\ KeyMove
    BY <1>0, <1>1, <1>2, <1>3, DraftStays
<1>6. FetchMove
    BY <1>1, Constants DEF FetchMove
<1>7. QED
    BY <1>4, <1>5, <1>6 DEF ClientMove

LEMMA PageSteps ==
    ASSUME EditorInv, OpenEditor \/ LeaveEditor
    PROVE  ClientMove
<1>0. /\ TypeOK /\ ReadHasNoForm /\ cache \in Caches /\ fetch \in Requests /\ form \in Forms
      /\ tab \in Shows /\ page \in Pages
    BY TypeParts DEF EditorInv
<1>1. CacheMove /\ FetchMove
    BY <1>0 DEF OpenEditor, LeaveEditor, browserVars, CacheMove, FetchMove
<1>2. PageMove
    BY DEF OpenEditor, LeaveEditor, PageMove, Pages
<1>3. CASE LeaveEditor
    <2>1. form' = NoForm
        BY <1>3 DEF LeaveEditor
    <2>2. DraftMove /\ KeyMove
        BY <2>1, Constants DEF DraftMove, KeyMove
    <2>3. QED
        BY <1>1, <1>2, <2>2 DEF ClientMove
<1>4. CASE OpenEditor
    <2>1. form' = Rendered(form, "edit", tab, cache) /\ page' = "edit" /\ UNCHANGED <<tab, cache>>
        BY <1>4 DEF OpenEditor, browserVars
    <2>2. form' \in Forms /\ RenderedAs(form, page', tab', cache', form')
        BY <1>0, <2>1, RenderedFacts DEF RenderedAs
    <2>3. DraftMove /\ KeyMove
        BY <1>0, <2>2, RenderedDraft DEF SameDraft
    <2>4. QED
        BY <1>1, <1>2, <2>3 DEF ClientMove
<1>5. QED
    BY <1>3, <1>4

\* Steps that write the draft: the page, the cache and the session stay.
LEMMA DraftSteps ==
    ASSUME EditorInv, Type \/ Submit \/ \E take \in BOOLEAN : Reconcile(take)
    PROVE  ClientMove
<1>0. /\ TypeOK /\ FormIsOfSession /\ ReadHasNoForm /\ cache \in Caches /\ fetch \in Requests
      /\ form \in Forms /\ keys <= submits
    BY TypeParts DEF EditorInv, KeysAreTexts
<1>1. /\ UNCHANGED <<tab, page, cache, fetch>> /\ form.up
    BY DEF Type, Submit, Reconcile, CanType, browserVars
<1>2. PageMove /\ CacheMove
    BY <1>0, <1>1, PageAndCacheStay
<1>3. FetchMove
    BY <1>0, <1>1 DEF FetchMove
<1>4. tab.user \in Users /\ tab.serial > 0 /\ cache[tab.user].version \in 0..MaxVersion
      /\ page # "read"
    BY <1>0, <1>1, UserOfForm DEF FormIsOfSession, ReadHasNoForm, Entry
<1>5. CASE Type
    <2>1. form' = [form EXCEPT !.typed = TRUE, !.changed = TRUE]
        BY <1>5 DEF Type
    <2>2. /\ form' \in Forms /\ form'.up /\ form'.base = form.base /\ form'.seen = form.seen
          /\ form'.changed
        BY <1>0, <1>1, <2>1 DEF Forms
    <2>3. DraftMove /\ KeyMove
        BY <1>1, <1>4, <2>2 DEF DraftMove, KeyMove
    <2>4. QED
        BY <1>2, <1>3, <2>3 DEF ClientMove
<1>6. CASE Submit
    <2>1. PICK t \in Submitted : saves' = saves \cup {t} /\ Fresh(t) /\ form'.key = t.key
        BY <1>0, <1>6, SubmitFacts
    <2>2. form' \in Forms /\ form'.up /\ form'.base = form.base /\ form'.seen = form.seen
        BY <1>0, <1>1, <1>6, SubmitFacts
    <2>3. DraftMove
        BY <1>1, <1>4, <2>2 DEF DraftMove
    <2>4. KeyMove
        BY <1>1, <2>1 DEF KeyMove, Fresh
    <2>5. QED
        BY <1>2, <1>3, <2>3, <2>4 DEF ClientMove
<1>7. ASSUME NEW take \in BOOLEAN, Reconcile(take) PROVE ClientMove
    <2>1. PICK v \in 0..MaxVersion : v = cache[tab.user].version
        BY <1>4
    <2>2. form' = [form EXCEPT !.base = v, !.seen = @ \cup {v}, !.typed = @ /\ ~take,
                               !.changed = TRUE, !.latest = -1, !.status = "ready"]
        BY <1>7, <2>1 DEF Reconcile, Shown
    <2>3. form.seen \cup {v} \in SUBSET (0..MaxVersion) /\ -1 \in -1..MaxVersion
          /\ (form.typed /\ ~take) \in BOOLEAN
        BY <1>0, <2>1, FormFields, EditorAssumption
    <2>4. /\ form' \in Forms /\ form'.up /\ form'.base = v /\ v \in form'.seen /\ form'.changed
        <3>1. PICK seen \in SUBSET (0..MaxVersion) : seen = form.seen \cup {v}
            BY <2>3
        <3>2. PICK typed \in BOOLEAN : typed = (form.typed /\ ~take)
            BY <2>3
        <3>3. form' = [form EXCEPT !.base = v, !.seen = seen, !.typed = typed,
                                   !.changed = TRUE, !.latest = -1, !.status = "ready"]
            BY <2>2, <3>1, <3>2
        <3>4. form' \in Forms
            BY <1>0, <2>1, <2>3, <3>3 DEF Forms
        <3>5. form'.up = form.up /\ form'.base = v /\ form'.seen = seen /\ form'.changed
            BY <1>0, <3>3 DEF Forms
        <3>6. QED
            BY <1>1, <3>1, <3>4, <3>5
    <2>5. DraftMove /\ KeyMove
        BY <1>1, <1>4, <2>1, <2>4 DEF DraftMove, KeyMove
    <2>6. QED
        BY <1>2, <1>3, <2>5 DEF ClientMove
<1>8. QED
    BY <1>5, <1>6, <1>7

LEMMA RequestSteps ==
    ASSUME EditorInv, FetchSend \/ FetchServed \/ ReadLatest \/ RetryPermission
    PROVE  ClientMove
<1>0. TypeOK /\ form \in Forms /\ SameDraft(form, form)
    BY TypeParts DEF EditorInv, SameDraft
<1>1. UNCHANGED <<tab, page, cache>>
    BY DEF FetchSend, FetchServed, ReadLatest, RetryPermission, browserVars
<1>2. CASE FetchSend
    BY <1>0, <1>1, <1>2, NewFetchFacts, FlagSteps DEF FetchSend
<1>3. CASE FetchServed
    <2>1. fetch' \in Requests /\ form' = form
        BY <1>0, <1>3, FetchServedFacts
    <2>2. QED
        BY <1>0, <1>1, <1>3, <2>1, FlagSteps
<1>4. CASE ReadLatest \/ RetryPermission
    <2>1. PICK asks \in {"latest", "permission"} : form' = [form EXCEPT !.asks = asks]
        BY <1>4 DEF ReadLatest, RetryPermission
    <2>2. form.up /\ fetch' = NewFetch
        BY <1>4 DEF ReadLatest, RetryPermission
    <2>3. form' \in Forms /\ SameDraft(form', form)
        BY <1>0, <2>1 DEF Forms, SameDraft
    <2>4. QED
        BY <1>0, <1>1, <2>2, <2>3, NewFetchFacts, FlagSteps
<1>5. QED
    BY <1>2, <1>3, <1>4

LEMMA SaveEndsMoves ==
    ASSUME EditorInv, NEW s \in saves, SaveRefused(s) \/ SaveLost(s)
    PROVE  ClientMove
<1>0. TypeOK /\ fetch \in Requests
    BY TypeParts DEF EditorInv
<1>1. /\ form' \in Forms /\ SameDraft(form', form) /\ (~form.up => form' = form)
      /\ fetch' \in {fetch, NewFetch} /\ UNCHANGED <<tab, page, cache>>
    BY <1>0, SaveEndsFacts DEF browserVars
<1>2. fetch' \in Requests
    BY <1>0, <1>1, NewFetchFacts
<1>3. QED
    BY <1>1, <1>2, FlagSteps

LEMMA SessionFailsMoves ==
    ASSUME EditorInv, SessionFails
    PROVE  ClientMove
<1>0. /\ TypeOK /\ FormIsOfSession /\ form \in Forms /\ fetch \in Requests
      /\ SameDraft(form, form)
      /\ saves \subseteq Submitted
    BY TypeParts DEF EditorInv, SameDraft
<1>1. /\ UNCHANGED <<tab, page, cache, fetch>>
      /\ form' = IF \E s \in Joining : s.id = form.save
                 THEN [form EXCEPT !.save = 0, !.status = "saved"] ELSE form
    BY DEF SessionFails, ProbeFailed
<1>2. form' \in Forms /\ SameDraft(form', form)
    BY <1>0, <1>1, EndedFacts
<1>3. ~form.up => form' = form
    <2>1. ~form.up => form.save = 0
        BY <1>0 DEF FormIsOfSession, NoForm
    <2>2. \A s \in Joining : s.id \in 1..MaxSubmits
        BY <1>0, SaveFields DEF Joining
    <2>3. QED
        BY <1>1, <2>1, <2>2
<1>4. QED
    BY <1>0, <1>1, <1>2, <1>3, FlagSteps

\* A save that ends, the tab's session being the one before.
LEMMA SaveSucceedsMoves ==
    ASSUME EditorInv, NEW s \in saves, SaveSucceeds(s)
    PROVE  ClientMove
<1>0. /\ TypeOK /\ FormIsOfSession /\ ReadHasNoForm /\ OnNew /\ NothingIsNewer
      /\ cache \in Caches /\ fetch \in Requests /\ form \in Forms
      /\ s \in Submitted /\ s.version \in 0..MaxVersion /\ s.base \in 0..MaxVersion
    BY TypeParts, SaveFields DEF EditorInv
<1>1. tab' = tab
    BY DEF SaveSucceeds, browserVars
<1>2. s.result = "ok" /\ s.version > 0
    BY <1>0, SaveSucceedsFacts DEF NothingIsNewer
<1>3. PICK f \in Forms, request \in Requests :
         /\ SameDraft(f, form) /\ (~form.up => f = NoForm)
         /\ request \in {fetch, NoFetch}
         /\ s.base > 0 /\ fetch.user = s.user => request = NoFetch
         /\ \/ fetch' = request /\ form' = f /\ page' = page /\ cache' = cache
            \/ FinishedAs({s}, tab, cache, f, request)
    BY <1>0, SaveSucceedsFacts
<1>4. CASE fetch' = request /\ form' = f /\ page' = page /\ cache' = cache
    <2>1. PageMove /\ CacheMove
        BY <1>0, <1>1, <1>4, PageAndCacheStay
    <2>2. DraftMove /\ KeyMove
        BY <1>0, <1>1, <1>3, <1>4, DraftStays
    <2>3. FetchMove
        BY <1>1, <1>3, <1>4 DEF FetchMove
    <2>4. QED
        BY <2>1, <2>2, <2>3 DEF ClientMove
<1>5. CASE FinishedAs({s}, tab, cache, f, request)
    <2>1. page' \in Pages /\ cache' \in Caches /\ fetch' \in Requests /\ form' \in Forms
        BY <1>5 DEF FinishedAs
    <2>2. PICK g \in Forms : SameDraft(g, f) /\ RenderedAs(g, page', tab, cache', form')
        BY <1>5 DEF FinishedAs
    <2>3. DraftMove /\ KeyMove
        <3>1. SameDraft(g, form)
            BY <1>3, <2>2 DEF SameDraft
        <3>2. RenderedAs(g, page', tab', cache', form')
            BY <1>1, <2>2 DEF RenderedAs
        <3>3. QED
            BY <2>1, <3>1, <3>2, RenderedDraft
    <2>4. CASE /\ page = "new" /\ page' = "read" /\ fetch' = NoFetch
               /\ \A u \in Users :
                     \/ cache'[u] = NoEntry
                     \/ u = tab.user /\ s.user = u /\ cache'[u] = Newer(NoEntry, s.version)
        <3>1. ASSUME NEW u \in Users
              PROVE  \/ cache'[u].version = -1
                     \/ u = tab.user /\ s.user = u /\ cache'[u].version = s.version
            <4>1. Newer(NoEntry, s.version).version = s.version /\ NoEntry.version = -1
                BY <1>0, NewerFacts, Constants
            <4>2. QED
                BY <2>4, <4>1
        <3>2. form' = NoForm
            BY <2>2, <2>4 DEF RenderedAs
        <3>3. PageMove
            BY <1>2, <2>1, <2>4, <3>1, <3>2 DEF PageMove
        <3>4. CacheMove
            BY <1>1, <1>2, <2>1, <2>4, <3>1 DEF CacheMove
        <3>5. FetchMove
            BY <2>1, <2>4 DEF FetchMove
        <3>6. QED
            BY <2>3, <3>3, <3>4, <3>5 DEF ClientMove
    <2>5. CASE /\ page = "new" <=> page' = "new"
               /\ fetch' = request
               /\ \A u \in Users :
                     \/ cache'[u] = cache[u]
                     \/ /\ u = tab.user /\ s.user = u /\ s.base > 0
                        /\ cache'[u] = Newer(cache[u], s.version)
        <3>1. PageMove
            BY <2>1, <2>5 DEF PageMove
        <3>2. FetchMove
            BY <1>1, <1>3, <2>1, <2>5 DEF FetchMove
        <3>3. ASSUME NEW u \in Users, u = tab.user, s.user = u, s.base > 0,
                     cache'[u] = Newer(cache[u], s.version)
              PROVE  /\ page' # "new" /\ (fetch.user = u => fetch' = NoFetch)
                     /\ cache'[u].version = IF cache[u].version > s.version
                                            THEN cache[u].version ELSE s.version
            <4>1. page # "new"
                BY <1>0, <3>3 DEF OnNew
            <4>2. cache[u] \in Entries
                BY <1>0 DEF Caches
            <4>3. QED
                BY <1>0, <1>3, <2>5, <3>3, <4>1, <4>2, NewerFacts
        <3>4. ASSUME NEW u \in Users
              PROVE  \/ cache'[u].version = cache[u].version /\ tab'.user = tab.user
                     \/ /\ u = tab'.user /\ page' # "new" /\ s.user = u
                        /\ tab'.user = tab.user
                        /\ s.base > 0
                        /\ fetch.user = u => fetch' = NoFetch
                        /\ cache'[u].version = IF cache[u].version > s.version
                                               THEN cache[u].version ELSE s.version
            <4>1. CASE cache'[u] = cache[u]
                BY <1>1, <4>1
            <4>2. CASE /\ u = tab.user /\ s.user = u /\ s.base > 0
                       /\ cache'[u] = Newer(cache[u], s.version)
                BY <1>1, <3>3, <4>2
            <4>3. QED
                BY <2>5, <4>1, <4>2
        <3>5. CacheMove
            <4>1. ASSUME NEW u \in Users
                  PROVE  \/ cache'[u].version = cache[u].version /\ tab'.user = tab.user
                         \/ /\ u = tab'.user /\ page' # "new"
                            /\ \E x \in saves :
                                  /\ x.result = "ok" /\ x.user = u
                                  /\ tab'.user = tab.user
                                  /\ x.base > 0
                                  /\ x.stage = "joining" \/ (fetch.user = u => fetch' = NoFetch)
                                  /\ cache'[u].version = IF cache[u].version > x.version
                                                         THEN cache[u].version ELSE x.version
                BY <1>2, <3>4
            <4>2. QED
                BY <2>1, <4>1 DEF CacheMove
        <3>6. QED
            BY <2>3, <3>1, <3>2, <3>5 DEF ClientMove
    <2>6. QED
        BY <1>5, <2>4, <2>5 DEF FinishedAs
<1>6. QED
    BY <1>3, <1>4, <1>5

\* Saves that waited for the session, and a session that may be another's.
LEMMA SessionArrivesMoves ==
    ASSUME EditorInv, SessionArrives
    PROVE  ClientMove
<1>0. /\ TypeOK /\ FormIsOfSession /\ ReadHasNoForm /\ OnNew /\ NothingIsNewer
      /\ cache \in Caches /\ fetch \in Requests /\ form \in Forms /\ saves \subseteq Submitted
      /\ \A s \in saves : s.version \in 0..MaxVersion
    BY TypeParts, SaveFields DEF EditorInv
<1>1. tab' = probe.answer
    BY <1>0, SessionArrivesFacts
<1>2. PICK c \in Caches, request \in Requests :
         /\ \/ Foreign(tab') /\ request = NoFetch /\ c = [u \in Users |-> NoEntry]
            \/ ~Foreign(tab') /\ request = fetch /\ c = cache
         /\ FinishedAs(Joining, tab', c, form, request)
    BY <1>0, <1>1, SessionArrivesFacts
<1>3. \A s \in Joining : s \in saves /\ s.stage = "joining" /\ s.result = "ok" /\ s.version > 0
    BY <1>0 DEF Joining, NothingIsNewer
<1>4. page' \in Pages /\ cache' \in Caches /\ fetch' \in Requests /\ form' \in Forms
    BY <1>2 DEF FinishedAs
<1>5. PICK g \in Forms : SameDraft(g, form) /\ RenderedAs(g, page', tab', cache', form')
    BY <1>2 DEF FinishedAs
<1>6. DraftMove /\ KeyMove
    BY <1>4, <1>5, RenderedDraft
<1>7. ~Foreign(tab') => tab'.user = tab.user
    BY DEF Foreign
<1>8. CASE /\ page = "new" /\ page' = "read" /\ fetch' = NoFetch
           /\ \E s \in Joining : s.user = tab'.user
           /\ \A u \in Users :
                 \/ cache'[u] = NoEntry
                 \/ u = tab'.user /\ \E s \in Joining : s.user = u /\ cache'[u] = Newer(NoEntry, s.version)
    <2>1. ASSUME NEW u \in Users
          PROVE  \/ cache'[u].version = -1
                 \/ u = tab'.user /\ \E s \in Joining : s.user = u /\ cache'[u].version = s.version
        <3>1. \A s \in Joining : Newer(NoEntry, s.version).version = s.version
            BY <1>0, <1>3, NewerFacts, Constants
        <3>2. QED
            BY <1>8, <3>1, Constants
    <2>2. form' = NoForm
        BY <1>5, <1>8 DEF RenderedAs
    <2>3. PageMove
        BY <1>3, <1>4, <1>8, <2>1, <2>2 DEF PageMove
    <2>4. CacheMove
        BY <1>3, <1>4, <1>8, <2>1 DEF CacheMove
    <2>5. FetchMove
        BY <1>4, <1>8 DEF FetchMove
    <2>6. QED
        BY <1>6, <2>3, <2>4, <2>5 DEF ClientMove
<1>9. CASE /\ page = "new" <=> page' = "new"
           /\ fetch' = request
           /\ \A u \in Users :
                 \/ cache'[u] = c[u]
                 \/ /\ u = tab'.user
                    /\ \E s \in Joining : s.user = u /\ s.base > 0 /\ cache'[u] = Newer(c[u], s.version)
    <2>1. PageMove
        BY <1>4, <1>9 DEF PageMove
    <2>2. FetchMove
        BY <1>2, <1>4, <1>7, <1>9 DEF FetchMove
    <2>3. ASSUME NEW u \in Users, NEW s \in Joining, u = tab'.user, s.user = u, s.base > 0,
                 cache'[u] = Newer(c[u], s.version)
          PROVE  /\ page' # "new"
                 /\ \/ /\ tab'.user = tab.user
                       /\ cache'[u].version = IF cache[u].version > s.version
                                              THEN cache[u].version ELSE s.version
                    \/ Foreign(tab') /\ fetch' = NoFetch /\ cache'[u].version = s.version
        <3>1. page # "new"
            BY <1>0, <1>3, <2>3 DEF OnNew
        <3>2. c[u] \in Entries /\ s.version \in 0..MaxVersion
            BY <1>0, <1>3 DEF Caches
        <3>3. cache'[u].version = IF c[u].version > s.version THEN c[u].version ELSE s.version
            BY <2>3, <3>2, NewerFacts
        <3>4. CASE ~Foreign(tab') /\ c = cache
            BY <1>7, <1>9, <3>1, <3>3, <3>4
        <3>5. CASE Foreign(tab') /\ request = NoFetch /\ c = [x \in Users |-> NoEntry]
            <4>1. c[u].version = -1
                BY <3>5, Constants
            <4>2. cache'[u].version = s.version
                BY <3>2, <3>3, <4>1
            <4>3. QED
                BY <1>9, <3>1, <3>5, <4>2
        <3>6. QED
            BY <1>2, <3>4, <3>5
    <2>4. ASSUME NEW u \in Users, cache'[u] = c[u]
          PROVE  \/ cache'[u].version = cache[u].version /\ tab'.user = tab.user
                 \/ cache'[u].version = -1 /\ fetch' = NoFetch
        <3>1. CASE ~Foreign(tab') /\ c = cache
            BY <1>7, <2>4, <3>1
        <3>2. CASE Foreign(tab') /\ request = NoFetch /\ c = [x \in Users |-> NoEntry]
            BY <1>9, <2>4, <3>2, Constants
        <3>3. QED
            BY <1>2, <3>1, <3>2
    <2>5. CacheMove
        <3>1. ASSUME NEW u \in Users
              PROVE  \/ cache'[u].version = cache[u].version /\ tab'.user = tab.user
                     \/ cache'[u].version = -1 /\ fetch' = NoFetch
                     \/ /\ u = tab'.user /\ page' # "new"
                        /\ \E s \in saves :
                              /\ s.result = "ok" /\ s.user = u /\ s.base > 0 /\ s.stage = "joining"
                              /\ \/ /\ tab'.user = tab.user
                                    /\ cache'[u].version = IF cache[u].version > s.version
                                                           THEN cache[u].version ELSE s.version
                                 \/ /\ Foreign(tab') /\ fetch' = NoFetch
                                    /\ cache'[u].version = s.version
            <4>1. CASE cache'[u] = c[u]
                BY <2>4, <4>1
            <4>2. ASSUME NEW s \in Joining, u = tab'.user, s.user = u, s.base > 0,
                         cache'[u] = Newer(c[u], s.version)
                  PROVE  /\ page' # "new"
                         /\ s \in saves /\ s.result = "ok" /\ s.stage = "joining"
                         /\ \/ /\ tab'.user = tab.user
                               /\ cache'[u].version = IF cache[u].version > s.version
                                                      THEN cache[u].version ELSE s.version
                            \/ Foreign(tab') /\ fetch' = NoFetch /\ cache'[u].version = s.version
                BY <1>3, <2>3, <4>2
            <4>3. QED
                BY <1>9, <4>1, <4>2
        <3>2. QED
            BY <1>4, <3>1 DEF CacheMove
    <2>6. QED
        BY <1>6, <2>1, <2>2, <2>5 DEF ClientMove
<1>10. QED
    BY <1>2, <1>8, <1>9 DEF FinishedAs

LEMMA ClientSteps ==
    ASSUME EditorInv, [Next]_vars
    PROVE  ClientMove
<1>1. CASE Browse
    BY <1>1, ClientStays DEF Browse, ProbeSend, ProbeServed, Elsewhere
<1>2. CASE WriteElsewhere \/ (\E s \in saves : Serve(s))
           \/ (\E u \in Users, level \in Levels : ChangeAccess(u, level))
           \/ (\E u \in Users \cup {Nobody} : LateServed(u) \/ LateEnds(u))
    BY <1>2, ClientStays DEF WriteElsewhere, Serve, ChangeAccess, LateServed, LateEnds, browserVars
<1>3. CASE UNCHANGED vars
    BY <1>3, ClientStays DEF vars, browserVars
<1>4. QED
    BY <1>1, <1>2, <1>3, SessionArrivesMoves, SessionFailsMoves, RequestSteps, FetchArrivesMoves,
       FetchLostMoves, PageSteps, DraftSteps, SaveSucceedsMoves, SaveEndsMoves DEF Next

-----------------------------------------------------------------------------
(* Each part of the invariant is kept.                                     *)

LEMMA OwnNext ==
    ASSUME EditorInv, [Next]_vars
    PROVE  RequestIsOwn' /\ FormIsOfSession' /\ ReadHasNoForm'
           /\ \A u \in Users : Held(u)' => tab'.user = u
<1>0. /\ ClientMove /\ TypeOK /\ RequestIsOwn /\ CacheIsOfSession
      /\ fetch \in Requests
    BY ClientSteps, TypeParts DEF EditorInv
<1>1. RequestIsOwn'
    <2>1. CASE fetch' = NoFetch
        BY <2>1, Constants DEF RequestIsOwn
    <2>2. CASE fetch' = fetch /\ tab'.user = tab.user
        BY <1>0, <2>2 DEF RequestIsOwn
    <2>3. CASE fetch' = NewFetch /\ tab' = tab
        BY <1>0, <2>3, NewFetchFacts DEF RequestIsOwn
    <2>4. CASE FetchServed
        <3>1. fetch.stage = "sent" /\ fetch'.user = fetch.user /\ tab' = tab
            BY <1>0, <2>4, FetchServedFacts DEF browserVars
        <3>2. QED
            BY <1>0, <3>1 DEF RequestIsOwn
    <2>5. QED
        BY <1>0, <2>1, <2>2, <2>3, <2>4 DEF ClientMove, FetchMove
<1>2. FormIsOfSession' /\ ReadHasNoForm'
    <2>1. CASE form' = NoForm
        BY <2>1, Constants DEF FormIsOfSession, ReadHasNoForm
    <2>2. CASE /\ form.up /\ form'.up /\ tab'.user = tab.user
               /\ tab'.serial > 0 /\ cache'[tab'.user].version >= 0 /\ page' # "read"
        BY <2>2 DEF FormIsOfSession, ReadHasNoForm
    <2>3. CASE /\ form'.up /\ tab'.serial > 0 /\ page' # "read"
               /\ form'.base = cache'[tab'.user].version
        <3>1. form' \in Forms /\ form'.base >= 0
            BY <1>0, FormFields DEF ClientMove, DraftMove
        <3>2. QED
            BY <2>3, <3>1 DEF FormIsOfSession, ReadHasNoForm
    <2>4. QED
        BY <1>0, <2>1, <2>2, <2>3 DEF ClientMove, DraftMove
<1>3. ASSUME NEW u \in Users, cache'[u].version >= 0 PROVE tab'.user = u
    <2>1. CASE cache'[u].version = cache[u].version /\ tab'.user = tab.user
        BY <1>0, <1>3, <2>1 DEF CacheIsOfSession, Held
    <2>2. CASE fetch.stage = "served" /\ u = fetch.user /\ tab' = tab
        BY <1>0, <2>2 DEF RequestIsOwn
    <2>3. CASE u = tab'.user
        BY <2>3
    <2>4. cache'[u].version # -1
        BY <1>3
    <2>5. QED
        BY <1>0, <2>1, <2>2, <2>3, <2>4 DEF ClientMove, CacheMove
<1>4. QED
    BY <1>1, <1>2, <1>3 DEF Held

LEMMA OnNewNext ==
    ASSUME EditorInv, [Next]_vars
    PROVE  OnNew'
<1> SUFFICES ASSUME page' = "new" PROVE OnNew'
    BY DEF OnNew
<1>0. /\ ClientMove /\ SavesMove /\ TypeOK /\ cache \in Caches /\ fetch \in Requests
    BY ClientSteps, SavesSteps, TypeParts DEF EditorInv
<1>1. /\ page = "new" /\ fetch.version <= 0
      /\ form.up => form.base = 0
      /\ \A u \in Users : cache[u].version <= 0
      /\ \A s \in saves : s.base = 0
    BY <1>0 DEF EditorInv, OnNew, ClientMove, PageMove
<1>2. ASSUME NEW u \in Users PROVE cache'[u].version <= 0
    <2>1. CASE cache'[u].version = cache[u].version
        BY <1>1, <2>1
    <2>2. CASE cache'[u].version = -1
        BY <2>2
    <2>3. CASE cache'[u].version = fetch.version
        BY <1>1, <2>3
    <2>4. QED
        BY <1>0, <2>1, <2>2, <2>3 DEF ClientMove, CacheMove
<1>3. fetch'.version <= 0
    <2>1. CASE fetch' = NoFetch \/ fetch' = NewFetch
        BY <1>0, <2>1, Constants, NewFetchFacts
    <2>2. CASE fetch' = fetch
        BY <1>1, <2>2
    <2>3. CASE FetchServed
        <3>1. fetch'.version \in {-1, 0}
            BY <1>0, <1>1, <2>3, FetchServedFacts
        <3>2. QED
            BY <3>1
    <2>4. QED
        BY <1>0, <2>1, <2>2, <2>3 DEF ClientMove, FetchMove
<1>4. ASSUME form'.up PROVE form'.base = 0
    <2>1. CASE form.up /\ form'.base = form.base
        BY <1>1, <2>1
    <2>2. CASE form'.base = cache'[tab'.user].version /\ tab'.serial > 0
        <3>1. tab'.user \in Users /\ form'.base \in 0..MaxVersion
            BY <1>0, <2>2, BrowserTypes, ShownFields, FormFields
               DEF BrowserTyped, ClientMove, DraftMove
        <3>2. cache'[tab'.user].version <= 0
            BY <1>2, <3>1
        <3>3. QED
            BY <2>2, <3>1, <3>2
    <2>3. QED
        BY <1>0, <1>4, <2>1, <2>2, Constants DEF ClientMove, DraftMove
<1>5. ASSUME NEW t \in saves' PROVE t.base = 0
    <2>1. CASE t \in saves
        BY <1>1, <2>1
    <2>2. CASE \E s \in saves : Follows(t, s)
        BY <1>1, <2>2 DEF Follows
    <2>3. CASE form.up /\ Fresh(t)
        BY <1>1, <2>3 DEF Fresh
    <2>4. QED
        BY <1>0, <2>1, <2>2, <2>3 DEF SavesMove
<1>6. QED
    BY <1>2, <1>3, <1>4, <1>5 DEF OnNew

LEMMA OffNewNext ==
    ASSUME EditorInv, [Next]_vars
    PROVE  OffNew'
<1> SUFFICES ASSUME page' # "new" PROVE OffNew'
    BY DEF OffNew
<1>0. /\ ClientMove /\ ServerMove /\ TypeOK /\ NothingIsNewer /\ OffNew
      /\ ver \in 0..MaxVersion /\ ver' \in 0..MaxVersion
      /\ saves \subseteq Submitted
      /\ cache \in Caches /\ fetch \in Requests
    BY ClientSteps, ServerSteps, TypeParts DEF EditorInv, ServerMove
<1>1. \A s \in saves : s.result = "ok" => s.version > 0 /\ s.version <= ver /\ s.version \in 0..MaxVersion
    BY <1>0, SaveFields DEF NothingIsNewer
<1>2. \A u \in Users : cache[u].version \in -1..MaxVersion
    BY <1>0, EntryFields DEF Caches
<1>3. ver' > 0
    <2>1. ver' >= ver
        BY <1>0 DEF ServerMove
    <2>2. CASE page # "new"
        BY <1>0, <2>1, <2>2 DEF OffNew
    <2>3. CASE page = "new"
        <3>1. \E s \in saves : s.result = "ok"
            BY <1>0, <2>3 DEF ClientMove, PageMove
        <3>2. QED
            BY <1>0, <1>1, <2>1, <3>1
    <2>4. QED
        BY <2>2, <2>3
<1>4. ASSUME NEW u \in Users PROVE cache'[u].version # 0
    <2>1. CASE page = "new"
        BY <1>0, <2>1 DEF ClientMove, PageMove
    <2>2. CASE page # "new"
        <3>1. cache[u].version # 0 /\ fetch.version # 0
            BY <1>0, <2>2 DEF OffNew
        <3>2. CASE \/ cache'[u].version = cache[u].version \/ cache'[u].version = -1
                   \/ cache'[u].version = fetch.version
            BY <3>1, <3>2
        <3>3. ASSUME NEW s \in saves, s.result = "ok",
                     \/ cache'[u].version = IF cache[u].version > s.version
                                            THEN cache[u].version ELSE s.version
                     \/ cache'[u].version = s.version
              PROVE  cache'[u].version # 0
            BY <1>1, <1>2, <3>1, <3>3
        <3>4. QED
            BY <1>0, <3>2, <3>3 DEF ClientMove, CacheMove
    <2>3. QED
        BY <2>1, <2>2
<1>5. fetch'.version # 0
    <2>1. CASE fetch' = NoFetch \/ fetch' = NewFetch
        BY <1>0, <2>1, Constants, NewFetchFacts
    <2>2. CASE page = "new"
        BY <1>0, <2>1, <2>2 DEF ClientMove, PageMove
    <2>3. CASE page # "new" /\ fetch' = fetch
        BY <1>0, <2>3 DEF OffNew
    <2>4. CASE page # "new" /\ FetchServed
        <3>1. fetch'.version \in {-1, ver}
            BY <1>0, <2>4, FetchServedFacts
        <3>2. ver > 0
            BY <1>0, <2>4 DEF OffNew
        <3>3. QED
            BY <1>0, <3>1, <3>2
    <2>5. QED
        BY <1>0, <2>1, <2>2, <2>3, <2>4 DEF ClientMove, FetchMove
<1>6. ASSUME form'.up PROVE form'.base > 0
    <2>1. CASE form.up /\ form'.base = form.base /\ page # "new"
        BY <1>0, <2>1 DEF OffNew
    <2>2. CASE form'.base = cache'[tab'.user].version /\ tab'.serial > 0
        <3>1. tab'.user \in Users /\ form'.base \in 0..MaxVersion
            BY <1>0, <2>2, BrowserTypes, ShownFields, FormFields
               DEF BrowserTyped, ClientMove, DraftMove
        <3>2. cache'[tab'.user].version # 0
            BY <1>4, <3>1
        <3>3. QED
            BY <2>2, <3>1, <3>2
    <2>3. page = "new" => form' = NoForm
        BY <1>0 DEF ClientMove, PageMove
    <2>4. QED
        BY <1>0, <1>6, <2>1, <2>2, <2>3, Constants DEF ClientMove, DraftMove
<1>7. QED
    BY <1>3, <1>4, <1>5, <1>6 DEF OffNew

LEMMA SeenNext ==
    ASSUME EditorInv, [Next]_vars
    PROVE  BaseIsSeen'
<1>0. ClientMove /\ SavesMove /\ BaseIsSeen
    BY ClientSteps, SavesSteps DEF EditorInv
<1>1. form'.up => form'.base \in form'.seen
    BY <1>0, Constants DEF ClientMove, DraftMove, BaseIsSeen
<1>2. ASSUME NEW t \in saves' PROVE t.base \in t.seen
    <2>1. CASE t \in saves
        BY <1>0, <2>1 DEF BaseIsSeen
    <2>2. CASE \E s \in saves : Follows(t, s)
        BY <1>0, <2>2 DEF BaseIsSeen, Follows
    <2>3. CASE form.up /\ Fresh(t)
        BY <1>0, <2>3 DEF BaseIsSeen, Fresh
    <2>4. QED
        BY <1>0, <2>1, <2>2, <2>3 DEF SavesMove
<1>3. QED
    BY <1>1, <1>2 DEF BaseIsSeen

LEMMA NewestNext ==
    ASSUME EditorInv, [Next]_vars
    PROVE  NothingIsNewer'
<1>0. /\ ClientMove /\ ServerMove /\ SavesMove /\ TypeOK /\ NothingIsNewer
      /\ ver \in 0..MaxVersion /\ ver' \in 0..MaxVersion /\ ver' >= ver
      /\ saves \subseteq Submitted /\ cache \in Caches /\ fetch \in Requests
    BY ClientSteps, ServerSteps, SavesSteps, TypeParts DEF EditorInv, ServerMove
<1>1. \A s \in saves : s.version <= ver /\ s.version \in 0..MaxVersion
    BY <1>0, SaveFields DEF NothingIsNewer
<1>2. \A u \in Users : cache[u].version \in -1..MaxVersion /\ cache[u].version <= ver
    BY <1>0, EntryFields DEF Caches, NothingIsNewer
<1>3. claimed' # {} => ver' > 0
    <2>1. CASE claimed' = claimed
        BY <1>0, <2>1 DEF NothingIsNewer
    <2>2. QED
        BY <1>0, <2>1 DEF ServerMove
<1>4. fetch.version <= ver /\ fetch.version \in -1..MaxVersion
    BY <1>0 DEF NothingIsNewer, Requests
<1>5. ASSUME NEW u \in Users PROVE cache'[u].version <= ver'
    <2>1. CASE cache'[u].version = cache[u].version
        BY <1>0, <1>2, <2>1
    <2>2. CASE cache'[u].version = -1
        BY <1>0, <2>2
    <2>3. CASE cache'[u].version = fetch.version
        BY <1>0, <1>4, <2>3
    <2>4. ASSUME NEW s \in saves,
                 \/ cache'[u].version = IF cache[u].version > s.version
                                        THEN cache[u].version ELSE s.version
                 \/ cache'[u].version = s.version
          PROVE  cache'[u].version <= ver'
        BY <1>0, <1>1, <1>2, <2>4
    <2>5. QED
        BY <1>0, <2>1, <2>2, <2>3, <2>4 DEF ClientMove, CacheMove
<1>6. fetch'.version <= ver'
    <2>1. CASE fetch' = NoFetch \/ fetch' = NewFetch
        BY <1>0, <2>1, Constants, NewFetchFacts
    <2>2. CASE fetch' = fetch
        BY <1>0, <1>4, <2>2
    <2>3. CASE FetchServed
        <3>1. fetch'.version \in {-1, 0, ver}
            BY <1>0, <2>3, FetchServedFacts
        <3>2. QED
            BY <1>0, <3>1
    <2>4. QED
        BY <1>0, <2>1, <2>2, <2>3 DEF ClientMove, FetchMove
<1>7. ASSUME NEW t \in saves'
      PROVE  /\ t.version <= ver'
             /\ t.result = "ok" => t.version > 0
             /\ t.stage = "joining" => t.result = "ok"
    <2>1. CASE t \in saves
        BY <1>0, <1>1, <2>1 DEF NothingIsNewer
    <2>2. ASSUME NEW s \in saves, Advanced(s, t)
          PROVE  /\ t.version <= ver'
                 /\ t.result = "ok" => t.version > 0
                 /\ t.stage = "joining" => t.result = "ok"
        <3>1. s.version <= ver' /\ (s.result = "ok" => s.version > 0)
            BY <1>0, <1>1 DEF NothingIsNewer
        <3>2. QED
            BY <2>2, <3>1 DEF Advanced
    <2>3. CASE Fresh(t)
        BY <1>0, <2>3 DEF Fresh
    <2>4. QED
        BY <1>0, <2>1, <2>2, <2>3 DEF SavesMove
<1>8. QED
    BY <1>3, <1>5, <1>6, <1>7 DEF NothingIsNewer

LEMMA AnswerNext ==
    ASSUME EditorInv, [Next]_vars
    PROVE  AnswerIsNotOlder'
<1> SUFFICES ASSUME fetch'.stage = "served", fetch'.version >= 0
             PROVE  /\ \A u \in Users : u = fetch'.user => cache'[u].version <= fetch'.version
                    /\ \A t \in saves' :
                          t.stage = "joining" /\ t.base > 0 /\ t.user = fetch'.user
                              => t.version <= fetch'.version
    BY DEF AnswerIsNotOlder
<1>0. /\ ClientMove /\ SavesMove /\ TypeOK /\ NothingIsNewer /\ OnNew /\ RequestIsOwn
      /\ AnswerIsNotOlder /\ ver \in 0..MaxVersion
      /\ saves \subseteq Submitted /\ cache \in Caches /\ fetch \in Requests
    BY ClientSteps, SavesSteps, TypeParts DEF EditorInv
<1>1. \A s \in saves : s.version <= ver /\ s.version \in 0..MaxVersion /\ s.base \in 0..MaxVersion
    BY <1>0, SaveFields DEF NothingIsNewer
<1>2. \A u \in Users : cache[u].version \in -1..MaxVersion /\ cache[u].version <= ver
    BY <1>0, EntryFields DEF Caches, NothingIsNewer
<1>3. fetch' # NoFetch /\ fetch' # NewFetch
    BY <1>0, Constants, NewFetchFacts
<1>4. CASE fetch' = fetch /\ tab'.user = tab.user
    <2>1. fetch.stage = "served" /\ fetch.version >= 0 /\ fetch.user = tab.user
        BY <1>0, <1>4 DEF RequestIsOwn
    <2>2. /\ \A u \in Users : u = fetch.user => cache[u].version <= fetch.version
          /\ \A s \in saves : s.stage = "joining" /\ s.base > 0 /\ s.user = fetch.user
                                 => s.version <= fetch.version
        BY <1>0, <2>1 DEF AnswerIsNotOlder
    <2>3. ASSUME NEW u \in Users, u = fetch.user PROVE cache'[u].version <= fetch.version
        <3>1. CASE cache'[u].version = cache[u].version
            BY <2>2, <2>3, <3>1
        <3>2. ASSUME NEW s \in saves, s.stage = "joining", s.base > 0, s.user = u,
                     cache'[u].version = IF cache[u].version > s.version
                                         THEN cache[u].version ELSE s.version
              PROVE  cache'[u].version <= fetch.version
            <4>1. s.version <= fetch.version /\ cache[u].version <= fetch.version
                BY <2>2, <2>3, <3>2
            <4>2. QED
                BY <3>2, <4>1
        <3>3. QED
            BY <1>0, <1>3, <2>3, <3>1, <3>2 DEF ClientMove, CacheMove
    <2>4. ASSUME NEW t \in saves', t.stage = "joining", t.base > 0, t.user = fetch.user
          PROVE  t.version <= fetch.version
        <3>1. CASE t \in saves
            BY <2>2, <2>4, <3>1
        <3>2. ASSUME NEW s \in saves, Advanced(s, t) PROVE FALSE
            BY <1>3, <2>4, <3>2 DEF Advanced
        <3>3. CASE Fresh(t)
            BY <2>4, <3>3 DEF Fresh
        <3>4. QED
            BY <1>0, <3>1, <3>2, <3>3 DEF SavesMove
    <2>5. QED
        BY <1>4, <2>3, <2>4
<1>5. CASE FetchServed
    <2>1. /\ fetch'.version = IF page = "new" THEN 0 ELSE ver
          /\ cache' = cache /\ saves' = saves
        BY <1>0, <1>5, FetchServedFacts
    <2>2. CASE page = "new"
        <3>1. fetch'.version = 0 /\ \A u \in Users : cache[u].version <= 0
            BY <1>0, <2>1, <2>2 DEF OnNew
        <3>2. \A t \in saves' : t.base = 0
            BY <1>0, <2>1, <2>2 DEF OnNew
        <3>3. QED
            BY <2>1, <3>1, <3>2
    <2>3. CASE page # "new"
        BY <1>1, <1>2, <2>1, <2>3
    <2>4. QED
        BY <2>2, <2>3
<1>6. QED
    BY <1>0, <1>3, <1>4, <1>5 DEF ClientMove, FetchMove

LEMMA HoldsSteps ==
    ASSUME EditorInv, [Next]_vars, NEW u \in Users, NEW k \in 1..MaxSubmits, Holds(u, k)'
    PROVE  Holds(u, k) \/ (keys' = keys + 1 /\ k = keys' /\ u = tab.user)
<1>0. /\ ClientMove /\ SavesMove /\ ServerMove /\ TypeOK
      /\ saves \subseteq Submitted /\ claimed \subseteq Users \X (1..MaxSubmits)
    BY ClientSteps, SavesSteps, ServerSteps, TypeParts DEF EditorInv
<1>1. ASSUME NEW t \in saves', t.key = k, t.user = u
      PROVE  Holds(u, k) \/ (keys' = keys + 1 /\ k = keys' /\ u = tab.user)
    <2>1. CASE t \in saves
        BY <1>1, <2>1 DEF Holds
    <2>2. ASSUME NEW s \in saves, Follows(t, s) PROVE Holds(u, k)
        BY <1>1, <2>2 DEF Holds, Follows
    <2>3. ASSUME Fresh(t), form.up,
                 keys' = IF page = "new" /\ form.changed THEN keys + 1 ELSE keys
          PROVE  Holds(u, k) \/ (keys' = keys + 1 /\ k = keys' /\ u = tab.user)
        <3>1. page = "new" /\ u = tab.user
            BY <1>1, <2>3 DEF Fresh
        <3>2. CASE form.changed
            BY <1>1, <2>3, <3>1, <3>2 DEF Fresh
        <3>3. CASE ~form.changed
            <4>1. form.key = k
                BY <1>1, <2>3, <3>1, <3>3 DEF Fresh
            <4>2. QED
                BY <2>3, <3>1, <3>3, <4>1 DEF Holds
        <3>4. QED
            BY <3>2, <3>3
    <2>4. QED
        BY <1>0, <2>1, <2>2, <2>3 DEF SavesMove
<1>2. CASE <<u, k>> \in claimed'
    <2>1. CASE <<u, k>> \in claimed
        BY <2>1 DEF Holds
    <2>2. ASSUME NEW s \in saves, <<u, k>> = <<s.user, s.key>> PROVE Holds(u, k)
        BY <2>2 DEF Holds
    <2>3. claimed' = claimed \/ \E s \in saves : claimed' = claimed \cup {<<s.user, s.key>>}
        BY <1>0 DEF ServerMove
    <2>4. QED
        BY <1>2, <2>1, <2>2, <2>3
<1>3. CASE page' = "new" /\ form'.up /\ ~form'.changed /\ form'.key = k /\ tab'.user = u
    <2>1. CASE form.up /\ ~form.changed /\ form'.key = form.key /\ tab'.user = tab.user
        <3>1. page = "new"
            BY <1>0, <1>3 DEF ClientMove, PageMove
        <3>2. QED
            BY <1>3, <2>1, <3>1 DEF Holds
    <2>2. ASSUME NEW t \in saves', t.key = form'.key, t.user = tab'.user
          PROVE  Holds(u, k) \/ (keys' = keys + 1 /\ k = keys' /\ u = tab.user)
        BY <1>1, <1>3, <2>2
    <2>3. QED
        BY <1>0, <1>3, <2>1, <2>2 DEF ClientMove, KeyMove
<1>4. QED
    BY <1>1, <1>2, <1>3 DEF Holds

LEMMA KeysNext ==
    ASSUME EditorInv, [Next]_vars
    PROVE  KeysAreTexts' /\ keys' \in 0..MaxSubmits /\ texts' \in 0..MaxSubmits
           /\ submits' \in 0..MaxSubmits /\ saves' \subseteq Submitted /\ keys' >= keys
<1>0. /\ SavesMove /\ KeysAreTexts /\ saves \subseteq Submitted
      /\ keys \in 0..MaxSubmits /\ texts \in 0..MaxSubmits /\ submits \in 0..MaxSubmits
    BY SavesSteps, TypeParts DEF EditorInv
<1>1. CASE UNCHANGED countVars
    BY <1>0, <1>1 DEF SavesMove, KeysAreTexts, countVars
<1>2. CASE /\ submits' = submits + 1 /\ submits < MaxSubmits
           /\ keys' = IF page = "new" /\ form.changed THEN keys + 1 ELSE keys
           /\ texts' = IF page = "new" /\ form.changed THEN texts + 1 ELSE texts
    <2>1. saves' \subseteq Submitted
        BY <1>0 DEF SavesMove
    <2>2. QED
        BY <1>0, <1>2, <2>1, EditorAssumption DEF KeysAreTexts
<1>3. QED
    BY <1>0, <1>1, <1>2 DEF SavesMove

LEMMA OwnersNext ==
    ASSUME EditorInv, [Next]_vars
    PROVE  KeysAreOwned'
<1>0. /\ ClientMove /\ SavesMove /\ TypeOK /\ KeysAreOwned /\ OnNew
      /\ keys \in Int /\ keys' \in Int /\ keys' >= keys /\ keys >= 0
      /\ saves \subseteq Submitted /\ form \in Forms
    BY ClientSteps, SavesSteps, KeysNext, TypeParts DEF EditorInv
<1>1. ASSUME NEW u \in Users, NEW k \in 1..MaxSubmits, Holds(u, k)' PROVE k <= keys'
    <2>1. k \in Int
        BY EditorAssumption
    <2>2. QED
        BY <1>0, <1>1, <2>1, HoldsSteps DEF KeysAreOwned
<1>2. ASSUME NEW u \in Users, NEW v \in Users, NEW k \in 1..MaxSubmits, Holds(u, k)', Holds(v, k)'
      PROVE  u = v
    <2>1. k \in Int
        BY EditorAssumption
    <2>2. CASE Holds(u, k) /\ Holds(v, k)
        BY <1>0, <2>2 DEF KeysAreOwned
    <2>3. CASE ~Holds(u, k)
        <3>1. k = keys + 1 /\ u = tab.user
            BY <1>2, <2>3, HoldsSteps
        <3>2. ~Holds(v, k)
            BY <1>0, <2>1, <3>1 DEF KeysAreOwned
        <3>3. QED
            BY <1>2, <3>1, <3>2, HoldsSteps
    <2>4. CASE ~Holds(v, k)
        <3>1. k = keys + 1 /\ v = tab.user
            BY <1>2, <2>4, HoldsSteps
        <3>2. ~Holds(u, k)
            BY <1>0, <2>1, <3>1 DEF KeysAreOwned
        <3>3. QED
            BY <1>2, <3>1, <3>2, HoldsSteps
    <2>5. QED
        BY <2>2, <2>3, <2>4
<1>3. ASSUME NEW t \in saves', Fresh(t), form.up, t.base = 0 PROVE t.key > 0
    <2>1. t.base = form.base /\ form.base \in 0..MaxVersion
        BY <1>0, <1>3, FormFields DEF Fresh
    <2>2. page = "new"
        BY <1>3, <2>1 DEF EditorInv, OffNew
    <2>3. CASE form.changed
        BY <1>0, <1>3, <2>2, <2>3 DEF Fresh
    <2>4. CASE ~form.changed
        BY <1>0, <1>3, <2>2, <2>4 DEF Fresh, KeysAreOwned
    <2>5. QED
        BY <2>3, <2>4
<1>4. ASSUME NEW t \in saves', t.base = 0 PROVE t.key > 0
    <2>1. CASE t \in saves
        BY <1>0, <1>4, <2>1 DEF KeysAreOwned
    <2>2. ASSUME NEW s \in saves, Follows(t, s) PROVE t.key > 0
        BY <1>0, <1>4, <2>2 DEF KeysAreOwned, Follows
    <2>3. QED
        BY <1>0, <1>3, <1>4, <2>1, <2>2 DEF SavesMove
<1>5. ASSUME page' = "new", form'.up, ~form'.changed PROVE form'.key > 0
    <2>1. page = "new"
        BY <1>0, <1>5 DEF ClientMove, PageMove
    <2>2. CASE form.up /\ ~form.changed /\ form'.key = form.key
        BY <1>0, <2>1, <2>2 DEF KeysAreOwned
    <2>3. ASSUME NEW t \in saves', t.key = form'.key, Fresh(t) PROVE form'.key > 0
        <3>1. t.base = 0
            BY <1>5, <2>3, OnNewNext DEF OnNew
        <3>2. QED
            BY <1>4, <2>3, <3>1
    <2>4. QED
        BY <1>0, <1>5, <2>2, <2>3 DEF ClientMove, KeyMove
<1>6. QED
    BY <1>1, <1>2, <1>4, <1>5 DEF KeysAreOwned

\* What is read late is of a user the tab does not show, and goes with the session: a
\* step leaves it, empties it, or is about one user of whom the tab shows nothing.
LateMove ==
    \/ late' = late /\ (SignedIn' => SignedIn /\ tab'.user = tab.user)
    \/ late' = [u \in DOMAIN late |-> NoLate]
    \/ /\ tab' = tab
       /\ \E u \in Readers, l \in LateRequests :
             late' = [late EXCEPT ![u] = l] /\ ~(SignedIn /\ u = tab.user)

LEMMA LateFields ==
    ASSUME NEW l \in LateRequests, NEW with \in Cookies, NEW held \in BOOLEAN, NEW known \in BOOLEAN
    PROVE  /\ NoLate \in LateRequests
           /\ [l EXCEPT !.stage = "sent", !.with = with] \in LateRequests
           /\ [l EXCEPT !.stage = "served", !.known = known] \in LateRequests
           /\ [NoLate EXCEPT !.held = held] \in LateRequests
           /\ l.held \in BOOLEAN
<1>1. NoLate \in LateRequests
    BY Constants DEF NoLate, LateRequests
<1>2. QED
    BY <1>1 DEF LateRequests

LEMMA RefreshPermissionFacts ==
    ASSUME EditorInv, NEW s \in saves, RefreshPermission(s), UNCHANGED tab
    PROVE  LateMove
<1>0. LeftTyped /\ late \in Lates /\ cookie \in Cookies /\ tab \in Shows
    BY TypeParts DEF EditorInv
<1> DEFINE u == ReadBy(s)
<1>1. u \in Readers
    BY <1>0, ShownFields DEF ReadBy, LeftTyped, Readers
<1>2. CASE late' = late
    BY <1>2 DEF LateMove, SignedIn
<1>3. CASE late' # late
    <2>1. /\ ~(SignedIn /\ u = tab.user)
          /\ late' = [late EXCEPT ![u].stage = "sent", ![u].with = cookie]
        BY <1>3 DEF RefreshPermission
    <2> HIDE DEF u
    <2>2. late[u] \in LateRequests
        BY <1>0, <1>1 DEF Lates
    <2> DEFINE l == [late[u] EXCEPT !.stage = "sent", !.with = cookie]
    <2>3. l \in LateRequests
        BY <1>0, <2>2, LateFields
    <2>4. late' = [late EXCEPT ![u] = l]
        BY <2>1
    <2> HIDE DEF l
    <2>5. QED
        BY <1>1, <2>1, <2>3, <2>4 DEF LateMove
<1>4. QED
    BY <1>2, <1>3

LEMMA SessionArrivesLate ==
    ASSUME EditorInv, SessionArrives
    PROVE  LateMove
<1>0. tab \in Shows /\ probe.answer \in Shows
    BY TypeParts DEF EditorInv, Probes
<1>1. tab' = probe.answer
    BY DEF SessionArrives, ProbeStored
<1>2. late' = IF Foreign(probe.answer) THEN [u \in DOMAIN late |-> NoLate] ELSE late
    BY DEF SessionArrives
<1>3. CASE Foreign(probe.answer)
    BY <1>2, <1>3 DEF LateMove
<1>4. CASE ~Foreign(probe.answer)
    <2>1. tab'.user = tab.user /\ late' = late
        BY <1>1, <1>2, <1>4 DEF Foreign
    <2>2. SignedIn' => SignedIn
        <3>1. SignedIn' => tab'.user \in Users
            BY <1>0, <1>1, ShownFields DEF SignedIn
        <3>2. tab.user \in Users => SignedIn
            BY <1>0, ShownFields DEF SignedIn
        <3>3. QED
            BY <2>1, <3>1, <3>2
    <2>3. QED
        BY <2>1, <2>2 DEF LateMove
<1>5. QED
    BY <1>3, <1>4

LEMMA LateRequestSteps ==
    ASSUME EditorInv, NEW u \in Readers, LateServed(u) \/ LateEnds(u)
    PROVE  LateMove
<1>0. late \in Lates /\ late[u] \in LateRequests
    BY TypeParts DEF EditorInv, Lates
<1>1. tab' = tab
    BY DEF LateServed, LateEnds, browserVars
<1>2. ~(SignedIn /\ u = tab.user)
    <2>1. late[u].stage # "idle"
        BY DEF LateServed, LateEnds
    <2>2. late[u] # NoLate
        BY <2>1 DEF NoLate
    <2>3. QED
        BY <2>2 DEF EditorInv, CacheIsOfSession
<1>3. CASE LateServed(u)
    <2>1. PICK known \in BOOLEAN :
              known = (late[u].with \in live /\ access[late[u].with.user] # "none")
        OBVIOUS
    <2> DEFINE l == [late[u] EXCEPT !.stage = "served", !.known = known]
    <2>2. late' = [late EXCEPT ![u].stage = "served", ![u].known = known]
        BY <1>3, <2>1 DEF LateServed
    <2>3. l \in LateRequests
        BY <1>0, Constants, LateFields
    <2>4. late' = [late EXCEPT ![u] = l]
        BY <2>2
    <2> HIDE DEF l
    <2>5. QED
        BY <1>1, <1>2, <2>3, <2>4 DEF LateMove
<1>4. CASE LateEnds(u)
    <2>1. PICK good \in {FALSE, late[u].stage = "served" /\ late[u].known} :
              late' = [late EXCEPT ![u] = [NoLate EXCEPT !.held = good \/ late[u].held]]
        BY <1>4 DEF LateEnds
    <2>2. PICK held \in BOOLEAN : held = (good \/ late[u].held)
        OBVIOUS
    <2> DEFINE l == [NoLate EXCEPT !.held = held]
    <2>3. l \in LateRequests
        BY <1>0, Constants, LateFields
    <2>4. late' = [late EXCEPT ![u] = l]
        BY <2>1, <2>2
    <2> HIDE DEF l
    <2>5. QED
        BY <1>1, <1>2, <2>3, <2>4 DEF LateMove
<1>5. QED
    BY <1>3, <1>4

LEMMA LateSteps ==
    ASSUME EditorInv, [Next]_vars
    PROVE  LateMove
<1>1. UNCHANGED <<tab, late>> => LateMove
    BY DEF LateMove, SignedIn
<1>2. CASE Browse \/ SessionFails
    <2>1. UNCHANGED <<tab, late>>
        BY <1>2 DEF Browse, SessionFails, ProbeSend, ProbeServed, ProbeFailed, Elsewhere, lateVars
    <2>2. QED
        BY <1>1, <2>1
<1>3. CASE SessionArrives
    BY <1>3, SessionArrivesLate
<1>4. CASE FetchSend \/ FetchServed \/ FetchArrives \/ FetchLost \/ UNCHANGED vars
    BY <1>1, <1>4 DEF FetchSend, FetchServed, FetchArrives, FetchLost, vars, browserVars, lateVars
<1>5. CASE OpenEditor \/ LeaveEditor \/ Type \/ ReadLatest \/ RetryPermission
           \/ \E take \in BOOLEAN : Reconcile(take)
    BY <1>1, <1>5 DEF OpenEditor, LeaveEditor, Type, ReadLatest, RetryPermission, Reconcile,
                browserVars, lateVars
<1>6. CASE Submit \/ WriteElsewhere \/ \E u \in Users, level \in Levels : ChangeAccess(u, level)
    BY <1>1, <1>6 DEF Submit, WriteElsewhere, ChangeAccess, lateVars
<1>7. CASE \E s \in saves : Serve(s) \/ SaveSucceeds(s) \/ SaveLost(s)
    BY <1>1, <1>7 DEF Serve, SaveSucceeds, SaveLost, browserVars, lateVars
<1>8. ASSUME NEW s \in saves, SaveRefused(s) PROVE LateMove
    <2>1. UNCHANGED tab
        BY <1>8 DEF SaveRefused, browserVars
    <2>2. RefreshPermission(s) \/ late' = late
        BY <1>8 DEF SaveRefused
    <2>3. QED
        BY <1>1, <2>1, <2>2, RefreshPermissionFacts
<1>9. CASE \E u \in Users \cup {Nobody} : LateServed(u) \/ LateEnds(u)
    BY <1>9, LateRequestSteps DEF Readers
<1>10. QED
    BY <1>2, <1>3, <1>4, <1>5, <1>6, <1>7, <1>8, <1>9 DEF Next

LEMMA CacheNext ==
    ASSUME EditorInv, [Next]_vars
    PROVE  CacheIsOfSession' /\ late' \in Lates
<1>0. LateMove /\ late \in Lates /\ tab' \in Shows
    BY LateSteps, BrowserTypes, TypeParts DEF EditorInv, BrowserTyped
<1>1. tab'.user \in Readers /\ DOMAIN late = Readers /\ NoLate \in LateRequests
    BY <1>0, ShownFields, LateFields, Constants DEF Readers, Lates
<1>2. late' \in Lates
    BY <1>0, <1>1 DEF LateMove, Lates
<1>3. SignedIn => late[tab.user] = NoLate
    BY DEF EditorInv, CacheIsOfSession
<1>4. SignedIn' => late'[tab'.user] = NoLate
    BY <1>0, <1>1, <1>3 DEF LateMove, Lates, SignedIn
<1>5. QED
    BY <1>2, <1>4, OwnNext DEF CacheIsOfSession

LEMMA LeftNext ==
    ASSUME EditorInv, [Next]_vars
    PROVE  LeftTyped'
<1>0. LeftTyped /\ saves \subseteq Submitted /\ tab \in Shows
    BY TypeParts DEF EditorInv
<1>1. left' = left => LeftTyped'
    BY <1>0 DEF LeftTyped
<1>2. left' = PageLeft => LeftTyped'
    <2>1. DOMAIN PageLeft = {s.id : s \in saves}
        BY DEF PageLeft
    <2>2. \A i \in DOMAIN PageLeft : PageLeft[i] \in Readers
        BY <1>0, ShownFields DEF PageLeft, LeftTyped, Readers
    <2>3. DOMAIN PageLeft \subseteq 1..MaxSubmits
        BY <1>0, <2>1, SaveFields
    <2>4. QED
        BY <2>2, <2>3 DEF LeftTyped
<1>3. left' \in {left, PageLeft}
    <2>1. CASE Browse \/ SessionFails \/ FetchSend \/ FetchServed \/ FetchArrives \/ FetchLost
               \/ UNCHANGED vars
        BY <2>1 DEF Browse, SessionFails, FetchSend, FetchServed, FetchArrives, FetchLost, vars, lateVars
    <2>2. CASE OpenEditor \/ LeaveEditor \/ Type \/ Submit \/ ReadLatest \/ RetryPermission
               \/ WriteElsewhere \/ \E take \in BOOLEAN : Reconcile(take)
        BY <2>2 DEF OpenEditor, LeaveEditor, Type, Submit, ReadLatest, RetryPermission, Reconcile,
                    WriteElsewhere, lateVars
    <2>3. CASE SessionArrives
        BY <2>3 DEF SessionArrives, Finish
    <2>4. CASE \E s \in saves : SaveSucceeds(s)
        BY <2>4 DEF SaveSucceeds, Finish
    <2>5. CASE \E s \in saves : Serve(s) \/ SaveRefused(s) \/ SaveLost(s)
        BY <2>5 DEF Serve, SaveRefused, SaveLost, lateVars
    <2>6. CASE (\E u \in Users, level \in Levels : ChangeAccess(u, level))
               \/ \E u \in Users \cup {Nobody} : LateServed(u) \/ LateEnds(u)
        BY <2>6 DEF ChangeAccess, LateServed, LateEnds, lateVars
    <2>7. QED
        BY <2>1, <2>2, <2>3, <2>4, <2>5, <2>6 DEF Next
<1>4. QED
    BY <1>1, <1>2, <1>3

LEMMA TypeNext ==
    ASSUME EditorInv, [Next]_vars
    PROVE  TypeOK'
<1>1. BrowserTyped' /\ events' \in 0..MaxEvents
    BY BrowserTypes, BrowserStays DEF EditorInv
<1>2. ver' \in 0..MaxVersion /\ access' \in [Users -> Levels]
    BY ServerSteps DEF ServerMove
<1>3. copies' \in 0..MaxSubmits /\ claimed' \subseteq Users \X (1..MaxSubmits)
    BY CopiesNext
<1>4. page' \in Pages /\ cache' \in Caches /\ fetch' \in Requests /\ form' \in Forms
    BY ClientSteps DEF ClientMove, PageMove, CacheMove, FetchMove, DraftMove
<1>5. /\ keys' \in 0..MaxSubmits /\ texts' \in 0..MaxSubmits /\ submits' \in 0..MaxSubmits
      /\ saves' \subseteq Submitted
    BY KeysNext
<1>6. LeftTyped' /\ late' \in Lates
    BY LeftNext, CacheNext
<1>7. QED
    BY <1>1, <1>2, <1>3, <1>4, <1>5, <1>6, TypePartsNext DEF BrowserTyped

-----------------------------------------------------------------------------
(* The invariant, and what follows from it.                                *)

LEMMA EditorInitInv ==
    ASSUME Init
    PROVE  EditorInv
<1>0. 0 \in 0..MaxSubmits /\ 0 \in 0..MaxEvents /\ {0, 1} \subseteq 0..MaxVersion /\ 1 \in 0..MaxLogins
      /\ 1 \in 1..MaxLogins
    BY EditorAssumption, BrowserAssumption
<1>1. PICK w \in Users : cookie = [serial |-> 1, user |-> w]
    BY DEF Init, BrowserInit
<1>2. /\ live = {cookie} /\ logins = 1 /\ events = 0 /\ role = [u \in Users |-> NoRole]
      /\ tab = Unknown /\ probe = Idle
      /\ ver \in {0, 1} /\ access = [u \in Users |-> "editor"]
      /\ claimed = {} /\ copies = 0 /\ page = (IF ver = 0 THEN "new" ELSE "read")
      /\ cache = [u \in Users |-> NoEntry] /\ fetch = NoFetch /\ form = NoForm
      /\ saves = {} /\ submits = 0 /\ keys = 0 /\ texts = 0
      /\ left = <<>> /\ late = [u \in Readers |-> NoLate]
    BY DEF Init, BrowserInit, Readers
<1>3. TypeOK
    <2>1. cookie \in Secret
        BY <1>0, <1>1 DEF Secret
    <2>2. cookie \in Cookies /\ live \subseteq Secret
        BY <1>2, <2>1 DEF Cookies
    <2>3. role \in [Users -> Roles] /\ access \in [Users -> Levels] /\ cache \in Caches
        BY <1>2, Constants, EditorAssumption DEF Caches
    <2>4. page \in Pages
        BY <1>2 DEF Pages
    <2>5. LeftTyped
        BY <1>2 DEF LeftTyped
    <2>6. late \in Lates
        BY <1>2, Constants DEF Lates, LateRequests, NoLate
    <2>7. QED
        BY <1>0, <1>2, <2>2, <2>3, <2>4, <2>5, <2>6, Constants, TypeParts
<1>4. SerialsAreOnce
    <2>1. ASSUME NEW a \in Secret, Known(a) PROVE a = cookie
        <3>1. a.serial > 0 /\ a.serial \in Int
            BY SecretFields DEF Cookies
        <3>2. probe.with = NoSecret /\ probe.answer = Unknown /\ NoSecret.serial = 0
              /\ Unknown.serial = -1
            BY <1>2 DEF Idle, NoSecret, Unknown, SignedOut
        <3>3. QED
            BY <1>2, <2>1, <3>1, <3>2 DEF Known
    <2>2. cookie.serial = 1
        BY <1>1
    <2>3. QED
        BY <1>2, <2>1, <2>2 DEF SerialsAreOnce
<1>5. RequestIsOwn /\ FormIsOfSession /\ ReadHasNoForm
    BY <1>2, Constants DEF RequestIsOwn, FormIsOfSession, ReadHasNoForm
<1>6. \A u \in Users : cache[u].version = -1
    BY <1>2, Constants
<1>7. CacheIsOfSession
    <2>1. ~SignedIn
        BY <1>2 DEF SignedIn, Unknown, SignedOut
    <2>2. QED
        BY <1>6, <2>1 DEF CacheIsOfSession, Held
<1>8. OnNew /\ OffNew
    <2>1. fetch.version = -1 /\ ~form.up /\ saves = {} /\ ver \in {0, 1}
          /\ (page # "new" => ver = 1)
        BY <1>2, Constants
    <2>2. QED
        BY <1>6, <2>1 DEF OnNew, OffNew
<1>9. BaseIsSeen /\ SavesAreNumbered
    BY <1>2, Constants DEF BaseIsSeen, SavesAreNumbered
<1>10. NothingIsNewer /\ AnswerIsNotOlder
    <2>1. fetch.version = -1 /\ fetch.stage = "idle" /\ saves = {} /\ claimed = {} /\ ver \in {0, 1}
        BY <1>2, Constants
    <2>2. QED
        BY <1>6, <2>1 DEF NothingIsNewer, AnswerIsNotOlder
<1>11. KeysAreOwned /\ KeysAreTexts
    <2>1. ~form.up /\ saves = {} /\ claimed = {}
        BY <1>2, Constants
    <2>2. \A u \in Users, k \in 1..MaxSubmits : ~Holds(u, k)
        BY <2>1 DEF Holds
    <2>3. QED
        BY <1>2, <2>1, <2>2 DEF KeysAreOwned, KeysAreTexts
<1>12. CopiesAreClaimed
    <2>1. ClaimedKeys = {}
        BY <1>2 DEF ClaimedKeys
    <2>2. QED
        BY <1>2, <2>1, FS_EmptySet DEF CopiesAreClaimed
<1>13. QED
    BY <1>3, <1>4, <1>5, <1>7, <1>8, <1>9, <1>10, <1>11, <1>12 DEF EditorInv

LEMMA EditorStepInv ==
    ASSUME EditorInv, [Next]_vars
    PROVE  EditorInv'
BY TypeNext, SerialsNext, OwnNext, CacheNext, OnNewNext, OffNewNext, SeenNext, NumberedNext, NewestNext,
   AnswerNext, OwnersNext, KeysNext, CopiesNext DEF EditorInv

LEMMA EditorInvHolds == Spec => []EditorInv
BY EditorInitInv, EditorStepInv, PTL DEF Spec

\* For any users, roles and levels and any number of logins, saves, versions and events: the
\* state of the tab, of the server and of the requests between them keeps its type.
THEOREM TypeCorrect == Spec => []TypeOK
<1>1. EditorInv => TypeOK
    BY DEF EditorInv
<1>2. QED
    BY <1>1, EditorInvHolds, PTL

\* However requests, saves and session changes overlap, what the tab holds for the user it
\* shows was read or saved since it shows that user: session.ts empties the cache before it
\* stores another's session, a save that ends later writes only for the user who is still
\* there, and what a refused save of a left page reads late is of users the tab does not show.
THEOREM SessionCorrect == Spec => []CacheIsOfSession
<1>1. EditorInv => CacheIsOfSession
    BY DEF EditorInv
<1>2. QED
    BY <1>1, EditorInvHolds, PTL

\* One text submitted any number of times, with answers lost at any point, creates one
\* document: a key belongs to one text of one user, and the server completes it once.
THEOREM CreatedCorrect == Spec => []CreatedOnce
<1>1. EditorInv => CreatedOnce
    <2> SUFFICES ASSUME EditorInv PROVE CreatedOnce
        OBVIOUS
    <2>1. /\ copies = Cardinality(ClaimedKeys) /\ keys = texts /\ KeysAreOwned
          /\ keys \in Nat
        BY TypeParts, EditorAssumption DEF EditorInv, CopiesAreClaimed, KeysAreTexts
    <2>2. ClaimedKeys \subseteq 1..keys
        <3>1. ASSUME NEW k \in ClaimedKeys PROVE k \in 1..keys
            <4>1. k \in 1..MaxSubmits /\ \E u \in Users : <<u, k>> \in claimed
                BY DEF ClaimedKeys
            <4>2. k <= keys
                BY <2>1, <4>1 DEF KeysAreOwned, Holds
            <4>3. QED
                BY <2>1, <4>1, <4>2
        <3>2. QED
            BY <3>1
    <2>3. IsFiniteSet(1..keys) /\ Cardinality(1..keys) = keys
        BY <2>1, FS_Interval
    <2>4. Cardinality(ClaimedKeys) <= keys
        BY <2>2, <2>3, FS_Subset
    <2>5. QED
        BY <2>1, <2>4 DEF CreatedOnce
<1>2. QED
    BY <1>1, EditorInvHolds, PTL

\* The server accepts a save only for the account the tab showed when it was submitted, and
\* only over a version its author has had in front of them.
THEOREM SavesCorrect == Spec => SavesWhatWasSeen
<1>1. ASSUME EditorInv, [Next]_vars, NEW s \in saves, Accepted(s)
      PROVE  s.with.user = s.user /\ (s.base > 0 => ver \in s.seen)
    <2>1. PICK t \in saves' : t.id = s.id /\ s.stage = "sent" /\ t.stage = "served" /\ t.result = "ok"
        BY <1>1 DEF Accepted
    <2>2. SavesMove /\ SavesAreNumbered /\ TypeOK /\ SerialsAreOnce /\ BaseIsSeen
          /\ saves \subseteq Submitted
        BY <1>1, SavesSteps, TypeParts DEF EditorInv
    <2>3. t \notin saves
        BY <2>1, <2>2 DEF SavesAreNumbered
    <2>4. ASSUME NEW r \in saves, Follows(t, r), Advanced(r, t) PROVE Verdict(s) = "ok"
        <3>1. r = s
            BY <2>1, <2>2, <2>4 DEF SavesAreNumbered, Follows
        <3>2. QED
            BY <2>1, <2>4, <3>1 DEF Advanced
    <2>5. ~Fresh(t)
        BY <2>1 DEF Fresh
    <2>6. Verdict(s) = "ok"
        BY <2>2, <2>3, <2>4, <2>5 DEF SavesMove
    <2>7. Authentic(s) /\ ~(s.base > 0 /\ s.base # ver)
        BY <2>6 DEF Verdict
    <2>8. s.with.user = s.user
        BY <2>2, <2>7, AuthenticUser
    <2>9. s.base \in s.seen
        BY <2>2 DEF BaseIsSeen
    <2>10. QED
        BY <2>7, <2>8, <2>9
<1>2. EditorInv /\ [Next]_vars =>
          [\A s \in saves : Accepted(s) =>
              /\ s.with.user = s.user
              /\ s.base > 0 => ver \in s.seen]_vars
    BY <1>1
<1>3. QED
    BY <1>2, EditorInvHolds, PTL DEF Spec, SavesWhatWasSeen

\* While the tab shows one user in one role, the document it holds never goes back to an
\* older version, in whatever order reads and saves answer.
THEOREM NeverOlderCorrect == Spec => NeverOlder
<1>1. ASSUME EditorInv, [Next]_vars, NEW u \in Users, Held(u), cache'[u].version >= 0,
             tab'.role = tab.role
      PROVE  cache'[u].version >= cache[u].version
    <2>1. /\ ClientMove /\ CacheIsOfSession /\ OnNew /\ AnswerIsNotOlder
          /\ BrowserTyped' /\ saves \subseteq Submitted /\ cache \in Caches
        BY <1>1, ClientSteps, BrowserTypes, TypeParts DEF EditorInv
    <2>2. tab.user = u /\ cache[u].version \in -1..MaxVersion /\ cache[u].version >= 0
        BY <1>1, <2>1, EntryFields DEF CacheIsOfSession, Held, Caches
    <2>3. CASE cache'[u].version = cache[u].version
        BY <2>2, <2>3
    <2>4. CASE fetch.stage = "served" /\ fetch.version >= 0 /\ u = fetch.user
               /\ cache'[u].version = fetch.version
        BY <2>1, <2>4 DEF AnswerIsNotOlder
    <2>5. ASSUME NEW s \in saves,
                 cache'[u].version = IF cache[u].version > s.version
                                     THEN cache[u].version ELSE s.version
          PROVE  cache'[u].version >= cache[u].version
        <3>1. s.version \in 0..MaxVersion
            BY <2>1, SaveFields
        <3>2. QED
            BY <2>2, <2>5, <3>1
    <2>6. ASSUME NEW s \in saves, u = tab'.user, page = "new" \/ Foreign(tab'),
                 cache'[u].version = s.version
          PROVE  cache'[u].version >= cache[u].version
        <3>1. s.version \in 0..MaxVersion
            BY <2>1, SaveFields
        <3>2. CASE page = "new"
            <4>1. cache[u].version <= 0
                BY <2>1, <3>2 DEF OnNew
            <4>2. QED
                BY <2>2, <2>6, <3>1, <4>1
        <3>3. CASE Foreign(tab')
            <4>1. tab'.serial = 0
                BY <1>1, <2>2, <2>6, <3>3 DEF Foreign
            <4>2. tab' \in Shows
                BY <2>1 DEF BrowserTyped
            <4>3. tab'.serial > 0
                BY <2>6, <4>2, ShownFields
            <4>4. QED
                BY <4>1, <4>3
        <3>4. QED
            BY <2>6, <3>2, <3>3
    <2>7. cache'[u].version # -1
        BY <1>1
    <2>8. QED
        BY <2>1, <2>3, <2>4, <2>5, <2>6, <2>7 DEF ClientMove, CacheMove
<1>2. EditorInv /\ [Next]_vars =>
          [\A u \in Users : Held(u) /\ cache'[u].version >= 0 /\ tab'.role = tab.role
                                => cache'[u].version >= cache[u].version]_vars
    BY <1>1
<1>3. QED
    BY <1>2, EditorInvHolds, PTL DEF Spec, NeverOlder
=============================================================================
