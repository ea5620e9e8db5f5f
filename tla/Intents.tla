------------------------------ MODULE Intents ------------------------------
(***************************************************************************)
(* What a page of the web client (packages/views) asks the server to do    *)
(* for its user: export a document, retry a job, upload an attachment,     *)
(* create a knowledge base, issue an API key, change a member or the alert *)
(* rule, delete a resource.  A request may be lost, answered late, or run  *)
(* after its page was left or the account of the browser changed; the user *)
(* then asks again.                                                        *)
(*                                                                         *)
(* An intent is one decision of the user, however often it is submitted:   *)
(* what idempotency keys, and when they are renewed, are to make happen    *)
(* once.  An effect is what the server did.                                *)
(***************************************************************************)
EXTENDS Integers, FiniteSets

CONSTANTS
    Viewers,        \* the accounts the browser shows in turn
    MaxSubmits,     \* bounds the requests of a page
    MaxSaves,       \* bounds those of a page with a draft
    MaxIntents,     \* bounds the decisions
    MaxShifts       \* bounds what others do: other versions, switches of account

ASSUME IntentsAssumption ==
    /\ Viewers # {}
    /\ MaxSubmits \in Nat
    /\ MaxSaves \in Nat
    /\ MaxIntents \in Nat \ {0}
    /\ MaxShifts \in Nat

VARIABLES
    kind,       \* the operation of the page
    viewer,     \* the account the browser shows
    page,       \* the page: its key, draft and request
    calls,      \* the requests under way, those of pages that were left too
    effects,    \* what the server did
    dead,       \* the keys of uploads that expired or were rejected
    ver,        \* the stored version of what a draft changes
    poll,       \* the version a read of it carries, 0 when none is under way
    count       \* submissions, decisions, keys and shifts so far

intentVars == <<kind, viewer, page, calls, effects, dead, ver, poll, count>>

-----------------------------------------------------------------------------
(* The operations.  key: when the key is renewed: after a "success", with   *)
(* each "choice" of a file, with another "text", or there is "none".        *)
(* drafts: what a draft starts from: "once" from what is listed when it is  *)
(* mounted, "edit" from what is listed at the first edit.  aborts: whether  *)
(* leaving the page aborts the request.  then: what a success does on the   *)
(* page.                                                                    *)

RequestExport == [key |-> "success", drafts |-> "none", aborts |-> FALSE, then |-> "stay"]
RetryJob == [key |-> "success", drafts |-> "none", aborts |-> FALSE, then |-> "stay"]
Upload == [key |-> "choice", drafts |-> "none", aborts |-> TRUE, then |-> "stay"]
CreateBase == [key |-> "text", drafts |-> "none", aborts |-> FALSE, then |-> "show"]
IssueKey == [key |-> "none", drafts |-> "none", aborts |-> TRUE, then |-> "show"]
DeleteResource == [key |-> "none", drafts |-> "none", aborts |-> FALSE, then |-> "show"]
ChangeMember == [key |-> "none", drafts |-> "once", aborts |-> FALSE, then |-> "stay"]
ChangeRule == [key |-> "none", drafts |-> "edit", aborts |-> FALSE, then |-> "stay"]

Kinds == {RequestExport, RetryJob, Upload, CreateBase, IssueKey, DeleteResource,
          ChangeMember, ChangeRule}

Keyed == kind.key # "none"
Versioned == kind.drafts # "none"

\* A page that has just been mounted: no key, no request.  listed is the version its
\* query shows, base the one the values in its controls come from, step where an
\* upload is, shown the effect it shows, opens or left for.
Fresh(listed, n) ==
    [intent |-> n, key |-> 0, listed |-> listed, base |-> listed, seen |-> {listed},
     edited |-> FALSE, call |-> 0, step |-> "start", shown |-> 0]

IntentsInit ==
    /\ kind \in Kinds
    /\ viewer = CHOOSE u \in Viewers : TRUE
    /\ page = Fresh(1, 1)
    /\ calls = {}
    /\ effects = {}
    /\ dead = {}
    /\ ver = 1
    /\ poll = 0
    /\ count = [submits |-> 0, intents |-> 1, keys |-> 0, shifts |-> 0]

Busy == page.call > 0

Shift ==
    /\ count.shifts < MaxShifts
    /\ count' = [count EXCEPT !.shifts = @ + 1]

-----------------------------------------------------------------------------
(* The page.                                                               *)

\* The requests when nobody waits for these any more: those that left may still reach
\* the server.
Without(some) ==
    (calls \ some) \cup {[c EXCEPT !.orphan = TRUE, !.aborted = TRUE] : c \in {d \in some : d.stage = "sent"}}

\* The requests when their page is left: aborted, or running on without it.
Orphaned == IF kind.aborts THEN Without(calls) ELSE {[c EXCEPT !.orphan = TRUE] : c \in calls}

\* Another account is signed in, or the page is left and opened again: it is mounted
\* afresh (its key is the account) for the account shown, and what it asks from then
\* on is another decision. 
Remount(u) ==
    /\ count.intents < MaxIntents
    /\ viewer' = u
    /\ page' = Fresh(ver, count.intents + 1)
    /\ calls' = Orphaned
    /\ poll' = 0
    /\ count' = [count EXCEPT !.intents = @ + 1]
    /\ UNCHANGED <<kind, effects, dead, ver>>

\* Another file is chosen, or another name typed: another attempt.
Decide ==
    /\ kind.key \in {"choice", "text"}
    /\ ~Busy
    /\ page.shown = 0
    /\ count.intents < MaxIntents
    /\ page' = [page EXCEPT !.intent = count.intents + 1, !.key = 0, !.step = "start"]
    /\ count' = [count EXCEPT !.intents = @ + 1]
    /\ UNCHANGED <<kind, viewer, calls, effects, dead, ver, poll>>

\* The controls of a draft are edited.
Edit ==
    /\ Versioned
    /\ ~Busy
    /\ page' = [page EXCEPT !.edited = TRUE]
    /\ UNCHANGED <<kind, viewer, calls, effects, dead, ver, poll, count>>

\* The draft of the rule is given up, by its button or to load the latest after a
\* conflict: the controls show what is listed.
Discard ==
    /\ kind.drafts = "edit"
    /\ ~Busy
    /\ page' = [page EXCEPT !.edited = FALSE, !.base = page.listed, !.seen = {page.listed}]
    /\ UNCHANGED <<kind, viewer, calls, effects, dead, ver, poll, count>>

\* The members are listed anew: their cards, with drafts and requests, are mounted afresh.
Relist ==
    /\ kind.drafts = "once"
    /\ page' = Fresh(page.listed, page.intent)
    /\ calls' = Orphaned
    /\ UNCHANGED <<kind, viewer, effects, dead, ver, poll, count>>

\* An upload takes two requests.
Tries == IF Versioned THEN MaxSaves ELSE IF kind = Upload THEN MaxSubmits + 1 ELSE MaxSubmits

MaySubmit ==
    /\ ~Busy
    /\ kind.then = "show" /\ kind # IssueKey => page.shown = 0
    /\ kind.drafts = "edit" => page.edited
    /\ page.step \in {"start", "complete"}
    /\ count.submits < Tries

\* Faulty: the version that the query shows by now.
FaultyNamed == page.listed

\* The version a draft names: what its controls started from.
Named == page.base

\* Submitting again what failed keeps its key.
Submit ==
    LET fresh == Keyed /\ page.key = 0
        key == IF fresh THEN count.keys + 1 ELSE page.key
        id == count.submits + 1
    IN  /\ MaySubmit
        /\ page' = [page EXCEPT !.call = id, !.key = key, !.shown = 0]
        /\ calls' = calls \cup
            {[id |-> id, user |-> viewer, intent |-> page.intent, key |-> key,
              base |-> Named, seen |-> page.seen, what |-> page.step,
              stage |-> "sent", result |-> "none", effect |-> 0, orphan |-> FALSE,
              aborted |-> FALSE]}
        /\ count' = [count EXCEPT !.submits = id, !.keys = IF fresh THEN @ + 1 ELSE @]
        /\ UNCHANGED <<kind, viewer, effects, dead, ver, poll>>

\* The file is put into the storage: then its completion is asked for.
Put ==
    /\ page.step = "put"
    /\ \/ page' = [page EXCEPT !.step = "complete"]
       \/ page' = [page EXCEPT !.step = "start"]
    /\ UNCHANGED <<kind, viewer, calls, effects, dead, ver, poll, count>>

\* Faulty: a failed attempt drops its key.
FaultyKeyAfterLoss == 0

\* What a failed attempt leaves: the key, since the server may have done it.
KeyAfterLoss == page.key

\* The request or its answer is lost, or times out: it may reach the server later.
Lose(c) ==
    /\ ~c.aborted
    /\ calls' = Without({c})
    /\ page' = IF page.call = c.id
               THEN [page EXCEPT !.call = 0, !.key = KeyAfterLoss, !.step = "start"]
               ELSE page
    /\ UNCHANGED <<kind, viewer, effects, dead, ver, poll, count>>

-----------------------------------------------------------------------------
(* The server.                                                             *)

Did(key) == {e \in effects : key > 0 /\ e.key = key}

\* What is replayed for a key whose request was completed.
Replayed(key) == Did(key)

Reply(c, result, effect) ==
    calls' = (calls \ {c}) \cup
        (IF c.aborted THEN {} ELSE {[c EXCEPT !.stage = "served", !.result = result, !.effect = effect]})

\* One transaction: a key that is known is answered as before, a draft is accepted at
\* the version it names, everything else is done or refused.  Asking to upload only
\* reserves the key; completing the upload is the effect.
Serve(c) ==
    /\ c.stage = "sent"
    /\ \/ /\ c.what = "start" /\ kind = Upload
          /\ Reply(c, IF c.key \in dead THEN "expired" ELSE "ok", 0)
          /\ UNCHANGED <<effects, ver>>
       \/ /\ Replayed(c.key) # {}
          /\ ~(c.what = "start" /\ kind = Upload)
          /\ Reply(c, "ok", (CHOOSE e \in Replayed(c.key) : TRUE).id)
          /\ UNCHANGED <<effects, ver>>
       \/ LET e == [id |-> Cardinality(effects) + 1, user |-> c.user, intent |-> c.intent, key |-> c.key]
          IN  /\ Replayed(c.key) = {}
              /\ ~(c.what = "start" /\ kind = Upload)
              /\ c.key \notin dead
              /\ Versioned => c.base = ver
              /\ kind = DeleteResource => effects = {}
              /\ effects' = effects \cup {e}
              /\ ver' = IF Versioned THEN ver + 1 ELSE ver
              /\ Reply(c, "ok", e.id)
       \/ /\ Replayed(c.key) = {}
          /\ Reply(c, IF c.key \in dead THEN "expired" ELSE "refused", 0)
          /\ UNCHANGED <<effects, ver>>
    /\ UNCHANGED <<kind, viewer, page, dead, poll, count>>

\* An upload that was not completed expires, or its object is rejected.
Expire ==
    /\ kind = Upload
    /\ \E key \in 1..count.keys :
        /\ key \notin dead
        /\ Did(key) = {}
        /\ dead' = dead \cup {key}
    /\ UNCHANGED <<kind, viewer, page, calls, effects, ver, poll, count>>

\* Someone else changes the member or the rule.
ChangeElsewhere ==
    /\ Versioned
    /\ Shift
    /\ ver' = ver + 1
    /\ UNCHANGED <<kind, viewer, page, calls, effects, dead, poll>>

-----------------------------------------------------------------------------
(* The answers.                                                            *)

\* Faulty: whoever is on screen.
FaultyHere(c) == TRUE

\* The page that asked is still there: it alone shows, opens or leaves for what was
\* done.
Here(c) == ~c.orphan

\* Whether the next submission draws another key: an export or a retry was accepted,
\* an upload was completed, or can never be.
Renews(c) ==
    \/ c.result = "ok" /\ kind.key = "success"
    \/ c.result = "ok" /\ kind.key = "choice" /\ c.what = "complete"
    \/ c.result = "expired"

Arrive(c) ==
    LET ok == c.result = "ok"
        settled == ok /\ kind.key = "success"
        answered == [page EXCEPT
            !.call = 0,
            !.key = IF Renews(c) THEN 0 ELSE @,
            !.intent = IF settled THEN count.intents + 1 ELSE @,
            !.step = IF ~ok \/ kind # Upload THEN "start"
                     ELSE IF c.what = "complete" THEN "done"
                     ELSE IF Did(c.key) = {} THEN "put" ELSE "complete",
            !.listed = IF ok /\ kind.drafts = "edit" THEN c.base + 1 ELSE @,
            !.base = IF ok /\ Versioned THEN c.base + 1 ELSE @,
            !.seen = IF ok /\ Versioned THEN {c.base + 1} ELSE @,
            !.edited = @ /\ ~ok]
        shows == ok /\ kind.then = "show" /\ Here(c)
    IN  /\ c.stage = "served"
        /\ calls' = calls \ {c}
        /\ IF page.call = c.id
           THEN /\ settled => count.intents < MaxIntents
                /\ count' = [count EXCEPT !.intents = IF settled THEN @ + 1 ELSE @]
                /\ page' = [answered EXCEPT !.shown = IF shows THEN c.effect ELSE @]
           ELSE /\ page' = [page EXCEPT !.shown = IF shows /\ ~c.aborted THEN c.effect ELSE @]
                /\ UNCHANGED count
        /\ UNCHANGED <<kind, viewer, effects, dead, ver, poll>>

\* The list or the rule is read again, on its own or by a button; an answer that was
\* sent before a save may arrive after it.
Look ==
    /\ Versioned
    /\ poll = 0
    /\ poll' = ver
    /\ UNCHANGED <<kind, viewer, page, calls, effects, dead, ver, count>>

Seen ==
    /\ poll > 0
    /\ page' = [page EXCEPT
        !.listed = poll,
        !.base = IF kind.drafts = "edit" /\ ~page.edited THEN poll ELSE @,
        !.seen = IF kind.drafts = "edit" /\ ~page.edited THEN {poll} ELSE @]
    /\ poll' = 0
    /\ UNCHANGED <<kind, viewer, calls, effects, dead, ver, count>>

\* The secret that was revealed is hidden.
Hide ==
    /\ kind = IssueKey
    /\ page.shown > 0
    /\ page' = [page EXCEPT !.shown = 0]
    /\ UNCHANGED <<kind, viewer, calls, effects, dead, ver, poll, count>>

IntentsNext ==
    \/ \E u \in Viewers : Remount(u)
    \/ Decide
    \/ Edit
    \/ Discard
    \/ Relist
    \/ Submit
    \/ Put
    \/ \E c \in calls : Lose(c) \/ Serve(c) \/ Arrive(c)
    \/ Expire
    \/ ChangeElsewhere
    \/ Look
    \/ Seen
    \/ Hide

(***************************************************************************)
(* Properties.                                                             *)
(***************************************************************************)

\* However often it is submitted, and whatever became of earlier answers, a decision
\* that carries a key is carried out once.
OneEffectPerIntent ==
    Keyed => \A e \in effects, f \in effects : e.intent = f.intent => e = f

\* A change is only accepted at the version whose values its author had in the
\* controls, whatever was read in the meantime and in whatever order.
ActsOnWhatWasShown ==
    [][\A c \in calls : Versioned /\ c.stage = "sent" /\ ver' > ver
            /\ (\A d \in calls' : d.id = c.id => d.stage = "served")
                => ver \in c.seen]_intentVars

\* What a page reveals, opens or leaves for was done for the account on screen, by
\* this page: never what a page of an account before it asked for.
ShowsOwn ==
    page.shown > 0 =>
        \E e \in effects : e.id = page.shown /\ e.user = viewer /\ e.intent = page.intent
=============================================================================
