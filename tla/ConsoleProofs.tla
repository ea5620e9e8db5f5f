---------------------------- MODULE ConsoleProofs ----------------------------
(***************************************************************************)
(* Theorems about the client, for any accounts, submissions, links, tabs,  *)
(* looks, rows and pages of a list: what a page asks for (Intents), how a  *)
(* session begins and ends (Entry), how tabs look (Looks), the desktop     *)
(* window (Desktop) and what a list has read (Lists).  Each part has an    *)
(* inductive invariant of its own.                                         *)
(***************************************************************************)
EXTENDS Console, FiniteSetTheorems, WellFoundedInduction, TLAPS

-----------------------------------------------------------------------------
(* Intents: types.                                                         *)

Steps == {"start", "put", "complete", "done"}
Page == [intent : Nat, key : Nat, listed : Nat, base : Nat, seen : SUBSET Nat,
         edited : BOOLEAN, call : Nat, step : Steps, shown : Nat]
Call == [id : Nat \ {0}, user : Viewers, intent : Nat, key : Nat, base : Nat, seen : SUBSET Nat,
         what : Steps, stage : {"sent", "served"}, result : {"none", "ok", "refused", "expired"},
         effect : Nat, orphan : BOOLEAN, aborted : BOOLEAN]
Effect == [id : Nat, user : Viewers, intent : Nat, key : Nat]
Count == [submits : Nat, intents : Nat, keys : Nat, shifts : Nat]

IntentsTypeOK ==
    /\ kind \in Kinds
    /\ viewer \in Viewers
    /\ page \in Page
    /\ calls \subseteq Call
    /\ effects \subseteq Effect /\ IsFiniteSet(effects)
    /\ dead \subseteq Nat
    /\ ver \in Nat /\ poll \in Nat
    /\ count \in Count

\* Requests and what the server did: both carry a decision and the key it is known by.
Carriers == calls \cup effects

SameDecision(x, y) == x.intent = y.intent /\ x.user = y.user

\* Numbers are given in turn, and a request that is not orphaned is the one its page waits for.
Numbered ==
    /\ page.call <= count.submits /\ page.key <= count.keys /\ page.intent <= count.intents
    /\ dead \subseteq 1..count.keys
    /\ \A c \in calls : c.id <= count.submits
    /\ \A x \in Carriers : x.key <= count.keys /\ x.intent <= count.intents

WaitedFor ==
    /\ \A c \in calls, d \in calls : c.id = d.id => c = d
    /\ \A c \in calls :
        /\ c.id = page.call => c.key = page.key /\ c.intent = page.intent /\ c.user = viewer /\ ~c.orphan
        /\ ~c.orphan => c.id = page.call

\* A key stands for one decision.
KeyIsOfDecision ==
    /\ \A x \in Carriers, y \in Carriers : x.key > 0 /\ x.key = y.key => SameDecision(x, y)
    /\ \A x \in Carriers : x.key > 0 /\ x.key = page.key => x.intent = page.intent /\ x.user = viewer
    /\ \A e \in effects, f \in effects : e.key > 0 /\ e.key = f.key => e = f

\* A decision that carries a key has one that is not dead, the page's unless it is done.
DecisionHasOneKey ==
    Keyed =>
        /\ \A x \in Carriers : x.key > 0
        /\ \A x \in Carriers, y \in Carriers :
            x.intent = y.intent /\ x.key \notin dead /\ y.key \notin dead => x.key = y.key
        /\ \A x \in Carriers : x.intent = page.intent /\ x.key \notin dead =>
            x.key = page.key \/ (page.key = 0 /\ page.step = "done")

DeadKeys ==
    /\ \A e \in effects : e.key \notin dead
    /\ \A c \in calls : c.result = "expired" => c.key \in dead
    /\ page.step = "done" => page.call = 0

\* An answer, and the page, name what was done for their account and decision.
Shows ==
    /\ page.shown > 0 => kind.then = "show"
    /\ ShowsOwn
    /\ kind.then = "show" => \A c \in calls : c.stage = "served" /\ c.result = "ok" =>
        \E e \in effects : e.id = c.effect /\ SameDecision(e, c)

DraftsWereSeen ==
    Versioned => page.base \in page.seen /\ \A c \in calls : c.base \in c.seen

IntentsInv ==
    /\ IntentsTypeOK
    /\ Numbered /\ WaitedFor /\ KeyIsOfDecision /\ DecisionHasOneKey /\ DeadKeys
    /\ Shows /\ DraftsWereSeen

\* What is under way was orphaned, not changed.
Left(d, c) == d = c \/ d = [c EXCEPT !.orphan = TRUE] \/ d = [c EXCEPT !.orphan = TRUE, !.aborted = TRUE]

LEMMA WithoutLeaves ==
    ASSUME NEW some
    PROVE  \A d \in Without(some) : \E c \in calls \cup some : Left(d, c)
BY DEF Without, Left

LEMMA OrphanedLeaves ==
    \A d \in Orphaned : \E c \in calls : Left(d, c)
BY DEF Without, Orphaned, Left

LEMMA LeftTyped ==
    ASSUME NEW c \in Call, NEW d, Left(d, c)
    PROVE  /\ d \in Call
           /\ d.id = c.id /\ d.user = c.user /\ d.intent = c.intent /\ d.key = c.key
           /\ d.base = c.base /\ d.seen = c.seen /\ d.what = c.what
           /\ d.stage = c.stage /\ d.result = c.result /\ d.effect = c.effect
           /\ c.orphan => d.orphan
BY ZenonT(60) DEF Left, Call

\* What a kind of page says of itself.
LEMMA KindFacts ==
    ASSUME kind \in Kinds
    PROVE  /\ kind.key \in {"success", "choice", "text", "none"}
           /\ kind.key = "choice" <=> kind = Upload
           /\ kind.key = "success" => kind.then = "stay"
           /\ Keyed => ~Versioned /\ kind.drafts = "none"
           /\ kind = IssueKey \/ kind = DeleteResource => ~Keyed
           /\ kind = Upload => kind.then = "stay"
<1> USE DEF Keyed, Versioned, RequestExport, RetryJob, Upload, CreateBase, IssueKey, DeleteResource,
       ChangeMember, ChangeRule
<1>1. CASE kind \in {RequestExport, RetryJob}
    BY <1>1
<1>2. CASE kind = Upload
    BY <1>2
<1>3. CASE kind = CreateBase
    BY <1>3
<1>4. CASE kind \in {IssueKey, DeleteResource}
    BY <1>4
<1>5. CASE kind \in {ChangeMember, ChangeRule}
    BY <1>5
<1>6. QED
    BY <1>1, <1>2, <1>3, <1>4, <1>5 DEF Kinds

LEMMA IntentsInitTyped == IntentsInit => IntentsTypeOK
<1> SUFFICES ASSUME IntentsInit PROVE IntentsTypeOK
    OBVIOUS
<1>1. viewer \in Viewers
    BY IntentsAssumption DEF IntentsInit
<1>2. IsFiniteSet(effects)
    BY FS_EmptySet DEF IntentsInit
<1>3. QED
    BY <1>1, <1>2 DEF IntentsInit, IntentsTypeOK, Fresh, Page, Steps, Call, Effect, Count

\* The page when an answer reaches it, and when it reaches it for another request.
LEMMA Answered ==
    ASSUME IntentsTypeOK, NEW c \in calls, Arrive(c)
    PROVE  /\ c \in Call /\ c.stage = "served" /\ calls' = calls \ {c}
           /\ page' \in Page /\ count' \in Count
           /\ page.call = c.id =>
                /\ page'.call = 0
                /\ page'.key = IF Renews(c) THEN 0 ELSE page.key
                /\ page'.intent = IF c.result = "ok" /\ kind.key = "success" THEN count.intents + 1 ELSE page.intent
                /\ page'.step = "done" <=> c.result = "ok" /\ kind = Upload /\ c.what = "complete"
                /\ page'.base = IF c.result = "ok" /\ Versioned THEN c.base + 1 ELSE page.base
                /\ page'.seen = IF c.result = "ok" /\ Versioned THEN {c.base + 1} ELSE page.seen
                /\ page'.shown = IF c.result = "ok" /\ kind.then = "show" /\ Here(c) THEN c.effect ELSE page.shown
                /\ count'.intents = IF c.result = "ok" /\ kind.key = "success" THEN count.intents + 1 ELSE count.intents
           /\ page.call # c.id =>
                /\ page' = [page EXCEPT !.shown = page'.shown]
                /\ page'.shown = IF c.result = "ok" /\ kind.then = "show" /\ Here(c) /\ ~c.aborted THEN c.effect ELSE page.shown
                /\ count' = count
           /\ count'.submits = count.submits /\ count'.keys = count.keys
<1> DEFINE ok == c.result = "ok"
           renewed == ok /\ kind.key = "success"
           key == IF Renews(c) THEN 0 ELSE page.key
           intent == IF renewed THEN count.intents + 1 ELSE page.intent
           step == IF ~ok \/ kind # Upload THEN "start" ELSE IF c.what = "complete" THEN "done"
                   ELSE IF Did(c.key) = {} THEN "put" ELSE "complete"
           listed == IF ok /\ kind.drafts = "edit" THEN c.base + 1 ELSE page.listed
           base == IF ok /\ Versioned THEN c.base + 1 ELSE page.base
           seen == IF ok /\ Versioned THEN {c.base + 1} ELSE page.seen
           edited == page.edited /\ ~ok
           shows == ok /\ kind.then = "show" /\ Here(c)
           showing == IF shows THEN c.effect ELSE page.shown
           aside == IF shows /\ ~c.aborted THEN c.effect ELSE page.shown
           intents == IF renewed THEN count.intents + 1 ELSE count.intents
<1>1. c \in Call /\ page \in Page /\ count \in Count
    BY DEF IntentsTypeOK
<1>2. /\ key \in Nat /\ intent \in Nat /\ listed \in Nat /\ base \in Nat /\ seen \in SUBSET Nat
      /\ edited \in BOOLEAN /\ showing \in Nat /\ aside \in Nat /\ intents \in Nat
    BY <1>1 DEF Page, Call, Count
<1>3. step \in Steps /\ (step = "done" <=> ok /\ kind = Upload /\ c.what = "complete")
    BY DEF Steps
<1>4. CASE page.call = c.id
    <2>1. page' = [page EXCEPT !.call = 0, !.key = key, !.intent = intent, !.step = step, !.listed = listed,
                               !.base = base, !.seen = seen, !.edited = edited, !.shown = showing]
        BY <1>1, <1>4 DEF Arrive, Page
    <2>2. count' = [count EXCEPT !.intents = intents]
        BY <1>1, <1>4 DEF Arrive, Count
    <2> HIDE DEF key, intent, step, listed, base, seen, edited, showing, intents
    <2>3. /\ page' \in Page /\ page'.call = 0 /\ page'.key = key /\ page'.intent = intent /\ page'.step = step
          /\ page'.base = base /\ page'.seen = seen /\ page'.shown = showing
        BY <1>1, <1>2, <1>3, <2>1 DEF Page
    <2>4. count' \in Count /\ count'.intents = intents /\ count'.submits = count.submits /\ count'.keys = count.keys
        BY <1>1, <1>2, <2>2 DEF Count
    <2>5. c.stage = "served" /\ calls' = calls \ {c}
        BY DEF Arrive
    <2>6. QED
        BY <1>1, <1>3, <1>4, <2>3, <2>4, <2>5 DEF key, intent, base, seen, showing, intents
<1>5. CASE page.call # c.id
    <2>1. page' = [page EXCEPT !.shown = aside] /\ count' = count
        BY <1>1, <1>5 DEF Arrive, Page
    <2> HIDE DEF aside
    <2>2. page' \in Page /\ page'.shown = aside
        BY <1>1, <1>2, <2>1 DEF Page
    <2>3. c.stage = "served" /\ calls' = calls \ {c}
        BY DEF Arrive
    <2>4. QED
        BY <1>1, <1>5, <2>1, <2>2, <2>3 DEF aside
<1>6. QED
    BY <1>4, <1>5

\* A submission: the key it carries, and the page and the request it leaves.
LEMMA Submitted ==
    ASSUME IntentsTypeOK, Submit
    PROVE  \E key \in Nat, c \in Call :
           /\ key = IF Keyed /\ page.key = 0 THEN count.keys + 1 ELSE page.key
           /\ c.id = count.submits + 1 /\ c.user = viewer /\ c.intent = page.intent /\ c.key = key
           /\ c.base = page.base /\ c.seen = page.seen /\ c.stage = "sent" /\ c.result = "none" /\ ~c.orphan
           /\ c.what = page.step
           /\ calls' = calls \cup {c}
           /\ page' = [page EXCEPT !.call = count.submits + 1, !.key = key, !.shown = 0] /\ page' \in Page
           /\ count' \in Count /\ count'.submits = count.submits + 1 /\ count'.intents = count.intents
           /\ count'.keys = IF Keyed /\ page.key = 0 THEN count.keys + 1 ELSE count.keys
<1> DEFINE id == count.submits + 1
           key == IF Keyed /\ page.key = 0 THEN count.keys + 1 ELSE page.key
           keys == IF Keyed /\ page.key = 0 THEN count.keys + 1 ELSE count.keys
           c == [id |-> id, user |-> viewer, intent |-> page.intent, key |-> key,
                 base |-> Named, seen |-> page.seen, what |-> page.step,
                 stage |-> "sent", result |-> "none", effect |-> 0, orphan |-> FALSE, aborted |-> FALSE]
<1>1. page \in Page /\ count \in Count /\ viewer \in Viewers
    BY DEF IntentsTypeOK
<1>2. key \in Nat /\ keys \in Nat /\ id \in Nat \ {0} /\ Named = page.base
    BY <1>1 DEF Page, Count, Named
<1>3. /\ page' = [page EXCEPT !.call = id, !.key = key, !.shown = 0]
      /\ count' = [count EXCEPT !.submits = id, !.keys = keys]
      /\ calls' = calls \cup {c}
    BY DEF Submit
<1> HIDE DEF id, key, keys
<1>4. c \in Call
    BY <1>1, <1>2 DEF Page, Call
<1>5. page' \in Page
    BY <1>1, <1>2, <1>3 DEF Page
<1>6. count' \in Count /\ count'.submits = id /\ count'.keys = keys /\ count'.intents = count.intents
    BY <1>1, <1>2, <1>3 DEF Count
<1>7. QED
    BY <1>2, <1>3, <1>4, <1>5, <1>6 DEF id, key, keys

\* What is served: the request waits to be answered, or is forgotten, and the server did
\* nothing, or what a key it did not know asks for.
LEMMA Served ==
    ASSUME IntentsTypeOK, NEW c \in calls, Serve(c)
    PROVE  /\ c \in Call /\ c.stage = "sent"
           /\ UNCHANGED <<kind, viewer, page, dead, poll, count>>
           /\ \E d \in Call :
                /\ d.id = c.id /\ d.user = c.user /\ d.intent = c.intent /\ d.key = c.key
                /\ d.base = c.base /\ d.seen = c.seen /\ d.orphan = c.orphan /\ d.stage = "served"
                /\ calls' \subseteq (calls \ {c}) \cup {d} /\ calls \ {c} \subseteq calls'
                /\ d.result = "expired" => c.key \in dead
                /\ d.result = "ok" /\ kind # Upload =>
                    \E e \in effects' : e.id = d.effect /\ (SameDecision(e, c) \/ (e \in effects /\ c.key > 0 /\ e.key = c.key))
           /\ \/ effects' = effects /\ ver' = ver
              \/ \E e \in Effect :
                    /\ effects' = effects \cup {e} /\ SameDecision(e, c) /\ e.key = c.key
                    /\ Did(c.key) = {} /\ c.key \notin dead
                    /\ Versioned => c.base = ver
           /\ effects' \subseteq Effect /\ IsFiniteSet(effects') /\ ver' \in Nat
<1>1. c \in Call /\ c.stage = "sent" /\ UNCHANGED <<kind, viewer, page, dead, poll, count>>
    BY DEF Serve, IntentsTypeOK
<1>2. Cardinality(effects) \in Nat
    BY FS_CardinalityType DEF IntentsTypeOK
<1> DEFINE new == [id |-> Cardinality(effects) + 1, user |-> c.user, intent |-> c.intent, key |-> c.key]
           known == CHOOSE e \in Replayed(c.key) : TRUE
           Answers(d) ==
                /\ d.id = c.id /\ d.user = c.user /\ d.intent = c.intent /\ d.key = c.key
                /\ d.base = c.base /\ d.seen = c.seen /\ d.orphan = c.orphan /\ d.stage = "served"
                /\ calls' \subseteq (calls \ {c}) \cup {d} /\ calls \ {c} \subseteq calls'
                /\ d.result = "expired" => c.key \in dead
                /\ d.result = "ok" /\ kind # Upload =>
                    \E e \in effects' : e.id = d.effect /\ (SameDecision(e, c) \/ (e \in effects /\ c.key > 0 /\ e.key = c.key))
           Names(e, effect) == e.id = effect /\ (SameDecision(e, c) \/ (e \in effects /\ c.key > 0 /\ e.key = c.key))
<1>3. new \in Effect /\ SameDecision(new, c) /\ new.key = c.key
    BY <1>1, <1>2 DEF Effect, Call, SameDecision
<1>4. IsFiniteSet(effects \cup {new})
    BY FS_AddElement DEF IntentsTypeOK
<1>5. ASSUME NEW result \in {"ok", "refused", "expired"}, NEW effect \in Nat, Reply(c, result, effect),
             result = "expired" => c.key \in dead,
             result = "ok" /\ kind # Upload => \E e \in effects' : Names(e, effect)
      PROVE  \E d \in Call : Answers(d)
    <2> DEFINE d == [c EXCEPT !.stage = "served", !.result = result, !.effect = effect]
    <2>1. /\ d \in Call /\ d.id = c.id /\ d.user = c.user /\ d.intent = c.intent /\ d.key = c.key
          /\ d.base = c.base /\ d.seen = c.seen /\ d.orphan = c.orphan /\ d.stage = "served"
          /\ d.result = result /\ d.effect = effect
        BY <1>1 DEF Call
    <2>2. calls' \subseteq (calls \ {c}) \cup {d} /\ calls \ {c} \subseteq calls'
        BY <1>5 DEF Reply
    <2> HIDE DEF d
    <2>3. QED
        BY <1>5, <2>1, <2>2
<1>6. CASE UNCHANGED <<effects, ver>>
    <2>1. effects' \subseteq Effect /\ IsFiniteSet(effects') /\ ver' \in Nat
        BY <1>6 DEF IntentsTypeOK
    <2>2. \/ Reply(c, "refused", 0) \/ (Reply(c, "expired", 0) /\ c.key \in dead)
          \/ (Reply(c, "ok", 0) /\ kind = Upload)
          \/ (Reply(c, "ok", known.id) /\ Replayed(c.key) # {})
          \/ effects' = effects \cup {new} /\ Reply(c, "ok", new.id)
        BY DEF Serve
    <2>3. Replayed(c.key) # {} => known \in effects /\ known.id \in Nat /\ Names(known, known.id)
        BY DEF Replayed, Did, IntentsTypeOK, Effect
    <2>4. effects' = effects \cup {new} => new \in effects' /\ new.id \in Nat /\ Names(new, new.id)
        BY <1>2, <1>3
    <2> HIDE DEF known, new, Names, Answers
    <2>5. \E d \in Call : Answers(d)
        <3>1. CASE Reply(c, "refused", 0)
            BY <1>5, <3>1
        <3>2. CASE Reply(c, "expired", 0) /\ c.key \in dead
            BY <1>5, <3>2
        <3>3. CASE Reply(c, "ok", 0) /\ kind = Upload
            BY <1>5, <3>3
        <3>4. CASE Reply(c, "ok", known.id) /\ Replayed(c.key) # {}
            BY <1>5, <1>6, <2>3, <3>4
        <3>5. CASE effects' = effects \cup {new} /\ Reply(c, "ok", new.id)
            BY <1>5, <2>4, <3>5
        <3>6. QED
            BY <2>2, <3>1, <3>2, <3>3, <3>4, <3>5
    <2>6. QED
        BY <1>1, <1>6, <2>1, <2>5 DEF Answers
<1>7. CASE ~ UNCHANGED <<effects, ver>>
    <2>1. /\ Did(c.key) = {} /\ c.key \notin dead /\ (Versioned => c.base = ver)
          /\ effects' = effects \cup {new} /\ Reply(c, "ok", new.id)
          /\ ver' = IF Versioned THEN ver + 1 ELSE ver
        BY <1>7 DEF Serve, Replayed
    <2>2. effects' \subseteq Effect /\ IsFiniteSet(effects') /\ ver' \in Nat /\ new \in effects' /\ new.id \in Nat
        BY <1>2, <1>3, <1>4, <2>1 DEF IntentsTypeOK
    <2>3. Names(new, new.id)
        BY <1>3
    <2> HIDE DEF new, Names, Answers
    <2>4. \E d \in Call : Answers(d)
        BY <1>5, <2>1, <2>2, <2>3
    <2>5. QED
        BY <1>1, <1>3, <2>1, <2>2, <2>4 DEF Answers
<1>8. QED
    BY <1>6, <1>7

LEMMA IntentsStepTyped == IntentsTypeOK /\ [IntentsNext]_intentVars => IntentsTypeOK'
<1> SUFFICES ASSUME IntentsTypeOK, [IntentsNext]_intentVars PROVE IntentsTypeOK'
    OBVIOUS
<1>a. \A some \in SUBSET calls : Without(some) \subseteq Call
    BY WithoutLeaves, LeftTyped DEF IntentsTypeOK
<1>b. Orphaned \subseteq Call
    BY OrphanedLeaves, LeftTyped DEF IntentsTypeOK
<1>1. CASE \E u \in Viewers : Remount(u)
    BY <1>1, <1>b DEF Remount, IntentsTypeOK, Fresh, Page, Steps, Count
<1>2. CASE Relist
    BY <1>2, <1>b DEF Relist, IntentsTypeOK, Fresh, Page, Steps
<1>3. CASE Decide \/ Edit \/ Discard \/ Put \/ Seen \/ Hide
    <2>1. page \in Page /\ count \in Count /\ poll \in Nat
        BY DEF IntentsTypeOK
    <2>2. CASE Decide \/ Edit
        <3>1. CASE Decide
            <4>1. count.intents + 1 \in Nat
                BY <2>1 DEF Count
            <4>2. [page EXCEPT !.intent = count.intents + 1, !.key = 0, !.step = "start"] \in Page
                BY <2>1, <4>1 DEF Page, Steps
            <4>3. count' \in Count
                BY <2>1, <3>1 DEF Decide, Count
            <4>4. QED
                BY <3>1, <4>2, <4>3 DEF Decide, IntentsTypeOK
        <3>2. CASE Edit
            BY <2>1, <3>2 DEF Edit, IntentsTypeOK, Page
        <3>3. QED
            BY <2>2, <3>1, <3>2
    <2>3. CASE Discard \/ Put \/ Hide
        <3>1. CASE Discard
            BY <2>1, <3>1 DEF Discard, IntentsTypeOK, Page
        <3>2. CASE Put
            <4>1. [page EXCEPT !.step = "complete"] \in Page /\ [page EXCEPT !.step = "start"] \in Page
                BY <2>1 DEF Page, Steps
            <4>2. QED
                BY <3>2, <4>1 DEF Put, IntentsTypeOK
        <3>3. CASE Hide
            BY <2>1, <3>3 DEF Hide, IntentsTypeOK, Page
        <3>4. QED
            BY <2>3, <3>1, <3>2, <3>3
    <2>4. CASE Seen
        BY <1>3, <2>1, <2>4 DEF Seen, IntentsTypeOK, Page
    <2>5. QED
        BY <1>3, <2>2, <2>3, <2>4
<1>4. CASE Submit
    BY <1>4, Submitted DEF Submit, IntentsTypeOK
<1>5. CASE \E c \in calls : Lose(c)
    <2>1. PICK c \in calls : Lose(c)
        BY <1>5
    <2>2. Without({c}) \subseteq Call
        BY <1>a
    <2>3. [page EXCEPT !.call = 0, !.key = page.key, !.step = "start"] \in Page
        BY DEF IntentsTypeOK, Page, Steps
    <2>4. QED
        BY <2>1, <2>2, <2>3 DEF Lose, KeyAfterLoss, IntentsTypeOK
<1>6. CASE \E c \in calls : Serve(c)
    BY <1>6, Served DEF IntentsTypeOK
<1>7. CASE \E c \in calls : Arrive(c)
    <2>1. PICK c \in calls : Arrive(c)
        BY <1>7
    <2>2. QED
        BY <2>1, Answered DEF Arrive, IntentsTypeOK
<1>8. CASE Expire
    BY <1>8 DEF Expire, IntentsTypeOK, Count
<1>9. CASE ChangeElsewhere \/ Look
    BY <1>9 DEF ChangeElsewhere, Shift, Look, IntentsTypeOK, Count
<1>10. CASE UNCHANGED intentVars
    BY <1>10 DEF intentVars, IntentsTypeOK
<1>11. QED
    BY <1>1, <1>2, <1>3, <1>4, <1>5, <1>6, <1>7, <1>8, <1>9, <1>10 DEF IntentsNext

-----------------------------------------------------------------------------
(* Intents: what a decision, its keys and its answers have to do with each  *)
(* other.                                                                   *)

LEMMA IntentsInitInv == IntentsInit => IntentsInv
<1> SUFFICES ASSUME IntentsInit PROVE IntentsInv
    OBVIOUS
<1>1. IntentsTypeOK
    BY IntentsInitTyped
<1>2. page.call = 0 /\ page.key = 0 /\ page.intent = 1 /\ page.step = "start" /\ page.shown = 0
      /\ page.base = 1 /\ page.seen = {1} /\ calls = {} /\ effects = {} /\ dead = {}
      /\ count.submits = 0 /\ count.intents = 1 /\ count.keys = 0
    BY DEF IntentsInit, Fresh
<1>3. QED
    BY <1>1, <1>2 DEF IntentsInv, Numbered, WaitedFor, KeyIsOfDecision, DecisionHasOneKey, DeadKeys, Shows, ShowsOwn,
       DraftsWereSeen, Carriers

\* A step that submits nothing brings no decision and no key that was not there.
From(x, y) == x.key = y.key /\ SameDecision(x, y)

LEMMA CarriersStem ==
    ASSUME IntentsTypeOK, [IntentsNext]_intentVars, ~Submit
    PROVE  \A x \in Carriers' : \E y \in Carriers : From(x, y)
<1>a. ASSUME NEW x \in Carriers PROVE From(x, x)
    BY DEF From, SameDecision
<1>b. ASSUME NEW c \in calls, NEW d, Left(d, c) PROVE From(d, c)
    BY <1>b, LeftTyped DEF From, SameDecision, IntentsTypeOK
<1>1. CASE \E u \in Viewers : Remount(u)
    BY <1>1, <1>a, <1>b, OrphanedLeaves DEF Remount, Carriers
<1>2. CASE Relist
    BY <1>2, <1>a, <1>b, OrphanedLeaves DEF Relist, Carriers
<1>3. CASE Decide \/ Edit \/ Discard \/ Put \/ Seen \/ Hide \/ Expire \/ ChangeElsewhere \/ Look
    BY <1>3, <1>a DEF Decide, Edit, Discard, Put, Seen, Hide, Expire, ChangeElsewhere, Look, Carriers
<1>4. CASE \E c \in calls : Lose(c)
    <2>1. PICK c \in calls : Lose(c)
        BY <1>4
    <2>2. calls' = Without({c}) /\ effects' = effects
        BY <2>1 DEF Lose
    <2>3. QED
        BY <1>a, <1>b, <2>2, WithoutLeaves DEF Carriers
<1>5. CASE \E c \in calls : Serve(c)
    <2>1. PICK c \in calls : Serve(c)
        BY <1>5
    <2>2. QED
        BY <1>a, <2>1, Served DEF Carriers, From, SameDecision
<1>6. CASE \E c \in calls : Arrive(c)
    BY <1>6, <1>a DEF Arrive, Carriers
<1>7. CASE UNCHANGED intentVars
    BY <1>7, <1>a DEF intentVars, Carriers
<1>8. QED
    BY <1>1, <1>2, <1>3, <1>4, <1>5, <1>6, <1>7 DEF IntentsNext

\* What a step that submits nothing makes of the page's decision and key: it keeps both, turns
\* to a decision that is new, or drops a key that is dead, or whose decision is done.
LEMMA PageMoves ==
    ASSUME IntentsInv, [IntentsNext]_intentVars, ~Submit
    PROVE  /\ kind' = kind /\ dead \subseteq dead'
           /\ \/ /\ page'.key = page.key /\ page'.intent = page.intent /\ viewer' = viewer
                 /\ page.step = "done" => page'.step = "done"
              \/ page'.key = 0 /\ page'.intent = count.intents + 1
              \/ /\ page'.key = 0 /\ page'.intent = page.intent /\ viewer' = viewer
                 /\ page.key \in dead \/ page'.step = "done" \/ ~Keyed
           /\ page'.intent <= count'.intents /\ count.intents <= count'.intents
           /\ count'.keys = count.keys /\ count'.submits = count.submits
           /\ page'.call \in {0, page.call}
           /\ page'.step = "done" => page'.call = 0
<1> USE DEF IntentsInv
<1>a. page \in Page /\ count \in Count /\ calls \subseteq Call
    BY DEF IntentsTypeOK
<1>b. page.intent <= count.intents /\ page.intent \in Nat /\ count.intents \in Nat /\ (page.step = "done" => page.call = 0)
    BY <1>a DEF Numbered, DeadKeys, Page, Count
<1>1. CASE \E u \in Viewers : Remount(u)
    <2>1. page' = Fresh(ver, count.intents + 1) /\ count' = [count EXCEPT !.intents = @ + 1] /\ UNCHANGED <<kind, dead>>
        BY <1>1 DEF Remount
    <2>2. page'.key = 0 /\ page'.intent = count.intents + 1 /\ page'.call = 0
        BY <2>1 DEF Fresh
    <2>3. count'.intents = count.intents + 1 /\ count'.keys = count.keys /\ count'.submits = count.submits
        BY <1>a, <2>1 DEF Count
    <2>4. QED
        BY <1>b, <2>1, <2>2, <2>3
<1>2. CASE Relist
    <2>1. page' = Fresh(page.listed, page.intent) /\ UNCHANGED <<kind, dead, count, viewer>> /\ kind.drafts = "once"
        BY <1>2 DEF Relist
    <2>2. page'.key = 0 /\ page'.intent = page.intent /\ page'.call = 0 /\ page'.step = "start"
        BY <2>1 DEF Fresh
    <2>3. ~Keyed
        BY <2>1, KindFacts DEF IntentsTypeOK
    <2>4. QED
        BY <1>b, <2>1, <2>2, <2>3
<1>3. CASE Decide
    <2>1. /\ page' = [page EXCEPT !.intent = count.intents + 1, !.key = 0, !.step = "start"]
          /\ count' = [count EXCEPT !.intents = @ + 1] /\ UNCHANGED <<kind, dead>>
        BY <1>3 DEF Decide
    <2>2. page'.key = 0 /\ page'.intent = count.intents + 1 /\ page'.call = page.call /\ page'.step = "start"
        BY <1>a, <2>1 DEF Page
    <2>3. count'.intents = count.intents + 1 /\ count'.keys = count.keys /\ count'.submits = count.submits
        BY <1>a, <2>1 DEF Count
    <2>4. QED
        BY <1>b, <2>1, <2>2, <2>3
<1>4. CASE Edit \/ Discard \/ Seen \/ Hide
    <2>1. UNCHANGED <<kind, viewer, dead, count>>
        BY <1>4 DEF Edit, Discard, Seen, Hide
    <2>2. page'.key = page.key /\ page'.intent = page.intent /\ page'.call = page.call /\ page'.step = page.step
        BY <1>a, <1>4 DEF Edit, Discard, Seen, Hide, Page
    <2>3. QED
        BY <1>b, <2>1, <2>2
<1>5. CASE Put
    <2>1. UNCHANGED <<kind, viewer, dead, count>> /\ page.step = "put"
        BY <1>5 DEF Put
    <2>2. page'.key = page.key /\ page'.intent = page.intent /\ page'.call = page.call /\ page'.step \in {"start", "complete"}
        BY <1>a, <1>5 DEF Put, Page
    <2>3. QED
        BY <1>b, <2>1, <2>2
<1>6. CASE \E c \in calls : Lose(c)
    <2>1. PICK c \in calls : Lose(c)
        BY <1>6
    <2>2. c.id # 0
        BY <1>a DEF Call
    <2>3. UNCHANGED <<kind, viewer, dead, count>>
        BY <2>1 DEF Lose
    <2>4. CASE page.call = c.id
        <3>1. page' = [page EXCEPT !.call = 0, !.key = page.key, !.step = "start"]
            BY <2>1, <2>4 DEF Lose, KeyAfterLoss
        <3>2. page'.key = page.key /\ page'.intent = page.intent /\ page'.call = 0
            BY <1>a, <3>1 DEF Page
        <3>3. QED
            BY <1>b, <2>2, <2>3, <2>4, <3>2
    <2>5. CASE page.call # c.id
        BY <1>b, <2>1, <2>3, <2>5 DEF Lose
    <2>6. QED
        BY <2>4, <2>5
<1>7. CASE \E c \in calls : Serve(c)
    BY <1>7, <1>b, Served
<1>8. CASE \E c \in calls : Arrive(c)
    <2>1. PICK c \in calls : Arrive(c)
        BY <1>8
    <2>2. UNCHANGED <<kind, viewer, dead>>
        BY <2>1 DEF Arrive
    <2>3. c \in Call /\ c.id # 0
        BY <1>a DEF Call
    <2>4. CASE page.call = c.id
        <3>1. /\ page'.call = 0
              /\ page'.key = IF Renews(c) THEN 0 ELSE page.key
              /\ page'.intent = IF c.result = "ok" /\ kind.key = "success" THEN count.intents + 1 ELSE page.intent
              /\ page'.step = "done" <=> c.result = "ok" /\ kind = Upload /\ c.what = "complete"
              /\ count'.intents = IF c.result = "ok" /\ kind.key = "success" THEN count.intents + 1 ELSE count.intents
              /\ count'.submits = count.submits /\ count'.keys = count.keys
            BY <2>1, <2>4, Answered
        <3>2. page.step # "done"
            BY <1>b, <2>3, <2>4
        <3>3. c.key = page.key /\ (c.result = "expired" => c.key \in dead)
            BY <2>4 DEF WaitedFor, DeadKeys
        <3>4. kind.key = "choice" <=> kind = Upload
            BY KindFacts DEF IntentsTypeOK
        <3>5. CASE c.result = "ok" /\ kind.key = "success"
            BY <1>b, <2>2, <3>1, <3>5 DEF Renews
        <3>6. CASE ~(c.result = "ok" /\ kind.key = "success") /\ Renews(c)
            <4>1. page.key \in dead \/ page'.step = "done"
                BY <3>1, <3>3, <3>4, <3>6 DEF Renews
            <4>2. QED
                BY <1>b, <2>2, <3>1, <3>6, <4>1
        <3>7. CASE ~Renews(c)
            BY <1>b, <2>2, <3>1, <3>2, <3>7 DEF Renews
        <3>8. QED
            BY <3>5, <3>6, <3>7
    <2>5. CASE page.call # c.id
        <3>1. page' = [page EXCEPT !.shown = page'.shown] /\ count' = count
            BY <2>1, <2>5, Answered
        <3>2. page'.key = page.key /\ page'.intent = page.intent /\ page'.call = page.call /\ page'.step = page.step
            BY <1>a, <3>1 DEF Page
        <3>3. QED
            BY <1>b, <2>2, <3>1, <3>2
    <2>6. QED
        BY <2>4, <2>5
<1>9. CASE Expire \/ Look \/ UNCHANGED intentVars
    BY <1>9, <1>b DEF Expire, Look, intentVars
<1>10. CASE ChangeElsewhere
    <2>1. count' = [count EXCEPT !.shifts = @ + 1] /\ UNCHANGED <<kind, viewer, page, dead>>
        BY <1>10 DEF ChangeElsewhere, Shift
    <2>2. count'.intents = count.intents /\ count'.keys = count.keys /\ count'.submits = count.submits
        BY <1>a, <2>1 DEF Count
    <2>3. QED
        BY <1>b, <2>1, <2>2
<1>11. QED
    BY <1>1, <1>2, <1>3, <1>4, <1>5, <1>6, <1>7, <1>8, <1>9, <1>10 DEF IntentsNext

\* What becomes of a request that was under way.
SameCall(d, c) ==
    /\ d.id = c.id /\ d.user = c.user /\ d.intent = c.intent /\ d.key = c.key
    /\ d.base = c.base /\ d.seen = c.seen
    /\ c.orphan => d.orphan
    /\ d.result = "expired" => c.key \in dead

LEMMA CallsStem ==
    ASSUME IntentsInv, [IntentsNext]_intentVars, ~Submit
    PROVE  /\ \A d \in calls' : \E c \in calls : SameCall(d, c)
           /\ \A c \in calls', d \in calls' : c.id = d.id => c = d
<1> USE DEF IntentsInv
<1>a. \A c \in calls : SameCall(c, c)
    BY DEF SameCall, DeadKeys
<1>b. \A c \in calls : c \in Call /\ SameCall(c, c) /\ \A d \in calls : c.id = d.id => c = d
    BY <1>a DEF IntentsTypeOK, WaitedFor
<1>c. ASSUME NEW c \in calls, NEW d, Left(d, c) PROVE SameCall(d, c)
    BY <1>a, <1>b, <1>c, LeftTyped DEF SameCall
<1>d. ASSUME NEW some \in SUBSET calls, NEW c \in Without(some), NEW d \in Without(some), c.id = d.id PROVE c = d
    <2> DEFINE L(x) == [x EXCEPT !.orphan = TRUE, !.aborted = TRUE]
    <2>1. \A x \in calls : L(x).id = x.id
        BY <1>b DEF Call
    <2>2. \A y \in Without(some) : y \in calls \ some \/ \E x \in some : y = L(x)
        BY DEF Without
    <2> HIDE DEF L
    <2>3. QED
        BY <1>b, <1>d, <2>1, <2>2
<1>e. \A c \in Orphaned, d \in Orphaned : c.id = d.id => c = d
    <2>1. CASE kind.aborts
        BY <1>d, <2>1 DEF Orphaned
    <2>2. CASE ~kind.aborts
        <3> DEFINE L(x) == [x EXCEPT !.orphan = TRUE]
        <3>1. \A x \in calls : L(x).id = x.id
            BY <1>b DEF Call
        <3>2. \A y \in Orphaned : \E x \in calls : y = L(x)
            BY <2>2 DEF Orphaned
        <3> HIDE DEF L
        <3>3. QED
            BY <1>b, <3>1, <3>2
    <2>3. QED
        BY <2>1, <2>2
<1>1. CASE (\E u \in Viewers : Remount(u)) \/ Relist
    BY <1>1, <1>c, <1>e, OrphanedLeaves DEF Remount, Relist
<1>3. CASE \/ Decide \/ Edit \/ Discard \/ Put \/ Seen \/ Hide \/ Expire \/ ChangeElsewhere \/ Look \/ UNCHANGED intentVars
    BY <1>3, <1>b DEF Decide, Edit, Discard, Put, Seen, Hide, Expire, ChangeElsewhere, Look, intentVars
<1>4. CASE \E c \in calls : Lose(c)
    <2>1. PICK c \in calls : Lose(c)
        BY <1>4
    <2>2. calls' = Without({c})
        BY <2>1 DEF Lose
    <2>3. QED
        BY <1>b, <1>c, <1>d, <2>2, WithoutLeaves, SMTT(30)
<1>5. CASE \E c \in calls : Serve(c)
    <2>1. PICK c \in calls : Serve(c)
        BY <1>5
    <2>2. PICK d \in Call :
            /\ d.id = c.id /\ d.user = c.user /\ d.intent = c.intent /\ d.key = c.key
            /\ d.base = c.base /\ d.seen = c.seen /\ d.orphan = c.orphan
            /\ calls' \subseteq (calls \ {c}) \cup {d}
            /\ d.result = "expired" => c.key \in dead
        BY <2>1, Served
    <2>3. SameCall(d, c)
        BY <2>2 DEF SameCall
    <2>4. QED
        BY <1>b, <2>2, <2>3
<1>6. CASE \E c \in calls : Arrive(c)
    BY <1>6, <1>b DEF Arrive
<1>7. QED
    BY <1>1, <1>3, <1>4, <1>5, <1>6 DEF IntentsNext

\* A step that leaves a page waiting for nothing orphans what it asked for, or takes its answer.
LEMMA NobodyWaits ==
    ASSUME IntentsInv, [IntentsNext]_intentVars, ~Submit, page'.call # page.call
    PROVE  \A d \in calls' : d.orphan
<1> USE DEF IntentsInv
<1>a. \A c \in calls : c \in Call
    BY DEF IntentsTypeOK
<1>b. page \in Page
    BY DEF IntentsTypeOK
<1>1. CASE (\E u \in Viewers : Remount(u)) \/ Relist
    <2>1. calls' = Orphaned
        BY <1>1 DEF Remount, Relist
    <2>2. QED
        BY <1>a, <2>1 DEF Orphaned, Without, Call
<1>2. CASE Decide \/ Edit \/ Discard \/ Put \/ Seen \/ Hide
    BY <1>2, <1>b DEF Decide, Edit, Discard, Put, Seen, Hide, Page
<1>3. CASE Expire \/ ChangeElsewhere \/ Look \/ UNCHANGED intentVars
    BY <1>3 DEF Expire, ChangeElsewhere, Look, intentVars
<1>4. CASE \E c \in calls : Lose(c)
    <2>1. PICK c \in calls : Lose(c)
        BY <1>4
    <2>2. page.call = c.id /\ calls' = Without({c})
        BY <2>1 DEF Lose
    <2>3. ASSUME NEW d \in calls' PROVE d.orphan
        <3>1. CASE d \in calls \ {c}
            BY <2>2, <3>1 DEF WaitedFor
        <3>2. CASE d = [c EXCEPT !.orphan = TRUE, !.aborted = TRUE]
            BY <1>a, <3>2 DEF Call
        <3>3. QED
            BY <2>2, <2>3, <3>1, <3>2 DEF Without
    <2>4. QED
        BY <2>3
<1>5. CASE \E c \in calls : Serve(c)
    BY <1>5 DEF Serve
<1>6. CASE \E c \in calls : Arrive(c)
    <2>1. PICK c \in calls : Arrive(c)
        BY <1>6
    <2>2. CASE page.call = c.id
        <3>1. calls' = calls \ {c}
            BY <2>1 DEF Arrive
        <3>2. QED
            BY <2>2, <3>1 DEF WaitedFor
    <2>3. CASE page.call # c.id
        <3>1. page' = [page EXCEPT !.shown = page'.shown]
            BY <2>1, <2>3, Answered
        <3>2. QED
            BY <1>b, <3>1 DEF Page
    <2>4. QED
        BY <2>2, <2>3
<1>7. QED
    BY <1>1, <1>2, <1>3, <1>4, <1>5, <1>6 DEF IntentsNext

\* A page that goes on waiting for its request keeps its decision and its key.
LEMMA WaitsOn ==
    ASSUME IntentsInv, [IntentsNext]_intentVars, ~Submit, page'.call = page.call,
           NEW c \in calls, c.id = page.call, ~c.orphan, NEW d \in calls', SameCall(d, c)
    PROVE  page'.key = page.key /\ page'.intent = page.intent /\ viewer' = viewer /\ ~d.orphan
<1> USE DEF IntentsInv
<1>a. \A x \in calls : x \in Call /\ x.id # 0 /\ (x.id = c.id => x = c)
    BY DEF IntentsTypeOK, Call, WaitedFor
<1>b. page \in Page /\ Busy /\ d.id = c.id
    BY <1>a DEF IntentsTypeOK, Page, Busy, SameCall, Call
<1>1. CASE (\E u \in Viewers : Remount(u)) \/ Relist
    BY <1>1, <1>a DEF Remount, Relist, Fresh
<1>2. CASE Decide \/ Edit \/ Discard
    BY <1>2, <1>b DEF Decide, Edit, Discard
<1>3. CASE Put \/ Seen \/ Hide
    <2>1. UNCHANGED <<viewer, calls>>
        BY <1>3 DEF Put, Seen, Hide
    <2>2. page'.key = page.key /\ page'.intent = page.intent
        BY <1>3, <1>b DEF Put, Seen, Hide, Page
    <2>3. QED
        BY <1>a, <1>b, <2>1, <2>2
<1>4. CASE Expire \/ ChangeElsewhere \/ Look \/ UNCHANGED intentVars
    <2>1. UNCHANGED <<viewer, calls, page>>
        BY <1>4 DEF Expire, ChangeElsewhere, Look, intentVars
    <2>2. QED
        BY <1>a, <1>b, <2>1
<1>5. CASE \E x \in calls : Lose(x)
    <2>1. PICK x \in calls : Lose(x)
        BY <1>5
    <2>2. x # c
        <3>1. ASSUME x = c PROVE FALSE
            <4>1. page' = [page EXCEPT !.call = 0, !.key = page.key, !.step = "start"]
                BY <2>1, <3>1 DEF Lose, KeyAfterLoss
            <4>2. page'.call = 0
                BY <1>b, <4>1 DEF Page
            <4>3. QED
                BY <1>a, <4>2
        <3>2. QED
            BY <3>1
    <2>3. page' = page /\ viewer' = viewer /\ calls' = Without({x})
        BY <1>a, <2>1, <2>2 DEF Lose
    <2>4. d \in calls \ {x} \/ d = [x EXCEPT !.orphan = TRUE, !.aborted = TRUE]
        BY <2>3 DEF Without
    <2>5. [x EXCEPT !.orphan = TRUE, !.aborted = TRUE].id = x.id
        BY <1>a DEF Call
    <2>6. QED
        BY <1>a, <1>b, <2>2, <2>3, <2>4, <2>5
<1>6. CASE \E x \in calls : Serve(x)
    <2>1. PICK x \in calls : Serve(x)
        BY <1>6
    <2>2. UNCHANGED <<viewer, page>>
        BY <2>1, Served
    <2>3. PICK y \in Call : y.id = x.id /\ y.orphan = x.orphan /\ calls' \subseteq (calls \ {x}) \cup {y}
        BY <2>1, Served
    <2>4. QED
        BY <1>a, <1>b, <2>2, <2>3
<1>7. CASE \E x \in calls : Arrive(x)
    <2>1. PICK x \in calls : Arrive(x)
        BY <1>7
    <2>2. x # c /\ calls' = calls \ {x} /\ viewer' = viewer
        BY <1>a, <1>b, <2>1, Answered DEF Arrive
    <2>3. page' = [page EXCEPT !.shown = page'.shown]
        BY <1>a, <2>1, <2>2, Answered
    <2>4. QED
        BY <1>a, <1>b, <2>2, <2>3 DEF Page
<1>8. QED
    BY <1>1, <1>2, <1>3, <1>4, <1>5, <1>6, <1>7 DEF IntentsNext

LEMMA NumberedKept == IntentsInv /\ [IntentsNext]_intentVars => Numbered'
<1> SUFFICES ASSUME IntentsInv, [IntentsNext]_intentVars PROVE Numbered'
    OBVIOUS
<1> USE DEF IntentsInv
<1>a. IntentsTypeOK'
    BY IntentsStepTyped
<1>b. /\ page \in Page /\ count \in Count /\ calls \subseteq Call /\ effects \subseteq Effect
      /\ page' \in Page /\ count' \in Count /\ calls' \subseteq Call /\ effects' \subseteq Effect
    BY <1>a DEF IntentsTypeOK
<1>c. /\ \A x \in Carriers \cup Carriers' : x.key \in Nat /\ x.intent \in Nat
      /\ \A c \in calls \cup calls' : c.id \in Nat
    BY <1>b DEF Carriers, Call, Effect
<1>d. /\ page.call \in Nat /\ page.key \in Nat /\ page.intent \in Nat
      /\ page'.call \in Nat /\ page'.key \in Nat /\ page'.intent \in Nat
      /\ count.submits \in Nat /\ count.keys \in Nat /\ count.intents \in Nat
      /\ count'.submits \in Nat /\ count'.keys \in Nat /\ count'.intents \in Nat
    BY <1>b DEF Page, Count
<1>1. CASE Submit
    <2>1. PICK key \in Nat, c \in Call :
           /\ key = IF Keyed /\ page.key = 0 THEN count.keys + 1 ELSE page.key
           /\ c.id = count.submits + 1 /\ c.intent = page.intent /\ c.key = key
           /\ calls' = calls \cup {c}
           /\ page' = [page EXCEPT !.call = count.submits + 1, !.key = key, !.shown = 0]
           /\ count'.submits = count.submits + 1 /\ count'.intents = count.intents
           /\ count'.keys = IF Keyed /\ page.key = 0 THEN count.keys + 1 ELSE count.keys
        BY <1>1, Submitted
    <2>2. effects' = effects /\ dead' = dead
        BY <1>1 DEF Submit
    <2>3. page'.call = count.submits + 1 /\ page'.key = key /\ page'.intent = page.intent
        BY <1>b, <2>1 DEF Page
    <2>4. key <= count'.keys /\ count.keys <= count'.keys
        BY <1>d, <2>1 DEF Numbered
    <2>5. \A x \in Carriers' : x \in Carriers \/ x = c
        BY <2>1, <2>2 DEF Carriers
    <2>6. \A x \in Carriers' : x.key <= count'.keys /\ x.intent <= count'.intents
        BY <1>c, <1>d, <2>1, <2>4, <2>5 DEF Numbered
    <2>7. \A d \in calls' : d.id <= count'.submits
        BY <1>c, <1>d, <2>1 DEF Numbered
    <2>8. dead' \subseteq 1..count'.keys
        BY <1>d, <2>2, <2>4 DEF Numbered
    <2>9. page'.call <= count'.submits /\ page'.key <= count'.keys /\ page'.intent <= count'.intents
        BY <1>d, <2>1, <2>3, <2>4 DEF Numbered
    <2>10. QED
        BY <2>6, <2>7, <2>8, <2>9 DEF Numbered
<1>2. CASE ~Submit
    <2>1. /\ page'.key \in {0, page.key} /\ page'.call \in {0, page.call} /\ page'.intent <= count'.intents
          /\ count.intents <= count'.intents /\ count'.keys = count.keys /\ count'.submits = count.submits
        BY <1>2, PageMoves
    <2>2. \A x \in Carriers' : x.key <= count'.keys /\ x.intent <= count'.intents
        BY <1>2, <1>c, <1>d, <2>1, CarriersStem DEF Numbered, From, SameDecision
    <2>3. \A d \in calls' : d.id <= count'.submits
        BY <1>2, <2>1, CallsStem DEF Numbered, SameCall
    <2>4. dead' \subseteq 1..count'.keys
        <3>1. CASE Expire
            BY <2>1, <3>1 DEF Expire, Numbered
        <3>2. CASE ~Expire
            <4>1. dead' = dead
                BY <1>2, <3>2 DEF IntentsNext, Remount, Decide, Edit, Discard, Relist, Put, Lose, Serve, Arrive,
                    ChangeElsewhere, Look, Seen, Hide, intentVars
            <4>2. QED
                BY <2>1, <4>1 DEF Numbered
        <3>3. QED
            BY <3>1, <3>2
    <2>5. page'.call <= count'.submits /\ page'.key <= count'.keys
        BY <1>d, <2>1 DEF Numbered
    <2>6. QED
        BY <2>1, <2>2, <2>3, <2>4, <2>5 DEF Numbered
<1>3. QED
    BY <1>1, <1>2

LEMMA WaitedForKept == IntentsInv /\ [IntentsNext]_intentVars => WaitedFor'
<1> SUFFICES ASSUME IntentsInv, [IntentsNext]_intentVars PROVE WaitedFor'
    OBVIOUS
<1> USE DEF IntentsInv
<1>b. page \in Page /\ count \in Count /\ calls \subseteq Call
    BY DEF IntentsTypeOK
<1>c. \A c \in calls : c.id \in Nat \ {0} /\ c.id <= count.submits
    BY <1>b DEF Call, Numbered
<1>1. CASE Submit
    <2>1. PICK key \in Nat, c \in Call :
           /\ c.id = count.submits + 1 /\ c.intent = page.intent /\ c.key = key /\ c.user = viewer /\ ~c.orphan
           /\ calls' = calls \cup {c}
           /\ page' = [page EXCEPT !.call = count.submits + 1, !.key = key, !.shown = 0]
        BY <1>1, Submitted
    <2>2. page'.call = c.id /\ page'.key = key /\ page'.intent = page.intent /\ viewer' = viewer
        BY <1>1, <1>b, <2>1 DEF Page, Submit
    <2>3. page.call = 0
        BY <1>1, <1>b DEF Submit, MaySubmit, Busy, Page
    <2>4. count.submits \in Nat
        BY <1>b DEF Count
    <2>5. \A d \in calls : d.id # c.id /\ d.orphan
        BY <1>c, <2>1, <2>3, <2>4 DEF WaitedFor
    <2>6. QED
        BY <2>1, <2>2, <2>5 DEF WaitedFor
<1>2. CASE ~Submit
    <2>1. \A c \in calls', d \in calls' : c.id = d.id => c = d
        BY <1>2, CallsStem
    <2>2. ASSUME NEW d \in calls'
          PROVE  /\ d.id = page'.call => d.key = page'.key /\ d.intent = page'.intent /\ d.user = viewer' /\ ~d.orphan
                 /\ ~d.orphan => d.id = page'.call
        <3>1. PICK c \in calls : SameCall(d, c)
            BY <1>2, CallsStem
        <3>2. CASE page'.call # page.call
            <4>1. page'.call = 0 /\ d.orphan
                BY <1>2, <3>2, PageMoves, NobodyWaits
            <4>2. QED
                BY <1>c, <3>1, <4>1 DEF SameCall
        <3>3. CASE page'.call = page.call
            <4>1. ~d.orphan => d.id = page'.call
                BY <3>1, <3>3 DEF WaitedFor, SameCall
            <4>2. ASSUME d.id = page'.call
                  PROVE  d.key = page'.key /\ d.intent = page'.intent /\ d.user = viewer' /\ ~d.orphan
                <5>1. c.id = page.call /\ c.key = page.key /\ c.intent = page.intent /\ c.user = viewer /\ ~c.orphan
                    BY <3>1, <3>3, <4>2 DEF WaitedFor, SameCall
                <5>2. page'.key = page.key /\ page'.intent = page.intent /\ viewer' = viewer /\ ~d.orphan
                    BY <1>2, <3>1, <3>3, <5>1, WaitsOn
                <5>3. QED
                    BY <3>1, <5>1, <5>2 DEF SameCall
            <4>3. QED
                BY <4>1, <4>2
        <3>4. QED
            BY <3>2, <3>3
    <2>3. QED
        BY <2>1, <2>2 DEF WaitedFor
<1>3. QED
    BY <1>1, <1>2

LEMMA KeyIsOfDecisionKept == IntentsInv /\ [IntentsNext]_intentVars => KeyIsOfDecision'
<1> SUFFICES ASSUME IntentsInv, [IntentsNext]_intentVars PROVE KeyIsOfDecision'
    OBVIOUS
<1> USE DEF IntentsInv
<1>a. /\ page \in Page /\ count \in Count /\ calls \subseteq Call /\ effects \subseteq Effect
    BY DEF IntentsTypeOK
<1>b. \A x \in Carriers : x.key \in Nat /\ x.key <= count.keys
    BY <1>a DEF Carriers, Call, Effect, Numbered
<1>c. page.key \in Nat /\ count.keys \in Nat
    BY <1>a DEF Page, Count
<1>1. CASE Submit
    <2>1. PICK key \in Nat, c \in Call :
           /\ key = IF Keyed /\ page.key = 0 THEN count.keys + 1 ELSE page.key
           /\ c.intent = page.intent /\ c.key = key /\ c.user = viewer
           /\ calls' = calls \cup {c}
           /\ page' = [page EXCEPT !.call = count.submits + 1, !.key = key, !.shown = 0]
        BY <1>1, Submitted
    <2>2. effects' = effects /\ viewer' = viewer
        BY <1>1 DEF Submit
    <2>3. page'.key = key /\ page'.intent = page.intent
        BY <1>a, <2>1 DEF Page
    <2>4. \A x \in Carriers' : x \in Carriers \/ x = c
        BY <2>1, <2>2 DEF Carriers
    <2>5. \A x \in Carriers : x.key > 0 /\ x.key = key => x.intent = page.intent /\ x.user = viewer
        BY <1>b, <1>c, <2>1 DEF KeyIsOfDecision
    <2>6. \A x \in Carriers', y \in Carriers' : x.key > 0 /\ x.key = y.key => SameDecision(x, y)
        BY <2>1, <2>4, <2>5 DEF KeyIsOfDecision, SameDecision
    <2>7. \A x \in Carriers' : x.key > 0 /\ x.key = page'.key => x.intent = page'.intent /\ x.user = viewer'
        BY <2>1, <2>2, <2>3, <2>4, <2>5
    <2>8. QED
        BY <2>2, <2>6, <2>7 DEF KeyIsOfDecision
<1>2. CASE ~Submit
    <2>1. \A x \in Carriers', y \in Carriers' : x.key > 0 /\ x.key = y.key => SameDecision(x, y)
        BY <1>2, CarriersStem DEF KeyIsOfDecision, From, SameDecision
    <2>2. \A x \in Carriers' : x.key > 0 /\ x.key = page'.key => x.intent = page'.intent /\ x.user = viewer'
        <3>1. page'.key = 0 \/ (page'.key = page.key /\ page'.intent = page.intent /\ viewer' = viewer)
            BY <1>2, PageMoves
        <3>2. QED
            BY <1>2, <3>1, CarriersStem DEF KeyIsOfDecision, From, SameDecision
    <2>3. \A e \in effects', f \in effects' : e.key > 0 /\ e.key = f.key => e = f
        <3>1. CASE \E c \in calls : Serve(c)
            <4>1. PICK c \in calls : Serve(c)
                BY <3>1
            <4>2. \/ effects' = effects
                  \/ \E e \in Effect : effects' = effects \cup {e} /\ e.key = c.key /\ Did(c.key) = {}
                BY <4>1, Served
            <4>3. QED
                BY <4>2 DEF KeyIsOfDecision, Did
        <3>2. CASE ~ \E c \in calls : Serve(c)
            <4>1. effects' = effects
                BY <1>2, <3>2 DEF IntentsNext, Remount, Decide, Edit, Discard, Relist, Put, Lose, Arrive, Expire,
                    ChangeElsewhere, Look, Seen, Hide, intentVars
            <4>2. QED
                BY <4>1 DEF KeyIsOfDecision
        <3>3. QED
            BY <3>1, <3>2
    <2>4. QED
        BY <2>1, <2>2, <2>3 DEF KeyIsOfDecision
<1>3. QED
    BY <1>1, <1>2

LEMMA DecisionHasOneKeyKept == IntentsInv /\ [IntentsNext]_intentVars => DecisionHasOneKey'
<1> SUFFICES ASSUME IntentsInv, [IntentsNext]_intentVars, Keyed'
             PROVE  /\ \A x \in Carriers' : x.key > 0
                    /\ \A x \in Carriers', y \in Carriers' :
                        x.intent = y.intent /\ x.key \notin dead' /\ y.key \notin dead' => x.key = y.key
                    /\ \A x \in Carriers' : x.intent = page'.intent /\ x.key \notin dead' =>
                        x.key = page'.key \/ (page'.key = 0 /\ page'.step = "done")
    BY DEF DecisionHasOneKey
<1> USE DEF IntentsInv
<1>a. /\ page \in Page /\ count \in Count /\ calls \subseteq Call /\ effects \subseteq Effect
    BY DEF IntentsTypeOK
<1>b. \A x \in Carriers : x.intent \in Nat /\ x.intent <= count.intents /\ x.key \in Nat
    BY <1>a DEF Carriers, Call, Effect, Numbered
<1>c. page.key \in Nat /\ count.keys \in Nat /\ count.intents \in Nat
    BY <1>a DEF Page, Count
<1>1. CASE Submit
    <2>1. PICK key \in Nat, c \in Call :
           /\ key = IF Keyed /\ page.key = 0 THEN count.keys + 1 ELSE page.key
           /\ c.intent = page.intent /\ c.key = key
           /\ calls' = calls \cup {c}
           /\ page' = [page EXCEPT !.call = count.submits + 1, !.key = key, !.shown = 0]
        BY <1>1, Submitted
    <2>2. effects' = effects /\ dead' = dead /\ kind' = kind /\ page.step # "done"
        BY <1>1 DEF Submit, MaySubmit
    <2>3. page'.key = key /\ page'.intent = page.intent
        BY <1>a, <2>1 DEF Page
    <2>4. Keyed
        BY <2>2 DEF Keyed
    <2>5. key > 0
        BY <1>c, <2>1, <2>4
    <2>6. \A x \in Carriers' : x \in Carriers \/ x = c
        BY <2>1, <2>2 DEF Carriers
    <2>7. \A x \in Carriers : x.intent = page.intent /\ x.key \notin dead => x.key = key
        BY <1>b, <1>c, <2>1, <2>2, <2>4 DEF DecisionHasOneKey
    <2>8. \A x \in Carriers' : x.key > 0
        BY <2>1, <2>4, <2>5, <2>6 DEF DecisionHasOneKey
    <2>9. \A x \in Carriers', y \in Carriers' : x.intent = y.intent /\ x.key \notin dead' /\ y.key \notin dead' => x.key = y.key
        BY <2>1, <2>2, <2>4, <2>6, <2>7 DEF DecisionHasOneKey
    <2>10. \A x \in Carriers' : x.intent = page'.intent /\ x.key \notin dead' => x.key = page'.key
        BY <2>1, <2>2, <2>3, <2>6, <2>7
    <2>11. QED
        BY <2>8, <2>9, <2>10
<1>2. CASE ~Submit
    <2>1. dead \subseteq dead' /\ Keyed
        BY <1>2, PageMoves DEF Keyed
    <2>2. \A x \in Carriers' : x.key > 0
        BY <1>2, <2>1, CarriersStem DEF DecisionHasOneKey, From
    <2>3. \A x \in Carriers', y \in Carriers' : x.intent = y.intent /\ x.key \notin dead' /\ y.key \notin dead' => x.key = y.key
        BY <1>2, <2>1, CarriersStem DEF DecisionHasOneKey, From, SameDecision
    <2>4. ASSUME NEW x \in Carriers', x.intent = page'.intent, x.key \notin dead'
          PROVE  x.key = page'.key \/ (page'.key = 0 /\ page'.step = "done")
        <3>1. PICK y \in Carriers : From(x, y)
            BY <1>2, CarriersStem
        <3>2. y.key = x.key /\ y.intent = x.intent /\ y.key \notin dead /\ y.intent <= count.intents /\ y.intent \in Nat
            BY <1>b, <2>1, <2>4, <3>1 DEF From, SameDecision
        <3>3. \/ /\ page'.key = page.key /\ page'.intent = page.intent
                 /\ page.step = "done" => page'.step = "done"
              \/ page'.key = 0 /\ page'.intent = count.intents + 1
              \/ /\ page'.key = 0 /\ page'.intent = page.intent
                 /\ page.key \in dead \/ page'.step = "done" \/ ~Keyed
            BY <1>2, PageMoves
        <3>4. CASE page'.intent = page.intent
            <4>1. y.key = page.key \/ (page.key = 0 /\ page.step = "done")
                BY <2>1, <2>4, <3>2, <3>4 DEF DecisionHasOneKey
            <4>2. page.key = 0 => page'.key = 0
                BY <3>3
            <4>3. 0 \notin dead
                BY DEF Numbered
            <4>4. CASE page'.key = page.key /\ (page.step = "done" => page'.step = "done")
                BY <2>4, <3>2, <4>1, <4>4
            <4>5. CASE page'.key = 0 /\ (page.key \in dead \/ page'.step = "done")
                BY <2>4, <3>2, <4>1, <4>3, <4>5
            <4>6. QED
                BY <1>c, <2>1, <2>4, <3>2, <3>3, <3>4, <4>4, <4>5
        <3>5. CASE page'.intent = count.intents + 1
            BY <1>c, <2>4, <3>2, <3>5
        <3>6. QED
            BY <3>3, <3>4, <3>5
    <2>5. QED
        BY <2>2, <2>3, <2>4
<1>3. QED
    BY <1>1, <1>2

LEMMA DeadKeysKept == IntentsInv /\ [IntentsNext]_intentVars => DeadKeys'
<1> SUFFICES ASSUME IntentsInv, [IntentsNext]_intentVars PROVE DeadKeys'
    OBVIOUS
<1> USE DEF IntentsInv
<1>1. CASE Submit
    <2>1. PICK c \in Call :
           /\ c.result = "none" /\ calls' = calls \cup {c} /\ page.step # "done"
           /\ \E n \in Nat, k \in Nat : page' = [page EXCEPT !.call = n, !.key = k, !.shown = 0]
        <3>1. count.submits + 1 \in Nat
            BY DEF IntentsTypeOK, Count
        <3>2. page.step # "done"
            BY <1>1 DEF Submit, MaySubmit
        <3>3. QED
            BY <1>1, <3>1, <3>2, Submitted
    <2>2. page'.step = page.step
        BY <2>1 DEF IntentsTypeOK, Page
    <2>3. QED
        BY <1>1, <2>1, <2>2 DEF Submit, DeadKeys
<1>2. CASE ~Submit
    <2>1. dead \subseteq dead' /\ (page'.step = "done" => page'.call = 0)
        BY <1>2, PageMoves
    <2>2. \A d \in calls' : d.result = "expired" => d.key \in dead'
        BY <1>2, <2>1, CallsStem DEF SameCall
    <2>3. \A e \in effects' : e.key \notin dead'
        <3>1. CASE \E c \in calls : Serve(c)
            <4>1. PICK c \in calls : Serve(c)
                BY <3>1
            <4>2. dead' = dead
                BY <4>1, Served
            <4>3. effects' = effects \/ \E e \in Effect : effects' = effects \cup {e} /\ e.key = c.key /\ c.key \notin dead
                BY <4>1, Served
            <4>4. QED
                BY <4>2, <4>3 DEF DeadKeys
        <3>2. CASE Expire
            <4>1. PICK key \in 1..count.keys : Did(key) = {} /\ dead' = dead \cup {key} /\ effects' = effects
                BY <3>2 DEF Expire
            <4>2. key > 0
                BY <4>1 DEF IntentsTypeOK, Count
            <4>3. QED
                BY <4>1, <4>2 DEF Did, DeadKeys
        <3>3. CASE ~Expire /\ ~ \E c \in calls : Serve(c)
            <4>1. effects' = effects /\ dead' = dead
                BY <1>2, <3>3 DEF IntentsNext, Remount, Decide, Edit, Discard, Relist, Put, Lose, Arrive,
                    ChangeElsewhere, Look, Seen, Hide, intentVars
            <4>2. QED
                BY <4>1 DEF DeadKeys
        <3>4. QED
            BY <3>1, <3>2, <3>3
    <2>4. QED
        BY <2>1, <2>2, <2>3 DEF DeadKeys
<1>3. QED
    BY <1>1, <1>2

LEMMA EffectsStay == IntentsTypeOK /\ [IntentsNext]_intentVars => effects \subseteq effects'
<1> SUFFICES ASSUME IntentsTypeOK, [IntentsNext]_intentVars PROVE effects \subseteq effects'
    OBVIOUS
<1>1. CASE \E c \in calls : Serve(c)
    BY <1>1, Served
<1>2. CASE ~ \E c \in calls : Serve(c)
    BY <1>2 DEF IntentsNext, Remount, Decide, Edit, Discard, Relist, Put, Lose, Arrive, Submit, Expire,
        ChangeElsewhere, Look, Seen, Hide, intentVars
<1>3. QED
    BY <1>1, <1>2

\* What a page shows: nothing it did not show, for the decision it showed it for, or what the
\* answer it waited for names.
LEMMA ShownMoves ==
    ASSUME IntentsInv, [IntentsNext]_intentVars, page'.shown > 0
    PROVE  \/ page'.shown = page.shown /\ page'.intent = page.intent /\ viewer' = viewer
           \/ /\ kind.then = "show" /\ page'.intent = page.intent /\ viewer' = viewer
              /\ \E c \in calls : /\ c.stage = "served" /\ c.result = "ok" /\ c.effect = page'.shown
                                /\ c.intent = page.intent /\ c.user = viewer
<1> USE DEF IntentsInv
<1>a. page \in Page
    BY DEF IntentsTypeOK
<1>1. CASE (\E u \in Viewers : Remount(u)) \/ Relist
    BY <1>1 DEF Remount, Relist, Fresh
<1>2. CASE Decide
    <2>1. page.shown = 0 /\ page' = [page EXCEPT !.intent = count.intents + 1, !.key = 0, !.step = "start"]
        BY <1>2 DEF Decide
    <2>2. page'.shown = 0
        BY <1>a, <2>1 DEF Page
    <2>3. QED
        BY <2>2
<1>3. CASE Edit \/ Discard \/ Seen \/ Put
    <2>1. viewer' = viewer
        BY <1>3 DEF Edit, Discard, Seen, Put
    <2>2. page'.shown = page.shown /\ page'.intent = page.intent
        BY <1>a, <1>3 DEF Edit, Discard, Seen, Put, Page
    <2>3. QED
        BY <2>1, <2>2
<1>4. CASE Hide
    <2>1. page'.shown = 0
        BY <1>a, <1>4 DEF Hide, Page
    <2>2. QED
        BY <2>1
<1>5. CASE Submit
    <2>1. page'.shown = 0
        <3>1. \E n \in Nat, k \in Nat : page' = [page EXCEPT !.call = n, !.key = k, !.shown = 0]
            <4>1. count.submits + 1 \in Nat
                BY DEF IntentsTypeOK, Count
            <4>2. QED
                BY <1>5, <4>1, Submitted
        <3>2. QED
            BY <1>a, <3>1 DEF Page
    <2>2. QED
        BY <2>1
<1>6. CASE \E c \in calls : Lose(c)
    <2>1. PICK c \in calls : Lose(c)
        BY <1>6
    <2>2. viewer' = viewer /\ (page' = page \/ page' = [page EXCEPT !.call = 0, !.key = page.key, !.step = "start"])
        BY <2>1 DEF Lose, KeyAfterLoss
    <2>3. page'.shown = page.shown /\ page'.intent = page.intent
        BY <1>a, <2>2 DEF Page
    <2>4. QED
        BY <2>2, <2>3
<1>7. CASE (\E c \in calls : Serve(c)) \/ Expire \/ ChangeElsewhere \/ Look \/ UNCHANGED intentVars
    BY <1>7 DEF Serve, Expire, ChangeElsewhere, Look, intentVars
<1>8. CASE \E c \in calls : Arrive(c)
    <2>1. PICK c \in calls : Arrive(c)
        BY <1>8
    <2>2. c \in Call /\ c.stage = "served" /\ viewer' = viewer
        BY <2>1 DEF Arrive, IntentsTypeOK
    <2>3. CASE page.call = c.id
        <3>1. /\ page'.intent = IF c.result = "ok" /\ kind.key = "success" THEN count.intents + 1 ELSE page.intent
              /\ page'.shown = IF c.result = "ok" /\ kind.then = "show" /\ Here(c) THEN c.effect ELSE page.shown
            BY <2>1, <2>3, Answered
        <3>2. c.intent = page.intent /\ c.user = viewer
            BY <2>3 DEF WaitedFor
        <3>3. kind.key = "success" => kind.then = "stay"
            BY KindFacts DEF IntentsTypeOK
        <3>4. CASE c.result = "ok" /\ kind.then = "show" /\ Here(c)
            BY <2>2, <3>1, <3>2, <3>3, <3>4
        <3>5. CASE ~(c.result = "ok" /\ kind.then = "show" /\ Here(c))
            <4>1. page'.shown = page.shown
                BY <3>1, <3>5
            <4>2. kind.then = "show"
                BY <4>1 DEF Shows
            <4>3. QED
                BY <2>2, <3>1, <3>3, <4>1, <4>2
        <3>6. QED
            BY <3>4, <3>5
    <2>4. CASE page.call # c.id
        <3>1. ~Here(c)
            BY <2>2, <2>4 DEF WaitedFor, Here, Call
        <3>2. page' = [page EXCEPT !.shown = page.shown]
            BY <2>1, <2>4, <3>1, Answered
        <3>3. page'.shown = page.shown /\ page'.intent = page.intent
            BY <1>a, <3>2 DEF Page
        <3>4. QED
            BY <2>2, <3>3
    <2>5. QED
        BY <2>3, <2>4
<1>9. QED
    BY <1>1, <1>2, <1>3, <1>4, <1>5, <1>6, <1>7, <1>8 DEF IntentsNext

LEMMA ShowsKept == IntentsInv /\ [IntentsNext]_intentVars => Shows'
<1> SUFFICES ASSUME IntentsInv, [IntentsNext]_intentVars PROVE Shows'
    OBVIOUS
<1> USE DEF IntentsInv
<1>a. kind' = kind
    <2>1. CASE Submit
        BY <2>1 DEF Submit
    <2>2. CASE ~Submit
        BY <2>2, PageMoves
    <2>3. QED
        BY <2>1, <2>2
<1>b. effects \subseteq effects'
    BY EffectsStay
<1>1. ASSUME page'.shown > 0
      PROVE  kind'.then = "show" /\ \E e \in effects' : e.id = page'.shown /\ e.user = viewer' /\ e.intent = page'.intent
    BY <1>1, <1>a, <1>b, ShownMoves DEF Shows, ShowsOwn, SameDecision
<1>2. ASSUME kind.then = "show", NEW d \in calls', d.stage = "served", d.result = "ok"
      PROVE  \E e \in effects' : e.id = d.effect /\ SameDecision(e, d)
    <2>a. kind # Upload
        BY <1>2, KindFacts DEF IntentsTypeOK
    <2>b. \A c \in calls : c \in Call
        BY DEF IntentsTypeOK
    <2>c. ASSUME NEW c \in calls, Left(d, c) PROVE \E e \in effects' : e.id = d.effect /\ SameDecision(e, d)
        <3>1. d.user = c.user /\ d.intent = c.intent /\ c.stage = "served" /\ c.result = "ok" /\ d.effect = c.effect
            BY <1>2, <2>b, <2>c, LeftTyped
        <3>2. PICK e \in effects : e.id = c.effect /\ SameDecision(e, c)
            BY <1>2, <3>1 DEF Shows
        <3>3. QED
            BY <1>b, <3>1, <3>2 DEF SameDecision
    <2>1. CASE \E c \in calls : Serve(c)
        <3>1. PICK c \in calls : Serve(c)
            BY <2>1
        <3>2. PICK a \in Call :
                /\ a.user = c.user /\ a.intent = c.intent /\ calls' \subseteq (calls \ {c}) \cup {a}
                /\ a.result = "ok" /\ kind # Upload =>
                    \E e \in effects' : e.id = a.effect /\ (SameDecision(e, c) \/ (e \in effects /\ c.key > 0 /\ e.key = c.key))
            BY <3>1, Served
        <3>3. CASE d = a
            <4>1. PICK e \in effects' : e.id = a.effect /\ (SameDecision(e, c) \/ (e \in effects /\ c.key > 0 /\ e.key = c.key))
                BY <1>2, <2>a, <3>2, <3>3
            <4>2. SameDecision(e, c)
                BY <4>1 DEF KeyIsOfDecision, Carriers, SameDecision
            <4>3. QED
                BY <3>2, <3>3, <4>1, <4>2 DEF SameDecision
        <3>4. CASE d # a
            BY <1>2, <2>c, <3>2, <3>4 DEF Left
        <3>5. QED
            BY <3>3, <3>4
    <2>2. CASE Submit
        <3>1. PICK c \in Call : c.stage = "sent" /\ calls' = calls \cup {c}
            BY <2>2, Submitted
        <3>2. QED
            BY <1>2, <2>c, <3>1 DEF Left
    <2>3. CASE (\E u \in Viewers : Remount(u)) \/ Relist
        BY <2>3, <2>c, OrphanedLeaves DEF Remount, Relist
    <2>4. CASE \E c \in calls : Lose(c)
        <3>1. PICK c \in calls : Lose(c)
            BY <2>4
        <3>2. calls' = Without({c})
            BY <3>1 DEF Lose
        <3>3. QED
            BY <2>c, <3>2, WithoutLeaves
    <2>5. CASE \/ Decide \/ Edit \/ Discard \/ Put \/ Seen \/ Hide \/ Expire \/ ChangeElsewhere \/ Look \/ UNCHANGED intentVars
               \/ \E c \in calls : Arrive(c)
        <3>1. calls' \subseteq calls
            BY <2>5 DEF Decide, Edit, Discard, Put, Seen, Hide, Expire, ChangeElsewhere, Look, intentVars, Arrive
        <3>2. QED
            BY <2>c, <3>1 DEF Left
    <2>6. QED
        BY <2>1, <2>2, <2>3, <2>4, <2>5 DEF IntentsNext
<1>3. QED
    BY <1>1, <1>2, <1>a DEF Shows, ShowsOwn

LEMMA DraftsWereSeenKept == IntentsInv /\ [IntentsNext]_intentVars => DraftsWereSeen'
<1> SUFFICES ASSUME IntentsInv, [IntentsNext]_intentVars, Versioned'
             PROVE  page'.base \in page'.seen /\ \A c \in calls' : c.base \in c.seen
    BY DEF DraftsWereSeen
<1> USE DEF IntentsInv
<1>a. page \in Page
    BY DEF IntentsTypeOK
<1>1. CASE Submit
    <2>1. PICK c \in Call : c.base = page.base /\ c.seen = page.seen /\ calls' = calls \cup {c}
        BY <1>1, Submitted
    <2>2. \E n \in Nat, k \in Nat : page' = [page EXCEPT !.call = n, !.key = k, !.shown = 0]
        <3>1. count.submits + 1 \in Nat
            BY DEF IntentsTypeOK, Count
        <3>2. QED
            BY <1>1, <3>1, Submitted
    <2>3. page'.base = page.base /\ page'.seen = page.seen
        BY <1>a, <2>2 DEF Page
    <2>4. Versioned
        BY <1>1 DEF Submit, Versioned
    <2>5. QED
        BY <2>1, <2>3, <2>4 DEF DraftsWereSeen
<1>2. CASE ~Submit
    <2>1. Versioned
        BY <1>2, PageMoves DEF Versioned
    <2>2. \A c \in calls' : c.base \in c.seen
        BY <1>2, <2>1, CallsStem DEF SameCall, DraftsWereSeen
    <2>3. page'.base \in page'.seen
        <3>0. page.base \in page.seen
            BY <2>1 DEF DraftsWereSeen
        <3>1. CASE (\E u \in Viewers : Remount(u)) \/ Relist
            BY <3>1 DEF Remount, Relist, Fresh
        <3>2. CASE Decide \/ Edit \/ Put \/ Hide
            <4>1. page'.base = page.base /\ page'.seen = page.seen
                BY <1>a, <3>2 DEF Decide, Edit, Put, Hide, Page
            <4>2. QED
                BY <3>0, <4>1
        <3>3. CASE Discard
            BY <1>a, <3>3 DEF Discard, Page
        <3>4. CASE Seen
            BY <1>a, <3>0, <3>4 DEF Seen, Page
        <3>5. CASE \E c \in calls : Lose(c)
            <4>1. page' = page \/ page' = [page EXCEPT !.call = 0, !.key = page.key, !.step = "start"]
                BY <3>5 DEF Lose, KeyAfterLoss
            <4>2. QED
                BY <1>a, <3>0, <4>1 DEF Page
        <3>6. CASE \E c \in calls : Arrive(c)
            <4>1. PICK c \in calls : Arrive(c)
                BY <3>6
            <4>2. CASE page.call = c.id
                <5>1. /\ page'.base = IF c.result = "ok" /\ Versioned THEN c.base + 1 ELSE page.base
                      /\ page'.seen = IF c.result = "ok" /\ Versioned THEN {c.base + 1} ELSE page.seen
                    BY <4>1, <4>2, Answered
                <5>2. QED
                    BY <3>0, <5>1
            <4>3. CASE page.call # c.id
                <5>1. page' = [page EXCEPT !.shown = page'.shown]
                    BY <4>1, <4>3, Answered
                <5>2. QED
                    BY <1>a, <3>0, <5>1 DEF Page
            <4>4. QED
                BY <4>2, <4>3
        <3>7. CASE (\E c \in calls : Serve(c)) \/ Expire \/ ChangeElsewhere \/ Look \/ UNCHANGED intentVars
            BY <3>0, <3>7 DEF Serve, Expire, ChangeElsewhere, Look, intentVars
        <3>8. QED
            BY <1>2, <3>1, <3>2, <3>3, <3>4, <3>5, <3>6, <3>7 DEF IntentsNext
    <2>4. QED
        BY <2>2, <2>3
<1>3. QED
    BY <1>1, <1>2

LEMMA IntentsNextInv == IntentsInv /\ [IntentsNext]_intentVars => IntentsInv'
BY IntentsStepTyped, NumberedKept, WaitedForKept, KeyIsOfDecisionKept, DecisionHasOneKeyKept, DeadKeysKept, ShowsKept,
   DraftsWereSeenKept DEF IntentsInv

LEMMA OneEffect == IntentsInv => OneEffectPerIntent
BY DEF IntentsInv, OneEffectPerIntent, DecisionHasOneKey, DeadKeys, KeyIsOfDecision, Carriers

\* Of the steps of a request, only its service accepts it.
LEMMA AcceptsWhatWasShown ==
    ASSUME IntentsInv, [IntentsNext]_intentVars,
           NEW c \in calls, Versioned, c.stage = "sent", ver' > ver,
           \A d \in calls' : d.id = c.id => d.stage = "served"
    PROVE  ver \in c.seen
<1> USE DEF IntentsInv
<1>a. ver \in Nat
    BY DEF IntentsTypeOK
<1>1. CASE \E d \in calls : Serve(d)
    <2>1. PICK d \in calls : Serve(d)
        BY <1>1
    <2>2. d = c
        <3>1. calls \ {d} \subseteq calls'
            BY <2>1, Served
        <3>2. QED
            BY <3>1
    <2>3. c.base = ver
        <3>1. \/ ver' = ver
              \/ Versioned => c.base = ver
            BY <2>1, <2>2, Served
        <3>2. QED
            BY <1>a, <3>1
    <2>4. QED
        BY <2>3 DEF DraftsWereSeen
<1>2. CASE ChangeElsewhere
    BY <1>2 DEF ChangeElsewhere
<1>3. CASE ~ChangeElsewhere /\ ~ \E d \in calls : Serve(d)
    <2>1. ver' = ver
        BY <1>3 DEF IntentsNext, Remount, Decide, Edit, Discard, Relist, Submit, Put, Lose, Arrive, Expire,
            Look, Seen, Hide, intentVars
    <2>2. QED
        BY <1>a, <2>1
<1>4. QED
    BY <1>1, <1>2, <1>3

-----------------------------------------------------------------------------
(* Entry: a session that was ended stays ended, and a link that is opened   *)
(* stays usable.                                                            *)

Cookie == [serial : Nat, user : Users \cup {Nobody}]
Session == [serial : Int, user : Users \cup {Nobody}, role : Roles]
Sign == [what : {"none", "login", "register", "logout", "reset"}, stage : {"idle", "sent", "served"},
         with : Cookie, shown : Int, link : Nat, result : {"none", "ok", "over", "refused"},
         answer : Session, here : BOOLEAN]

EntryTypeOK ==
    /\ logins \in Nat /\ mailed \in Nat
    /\ cookie \in Cookie
    /\ live \subseteq [serial : Nat \ {0}, user : Users]
    /\ role \in [Users -> Roles]
    /\ tab \in Session
    /\ probe \in [stage : {"idle", "sent", "served"}, with : Cookie, answer : Session]
    /\ sign \in Sign
    /\ link \in [opened : Nat, token : Nat]

\* Sessions are numbered in turn, and nothing that a tab may still show was ended.
Alive(serial) == serial <= logins /\ serial \notin ended

NothingEndedIsLeft ==
    /\ ended \subseteq 1..logins
    /\ Alive(cookie.serial) /\ Alive(tab.serial)
    /\ Alive(probe.with.serial) /\ Alive(probe.answer.serial)
    /\ Alive(sign.answer.serial) /\ sign.answer.serial >= 0

\* What a logout was asked with, and what its answer says of that.
LogoutKnows ==
    sign.what = "logout" =>
        /\ sign.shown \in 1..logins
        /\ sign.with = NoSecret => cookie.serial # sign.shown
        /\ sign.stage = "served" => sign.result \in {"ok", "over", "refused"}
        /\ sign.result = "over" => sign.with = NoSecret

\* The reset page holds the token of the link it was opened with or none, and asks with it.
TokenIsOfLink ==
    /\ link.token \in {0, link.opened}
    /\ sign.what = "reset" =>
        /\ sign.link = link.opened
        /\ sign.stage = "served" => sign.result \in {"ok", "refused"}
        /\ sign.result = "ok" => sign.link \in consumed

EntryInv ==
    /\ EntryTypeOK
    /\ NothingEndedIsLeft /\ LogoutKnows
    /\ TokenIsOfLink /\ FreshLinkKept

\* The values a session, a request and a page begin with.
LEMMA BlankFacts ==
    /\ NoSecret \in Cookie /\ NoSecret.serial = 0
    /\ SignedOut \in Session /\ SignedOut.serial = 0
    /\ Unknown \in Session /\ Unknown.serial = -1
    /\ Idle \in [stage : {"idle", "sent", "served"}, with : Cookie, answer : Session]
    /\ Idle.with.serial = 0 /\ Idle.answer.serial = -1
    /\ NoSign \in Sign /\ NoSign.what = "none" /\ NoSign.answer.serial = 0
<1>1. NoRole \in Roles
    BY BrowserAssumption DEF NoRole
<1>2. /\ NoSecret \in Cookie /\ NoSecret.serial = 0
      /\ SignedOut \in Session /\ SignedOut.serial = 0
      /\ Unknown \in Session /\ Unknown.serial = -1
    BY <1>1 DEF NoSecret, Cookie, SignedOut, Unknown, Session
<1>3. QED
    BY <1>2 DEF Idle, NoSign, Sign

LEMMA EntryInitInv == EntryInit => EntryInv
<1> SUFFICES ASSUME EntryInit PROVE EntryInv
    OBVIOUS
<1>1. PICK u \in Users : cookie = [serial |-> 1, user |-> u]
    BY DEF EntryInit, BrowserInit
<1>2. NoRole \in Roles
    BY BrowserAssumption DEF NoRole
<1>3. EntryTypeOK
    BY <1>1, <1>2, BlankFacts DEF EntryInit, BrowserInit, EntryTypeOK, Cookie, NoLink
<1>4. NothingEndedIsLeft
    BY <1>1, BlankFacts DEF EntryInit, BrowserInit, NothingEndedIsLeft, Alive
<1>5. QED
    BY <1>3, <1>4 DEF EntryInit, EntryInv, LogoutKnows, TokenIsOfLink, FreshLinkKept, NoSign, NoLink

\* The request of a page that is left goes on as it was, or ends with its page.
LEMMA LeavingFacts ==
    ASSUME sign \in Sign
    PROVE  /\ Leaving \in Sign
           /\ Leaving.what # "reset"
           /\ Leaving.answer.serial \in {0, sign.answer.serial}
           /\ Leaving.what = "logout" =>
                /\ sign.what = "logout" /\ Leaving.shown = sign.shown /\ Leaving.with = sign.with
                /\ Leaving.stage = sign.stage /\ Leaving.result = sign.result
<1>1. CASE sign.what \in {"none", "reset"}
    BY <1>1, BlankFacts DEF Leaving
<1>2. CASE sign.what \notin {"none", "reset"}
    BY <1>2 DEF Leaving, Sign
<1>3. QED
    BY <1>1, <1>2

\* What a request is answered with.
LEMMA SettleFacts ==
    ASSUME sign \in Sign, NEW result \in {"ok", "over", "refused"}, NEW answer \in Session, Settle(result, answer)
    PROVE  /\ sign' \in Sign /\ sign'.answer = answer /\ sign'.result = result /\ sign'.stage = "served"
           /\ sign'.what = sign.what /\ sign'.shown = sign.shown /\ sign'.with = sign.with /\ sign'.link = sign.link
BY DEF Settle, Sign

LEMMA EntryStepInv == EntryInv /\ [EntryNext]_entryVars => EntryInv'
<1> SUFFICES ASSUME EntryInv, [EntryNext]_entryVars PROVE EntryInv'
    OBVIOUS
<1>a. /\ logins \in Nat /\ mailed \in Nat /\ cookie \in Cookie /\ tab \in Session /\ sign \in Sign
      /\ link \in [opened : Nat, token : Nat]
      /\ probe \in [stage : {"idle", "sent", "served"}, with : Cookie, answer : Session]
      /\ live \subseteq [serial : Nat \ {0}, user : Users] /\ role \in [Users -> Roles]
    BY DEF EntryInv, EntryTypeOK
<1>b. /\ probe.with \in Cookie /\ probe.answer \in Session /\ sign.answer \in Session /\ sign.with \in Cookie
      /\ tab.serial \in Int /\ cookie.serial \in Nat /\ probe.with.serial \in Nat /\ probe.answer.serial \in Int
      /\ sign.answer.serial \in Int /\ sign.shown \in Int /\ sign.link \in Nat
      /\ link.opened \in Nat /\ link.token \in Nat
    BY <1>a DEF Cookie, Session, Sign
<1>c. /\ ended \subseteq 1..logins /\ Alive(0) /\ Alive(-1)
      /\ Alive(cookie.serial) /\ Alive(tab.serial) /\ Alive(probe.with.serial) /\ Alive(probe.answer.serial)
      /\ Alive(sign.answer.serial) /\ sign.answer.serial >= 0
    BY <1>a DEF EntryInv, NothingEndedIsLeft, Alive
\* Steps of the session request of the tab.
<1>1. CASE /\ ProbeSend \/ ProbeServed \/ ProbeStored \/ ProbeFailed
           /\ UNCHANGED <<route, sign, ended, link, mailed, consumed>>
    <2>1. UNCHANGED <<cookie, live, logins, role, sign, ended, link, mailed, consumed>>
        BY <1>1 DEF ProbeSend, ProbeServed, ProbeStored, ProbeFailed
    <2>2. /\ tab' \in Session /\ Alive(tab'.serial)
          /\ probe' \in [stage : {"idle", "sent", "served"}, with : Cookie, answer : Session]
          /\ Alive(probe'.with.serial) /\ Alive(probe'.answer.serial)
        <3>1. CASE ProbeSend
            BY <1>a, <1>c, <3>1, BlankFacts DEF ProbeSend
        <3>2. CASE ProbeServed
            <4> DEFINE answer == IF probe.with \in live
                                 THEN [serial |-> probe.with.serial, user |-> probe.with.user,
                                       role |-> role[probe.with.user]]
                                 ELSE SignedOut
            <4>1. answer \in Session /\ Alive(answer.serial)
                <5>1. CASE probe.with \in live
                    <6>1. probe.with.user \in Users
                        BY <1>a, <5>1
                    <6>2. role[probe.with.user] \in Roles
                        BY <1>a, <6>1
                    <6>3. QED
                        BY <1>b, <1>c, <5>1, <6>1, <6>2 DEF Session
                <5>2. CASE probe.with \notin live
                    BY <1>c, <5>2, BlankFacts
                <5>3. QED
                    BY <5>1, <5>2
            <4>2. probe' = [probe EXCEPT !.stage = "served", !.answer = answer] /\ tab' = tab
                BY <3>2 DEF ProbeServed
            <4> HIDE DEF answer
            <4>3. QED
                BY <1>a, <1>c, <4>1, <4>2
        <3>3. CASE ProbeStored
            BY <1>b, <1>c, <3>3, BlankFacts DEF ProbeStored
        <3>4. CASE ProbeFailed
            BY <1>a, <1>c, <3>4, BlankFacts DEF ProbeFailed
        <3>5. QED
            BY <1>1, <3>1, <3>2, <3>3, <3>4
    <2>3. QED
        BY <1>c, <2>1, <2>2 DEF EntryInv, EntryTypeOK, NothingEndedIsLeft, Alive, LogoutKnows, TokenIsOfLink, FreshLinkKept
\* What users do elsewhere: a new session has a new serial.
<1>2. CASE Elsewhere /\ UNCHANGED <<route, sign, ended, link, mailed, consumed>>
    <2>1. UNCHANGED <<tab, probe, sign, ended, link, mailed, consumed>>
        BY <1>2 DEF Elsewhere
    <2>2. CASE \E u \in Users : LoginElsewhere(u)
        <3>1. PICK u \in Users : LoginElsewhere(u)
            BY <2>2
        <3> DEFINE s == [serial |-> logins + 1, user |-> u]
        <3>2. logins' = logins + 1 /\ live' = live \cup {s} /\ cookie' = s /\ role' = role
            BY <3>1 DEF LoginElsewhere, Issue
        <3>3. s \in Cookie /\ s \in [serial : Nat \ {0}, user : Users] /\ s.serial = logins + 1
            BY <1>a DEF Cookie
        <3> HIDE DEF s
        <3>4. EntryTypeOK'
            BY <1>a, <2>1, <3>2, <3>3 DEF EntryTypeOK
        <3>5. NothingEndedIsLeft'
            BY <1>a, <1>b, <1>c, <2>1, <3>2, <3>3 DEF NothingEndedIsLeft, Alive
        <3>6. LogoutKnows'
            BY <1>a, <1>b, <2>1, <3>2, <3>3 DEF EntryInv, LogoutKnows
        <3>7. QED
            BY <2>1, <3>4, <3>5, <3>6 DEF EntryInv, TokenIsOfLink, FreshLinkKept
    <2>3. CASE LogoutElsewhere
        <3>1. cookie' = NoSecret /\ live' \subseteq live /\ UNCHANGED <<logins, role>>
            BY <2>3 DEF LogoutElsewhere
        <3>2. QED
            BY <1>a, <1>c, <2>1, <3>1, BlankFacts
               DEF EntryInv, EntryTypeOK, NothingEndedIsLeft, Alive, LogoutKnows, TokenIsOfLink, FreshLinkKept
    <2>4. CASE \E u \in Users : RevokeSessions(u) \/ \E r \in Roles : ChangeRole(u, r)
        <3>1. /\ live' \subseteq live /\ UNCHANGED <<logins, cookie>> /\ role' \in [Users -> Roles]
            BY <1>a, <2>4 DEF RevokeSessions, ChangeRole
        <3>2. QED
            BY <1>a, <1>c, <2>1, <3>1
               DEF EntryInv, EntryTypeOK, NothingEndedIsLeft, Alive, LogoutKnows, TokenIsOfLink, FreshLinkKept
    <2>5. QED
        BY <1>2, <2>2, <2>3, <2>4 DEF Elsewhere
<1>3. CASE \E r \in {"home", "login", "register"} : Visit(r)
    <2>1. link' = NoLink /\ sign' = Leaving /\ UNCHANGED <<browserVars, ended, mailed, consumed>>
        BY <1>3 DEF Visit
    <2>2. NoLink \in [opened : Nat, token : Nat] /\ NoLink.opened = 0 /\ NoLink.token = 0
        BY DEF NoLink
    <2>3. EntryTypeOK'
        BY <1>a, <2>1, <2>2, LeavingFacts DEF EntryTypeOK, browserVars
    <2>4. NothingEndedIsLeft'
        BY <1>a, <1>c, <2>1, LeavingFacts DEF NothingEndedIsLeft, Alive, browserVars
    <2>5. LogoutKnows'
        BY <1>a, <2>1, LeavingFacts DEF EntryInv, LogoutKnows, browserVars
    <2>6. TokenIsOfLink' /\ FreshLinkKept'
        BY <1>a, <2>1, <2>2, LeavingFacts DEF TokenIsOfLink, FreshLinkKept
    <2>7. QED
        BY <2>3, <2>4, <2>5, <2>6 DEF EntryInv
<1>4. CASE MailLink
    <2>1. /\ mailed' = mailed + 1 /\ consumed \subseteq consumed'
          /\ UNCHANGED <<cookie, live, logins, role, tab, probe, sign, ended, link>>
        BY <1>4 DEF MailLink
    <2>2. QED
        BY <1>a, <1>c, <2>1
           DEF EntryInv, EntryTypeOK, NothingEndedIsLeft, Alive, LogoutKnows, TokenIsOfLink, FreshLinkKept
<1>5. CASE OpenLink
    <2>1. /\ mailed > link.opened /\ link' = [opened |-> mailed, token |-> mailed] /\ sign' = Leaving
          /\ UNCHANGED <<browserVars, ended, mailed, consumed>>
        BY <1>5 DEF OpenLink
    <2>2. link' \in [opened : Nat, token : Nat] /\ link'.opened = mailed /\ link'.token = mailed
        BY <1>a, <2>1
    <2>3. EntryTypeOK'
        BY <1>a, <2>1, <2>2, LeavingFacts DEF EntryTypeOK, browserVars
    <2>4. NothingEndedIsLeft'
        BY <1>a, <1>c, <2>1, LeavingFacts DEF NothingEndedIsLeft, Alive, browserVars
    <2>5. LogoutKnows'
        BY <1>a, <2>1, LeavingFacts DEF EntryInv, LogoutKnows, browserVars
    <2>6. TokenIsOfLink' /\ FreshLinkKept'
        BY <1>a, <1>b, <2>1, <2>2, LeavingFacts DEF TokenIsOfLink, FreshLinkKept
    <2>7. QED
        BY <2>3, <2>4, <2>5, <2>6 DEF EntryInv
<1>6. CASE \E what \in {"login", "register", "logout", "reset"} : Request(what)
    <2>1. PICK what \in {"login", "register", "logout", "reset"} : Request(what)
        BY <1>6
    <2>2. /\ sign' = [NoSign EXCEPT !.what = what, !.stage = "sent", !.with = cookie,
                                    !.shown = tab.serial, !.link = link.token, !.here = TRUE]
          /\ UNCHANGED <<browserVars, ended, link, mailed, consumed>>
        BY <2>1 DEF Request
    <2>3. /\ sign' \in Sign /\ sign'.what = what /\ sign'.with = cookie /\ sign'.shown = tab.serial
          /\ sign'.link = link.token /\ sign'.stage = "sent" /\ sign'.answer = NoSign.answer /\ sign'.result = NoSign.result
        BY <1>a, <1>b, <2>2, BlankFacts DEF Sign
    <2>4. EntryTypeOK'
        BY <1>a, <2>2, <2>3 DEF EntryTypeOK, browserVars
    <2>5. NothingEndedIsLeft'
        BY <1>c, <2>2, <2>3, BlankFacts DEF NothingEndedIsLeft, Alive, browserVars
    <2>6. LogoutKnows'
        <3>1. ASSUME what = "logout" PROVE tab.serial > 0
            BY <2>1, <3>1 DEF Request, HomeView, SignedIn
        <3>2. tab.serial <= logins /\ (cookie = NoSecret => cookie.serial = 0) /\ NoSign.result = "none"
            BY <1>c, BlankFacts DEF Alive, NoSign
        <3>3. QED
            BY <1>a, <1>b, <2>2, <2>3, <3>1, <3>2 DEF LogoutKnows, browserVars
    <2>7. TokenIsOfLink' /\ FreshLinkKept'
        <3>1. ASSUME what = "reset" PROVE link.token > 0
            BY <2>1, <3>1 DEF Request, ResetPasswordView
        <3>2. NoSign.result = "none"
            BY DEF NoSign
        <3>3. QED
            BY <1>b, <2>2, <2>3, <3>1, <3>2 DEF EntryInv, TokenIsOfLink, FreshLinkKept
    <2>8. QED
        BY <2>4, <2>5, <2>6, <2>7 DEF EntryInv
<1>7. CASE \E u \in Users : SignInServed(u)
    <2>1. PICK u \in Users : SignInServed(u)
        BY <1>7
    <2> DEFINE s == [serial |-> logins + 1, user |-> u]
               answer == [serial |-> logins + 1, user |-> u, role |-> role[u]]
    <2>2. /\ sign.what \in {"login", "register"} /\ logins' = logins + 1 /\ live' = live \cup {s}
          /\ Settle("ok", answer)
          /\ UNCHANGED <<cookie, role, tab, probe, ended, link, mailed, consumed>>
        BY <2>1 DEF SignInServed
    <2>3. s \in [serial : Nat \ {0}, user : Users] /\ answer \in Session /\ answer.serial = logins + 1
        BY <1>a DEF Session
    <2> HIDE DEF s, answer
    <2>4. sign' \in Sign /\ sign'.answer = answer /\ sign'.what = sign.what
        BY <1>a, <2>2, <2>3, SettleFacts
    <2>5. EntryTypeOK'
        BY <1>a, <2>2, <2>3, <2>4 DEF EntryTypeOK
    <2>6. NothingEndedIsLeft'
        BY <1>a, <1>b, <1>c, <2>2, <2>3, <2>4 DEF NothingEndedIsLeft, Alive
    <2>7. QED
        BY <2>2, <2>4, <2>5, <2>6 DEF EntryInv, LogoutKnows, TokenIsOfLink, FreshLinkKept
<1>8. CASE LogoutServed
    <2>1. /\ sign.what = "logout" /\ live' \subseteq live
          /\ UNCHANGED <<cookie, logins, role, tab, probe, ended, link, mailed, consumed>>
          /\ \/ sign.with = NoSecret /\ Settle("over", SignedOut)
             \/ Settle("refused", SignedOut)
             \/ Settle("ok", SignedOut)
        BY <1>8 DEF LogoutServed
    <2>2. /\ sign' \in Sign /\ sign'.answer = SignedOut /\ sign'.what = "logout" /\ sign'.shown = sign.shown
          /\ sign'.with = sign.with /\ sign'.result \in {"ok", "over", "refused"}
          /\ sign'.result = "over" => sign.with = NoSecret
        BY <1>a, <2>1, BlankFacts, SettleFacts
    <2>3. EntryTypeOK'
        BY <1>a, <2>1, <2>2 DEF EntryTypeOK
    <2>4. NothingEndedIsLeft'
        BY <1>c, <2>1, <2>2, BlankFacts DEF NothingEndedIsLeft, Alive
    <2>5. LogoutKnows'
        BY <2>1, <2>2 DEF EntryInv, LogoutKnows
    <2>6. QED
        BY <2>1, <2>2, <2>3, <2>4, <2>5 DEF EntryInv, TokenIsOfLink, FreshLinkKept
<1>9. CASE ResetServed
    <2>1. /\ sign.what = "reset" /\ live' \subseteq live /\ consumed \subseteq consumed'
          /\ UNCHANGED <<cookie, logins, role, tab, probe, ended, link, mailed>>
          /\ \/ Settle("refused", SignedOut)
             \/ Settle("ok", SignedOut) /\ sign.link \in consumed'
        BY <1>9 DEF ResetServed
    <2>2. /\ sign' \in Sign /\ sign'.answer = SignedOut /\ sign'.what = "reset" /\ sign'.link = sign.link
          /\ sign'.result \in {"ok", "refused"} /\ (sign'.result = "ok" => sign.link \in consumed')
        BY <1>a, <2>1, BlankFacts, SettleFacts
    <2>3. EntryTypeOK'
        BY <1>a, <2>1, <2>2 DEF EntryTypeOK
    <2>4. NothingEndedIsLeft'
        BY <1>c, <2>1, <2>2, BlankFacts DEF NothingEndedIsLeft, Alive
    <2>5. TokenIsOfLink' /\ FreshLinkKept'
        BY <2>1, <2>2 DEF EntryInv, TokenIsOfLink, FreshLinkKept
    <2>6. QED
        BY <2>2, <2>3, <2>4, <2>5 DEF EntryInv, LogoutKnows
<1>10. CASE SignInArrives
    <2>1. /\ cookie' = [serial |-> sign.answer.serial, user |-> sign.answer.user] /\ tab' = sign.answer
          /\ probe' = Idle /\ sign' = NoSign
          /\ UNCHANGED <<live, logins, role, ended, link, mailed, consumed>>
        BY <1>10 DEF SignInArrives, Cancelled
    <2>2. sign.answer.serial \in Nat
        BY <1>b DEF EntryInv, NothingEndedIsLeft
    <2>3. cookie' \in Cookie /\ cookie'.serial = sign.answer.serial
        BY <1>b, <2>1, <2>2 DEF Cookie, Session
    <2>4. EntryTypeOK'
        BY <1>a, <1>b, <2>1, <2>3, BlankFacts DEF EntryTypeOK
    <2>5. NothingEndedIsLeft'
        BY <1>c, <2>1, <2>3, BlankFacts DEF NothingEndedIsLeft, Alive
    <2>6. QED
        BY <2>1, <2>4, <2>5, BlankFacts DEF EntryInv, LogoutKnows, TokenIsOfLink, FreshLinkKept
<1>11. CASE LogoutArrives
    <2>1. /\ sign.stage = "served" /\ sign.what = "logout" /\ sign' = NoSign
          /\ UNCHANGED <<live, logins, role, link, mailed, consumed>>
        BY <1>11 DEF LogoutArrives
    <2>2. CASE sign.result = "refused"
        <3>1. UNCHANGED <<cookie, tab, probe, ended>>
            BY <1>11, <2>2 DEF LogoutArrives
        <3>2. QED
            BY <1>a, <1>c, <2>1, <3>1, BlankFacts
               DEF EntryInv, EntryTypeOK, NothingEndedIsLeft, Alive, LogoutKnows, TokenIsOfLink, FreshLinkKept
    <2>3. CASE sign.result # "refused"
        <3>1. /\ cookie' = (IF sign.result = "ok" THEN NoSecret ELSE cookie) /\ tab' = SignedOut
              /\ probe' = Idle /\ ended' = ended \cup {sign.shown}
            BY <1>11, <2>3 DEF LogoutArrives, Cancelled
        <3>2. sign.shown \in 1..logins /\ (sign.result = "ok" \/ cookie.serial # sign.shown)
            BY <2>1, <2>3 DEF EntryInv, LogoutKnows
        <3>3. EntryTypeOK'
            BY <1>a, <2>1, <3>1, BlankFacts DEF EntryTypeOK
        <3>4. cookie'.serial <= logins /\ cookie'.serial \notin ended'
            BY <1>a, <1>c, <3>1, <3>2, BlankFacts DEF Alive
        <3>5. NothingEndedIsLeft'
            <4>1. ended' \subseteq 1..logins /\ logins' = logins
                BY <1>c, <2>1, <3>1, <3>2
            <4>2. QED
                BY <1>a, <2>1, <3>1, <3>4, <4>1, BlankFacts DEF NothingEndedIsLeft, Alive
        <3>6. QED
            BY <2>1, <3>3, <3>5, BlankFacts DEF EntryInv, LogoutKnows, TokenIsOfLink, FreshLinkKept
    <2>4. QED
        BY <2>2, <2>3
<1>12. CASE ResetArrives
    <2>1. /\ sign.stage = "served" /\ sign.what = "reset" /\ sign' = NoSign
          /\ UNCHANGED <<live, logins, role, ended, mailed, consumed>>
        BY <1>12 DEF ResetArrives
    <2>2. CASE sign.result = "refused"
        <3>1. UNCHANGED <<cookie, tab, probe, link>>
            BY <1>12, <2>2 DEF ResetArrives
        <3>2. QED
            BY <1>a, <1>c, <2>1, <3>1, BlankFacts
               DEF EntryInv, EntryTypeOK, NothingEndedIsLeft, Alive, LogoutKnows, TokenIsOfLink, FreshLinkKept
    <2>3. CASE sign.result # "refused"
        <3>1. cookie' = NoSecret /\ tab' = SignedOut /\ probe' = Idle /\ link' = [link EXCEPT !.token = 0]
            BY <1>12, <2>3 DEF ResetArrives, Cancelled
        <3>2. link' \in [opened : Nat, token : Nat] /\ link'.opened = link.opened /\ link'.token = 0
            BY <1>a, <3>1
        <3>3. link.opened \in consumed
            BY <2>1, <2>3 DEF EntryInv, TokenIsOfLink
        <3>4. EntryTypeOK'
            BY <1>a, <2>1, <3>1, <3>2, BlankFacts DEF EntryTypeOK
        <3>5. NothingEndedIsLeft'
            BY <1>c, <2>1, <3>1, BlankFacts DEF NothingEndedIsLeft, Alive
        <3>6. QED
            BY <2>1, <3>2, <3>3, <3>4, <3>5, BlankFacts
               DEF EntryInv, LogoutKnows, TokenIsOfLink, FreshLinkKept
    <2>4. QED
        BY <2>2, <2>3
<1>13. CASE SignLost
    <2>1. sign' = NoSign /\ UNCHANGED <<browserVars, ended, link, mailed, consumed>>
        BY <1>13 DEF SignLost
    <2>2. QED
        BY <1>a, <1>c, <2>1, BlankFacts
           DEF EntryInv, EntryTypeOK, NothingEndedIsLeft, Alive, LogoutKnows, TokenIsOfLink, FreshLinkKept, browserVars
<1>14. CASE UNCHANGED entryVars
    BY <1>14
       DEF EntryInv, EntryTypeOK, NothingEndedIsLeft, Alive, LogoutKnows, TokenIsOfLink, FreshLinkKept, entryVars, browserVars
<1>15. QED
    BY <1>1, <1>2, <1>3, <1>4, <1>5, <1>6, <1>7, <1>8, <1>9, <1>10, <1>11, <1>12, <1>13, <1>14 DEF EntryNext

-----------------------------------------------------------------------------
(* Looks: what is chosen in a tab, and what the other tabs make of it.      *)

Draft == [selection : Graphics, generated : Generated, icon : Icons]

LooksTypeOK ==
    /\ mine \in [Tabs -> Languages] /\ hint \in [Tabs -> Languages \cup {NoLook}]
    /\ language \in Languages \cup {NoLook}
    /\ graphic \in Graphics \cup {NoLook} /\ settled \in Graphics \cup {NoLook}
    /\ refused \in [Tabs -> Graphics \cup {NoLook}]
    /\ shown \in [Tabs -> Graphics]
    /\ news \in [Tabs -> Nat]
    /\ draft \in [Tabs -> Draft \cup {NoLook}]
    /\ width \in [Tabs -> Widths] /\ stored \in Widths
    /\ setter \in Tabs \cup {NoLook}

\* A tab that shows the graphic, and has heard of everything, shows the stored one.
ShowsStored ==
    \A t \in Tabs \ away : news[t] = 0 /\ refused[t] = NoLook => shown[t] = Or(graphic, Default)

\* What was stored last is what is stored, and whoever has heard of it had nothing refused.
SettledIsStored ==
    settled # NoLook =>
        /\ settled = Or(graphic, Default)
        /\ \A t \in Tabs : news[t] = 0 => refused[t] = NoLook

LooksInv ==
    /\ LooksTypeOK
    /\ picked = mine
    /\ ShowsStored /\ SettledIsStored
    /\ WidthIsStored

LEMMA LooksInitInv == LooksInit => LooksInv
<1> SUFFICES ASSUME LooksInit PROVE LooksInv
    OBVIOUS
<1>1. LooksTypeOK
    BY LooksAssumption DEF LooksInit, LooksTypeOK, Graphics
<1>2. QED
    BY <1>1, LooksAssumption DEF LooksInit, LooksInv, ShowsStored, SettledIsStored, WidthIsStored, Or

LEMMA LanguageStepInv ==
    ASSUME LooksInv, NEW t \in Tabs, OnLanguage(t)
    PROVE  LooksInv'
<1>a. /\ mine \in [Tabs -> Languages] /\ hint \in [Tabs -> Languages \cup {NoLook}] /\ language \in Languages \cup {NoLook}
      /\ picked = mine /\ Device \in Languages
    BY LooksAssumption DEF LooksInv, LooksTypeOK
<1>b. UNCHANGED <<graphicVars, widthVars>>
    BY DEF OnLanguage
<1>1. ASSUME NEW l \in Languages, Pick(t, l)
      PROVE  mine' \in [Tabs -> Languages] /\ hint' \in [Tabs -> Languages \cup {NoLook}] /\ language' \in Languages \cup {NoLook}
             /\ picked' = mine'
    BY <1>a, <1>1 DEF Pick
<1>2. ASSUME ReopenTab(t)
      PROVE  mine' \in [Tabs -> Languages] /\ hint' \in [Tabs -> Languages \cup {NoLook}] /\ language' \in Languages \cup {NoLook}
             /\ picked' = mine'
    <2>1. Or(language, Device) \in Languages
        BY <1>a DEF Or
    <2>2. QED
        BY <1>a, <1>2, <2>1 DEF ReopenTab
<1>3. ASSUME LeaveLink(t) \/ \E h \in Languages \cup {NoLook} : OpenHint(t, h)
      PROVE  mine' \in [Tabs -> Languages] /\ hint' \in [Tabs -> Languages \cup {NoLook}] /\ language' \in Languages \cup {NoLook}
             /\ picked' = mine'
    BY <1>a, <1>3 DEF LeaveLink, OpenHint
<1>4. mine' \in [Tabs -> Languages] /\ hint' \in [Tabs -> Languages \cup {NoLook}] /\ language' \in Languages \cup {NoLook}
      /\ picked' = mine'
    BY <1>1, <1>2, <1>3 DEF OnLanguage, ChooseLook, FlipLook
<1>5. QED
    BY <1>b, <1>4 DEF LooksInv, LooksTypeOK, ShowsStored, SettledIsStored, WidthIsStored, graphicVars, widthVars

LEMMA GraphicStepInv ==
    ASSUME LooksInv, NEW t \in Tabs, OnGraphic(t)
    PROVE  LooksInv'
<1>a. UNCHANGED <<languageVars, widthVars>>
    BY DEF OnGraphic
<1>b. /\ graphic \in Graphics \cup {NoLook} /\ settled \in Graphics \cup {NoLook}
      /\ refused \in [Tabs -> Graphics \cup {NoLook}] /\ shown \in [Tabs -> Graphics] /\ news \in [Tabs -> Nat]
      /\ draft \in [Tabs -> Draft \cup {NoLook}]
      /\ Default \in Graphics /\ NoLook \notin Graphics
    BY LooksAssumption DEF LooksInv, LooksTypeOK, Graphics
<1>c. draft[t] # NoLook => draft[t] \in Draft /\ draft[t].selection \in Graphics
    BY <1>b DEF Draft
<1> DEFINE Typed == /\ graphic \in Graphics \cup {NoLook} /\ settled \in Graphics \cup {NoLook}
                    /\ refused \in [Tabs -> Graphics \cup {NoLook}] /\ shown \in [Tabs -> Graphics]
                    /\ news \in [Tabs -> Nat] /\ draft \in [Tabs -> Draft \cup {NoLook}]
<1>d. SUFFICES Typed' /\ ShowsStored' /\ SettledIsStored'
    BY <1>a DEF LooksInv, LooksTypeOK, WidthIsStored, languageVars, widthVars
<1>e. ShowsStored /\ SettledIsStored
    BY DEF LooksInv
<1>1. CASE OpenPicker(t) \/ Select(t) \/ ClosePicker(t)
    <2>1. UNCHANGED <<graphic, refused, shown, news, away, settled>>
        BY <1>1 DEF OpenPicker, Select, ClosePicker
    <2>2. draft' \in [Tabs -> Draft \cup {NoLook}]
        <3>1. CASE OpenPicker(t)
            <4> DEFINE d == [selection |-> shown[t],
                             generated |-> IF shown[t] \in Generated THEN shown[t] ELSE Default,
                             icon |-> IF shown[t] \in Icons THEN shown[t] ELSE FirstIcon]
            <4>1. d \in Draft
                BY <1>b, LooksAssumption DEF Draft
            <4>2. draft' = [draft EXCEPT ![t] = d]
                BY <3>1 DEF OpenPicker
            <4> HIDE DEF d
            <4>3. QED
                BY <1>b, <4>1, <4>2
        <3>2. CASE Select(t)
            <4>1. ASSUME NEW g \in Generated, SelectGenerated(t, g)
                  PROVE  draft' \in [Tabs -> Draft \cup {NoLook}]
                <5>1. [draft[t] EXCEPT !.selection = g, !.generated = g] \in Draft
                    BY <1>c, <3>2 DEF Select, Draft, Graphics
                <5>2. draft' = [draft EXCEPT ![t] = [draft[t] EXCEPT !.selection = g, !.generated = g]]
                    BY <1>b, <4>1 DEF SelectGenerated
                <5>3. QED
                    BY <1>b, <5>1, <5>2
            <4>2. ASSUME NEW i \in Icons, SelectIcon(t, i)
                  PROVE  draft' \in [Tabs -> Draft \cup {NoLook}]
                <5>1. [draft[t] EXCEPT !.selection = i, !.icon = i] \in Draft
                    BY <1>c, <3>2 DEF Select, Draft, Graphics
                <5>2. draft' = [draft EXCEPT ![t] = [draft[t] EXCEPT !.selection = i, !.icon = i]]
                    BY <1>b, <4>2 DEF SelectIcon
                <5>3. QED
                    BY <1>b, <5>1, <5>2
            <4>3. draft[t].generated \in Generated /\ draft[t].icon \in Icons
                BY <1>c, <3>2 DEF Select, Draft
            <4>4. QED
                BY <3>2, <4>1, <4>2, <4>3, LooksAssumption DEF Select, SwitchMode, ResetDraft
        <3>3. CASE ClosePicker(t)
            BY <1>b, <3>3 DEF ClosePicker
        <3>4. QED
            BY <1>1, <3>1, <3>2, <3>3
    <2>3. QED
        BY <1>b, <1>e, <2>1, <2>2 DEF ShowsStored, SettledIsStored
<1>2. CASE Confirm(t)
    <2> DEFINE g == draft[t].selection
    <2>1. /\ graphic' = g /\ refused' = [refused EXCEPT ![t] = NoLook]
          /\ news' = [s \in Tabs |-> IF s # t /\ g # graphic THEN news[s] + 1 ELSE news[s]]
          /\ shown' = [shown EXCEPT ![t] = Or(refused'[t], g)]
          /\ settled' = IF g = graphic /\ refused' # [s \in Tabs |-> NoLook] THEN NoLook ELSE g
          /\ draft' = [draft EXCEPT ![t] = NoLook] /\ away' = away
        BY <1>2 DEF Confirm, Spent
    <2>2. g \in Graphics
        BY <1>2, <1>c DEF Confirm
    <2> HIDE DEF g
    <2>3. refused'[t] = NoLook /\ Or(refused'[t], g) = g /\ shown'[t] = g /\ Or(graphic', Default) = g
        BY <1>b, <2>1, <2>2 DEF Or
    <2>4. Typed'
        BY <1>b, <2>1, <2>2, <2>3
    <2>5. \A s \in Tabs \ {t} : refused'[s] = refused[s] /\ shown'[s] = shown[s] /\ (news'[s] = 0 => news[s] = 0 /\ g = graphic)
        BY <1>b, <2>1
    <2>6. ShowsStored'
        BY <1>b, <1>e, <2>1, <2>2, <2>3, <2>5 DEF ShowsStored
    <2>7. SettledIsStored'
        <3>1. ASSUME settled' # NoLook, NEW s \in Tabs, news'[s] = 0 PROVE refused'[s] = NoLook
            <4>1. CASE g = graphic
                <5>1. refused' = [x \in Tabs |-> NoLook]
                    BY <2>1, <3>1, <4>1
                <5>2. QED
                    BY <5>1
            <4>2. CASE g # graphic
                BY <2>3, <2>5, <3>1, <4>2
            <4>3. QED
                BY <4>1, <4>2
        <3>2. settled' # NoLook => settled' = Or(graphic', Default)
            BY <2>1, <2>3
        <3>3. QED
            BY <3>1, <3>2 DEF SettledIsStored
    <2>8. QED
        BY <2>4, <2>6, <2>7
<1>3. CASE ConfirmRefused(t)
    <2> DEFINE g == draft[t].selection
    <2>1. /\ refused' = [refused EXCEPT ![t] = g] /\ shown' = [shown EXCEPT ![t] = g]
          /\ draft' = [draft EXCEPT ![t] = NoLook] /\ settled' = NoLook /\ UNCHANGED <<graphic, news, away>>
        BY <1>3 DEF ConfirmRefused
    <2>2. g \in Graphics
        BY <1>3, <1>c DEF ConfirmRefused
    <2> HIDE DEF g
    <2>3. QED
        BY <1>b, <1>e, <2>1, <2>2 DEF ShowsStored, SettledIsStored
<1>4. CASE Hear(t)
    <2>1. news[t] > 0 /\ news' = [news EXCEPT ![t] = @ - 1] /\ UNCHANGED <<graphic, away, draft>>
        BY <1>4 DEF Hear
    <2>2. news' \in [Tabs -> Nat] /\ \A s \in Tabs \ {t} : news'[s] = news[s]
        BY <1>b, <2>1
    <2>3. CASE t \in away
        <3>1. settled' = (IF refused[t] = NoLook THEN settled ELSE NoLook) /\ UNCHANGED <<refused, shown>>
            BY <1>4, <2>3 DEF Hear
        <3>2. QED
            BY <1>b, <1>e, <2>1, <2>2, <2>3, <3>1 DEF ShowsStored, SettledIsStored
    <2>4. CASE t \notin away
        <3>1. /\ refused' = [refused EXCEPT ![t] = NoLook] /\ settled' = settled
              /\ shown' = [shown EXCEPT ![t] = Or(Or(refused'[t], graphic), Default)]
            BY <1>4, <2>4 DEF Hear, Forgets
        <3>2. refused'[t] = NoLook /\ Or(Or(refused'[t], graphic), Default) = Or(graphic, Default) /\ Or(graphic, Default) \in Graphics
            BY <1>b, <3>1 DEF Or
        <3>3. QED
            BY <1>b, <1>e, <2>1, <2>2, <3>1, <3>2 DEF ShowsStored, SettledIsStored
    <2>5. QED
        BY <2>3, <2>4
<1>5. CASE Leave(t)
    BY <1>b, <1>e, <1>5 DEF Leave, ShowsStored, SettledIsStored
<1>6. CASE Return(t)
    <2>1. shown' = [shown EXCEPT ![t] = Read(t)] /\ away' = away \ {t} /\ UNCHANGED <<graphic, refused, news, draft, settled>>
        BY <1>6 DEF Return
    <2>2. Read(t) \in Graphics /\ (refused[t] = NoLook => Read(t) = Or(graphic, Default))
        BY <1>b DEF Read, Or
    <2>3. QED
        BY <1>b, <1>e, <2>1, <2>2 DEF ShowsStored, SettledIsStored
<1>7. QED
    BY <1>1, <1>2, <1>3, <1>4, <1>5, <1>6 DEF OnGraphic

LEMMA WidthStepInv ==
    ASSUME LooksInv, NEW t \in Tabs, OnWidth(t)
    PROVE  LooksInv'
<1>a. UNCHANGED <<languageVars, graphicVars>>
    BY DEF OnWidth
<1>b. width \in [Tabs -> Widths] /\ stored \in Widths /\ setter \in Tabs \cup {NoLook} /\ WidthIsStored /\ NoLook \notin Tabs
    BY LooksAssumption DEF LooksInv, LooksTypeOK
<1>1. ASSUME NEW w \in Widths, Persist(t, w)
      PROVE  width' \in [Tabs -> Widths] /\ stored' \in Widths /\ setter' \in Tabs \cup {NoLook} /\ WidthIsStored'
    BY <1>b, <1>1 DEF Persist, WidthIsStored
<1>2. width' \in [Tabs -> Widths] /\ stored' \in Widths /\ setter' \in Tabs \cup {NoLook} /\ WidthIsStored'
    <2>1. CASE NudgeEdge(t) \/ DropEdge(t)
        BY <1>b, <1>1, <2>1 DEF NudgeEdge, DropEdge
    <2>2. CASE DragEdge(t)
        BY <1>b, <2>2 DEF DragEdge, WidthIsStored
    <2>3. CASE ReopenAtWidth(t)
        BY <1>b, <2>3 DEF ReopenAtWidth, WidthIsStored
    <2>4. QED
        BY <2>1, <2>2, <2>3 DEF OnWidth
<1>3. QED
    BY <1>a, <1>2 DEF LooksInv, LooksTypeOK, ShowsStored, SettledIsStored, languageVars, graphicVars

LEMMA LooksStepInv == LooksInv /\ [LooksNext]_looksVars => LooksInv'
<1> SUFFICES ASSUME LooksInv, [LooksNext]_looksVars PROVE LooksInv'
    OBVIOUS
<1>1. CASE LooksNext
    BY <1>1, LanguageStepInv, GraphicStepInv, WidthStepInv DEF LooksNext
<1>2. CASE UNCHANGED looksVars
    BY <1>2 DEF looksVars, LooksInv, LooksTypeOK, ShowsStored, SettledIsStored, WidthIsStored
<1>3. QED
    BY <1>1, <1>2

LEMMA LooksCorrect == LooksInv => LooksHold
<1> SUFFICES ASSUME LooksInv PROVE LooksHold
    OBVIOUS
<1>1. PicksWin
    BY DEF LooksInv, PicksWin, Effective, Or
<1>2. LatestShown
    BY DEF LooksInv, LatestShown, ShowsStored, SettledIsStored
<1>3. QED
    BY <1>1, <1>2 DEF LooksInv, LooksHold

-----------------------------------------------------------------------------
(* Desktop: what the window shows.                                          *)

Loadable == Pages \cup {ErrorPage}

DesktopTypeOK ==
    /\ document \in Loadable \cup {Blank, NoPage}
    /\ loading \in Loadable \cup {NoPage}
    /\ goal \in Pages

\* A window that loads nothing shows what it loaded last, and an app page is its own goal.
ShowsItsGoal ==
    Open /\ loading = NoPage => document = ErrorPage \/ (document \in Pages /\ goal = document)

DesktopInv == DesktopTypeOK /\ ShowsItsGoal

LEMMA DesktopInitInv == DesktopInit => DesktopInv
    BY DesktopAssumption DEF DesktopInit, DesktopInv, DesktopTypeOK, ShowsItsGoal, Loadable, Open

LEMMA DesktopStepInv == DesktopInv /\ [DesktopNext]_desktopVars => DesktopInv'
<1> SUFFICES ASSUME DesktopInv, [DesktopNext]_desktopVars PROVE DesktopInv'
    OBVIOUS
<1> USE DesktopAssumption DEF DesktopInv, DesktopTypeOK, ShowsItsGoal, Loadable, Open
<1>1. CASE Launch
    BY <1>1 DEF Launch, Load
<1>2. CASE \E p \in Pages \cup {Outside} : FollowLink(p) \/ Navigate(p)
    BY <1>2 DEF FollowLink, Navigate, InApp, SameOrigin, Load
<1>3. CASE \E p \in Pages : MoveWithin(p)
    BY <1>3 DEF MoveWithin
<1>4. CASE Reconnect
    BY <1>4 DEF Reconnect, Load
<1>5. CASE Commit
    BY <1>5 DEF Commit, Tracked
<1>6. CASE FinishLoad
    BY <1>6 DEF FinishLoad
<1>7. CASE FailLoad \/ LoseRenderer
    BY <1>7 DEF FailLoad, LoseRenderer, AfterFailure, ShowErrorPage, Load
<1>8. CASE HandleRejection
    BY <1>8 DEF HandleRejection
<1>9. CASE CloseWindow
    BY <1>9 DEF CloseWindow
<1>10. CASE UNCHANGED desktopVars
    BY <1>10 DEF desktopVars
<1>11. QED
    BY <1>1, <1>2, <1>3, <1>4, <1>5, <1>6, <1>7, <1>8, <1>9, <1>10 DEF DesktopNext

LEMMA DesktopUsable == DesktopInv => WindowIsUsable
BY DEF DesktopInv, ShowsItsGoal, WindowIsUsable, Settled

\* However loads replace each other, fail or crash, a window that has settled shows the error
\* page, or a page of the app that a reconnect would load again.
THEOREM WindowCorrect == DesktopSpec => []WindowIsUsable
BY DesktopInitInv, DesktopStepInv, DesktopUsable, PTL DEF DesktopSpec

-----------------------------------------------------------------------------
(* Lists.                                                                  *)

Row == [id : Id, status : {"open", "ended"}]
PageOfRows == [rows : Seq(Row), next : 0..MaxRow, open : BOOLEAN]

ListsTypeOK ==
    /\ rows \in [Id -> {"unborn", "open", "ended", "gone"}]
    /\ panel \in Panels /\ filter \in Filters
    /\ book \in [Filters -> [read : BOOLEAN, from : 0..MaxRow, pages : Seq(PageOfRows),
                             error : {"none", "all", "further"}]]
    /\ request \in [stage : {"idle", "sent", "served"}, kind : {"all", "further"},
                    cursor : 0..MaxRow, got : Seq(PageOfRows), page : PageOfRows]

\* Rows are born in the order of their numbers, but where they come scattered.
InTurn == panel.changes # "scattered"
BirthsInTurn == InTurn => \A i, j \in Id : i < j /\ rows[j] # "unborn" => rows[i] # "unborn"

IdsOf(p) == {p.rows[n].id : n \in DOMAIN p.rows}

\* A page that was read after a cursor: its rows in order, the last of them the next cursor.
InOrder(p, cursor) ==
    /\ \A m, n \in DOMAIN p.rows : m < n => Sooner(p.rows[m].id, p.rows[n].id)
    /\ \A i \in IdsOf(p) : cursor > 0 => Sooner(cursor, i)
    /\ p.next > 0 =>
           /\ p.next \in IdsOf(p)
           /\ \A i \in IdsOf(p) : i = p.next \/ Sooner(i, p.next)

\* The rows that belong on a page and are not there.
Missing(p, cursor) == {i \in Id \ IdsOf(p) :
    /\ Exists(i)
    /\ cursor > 0 => Sooner(cursor, i)
    /\ p.next > 0 => Sooner(i, p.next)}

\* What was read existed by then, and what is missing came later: it is newer than all of it.
ComeLater(f, p, cursor) ==
    /\ cursor > 0 => rows[cursor] # "unborn"
    /\ \A i \in IdsOf(p) : rows[i] # "unborn"
    /\ f = "all" /\ InTurn =>
           \A i \in Missing(p, cursor) : cursor < i /\ p.next < i /\ \A j \in IdsOf(p) : j < i

PageHolds(f, p, cursor) == InOrder(p, cursor) /\ ComeLater(f, p, cursor)

\* The cursor with which a page was read, or the next one will be.
CursorOf(from, pages, k) == IF k = 1 THEN from ELSE pages[k - 1].next

\* Pages that follow each other from a cursor on: each goes on where every one before it ended.
Chain(f, from, pages) ==
    /\ from > 0 => rows[from] # "unborn"
    /\ \A k \in DOMAIN pages :
           /\ PageHolds(f, pages[k], CursorOf(from, pages, k))
           /\ \A i \in IdsOf(pages[k]) : from > 0 => Sooner(from, i)
           /\ \A j \in 1..(k - 1) :
                  pages[j].next > 0 /\ \A i \in IdsOf(pages[k]) : Sooner(pages[j].next, i)

\* What a request has so far: the pages it reads again, or those it adds one to.
SoFar == IF request.kind = "all" THEN request.got ELSE book[filter].pages

RequestFollows ==
    ~Still =>
        /\ Chain(filter, book[filter].from, SoFar)
        /\ request.cursor = CursorOf(book[filter].from, SoFar, Len(SoFar) + 1)
        /\ SoFar # <<>> => request.cursor > 0
        /\ request.kind = "further" => SoFar # <<>>
        /\ request.stage = "served" => PageHolds(filter, request.page, request.cursor)

ListsInv ==
    /\ ListsTypeOK /\ BirthsInTurn /\ RequestFollows
    /\ \A f \in Filters : Chain(f, book[f].from, book[f].pages)

-----------------------------------------------------------------------------
(* The order of a list, and its pages.                                     *)

LEMMA SoonerOrders ==
    ASSUME NEW i \in Id, NEW j \in Id
    PROVE  /\ ~(Sooner(i, j) /\ Sooner(j, i)) /\ ~Sooner(i, i)
           /\ i = j \/ Sooner(i, j) \/ Sooner(j, i)
           /\ \A k \in Id : Sooner(i, j) /\ Sooner(j, k) => Sooner(i, k)
BY DEF Sooner, Id

LEMMA FiniteRows ==
    ASSUME NEW S, S \subseteq Id
    PROVE  IsFiniteSet(S) /\ Cardinality(S) \in Nat
<1>1. IsFiniteSet(Id)
    BY FS_Interval, ListsAssumption DEF Id
<1>2. S \in SUBSET Id
    OBVIOUS
<1>3. IsFiniteSet(S)
    BY <1>1, <1>2, FS_Subset
<1>4. QED
    BY <1>3, FS_CardinalityType

\* A row has fewer rows before it than one that comes later, and fewer than there are.
LEMMA RankGrows ==
    ASSUME NEW S, S \subseteq Id, NEW i \in S
    PROVE  /\ Rank(i, S) \in 0..(Cardinality(S) - 1)
           /\ \A j \in S : Sooner(i, j) => Rank(i, S) < Rank(j, S)
           /\ \A T : T \subseteq S /\ (\A k \in S : Sooner(k, i) => k \in T) => Rank(i, T) = Rank(i, S)
<1> DEFINE Before(j) == {k \in S : Sooner(k, j)}
<1>1. \A j \in S : Rank(j, S) = Cardinality(Before(j)) /\ Before(j) \subseteq S
    BY DEF Rank
<1>2. \A X : X \subseteq S => IsFiniteSet(X) /\ Cardinality(X) \in Nat
    BY FiniteRows
<1>3. ASSUME NEW X, X \subseteq S, NEW Y, Y \subseteq X, NEW x \in X, x \notin Y
      PROVE  Cardinality(Y) < Cardinality(X)
    <2>1. Y \in SUBSET X /\ Y # X /\ IsFiniteSet(X) /\ Y \subseteq S
        BY <1>2, <1>3
    <2>2. Cardinality(Y) <= Cardinality(X) /\ Cardinality(X) # Cardinality(Y)
        BY <2>1, FS_Subset
    <2>3. QED
        BY <2>1, <2>2, <1>2, <1>3
<1>4. i \notin Before(i)
    BY SoonerOrders
<1>5. Rank(i, S) \in 0..(Cardinality(S) - 1)
    <2>1. Cardinality(Before(i)) < Cardinality(S)
        BY <1>1, <1>3, <1>4
    <2>2. Cardinality(Before(i)) \in Nat /\ Cardinality(S) \in Nat
        BY <1>1, <1>2
    <2>3. QED
        BY <2>1, <2>2, <1>1
<1>6. ASSUME NEW j \in S, Sooner(i, j) PROVE Rank(i, S) < Rank(j, S)
    <2>1. i \in Before(j) /\ Before(i) \subseteq Before(j)
        BY <1>6, SoonerOrders
    <2>2. QED
        BY <2>1, <1>1, <1>3, <1>4
<1>7. ASSUME NEW T, T \subseteq S, \A k \in S : Sooner(k, i) => k \in T
      PROVE  Rank(i, T) = Rank(i, S)
    <2>1. {k \in T : Sooner(k, i)} = {k \in S : Sooner(k, i)}
        BY <1>7
    <2>2. QED
        BY <2>1 DEF Rank
<1>8. QED
    BY <1>5, <1>6, <1>7

\* Of so many rows one has any smaller number of rows before it.
LEMMA NthIs ==
    ASSUME NEW S, S \subseteq Id, NEW k \in 1..Cardinality(S)
    PROVE  Nth(k, S) \in S /\ Rank(Nth(k, S), S) = k - 1
<1> DEFINE n == Cardinality(S)
           spot == [i \in S |-> Rank(i, S) + 1]
<1>1. IsFiniteSet(S) /\ n \in Nat
    BY FiniteRows
<1>2. spot \in [S -> 1..n]
    <2>1. \A i \in S : Rank(i, S) + 1 \in 1..n
        BY <1>1, RankGrows
    <2>2. QED
        BY <2>1
<1>3. \A i, j \in S : i # j => spot[i] # spot[j]
    <2> SUFFICES ASSUME NEW i \in S, NEW j \in S, i # j PROVE spot[i] # spot[j]
        OBVIOUS
    <2>1. Rank(i, S) \in Nat /\ Rank(j, S) \in Nat
        BY <1>1, RankGrows
    <2>2. Rank(i, S) < Rank(j, S) \/ Rank(j, S) < Rank(i, S)
        BY SoonerOrders, RankGrows
    <2>3. QED
        BY <2>1, <2>2
<1>4. spot \in Injection(S, 1..n)
    BY <1>2, <1>3 DEF Injection, IsInjective
<1>5. IsFiniteSet(1..n) /\ Cardinality(1..n) = n
    BY <1>1, FS_Interval
<1>6. spot \in Surjection(S, 1..n)
    BY <1>4, <1>5, FS_Injection
<1>7. \E i \in S : spot[i] = k
    BY <1>6 DEF Surjection
<1>8. \E i \in S : Rank(i, S) = k - 1
    <2>1. PICK i \in S : Rank(i, S) + 1 = k
        BY <1>7
    <2>2. Rank(i, S) \in Nat
        BY <1>1, RankGrows
    <2>3. QED
        BY <2>1, <2>2
<1>9. QED
    BY <1>8 DEF Nth

\* The rows that fit on a page come before those that do not.
LEMMA TakenFirst ==
    ASSUME NEW S, S \subseteq Id, NEW T, T = {i \in S : Rank(i, S) < PageSize}
    PROVE  /\ \A j \in T, i \in S : Sooner(i, j) => i \in T
           /\ T # S => T # {}
           /\ \A k \in 1..Cardinality(T) :
                  /\ Nth(k, T) \in T
                  /\ \A l \in 1..Cardinality(T) : k < l => Sooner(Nth(k, T), Nth(l, T))
           /\ \A i \in T : \E k \in 1..Cardinality(T) : Nth(k, T) = i
           /\ \A i \in T : i = Nth(Cardinality(T), T) \/ Sooner(i, Nth(Cardinality(T), T))
<1> DEFINE n == Cardinality(T)
<1>1. T \subseteq S /\ T \subseteq Id /\ PageSize \in Nat \ {0}
    BY ListsAssumption
<1>2. Cardinality(S) \in Nat /\ n \in Nat
    BY <1>1, FiniteRows
<1>3. \A i \in S : Rank(i, S) \in Nat /\ \A j \in S : Sooner(i, j) => Rank(i, S) < Rank(j, S)
    BY <1>2, RankGrows
<1>4. ASSUME NEW j \in T, NEW i \in S, Sooner(i, j) PROVE i \in T
    <2>1. Rank(i, S) < Rank(j, S) /\ Rank(j, S) < PageSize /\ Rank(i, S) \in Nat /\ Rank(j, S) \in Nat
        BY <1>1, <1>3, <1>4
    <2>2. Rank(i, S) < PageSize
        BY <2>1, <1>1
    <2>3. QED
        BY <2>2
<1>5. T # S => T # {}
    <2> SUFFICES ASSUME T # S PROVE T # {}
        OBVIOUS
    <2>1. S # {}
        BY <1>1
    <2>2. Cardinality(S) # 0
        BY <2>1, FiniteRows, FS_EmptySet
    <2>3. 1 \in 1..Cardinality(S)
        BY <2>2, <1>2
    <2>4. Nth(1, S) \in S /\ Rank(Nth(1, S), S) = 1 - 1
        BY <2>3, NthIs
    <2>5. Rank(Nth(1, S), S) < PageSize
        BY <2>4, <1>1
    <2>6. QED
        BY <2>4, <2>5
<1>6. \A k \in 1..n : Nth(k, T) \in T /\ Rank(Nth(k, T), T) = k - 1
    BY <1>1, NthIs
<1>7. \A i \in T : Rank(i, T) \in 0..(n - 1) /\ \A j \in T : Sooner(i, j) => Rank(i, T) < Rank(j, T)
    BY <1>1, RankGrows
<1>8. ASSUME NEW k \in 1..n, NEW l \in 1..n, k < l PROVE Sooner(Nth(k, T), Nth(l, T))
    <2>1. Nth(k, T) \in T /\ Nth(l, T) \in T /\ Rank(Nth(k, T), T) = k - 1 /\ Rank(Nth(l, T), T) = l - 1
        BY <1>6
    <2>2. ~(Rank(Nth(l, T), T) < Rank(Nth(k, T), T)) /\ Rank(Nth(l, T), T) # Rank(Nth(k, T), T)
        BY <2>1, <1>2, <1>8
    <2>3. ~Sooner(Nth(l, T), Nth(k, T)) /\ Nth(l, T) # Nth(k, T)
        BY <2>1, <2>2, <1>7
    <2>4. QED
        BY <2>1, <2>3, <1>1, SoonerOrders
<1>9. ASSUME NEW i \in T PROVE \E k \in 1..n : Nth(k, T) = i
    <2>1. Rank(i, T) + 1 \in 1..n /\ Rank(i, T) \in Nat
        BY <1>7, <1>2
    <2> DEFINE k == Rank(i, T) + 1
    <2>2. Nth(k, T) \in T /\ Rank(Nth(k, T), T) = Rank(i, T)
        BY <2>1, <1>6
    <2>3. ~Sooner(Nth(k, T), i) /\ ~Sooner(i, Nth(k, T))
        BY <2>1, <2>2, <1>7
    <2>4. Nth(k, T) = i
        BY <2>2, <2>3, <1>1, SoonerOrders
    <2>5. QED
        BY <2>1, <2>4
<1>10. ASSUME NEW i \in T PROVE i = Nth(n, T) \/ Sooner(i, Nth(n, T))
    <2>1. PICK k \in 1..n : Nth(k, T) = i
        BY <1>9
    <2>2. n \in 1..n /\ (k = n \/ k < n)
        BY <2>1, <1>2
    <2>3. QED
        BY <2>1, <2>2, <1>8
<1>11. QED
    BY <1>4, <1>5, <1>6, <1>8, <1>9, <1>10

\* A page that the server answers belongs after its cursor, and misses nothing then.
LEMMA PageIsRead ==
    ASSUME ListsTypeOK, NEW f \in Filters, NEW c \in 0..MaxRow, c > 0 => rows[c] # "unborn"
    PROVE  PageAt(c, f) \in PageOfRows /\ PageHolds(f, PageAt(c, f), c)
<1> DEFINE S == Below(c, f)
           T == {i \in S : Rank(i, S) < PageSize}
           n == Cardinality(T)
           p == PageAt(c, f)
<1>1. /\ S \subseteq Id /\ T \subseteq S
      /\ \A i \in S : rows[i] \in {"open", "ended"} /\ (c > 0 => Sooner(c, i))
      /\ f = "all" => \A i \in Id : Exists(i) /\ (c > 0 => Sooner(c, i)) => i \in S
    BY DEF Below, Matching, Exists
<1>2. n \in Nat /\ T \subseteq Id
    BY <1>1, FiniteRows
<1>3. /\ \A j \in T, i \in S : Sooner(i, j) => i \in T
      /\ T # S => T # {}
      /\ \A k \in 1..n : Nth(k, T) \in T /\ \A l \in 1..n : k < l => Sooner(Nth(k, T), Nth(l, T))
      /\ \A i \in T : \E k \in 1..n : Nth(k, T) = i
      /\ \A i \in T : i = Nth(n, T) \/ Sooner(i, Nth(n, T))
    BY <1>1, TakenFirst
<1>4. /\ p = [rows |-> [k \in 1..n |-> [id |-> Nth(k, T), status |-> rows[Nth(k, T)]]],
              next |-> IF T = S THEN 0 ELSE Nth(n, T),
              open |-> panel.polls = "head" /\ AnyOpen]
    BY DEF PageAt
<1> HIDE DEF S, T, n, p
<1>5. /\ DOMAIN p.rows = 1..n /\ \A k \in 1..n : p.rows[k].id = Nth(k, T)
      /\ p.next = IF T = S THEN 0 ELSE Nth(n, T)
    BY <1>4
<1>6. T # S => n \in 1..n /\ Nth(n, T) \in T
    <2> SUFFICES ASSUME T # S PROVE n \in 1..n
        BY <1>3
    <2>1. n # 0
        BY <1>2, <1>3, FiniteRows, FS_EmptySet DEF n
    <2>2. QED
        BY <2>1, <1>2
<1>7. \A i \in Id : i > 0 /\ i \in 0..MaxRow
    BY ListsAssumption DEF Id
<1>8. p \in PageOfRows
    <2>1. \A k \in 1..n : [id |-> Nth(k, T), status |-> rows[Nth(k, T)]] \in Row
        BY <1>1, <1>3, <1>2 DEF Row
    <2>2. [k \in 1..n |-> [id |-> Nth(k, T), status |-> rows[Nth(k, T)]]] \in Seq(Row)
        BY <2>1, <1>2
    <2>3. (IF T = S THEN 0 ELSE Nth(n, T)) \in 0..MaxRow
        BY <1>2, <1>6, <1>7, ListsAssumption
    <2>4. (panel.polls = "head" /\ AnyOpen) \in BOOLEAN
        OBVIOUS
    <2>5. QED
        BY <2>2, <2>3, <2>4, <1>4 DEF PageOfRows
<1>9. IdsOf(p) = T
    BY <1>3, <1>5 DEF IdsOf
<1>10. InOrder(p, c)
    <2>1. \A m, l \in DOMAIN p.rows : m < l => Sooner(p.rows[m].id, p.rows[l].id)
        BY <1>3, <1>5
    <2>2. \A i \in IdsOf(p) : c > 0 => Sooner(c, i)
        BY <1>1, <1>9
    <2>3. p.next > 0 => p.next \in IdsOf(p) /\ \A i \in IdsOf(p) : i = p.next \/ Sooner(i, p.next)
        BY <1>3, <1>5, <1>6, <1>9
    <2>4. QED
        BY <2>1, <2>2, <2>3 DEF InOrder
<1>11. ComeLater(f, p, c)
    <2>1. \A i \in IdsOf(p) : rows[i] # "unborn"
        BY <1>1, <1>9
    <2>2. f = "all" => Missing(p, c) = {}
        <3> SUFFICES ASSUME f = "all", NEW i \in Missing(p, c) PROVE FALSE
            OBVIOUS
        <3>1. i \in S /\ i \notin T
            BY <1>1, <1>9 DEF Missing
        <3>2. p.next = Nth(n, T) /\ Nth(n, T) \in T /\ Nth(n, T) > 0
            BY <3>1, <1>2, <1>5, <1>6, <1>7
        <3>3. Sooner(i, Nth(n, T))
            BY <3>2 DEF Missing
        <3>4. QED
            BY <3>1, <3>2, <3>3, <1>3
    <2>3. QED
        BY <2>1, <2>2 DEF ComeLater
<1>12. QED
    BY <1>8, <1>10, <1>11 DEF PageHolds, p

-----------------------------------------------------------------------------
(* Pages that follow each other.                                           *)

LEMMA PageTyped ==
    ASSUME NEW p \in PageOfRows
    PROVE  IdsOf(p) \subseteq Id /\ p.next \in 0..MaxRow /\ p.next \in Nat
<1>1. p.rows \in Seq(Row) /\ p.next \in 0..MaxRow
    BY DEF PageOfRows
<1>2. \A n \in DOMAIN p.rows : p.rows[n] \in Row
    BY <1>1
<1>3. IdsOf(p) \subseteq Id
    BY <1>2 DEF IdsOf, Row
<1>4. QED
    BY <1>1, <1>3, ListsAssumption

LEMMA IdIsNumber == \A i : i \in Id <=> i \in 0..MaxRow /\ i > 0
BY ListsAssumption DEF Id

\* One more page, read where the last one ended.
LEMMA AppendChain ==
    ASSUME NEW f, NEW from \in 0..MaxRow, NEW S \in Seq(PageOfRows), NEW p \in PageOfRows, NEW c,
           Chain(f, from, S), c = CursorOf(from, S, Len(S) + 1), S # <<>> => c > 0,
           PageHolds(f, p, c)
    PROVE  Chain(f, from, Append(S, p))
<1> DEFINE n == Len(S)
           L == Append(S, p)
<1>1. n \in Nat /\ DOMAIN S = 1..n /\ DOMAIN L = 1..(n + 1) /\ L[n + 1] = p
      /\ \A k \in 1..n : L[k] = S[k] /\ S[k] \in PageOfRows
    OBVIOUS
<1> HIDE DEF n, L
<1>2. IdsOf(p) \subseteq Id /\ \A k \in 1..n : IdsOf(S[k]) \subseteq Id
    BY <1>1, PageTyped
<1>3. /\ from > 0 => rows[from] # "unborn"
      /\ \A k \in 1..n :
             /\ PageHolds(f, S[k], CursorOf(from, S, k))
             /\ \A i \in IdsOf(S[k]) : from > 0 => Sooner(from, i)
             /\ \A j \in 1..(k - 1) : S[j].next > 0 /\ \A i \in IdsOf(S[k]) : Sooner(S[j].next, i)
    BY <1>1 DEF Chain
<1>4. \A k \in 1..(n + 1) : CursorOf(from, L, k) = CursorOf(from, S, k)
    BY <1>1 DEF CursorOf
<1>5. \A i \in IdsOf(p) : c > 0 => Sooner(c, i)
    BY DEF PageHolds, InOrder
<1>6. n = 0 => c = from
    BY DEF CursorOf, n
<1>7. n > 0 => c = S[n].next /\ c > 0 /\ c \in IdsOf(S[n]) /\ n \in 1..n
    <2> SUFFICES ASSUME n > 0 PROVE c = S[n].next /\ c > 0 /\ c \in IdsOf(S[n]) /\ n \in 1..n
        OBVIOUS
    <2>1. n \in 1..n /\ S # <<>>
        BY <1>1 DEF n
    <2>2. c = S[n].next
        BY <1>1 DEF CursorOf, n
    <2>3. QED
        BY <2>1, <2>2, <1>3 DEF PageHolds, InOrder
<1>8. ASSUME NEW i \in IdsOf(p), from > 0 PROVE Sooner(from, i)
    <2>1. CASE n = 0
        BY <2>1, <1>5, <1>6, <1>8
    <2>2. CASE n > 0
        <3>1. Sooner(from, c) /\ Sooner(c, i)
            BY <2>2, <1>3, <1>5, <1>7, <1>8
        <3>2. from \in Id /\ c \in Id /\ i \in Id
            BY <2>2, <1>2, <1>7, <1>8, IdIsNumber
        <3>3. QED
            BY <3>1, <3>2, SoonerOrders
    <2>3. QED
        BY <2>1, <2>2, <1>1
<1>9. ASSUME NEW j \in 1..n, NEW i \in IdsOf(p) PROVE S[j].next > 0 /\ Sooner(S[j].next, i)
    <2>1. c = S[n].next /\ c > 0 /\ c \in IdsOf(S[n]) /\ n \in 1..n /\ (j = n \/ j \in 1..(n - 1))
        BY <1>1, <1>7, <1>9
    <2>2. CASE j = n
        BY <2>1, <2>2, <1>5
    <2>3. CASE j \in 1..(n - 1)
        <3>1. S[j].next > 0 /\ Sooner(S[j].next, c) /\ Sooner(c, i)
            BY <2>1, <2>3, <1>3, <1>5
        <3>2. S[j].next \in 0..MaxRow
            BY <1>1, PageTyped
        <3>3. S[j].next \in Id /\ c \in Id /\ i \in Id
            BY <2>1, <3>1, <3>2, <1>2, IdIsNumber
        <3>4. QED
            BY <3>1, <3>3, SoonerOrders
    <2>4. QED
        BY <2>1, <2>2, <2>3
<1>10. ASSUME NEW j \in 1..n PROVE S[j].next > 0
    <2>1. c = S[n].next /\ c > 0 /\ n \in 1..n /\ (j = n \/ j \in 1..(n - 1))
        BY <1>1, <1>7, <1>10
    <2>2. QED
        BY <2>1, <1>3
<1>11. ASSUME NEW k \in 1..(n + 1)
       PROVE  /\ PageHolds(f, L[k], CursorOf(from, L, k))
              /\ \A i \in IdsOf(L[k]) : from > 0 => Sooner(from, i)
              /\ \A j \in 1..(k - 1) : L[j].next > 0 /\ \A i \in IdsOf(L[k]) : Sooner(L[j].next, i)
    <2>1. CASE k \in 1..n
        <3>1. L[k] = S[k] /\ CursorOf(from, L, k) = CursorOf(from, S, k)
              /\ \A j \in 1..(k - 1) : L[j] = S[j]
            BY <2>1, <1>1, <1>4
        <3>2. QED
            BY <2>1, <3>1, <1>3
    <2>2. CASE k = n + 1
        <3>1. L[k] = p /\ CursorOf(from, L, k) = c /\ k - 1 = n
            BY <2>2, <1>1, <1>4 DEF n
        <3>2. \A j \in 1..n : L[j] = S[j]
            BY <1>1
        <3>3. QED
            BY <3>1, <3>2, <1>8, <1>9, <1>10
    <2>3. QED
        BY <2>1, <2>2, <1>1
<1>12. Chain(f, from, L)
    BY <1>1, <1>3, <1>11 DEF Chain
<1>13. QED
    BY <1>12 DEF L

\* The first page makes room.
LEMMA TailChain ==
    ASSUME NEW f, NEW from \in 0..MaxRow, NEW S \in Seq(PageOfRows), Len(S) > 1, Chain(f, from, S)
    PROVE  Chain(f, S[1].next, Tail(S))
<1> DEFINE n == Len(S)
           L == Tail(S)
           to == S[1].next
<1>1. n \in Nat /\ n > 1 /\ DOMAIN S = 1..n /\ DOMAIN L = 1..(n - 1)
      /\ \A k \in 1..(n - 1) : L[k] = S[k + 1]
    OBVIOUS
<1>2. \A k \in 1..(n - 1) : CursorOf(to, L, k) = CursorOf(from, S, k + 1)
    <2> SUFFICES ASSUME NEW k \in 1..(n - 1) PROVE CursorOf(to, L, k) = CursorOf(from, S, k + 1)
        OBVIOUS
    <2>1. CursorOf(from, S, k + 1) = S[k].next
        BY DEF CursorOf
    <2>2. CASE k = 1
        BY <2>1, <2>2 DEF CursorOf
    <2>3. CASE k > 1
        <3>1. k - 1 \in 1..(n - 1) /\ (k - 1) + 1 = k
            BY <2>3, <1>1
        <3>2. L[k - 1] = S[k]
            BY <3>1, <1>1
        <3>3. QED
            BY <2>1, <2>3, <3>2 DEF CursorOf
    <2>4. QED
        BY <2>2, <2>3, <1>1
<1> HIDE DEF n, L, to
<1>3. \A k \in 1..n :
          /\ PageHolds(f, S[k], CursorOf(from, S, k))
          /\ \A j \in 1..(k - 1) : S[j].next > 0 /\ \A i \in IdsOf(S[k]) : Sooner(S[j].next, i)
    BY <1>1 DEF Chain
<1>4. to > 0 => rows[to] # "unborn"
    <2>1. 1 \in 1..n
        BY <1>1
    <2>2. QED
        BY <2>1, <1>3 DEF PageHolds, InOrder, ComeLater, to
<1>5. ASSUME NEW k \in 1..(n - 1)
      PROVE  /\ PageHolds(f, L[k], CursorOf(to, L, k))
             /\ \A i \in IdsOf(L[k]) : to > 0 => Sooner(to, i)
             /\ \A j \in 1..(k - 1) : L[j].next > 0 /\ \A i \in IdsOf(L[k]) : Sooner(L[j].next, i)
    <2>1. k + 1 \in 1..n /\ 1 \in 1..((k + 1) - 1) /\ L[k] = S[k + 1]
          /\ \A j \in 1..(k - 1) : j + 1 \in 1..((k + 1) - 1) /\ L[j] = S[j + 1]
        BY <1>1
    <2>2. QED
        BY <2>1, <1>2, <1>3 DEF to
<1>6. Chain(f, to, L)
    BY <1>1, <1>4, <1>5 DEF Chain
<1>7. QED
    BY <1>6 DEF L, to

LEMMA EmptyChain ==
    ASSUME NEW f, NEW from, from > 0 => rows[from] # "unborn"
    PROVE  Chain(f, from, <<>>)
BY DEF Chain

\* Rows that were born stay so, and where they come in turn, those that come later are newer.
RowsGo ==
    /\ panel' = panel
    /\ \A i \in Id : rows[i] # "unborn" => rows'[i] # "unborn"
    /\ InTurn => \A i \in Id : rows'[i] \in {"open", "ended"} /\ ~Exists(i) =>
           \A j \in Id : rows[j] # "unborn" => j < i

\* What was read stays right whatever becomes of the rows.
LEMMA PageStays ==
    ASSUME RowsGo, NEW f, NEW p \in PageOfRows, NEW c \in 0..MaxRow, PageHolds(f, p, c)
    PROVE  PageHolds(f, p, c)'
<1>1. IdsOf(p) \subseteq Id /\ p.next \in 0..MaxRow /\ p.next \in Nat
    BY PageTyped
<1>2. InOrder(p, c)'
    BY DEF RowsGo, PageHolds, InOrder, Sooner
<1>3. c > 0 => rows[c] # "unborn" /\ c \in Id /\ rows'[c] # "unborn"
    BY IdIsNumber DEF RowsGo, PageHolds, ComeLater
<1>4. \A i \in IdsOf(p) : rows[i] # "unborn" /\ rows'[i] # "unborn"
    BY <1>1 DEF RowsGo, PageHolds, ComeLater
<1>5. p.next > 0 => p.next \in IdsOf(p)
    BY DEF PageHolds, InOrder
<1>6. ASSUME f = "all", InTurn', NEW i \in Missing(p, c)'
      PROVE  c < i /\ p.next < i /\ \A j \in IdsOf(p) : j < i
    <2>1. InTurn /\ i \in Id /\ i \notin IdsOf(p) /\ rows'[i] \in {"open", "ended"}
          /\ (c > 0 => Sooner(c, i)) /\ (p.next > 0 => Sooner(i, p.next))
        BY <1>6 DEF RowsGo, InTurn, Missing, Exists, Sooner
    <2>2. CASE Exists(i)
        <3>1. i \in Missing(p, c)
            BY <2>1, <2>2 DEF Missing
        <3>2. QED
            BY <2>1, <3>1, <1>6 DEF PageHolds, ComeLater
    <2>3. CASE ~Exists(i)
        <3>1. \A j \in Id : rows[j] # "unborn" => j < i
            BY <2>1, <2>3 DEF RowsGo
        <3>2. i > 0
            BY <2>1, IdIsNumber
        <3>3. \A j \in IdsOf(p) : j < i
            BY <3>1, <1>1, <1>4
        <3>4. c < i
            BY <3>1, <3>2, <1>3
        <3>5. p.next < i
            BY <3>2, <3>3, <1>1, <1>5
        <3>6. QED
            BY <3>3, <3>4, <3>5
    <2>4. QED
        BY <2>2, <2>3
<1>7. ComeLater(f, p, c)'
    BY <1>3, <1>4, <1>6 DEF ComeLater
<1>8. QED
    BY <1>2, <1>7 DEF PageHolds

LEMMA CursorTyped ==
    ASSUME NEW from \in 0..MaxRow, NEW S \in Seq(PageOfRows), NEW k \in 1..(Len(S) + 1)
    PROVE  CursorOf(from, S, k) \in 0..MaxRow
<1>1. CASE k = 1
    BY <1>1 DEF CursorOf
<1>2. CASE k # 1
    <2>1. k - 1 \in 1..Len(S)
        BY <1>2
    <2>2. S[k - 1] \in PageOfRows
        BY <2>1
    <2>3. QED
        BY <2>2, <1>2, PageTyped DEF CursorOf
<1>3. QED
    BY <1>1, <1>2

LEMMA ChainStays ==
    ASSUME RowsGo, NEW f, NEW from \in 0..MaxRow, NEW S \in Seq(PageOfRows), Chain(f, from, S)
    PROVE  Chain(f, from, S)'
<1>1. from > 0 => rows'[from] # "unborn"
    BY IdIsNumber DEF Chain, RowsGo
<1>2. ASSUME NEW k \in DOMAIN S
      PROVE  /\ PageHolds(f, S[k], CursorOf(from, S, k))'
             /\ \A i \in IdsOf(S[k]) : from > 0 => Sooner(from, i)'
             /\ \A j \in 1..(k - 1) :
                    S[j].next > 0 /\ \A i \in IdsOf(S[k]) : Sooner(S[j].next, i)'
    <2>1. k \in 1..(Len(S) + 1) /\ S[k] \in PageOfRows
        OBVIOUS
    <2>2. PICK c : c = CursorOf(from, S, k)
        OBVIOUS
    <2>3. c \in 0..MaxRow /\ PageHolds(f, S[k], c)
        BY <2>1, <2>2, <1>2, CursorTyped DEF Chain
    <2>4. PICK p \in PageOfRows : p = S[k]
        BY <2>1
    <2>5. PageHolds(f, p, c)'
        BY <2>3, <2>4, PageStays
    <2>6. panel' = panel
        BY DEF RowsGo
    <2>7. QED
        BY <2>2, <2>4, <2>5, <2>6, <1>2 DEF Chain, Sooner
<1>3. QED
    BY <1>1, <1>2 DEF Chain

\* A set of numbers has a least one.
LEMMA LeastOf ==
    ASSUME NEW X, X \subseteq Nat, X # {}
    PROVE  \E x \in X : \A y \in X : x <= y
<1> DEFINE R == OpToRel(<, Nat)
<1>1. R = {pair \in Nat \X Nat : pair[1] < pair[2]}
    BY DEF OpToRel
<1>2. IsWellFoundedOn(R, Nat)
    BY NatLessThanWellFounded
<1> HIDE DEF R
<1>3. PICK x \in X : \A y \in X : ~(<<y, x>> \in R)
    BY <1>2, WFMin
<1>4. ASSUME NEW y \in X PROVE x <= y
    <2>1. x \in Nat /\ y \in Nat /\ <<y, x>> \notin {pair \in Nat \X Nat : pair[1] < pair[2]}
        BY <1>1, <1>3
    <2>2. QED
        BY <2>1
<1>5. QED
    BY <1>4

\* A row between two that are on pages which follow each other is on one of them: else it would
\* belong on the first page that does not end before it, and have come after that was read.
LEMMA NothingBetween ==
    ASSUME NEW from \in 0..MaxRow, NEW S \in Seq(PageOfRows), Chain("all", from, S), InTurn,
           NEW a \in DOMAIN S, NEW b \in DOMAIN S, NEW u \in IdsOf(S[a]), NEW v \in IdsOf(S[b]),
           NEW i \in Id, Exists(i), Sooner(u, i), Sooner(i, v)
    PROVE  \E k \in DOMAIN S : i \in IdsOf(S[k])
<1> DEFINE n == Len(S)
<1>1. n \in Nat /\ DOMAIN S = 1..n /\ \A k \in 1..n : S[k] \in PageOfRows
    OBVIOUS
<1>2. \A k \in 1..n : IdsOf(S[k]) \subseteq Id /\ S[k].next \in 0..MaxRow /\ S[k].next \in Nat
    BY <1>1, PageTyped
<1>3. /\ \A k \in 1..n :
             /\ PageHolds("all", S[k], CursorOf(from, S, k))
             /\ \A x \in IdsOf(S[k]) : from > 0 => Sooner(from, x)
             /\ \A j \in 1..(k - 1) : S[j].next > 0 /\ \A x \in IdsOf(S[k]) : Sooner(S[j].next, x)
    BY <1>1 DEF Chain
<1> SUFFICES ASSUME \A k \in 1..n : i \notin IdsOf(S[k]) PROVE FALSE
    BY <1>1
<1>4. u \in Id /\ v \in Id /\ a \in 1..n /\ b \in 1..n
    BY <1>1, <1>2
<1> DEFINE Ahead == {k \in 1..n : S[k].next > 0 => Sooner(i, S[k].next)}
<1>5. b \in Ahead
    <2> SUFFICES ASSUME S[b].next > 0 PROVE Sooner(i, S[b].next)
        BY <1>4
    <2>1. v = S[b].next \/ Sooner(v, S[b].next)
        BY <1>3, <1>4 DEF PageHolds, InOrder
    <2>2. S[b].next \in Id
        BY <1>2, <1>4, IdIsNumber
    <2>3. QED
        BY <2>1, <2>2, <1>4, SoonerOrders
<1>6. PICK k \in Ahead : \A j \in Ahead : k <= j
    <2>1. Ahead \subseteq Nat /\ Ahead # {}
        BY <1>5
    <2>2. QED
        BY <2>1, LeastOf
<1>7. k \in 1..n /\ (S[k].next > 0 => Sooner(i, S[k].next)) /\ k <= b
    BY <1>5, <1>6
\* The pages before it end before the row.
<1>8. ASSUME NEW j \in 1..(k - 1)
      PROVE  j \in 1..n /\ S[j].next > 0 /\ Sooner(S[j].next, i) /\ S[j].next \in Id
    <2>1. j \in 1..n /\ j \notin Ahead
        BY <1>1, <1>6, <1>7
    <2>2. S[j].next > 0 /\ ~Sooner(i, S[j].next)
        BY <2>1
    <2>3. S[j].next \in IdsOf(S[j])
        BY <2>1, <2>2, <1>3 DEF PageHolds, InOrder
    <2>4. S[j].next # i /\ S[j].next \in Id
        BY <2>1, <2>3, <1>2
    <2>5. QED
        BY <2>1, <2>2, <2>4, SoonerOrders
<1>9. PICK c \in 0..MaxRow : c = CursorOf(from, S, k)
    <2>1. k \in 1..(Len(S) + 1)
        BY <1>1, <1>7
    <2>2. QED
        BY <2>1, CursorTyped
<1>10. from > 0 => Sooner(from, i)
    <2> SUFFICES ASSUME from > 0 PROVE Sooner(from, i)
        OBVIOUS
    <2>1. Sooner(from, u) /\ from \in Id
        BY <1>3, <1>4, IdIsNumber
    <2>2. QED
        BY <2>1, <1>4, SoonerOrders
<1>11. c > 0 => Sooner(c, i)
    <2>1. CASE k = 1
        BY <2>1, <1>9, <1>10 DEF CursorOf
    <2>2. CASE k # 1
        <3>1. k - 1 \in 1..(k - 1)
            BY <2>2, <1>7
        <3>2. QED
            BY <2>2, <3>1, <1>8, <1>9 DEF CursorOf
    <2>3. QED
        BY <2>1, <2>2
<1>12. i \in Missing(S[k], c)
    BY <1>1, <1>7, <1>11 DEF Missing
<1>13. c < i /\ S[k].next < i /\ \A j \in IdsOf(S[k]) : j < i
    BY <1>3, <1>7, <1>9, <1>12 DEF PageHolds, ComeLater
<1>14. c \in Nat /\ i \in Nat /\ u \in Nat /\ v \in Nat
    BY <1>4, ListsAssumption DEF Id
<1>15. CASE panel.first = "newest"
    <2>1. \A x, y : Sooner(x, y) <=> x > y
        BY <1>15 DEF Sooner
    <2>2. c = 0
        BY <2>1, <1>11, <1>13, <1>14
    <2>3. k = 1
        <3> SUFFICES ASSUME k # 1 PROVE FALSE
            OBVIOUS
        <3>1. k - 1 \in 1..(k - 1)
            BY <1>7
        <3>2. c = S[k - 1].next /\ S[k - 1].next > 0
            BY <3>1, <1>8, <1>9 DEF CursorOf
        <3>3. QED
            BY <3>2, <2>2
    <2>4. CASE a = 1
        BY <2>1, <2>3, <2>4, <1>13, <1>14
    <2>5. CASE a # 1
        <3>1. 1 \in 1..(a - 1)
            BY <2>5, <1>4
        <3>2. S[1].next > 0 /\ Sooner(S[1].next, u)
            BY <3>1, <1>3, <1>4
        <3>3. S[1].next > u /\ u > i /\ S[1].next < i /\ S[1].next \in Nat
            BY <3>2, <2>1, <2>3, <1>2, <1>7, <1>13
        <3>4. QED
            BY <3>3, <1>14
    <2>6. QED
        BY <2>4, <2>5
<1>16. CASE panel.first # "newest"
    <2>1. \A x, y : Sooner(x, y) <=> x < y
        BY <1>16 DEF Sooner
    <2>2. S[k].next = 0
        <3>1. S[k].next > 0 => i < S[k].next
            BY <2>1, <1>7
        <3>2. S[k].next \in Nat
            BY <1>2, <1>7
        <3>3. QED
            BY <3>1, <3>2, <1>13, <1>14
    <2>3. ~(k < b)
        <3> SUFFICES ASSUME k < b PROVE FALSE
            OBVIOUS
        <3>1. k \in 1..(b - 1)
            BY <1>4, <1>7
        <3>2. S[k].next > 0
            BY <3>1, <1>3, <1>4
        <3>3. QED
            BY <3>2, <2>2
    <2>4. k = b
        BY <2>3, <1>4, <1>7
    <2>5. v < i /\ i < v
        BY <2>1, <2>4, <1>13
    <2>6. QED
        BY <2>5, <1>14
<1>17. QED
    BY <1>15, <1>16

LEMMA ListsContiguous == ListsInv => PagesContiguous
<1> SUFFICES ASSUME ListsInv, NEW f \in Filters
             PROVE  LET pages == book[f].pages
                        ids == {row.id : row \in RowsOf(pages)}
                    IN  /\ \A k, l \in DOMAIN pages :
                               \A m \in DOMAIN pages[k].rows, n \in DOMAIN pages[l].rows :
                                   k < l \/ (k = l /\ m < n) =>
                                       Sooner(pages[k].rows[m].id, pages[l].rows[n].id)
                        /\ f = "all" /\ panel.changes # "scattered" =>
                               \A i \in Id : Exists(i) /\ (\E u, v \in ids : Sooner(u, i) /\ Sooner(i, v))
                                                 => i \in ids
    BY DEF PagesContiguous
<1>1. PICK S, from : S = book[f].pages /\ from = book[f].from
    OBVIOUS
<1>2. S \in Seq(PageOfRows) /\ from \in 0..MaxRow /\ Chain(f, from, S)
    BY <1>1 DEF ListsInv, ListsTypeOK
<1>3. \A k \in DOMAIN S : S[k] \in PageOfRows /\ k \in Nat /\ k > 0
    BY <1>2
<1>4. ASSUME NEW k \in DOMAIN S, NEW l \in DOMAIN S, NEW m \in DOMAIN S[k].rows,
             NEW n \in DOMAIN S[l].rows, k < l \/ (k = l /\ m < n)
      PROVE  Sooner(S[k].rows[m].id, S[l].rows[n].id)
    <2>1. S[k].rows[m].id \in IdsOf(S[k]) /\ S[l].rows[n].id \in IdsOf(S[l])
        BY DEF IdsOf
    <2>2. CASE k = l /\ m < n
        BY <2>2, <1>2 DEF Chain, PageHolds, InOrder
    <2>3. CASE k < l
        <3>1. k \in 1..(l - 1)
            BY <2>3, <1>3
        <3>2. S[k].next > 0 /\ Sooner(S[k].next, S[l].rows[n].id)
            BY <3>1, <2>1, <1>2 DEF Chain
        <3>3. /\ S[k].next \in IdsOf(S[k])
              /\ S[k].rows[m].id = S[k].next \/ Sooner(S[k].rows[m].id, S[k].next)
            BY <3>2, <2>1, <1>2 DEF Chain, PageHolds, InOrder
        <3>4. IdsOf(S[k]) \subseteq Id /\ IdsOf(S[l]) \subseteq Id
            BY <1>3, PageTyped
        <3>5. QED
            BY <3>2, <3>3, <3>4, <2>1, SoonerOrders
    <2>4. QED
        BY <2>2, <2>3, <1>4
<1>5. \A i : i \in {row.id : row \in RowsOf(S)} <=> \E k \in DOMAIN S : i \in IdsOf(S[k])
    BY DEF RowsOf, ToSet, IdsOf
<1>6. ASSUME f = "all", InTurn, NEW i \in Id, Exists(i),
             NEW u \in {row.id : row \in RowsOf(S)}, NEW v \in {row.id : row \in RowsOf(S)},
             Sooner(u, i), Sooner(i, v)
      PROVE  i \in {row.id : row \in RowsOf(S)}
    <2>1. PICK a \in DOMAIN S, b \in DOMAIN S : u \in IdsOf(S[a]) /\ v \in IdsOf(S[b])
        BY <1>5
    <2>2. \E k \in DOMAIN S : i \in IdsOf(S[k])
        BY <2>1, <1>2, <1>6, NothingBetween
    <2>3. QED
        BY <2>2, <1>5
<1>7. QED
    BY <1>1, <1>4, <1>6 DEF InTurn

-----------------------------------------------------------------------------
(* The steps of a list.                                                    *)

BookShape == [read : BOOLEAN, from : 0..MaxRow, pages : Seq(PageOfRows), error : {"none", "all", "further"}]
RequestShape == [stage : {"idle", "sent", "served"}, kind : {"all", "further"},
                 cursor : 0..MaxRow, got : Seq(PageOfRows), page : PageOfRows]

LEMMA NothingRead ==
    /\ Empty \in BookShape /\ Empty.from = 0 /\ Empty.pages = <<>>
    /\ Quiet \in RequestShape /\ Quiet.stage = "idle"
    /\ \A b \in BookShape : /\ Again(b) \in RequestShape /\ Again(b).stage = "sent"
                            /\ Again(b).kind = "all" /\ Again(b).cursor = b.from /\ Again(b).got = <<>>
<1>1. 0 \in 0..MaxRow /\ <<>> \in Seq(Row) /\ <<>> \in Seq(PageOfRows)
    BY ListsAssumption
<1>2. Empty \in BookShape /\ Empty.from = 0 /\ Empty.pages = <<>>
    BY <1>1 DEF Empty, BookShape
<1>3. [rows |-> <<>>, next |-> 0, open |-> FALSE] \in PageOfRows
    BY <1>1 DEF PageOfRows
<1>4. Quiet \in RequestShape /\ Quiet.stage = "idle" /\ Quiet.kind = "all" /\ Quiet.got = <<>>
    BY <1>1, <1>3 DEF Quiet, RequestShape
<1>5. ASSUME NEW b \in BookShape
      PROVE  /\ Again(b) \in RequestShape /\ Again(b).stage = "sent"
             /\ Again(b).kind = "all" /\ Again(b).cursor = b.from /\ Again(b).got = <<>>
    <2>1. b.from \in 0..MaxRow
        BY DEF BookShape
    <2>2. Again(b) = [Quiet EXCEPT !.stage = "sent", !.cursor = b.from]
        BY DEF Again
    <2>3. QED
        BY <2>1, <2>2, <1>4 DEF RequestShape
<1>6. QED
    BY <1>2, <1>4, <1>5

LEMMA PanelFacts ==
    panel \in Panels => panel.most \in Nat \ {0} /\ (panel = Grants => panel.changes = "scattered")
<1> SUFFICES ASSUME panel \in Panels PROVE panel.most \in {1, FewPages, ManyPages}
    BY ListsAssumption DEF Grants
<1>1. CASE panel \in {JobList, JobRecord, ExportsPanel, AttachmentsPanel, DocumentList, BaseList, Grants}
    BY <1>1 DEF JobList, JobRecord, ExportsPanel, AttachmentsPanel, DocumentList, BaseList, Grants
<1>2. CASE panel \in {MembersList, KeyList, Inbox, History, ExportResult, Monitoring, SystemStatus}
    BY <1>2 DEF MembersList, KeyList, Inbox, History, ExportResult, Monitoring, SystemStatus
<1>3. QED
    BY <1>1, <1>2 DEF Panels

LEMMA ListsInitInv == ListsInit => ListsInv
<1> SUFFICES ASSUME ListsInit PROVE ListsInv
    OBVIOUS
<1> USE DEF ListsInit
<1>1. /\ \A f \in Filters : book[f] = Empty
      /\ book \in [Filters -> BookShape] /\ request = Again(Empty) /\ "all" \in Filters
    BY NothingRead DEF Filters
<1>2. ListsTypeOK
    <2>1. rows \in [Id -> {"unborn", "open", "ended", "gone"}]
        OBVIOUS
    <2>2. request \in RequestShape
        BY <1>1, NothingRead
    <2>3. QED
        BY <1>1, <2>1, <2>2 DEF ListsTypeOK, BookShape, RequestShape
<1>3. BirthsInTurn
    BY DEF BirthsInTurn
<1>4. \A f \in Filters : Chain(f, book[f].from, book[f].pages)
    BY <1>1, NothingRead, EmptyChain
<1>5. RequestFollows
    <2>1. SoFar = <<>> /\ book[filter].from = 0 /\ request.cursor = 0 /\ request.stage = "sent"
          /\ request.kind = "all"
        BY <1>1, NothingRead DEF SoFar
    <2>2. Chain(filter, 0, <<>>)
        BY EmptyChain
    <2>3. CursorOf(0, <<>>, Len(<<>>) + 1) = 0
        BY DEF CursorOf
    <2>4. QED
        BY <2>1, <2>2, <2>3 DEF RequestFollows
<1>6. QED
    BY <1>2, <1>3, <1>4, <1>5 DEF ListsInv

LEMMA RowChangesGo ==
    ASSUME ListsTypeOK, BirthsInTurn, RowChanges
    PROVE  /\ RowsGo /\ BirthsInTurn'
           /\ rows' \in [Id -> {"unborn", "open", "ended", "gone"}]
<1>1. panel' = panel /\ rows \in [Id -> {"unborn", "open", "ended", "gone"}]
    BY DEF RowChanges, ListsTypeOK
<1>2. panel = Grants => ~InTurn
    BY PanelFacts DEF ListsTypeOK, InTurn
<1>3. PICK i \in Id, s \in {"open", "ended", "gone"} :
          /\ rows' = [rows EXCEPT ![i] = s]
          /\ \/ rows[i] = "unborn" /\ (InTurn => \A j \in Id : j < i => rows[j] # "unborn")
             \/ ~InTurn /\ rows[i] = "gone"
             \/ Exists(i)
    <2>1. PICK i \in Id :
          \/ /\ rows[i] = "unborn" \/ (panel = Grants /\ rows[i] = "gone")
             /\ panel.changes = "scattered" \/ \A j \in Id : j < i => rows[j] # "unborn"
             /\ rows' = [rows EXCEPT ![i] = "open"]
          \/ rows[i] = "open" /\ rows' = [rows EXCEPT ![i] = "ended"]
          \/ rows[i] = "ended" /\ rows' = [rows EXCEPT ![i] = "open"]
          \/ Exists(i) /\ rows' = [rows EXCEPT ![i] = "gone"]
        BY DEF RowChanges
    <2>2. QED
        BY <2>1, <1>2 DEF InTurn, Exists
<1>4. /\ rows' \in [Id -> {"unborn", "open", "ended", "gone"}]
      /\ rows'[i] = s /\ \A j \in Id : j # i => rows'[j] = rows[j]
    BY <1>1, <1>3
<1>5. \A j \in Id : rows[j] # "unborn" => rows'[j] # "unborn"
    BY <1>4
<1>6. \A j, k \in Id : j = k \/ j < k \/ k < j
    BY DEF Id
<1>7. ASSUME InTurn, NEW k \in Id, rows'[k] \in {"open", "ended"}, ~Exists(k),
             NEW j \in Id, rows[j] # "unborn"
      PROVE  j < k
    <2>1. k = i /\ rows[i] = "unborn" /\ j # i
        BY <1>3, <1>4, <1>7 DEF Exists
    <2>2. ~(i < j)
        BY <2>1, <1>7 DEF BirthsInTurn
    <2>3. QED
        BY <2>1, <2>2, <1>6
<1>8. BirthsInTurn'
    <2> SUFFICES ASSUME InTurn', NEW j \in Id, NEW k \in Id, j < k, rows'[k] # "unborn"
                 PROVE  rows'[j] # "unborn"
        BY DEF BirthsInTurn
    <2>1. InTurn
        BY <1>1 DEF InTurn
    <2>2. CASE rows[k] # "unborn"
        BY <2>1, <2>2, <1>5 DEF BirthsInTurn
    <2>3. CASE rows[k] = "unborn"
        BY <2>1, <2>3, <1>3, <1>4, <1>5 DEF Exists
    <2>4. QED
        BY <2>2, <2>3
<1>9. QED
    BY <1>1, <1>4, <1>5, <1>7, <1>8 DEF RowsGo

\* Whatever else happens leaves the rows alone.
LEMMA RowsRest ==
    ASSUME ListsTypeOK, BirthsInTurn, rows' = rows, panel' = panel
    PROVE  RowsGo /\ BirthsInTurn'
BY DEF RowsGo, BirthsInTurn, InTurn, Exists, ListsTypeOK

\* Pages that are still cached are still right.
LEMMA BookStays ==
    ASSUME ListsInv, RowsGo, NEW f \in Filters, book'[f].from = book[f].from, book'[f].pages = book[f].pages
    PROVE  Chain(f, book[f].from, book[f].pages)'
<1>1. PICK S, from : S = book[f].pages /\ from = book[f].from
    OBVIOUS
<1>2. S \in Seq(PageOfRows) /\ from \in 0..MaxRow /\ Chain(f, from, S)
    BY <1>1 DEF ListsInv, ListsTypeOK
<1>3. Chain(f, from, S)'
    BY <1>2, ChainStays
<1>4. QED
    BY <1>1, <1>3

\* A read of all that is kept begins at the first kept cursor.
LEMMA ReadsAgain ==
    ASSUME NEW b \in BookShape, filter' \in Filters, Chain(filter, b.from, b.pages)',
           book'[filter'] = b, request' = Again(b)
    PROVE  RequestFollows'
<1>1. /\ request'.stage = "sent" /\ request'.kind = "all" /\ request'.cursor = b.from
      /\ request'.got = <<>>
    BY NothingRead
<1>2. SoFar' = <<>>
    BY <1>1 DEF SoFar
<1>3. Chain(filter, b.from, <<>>)'
    BY DEF Chain
<1>4. CursorOf(b.from, <<>>, Len(<<>>) + 1) = b.from
    BY DEF CursorOf
<1>5. QED
    BY <1>1, <1>2, <1>3, <1>4 DEF RequestFollows

\* The rows change, and the client does not know.
LEMMA ClientRests ==
    ASSUME ListsInv, RowChanges \/ rows' = rows,
           panel' = panel /\ filter' = filter /\ book' = book /\ request' = request
    PROVE  ListsInv'
<1>1. RowsGo /\ BirthsInTurn' /\ rows' \in [Id -> {"unborn", "open", "ended", "gone"}]
    BY RowChangesGo, RowsRest DEF ListsInv, ListsTypeOK
<1>2. ListsTypeOK'
    BY <1>1 DEF ListsInv, ListsTypeOK
<1>3. \A f \in Filters : Chain(f, book[f].from, book[f].pages)'
    BY <1>1, BookStays
<1>4. RequestFollows'
    <2> SUFFICES ASSUME ~Still PROVE RequestFollows'
        BY <1>1 DEF RequestFollows, Still
    <2>1. PICK S, from, c, p, g : S = SoFar /\ from = book[filter].from /\ c = request.cursor
                               /\ p = request.page /\ g = filter
        OBVIOUS
    <2>2. S \in Seq(PageOfRows) /\ from \in 0..MaxRow /\ c \in 0..MaxRow /\ p \in PageOfRows
        BY <2>1 DEF ListsInv, ListsTypeOK, SoFar
    <2>3. Chain(g, from, S)'
        BY <1>1, <2>1, <2>2, ChainStays DEF ListsInv, RequestFollows
    <2>4. request.stage = "served" => PageHolds(g, p, c)'
        BY <1>1, <2>1, <2>2, PageStays DEF ListsInv, RequestFollows
    <2>5. /\ c = CursorOf(from, S, Len(S) + 1) /\ (S # <<>> => c > 0)
          /\ request.kind = "further" => S # <<>>
        BY <2>1 DEF ListsInv, RequestFollows
    <2>6. SoFar' = S
        BY <1>1, <2>1 DEF SoFar
    <2>7. book'[filter'].from = from /\ filter' = g /\ request'.cursor = c /\ request'.page = p
        BY <1>1, <2>1
    <2>8. QED
        BY <1>1, <2>3, <2>4, <2>5, <2>6, <2>7 DEF RequestFollows
<1>5. QED
    BY <1>1, <1>2, <1>3, <1>4 DEF ListsInv

\* The user or the interval reads again, resets the list or chooses another filter.
LEMMA ReadingAgainKeeps ==
    ASSUME ListsInv, NEW h \in Filters, Refresh \/ Poll \/ Reload \/ Choose(h)
    PROVE  ListsInv'
<1>1. /\ rows' = rows /\ panel' = panel /\ filter' \in Filters
      /\ \A f \in Filters : book'[f] \in {book[f], Empty}
      /\ book' \in [Filters -> BookShape] /\ request' = Again(book'[filter'])
    <2>1. book \in [Filters -> BookShape] /\ filter \in Filters
        BY DEF ListsInv, ListsTypeOK, BookShape
    <2>2. CASE Refresh \/ Poll
        BY <2>1, <2>2 DEF Refresh, Poll
    <2>3. CASE Reload
        BY <2>1, <2>3, NothingRead DEF Reload
    <2>4. CASE Choose(h)
        <3>1. Remembered = book \/ Remembered = [f \in Filters |-> Empty]
            BY DEF Remembered
        <3>2. filter' = h /\ book' = Remembered /\ request' = Again(Remembered[h])
              /\ rows' = rows /\ panel' = panel
            BY <2>4 DEF Choose
        <3>3. QED
            BY <2>1, <3>1, <3>2, NothingRead
    <2>5. QED
        BY <2>2, <2>3, <2>4
<1>2. RowsGo /\ BirthsInTurn'
    BY <1>1, RowsRest DEF ListsInv
<1>3. ASSUME NEW f \in Filters PROVE Chain(f, book[f].from, book[f].pages)'
    <2>1. CASE book'[f] = book[f]
        BY <2>1, <1>2, BookStays
    <2>2. CASE book'[f] = Empty
        BY <2>2, NothingRead DEF Chain
    <2>3. QED
        BY <1>1, <2>1, <2>2
<1>4. PICK b \in BookShape : b = book'[filter']
    BY <1>1
<1>5. Chain(filter, b.from, b.pages)'
    BY <1>1, <1>3, <1>4
<1>6. RequestFollows'
    BY <1>1, <1>4, <1>5, ReadsAgain
<1>7. ListsTypeOK'
    BY <1>1, <1>4, NothingRead DEF ListsInv, ListsTypeOK, BookShape, RequestShape
<1>8. QED
    BY <1>2, <1>3, <1>6, <1>7 DEF ListsInv

LEMMA FurtherKeeps ==
    ASSUME ListsInv, Further
    PROVE  ListsInv'
<1>1. /\ rows' = rows /\ panel' = panel /\ filter' = filter /\ book' = book
      /\ book[filter].pages # <<>> /\ Last(book[filter].pages).next > 0
      /\ request' = [Quiet EXCEPT !.stage = "sent", !.kind = "further",
                                  !.cursor = Last(book[filter].pages).next]
    BY DEF Further, HasNext
<1>2. RowsGo /\ BirthsInTurn'
    BY <1>1, RowsRest DEF ListsInv
<1>3. \A f \in Filters : Chain(f, book[f].from, book[f].pages)'
    BY <1>1, <1>2, BookStays
<1>4. PICK S, from : S = book[filter].pages /\ from = book[filter].from
    OBVIOUS
<1>5. S \in Seq(PageOfRows) /\ Len(S) > 0 /\ S[Len(S)] \in PageOfRows /\ filter \in Filters
    BY <1>1, <1>4 DEF ListsInv, ListsTypeOK
<1>6. PICK c \in 0..MaxRow : c = S[Len(S)].next
    BY <1>5, PageTyped
<1>7. c > 0 /\ CursorOf(from, S, Len(S) + 1) = c
    BY <1>1, <1>4, <1>5, <1>6 DEF Last, CursorOf
<1>8. /\ request' = [Quiet EXCEPT !.stage = "sent", !.kind = "further", !.cursor = c]
      /\ request' \in RequestShape /\ request'.cursor = c /\ request'.stage = "sent"
      /\ request'.kind = "further"
    <2>1. request' = [Quiet EXCEPT !.stage = "sent", !.kind = "further", !.cursor = c]
        BY <1>1, <1>4, <1>6 DEF Last
    <2>2. QED
        BY <2>1, NothingRead DEF RequestShape
<1>9. SoFar' = S /\ book'[filter'].from = from /\ Chain(filter, from, S)'
    <2>1. SoFar' = S /\ book'[filter'].from = from /\ book'[filter'].pages = S
        BY <1>1, <1>4, <1>8 DEF SoFar
    <2>2. QED
        BY <2>1, <1>1, <1>3, <1>5
<1>10. RequestFollows'
    BY <1>5, <1>7, <1>8, <1>9 DEF RequestFollows
<1>11. ListsTypeOK'
    BY <1>1, <1>8 DEF ListsInv, ListsTypeOK, RequestShape
<1>12. QED
    BY <1>2, <1>3, <1>10, <1>11 DEF ListsInv

LEMMA AnswerKeeps ==
    ASSUME ListsInv, Answer
    PROVE  ListsInv'
<1>1. PICK c, p, g : c = request.cursor /\ p = PageAt(c, filter) /\ g = filter
    OBVIOUS
<1>2. /\ rows' = rows /\ panel' = panel /\ filter' = g /\ book' = book
      /\ request.stage = "sent" /\ request' = [request EXCEPT !.stage = "served", !.page = p]
    BY <1>1 DEF Answer
<1>3. RowsGo /\ BirthsInTurn'
    BY <1>2, RowsRest DEF ListsInv
<1>4. \A f \in Filters : Chain(f, book[f].from, book[f].pages)'
    BY <1>2, <1>3, BookStays
<1>5. PICK S, from : S = SoFar /\ from = book[g].from
    OBVIOUS
<1>6. /\ S \in Seq(PageOfRows) /\ from \in 0..MaxRow /\ g \in Filters /\ c \in 0..MaxRow
      /\ request \in RequestShape
    BY <1>1, <1>5 DEF ListsInv, ListsTypeOK, SoFar, RequestShape
<1>7. /\ Chain(g, from, S) /\ c = CursorOf(from, S, Len(S) + 1) /\ (S # <<>> => c > 0)
      /\ request.kind = "further" => S # <<>>
    BY <1>1, <1>2, <1>5 DEF ListsInv, RequestFollows, Still
<1>8. c > 0 => rows[c] # "unborn"
    <2>1. CASE S = <<>>
        BY <2>1, <1>7 DEF CursorOf, Chain
    <2>2. CASE S # <<>>
        <3>1. Len(S) \in DOMAIN S /\ c = S[Len(S)].next
            BY <2>2, <1>6, <1>7 DEF CursorOf
        <3>2. PICK d : PageHolds(g, S[Len(S)], d)
            BY <3>1, <1>7 DEF Chain
        <3>3. QED
            BY <3>1, <3>2 DEF PageHolds, InOrder, ComeLater
    <2>3. QED
        BY <2>1, <2>2
<1>9. p \in PageOfRows /\ PageHolds(g, p, c)
    BY <1>1, <1>6, <1>8, PageIsRead DEF ListsInv
<1>10. PageHolds(g, p, c)' /\ Chain(g, from, S)'
    BY <1>3, <1>6, <1>7, <1>9, PageStays, ChainStays
<1>11. /\ request' \in RequestShape /\ request'.cursor = c /\ request'.page = p
       /\ request'.kind = request.kind /\ request'.got = request.got
    BY <1>1, <1>2, <1>6, <1>9 DEF RequestShape
<1>12. SoFar' = S /\ book'[filter'].from = from
    BY <1>1, <1>2, <1>5, <1>11 DEF SoFar
<1>13. RequestFollows'
    BY <1>2, <1>7, <1>10, <1>11, <1>12 DEF RequestFollows
<1>14. ListsTypeOK'
    BY <1>2, <1>6, <1>11 DEF ListsInv, ListsTypeOK, RequestShape
<1>15. QED
    BY <1>3, <1>4, <1>13, <1>14 DEF ListsInv

\* When nothing is asked for, only the cached pages count.
LEMMA QuietFollows ==
    ASSUME request' = Quiet
    PROVE  RequestFollows' /\ request' \in RequestShape
BY NothingRead DEF RequestFollows, Still

LEMMA FurtherArrivesKeeps ==
    ASSUME ListsInv, FurtherArrives
    PROVE  ListsInv'
<1>1. PICK S, from, p, g, c, most : /\ S = book[filter].pages /\ from = book[filter].from
                           /\ p = request.page /\ g = filter /\ c = request.cursor /\ most = panel.most
    OBVIOUS
<1> DEFINE L == Append(S, p)
           longer == Len(L) > most
           b == [book[g] EXCEPT !.pages = IF longer THEN Tail(L) ELSE L,
                                !.from = IF longer THEN S[1].next ELSE from,
                                !.error = "none"]
<1>2. /\ rows' = rows /\ panel' = panel /\ filter' = g /\ request' = Quiet
      /\ request.stage = "served" /\ request.kind = "further"
      /\ book' = [book EXCEPT ![g] = b]
    BY <1>1 DEF FurtherArrives, Kept
<1>3. /\ S \in Seq(PageOfRows) /\ from \in 0..MaxRow /\ p \in PageOfRows /\ g \in Filters
      /\ book \in [Filters -> BookShape] /\ c \in 0..MaxRow /\ most \in Nat \ {0}
    BY <1>1, PanelFacts DEF ListsInv, ListsTypeOK, BookShape
<1>4. /\ Chain(g, from, S) /\ c = CursorOf(from, S, Len(S) + 1) /\ c > 0 /\ S # <<>>
      /\ PageHolds(g, p, c)
    BY <1>1, <1>2 DEF ListsInv, RequestFollows, Still, SoFar
<1>5. Chain(g, from, L) /\ L \in Seq(PageOfRows)
    BY <1>3, <1>4, AppendChain
<1>6. Len(S) > 0 /\ L[1] = S[1] /\ S[1] \in PageOfRows /\ S[1].next \in 0..MaxRow
      /\ Len(L) > 1 /\ Tail(L) \in Seq(PageOfRows)
    <2>1. Len(S) \in Nat /\ Len(S) > 0 /\ S[1] \in PageOfRows
        BY <1>3, <1>4
    <2>2. L[1] = S[1] /\ Len(L) = Len(S) + 1 /\ L # <<>>
        BY <1>3, <2>1
    <2>3. Tail(L) \in Seq(PageOfRows)
        BY <1>5, <2>2
    <2>4. QED
        BY <2>1, <2>2, <2>3, PageTyped
<1>7. Chain(g, S[1].next, Tail(L))
    BY <1>3, <1>5, <1>6, TailChain
<1>8. PICK to \in 0..MaxRow, kept \in Seq(PageOfRows) :
          /\ to = (IF longer THEN S[1].next ELSE from) /\ kept = (IF longer THEN Tail(L) ELSE L)
          /\ Chain(g, to, kept)
    BY <1>3, <1>5, <1>6, <1>7
<1>9. b = [book[g] EXCEPT !.pages = kept, !.from = to, !.error = "none"] /\ book[g] \in BookShape
    BY <1>3, <1>8
<1> HIDE DEF b, L, longer
<1>10. b \in BookShape /\ b.from = to /\ b.pages = kept
    BY <1>8, <1>9 DEF BookShape
<1>11. RowsGo /\ BirthsInTurn'
    BY <1>2, RowsRest DEF ListsInv
<1>12. ASSUME NEW f \in Filters PROVE Chain(f, book[f].from, book[f].pages)'
    <2>1. CASE f = g
        <3>1. book'[f].from = to /\ book'[f].pages = kept
            BY <2>1, <1>2, <1>3, <1>10
        <3>2. Chain(g, to, kept)'
            BY <1>8, <1>11, ChainStays
        <3>3. QED
            BY <2>1, <3>1, <3>2
    <2>2. CASE f # g
        BY <2>2, <1>2, <1>3, <1>11, BookStays
    <2>3. QED
        BY <2>1, <2>2
<1>13. RequestFollows' /\ request' \in RequestShape
    BY <1>2, QuietFollows
<1>14. ListsTypeOK'
    <2>1. book' \in [Filters -> BookShape]
        BY <1>2, <1>3, <1>10
    <2>2. QED
        BY <2>1, <1>2, <1>13 DEF ListsInv, ListsTypeOK, BookShape, RequestShape
<1>15. QED
    BY <1>11, <1>12, <1>13, <1>14 DEF ListsInv

LEMMA PageArrivesKeeps ==
    ASSUME ListsInv, PageArrives
    PROVE  ListsInv'
<1>1. PICK S, from, p, g, c, kept :
          /\ S = request.got /\ from = book[filter].from /\ kept = book[filter].pages
          /\ p = request.page /\ g = filter /\ c = request.cursor
    OBVIOUS
<1>2. PICK L : L = Append(S, p)
    OBVIOUS
<1>3. /\ rows' = rows /\ panel' = panel /\ filter' = g
      /\ request.stage = "served" /\ request.kind = "all"
      /\ \/ /\ book' = [book EXCEPT ![g] = [book[g] EXCEPT !.read = TRUE, !.pages = L, !.error = "none"]]
            /\ request' = Quiet
         \/ /\ request' = [request EXCEPT !.stage = "sent", !.cursor = p.next, !.got = L]
            /\ book' = book /\ p.next # 0
    BY <1>1, <1>2 DEF PageArrives
<1>4. /\ S \in Seq(PageOfRows) /\ from \in 0..MaxRow /\ p \in PageOfRows /\ g \in Filters
      /\ book \in [Filters -> BookShape] /\ c \in 0..MaxRow /\ request \in RequestShape
      /\ from = book[g].from
    BY <1>1 DEF ListsInv, ListsTypeOK, BookShape, RequestShape
<1>5. /\ Chain(g, from, S) /\ c = CursorOf(from, S, Len(S) + 1) /\ (S # <<>> => c > 0)
      /\ PageHolds(g, p, c)
    BY <1>1, <1>3 DEF ListsInv, RequestFollows, Still, SoFar
<1>6. Chain(g, from, L) /\ L \in Seq(PageOfRows) /\ L # <<>> /\ Len(L) = Len(S) + 1 /\ L[Len(L)] = p
    <2>1. Chain(g, from, L)
        BY <1>2, <1>4, <1>5, AppendChain
    <2>2. QED
        BY <2>1, <1>2, <1>4
<1>7. RowsGo /\ BirthsInTurn'
    BY <1>3, RowsRest DEF ListsInv
<1>8. Chain(g, from, L)'
    BY <1>4, <1>6, <1>7, ChainStays
<1>9. CASE book' = [book EXCEPT ![g] = [book[g] EXCEPT !.read = TRUE, !.pages = L, !.error = "none"]]
           /\ request' = Quiet
    <2>1. book[g] \in BookShape
        BY <1>4
    <2> DEFINE b == [book[g] EXCEPT !.read = TRUE, !.pages = L, !.error = "none"]
    <2>2. b \in BookShape /\ b.from = from /\ b.pages = L
        BY <2>1, <1>4, <1>6 DEF BookShape
    <2> HIDE DEF b
    <2>3. book' = [book EXCEPT ![g] = b] /\ book' \in [Filters -> BookShape]
        BY <2>2, <1>4, <1>9 DEF b
    <2>4. ASSUME NEW f \in Filters PROVE Chain(f, book[f].from, book[f].pages)'
        <3>1. CASE f = g
            <4>1. book'[f].from = from /\ book'[f].pages = L
                BY <3>1, <2>2, <2>3, <1>4
            <4>2. QED
                BY <3>1, <4>1, <1>8
        <3>2. CASE f # g
            BY <3>2, <2>3, <1>4, <1>7, BookStays
        <3>3. QED
            BY <3>1, <3>2
    <2>5. RequestFollows' /\ request' \in RequestShape
        BY <1>9, QuietFollows
    <2>6. ListsTypeOK'
        BY <2>3, <2>5, <1>3 DEF ListsInv, ListsTypeOK, BookShape, RequestShape
    <2>7. QED
        BY <2>4, <2>5, <2>6, <1>7 DEF ListsInv
<1>10. CASE request' = [request EXCEPT !.stage = "sent", !.cursor = p.next, !.got = L]
            /\ book' = book /\ p.next # 0
    <2>1. \A f \in Filters : Chain(f, book[f].from, book[f].pages)'
        BY <1>7, <1>10, BookStays
    <2>2. p.next \in 0..MaxRow /\ p.next > 0
        BY <1>4, <1>10, PageTyped
    <2>3. /\ request' \in RequestShape /\ request'.stage = "sent" /\ request'.cursor = p.next
          /\ request'.got = L /\ request'.kind = "all"
        BY <1>3, <1>4, <1>6, <1>10, <2>2 DEF RequestShape
    <2>4. SoFar' = L /\ book'[filter'].from = from
        BY <2>3, <1>1, <1>3, <1>10 DEF SoFar
    <2>5. CursorOf(from, L, Len(L) + 1) = p.next
        BY <1>4, <1>6 DEF CursorOf
    <2>6. RequestFollows'
        BY <2>2, <2>3, <2>4, <2>5, <1>3, <1>8 DEF RequestFollows
    <2>7. ListsTypeOK'
        BY <2>3, <1>3, <1>4, <1>10 DEF ListsInv, ListsTypeOK, RequestShape
    <2>8. QED
        BY <2>1, <2>6, <2>7, <1>7 DEF ListsInv
<1>11. QED
    BY <1>3, <1>9, <1>10

LEMMA ReadFailsKeeps ==
    ASSUME ListsInv, ReadFails
    PROVE  ListsInv'
<1>1. PICK e \in {"all", "further"} :
          /\ rows' = rows /\ panel' = panel /\ filter' = filter /\ request' = Quiet
          /\ book' = [book EXCEPT ![filter].error = e]
    BY DEF ReadFails
<1>2. book \in [Filters -> BookShape] /\ filter \in Filters
    BY DEF ListsInv, ListsTypeOK, BookShape
<1>3. /\ book' \in [Filters -> BookShape]
      /\ \A f \in Filters : book'[f].from = book[f].from /\ book'[f].pages = book[f].pages
    BY <1>1, <1>2 DEF BookShape
<1>4. RowsGo /\ BirthsInTurn'
    BY <1>1, RowsRest DEF ListsInv
<1>5. ASSUME NEW f \in Filters PROVE Chain(f, book[f].from, book[f].pages)'
    <2>1. Chain(f, book[f].from, book[f].pages)'
        BY <1>3, <1>4, BookStays
    <2>2. QED
        BY <2>1
<1>6. RequestFollows' /\ request' \in RequestShape
    BY <1>1, QuietFollows
<1>7. ListsTypeOK'
    BY <1>1, <1>3, <1>6 DEF ListsInv, ListsTypeOK, BookShape, RequestShape
<1>8. QED
    BY <1>4, <1>5, <1>6, <1>7 DEF ListsInv

LEMMA ListsStepInv == ListsInv /\ [ListsNext]_listVars => ListsInv'
<1> SUFFICES ASSUME ListsInv, [ListsNext]_listVars PROVE ListsInv'
    OBVIOUS
<1>1. CASE UNCHANGED listVars
    <2>1. rows' = rows /\ panel' = panel /\ filter' = filter /\ book' = book /\ request' = request
        BY <1>1 DEF listVars
    <2>2. QED
        BY <2>1, ClientRests
<1>2. CASE RowChanges
    BY <1>2, ClientRests DEF RowChanges
<1>3. ASSUME NEW h \in Filters, Refresh \/ Poll \/ Reload \/ Choose(h) PROVE ListsInv'
    BY <1>3, ReadingAgainKeeps
<1>4. CASE Further
    BY <1>4, FurtherKeeps
<1>5. CASE Answer
    BY <1>5, AnswerKeeps
<1>6. CASE FurtherArrives \/ PageArrives \/ ReadFails
    BY <1>6, FurtherArrivesKeeps, PageArrivesKeeps, ReadFailsKeeps
<1>7. "all" \in Filters
    BY DEF Filters
<1>8. QED
    BY <1>1, <1>2, <1>3, <1>4, <1>5, <1>6, <1>7 DEF ListsNext

-----------------------------------------------------------------------------
(* The parts together: a step is one of one part.                           *)

ConsoleInv == IntentsInv /\ EntryInv /\ LooksInv /\ DesktopInv /\ ListsInv

LEMMA PartSteps ==
    [Next]_vars =>
        [IntentsNext]_intentVars /\ [EntryNext]_entryVars /\ [LooksNext]_looksVars /\ [DesktopNext]_desktopVars
        /\ [ListsNext]_listVars
<1> SUFFICES ASSUME [Next]_vars
             PROVE  [IntentsNext]_intentVars /\ [EntryNext]_entryVars /\ [LooksNext]_looksVars /\ [DesktopNext]_desktopVars
                    /\ [ListsNext]_listVars
    OBVIOUS
<1>1. CASE OnList
    BY <1>1 DEF OnList, OthersRest
<1>2. CASE OnIntent
    BY <1>2 DEF OnIntent
<1>3. CASE OnEntry
    BY <1>3 DEF OnEntry
<1>4. CASE OnLooks
    BY <1>4 DEF OnLooks
<1>5. CASE OnDesktop
    BY <1>5 DEF OnDesktop
<1>6. CASE UNCHANGED vars
    BY <1>6 DEF vars
<1>7. QED
    BY <1>1, <1>2, <1>3, <1>4, <1>5, <1>6 DEF Next

LEMMA ConsoleInvariant == Spec => []ConsoleInv
<1>1. Init => ConsoleInv
    BY IntentsInitInv, EntryInitInv, LooksInitInv, DesktopInitInv, ListsInitInv DEF Init, ConsoleInv
<1>2. ConsoleInv /\ [Next]_vars => ConsoleInv'
    BY PartSteps, IntentsNextInv, EntryStepInv, LooksStepInv, DesktopStepInv, ListsStepInv DEF ConsoleInv
<1>3. QED
    BY <1>1, <1>2, PTL DEF Spec

\* Requests are lost, answered late and asked for again, pages left, keys renewed and uploads
\* expire: what a decision that carries a key asks for is still done once.
THEOREM OncePerDecision == Spec => []OneEffectPerIntent
<1>1. ConsoleInv => OneEffectPerIntent
    BY OneEffect DEF ConsoleInv
<1>2. QED
    BY <1>1, ConsoleInvariant, PTL

\* Whatever was read in between, and in whatever order, a change of a member or of the rule is
\* accepted at a version whose values were in the controls it was made with.
THEOREM AcceptedAsShown == Spec => ActsOnWhatWasShown
<1> DEFINE Shown == \A c \in calls : Versioned /\ c.stage = "sent" /\ ver' > ver
                        /\ (\A d \in calls' : d.id = c.id => d.stage = "served")
                            => ver \in c.seen
<1>1. ConsoleInv /\ [Next]_vars => [Shown]_intentVars
    BY PartSteps, AcceptsWhatWasShown DEF ConsoleInv
<1> HIDE DEF Shown
<1>2. Spec => [][Shown]_intentVars
    BY <1>1, ConsoleInvariant, PTL DEF Spec
<1>3. QED
    BY <1>2 DEF Shown, ActsOnWhatWasShown

\* What a page reveals or opens was done for its account and its decision; a tab never shows a
\* session again that it was told is over, and a reset page loses its token with its own link.
THEOREM OnlyOwnIsShown == Spec => []ShowsOnlyOwn
<1>1. ConsoleInv => ShowsOnlyOwn
    BY DEF ConsoleInv, IntentsInv, Shows, EntryInv, NothingEndedIsLeft, Alive, ShowsOnlyOwn, EntryIsCurrent, LogoutIsFinal
<1>2. QED
    BY <1>1, ConsoleInvariant, PTL

\* In any number of tabs, with writes refused and events delayed: a tab keeps what was picked in
\* it, all show the graphic stored last once they have heard of it, and a drag that ended is stored.
THEOREM LooksAreKept == Spec => []LooksHold
<1>1. ConsoleInv => LooksHold
    BY LooksCorrect DEF ConsoleInv
<1>2. QED
    BY <1>1, ConsoleInvariant, PTL

\* Rows come, end, reopen and go while pages of them are read, further ones are asked for and
\* reads fail: what a list has read is in order and repeats nothing, and, unless rows may come
\* anywhere in that order, no row that is there is left out between two that were read.
THEOREM PagesAreContiguous == Spec => []PagesContiguous
<1>1. ConsoleInv => PagesContiguous
    BY ListsContiguous DEF ConsoleInv
<1>2. QED
    BY <1>1, ConsoleInvariant, PTL
=============================================================================
