------------------------------- MODULE Alerts -------------------------------
(***************************************************************************)
(* The deployment-wide alert rule (system/monitoring_alerts.rs and         *)
(* evaluation.rs).  Every worker asks Prometheus for an error sample once  *)
(* an interval and evaluates it in a transaction that locks the rule;      *)
(* scrapes fail, samples go stale or are too small to judge, workers       *)
(* overtake each other, and an administrator changes the rule (its         *)
(* percentage is left alone, so a sample keeps its verdict).               *)
(*                                                                         *)
(* Time counts evaluation intervals (EVALUATION_INTERVAL_SECS) from 1; 0   *)
(* is NULL.  A sample "breaches" or is "fine"; "small" stands for fewer    *)
(* than 100 requests or counts that contradict each other.                 *)
(***************************************************************************)
EXTENDS Integers, Sequences

CONSTANTS
    Evaluators,     \* the workers
    Durations,      \* duration_minutes, in intervals
    MaxAge,         \* 180 seconds: an older sample is no data
    MaxGap,         \* three intervals: samples further apart are not continuous
    MaxTime,        \* bounds the clock
    MaxUpdates      \* bounds the changes of the rule

ASSUME AlertsAssumption ==
    /\ Durations \subseteq Nat \ {0} /\ Durations # {}
    /\ {MaxAge, MaxGap, MaxTime, MaxUpdates} \subseteq Nat

VARIABLES
    clock,
    latest,     \* what Prometheus returns now: the newest scrape and its verdict
    rule,       \* the row of monitoring_alert_rule
    asked,      \* per worker, its evaluation in flight: the sample and evaluate_at's now
    updates,
    seen        \* history: the distinct observations since the rule changed or was fine

alertVars == <<clock, latest, rule, asked, updates, seen>>

Judgements == {"breach", "fine", "small"}
States == {"disabled", "no_data", "normal", "pending", "firing"}
NoQuestion == [on |-> FALSE, now |-> 0, at |-> 0, judged |-> "small"]

AlertsTypeOK ==
    /\ clock \in 1..MaxTime
    /\ latest \in [at : 0..MaxTime, judged : Judgements]
    /\ rule \in [enabled : BOOLEAN, duration : Durations, state : States, evaluated : 0..MaxTime,
                 breach : 0..MaxTime, sampled : 0..MaxTime, incident : BOOLEAN]
    /\ asked \in [Evaluators -> [on : BOOLEAN, now : 0..MaxTime, at : 0..MaxTime, judged : Judgements]]
    /\ updates \in 0..MaxUpdates
    /\ seen \in Seq([now : 1..MaxTime, at : 0..MaxTime, judged : {"breach", "fine", "none"}])

\* The columns that an update, or an evaluation that finds the rule disabled, clears.
Fresh(enabled, duration) ==
    [enabled |-> enabled, duration |-> duration, state |-> IF enabled THEN "no_data" ELSE "disabled",
     evaluated |-> 0, breach |-> 0, sampled |-> 0, incident |-> FALSE]

AlertsInit ==
    /\ clock = 1
    /\ latest = [at |-> 0, judged |-> "small"]
    /\ \E d \in Durations : rule = Fresh(FALSE, d)
    /\ asked = [w \in Evaluators |-> NoQuestion]
    /\ updates = 0
    /\ seen = <<>>

-----------------------------------------------------------------------------
(* Time, scrapes and the administrator.                                    *)

\* An interval passes, with a scrape or without; no evaluation takes longer (schedule
\* has three seconds).
Interval ==
    /\ clock < MaxTime
    /\ \A w \in Evaluators : asked[w].on => asked[w].now = clock
    /\ clock' = clock + 1
    /\ \/ \E judged \in Judgements : latest' = [at |-> clock + 1, judged |-> judged]
       \/ UNCHANGED latest
    /\ UNCHANGED <<rule, asked, updates, seen>>

\* PUT alerts, with the version the administrator read.
UpdateRule(enabled, duration) ==
    /\ updates < MaxUpdates
    /\ rule' = Fresh(enabled, duration)
    /\ updates' = updates + 1
    /\ seen' = <<>>
    /\ UNCHANGED <<clock, latest, asked>>

-----------------------------------------------------------------------------
(* One worker.                                                             *)

\* AlertEvaluation::schedule: a look at enabled, the query, and the time.
Ask(w) ==
    /\ rule.enabled
    /\ ~asked[w].on /\ asked[w].now < clock
    /\ asked' = [asked EXCEPT ![w] =
           [on |-> TRUE, now |-> clock, at |-> latest.at, judged |-> latest.judged]]
    /\ UNCHANGED <<clock, latest, rule, updates, seen>>

Answered(w) == asked' = [asked EXCEPT ![w].on = FALSE]

\* The three seconds run out, or the database refuses.
AskFails(w) ==
    /\ asked[w].on
    /\ Answered(w)
    /\ UNCHANGED <<clock, latest, rule, updates, seen>>

Valid(q) == q.judged # "small" /\ q.at > 0 /\ q.now - q.at <= MaxAge

\* Another worker evaluated at this second or later.
Overtaken(q) == rule.evaluated >= q.now

\* Faulty: only the evaluation's own time is compared.
FaultyRepeated(q) == FALSE

\* The rule has seen this scrape, or a newer one.
Repeated(q) == Valid(q) /\ rule.sampled >= q.at

Heeded(q) == rule.enabled /\ ~Overtaken(q) /\ ~Repeated(q)

\* What the history makes of a question, by its own entries only: the later of two
\* observations counts, and one scrape counts once.
Observation(q) ==
    [now |-> q.now, at |-> IF Valid(q) THEN q.at ELSE 0, judged |-> IF Valid(q) THEN q.judged ELSE "none"]
Counts(o) ==
    \A i \in DOMAIN seen : seen[i].now < o.now /\ (o.at > 0 => seen[i].at < o.at)
Watch(q) ==
    seen' = IF ~rule.enabled \/ ~Counts(Observation(q)) THEN seen
            ELSE IF Observation(q).judged = "fine" THEN <<Observation(q)>>
            ELSE Append(seen, Observation(q))

\* evaluate_at returns before it writes anything.
EvaluateNothing(w) ==
    /\ asked[w].on
    /\ Overtaken(asked[w]) \/ (rule.enabled /\ Repeated(asked[w]))
    /\ Answered(w) /\ Watch(asked[w])
    /\ UNCHANGED <<clock, latest, rule, updates>>

\* The rule was disabled since the worker looked.
EvaluateDisabled(w) ==
    /\ asked[w].on
    /\ ~rule.enabled /\ ~Overtaken(asked[w])
    /\ rule' = [Fresh(FALSE, rule.duration) EXCEPT !.evaluated = asked[w].now]
    /\ Answered(w)
    /\ UNCHANGED <<clock, latest, updates, seen>>

EvaluateNoData(w) ==
    /\ asked[w].on
    /\ Heeded(asked[w]) /\ ~Valid(asked[w])
    /\ rule' = [rule EXCEPT !.state = "no_data", !.evaluated = asked[w].now,
                            !.breach = IF rule.incident THEN @ ELSE 0]
    /\ Answered(w) /\ Watch(asked[w])
    /\ UNCHANGED <<clock, latest, updates>>

\* The incident, if there is one, is over: its notice is published with the row.
EvaluateFine(w) ==
    LET q == asked[w]
    IN  /\ q.on
        /\ Heeded(q) /\ Valid(q) /\ q.judged = "fine"
        /\ rule' = [rule EXCEPT !.state = "normal", !.evaluated = q.now, !.breach = 0,
                                !.sampled = q.at, !.incident = FALSE]
        /\ Answered(w) /\ Watch(q)
        /\ UNCHANGED <<clock, latest, updates>>

Continuous(q) == rule.state = "pending" /\ rule.sampled > 0 /\ q.at - rule.sampled <= MaxGap

Started(q) == IF Continuous(q) /\ rule.breach > 0 THEN rule.breach ELSE q.now

EvaluateBreach(w) ==
    LET q == asked[w]
        fires == q.now - Started(q) >= rule.duration
    IN  /\ q.on
        /\ Heeded(q) /\ Valid(q) /\ q.judged = "breach"
        /\ rule' = [rule EXCEPT
               !.state = IF rule.incident \/ fires THEN "firing" ELSE "pending",
               !.breach = IF rule.incident THEN @ ELSE Started(q),
               !.incident = rule.incident \/ fires,
               !.evaluated = q.now, !.sampled = q.at]
        /\ Answered(w) /\ Watch(q)
        /\ UNCHANGED <<clock, latest, updates>>

AlertsNext ==
    \/ Interval
    \/ \E enabled \in BOOLEAN, d \in Durations : UpdateRule(enabled, d)
    \/ \E w \in Evaluators :
        \/ Ask(w) \/ AskFails(w)
        \/ EvaluateNothing(w) \/ EvaluateDisabled(w)
        \/ EvaluateNoData(w) \/ EvaluateFine(w) \/ EvaluateBreach(w)

-----------------------------------------------------------------------------
(* The property.                                                           *)

\* The last of the observations 1..i ends a run of breaches, no two further apart than
\* MaxGap, that has lasted for the duration of the rule.
Sustained(i) ==
    \E k \in 1..i :
        /\ seen[k].now + rule.duration <= seen[i].now
        /\ \A j \in k..i : seen[j].judged = "breach" /\ (j > k => seen[j].at - seen[j - 1].at <= MaxGap)

\* An incident is open exactly when the observations since the rule last changed hold a
\* sustained breach with no good sample after it: a repeated scrape, a gap, missing data
\* or a worker that overtakes another neither opens one early, nor restarts the wait, nor
\* closes or loses one.
IncidentIsSustained ==
    rule.incident <=>
        \E i \in DOMAIN seen : Sustained(i) /\ \A j \in i..Len(seen) : seen[j].judged # "fine"
=============================================================================
