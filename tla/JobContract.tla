----------------------------- MODULE JobContract -----------------------------
(***************************************************************************)
(* What the job queue promises to the modules that enqueue work, without   *)
(* workers, leases, attempts or clocks: an accepted job stays open until   *)
(* its business result is committed once or it is given up; the outcome    *)
(* and the notification it owes appear in one step; a failed job, and only *)
(* a failed job, may be reopened.                                          *)
(***************************************************************************)
EXTENDS Naturals

CONSTANT Jobs

VARIABLES
    phase,     \* "none", "open", "succeeded" or "failed"
    wants,     \* the requester asked to be notified
    told,      \* outcomes the requester was notified of
    results    \* how often the business result was committed

vars == <<phase, wants, told, results>>

Tell(j, outcome) == IF wants[j] THEN told[j] \cup {outcome} ELSE told[j]

Init ==
    /\ phase = [j \in Jobs |-> "none"]
    /\ wants = [j \in Jobs |-> FALSE]
    /\ told = [j \in Jobs |-> {}]
    /\ results = [j \in Jobs |-> 0]

\* One transaction may enqueue several jobs.
Submit(new) ==
    /\ \A j \in new : phase[j] = "none"
    /\ phase' = [j \in Jobs |-> IF j \in new THEN "open" ELSE phase[j]]
    /\ \E telling \in SUBSET new :
          wants' = [j \in Jobs |-> IF j \in new THEN j \in telling ELSE wants[j]]
    /\ UNCHANGED <<told, results>>

Succeed(j) ==
    /\ phase[j] = "open"
    /\ results[j] = 0
    /\ phase' = [phase EXCEPT ![j] = "succeeded"]
    /\ told' = [told EXCEPT ![j] = Tell(j, "succeeded")]
    /\ results' = [results EXCEPT ![j] = 1]
    /\ UNCHANGED wants

\* One poll of a worker may give up several jobs.
GiveUp(gone) ==
    /\ \A j \in gone : phase[j] = "open"
    /\ phase' = [j \in Jobs |-> IF j \in gone THEN "failed" ELSE phase[j]]
    /\ told' = [j \in Jobs |-> IF j \in gone THEN Tell(j, "failed") ELSE told[j]]
    /\ UNCHANGED <<wants, results>>

Reopen(j) ==
    /\ phase[j] = "failed"
    /\ phase' = [phase EXCEPT ![j] = "open"]
    /\ UNCHANGED <<wants, told, results>>

Next ==
    \/ \E j \in Jobs : Succeed(j) \/ Reopen(j)
    \/ \E several \in SUBSET Jobs : Submit(several) \/ GiveUp(several)

Spec == Init /\ [][Next]_vars
=============================================================================
