---------------------------- MODULE FileContract ----------------------------
(***************************************************************************)
(* What the files module promises to the modules that own files, without   *)
(* requests, candidates, keys, jobs or a store: a file is published at     *)
(* most once and only while it is pending, from then on its verified bytes *)
(* can be read until it is discarded, and what is discarded stays so.      *)
(***************************************************************************)
CONSTANT Files

VARIABLES
    life,      \* "none", "pending", "ready" or "dead"
    served     \* the files whose verified bytes can be read

vars == <<life, served>>

Init ==
    /\ life = [f \in Files |-> "none"]
    /\ served = {}

Start(f) ==
    /\ life[f] = "none"
    /\ life' = [life EXCEPT ![f] = "pending"]
    /\ UNCHANGED served

Publish(f) ==
    /\ life[f] = "pending"
    /\ life' = [life EXCEPT ![f] = "ready"]
    /\ served' = served \cup {f}

\* Expiry, rejection or deletion; one transaction may discard several files.
Discard(gone) ==
    /\ \A f \in gone : life[f] \in {"pending", "ready"}
    /\ life' = [f \in Files |-> IF f \in gone THEN "dead" ELSE life[f]]
    /\ served' = served \ gone

Next ==
    \/ \E f \in Files : Start(f) \/ Publish(f)
    \/ \E gone \in SUBSET Files : Discard(gone)

Spec == Init /\ [][Next]_vars
=============================================================================
