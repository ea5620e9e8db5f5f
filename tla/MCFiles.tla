------------------------------- MODULE MCFiles -------------------------------
(* Instances of Files for TLC.                                             *)
EXTENDS Files, TLC

Interchangeable == Permutations(Candidates) \cup Permutations(Workers)

\* A bound: requests race while no worker works, or there is one request, whose object is
\* good, and workers at work.
WorkersRest ==
    /\ \A w \in Workers : work[w] = Idle
    /\ \A i \in JobIds : job[i] \in {Succeeded, Queued}
    /\ \A k \in Keys : cleanup[k] # "deleted"
OneRequest ==
    /\ Cardinality({c \in Candidates : of[c] # None}) <= 1
    /\ \A k \in Keys : store[k] # "bad"
\* A bound on sweeps: at most one worker works when a job is exhausted, or none on that job.
Swept == {i \in JobIds : work' = work /\ job[i].status = "open" /\ job'[i].status = "failed"}
OneAtWork == Swept # {} => Cardinality({w \in Workers : work[w] # Idle}) <= 1
NoneOnIt == \A i \in Swept, w \in Workers : work[w].job # i

RequestsOrWorkers == (WorkersRest' \/ OneRequest') /\ OneAtWork
=============================================================================
