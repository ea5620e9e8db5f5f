----------------------------- MODULE LeaseClock -----------------------------
(***************************************************************************)
(* The timing that Jobs leaves out (jobs/worker.rs): the lease of one      *)
(* attempt, granted by the clock of the database inside the claiming       *)
(* transaction, the handler that starts when that transaction has          *)
(* answered, and the heartbeats that renew the lease or drop the handler.  *)
(* The runtime of the worker acts on time; claims, heartbeats and          *)
(* handlers may take any time.                                             *)
(***************************************************************************)
EXTENDS Integers

CONSTANTS
    MaxLease,       \* bounds lease_secs
    MaxInstant      \* bounds the clock

ASSUME LeaseClockAssumption == MaxLease \in Nat /\ MaxInstant \in Nat

VARIABLES
    instant,        \* clock_timestamp()
    policy,         \* lease_secs and heartbeat_secs
    expires,        \* lease_expires_at of the attempt, committed or not
    attempt,        \* the worker: where it is, its next heartbeat, the timeout of one sent
    locked,         \* a transaction of this attempt holds the row
    slow,           \* history: from the grant of the lease to the start of the handler
    renewed         \* history: a heartbeat has renewed the lease

leaseVars == <<instant, policy, expires, attempt, locked, slow, renewed>>

\* Faulty: a heartbeat as long as the lease is accepted.
FaultyPolicies == {[lease |-> l, heartbeat |-> h] : l \in 1..MaxLease, h \in 1..MaxLease}

\* from_env: heartbeat_secs is 1..half the lease seconds.
Policies ==
    {p \in [lease : 1..MaxLease, heartbeat : 1..MaxLease] : p.heartbeat <= p.lease \div 2}

Stages == {"claiming", "working", "beating", "over"}

LeaseTypeOK ==
    /\ instant \in 0..MaxInstant
    /\ policy \in [lease : Nat, heartbeat : Nat]
    /\ expires \in Nat
    /\ attempt \in [at : Stages, tick : Nat, deadline : Nat]
    /\ locked \in BOOLEAN /\ slow \in Nat /\ renewed \in BOOLEAN

\* The claim has updated the row; its remaining statements and COMMIT are under way.
LeaseInit ==
    /\ instant = 0
    /\ policy \in Policies
    /\ expires = policy.lease
    /\ attempt = [at |-> "claiming", tick |-> 0, deadline |-> 0]
    /\ locked = TRUE
    /\ slow = 0
    /\ renewed = FALSE

\* The claim answers; execute polls the handler, and its first heartbeat is one period off.
Start ==
    /\ attempt.at = "claiming"
    /\ attempt' = [at |-> "working", tick |-> instant + policy.heartbeat, deadline |-> 0]
    /\ locked' = FALSE
    /\ slow' = instant
    /\ UNCHANGED <<instant, policy, expires, renewed>>

\* The handler is due for something when its heartbeat is, or the timeout of one.
Due ==
    \/ attempt.at = "working" /\ instant >= attempt.tick
    \/ attempt.at = "beating" /\ instant >= attempt.deadline

Passes ==
    /\ instant < MaxInstant
    /\ ~Due
    /\ instant' = instant + 1
    /\ UNCHANGED <<policy, expires, attempt, locked, slow, renewed>>

SendHeartbeat ==
    /\ attempt.at = "working" /\ instant >= attempt.tick
    /\ attempt' = [attempt EXCEPT !.at = "beating", !.deadline = instant + policy.heartbeat]
    /\ UNCHANGED <<instant, policy, expires, locked, slow, renewed>>

\* The UPDATE of the heartbeat, if the lease still lives.
Renew ==
    /\ attempt.at = "beating" /\ ~locked
    /\ instant < expires
    /\ expires' = instant + policy.lease
    /\ locked' = TRUE
    /\ UNCHANGED <<instant, policy, attempt, slow, renewed>>

\* The next tick is one period after the last: the timeout leaves no tick to be missed.
HeartbeatDone ==
    /\ attempt.at = "beating" /\ locked
    /\ attempt' = [attempt EXCEPT !.at = "working", !.tick = @ + policy.heartbeat]
    /\ locked' = FALSE
    /\ renewed' = TRUE
    /\ UNCHANGED <<instant, policy, expires, slow>>

\* The handler finishes, or is dropped: by a heartbeat that failed, found the lease gone
\* or took longer than a period.
Over ==
    /\ attempt.at \in {"working", "beating"}
    /\ attempt' = [attempt EXCEPT !.at = "over"]
    /\ locked' = FALSE
    /\ UNCHANGED <<instant, policy, expires, slow, renewed>>

LeaseNext == Start \/ Passes \/ SendHeartbeat \/ Renew \/ HeartbeatDone \/ Over

-----------------------------------------------------------------------------
(* The property.                                                           *)

\* The handler is gone when its lease runs out, the first moment another worker may
\* claim the job: half the lease for a period leaves room for one period until the
\* heartbeat and one for its timeout.  The room is used up when the period is exactly
\* half the lease, so until the first renewal the handler may outlive the lease by what
\* the claim took to answer; from then on only the fence (Jobs) is needed for commits.
DroppedInTime ==
    attempt.at \in {"working", "beating"} =>
        instant <= expires + (IF renewed THEN 0 ELSE slow)
=============================================================================
