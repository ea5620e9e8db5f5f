-------------------------------- MODULE Jobs --------------------------------
(***************************************************************************)
(* The PostgreSQL-backed job queue (crates/app/src/modules/jobs): enqueue, *)
(* claim, heartbeat, fenced handler transactions, outcome recording and    *)
(* the administrator's retry, with the notifications that are published in *)
(* the same transactions.                                                  *)
(*                                                                         *)
(* One variable per column the code branches on.  A lease token (a fresh   *)
(* UUID) is the index of the attempt it opened in the job's attempt log,   *)
(* 0 is NULL.  Database time is a countdown per lease: ttl[j] > 0 is       *)
(* "lease_expires_at > clock_timestamp()".  due[j] is "scheduled_at <=     *)
(* clock_timestamp()".                                                     *)
(*                                                                         *)
(* tx[j] is the handler transaction that holds the row lock of job j: it   *)
(* outlives the handler future, because a dropped future leaves a COMMIT   *)
(* that the server may already have received.  Claims skip a locked row,   *)
(* every other statement on the row waits for the lock.                    *)
(***************************************************************************)
EXTENDS Integers, Sequences, FiniteSets

CONSTANTS
    Jobs,         \* job identifiers
    Workers,      \* worker processes
    Keys,         \* (administrator, Idempotency-Key) pairs of a retry
    NoJob,        \* no lease is held
    Limits,       \* the max_attempts values jobs are enqueued with
    MaxBatch,     \* the largest batch number (i32::MAX in the code)
    SweepLimit,   \* the LIMIT 25 of the sweep
    LeaseTicks    \* lease_secs, in units of the model's clock

ASSUME JobsAssumption ==
    /\ NoJob \notin Jobs
    /\ Limits \subseteq Nat \ {0}
    /\ MaxBatch \in Nat \ {0}
    /\ SweepLimit \in Nat \ {0}
    /\ LeaseTicks \in Nat \ {0}

VARIABLES
    status, attempts, limit, token, ttl, due,  \* saas_core.jobs
    batchLog,     \* saas_core.job_batches, by number
    attemptLog,   \* saas_core.job_attempts, by lease token
    intent,       \* saas_core.job_notifications: the job notifies someone
    notified,     \* saas_core.notifications: outcomes published for the job
    retried,      \* idempotency records of the job's retry scope
    tx,           \* the transaction holding the job's row lock
    pc, lease,    \* worker processes and the lease each executes
    published,    \* history: tokens whose business result was committed
    fenced        \* history: the token of the last fenced commit

rowVars    == <<status, attempts, limit, token, due>>
logVars    == <<batchLog, attemptLog>>
noteVars   == <<intent, notified>>
workerVars == <<pc, lease>>
histVars   == <<published, fenced>>
vars == <<rowVars, ttl, logVars, noteVars, retried, tx, workerVars, histVars>>

Statuses == {"queued", "running", "retry_wait", "succeeded", "failed"}
AttemptStatuses ==
    {"running", "retry_wait", "succeeded", "failed", "lease_expired"}

AttemptRow == [batch : Nat, number : Nat, status : AttemptStatuses]
BatchRow   == [status : Statuses, attempts : Nat]

NoTx    == [phase |-> "none", token |-> 0, batch |-> 0]
NoLease == [job |-> NoJob, token |-> 0, batch |-> 0]

Tx(phase, l) == [phase |-> phase, token |-> l.token, batch |-> l.batch]

(***************************************************************************)
(* Helpers.                                                                *)
(***************************************************************************)
Live(j) == ttl[j] > 0

Unlocked(j) == tx[j].phase = "none"

\* Variants marked "Faulty" are plausible mistakes; no action uses them.  They
\* replace the definition that follows to show that a property notices.
FaultyCurrent(l) == status[l.job] = "running" /\ Live(l.job)

\* The WHERE clause of lock_current, succeed, heartbeat and fail.
Current(l) ==
    /\ status[l.job] = "running"
    /\ token[l.job] = l.token
    /\ Live(l.job)

\* The row lock of w's job is held by w's own transaction.
Owns(w, phase) ==
    /\ tx[lease[w].job].phase = phase
    /\ tx[lease[w].job].token = lease[w].token

\* UPDATE job_attempts ... WHERE lease_token = t AND status = 'running'
EndAttempt(log, t, outcome) ==
    [n \in DOMAIN log |->
        IF n = t /\ log[n].status = "running"
        THEN [log[n] EXCEPT !.status = outcome] ELSE log[n]]

FaultyExpireAttempts(log) ==
    [n \in DOMAIN log |-> [log[n] EXCEPT !.status = "lease_expired"]]
FaultyExpireNone(log) == log

\* UPDATE job_attempts ... WHERE job_id = j AND status = 'running'
ExpireAttempts(log) ==
    [n \in DOMAIN log |->
        IF log[n].status = "running"
        THEN [log[n] EXCEPT !.status = "lease_expired"] ELSE log[n]]

SetBatch(log, b, s) ==
    [n \in DOMAIN log |-> IF n = b THEN [log[n] EXCEPT !.status = s] ELSE log[n]]

\* publish_job_outcome: nothing without an intent; ON CONFLICT DO NOTHING.
Publish(j, outcome) ==
    IF intent[j] THEN notified[j] \cup {outcome} ELSE notified[j]

TypeOK ==
    /\ status \in [Jobs -> Statuses \cup {"absent"}]
    /\ attempts \in [Jobs -> Nat]
    /\ limit \in [Jobs -> Nat]
    /\ token \in [Jobs -> Nat]
    /\ ttl \in [Jobs -> 0..LeaseTicks]
    /\ due \in [Jobs -> BOOLEAN]
    /\ batchLog \in [Jobs -> Seq(BatchRow)]
    /\ attemptLog \in [Jobs -> Seq(AttemptRow)]
    /\ intent \in [Jobs -> BOOLEAN]
    /\ notified \in [Jobs -> SUBSET {"succeeded", "failed"}]
    /\ retried \in [Jobs -> SUBSET Keys]
    /\ tx \in [Jobs -> [phase : {"none", "open", "sealed"},
                        token : Nat, batch : Nat]]
    /\ pc \in [Workers -> {"idle", "work", "transient", "permanent"}]
    /\ lease \in [Workers -> [job : Jobs \cup {NoJob}, token : Nat, batch : Nat]]
    /\ published \in [Jobs -> SUBSET Nat]
    /\ fenced \in [Jobs -> Nat]

Init ==
    /\ status = [j \in Jobs |-> "absent"]
    /\ attempts = [j \in Jobs |-> 0]
    /\ limit = [j \in Jobs |-> 0]
    /\ token = [j \in Jobs |-> 0]
    /\ ttl = [j \in Jobs |-> 0]
    /\ due = [j \in Jobs |-> FALSE]
    /\ batchLog = [j \in Jobs |-> <<>>]
    /\ attemptLog = [j \in Jobs |-> <<>>]
    /\ intent = [j \in Jobs |-> FALSE]
    /\ notified = [j \in Jobs |-> {}]
    /\ retried = [j \in Jobs |-> {}]
    /\ tx = [j \in Jobs |-> NoTx]
    /\ pc = [w \in Workers |-> "idle"]
    /\ lease = [w \in Workers |-> NoLease]
    /\ published = [j \in Jobs |-> {}]
    /\ fenced = [j \in Jobs |-> 0]

(***************************************************************************)
(* The business transaction that enqueues a job, with or without an        *)
(* outcome notification.                                                   *)
(***************************************************************************)
Enqueue(j, m, notify) ==
    /\ status[j] = "absent"
    /\ status' = [status EXCEPT ![j] = "queued"]
    /\ limit' = [limit EXCEPT ![j] = m]
    /\ due' = [due EXCEPT ![j] = TRUE]
    /\ batchLog' = [batchLog EXCEPT ![j] =
                        <<[status |-> "queued", attempts |-> 0]>>]
    /\ intent' = [intent EXCEPT ![j] = notify]
    /\ UNCHANGED <<attempts, token, ttl, attemptLog, notified, retried, tx,
                   workerVars, histVars>>

(***************************************************************************)
(* claim: one transaction that first fails expired jobs that have no       *)
(* attempt left, then leases one runnable job.  Both selections skip       *)
(* locked rows.                                                            *)
(***************************************************************************)
FaultyExhausted ==
    {j \in Jobs : status[j] = "running" /\ ~Live(j) /\ attempts[j] >= limit[j]}

Exhausted ==
    {j \in Jobs : /\ status[j] = "running" /\ ~Live(j)
                  /\ attempts[j] >= limit[j] /\ Unlocked(j)}

\* The jobs that one poll may sweep: as many as the limit allows.
Sweeps ==
    IF Cardinality(Exhausted) <= SweepLimit THEN {Exhausted}
    ELSE {gone \in SUBSET Exhausted : Cardinality(gone) = SweepLimit}

FaultyClaimable ==
    {j \in Jobs : /\ attempts[j] < limit[j]
                  /\ \/ status[j] \in {"queued", "retry_wait"} /\ due[j]
                     \/ status[j] = "running" /\ ~Live(j)}
FaultyClaimableWaiting ==
    {j \in Jobs : /\ attempts[j] < limit[j] /\ Unlocked(j)
                  /\ status[j] \in {"queued", "retry_wait"} /\ due[j]}

Claimable ==
    {j \in Jobs : /\ attempts[j] < limit[j] /\ Unlocked(j)
                  /\ \/ status[j] \in {"queued", "retry_wait"} /\ due[j]
                     \/ status[j] = "running" /\ ~Live(j)}

SweptAttempts(gone, i) ==
    IF i \in gone
    THEN EndAttempt(attemptLog[i], token[i], "lease_expired")
    ELSE attemptLog[i]
SweptBatches(gone, i) ==
    IF i \in gone
    THEN SetBatch(batchLog[i], Len(batchLog[i]), "failed") ELSE batchLog[i]
SweptStatus(gone, i) == IF i \in gone THEN "failed" ELSE status[i]
SweptNotes(gone, i) == IF i \in gone THEN Publish(i, "failed") ELSE notified[i]

ClaimJob(w, j, gone) ==
    /\ pc[w] = "idle"
    /\ j \in Claimable
    /\ status' = [i \in Jobs |-> IF i = j THEN "running" ELSE SweptStatus(gone, i)]
    /\ attempts' = [attempts EXCEPT ![j] = @ + 1]
    /\ token' = [token EXCEPT ![j] = Len(attemptLog[j]) + 1]
    /\ ttl' = [ttl EXCEPT ![j] = LeaseTicks]
    /\ attemptLog' = [i \in Jobs |->
           IF i = j
           THEN Append(ExpireAttempts(attemptLog[j]),
                       [batch |-> Len(batchLog[j]), number |-> attempts[j] + 1,
                        status |-> "running"])
           ELSE SweptAttempts(gone, i)]
    /\ batchLog' = [i \in Jobs |->
           IF i = j
           THEN [batchLog[j] EXCEPT ![Len(batchLog[j])] =
                    [status |-> "running", attempts |-> attempts[j] + 1]]
           ELSE SweptBatches(gone, i)]
    /\ notified' = [i \in Jobs |-> SweptNotes(gone, i)]
    /\ pc' = [pc EXCEPT ![w] = "work"]
    /\ lease' = [lease EXCEPT ![w] =
           [job |-> j, token |-> Len(attemptLog[j]) + 1,
            batch |-> Len(batchLog[j])]]
    /\ UNCHANGED <<limit, due, intent, retried, tx, histVars>>

\* Nothing is runnable: the poll still fails the exhausted jobs.
ClaimNothing(w, gone) ==
    /\ pc[w] = "idle"
    /\ Claimable = {}
    /\ status' = [i \in Jobs |-> SweptStatus(gone, i)]
    /\ attemptLog' = [i \in Jobs |-> SweptAttempts(gone, i)]
    /\ batchLog' = [i \in Jobs |-> SweptBatches(gone, i)]
    /\ notified' = [i \in Jobs |-> SweptNotes(gone, i)]
    /\ UNCHANGED <<attempts, limit, token, ttl, due, intent, retried, tx,
                   workerVars, histVars>>

(***************************************************************************)
(* A running handler.                                                      *)
(***************************************************************************)
Heartbeat(w) ==
    /\ pc[w] = "work"
    /\ Unlocked(lease[w].job)
    /\ Current(lease[w])
    /\ ttl' = [ttl EXCEPT ![lease[w].job] = LeaseTicks]
    /\ UNCHANGED <<rowVars, logVars, noteVars, retried, tx, workerVars, histVars>>

\* lock_current: SELECT ... FOR UPDATE, the fence of a handler transaction.
LockCurrent(w) ==
    /\ pc[w] = "work"
    /\ Unlocked(lease[w].job)
    /\ Current(lease[w])
    /\ tx' = [tx EXCEPT ![lease[w].job] = Tx("open", lease[w])]
    /\ UNCHANGED <<rowVars, ttl, logVars, noteVars, retried, workerVars, histVars>>

\* A fenced transaction that commits intermediate results.
CommitStep(w) ==
    /\ pc[w] = "work"
    /\ Owns(w, "open")
    /\ tx' = [tx EXCEPT ![lease[w].job] = NoTx]
    /\ fenced' = [fenced EXCEPT ![lease[w].job] = lease[w].token]
    /\ UNCHANGED <<rowVars, ttl, logVars, noteVars, retried, workerVars, published>>

\* succeed, in the open transaction or as the first statement of a new one.
\* Its row changes become visible when the COMMIT takes effect.
Seal(w) ==
    /\ pc[w] = "work"
    /\ Unlocked(lease[w].job) \/ Owns(w, "open")
    /\ Current(lease[w])
    /\ tx' = [tx EXCEPT ![lease[w].job] = Tx("sealed", lease[w])]
    /\ UNCHANGED <<rowVars, ttl, logVars, noteVars, retried, workerVars, histVars>>

\* The COMMIT takes effect, whether or not a worker still waits for it.
CommitSuccess(j) ==
    /\ tx[j].phase = "sealed"
    /\ status' = [status EXCEPT ![j] = "succeeded"]
    /\ attemptLog' = [attemptLog EXCEPT ![j] = EndAttempt(@, tx[j].token, "succeeded")]
    /\ batchLog' = [batchLog EXCEPT ![j] = SetBatch(@, tx[j].batch, "succeeded")]
    /\ notified' = [notified EXCEPT ![j] = Publish(j, "succeeded")]
    /\ published' = [published EXCEPT ![j] = @ \cup {tx[j].token}]
    /\ fenced' = [fenced EXCEPT ![j] = tx[j].token]
    /\ tx' = [tx EXCEPT ![j] = NoTx]
    /\ UNCHANGED <<attempts, limit, token, ttl, due, intent, retried, workerVars>>

\* The connection is lost before the COMMIT takes effect; a waiting handler
\* sees a database error, which is transient.
RollbackSealed(j) ==
    /\ tx[j].phase = "sealed"
    /\ tx' = [tx EXCEPT ![j] = NoTx]
    /\ pc' = [w \in Workers |->
           IF /\ pc[w] = "work" /\ lease[w].job = j /\ lease[w].token = tx[j].token
           THEN "transient" ELSE pc[w]]
    /\ UNCHANGED <<rowVars, ttl, logVars, noteVars, retried, lease, histVars>>

\* LostLease from lock_current, succeed or a heartbeat (or Ok once the success
\* is committed): the attempt ends and writes nothing.
LoseLease(w) ==
    /\ pc[w] = "work"
    /\ Unlocked(lease[w].job) \/ Owns(w, "open")
    /\ ~Current(lease[w])
    /\ tx' = [tx EXCEPT ![lease[w].job] = NoTx]
    /\ pc' = [pc EXCEPT ![w] = "idle"]
    /\ lease' = [lease EXCEPT ![w] = NoLease]
    /\ UNCHANGED <<rowVars, ttl, logVars, noteVars, retried, histVars>>

\* The handler returns an error, or a heartbeat or handler timeout drops it.
\* An open transaction rolls back; a COMMIT already sent stays in flight, and
\* a handler waiting for one can only end with a transient error.
HandlerError(w, kind) ==
    /\ pc[w] = "work"
    /\ Owns(w, "sealed") => kind = "transient"
    /\ tx' = IF Owns(w, "open") THEN [tx EXCEPT ![lease[w].job] = NoTx] ELSE tx
    /\ pc' = [pc EXCEPT ![w] = kind]
    /\ UNCHANGED <<rowVars, ttl, logVars, noteVars, retried, lease, histVars>>

\* Lease::fail: retry_wait while attempts remain and the error is transient.
Fail(w) ==
    LET j == lease[w].job
        outcome == IF pc[w] = "transient" /\ attempts[j] < limit[j]
                   THEN "retry_wait" ELSE "failed"
    IN  /\ pc[w] \in {"transient", "permanent"}
        /\ Unlocked(j)
        /\ Current(lease[w])
        /\ status' = [status EXCEPT ![j] = outcome]
        /\ due' = [due EXCEPT ![j] = FALSE]
        /\ attemptLog' = [attemptLog EXCEPT ![j] =
               EndAttempt(@, lease[w].token, outcome)]
        /\ batchLog' = [batchLog EXCEPT ![j] = SetBatch(@, lease[w].batch, outcome)]
        /\ notified' = [notified EXCEPT ![j] =
               IF outcome = "failed" THEN Publish(j, "failed") ELSE @]
        /\ pc' = [pc EXCEPT ![w] = "idle"]
        /\ lease' = [lease EXCEPT ![w] = NoLease]
        /\ UNCHANGED <<attempts, limit, token, ttl, intent, retried, tx, histVars>>

\* The attempt ends without a recorded outcome: the process crashes or drains
\* past its shutdown bound, fail finds another lease or times out.
Abandon(w) ==
    /\ pc[w] # "idle"
    /\ tx' = IF Owns(w, "open") THEN [tx EXCEPT ![lease[w].job] = NoTx] ELSE tx
    /\ pc' = [pc EXCEPT ![w] = "idle"]
    /\ lease' = [lease EXCEPT ![w] = NoLease]
    /\ UNCHANGED <<rowVars, ttl, logVars, noteVars, retried, histVars>>

(***************************************************************************)
(* administration::retry, its idempotency record, and the database clock.  *)
(***************************************************************************)
Retryable(j) == Unlocked(j) /\ status[j] = "failed"

Retry(j, k) ==
    /\ Retryable(j)
    /\ k \notin retried[j]
    /\ Len(batchLog[j]) < MaxBatch
    /\ batchLog' = [batchLog EXCEPT ![j] =
           Append(@, [status |-> "queued", attempts |-> 0])]
    /\ status' = [status EXCEPT ![j] = "queued"]
    /\ attempts' = [attempts EXCEPT ![j] = 0]
    /\ due' = [due EXCEPT ![j] = TRUE]
    /\ token' = [token EXCEPT ![j] = 0]
    /\ ttl' = [ttl EXCEPT ![j] = 0]
    /\ retried' = [retried EXCEPT ![j] = @ \cup {k}]
    /\ UNCHANGED <<limit, attemptLog, noteVars, tx, workerVars, histVars>>

\* The idempotency record is reclaimed after its 24 hours.
ForgetRetry(j, k) ==
    /\ k \in retried[j]
    /\ retried' = [retried EXCEPT ![j] = @ \ {k}]
    /\ UNCHANGED <<rowVars, ttl, logVars, noteVars, tx, workerVars, histVars>>

LeaseTick(j) ==
    /\ status[j] = "running"
    /\ Live(j)
    /\ ttl' = [ttl EXCEPT ![j] = @ - 1]
    /\ UNCHANGED <<rowVars, logVars, noteVars, retried, tx, workerVars, histVars>>

BackoffEnds(j) ==
    /\ status[j] = "retry_wait"
    /\ ~due[j]
    /\ due' = [due EXCEPT ![j] = TRUE]
    /\ UNCHANGED <<status, attempts, limit, token, ttl, logVars, noteVars, retried,
                   tx, workerVars, histVars>>

JobStep(j) ==
    \/ \E m \in Limits, notify \in BOOLEAN : Enqueue(j, m, notify)
    \/ \E k \in Keys : Retry(j, k) \/ ForgetRetry(j, k)
    \/ CommitSuccess(j)
    \/ RollbackSealed(j)
    \/ LeaseTick(j)
    \/ BackoffEnds(j)

WorkerStep(w) ==
    \/ \E gone \in Sweeps : ClaimNothing(w, gone) \/ \E j \in Jobs : ClaimJob(w, j, gone)
    \/ Heartbeat(w)
    \/ LockCurrent(w)
    \/ CommitStep(w)
    \/ Seal(w)
    \/ LoseLease(w)
    \/ \E kind \in {"transient", "permanent"} : HandlerError(w, kind)
    \/ Fail(w)
    \/ Abandon(w)

Next == (\E j \in Jobs : JobStep(j)) \/ (\E w \in Workers : WorkerStep(w))

Spec == Init /\ [][Next]_vars

(***************************************************************************)
(* Fairness.  Workers poll for ever (run_until), every handler is bounded  *)
(* by a timeout, the server resolves every transaction, clocks advance,    *)
(* and the order of claims (scheduled_at, id) starves no job.              *)
(***************************************************************************)
Fairness ==
    /\ \A w \in Workers :
        /\ WF_vars(LoseLease(w) \/ HandlerError(w, "transient"))
        /\ WF_vars(pc[w] \in {"transient", "permanent"} /\ (Fail(w) \/ Abandon(w)))
    /\ SF_vars(\E w \in Workers, gone \in Sweeps :
                 ClaimNothing(w, gone) \/ \E j \in Jobs : ClaimJob(w, j, gone))
    /\ \A j \in Jobs :
        /\ SF_vars(\E w \in Workers, gone \in Sweeps : ClaimJob(w, j, gone))
        /\ WF_vars(CommitSuccess(j) \/ RollbackSealed(j))
        /\ WF_vars(LeaseTick(j))
        /\ WF_vars(BackoffEnds(j))

FairSpec == Spec /\ Fairness

(***************************************************************************)
(* Properties.                                                             *)
(***************************************************************************)

\* A transaction that passed the fence (lock_current, succeed) owns the job
\* until it ends: no claim, sweep, failure or retry takes the job from under
\* it, even if the lease runs out before the COMMIT.
FenceHolds ==
    \A j \in Jobs : ~Unlocked(j) =>
        /\ status[j] = "running"
        /\ tx[j].token = token[j]
        /\ tx[j].token = Len(attemptLog[j])
        /\ tx[j].batch = Len(batchLog[j])

\* The job row, its current batch and the attempt log that administrators read
\* tell one story: same status, same attempt count, and one running attempt
\* exactly when the job runs, namely the one that holds the lease.
HistoryAgrees ==
    \A j \in Jobs : status[j] # "absent" =>
        LET b == Len(batchLog[j])
        IN  /\ b > 0
            /\ batchLog[j][b] = [status |-> status[j], attempts |-> attempts[j]]
            /\ {n \in DOMAIN attemptLog[j] : attemptLog[j][n].status = "running"}
                 = IF status[j] = "running" THEN {token[j]} ELSE {}
            /\ status[j] = "running" =>
                 /\ attemptLog[j][token[j]].batch = b
                 /\ attemptLog[j][token[j]].number = attempts[j]

\* Crashes, lost leases and retries never make a batch run more often than its
\* max_attempts, and every attempt it did run is in the log, numbered 1, 2, ...
AttemptsAccounted ==
    \A j \in Jobs : \A b \in DOMAIN batchLog[j] :
        LET rows == {n \in DOMAIN attemptLog[j] : attemptLog[j][n].batch = b}
        IN  /\ batchLog[j][b].attempts <= limit[j]
            /\ Cardinality(rows) = batchLog[j][b].attempts
            /\ {attemptLog[j][n].number : n \in rows} = 1..batchLog[j][b].attempts

\* The requester of a settled job has been told its outcome, is never told of a
\* success that did not happen, nor of a failure unless some batch failed.
OutcomeNotified ==
    \A j \in Jobs :
        /\ intent[j] /\ status[j] \in {"succeeded", "failed"} => status[j] \in notified[j]
        /\ "succeeded" \in notified[j] => status[j] = "succeeded"
        /\ "failed" \in notified[j] =>
              \E b \in DOMAIN batchLog[j] : batchLog[j][b].status = "failed"

\* What administrators and requesters read of a job never contradicts what happened
\* to it, although claims, sweeps, outcomes and retries each write four tables.
RecordsAgree == HistoryAgrees /\ AttemptsAccounted /\ OutcomeNotified

\* However many workers believe they run a job, its business result commits at
\* most once, and exactly when the job is marked succeeded.
PublishedOnce ==
    \A j \in Jobs :
        /\ (published[j] = {}) = (status[j] # "succeeded")
        /\ \A t \in published[j] : published[j] = {t} /\ fenced[j] = t

\* History is append-only: success is final, a closed attempt keeps its outcome,
\* and a batch that a retry superseded is never written again.
HistoryIsFinal ==
    [][\A j \in Jobs :
        /\ status[j] = "succeeded" => UNCHANGED <<status[j], batchLog[j]>>
        /\ \A n \in DOMAIN attemptLog[j] :
              attemptLog[j][n].status # "running" => attemptLog'[j][n] = attemptLog[j][n]
        /\ \A b \in 1..(Len(batchLog[j]) - 1) : batchLog'[j][b] = batchLog[j][b]]_vars

\* Fencing: once a newer attempt exists, no handler transaction of an older one
\* commits, so committed effects of a job follow the order of its attempts.
FencedInOrder ==
    [][\A j \in Jobs : fenced'[j] # fenced[j] =>
        fenced'[j] = Len(attemptLog[j]) /\ fenced'[j] > fenced[j]]_vars

\* A job that is enqueued or retried succeeds or fails in the end, whatever
\* crashes, lost leases and storage errors its attempts meet.
EveryJobSettles ==
    \A j \in Jobs : status[j] \in {"queued", "running", "retry_wait"} ~>
                        status[j] \in {"succeeded", "failed"}

(***************************************************************************)
(* The queue implements its contract.                                      *)
(***************************************************************************)
PhaseOf(j) ==
    CASE status[j] = "absent" -> "none"
      [] status[j] \in {"queued", "running", "retry_wait"} -> "open"
      [] OTHER -> status[j]

Contract == INSTANCE JobContract WITH
    phase <- [j \in Jobs |-> PhaseOf(j)], wants <- intent,
    told <- notified, results <- [j \in Jobs |-> Cardinality(published[j])]

\* Every step of workers, leases and retries is a step of the contract that the
\* modules enqueueing work rely on, or changes nothing they can see.
ImplementsContract == Contract!Spec
=============================================================================
