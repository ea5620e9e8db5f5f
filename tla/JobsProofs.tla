----------------------------- MODULE JobsProofs -----------------------------
(***************************************************************************)
(* Theorems about Jobs, for every number of jobs and workers, every        *)
(* max_attempts, batch bound and lease length.                             *)
(***************************************************************************)
EXTENDS Jobs, SequenceTheorems, FiniteSetTheorems, TLAPS

(***************************************************************************)
(* Lemmas about the log operators.                                         *)
(***************************************************************************)

\* A function on 1..n is a sequence of length n.
LEMMA FunctionIsSeq ==
    ASSUME NEW S, NEW n \in Nat, NEW f \in [1..n -> S]
    PROVE  f \in Seq(S) /\ Len(f) = n
    OBVIOUS

\* Closing an attempt keeps the log a log of the same length.
LEMMA EndAttemptType ==
    ASSUME NEW log \in Seq(AttemptRow), NEW t, NEW outcome \in AttemptStatuses
    PROVE  /\ EndAttempt(log, t, outcome) \in Seq(AttemptRow)
           /\ Len(EndAttempt(log, t, outcome)) = Len(log)
<1> DEFINE new == EndAttempt(log, t, outcome)
<1>1. DOMAIN log = 1..Len(log) /\ Len(log) \in Nat
    OBVIOUS
<1>2. \A n \in 1..Len(log) : log[n] \in AttemptRow
    OBVIOUS
<1>3. \A n \in 1..Len(log) : [log[n] EXCEPT !.status = outcome] \in AttemptRow
    BY <1>2 DEF AttemptRow
<1>4. new \in [1..Len(log) -> AttemptRow]
    BY <1>1, <1>2, <1>3 DEF EndAttempt
<1>5. QED
    BY <1>1, <1>4

\* Closing every running attempt keeps the log a log of the same length.
LEMMA ExpireAttemptsType ==
    ASSUME NEW log \in Seq(AttemptRow)
    PROVE  /\ ExpireAttempts(log) \in Seq(AttemptRow)
           /\ Len(ExpireAttempts(log)) = Len(log)
<1>1. DOMAIN log = 1..Len(log) /\ Len(log) \in Nat
    OBVIOUS
<1>2. \A n \in 1..Len(log) : log[n] \in AttemptRow
    OBVIOUS
<1>3. \A n \in 1..Len(log) :
        [log[n] EXCEPT !.status = "lease_expired"] \in AttemptRow
    BY <1>2 DEF AttemptRow, AttemptStatuses
<1>4. ExpireAttempts(log) \in [1..Len(log) -> AttemptRow]
    BY <1>1, <1>2, <1>3 DEF ExpireAttempts
<1>5. QED
    BY <1>1, <1>4

\* Writing a batch's status keeps the batch log a log of the same length.
LEMMA SetBatchType ==
    ASSUME NEW log \in Seq(BatchRow), NEW b, NEW s \in Statuses
    PROVE  /\ SetBatch(log, b, s) \in Seq(BatchRow)
           /\ Len(SetBatch(log, b, s)) = Len(log)
<1>1. DOMAIN log = 1..Len(log) /\ Len(log) \in Nat
    OBVIOUS
<1>2. \A n \in 1..Len(log) : log[n] \in BatchRow
    OBVIOUS
<1>3. \A n \in 1..Len(log) : [log[n] EXCEPT !.status = s] \in BatchRow
    BY <1>2 DEF BatchRow
<1>4. SetBatch(log, b, s) \in [1..Len(log) -> BatchRow]
    BY <1>1, <1>2, <1>3 DEF SetBatch
<1>5. QED
    BY <1>1, <1>4
(***************************************************************************)
(* Type correctness.                                                       *)
(***************************************************************************)

\* A poll sweeps exhausted jobs only, at most as many as its limit allows.
LEMMA SweepsExhausted == Sweeps \subseteq SUBSET Exhausted
BY DEF Sweeps

\* The rows that a poll sweeps stay rows of the same length.
LEMMA SweepType ==
    ASSUME TypeOK, NEW gone \in SUBSET Exhausted, NEW i \in Jobs
    PROVE  /\ SweptStatus(gone, i) \in Statuses \cup {"absent"}
           /\ SweptAttempts(gone, i) \in Seq(AttemptRow)
           /\ Len(SweptAttempts(gone, i)) = Len(attemptLog[i])
           /\ SweptBatches(gone, i) \in Seq(BatchRow)
           /\ Len(SweptBatches(gone, i)) = Len(batchLog[i])
           /\ SweptNotes(gone, i) \in SUBSET {"succeeded", "failed"}
<1>1. attemptLog[i] \in Seq(AttemptRow) /\ batchLog[i] \in Seq(BatchRow)
    BY DEF TypeOK
<1>2. SweptStatus(gone, i) \in Statuses \cup {"absent"}
    BY DEF TypeOK, SweptStatus, Statuses
<1>3. SweptAttempts(gone, i) \in Seq(AttemptRow)
      /\ Len(SweptAttempts(gone, i)) = Len(attemptLog[i])
    BY <1>1, EndAttemptType DEF SweptAttempts, AttemptStatuses
<1>4. SweptBatches(gone, i) \in Seq(BatchRow)
      /\ Len(SweptBatches(gone, i)) = Len(batchLog[i])
    BY <1>1, SetBatchType DEF SweptBatches, Statuses
<1>5. SweptNotes(gone, i) \in SUBSET {"succeeded", "failed"}
    BY DEF TypeOK, SweptNotes, Publish
<1>6. QED
    BY <1>2, <1>3, <1>4, <1>5

\* The logs of the job that a poll leases: one attempt more, the same batches.
LEMMA ClaimType ==
    ASSUME TypeOK, NEW j \in Jobs
    PROVE  LET log == Append(ExpireAttempts(attemptLog[j]),
                        [batch |-> Len(batchLog[j]), number |-> attempts[j] + 1,
                         status |-> "running"])
               batches == [batchLog[j] EXCEPT ![Len(batchLog[j])] =
                            [status |-> "running", attempts |-> attempts[j] + 1]]
           IN  /\ log \in Seq(AttemptRow)
               /\ Len(log) = Len(attemptLog[j]) + 1
               /\ batches \in Seq(BatchRow)
               /\ Len(batches) = Len(batchLog[j])
<1>1. /\ attemptLog[j] \in Seq(AttemptRow)
      /\ batchLog[j] \in Seq(BatchRow)
      /\ attempts[j] \in Nat
    BY DEF TypeOK
<1>2. Len(batchLog[j]) \in Nat
    BY <1>1
<1>3. [batch |-> Len(batchLog[j]), number |-> attempts[j] + 1,
       status |-> "running"] \in AttemptRow
    BY <1>1, <1>2 DEF AttemptRow, AttemptStatuses
<1>4. [status |-> "running", attempts |-> attempts[j] + 1] \in BatchRow
    BY <1>1 DEF BatchRow, Statuses
<1>5. /\ ExpireAttempts(attemptLog[j]) \in Seq(AttemptRow)
      /\ Len(ExpireAttempts(attemptLog[j])) = Len(attemptLog[j])
    BY <1>1, ExpireAttemptsType
<1> DEFINE row == [batch |-> Len(batchLog[j]), number |-> attempts[j] + 1,
                  status |-> "running"]
          new == [status |-> "running", attempts |-> attempts[j] + 1]
<1>7. /\ Append(ExpireAttempts(attemptLog[j]), row) \in Seq(AttemptRow)
      /\ Len(Append(ExpireAttempts(attemptLog[j]), row)) = Len(attemptLog[j]) + 1
    <2> HIDE DEF row
    <2>1. row \in AttemptRow
        BY <1>3 DEF row
    <2>2. QED
        BY <1>5, <2>1
<1>8. /\ [batchLog[j] EXCEPT ![Len(batchLog[j])] = new] \in Seq(BatchRow)
      /\ Len([batchLog[j] EXCEPT ![Len(batchLog[j])] = new]) = Len(batchLog[j])
    <2> HIDE DEF new
    <2>1. new \in BatchRow
        BY <1>4 DEF new
    <2>2. batchLog[j] \in [1..Len(batchLog[j]) -> BatchRow]
        BY <1>1
    <2>3. [batchLog[j] EXCEPT ![Len(batchLog[j])] = new]
            \in [1..Len(batchLog[j]) -> BatchRow]
        BY <2>1, <2>2
    <2>4. QED
        BY <1>2, <2>3, FunctionIsSeq
<1>9. QED
    BY <1>7, <1>8

LEMMA TypeStep == TypeOK /\ [Next]_vars => TypeOK'
<1> SUFFICES ASSUME TypeOK, [Next]_vars PROVE TypeOK'
    OBVIOUS
<1> USE DEF TypeOK
<1>1. ASSUME NEW j \in Jobs, NEW m \in Limits, NEW notify \in BOOLEAN,
             Enqueue(j, m, notify)
      PROVE  TypeOK'
    <2>1. <<[status |-> "queued", attempts |-> 0]>> \in Seq(BatchRow)
        BY DEF BatchRow, Statuses
    <2>2. QED
        BY <1>1, <2>1, JobsAssumption
        DEF Enqueue, Statuses, workerVars, histVars
<1>2. ASSUME NEW w \in Workers, NEW j \in Jobs, NEW gone \in SUBSET Exhausted,
             ClaimJob(w, j, gone)
      PROVE  TypeOK'
    <2>1. Len(attemptLog[j]) + 1 \in Nat /\ Len(batchLog[j]) \in Nat
        OBVIOUS
    <2>2. status' \in [Jobs -> Statuses \cup {"absent"}]
        BY <1>2, SweepType DEF ClaimJob, Statuses
    <2>3. attemptLog' \in [Jobs -> Seq(AttemptRow)]
        BY <1>2, SweepType, ClaimType DEF ClaimJob
    <2>4. batchLog' \in [Jobs -> Seq(BatchRow)]
        BY <1>2, SweepType, ClaimType DEF ClaimJob
    <2>5. notified' \in [Jobs -> SUBSET {"succeeded", "failed"}]
        BY <1>2, SweepType DEF ClaimJob
    <2>6. ttl' \in [Jobs -> 0..LeaseTicks]
        BY <1>2, JobsAssumption DEF ClaimJob
    <2>7. /\ attempts' \in [Jobs -> Nat]
          /\ token' \in [Jobs -> Nat]
        BY <1>2, <2>1 DEF ClaimJob
    <2>8. /\ pc' \in [Workers -> {"idle", "work", "transient", "permanent"}]
          /\ lease' \in [Workers -> [job : Jobs \cup {NoJob}, token : Nat, batch : Nat]]
        BY <1>2, <2>1 DEF ClaimJob
    <2>9. UNCHANGED <<limit, due, intent, retried, tx, published, fenced>>
        BY <1>2 DEF ClaimJob, histVars
    <2>10. QED
        BY <2>2, <2>3, <2>4, <2>5, <2>6, <2>7, <2>8, <2>9
<1>3. ASSUME NEW w \in Workers, NEW gone \in SUBSET Exhausted, ClaimNothing(w, gone)
      PROVE  TypeOK'
    <2>1. status' \in [Jobs -> Statuses \cup {"absent"}]
        BY <1>3, SweepType DEF ClaimNothing
    <2>2. attemptLog' \in [Jobs -> Seq(AttemptRow)]
        BY <1>3, SweepType DEF ClaimNothing
    <2>3. batchLog' \in [Jobs -> Seq(BatchRow)]
        BY <1>3, SweepType DEF ClaimNothing
    <2>4. notified' \in [Jobs -> SUBSET {"succeeded", "failed"}]
        BY <1>3, SweepType DEF ClaimNothing
    <2>5. QED
        BY <1>3, <2>1, <2>2, <2>3, <2>4 DEF ClaimNothing, workerVars, histVars
<1>4. ASSUME NEW w \in Workers, Heartbeat(w)
      PROVE  TypeOK'
    <2>1. ttl' \in [Jobs -> 0..LeaseTicks]
        <3>1. LeaseTicks \in 0..LeaseTicks
            BY JobsAssumption
        <3>2. QED
            BY <1>4, <3>1 DEF Heartbeat
    <2>2. UNCHANGED <<rowVars, logVars, noteVars, retried, tx, workerVars, histVars>>
        BY <1>4 DEF Heartbeat
    <2>3. QED
        BY <2>1, <2>2 DEF rowVars, logVars, noteVars, workerVars, histVars
<1>5. ASSUME NEW w \in Workers, LockCurrent(w)
      PROVE  TypeOK'
    BY <1>5 DEF LockCurrent, Tx, rowVars, logVars, noteVars, workerVars, histVars
<1>6. ASSUME NEW w \in Workers, CommitStep(w)
      PROVE  TypeOK'
    BY <1>6 DEF CommitStep, NoTx, rowVars, logVars, noteVars, workerVars
<1>7. ASSUME NEW w \in Workers, Seal(w)
      PROVE  TypeOK'
    BY <1>7 DEF Seal, Tx, rowVars, logVars, noteVars, workerVars, histVars
<1>8. ASSUME NEW w \in Workers, LoseLease(w)
      PROVE  TypeOK'
    BY <1>8 DEF LoseLease, NoTx, NoLease, rowVars, logVars, noteVars, histVars
<1>9. ASSUME NEW w \in Workers, NEW kind \in {"transient", "permanent"},
             HandlerError(w, kind)
      PROVE  TypeOK'
    BY <1>9 DEF HandlerError, NoTx, rowVars, logVars, noteVars, histVars
<1>10. ASSUME NEW w \in Workers, Fail(w)
       PROVE  TypeOK'
    <2> DEFINE j == lease[w].job
               outcome == IF pc[w] = "transient" /\ attempts[j] < limit[j]
                          THEN "retry_wait" ELSE "failed"
    <2>1. outcome \in Statuses /\ outcome \in AttemptStatuses
        BY DEF Statuses, AttemptStatuses
    <2>2. \A i \in Jobs :
            /\ EndAttempt(attemptLog[i], lease[w].token, outcome) \in Seq(AttemptRow)
            /\ SetBatch(batchLog[i], lease[w].batch, outcome) \in Seq(BatchRow)
        BY <2>1, EndAttemptType, SetBatchType
    <2>3. attemptLog' \in [Jobs -> Seq(AttemptRow)]
        BY <1>10, <2>2 DEF Fail
    <2>4. batchLog' \in [Jobs -> Seq(BatchRow)]
        BY <1>10, <2>2 DEF Fail
    <2>5. status' \in [Jobs -> Statuses \cup {"absent"}]
        BY <1>10, <2>1 DEF Fail
    <2>6. notified' \in [Jobs -> SUBSET {"succeeded", "failed"}]
        BY <1>10 DEF Fail, Publish
    <2>7. QED
        BY <1>10, <2>3, <2>4, <2>5, <2>6 DEF Fail, NoLease, histVars
<1>11. ASSUME NEW w \in Workers, Abandon(w)
       PROVE  TypeOK'
    BY <1>11 DEF Abandon, NoTx, NoLease, rowVars, logVars, noteVars, histVars
<1>12. ASSUME NEW j \in Jobs, CommitSuccess(j)
       PROVE  TypeOK'
    <2>1. attemptLog' \in [Jobs -> Seq(AttemptRow)]
        BY <1>12, EndAttemptType DEF CommitSuccess, AttemptStatuses
    <2>2. batchLog' \in [Jobs -> Seq(BatchRow)]
        BY <1>12, SetBatchType DEF CommitSuccess, Statuses
    <2>3. notified' \in [Jobs -> SUBSET {"succeeded", "failed"}]
        BY <1>12 DEF CommitSuccess, Publish
    <2>4. /\ status' \in [Jobs -> Statuses \cup {"absent"}]
          /\ tx' \in [Jobs -> [phase : {"none", "open", "sealed"},
                               token : Nat, batch : Nat]]
        BY <1>12 DEF CommitSuccess, Statuses, NoTx
    <2>5. /\ published' \in [Jobs -> SUBSET Nat]
          /\ fenced' \in [Jobs -> Nat]
        BY <1>12 DEF CommitSuccess
    <2>6. QED
        BY <1>12, <2>1, <2>2, <2>3, <2>4, <2>5 DEF CommitSuccess, workerVars
<1>13. ASSUME NEW j \in Jobs, RollbackSealed(j)
       PROVE  TypeOK'
    BY <1>13 DEF RollbackSealed, NoTx, rowVars, logVars, noteVars, histVars
<1>14. ASSUME NEW j \in Jobs, NEW k \in Keys, Retry(j, k)
       PROVE  TypeOK'
    <2>1. batchLog' \in [Jobs -> Seq(BatchRow)]
        <3>1. [status |-> "queued", attempts |-> 0] \in BatchRow
            BY DEF BatchRow, Statuses
        <3>2. Append(batchLog[j], [status |-> "queued", attempts |-> 0]) \in Seq(BatchRow)
            BY <3>1
        <3>3. QED
            BY <1>14, <3>2 DEF Retry, Retryable
    <2>2. /\ status' \in [Jobs -> Statuses \cup {"absent"}]
          /\ attempts' \in [Jobs -> Nat]
          /\ token' \in [Jobs -> Nat]
          /\ due' \in [Jobs -> BOOLEAN]
          /\ retried' \in [Jobs -> SUBSET Keys]
        BY <1>14 DEF Retry, Retryable, Statuses
    <2>3. ttl' \in [Jobs -> 0..LeaseTicks]
        BY <1>14, JobsAssumption DEF Retry, Retryable
    <2>4. QED
        BY <1>14, <2>1, <2>2, <2>3 DEF Retry, Retryable, noteVars, workerVars, histVars
<1>15. ASSUME NEW j \in Jobs, NEW k \in Keys, ForgetRetry(j, k)
       PROVE  TypeOK'
    BY <1>15 DEF ForgetRetry, rowVars, logVars, noteVars, workerVars, histVars
<1>16. ASSUME NEW j \in Jobs, LeaseTick(j)
       PROVE  TypeOK'
    <2>1. ttl' \in [Jobs -> 0..LeaseTicks]
        BY <1>16, JobsAssumption DEF LeaseTick, Live
    <2>2. QED
        BY <1>16, <2>1
        DEF LeaseTick, rowVars, logVars, noteVars, workerVars, histVars
<1>17. ASSUME NEW j \in Jobs, BackoffEnds(j)
       PROVE  TypeOK'
    BY <1>17 DEF BackoffEnds, logVars, noteVars, workerVars, histVars
<1>18. ASSUME UNCHANGED vars
       PROVE  TypeOK'
    BY <1>18 DEF vars, rowVars, logVars, noteVars, workerVars, histVars
<1> HIDE DEF TypeOK
<1>19. QED
    BY <1>1, <1>2, <1>3, <1>4, <1>5, <1>6, <1>7, <1>8, <1>9, <1>10, <1>11,
       <1>12, <1>13, <1>14, <1>15, <1>16, <1>17, <1>18, SweepsExhausted
    DEF Next, JobStep, WorkerStep

\* Every variable keeps its type: in particular the attempt and batch logs stay
\* sequences of rows whatever the sweep, the outcomes and the retries write.
THEOREM TypeCorrect == Spec => []TypeOK
<1>1. Init => TypeOK
    BY JobsAssumption DEF Init, TypeOK, NoTx, NoLease, Statuses
<1>2. QED
    BY <1>1, TypeStep, PTL DEF Spec

(***************************************************************************)
(* The fence.  FenceHolds is not inductive: a worker whose lease was taken *)
(* still remembers a token and a batch, and could lock the row with them.  *)
(* LeaseInv says what such a memory can be worth; TokenInv says that the   *)
(* token of a running job is the newest attempt.                           *)
(***************************************************************************)
LeaseInv ==
    \A w \in Workers : pc[w] # "idle" =>
        /\ lease[w].job \in Jobs
        /\ lease[w].token \in 1..Len(attemptLog[lease[w].job])
        /\ lease[w].token = token[lease[w].job] =>
               lease[w].batch = Len(batchLog[lease[w].job])

TokenInv ==
    \A j \in Jobs :
        /\ status[j] = "running" => token[j] = Len(attemptLog[j])
        /\ status[j] = "absent" => Len(attemptLog[j]) = 0 /\ Len(batchLog[j]) = 0
        /\ fenced[j] <= Len(attemptLog[j])

FenceInv == TypeOK /\ LeaseInv /\ TokenInv /\ FenceHolds

LEMMA FenceInit == Init => FenceInv
<1> SUFFICES ASSUME Init PROVE FenceInv
    OBVIOUS
<1>1. TypeOK
    BY JobsAssumption DEF Init, TypeOK, NoTx, NoLease, Statuses
<1>2. LeaseInv
    BY DEF Init, LeaseInv
<1>3. TokenInv
    BY DEF Init, TokenInv
<1>4. FenceHolds
    BY DEF Init, FenceHolds, Unlocked, NoTx
<1>5. QED
    BY <1>1, <1>2, <1>3, <1>4 DEF FenceInv

\* The steps that leave every job row, both logs and the row locks alone, and
\* end at most an attempt, keep the fence.
LEMMA QuietStep ==
    ASSUME FenceInv, TypeOK', UNCHANGED <<status, token, logVars, fenced, tx>>,
           \A w \in Workers :
              pc'[w] # "idle" => pc[w] # "idle" /\ lease'[w] = lease[w]
    PROVE  FenceInv'
<1>1. LeaseInv'
    BY DEF FenceInv, LeaseInv, logVars
<1>2. TokenInv'
    BY DEF FenceInv, TokenInv, logVars
<1>3. FenceHolds'
    BY DEF FenceInv, FenceHolds, Unlocked, logVars
<1>4. QED
    BY <1>1, <1>2, <1>3 DEF FenceInv

\* A worker whose lease is current holds the newest attempt and batch.
LEMMA CurrentIsNewest ==
    ASSUME FenceInv, NEW w \in Workers, pc[w] # "idle", Current(lease[w])
    PROVE  /\ lease[w].job \in Jobs
           /\ status[lease[w].job] = "running"
           /\ lease[w].token = token[lease[w].job]
           /\ lease[w].token = Len(attemptLog[lease[w].job])
           /\ lease[w].batch = Len(batchLog[lease[w].job])
BY DEF FenceInv, LeaseInv, TokenInv, Current

\* Taking the row lock as the current attempt, or giving it up, keeps the fence.
LEMMA LockStep ==
    ASSUME FenceInv, TypeOK', NEW j \in Jobs,
           UNCHANGED <<status, token, logVars>>,
           \A i \in Jobs : fenced'[i] = fenced[i] \/ fenced'[i] = Len(attemptLog[i]),
           \A w \in Workers :
              pc'[w] # "idle" => pc[w] # "idle" /\ lease'[w] = lease[w],
           \A i \in Jobs \ {j} : tx'[i] = tx[i],
           \/ tx'[j].phase = "none"
           \/ /\ status[j] = "running"
              /\ tx'[j].token = token[j]
              /\ tx'[j].token = Len(attemptLog[j])
              /\ tx'[j].batch = Len(batchLog[j])
    PROVE  FenceInv'
<1>1. LeaseInv'
    BY DEF FenceInv, LeaseInv, logVars
<1>2. \A i \in Jobs : Len(attemptLog[i]) \in Nat /\ fenced[i] \in Nat
    BY DEF FenceInv, TypeOK
<1>3. TokenInv'
    BY <1>2 DEF FenceInv, TokenInv, logVars
<1>4. FenceHolds'
    BY DEF FenceInv, FenceHolds, Unlocked, logVars
<1>5. QED
    BY <1>1, <1>3, <1>4 DEF FenceInv

\* A poll: the jobs it sweeps are not locked and keep their tokens, batches and
\* log lengths.
LEMMA SweepKeeps ==
    ASSUME FenceInv, NEW gone \in SUBSET Exhausted, NEW i \in Jobs
    PROVE  /\ Len(SweptAttempts(gone, i)) = Len(attemptLog[i])
           /\ Len(SweptBatches(gone, i)) = Len(batchLog[i])
           /\ ~Unlocked(i) => SweptStatus(gone, i) = status[i]
           /\ SweptStatus(gone, i) = "running" => status[i] = "running"
           /\ SweptStatus(gone, i) = "absent" => status[i] = "absent"
BY SweepType, ZenonT(60) DEF FenceInv, SweptStatus, Exhausted

\* One job's row changes hands only while it is unlocked and its logs keep
\* their lengths: fail, and the COMMIT of a success.
LEMMA OutcomeStep ==
    ASSUME FenceInv, TypeOK', NEW j \in Jobs, status[j] = "running",
           NEW outcome \in {"retry_wait", "succeeded", "failed"},
           status' = [status EXCEPT ![j] = outcome],
           UNCHANGED token,
           tx'[j].phase = "none", \A i \in Jobs \ {j} : tx'[i] = tx[i],
           \A i \in Jobs : /\ Len(attemptLog'[i]) = Len(attemptLog[i])
                            /\ Len(batchLog'[i]) = Len(batchLog[i]),
           \A i \in Jobs : fenced'[i] = fenced[i] \/ fenced'[i] = Len(attemptLog[i]),
           \A w \in Workers :
              pc'[w] # "idle" => pc[w] # "idle" /\ lease'[w] = lease[w]
    PROVE  FenceInv'
<1>1. LeaseInv'
    BY DEF FenceInv, LeaseInv
<1>2. \A i \in Jobs : Len(attemptLog[i]) \in Nat /\ fenced[i] \in Nat
    BY DEF FenceInv, TypeOK
<1>3. \A i \in Jobs : status'[i] = IF i = j THEN outcome ELSE status[i]
    BY DEF FenceInv, TypeOK
<1>4. TokenInv'
    BY <1>2, <1>3 DEF FenceInv, TokenInv
<1>5. FenceHolds'
    BY <1>3 DEF FenceInv, FenceHolds, Unlocked
<1>6. QED
    BY <1>1, <1>4, <1>5 DEF FenceInv

LEMMA ClaimStep ==
    ASSUME FenceInv, TypeOK', NEW w \in Workers, NEW j \in Jobs, NEW gone \in SUBSET Exhausted,
             ClaimJob(w, j, gone)
    PROVE  FenceInv'
<1> DEFINE n == Len(attemptLog[j])
           b == Len(batchLog[j])
<1>1. /\ TypeOK
      /\ n \in Nat /\ b \in Nat
      /\ \A i \in Jobs : Len(attemptLog[i]) \in Nat /\ fenced[i] \in Nat
    <2>1. TypeOK
        BY DEF FenceInv
    <2>2. /\ attemptLog \in [Jobs -> Seq(AttemptRow)]
          /\ batchLog \in [Jobs -> Seq(BatchRow)]
          /\ fenced \in [Jobs -> Nat]
        BY <2>1 DEF TypeOK
    <2>3. QED
        BY <2>1, <2>2
<1>2. \A i \in Jobs :
        /\ Len(attemptLog'[i]) = IF i = j THEN n + 1 ELSE Len(attemptLog[i])
        /\ Len(batchLog'[i]) = Len(batchLog[i])
    BY <1>1, SweepKeeps, ClaimType DEF ClaimJob
<1>3. \A i \in Jobs :
        /\ token'[i] = IF i = j THEN n + 1 ELSE token[i]
        /\ status'[i] = IF i = j THEN "running" ELSE SweptStatus(gone, i)
    BY <1>1 DEF ClaimJob, TypeOK
<1>4. UNCHANGED <<tx, fenced>> /\ Unlocked(j)
    BY DEF ClaimJob, Claimable, histVars
<1>5. LeaseInv'
    <2> SUFFICES ASSUME NEW v \in Workers, pc'[v] # "idle"
                 PROVE  /\ lease'[v].job \in Jobs
                        /\ lease'[v].token \in 1..Len(attemptLog'[lease'[v].job])
                        /\ lease'[v].token = token'[lease'[v].job] =>
                              lease'[v].batch = Len(batchLog'[lease'[v].job])
        BY DEF LeaseInv
    <2>1. CASE v = w
        <3>1. lease'[w] = [job |-> j, token |-> n + 1, batch |-> b]
            BY <1>1 DEF ClaimJob, TypeOK
        <3>2. QED
            BY <1>1, <1>2, <2>1, <3>1
    <2>2. CASE v # w
        <3>1. pc[v] # "idle" /\ lease'[v] = lease[v]
            BY <1>1, <2>2 DEF ClaimJob, TypeOK
        <3>2. /\ lease[v].job \in Jobs
              /\ lease[v].token \in 1..Len(attemptLog[lease[v].job])
              /\ lease[v].token = token[lease[v].job] =>
                    lease[v].batch = Len(batchLog[lease[v].job])
            BY <3>1 DEF FenceInv, LeaseInv
        <3>3. QED
            BY <1>1, <1>2, <1>3, <3>1, <3>2
    <2>3. QED
        BY <2>1, <2>2
<1>6. TokenInv'
    BY <1>1, <1>2, <1>3, <1>4, SweepKeeps DEF FenceInv, TokenInv
<1>7. FenceHolds'
    <2> SUFFICES ASSUME NEW i \in Jobs, ~Unlocked(i)'
                 PROVE  /\ status'[i] = "running"
                        /\ tx'[i].token = token'[i]
                        /\ tx'[i].token = Len(attemptLog'[i])
                        /\ tx'[i].batch = Len(batchLog'[i])
        BY DEF FenceHolds
    <2>1. i # j /\ ~Unlocked(i)
        BY <1>4 DEF Unlocked
    <2>2. QED
        BY <1>2, <1>3, <1>4, <2>1, SweepKeeps DEF FenceInv, FenceHolds
<1>8. QED
    BY <1>5, <1>6, <1>7 DEF FenceInv

LEMMA FenceStep == FenceInv /\ [Next]_vars => FenceInv'
<1> SUFFICES ASSUME FenceInv, [Next]_vars PROVE FenceInv'
    OBVIOUS
<1>1. TypeOK /\ TypeOK'
    BY TypeStep DEF FenceInv
<1>2. ASSUME NEW j \in Jobs, NEW m \in Limits, NEW notify \in BOOLEAN,
             Enqueue(j, m, notify)
      PROVE  FenceInv'
    <2>1. /\ status[j] = "absent"
          /\ \A i \in Jobs : status'[i] = IF i = j THEN "queued" ELSE status[i]
          /\ \A i \in Jobs \ {j} : batchLog'[i] = batchLog[i]
          /\ UNCHANGED <<token, attemptLog, tx, pc, lease, fenced>>
        BY <1>1, <1>2 DEF Enqueue, TypeOK, workerVars, histVars
    <2>2. Len(attemptLog[j]) = 0
        BY <2>1 DEF FenceInv, TokenInv
    <2>3. LeaseInv'
        BY <2>1, <2>2 DEF FenceInv, LeaseInv
    <2>4. TokenInv'
        BY <2>1 DEF FenceInv, TokenInv
    <2>5. FenceHolds'
        BY <2>1 DEF FenceInv, FenceHolds, Unlocked
    <2>6. QED
        BY <1>1, <2>3, <2>4, <2>5 DEF FenceInv
<1>3. ASSUME NEW w \in Workers, NEW j \in Jobs, NEW gone \in SUBSET Exhausted,
             ClaimJob(w, j, gone)
      PROVE  FenceInv'
    BY <1>1, <1>3, ClaimStep
<1>4. ASSUME NEW w \in Workers, NEW gone \in SUBSET Exhausted, ClaimNothing(w, gone)
      PROVE  FenceInv'
    <2>1. /\ \A i \in Jobs : /\ status'[i] = SweptStatus(gone, i)
                             /\ Len(attemptLog'[i]) = Len(attemptLog[i])
                             /\ Len(batchLog'[i]) = Len(batchLog[i])
          /\ UNCHANGED <<token, tx, pc, lease, fenced>>
        BY <1>4, SweepKeeps DEF ClaimNothing, workerVars, histVars
    <2>2. LeaseInv'
        BY <2>1 DEF FenceInv, LeaseInv
    <2>3. TokenInv'
        BY <2>1, SweepKeeps DEF FenceInv, TokenInv
    <2>4. FenceHolds'
        BY <2>1, SweepKeeps DEF FenceInv, FenceHolds, Unlocked
    <2>5. QED
        BY <1>1, <2>2, <2>3, <2>4 DEF FenceInv
<1>5. ASSUME NEW w \in Workers, Heartbeat(w)
      PROVE  FenceInv'
    BY <1>1, <1>5, QuietStep DEF Heartbeat, rowVars, workerVars, histVars
<1>6. ASSUME NEW w \in Workers, LockCurrent(w) \/ Seal(w)
      PROVE  FenceInv'
    <2> DEFINE j == lease[w].job
    <2>1. Current(lease[w]) /\ pc[w] = "work"
        BY <1>6 DEF LockCurrent, Seal
    <2>2. j \in Jobs /\ status[j] = "running" /\ lease[w].token = token[j]
          /\ lease[w].token = Len(attemptLog[j]) /\ lease[w].batch = Len(batchLog[j])
        BY <2>1, CurrentIsNewest
    <2>3. tx'[j].token = lease[w].token /\ tx'[j].batch = lease[w].batch
        <3>1. tx'[j] \in {Tx("open", lease[w]), Tx("sealed", lease[w])}
            BY <1>1, <1>6, <2>2 DEF LockCurrent, Seal, TypeOK
        <3>2. QED
            BY <3>1 DEF Tx
    <2>4. \A i \in Jobs \ {j} : tx'[i] = tx[i]
        BY <1>1, <1>6 DEF LockCurrent, Seal, TypeOK
    <2>5. UNCHANGED <<status, token, logVars, fenced, pc, lease>>
        BY <1>6 DEF LockCurrent, Seal, rowVars, workerVars, histVars
    <2> HIDE DEF j
    <2>6. QED
        BY <1>1, <2>2, <2>3, <2>4, <2>5, LockStep
<1>7. ASSUME NEW w \in Workers, CommitStep(w)
      PROVE  FenceInv'
    <2> DEFINE j == lease[w].job
    <2>1. j \in Jobs
        BY <1>7 DEF CommitStep, FenceInv, LeaseInv
    <2>2. lease[w].token = Len(attemptLog[j])
        BY <1>7, <2>1 DEF CommitStep, Owns, FenceInv, FenceHolds, Unlocked
    <2>3. /\ tx'[j].phase = "none"
          /\ \A i \in Jobs \ {j} : tx'[i] = tx[i]
        BY <1>1, <1>7, <2>1 DEF CommitStep, NoTx, TypeOK
    <2>4. \A i \in Jobs : fenced'[i] = fenced[i] \/ fenced'[i] = Len(attemptLog[i])
        BY <1>1, <1>7, <2>2 DEF CommitStep, TypeOK
    <2>5. UNCHANGED <<status, token, logVars, pc, lease>>
        BY <1>7 DEF CommitStep, rowVars, workerVars
    <2> HIDE DEF j
    <2>6. QED
        BY <1>1, <2>1, <2>3, <2>4, <2>5, LockStep
<1>8. ASSUME NEW w \in Workers,
             \/ LoseLease(w)
             \/ \E kind \in {"transient", "permanent"} : HandlerError(w, kind)
             \/ Abandon(w)
      PROVE  FenceInv'
    <2> DEFINE j == lease[w].job
    <2>1. j \in Jobs
        BY <1>8 DEF LoseLease, HandlerError, Abandon, FenceInv, LeaseInv
    <2>2. /\ UNCHANGED <<status, token, logVars, fenced>>
          /\ tx' = [tx EXCEPT ![j] = NoTx] \/ tx' = tx
        BY <1>8 DEF LoseLease, HandlerError, Abandon, rowVars, histVars
    <2>3. \A v \in Workers :
            pc'[v] # "idle" => pc[v] # "idle" /\ lease'[v] = lease[v]
        BY <1>1, <1>8 DEF LoseLease, HandlerError, Abandon, TypeOK
    <2> HIDE DEF j
    <2>4. CASE tx' = tx
        BY <1>1, <2>2, <2>3, <2>4, QuietStep
    <2>5. CASE tx' = [tx EXCEPT ![j] = NoTx]
        <3>1. /\ tx'[j].phase = "none"
              /\ \A i \in Jobs \ {j} : tx'[i] = tx[i]
            BY <1>1, <2>1, <2>5 DEF NoTx, TypeOK
        <3>2. QED
            BY <1>1, <2>1, <2>2, <2>3, <3>1, LockStep
    <2>6. QED
        BY <2>2, <2>4, <2>5
<1>9. ASSUME NEW w \in Workers, Fail(w)
      PROVE  FenceInv'
    <2> DEFINE j == lease[w].job
               outcome == IF pc[w] = "transient" /\ attempts[j] < limit[j]
                          THEN "retry_wait" ELSE "failed"
    <2>1. Current(lease[w]) /\ pc[w] # "idle"
        BY <1>9 DEF Fail
    <2>2. j \in Jobs /\ status[j] = "running"
        BY <2>1, CurrentIsNewest
    <2>3. /\ outcome \in {"retry_wait", "succeeded", "failed"}
          /\ outcome \in AttemptStatuses
          /\ outcome \in Statuses
        BY DEF AttemptStatuses, Statuses
    <2>4. /\ status' = [status EXCEPT ![j] = outcome]
          /\ UNCHANGED <<token, tx, fenced>>
          /\ Unlocked(j)
        BY <1>9 DEF Fail, histVars
    <2>5. \A i \in Jobs : Len(attemptLog'[i]) = Len(attemptLog[i])
        BY <1>1, <1>9, <2>3, EndAttemptType DEF Fail, TypeOK
    <2>6. \A i \in Jobs : Len(batchLog'[i]) = Len(batchLog[i])
        BY <1>1, <1>9, <2>3, SetBatchType DEF Fail, TypeOK
    <2>7. \A v \in Workers :
            pc'[v] # "idle" => pc[v] # "idle" /\ lease'[v] = lease[v]
        BY <1>1, <1>9 DEF Fail, TypeOK
    <2> HIDE DEF j, outcome
    <2>8. QED
        BY <1>1, <2>2, <2>3, <2>4, <2>5, <2>6, <2>7, OutcomeStep DEF Unlocked
<1>10. ASSUME NEW j \in Jobs, CommitSuccess(j)
       PROVE  FenceInv'
    <2>1. status[j] = "running" /\ tx[j].token = Len(attemptLog[j])
        BY <1>10 DEF CommitSuccess, FenceInv, FenceHolds, Unlocked
    <2>2. /\ status' = [status EXCEPT ![j] = "succeeded"]
          /\ UNCHANGED <<token, pc, lease>>
        BY <1>10 DEF CommitSuccess, workerVars
    <2>3. /\ tx'[j].phase = "none"
          /\ \A i \in Jobs \ {j} : tx'[i] = tx[i]
        BY <1>1, <1>10 DEF CommitSuccess, NoTx, TypeOK
    <2>4. \A i \in Jobs : fenced'[i] = fenced[i] \/ fenced'[i] = Len(attemptLog[i])
        BY <1>1, <1>10, <2>1 DEF CommitSuccess, TypeOK
    <2>5. \A i \in Jobs : Len(attemptLog'[i]) = Len(attemptLog[i])
        BY <1>1, <1>10, EndAttemptType DEF CommitSuccess, TypeOK, AttemptStatuses
    <2>6. \A i \in Jobs : Len(batchLog'[i]) = Len(batchLog[i])
        BY <1>1, <1>10, SetBatchType DEF CommitSuccess, TypeOK, Statuses
    <2>7. QED
        BY <1>1, <2>1, <2>2, <2>3, <2>4, <2>5, <2>6, OutcomeStep
<1>11. ASSUME NEW j \in Jobs, RollbackSealed(j)
       PROVE  FenceInv'
    <2>1. /\ tx'[j].phase = "none"
          /\ \A i \in Jobs \ {j} : tx'[i] = tx[i]
          /\ UNCHANGED <<status, token, logVars, fenced, lease>>
          /\ \A v \in Workers : pc'[v] # "idle" => pc[v] # "idle"
        BY <1>1, <1>11 DEF RollbackSealed, NoTx, TypeOK, rowVars, histVars
    <2>2. QED
        BY <1>1, <2>1, LockStep
<1>12. ASSUME NEW j \in Jobs, NEW k \in Keys, Retry(j, k)
       PROVE  FenceInv'
    <2>1. /\ Unlocked(j)
          /\ \A i \in Jobs : /\ status'[i] = IF i = j THEN "queued" ELSE status[i]
                             /\ token'[i] = IF i = j THEN 0 ELSE token[i]
          /\ \A i \in Jobs \ {j} : batchLog'[i] = batchLog[i]
          /\ UNCHANGED <<attemptLog, tx, pc, lease, fenced>>
        BY <1>1, <1>12 DEF Retry, Retryable, TypeOK, workerVars, histVars
    <2>2. LeaseInv'
        <3>1. \A i \in Jobs : Len(attemptLog[i]) \in Nat
            BY <1>1 DEF TypeOK
        <3>2. QED
            BY <2>1, <3>1 DEF FenceInv, LeaseInv
    <2>3. TokenInv'
        BY <2>1 DEF FenceInv, TokenInv
    <2>4. FenceHolds'
        BY <2>1 DEF FenceInv, FenceHolds, Unlocked
    <2>5. QED
        BY <1>1, <2>2, <2>3, <2>4 DEF FenceInv
<1>13. ASSUME NEW j \in Jobs,
              \/ \E k \in Keys : ForgetRetry(j, k)
              \/ LeaseTick(j)
              \/ BackoffEnds(j)
       PROVE  FenceInv'
    BY <1>1, <1>13, QuietStep
    DEF ForgetRetry, LeaseTick, BackoffEnds, rowVars, workerVars, histVars
<1>14. ASSUME UNCHANGED vars
       PROVE  FenceInv'
    BY <1>1, <1>14, QuietStep DEF vars, rowVars, workerVars, histVars
<1>15. QED
    BY <1>2, <1>3, <1>4, <1>5, <1>6, <1>7, <1>8, <1>9, <1>10, <1>11, <1>12,
       <1>13, <1>14, SweepsExhausted
    DEF Next, JobStep, WorkerStep

\* A handler transaction that passed the fence owns its job until it ends,
\* however many workers, expired leases, sweeps and retries there are.
THEOREM FenceCorrect == Spec => []FenceHolds
<1>1. FenceInv => FenceHolds
    BY DEF FenceInv
<1>2. QED
    BY <1>1, FenceInit, FenceStep, PTL DEF Spec

(***************************************************************************)
(* What the fence is for: results are published once, in order, and the    *)
(* history administrators read is never rewritten.                         *)
(***************************************************************************)

\* A step that neither publishes nor moves a job into or out of "succeeded".
LEMMA UnpublishedStep ==
    ASSUME PublishedOnce, UNCHANGED published,
           \A j \in Jobs : (status'[j] = "succeeded") = (status[j] = "succeeded"),
           \A j \in Jobs : published[j] # {} => fenced'[j] = fenced[j]
    PROVE  PublishedOnce'
BY DEF PublishedOnce

LEMMA PublishStep == FenceInv /\ PublishedOnce /\ [Next]_vars => PublishedOnce'
<1> SUFFICES ASSUME FenceInv, PublishedOnce, [Next]_vars PROVE PublishedOnce'
    OBVIOUS
<1>1. TypeOK
    BY DEF FenceInv
<1>2. ASSUME NEW j \in Jobs, NEW m \in Limits, NEW notify \in BOOLEAN,
             Enqueue(j, m, notify)
      PROVE  PublishedOnce'
    BY <1>1, <1>2, UnpublishedStep DEF Enqueue, TypeOK, histVars
<1>3. ASSUME NEW w \in Workers, NEW j \in Jobs, NEW gone \in SUBSET Exhausted,
             ClaimJob(w, j, gone)
      PROVE  PublishedOnce'
    <2>1. UNCHANGED <<published, fenced>>
        BY <1>3 DEF ClaimJob, histVars
    <2>2. \A i \in Jobs : (SweptStatus(gone, i) = "succeeded") = (status[i] = "succeeded")
        BY DEF SweptStatus, Exhausted
    <2>3. \A i \in Jobs : (status'[i] = "succeeded") = (status[i] = "succeeded")
        BY <1>3, <2>2 DEF ClaimJob, Claimable
    <2>4. QED
        BY <2>1, <2>3, UnpublishedStep
<1>4. ASSUME NEW w \in Workers, NEW gone \in SUBSET Exhausted, ClaimNothing(w, gone)
      PROVE  PublishedOnce'
    BY <1>4, UnpublishedStep DEF ClaimNothing, SweptStatus, Exhausted, histVars
<1>5. ASSUME NEW w \in Workers,
             \/ Heartbeat(w) \/ LockCurrent(w) \/ Seal(w) \/ LoseLease(w) \/ Abandon(w)
             \/ \E kind \in {"transient", "permanent"} : HandlerError(w, kind)
      PROVE  PublishedOnce'
    <2>1. UNCHANGED <<status, published, fenced>>
        BY <1>5 DEF Heartbeat, LockCurrent, Seal, LoseLease, Abandon, HandlerError,
                    rowVars, histVars
    <2>2. QED
        BY <2>1, UnpublishedStep
<1>6. ASSUME NEW w \in Workers, CommitStep(w)
      PROVE  PublishedOnce'
    <2> DEFINE j == lease[w].job
    <2>1. j \in Jobs /\ status[j] = "running"
        BY <1>6 DEF CommitStep, Owns, FenceInv, LeaseInv, FenceHolds, Unlocked
    <2>2. published[j] = {}
        BY <2>1 DEF PublishedOnce
    <2>3. /\ UNCHANGED <<status, published>>
          /\ \A i \in Jobs \ {j} : fenced'[i] = fenced[i]
        BY <1>1, <1>6 DEF CommitStep, TypeOK, rowVars
    <2>4. QED
        BY <2>2, <2>3, UnpublishedStep
<1>7. ASSUME NEW w \in Workers, Fail(w)
      PROVE  PublishedOnce'
    <2> DEFINE j == lease[w].job
    <2>1. j \in Jobs /\ status[j] = "running"
        BY <1>7, CurrentIsNewest DEF Fail
    <2>2. /\ status'[j] \in {"retry_wait", "failed"}
          /\ \A i \in Jobs \ {j} : status'[i] = status[i]
          /\ UNCHANGED <<published, fenced>>
        BY <1>1, <1>7, <2>1 DEF Fail, TypeOK, histVars
    <2>3. QED
        BY <2>1, <2>2, UnpublishedStep
<1>8. ASSUME NEW j \in Jobs, CommitSuccess(j)
      PROVE  PublishedOnce'
    <2> DEFINE t == tx[j].token
    <2>1. status[j] = "running" /\ published[j] = {}
        BY <1>8 DEF CommitSuccess, FenceInv, FenceHolds, Unlocked, PublishedOnce
    <2>2. status'[j] = "succeeded" /\ published'[j] = {t} /\ fenced'[j] = t
        BY <1>1, <1>8, <2>1 DEF CommitSuccess, TypeOK
    <2>3. \A i \in Jobs \ {j} : /\ status'[i] = status[i]
                                 /\ published'[i] = published[i]
                                 /\ fenced'[i] = fenced[i]
        BY <1>1, <1>8 DEF CommitSuccess, TypeOK
    <2>4. QED
        BY <2>2, <2>3 DEF PublishedOnce
<1>9. ASSUME NEW j \in Jobs, NEW k \in Keys, Retry(j, k)
      PROVE  PublishedOnce'
    BY <1>1, <1>9, UnpublishedStep DEF Retry, Retryable, TypeOK, histVars
<1>10. ASSUME NEW j \in Jobs,
              \/ RollbackSealed(j) \/ LeaseTick(j) \/ BackoffEnds(j)
              \/ \E k \in Keys : ForgetRetry(j, k)
       PROVE  PublishedOnce'
    <2>1. UNCHANGED <<status, published, fenced>>
        BY <1>10 DEF RollbackSealed, LeaseTick, BackoffEnds, ForgetRetry,
                     rowVars, histVars
    <2>2. QED
        BY <2>1, UnpublishedStep
<1>11. CASE UNCHANGED vars
    BY <1>11, UnpublishedStep DEF vars, rowVars, histVars
<1>12. QED
    BY <1>2, <1>3, <1>4, <1>5, <1>6, <1>7, <1>8, <1>9, <1>10, <1>11, SweepsExhausted
    DEF Next, JobStep, WorkerStep

\* However many workers run a job, its business result is committed at most
\* once, by its newest attempt, and exactly when the job is marked succeeded.
THEOREM PublishedOnceCorrect == Spec => []PublishedOnce
<1>1. Init => PublishedOnce
    BY DEF Init, PublishedOnce
<1>2. QED
    BY <1>1, FenceInit, FenceStep, PublishStep, PTL DEF Spec

\* Committed effects follow the order of the attempts: once a newer attempt
\* exists, no transaction of an older one takes effect.
THEOREM FencedInOrderCorrect == Spec => FencedInOrder
<1>1. ASSUME FenceInv, [Next]_vars
      PROVE  [\A j \in Jobs : fenced'[j] # fenced[j] =>
                fenced'[j] = Len(attemptLog[j]) /\ fenced'[j] > fenced[j]]_vars
    <2>1. \A j \in Jobs : Len(attemptLog[j]) \in Nat /\ fenced[j] \in Nat
                          /\ fenced[j] <= Len(attemptLog[j])
        BY <1>1 DEF FenceInv, TypeOK, TokenInv
    <2>2. SUFFICES ASSUME NEW j \in Jobs, fenced'[j] # fenced[j]
                   PROVE  fenced'[j] = Len(attemptLog[j])
        BY <2>1
    <2>3. ASSUME NEW w \in Workers, CommitStep(w)
          PROVE  fenced'[j] = Len(attemptLog[j])
        <3>1. lease[w].job = j /\ fenced'[j] = lease[w].token
            BY <1>1, <2>2, <2>3 DEF CommitStep, FenceInv, TypeOK
        <3>2. tx[j].token = Len(attemptLog[j])
            BY <1>1, <2>3, <3>1 DEF CommitStep, Owns, FenceInv, FenceHolds, Unlocked
        <3>3. QED
            BY <2>3, <3>1, <3>2 DEF CommitStep, Owns
    <2>4. ASSUME NEW i \in Jobs, CommitSuccess(i)
          PROVE  fenced'[j] = Len(attemptLog[j])
        <3>1. i = j /\ fenced'[j] = tx[j].token
            BY <1>1, <2>2, <2>4 DEF CommitSuccess, FenceInv, TypeOK
        <3>2. QED
            BY <1>1, <2>4, <3>1 DEF CommitSuccess, FenceInv, FenceHolds, Unlocked
    <2>5. (\E w \in Workers : CommitStep(w)) \/ (\E i \in Jobs : CommitSuccess(i))
        BY <1>1, <2>2, ZenonT(60)
        DEF Next, JobStep, WorkerStep, Enqueue, ClaimJob, ClaimNothing, Heartbeat,
            LockCurrent, Seal, LoseLease, HandlerError, Fail, Abandon,
            RollbackSealed, Retry, ForgetRetry, LeaseTick, BackoffEnds,
            vars, histVars
    <2>6. QED
        BY <2>3, <2>4, <2>5
<1>2. QED
    BY <1>1, FenceInit, FenceStep, PTL DEF Spec, FencedInOrder

(***************************************************************************)
(* The history is append-only.                                             *)
(***************************************************************************)

\* What HistoryIsFinal asks of one job in one step.
Final(j) ==
    /\ status[j] = "succeeded" => UNCHANGED <<status[j], batchLog[j]>>
    /\ \A n \in DOMAIN attemptLog[j] :
          attemptLog[j][n].status # "running" => attemptLog'[j][n] = attemptLog[j][n]
    /\ \A b \in 1..(Len(batchLog[j]) - 1) : batchLog'[j][b] = batchLog[j][b]

\* Ending an attempt leaves the closed ones as they are.
LEMMA EndAttemptFinal ==
    ASSUME NEW log \in Seq(AttemptRow), NEW t, NEW outcome,
           NEW n \in DOMAIN log, log[n].status # "running"
    PROVE  EndAttempt(log, t, outcome)[n] = log[n]
BY DEF EndAttempt

\* So does leasing a job again.
LEMMA ClaimFinal ==
    ASSUME NEW log \in Seq(AttemptRow), NEW row \in AttemptRow,
           NEW n \in DOMAIN log, log[n].status # "running"
    PROVE  Append(ExpireAttempts(log), row)[n] = log[n]
<1>1. ExpireAttempts(log)[n] = log[n]
    BY DEF ExpireAttempts
<1>2. n \in 1..Len(ExpireAttempts(log)) /\ ExpireAttempts(log) \in Seq(AttemptRow)
    BY ExpireAttemptsType
<1>3. QED
    BY <1>1, <1>2

\* Writing the newest batch leaves the older ones as they are.
LEMMA SetBatchFinal ==
    ASSUME NEW log \in Seq(BatchRow), NEW s, NEW b \in 1..(Len(log) - 1)
    PROVE  SetBatch(log, Len(log), s)[b] = log[b]
BY DEF SetBatch

\* Neither does a poll touch what is closed in the jobs it sweeps.
LEMMA SweepFinal ==
    ASSUME TypeOK, NEW gone \in SUBSET Exhausted, NEW j \in Jobs,
           status'[j] = SweptStatus(gone, j),
           attemptLog'[j] = SweptAttempts(gone, j), batchLog'[j] = SweptBatches(gone, j)
    PROVE  Final(j)
<1>1. attemptLog[j] \in Seq(AttemptRow) /\ batchLog[j] \in Seq(BatchRow)
    BY DEF TypeOK
<1>2. CASE j \in gone
    <2>1. status[j] = "running"
        BY <1>2 DEF Exhausted
    <2>2. \A n \in DOMAIN attemptLog[j] : attemptLog[j][n].status # "running" =>
              attemptLog'[j][n] = attemptLog[j][n]
        BY <1>1, <1>2, EndAttemptFinal DEF SweptAttempts
    <2>3. \A b \in 1..(Len(batchLog[j]) - 1) : batchLog'[j][b] = batchLog[j][b]
        BY <1>1, <1>2, SetBatchFinal DEF SweptBatches
    <2>4. QED
        BY <2>1, <2>2, <2>3 DEF Final
<1>3. CASE j \notin gone
    BY <1>3 DEF Final, SweptStatus, SweptAttempts, SweptBatches
<1>4. QED
    BY <1>2, <1>3

LEMMA FinalStep ==
    ASSUME FenceInv, [Next]_vars, NEW j \in Jobs
    PROVE  Final(j)
<1>1. /\ TypeOK
      /\ attemptLog[j] \in Seq(AttemptRow)
      /\ batchLog[j] \in Seq(BatchRow)
    BY DEF FenceInv, TypeOK
<1>2. ASSUME UNCHANGED <<status[j], attemptLog[j], batchLog[j]>>
      PROVE  Final(j)
    BY <1>2 DEF Final
<1>3. ASSUME NEW i \in Jobs, NEW m \in Limits, NEW notify \in BOOLEAN,
             Enqueue(i, m, notify)
      PROVE  Final(j)
    <2>1. CASE i # j
        BY <1>1, <1>2, <1>3, <2>1 DEF Enqueue, TypeOK
    <2>2. CASE i = j
        <3>1. status[j] = "absent" /\ attemptLog' = attemptLog
            BY <1>3, <2>2 DEF Enqueue
        <3>2. \A b \in 1..(Len(batchLog[j]) - 1) : batchLog'[j][b] = batchLog[j][b]
            <4>1. batchLog'[j] = <<[status |-> "queued", attempts |-> 0]>>
                BY <1>1, <1>3, <2>2 DEF Enqueue, TypeOK
            <4>2. Len(batchLog[j]) = 0
                BY <3>1 DEF FenceInv, TokenInv
            <4>3. QED
                BY <4>2
        <3>3. QED
            BY <3>1, <3>2 DEF Final
    <2>3. QED
        BY <2>1, <2>2
<1>4. ASSUME NEW w \in Workers, NEW i \in Jobs, NEW gone \in SUBSET Exhausted,
             ClaimJob(w, i, gone)
      PROVE  Final(j)
    <2>1. CASE i # j
        BY <1>1, <1>4, <2>1, SweepFinal DEF ClaimJob
    <2>2. CASE i = j
        <3>1. status[j] # "succeeded"
            BY <1>4, <2>2 DEF ClaimJob, Claimable
        <3>2. \A n \in DOMAIN attemptLog[j] : attemptLog[j][n].status # "running" =>
                  attemptLog'[j][n] = attemptLog[j][n]
            <4> DEFINE row == [batch |-> Len(batchLog[j]), number |-> attempts[j] + 1,
                               status |-> "running"]
            <4>1. attemptLog'[j] = Append(ExpireAttempts(attemptLog[j]), row)
                BY <1>4, <2>2 DEF ClaimJob
            <4>2. row \in AttemptRow
                <5>1. attempts[j] \in Nat /\ Len(batchLog[j]) \in Nat
                    BY <1>1 DEF TypeOK
                <5>2. QED
                    BY <5>1 DEF AttemptRow, AttemptStatuses
            <4> HIDE DEF row
            <4>3. QED
                BY <1>1, <4>1, <4>2, ClaimFinal
        <3>3. \A b \in 1..(Len(batchLog[j]) - 1) : batchLog'[j][b] = batchLog[j][b]
            BY <1>1, <1>4, <2>2 DEF ClaimJob
        <3>4. QED
            BY <3>1, <3>2, <3>3 DEF Final
    <2>3. QED
        BY <2>1, <2>2
<1>5. ASSUME NEW w \in Workers, NEW gone \in SUBSET Exhausted, ClaimNothing(w, gone)
      PROVE  Final(j)
    BY <1>1, <1>5, SweepFinal DEF ClaimNothing
<1>6. ASSUME NEW w \in Workers,
             \/ Heartbeat(w) \/ LockCurrent(w) \/ CommitStep(w) \/ Seal(w)
             \/ LoseLease(w) \/ Abandon(w)
             \/ \E kind \in {"transient", "permanent"} : HandlerError(w, kind)
      PROVE  Final(j)
    <2>1. UNCHANGED <<status, logVars>>
        BY <1>6 DEF Heartbeat, LockCurrent, CommitStep, Seal, LoseLease, Abandon,
                    HandlerError, rowVars
    <2>2. QED
        BY <1>2, <2>1 DEF logVars
<1>7. ASSUME NEW w \in Workers, Fail(w)
      PROVE  Final(j)
    <2>1. /\ lease[w].job \in Jobs
          /\ status[lease[w].job] = "running"
          /\ lease[w].batch = Len(batchLog[lease[w].job])
        BY <1>7, CurrentIsNewest DEF Fail
    <2>2. CASE lease[w].job # j
        BY <1>1, <1>2, <1>7, <2>2 DEF Fail, TypeOK
    <2>3. CASE lease[w].job = j
        <3> DEFINE outcome == IF pc[w] = "transient" /\ attempts[j] < limit[j]
                              THEN "retry_wait" ELSE "failed"
        <3>1. /\ attemptLog'[j] = EndAttempt(attemptLog[j], lease[w].token, outcome)
              /\ batchLog'[j] = SetBatch(batchLog[j], Len(batchLog[j]), outcome)
            BY <1>1, <1>7, <2>1, <2>3 DEF Fail, TypeOK
        <3> HIDE DEF outcome
        <3>2. QED
            BY <1>1, <2>1, <2>3, <3>1, EndAttemptFinal, SetBatchFinal DEF Final
    <2>4. QED
        BY <2>2, <2>3
<1>8. ASSUME NEW i \in Jobs, CommitSuccess(i)
      PROVE  Final(j)
    <2>1. CASE i # j
        BY <1>1, <1>2, <1>8, <2>1 DEF CommitSuccess, TypeOK
    <2>2. CASE i = j
        <3>1. status[j] = "running" /\ tx[j].batch = Len(batchLog[j])
            BY <1>8, <2>2 DEF CommitSuccess, FenceInv, FenceHolds, Unlocked
        <3>2. /\ attemptLog'[j] = EndAttempt(attemptLog[j], tx[j].token, "succeeded")
              /\ batchLog'[j] = SetBatch(batchLog[j], Len(batchLog[j]), "succeeded")
            BY <1>1, <1>8, <2>2, <3>1 DEF CommitSuccess, TypeOK
        <3>3. QED
            BY <1>1, <3>1, <3>2, EndAttemptFinal, SetBatchFinal DEF Final
    <2>3. QED
        BY <2>1, <2>2
<1>9. ASSUME NEW i \in Jobs, NEW k \in Keys, Retry(i, k)
      PROVE  Final(j)
    <2>1. CASE i # j
        BY <1>1, <1>2, <1>9, <2>1 DEF Retry, Retryable, TypeOK
    <2>2. CASE i = j
        <3> DEFINE row == [status |-> "queued", attempts |-> 0]
        <3>1. row \in BatchRow
            BY DEF BatchRow, Statuses
        <3>2. /\ status[j] = "failed"
              /\ attemptLog' = attemptLog
              /\ batchLog'[j] = Append(batchLog[j], row)
            BY <1>1, <1>9, <2>2 DEF Retry, Retryable, TypeOK
        <3> HIDE DEF row
        <3>3. QED
            BY <1>1, <3>1, <3>2 DEF Final
    <2>3. QED
        BY <2>1, <2>2
<1>10. ASSUME NEW i \in Jobs,
              \/ RollbackSealed(i) \/ LeaseTick(i) \/ BackoffEnds(i)
              \/ \E k \in Keys : ForgetRetry(i, k)
       PROVE  Final(j)
    <2>1. UNCHANGED <<attemptLog, batchLog, status>>
        BY <1>10 DEF RollbackSealed, LeaseTick, BackoffEnds, ForgetRetry, rowVars, logVars
    <2>2. QED
        BY <1>2, <2>1
<1>11. CASE UNCHANGED vars
    BY <1>2, <1>11 DEF vars, rowVars, logVars
<1>12. QED
    BY <1>3, <1>4, <1>5, <1>6, <1>7, <1>8, <1>9, <1>10, <1>11, SweepsExhausted
    DEF Next, JobStep, WorkerStep

\* Success is final, a closed attempt keeps its outcome, and a batch that a
\* retry superseded is never written again.
THEOREM HistoryIsFinalCorrect == Spec => HistoryIsFinal
<1>1. ASSUME FenceInv, [Next]_vars
      PROVE  [\A j \in Jobs : Final(j)]_vars
    BY <1>1, FinalStep
<1>2. QED
    BY <1>1, FenceInit, FenceStep, PTL DEF Spec, HistoryIsFinal, Final

(***************************************************************************)
(* Refinement: Jobs implements JobContract.                                *)
(***************************************************************************)
RefineInv == FenceInv /\ PublishedOnce

\* A poll gives up exactly the exhausted jobs.
LEMMA SweepGivesUp ==
    ASSUME TypeOK, NEW gone \in SUBSET Exhausted, NEW j \in Jobs
    PROVE  /\ j \in gone => PhaseOf(j) = "open"
           /\ SweptStatus(gone, j) \in Statuses \cup {"absent"}
           /\ j \in gone => SweptStatus(gone, j) = "failed"
           /\ j \notin gone => SweptStatus(gone, j) = status[j]
           /\ SweptNotes(gone, j) = IF j \in gone
                              THEN Contract!Tell(j, "failed") ELSE notified[j]
BY SweepType DEF PhaseOf, Exhausted, SweptStatus, SweptNotes, Publish, Contract!Tell

LEMMA RefineInit == Init => Contract!Init
<1> SUFFICES ASSUME Init PROVE Contract!Init
    OBVIOUS
<1>1. \A j \in Jobs : PhaseOf(j) = "none" /\ Cardinality(published[j]) = 0
    BY FS_EmptySet DEF Init, PhaseOf
<1>2. QED
    BY <1>1 DEF Init, Contract!Init

LEMMA RefineStep ==
    RefineInv /\ RefineInv' /\ [Next]_vars => [Contract!Next]_(Contract!vars)
<1> SUFFICES ASSUME RefineInv, RefineInv', [Next]_vars
             PROVE  [Contract!Next]_(Contract!vars)
    OBVIOUS
<1>1. TypeOK /\ TypeOK'
    BY DEF RefineInv, FenceInv
<1>2. ASSUME UNCHANGED <<status, intent, notified, published>>
      PROVE  UNCHANGED Contract!vars
    BY <1>2 DEF Contract!vars, PhaseOf
<1>3. ASSUME NEW gone \in SUBSET Jobs,
             \A i \in gone : PhaseOf(i) = "open",
             \A i \in Jobs : PhaseOf(i)' = IF i \in gone THEN "failed" ELSE PhaseOf(i),
             \A i \in Jobs : notified'[i] = IF i \in gone
                                THEN Contract!Tell(i, "failed") ELSE notified[i],
             UNCHANGED <<intent, published>>
      PROVE  Contract!Next
    <2>1. notified' = [i \in Jobs |-> IF i \in gone
                         THEN Contract!Tell(i, "failed") ELSE notified[i]]
        BY <1>1, <1>3 DEF TypeOK
    <2>2. Contract!GiveUp(gone)
        BY <1>3, <2>1 DEF Contract!GiveUp
    <2>3. QED
        BY <2>2 DEF Contract!Next
<1>4. ASSUME NEW j \in Jobs, NEW m \in Limits, NEW notify \in BOOLEAN,
             Enqueue(j, m, notify)
      PROVE  Contract!Next
    <2>1. Contract!Submit({j})
        <3>1. PhaseOf(j) = "none" /\ UNCHANGED <<notified, published>>
            BY <1>4 DEF Enqueue, PhaseOf, histVars
        <3>2. \A i \in Jobs : PhaseOf(i)' = IF i \in {j} THEN "open" ELSE PhaseOf(i)
            BY <1>1, <1>4 DEF Enqueue, PhaseOf, TypeOK
        <3>3. \E telling \in SUBSET {j} :
                 intent' = [i \in Jobs |-> IF i \in {j} THEN i \in telling ELSE intent[i]]
            <4>1. intent' = [i \in Jobs |-> IF i = j THEN notify ELSE intent[i]]
                BY <1>1, <1>4 DEF Enqueue, TypeOK
            <4>2. CASE notify
                <5>1. intent' = [i \in Jobs |-> IF i \in {j} THEN i \in {j} ELSE intent[i]]
                    BY <4>1, <4>2
                <5>2. QED
                    BY <5>1
            <4>3. CASE ~notify
                <5>1. intent' = [i \in Jobs |-> IF i \in {j} THEN i \in {} ELSE intent[i]]
                    BY <4>1, <4>3
                <5>2. QED
                    BY <5>1
            <4>4. QED
                BY <4>2, <4>3
        <3>4. QED
            BY <3>1, <3>2, <3>3 DEF Contract!Submit
    <2>2. QED
        BY <2>1 DEF Contract!Next

\* A claim or an empty poll: Exhausted jobs are given up, and the claimed job,
\* which is open before and after, is not one of them.
<1>5. ASSUME NEW w \in Workers, NEW j \in Jobs, NEW gone \in SUBSET Exhausted,
             ClaimJob(w, j, gone)
      PROVE  Contract!Next
    <2>1. /\ PhaseOf(j) = "open" /\ PhaseOf(j)' = "open"
          /\ j \notin gone
        <3>1. /\ status[j] \in {"queued", "retry_wait", "running"}
              /\ status'[j] = "running"
              /\ attempts[j] < limit[j]
            BY <1>5 DEF ClaimJob, Claimable
        <3>2. j \notin gone
            <4>1. attempts[j] \in Nat /\ limit[j] \in Nat
                BY <1>1 DEF TypeOK
            <4>2. ~(attempts[j] >= limit[j])
                BY <3>1, <4>1
            <4>3. QED
                BY <4>2 DEF Exhausted
        <3>3. QED
            BY <3>1, <3>2 DEF PhaseOf
    <2>2. \A i \in Jobs : PhaseOf(i)' = IF i \in gone THEN "failed" ELSE PhaseOf(i)
        <3> SUFFICES ASSUME NEW i \in Jobs, i # j
                     PROVE  PhaseOf(i)' = IF i \in gone THEN "failed" ELSE PhaseOf(i)
            BY <2>1
        <3>1. status'[i] = SweptStatus(gone, i)
            BY <1>5 DEF ClaimJob
        <3>2. QED
            BY <1>1, <3>1, SweepGivesUp DEF PhaseOf
    <2>3. \A i \in Jobs : notified'[i] = IF i \in gone
                            THEN Contract!Tell(i, "failed") ELSE notified[i]
        BY <1>1, <1>5, SweepGivesUp DEF ClaimJob
    <2>4. gone \in SUBSET Jobs /\ UNCHANGED <<intent, published>>
        BY <1>5 DEF Exhausted, ClaimJob, histVars
    <2>5. \A i \in gone : PhaseOf(i) = "open"
        BY <1>1, <2>4, SweepGivesUp
    <2>6. QED
        BY <1>3, <2>2, <2>3, <2>4, <2>5
<1>6. ASSUME NEW w \in Workers, NEW gone \in SUBSET Exhausted, ClaimNothing(w, gone)
      PROVE  Contract!Next
    <2>1. \A i \in Jobs : PhaseOf(i)' = IF i \in gone THEN "failed" ELSE PhaseOf(i)
        <3> SUFFICES ASSUME NEW i \in Jobs
                     PROVE  PhaseOf(i)' = IF i \in gone THEN "failed" ELSE PhaseOf(i)
            OBVIOUS
        <3>1. status'[i] = SweptStatus(gone, i)
            BY <1>6 DEF ClaimNothing
        <3>2. QED
            BY <1>1, <3>1, SweepGivesUp DEF PhaseOf
    <2>2. \A i \in Jobs : notified'[i] = IF i \in gone
                            THEN Contract!Tell(i, "failed") ELSE notified[i]
        BY <1>1, <1>6, SweepGivesUp DEF ClaimNothing
    <2>3. gone \in SUBSET Jobs /\ UNCHANGED <<intent, published>>
        BY <1>6 DEF Exhausted, ClaimNothing, histVars
    <2>4. \A i \in gone : PhaseOf(i) = "open"
        BY <1>1, <2>3, SweepGivesUp
    <2>5. QED
        BY <1>3, <2>1, <2>2, <2>3, <2>4
<1>7. ASSUME NEW w \in Workers, Fail(w)
      PROVE  Contract!Next \/ UNCHANGED Contract!vars
    <2> DEFINE j == lease[w].job
               outcome == IF pc[w] = "transient" /\ attempts[j] < limit[j]
                          THEN "retry_wait" ELSE "failed"
    <2>1. j \in Jobs /\ status[j] = "running"
        BY <1>7, CurrentIsNewest DEF Fail, RefineInv
    <2>2. /\ status' = [status EXCEPT ![j] = outcome]
          /\ notified' = [notified EXCEPT ![j] =
                 IF outcome = "failed" THEN Publish(j, "failed") ELSE @]
          /\ UNCHANGED <<intent, published>>
        BY <1>7 DEF Fail, histVars
    <2>3. outcome \in {"retry_wait", "failed"}
        OBVIOUS
    <2> HIDE DEF outcome, j
    <2>4. CASE outcome = "retry_wait"
        <3>1. notified' = notified
            BY <1>1, <2>1, <2>2, <2>4 DEF TypeOK
        <3>2. \A i \in Jobs : PhaseOf(i)' = PhaseOf(i)
            BY <1>1, <2>1, <2>2, <2>4 DEF TypeOK, PhaseOf
        <3>3. QED
            BY <2>2, <3>1, <3>2 DEF Contract!vars
    <2>5. CASE outcome = "failed"
        <3>1. \A i \in Jobs : PhaseOf(i)' = IF i \in {j} THEN "failed" ELSE PhaseOf(i)
            BY <1>1, <2>1, <2>2, <2>5 DEF TypeOK, PhaseOf
        <3>2. \A i \in Jobs : notified'[i] = IF i \in {j}
                                THEN Contract!Tell(i, "failed") ELSE notified[i]
            BY <1>1, <2>1, <2>2, <2>5 DEF TypeOK, Publish, Contract!Tell
        <3>3. {j} \in SUBSET Jobs /\ \A i \in {j} : PhaseOf(i) = "open"
            BY <2>1 DEF PhaseOf
        <3>4. QED
            BY <1>3, <2>2, <3>1, <3>2, <3>3
    <2>6. QED
        BY <2>3, <2>4, <2>5
<1>8. ASSUME NEW j \in Jobs, CommitSuccess(j)
      PROVE  Contract!Next
    <2>1. status[j] = "running" /\ published[j] = {}
        BY <1>8 DEF CommitSuccess, RefineInv, FenceInv, FenceHolds, Unlocked,
                    PublishedOnce
    <2>2. \A i \in Jobs : PhaseOf(i)' = IF i = j THEN "succeeded" ELSE PhaseOf(i)
        BY <1>1, <1>8 DEF CommitSuccess, PhaseOf, TypeOK
    <2>3. /\ published' = [published EXCEPT ![j] = {tx[j].token}]
          /\ notified' = [notified EXCEPT ![j] = Contract!Tell(j, "succeeded")]
          /\ UNCHANGED intent
        BY <1>8, <2>1 DEF CommitSuccess, Publish, Contract!Tell
    <2>4. /\ Cardinality(published[j]) = 0
          /\ \A i \in Jobs : Cardinality(published'[i]) =
                                IF i = j THEN 1 ELSE Cardinality(published[i])
        BY <1>1, <2>1, <2>3, FS_EmptySet, FS_Singleton, ZenonT(60) DEF TypeOK
    <2>5. Contract!Succeed(j)
        BY <2>1, <2>2, <2>3, <2>4 DEF Contract!Succeed, PhaseOf
    <2>6. QED
        BY <2>5 DEF Contract!Next
<1>9. ASSUME NEW j \in Jobs, NEW k \in Keys, Retry(j, k)
      PROVE  Contract!Next
    <2>1. /\ PhaseOf(j) = "failed"
          /\ \A i \in Jobs : PhaseOf(i)' = IF i = j THEN "open" ELSE PhaseOf(i)
        BY <1>1, <1>9 DEF Retry, Retryable, PhaseOf, TypeOK
    <2>2. UNCHANGED <<intent, notified, published>>
        BY <1>9 DEF Retry, Retryable, noteVars, histVars
    <2>3. Contract!Reopen(j)
        BY <2>1, <2>2 DEF Contract!Reopen
    <2>4. QED
        BY <2>3 DEF Contract!Next
<1>10. ASSUME NEW w \in Workers,
              \/ Heartbeat(w) \/ LockCurrent(w) \/ CommitStep(w) \/ Seal(w)
              \/ LoseLease(w) \/ Abandon(w)
              \/ \E kind \in {"transient", "permanent"} : HandlerError(w, kind)
       PROVE  UNCHANGED Contract!vars
    BY <1>2, <1>10 DEF Heartbeat, LockCurrent, CommitStep, Seal, LoseLease, Abandon,
                       HandlerError, rowVars, noteVars, histVars
<1>11. ASSUME NEW j \in Jobs,
              \/ RollbackSealed(j) \/ LeaseTick(j) \/ BackoffEnds(j)
              \/ \E k \in Keys : ForgetRetry(j, k)
       PROVE  UNCHANGED Contract!vars
    BY <1>2, <1>11 DEF RollbackSealed, LeaseTick, BackoffEnds, ForgetRetry,
                       rowVars, noteVars, histVars
<1>12. CASE UNCHANGED vars
    BY <1>2, <1>12 DEF vars, rowVars, noteVars, histVars
<1>13. QED
    BY <1>4, <1>5, <1>6, <1>7, <1>8, <1>9, <1>10, <1>11, <1>12, SweepsExhausted
    DEF Next, JobStep, WorkerStep

\* Every step of workers, leases and retries is a step of the contract the
\* modules enqueueing work rely on, or changes nothing they can see.
THEOREM ImplementsCorrect == Spec => ImplementsContract
<1>1. Init => Contract!Init
    BY RefineInit
<1>2. FenceInv /\ PublishedOnce /\ FenceInv' /\ PublishedOnce' /\ [Next]_vars
         => [Contract!Next]_(Contract!vars)
    BY RefineStep DEF RefineInv
<1>3. QED
    BY <1>1, <1>2, FenceInit, FenceStep, PublishedOnceCorrect, PTL
    DEF Spec, ImplementsContract, Contract!Spec

(***************************************************************************)
(* The records.  What the job row, its batches and its attempts say of one *)
(* job is a story; every statement that writes them takes one story to     *)
(* another.  Two facts are needed besides what RecordsAgree says: no       *)
(* attempt belongs to a batch to come, so a retry starts from zero, and a  *)
(* job that was never enqueued has no records.                             *)
(***************************************************************************)
RowsOf(al, b) == {n \in DOMAIN al : al[n].batch = b}
RunningIn(al) == {n \in DOMAIN al : al[n].status = "running"}
NumbersOf(al, b) == {al[n].number : n \in RowsOf(al, b)}

\* The batches and attempts count alike, within max_attempts.
Counted(m, bl, al) ==
    \A b \in DOMAIN bl :
        /\ bl[b].attempts <= m
        /\ Cardinality(RowsOf(al, b)) = bl[b].attempts
        /\ NumbersOf(al, b) = 1..bl[b].attempts

Story(s, a, m, t, bl, al) ==
    /\ Len(bl) > 0
    /\ bl[Len(bl)] = [status |-> s, attempts |-> a]
    /\ RunningIn(al) = IF s = "running" THEN {t} ELSE {}
    /\ s = "running" => al[t].batch = Len(bl) /\ al[t].number = a
    /\ \A n \in DOMAIN al : al[n].batch <= Len(bl)
    /\ Counted(m, bl, al)

Outcomes == {"retry_wait", "succeeded", "failed"}

Told(s, bl, i, n) ==
    /\ i /\ s \in {"succeeded", "failed"} => s \in n
    /\ "succeeded" \in n => s = "succeeded"
    /\ "failed" \in n => \E b \in DOMAIN bl : bl[b].status = "failed"

Records(s, a, m, t, bl, al, i, n) ==
    IF s = "absent"
    THEN a = 0 /\ bl = <<>> /\ al = <<>> /\ n = {}
    ELSE Story(s, a, m, t, bl, al) /\ Told(s, bl, i, n)

StoryInv ==
    \A j \in Jobs : Records(status[j], attempts[j], limit[j], token[j], batchLog[j], attemptLog[j],
                            intent[j], notified[j])

\* Attempts that keep their batch and number are counted as before.
LEMMA SameRows ==
    ASSUME NEW al, NEW new, DOMAIN new = DOMAIN al,
           \A n \in DOMAIN al : new[n].batch = al[n].batch /\ new[n].number = al[n].number
    PROVE  \A b : RowsOf(new, b) = RowsOf(al, b) /\ NumbersOf(new, b) = NumbersOf(al, b)
    BY DEF RowsOf, NumbersOf

\* Closing attempts changes nothing but their status.
LEMMA ClosedRows ==
    ASSUME NEW al \in Seq(AttemptRow), NEW t, NEW outcome \in AttemptStatuses, outcome # "running"
    PROVE  /\ DOMAIN EndAttempt(al, t, outcome) = DOMAIN al
           /\ \A n \in DOMAIN al : /\ EndAttempt(al, t, outcome)[n].batch = al[n].batch
                                   /\ EndAttempt(al, t, outcome)[n].number = al[n].number
           /\ RunningIn(EndAttempt(al, t, outcome)) = RunningIn(al) \ {t}
           /\ DOMAIN ExpireAttempts(al) = DOMAIN al
           /\ \A n \in DOMAIN al : /\ ExpireAttempts(al)[n].batch = al[n].batch
                                   /\ ExpireAttempts(al)[n].number = al[n].number
           /\ RunningIn(ExpireAttempts(al)) = {}
<1>1. \A n \in DOMAIN al : al[n] \in AttemptRow
    OBVIOUS
<1>2. \A n \in DOMAIN al, s \in {outcome, "lease_expired"} :
        /\ [al[n] EXCEPT !.status = s].batch = al[n].batch
        /\ [al[n] EXCEPT !.status = s].number = al[n].number
        /\ [al[n] EXCEPT !.status = s].status = s
    BY <1>1 DEF AttemptRow
<1>3. QED
    BY <1>2 DEF EndAttempt, ExpireAttempts, RunningIn

\* A job is enqueued.
LEMMA StoryBegins ==
    ASSUME NEW m \in Nat, NEW t
    PROVE  Story("queued", 0, m, t, <<[status |-> "queued", attempts |-> 0]>>, <<>>)
<1> DEFINE bl == <<[status |-> "queued", attempts |-> 0]>>
<1>1. Len(bl) = 1 /\ DOMAIN bl = {1} /\ bl[1] = [status |-> "queued", attempts |-> 0]
      /\ bl[1].attempts = 0
    OBVIOUS
<1>2. \A b : RowsOf(<<>>, b) = {} /\ NumbersOf(<<>>, b) = {} /\ RunningIn(<<>>) = {}
    BY DEF RowsOf, NumbersOf, RunningIn
<1>3. Cardinality({}) = 0 /\ 1..0 = {}
    BY FS_EmptySet
<1> HIDE DEF bl
<1>4. Counted(m, bl, <<>>)
    <2> SUFFICES ASSUME NEW b \in DOMAIN bl
                 PROVE  /\ bl[b].attempts <= m
                        /\ Cardinality(RowsOf(<<>>, b)) = bl[b].attempts
                        /\ NumbersOf(<<>>, b) = 1..bl[b].attempts
        BY DEF Counted
    <2>1. bl[b].attempts = 0
        BY <1>1
    <2>2. 0 <= m
        OBVIOUS
    <2>3. RowsOf(<<>>, b) = {} /\ NumbersOf(<<>>, b) = {}
        BY <1>2
    <2>4. QED
        BY <1>3, <2>1, <2>2, <2>3
<1>5. QED
    BY <1>1, <1>2, <1>4 DEF Story, bl

\* A claim: one attempt more in the newest batch, and no other that runs.
LEMMA StoryClaimed ==
    ASSUME NEW s, NEW a \in Nat, NEW m \in Nat, NEW t, a < m,
           NEW bl \in Seq(BatchRow), NEW al \in Seq(AttemptRow),
           Story(s, a, m, t, bl, al),
           NEW row, row = [batch |-> Len(bl), number |-> a + 1, status |-> "running"],
           NEW new, new = [status |-> "running", attempts |-> a + 1]
    PROVE  Story("running", a + 1, m, Len(al) + 1, [bl EXCEPT ![Len(bl)] = new],
                 Append(ExpireAttempts(al), row))
<1> DEFINE old == ExpireAttempts(al)
           log == Append(old, row)
           batches == [bl EXCEPT ![Len(bl)] = new]
           t2 == Len(al) + 1
           b2 == Len(bl)
<1>1. /\ old \in Seq(AttemptRow) /\ Len(old) = Len(al)
      /\ Len(al) \in Nat /\ DOMAIN al = 1..Len(al) /\ DOMAIN old = 1..Len(al)
    BY ExpireAttemptsType
<1>2. row \in AttemptRow /\ b2 \in Nat
    BY DEF AttemptRow, AttemptStatuses
<1>3. /\ DOMAIN log = DOMAIN al \cup {t2} /\ t2 \notin DOMAIN al
      /\ log[t2] = row
      /\ \A n \in DOMAIN al : log[n] = old[n]
    <2> HIDE DEF old
    <2>1. Len(log) = Len(al) + 1 /\ log \in Seq(AttemptRow)
        BY <1>1, <1>2
    <2>2. DOMAIN log = 1..(Len(al) + 1)
        BY <1>1, <2>1
    <2>3. log[t2] = row /\ \A n \in DOMAIN al : log[n] = old[n]
        BY <1>1, <1>2
    <2>4. QED
        BY <1>1, <2>2, <2>3
<1>4. /\ \A n \in DOMAIN al : old[n].batch = al[n].batch /\ old[n].number = al[n].number
      /\ \A n \in DOMAIN al : old[n].status # "running"
    <2>1. "lease_expired" \in AttemptStatuses
        BY DEF AttemptStatuses
    <2>2. DOMAIN old = DOMAIN al /\ RunningIn(old) = {}
        BY <2>1, ClosedRows
    <2>3. QED
        BY <2>1, <2>2, ClosedRows DEF RunningIn
<1>5. row.batch = b2 /\ row.number = a + 1 /\ row.status = "running"
    OBVIOUS
<1>6. /\ DOMAIN batches = DOMAIN bl /\ Len(batches) = Len(bl)
      /\ batches[b2] = new /\ \A b \in DOMAIN bl \ {b2} : batches[b] = bl[b]
      /\ b2 \in DOMAIN bl
    <2>1. Len(bl) > 0
        BY DEF Story
    <2>2. QED
        BY <2>1
<1> HIDE DEF log, old, batches, t2, b2
<1>7. RunningIn(log) = {t2}
    BY <1>3, <1>4, <1>5 DEF RunningIn
<1>8. \A n \in DOMAIN log : log[n].batch <= b2
    <2>1. \A n \in DOMAIN al : al[n].batch <= b2
        BY DEF Story, b2
    <2>2. QED
        BY <1>2, <1>3, <1>4, <1>5, <2>1
<1>9. /\ \A b : b # b2 => RowsOf(log, b) = RowsOf(al, b) /\ NumbersOf(log, b) = NumbersOf(al, b)
      /\ RowsOf(log, b2) = RowsOf(al, b2) \cup {t2}
      /\ NumbersOf(log, b2) = NumbersOf(al, b2) \cup {a + 1}
    <2>1. \A b : RowsOf(log, b) = RowsOf(al, b) \cup (IF b = b2 THEN {t2} ELSE {})
        <3> TAKE b
        <3>1. \A n \in DOMAIN al : log[n].batch = al[n].batch
            BY <1>3, <1>4
        <3>2. log[t2].batch = b2
            BY <1>3, <1>5
        <3>3. QED
            BY <1>3, <3>1, <3>2 DEF RowsOf
    <2>2. /\ \A b : \A n \in RowsOf(al, b) : log[n].number = al[n].number
          /\ log[t2].number = a + 1
        BY <1>3, <1>4, <1>5 DEF RowsOf
    <2>3. \A b : b # b2 => NumbersOf(log, b) = NumbersOf(al, b)
        <3> SUFFICES ASSUME NEW b, b # b2 PROVE NumbersOf(log, b) = NumbersOf(al, b)
            OBVIOUS
        <3>1. RowsOf(log, b) = RowsOf(al, b)
            BY <2>1
        <3>2. QED
            BY <2>2, <3>1 DEF NumbersOf
    <2>4. NumbersOf(log, b2) = NumbersOf(al, b2) \cup {a + 1}
        BY <2>1, <2>2 DEF NumbersOf
    <2>5. QED
        BY <2>1, <2>3, <2>4
<1>10. /\ bl[b2].attempts = a
       /\ Cardinality(RowsOf(al, b2)) = a /\ NumbersOf(al, b2) = 1..a
    BY <1>6 DEF Story, Counted, b2
<1>11. Cardinality(RowsOf(log, b2)) = a + 1
    <2>1. IsFiniteSet(RowsOf(al, b2))
        <3>1. IsFiniteSet(1..Len(al))
            BY <1>1, FS_Interval
        <3>2. RowsOf(al, b2) \subseteq 1..Len(al)
            BY <1>1 DEF RowsOf
        <3>3. QED
            BY <3>1, <3>2, FS_Subset
    <2>2. t2 \notin RowsOf(al, b2)
        BY <1>3 DEF RowsOf
    <2>3. QED
        BY <1>9, <1>10, <2>1, <2>2, FS_AddElement
<1>12. NumbersOf(log, b2) = 1..(a + 1)
    BY <1>9, <1>10
<1>13. Counted(m, batches, log)
    <2>1. new.attempts = a + 1 /\ a + 1 <= m
        OBVIOUS
    <2>2. Counted(m, bl, al)
        BY DEF Story
    <2>3. \A b \in DOMAIN bl \ {b2} :
            /\ batches[b].attempts <= m
            /\ Cardinality(RowsOf(log, b)) = batches[b].attempts
            /\ NumbersOf(log, b) = 1..batches[b].attempts
        BY <1>6, <1>9, <2>2 DEF Counted
    <2>4. QED
        BY <1>6, <1>11, <1>12, <2>1, <2>3 DEF Counted
<1>14. Story("running", a + 1, m, t2, batches, log)
    BY <1>3, <1>5, <1>6, <1>7, <1>8, <1>13 DEF Story, b2
<1>15. QED
    BY <1>14 DEF log, old, batches, t2

\* An outcome closes the attempt that runs, in its batch.
LEMMA StoryEnds ==
    ASSUME NEW a \in Nat, NEW m \in Nat, NEW t,
           NEW bl \in Seq(BatchRow), NEW al \in Seq(AttemptRow),
           Story("running", a, m, t, bl, al),
           NEW o \in Outcomes,
           NEW x \in AttemptStatuses, x # "running"
    PROVE  Story(o, a, m, t, SetBatch(bl, Len(bl), o), EndAttempt(al, t, x))
<1> DEFINE log == EndAttempt(al, t, x)
           batches == SetBatch(bl, Len(bl), o)
           b2 == Len(bl)
<1>1. /\ DOMAIN log = DOMAIN al
      /\ \A n \in DOMAIN al : log[n].batch = al[n].batch /\ log[n].number = al[n].number
      /\ RunningIn(log) = RunningIn(al) \ {t}
    BY ClosedRows
<1>2. /\ RunningIn(al) = {t} /\ b2 > 0 /\ b2 \in DOMAIN bl
      /\ bl[b2] = [status |-> "running", attempts |-> a]
      /\ \A n \in DOMAIN al : al[n].batch <= b2
      /\ Counted(m, bl, al)
    BY DEF Story
<1>3. /\ DOMAIN batches = DOMAIN bl
      /\ batches[b2] = [status |-> o, attempts |-> a]
      /\ \A b \in DOMAIN bl \ {b2} : batches[b] = bl[b]
    BY <1>2 DEF SetBatch
<1>4. Len(batches) = b2
    <2>1. o \in Statuses
        BY DEF Statuses, Outcomes
    <2>2. QED
        BY <2>1, SetBatchType
<1> HIDE DEF log, batches, b2
<1>5. \A b : RowsOf(log, b) = RowsOf(al, b) /\ NumbersOf(log, b) = NumbersOf(al, b)
    BY <1>1, SameRows
<1>6. \A b \in DOMAIN bl : batches[b].attempts = bl[b].attempts
    BY <1>2, <1>3
<1>7. Counted(m, batches, log)
    BY <1>2, <1>3, <1>5, <1>6 DEF Counted
<1>o. o \notin {"running", "absent"}
    BY DEF Outcomes
<1>8. RunningIn(log) = {} /\ \A n \in DOMAIN log : log[n].batch <= b2
    BY <1>1, <1>2
<1>9. Story(o, a, m, t, batches, log)
    BY <1>2, <1>3, <1>4, <1>7, <1>8, <1>o DEF Story
<1>10. QED
    BY <1>9 DEF log, batches

\* A retry opens a batch without attempts.
LEMMA StoryRetried ==
    ASSUME NEW a \in Nat, NEW m \in Nat, NEW t,
           NEW bl \in Seq(BatchRow), NEW al \in Seq(AttemptRow),
           Story("failed", a, m, t, bl, al),
           NEW row, row = [status |-> "queued", attempts |-> 0]
    PROVE  Story("queued", 0, m, 0, Append(bl, row), al)
<1> DEFINE batches == Append(bl, row)
           b2 == Len(bl) + 1
<1>1. row \in BatchRow /\ Len(bl) \in Nat
    BY DEF BatchRow, Statuses
<1>2. /\ Len(batches) = b2 /\ DOMAIN batches = DOMAIN bl \cup {b2} /\ b2 \notin DOMAIN bl
      /\ batches[b2] = row /\ \A b \in DOMAIN bl : batches[b] = bl[b]
    <2>1. Len(batches) = b2 /\ batches \in Seq(BatchRow)
        BY <1>1
    <2>2. DOMAIN batches = 1..b2 /\ DOMAIN bl = 1..Len(bl)
        BY <2>1
    <2>3. batches[b2] = row /\ \A b \in DOMAIN bl : batches[b] = bl[b]
        BY <1>1
    <2>4. QED
        BY <1>1, <2>1, <2>2, <2>3
<1>3. /\ RunningIn(al) = {} /\ Counted(m, bl, al)
      /\ \A n \in DOMAIN al : al[n].batch <= Len(bl) /\ al[n].batch \in Nat
    <2>1. \A n \in DOMAIN al : al[n] \in AttemptRow
        OBVIOUS
    <2>2. QED
        BY <2>1 DEF Story, AttemptRow
<1>4. /\ RowsOf(al, b2) = {} /\ NumbersOf(al, b2) = {}
      /\ \A n \in DOMAIN al : al[n].batch <= b2
    <2>1. \A n \in DOMAIN al : al[n].batch < b2
        BY <1>1, <1>3
    <2>2. QED
        BY <1>1, <1>3, <2>1 DEF RowsOf, NumbersOf
<1>5. row.attempts = 0 /\ Cardinality({}) = 0 /\ 1..0 = {} /\ 0 <= m
    BY FS_EmptySet
<1>6. b2 > 0
    BY <1>1
<1> HIDE DEF batches, b2
<1>7. Counted(m, batches, al)
    BY <1>2, <1>3, <1>4, <1>5 DEF Counted
<1>8. Story("queued", 0, m, 0, batches, al)
    BY <1>2, <1>3, <1>4, <1>6, <1>7 DEF Story
<1>9. QED
    BY <1>8 DEF batches

\* What is told of a job by its outcomes, batch by batch.
LEMMA ToldEnds ==
    ASSUME NEW bl \in Seq(BatchRow), Len(bl) > 0, bl[Len(bl)].status = "running",
           NEW i \in BOOLEAN, NEW n \in SUBSET {"succeeded", "failed"},
           Told("running", bl, i, n),
           NEW o \in Outcomes
    PROVE  Told(o, SetBatch(bl, Len(bl), o), i,
                IF o # "retry_wait" /\ i THEN n \cup {o} ELSE n)
<1> DEFINE batches == SetBatch(bl, Len(bl), o)
           b2 == Len(bl)
<1>1. b2 \in DOMAIN bl /\ DOMAIN batches = DOMAIN bl
    BY DEF SetBatch
<1>2. batches[b2].status = o /\ \A b \in DOMAIN bl \ {b2} : batches[b] = bl[b]
    <2>1. bl[b2] \in BatchRow
        BY <1>1
    <2>2. QED
        BY <1>1, <2>1 DEF SetBatch, BatchRow
<1> HIDE DEF batches
<1>3. \A b \in DOMAIN bl : bl[b].status = "failed" => batches[b].status = "failed"
    BY <1>2
<1>4. "succeeded" \notin n
    BY DEF Told
<1>5. Told(o, batches, i, IF o # "retry_wait" /\ i THEN n \cup {o} ELSE n)
    BY <1>1, <1>2, <1>3, <1>4 DEF Told, Outcomes
<1>6. QED
    BY <1>5 DEF batches

\* The newest batch gets a status that is no outcome, or a new batch opens.
LEMMA ToldGoesOn ==
    ASSUME NEW bl \in Seq(BatchRow), NEW s \in Statuses, s # "succeeded",
           NEW i, NEW n, Told(s, bl, i, n),
           NEW o \in {"queued", "running"}, NEW new \in Seq(BatchRow),
           \A b \in DOMAIN bl : b \in DOMAIN new /\ (bl[b].status = "failed" => new[b].status = "failed")
    PROVE  Told(o, new, i, n)
    BY DEF Told

\* No job, no records.
LEMMA StoryInit == Init => StoryInv
    BY DEF Init, StoryInv, Records

\* A poll leaves a job alone or gives it up.
LEMMA SweepStory ==
    ASSUME FenceInv, StoryInv, NEW gone \in SUBSET Exhausted, NEW j \in Jobs
    PROVE  Records(SweptStatus(gone, j), attempts[j], limit[j], token[j], SweptBatches(gone, j), SweptAttempts(gone, j),
                   intent[j], SweptNotes(gone, j))
<1>1. Records(status[j], attempts[j], limit[j], token[j], batchLog[j], attemptLog[j],
              intent[j], notified[j])
    BY DEF StoryInv
<1>2. CASE j \in gone
    <2>1. status[j] = "running" /\ SweptStatus(gone, j) = "failed"
        BY <1>2 DEF Exhausted, SweptStatus
    <2>2. Story("running", attempts[j], limit[j], token[j], batchLog[j], attemptLog[j])
          /\ Told("running", batchLog[j], intent[j], notified[j])
        BY <1>1, <2>1 DEF Records
    <2>3. /\ attempts[j] \in Nat /\ limit[j] \in Nat /\ intent[j] \in BOOLEAN
          /\ batchLog[j] \in Seq(BatchRow) /\ attemptLog[j] \in Seq(AttemptRow)
          /\ notified[j] \in SUBSET {"succeeded", "failed"}
          /\ "lease_expired" \in AttemptStatuses /\ "failed" \in Outcomes
        BY DEF FenceInv, TypeOK, AttemptStatuses, Outcomes
    <2>4. Story("failed", attempts[j], limit[j], token[j], SweptBatches(gone, j), SweptAttempts(gone, j))
        BY <1>2, <2>2, <2>3, StoryEnds DEF SweptBatches, SweptAttempts
    <2>5. SweptNotes(gone, j) = IF intent[j] THEN notified[j] \cup {"failed"} ELSE notified[j]
        BY <1>2 DEF SweptNotes, Publish
    <2>6. Len(batchLog[j]) > 0 /\ batchLog[j][Len(batchLog[j])].status = "running"
        BY <2>2 DEF Story
    <2>7. Told("failed", SweptBatches(gone, j), intent[j], SweptNotes(gone, j))
        <3>1. Told("failed", SetBatch(batchLog[j], Len(batchLog[j]), "failed"), intent[j],
                   IF "failed" # "retry_wait" /\ intent[j] THEN notified[j] \cup {"failed"}
                   ELSE notified[j])
            BY <2>2, <2>3, <2>6, ToldEnds
        <3>2. SweptBatches(gone, j) = SetBatch(batchLog[j], Len(batchLog[j]), "failed")
            BY <1>2 DEF SweptBatches
        <3>3. QED
            BY <2>5, <3>1, <3>2
    <2>8. QED
        BY <2>1, <2>4, <2>7 DEF Records
<1>3. CASE j \notin gone
    BY <1>1, <1>3 DEF SweptStatus, SweptBatches, SweptAttempts, SweptNotes
<1>4. QED
    BY <1>2, <1>3

\* An outcome that is recorded for the attempt that runs.
LEMMA OutcomeStory ==
    ASSUME FenceInv, StoryInv, NEW j \in Jobs, status[j] = "running",
           NEW o \in Outcomes
    PROVE  Records(o, attempts[j], limit[j], token[j], SetBatch(batchLog[j], Len(batchLog[j]), o),
                   EndAttempt(attemptLog[j], token[j], o), intent[j],
                   IF o # "retry_wait" /\ intent[j] THEN notified[j] \cup {o} ELSE notified[j])
<1>1. Story("running", attempts[j], limit[j], token[j], batchLog[j], attemptLog[j])
      /\ Told("running", batchLog[j], intent[j], notified[j])
    BY DEF StoryInv, Records
<1>2. /\ attempts[j] \in Nat /\ limit[j] \in Nat /\ intent[j] \in BOOLEAN
      /\ batchLog[j] \in Seq(BatchRow) /\ attemptLog[j] \in Seq(AttemptRow)
      /\ notified[j] \in SUBSET {"succeeded", "failed"}
      /\ o \in AttemptStatuses /\ o # "running"
    BY DEF FenceInv, TypeOK, AttemptStatuses, Outcomes
<1>3. Story(o, attempts[j], limit[j], token[j], SetBatch(batchLog[j], Len(batchLog[j]), o),
            EndAttempt(attemptLog[j], token[j], o))
    BY <1>1, <1>2, StoryEnds
<1>4. Len(batchLog[j]) > 0 /\ batchLog[j][Len(batchLog[j])].status = "running"
    BY <1>1 DEF Story
<1>5. Told(o, SetBatch(batchLog[j], Len(batchLog[j]), o), intent[j],
           IF o # "retry_wait" /\ intent[j] THEN notified[j] \cup {o} ELSE notified[j])
    BY <1>1, <1>2, <1>4, ToldEnds
<1>6. o # "absent"
    BY DEF Outcomes
<1>7. QED
    BY <1>3, <1>5, <1>6 DEF Records

\* A job that is leased.
LEMMA ClaimStory ==
    ASSUME FenceInv, StoryInv, NEW w \in Workers, NEW j \in Jobs, NEW gone \in SUBSET Exhausted,
             ClaimJob(w, j, gone)
    PROVE  Records(status'[j], attempts'[j], limit'[j], token'[j], batchLog'[j], attemptLog'[j],
                   intent'[j], notified'[j])
<1> DEFINE bl == batchLog[j]
           al == attemptLog[j]
           a == attempts[j]
           row == [batch |-> Len(bl), number |-> a + 1, status |-> "running"]
           new == [status |-> "running", attempts |-> a + 1]
<1>1. /\ a \in Nat /\ limit[j] \in Nat /\ bl \in Seq(BatchRow) /\ al \in Seq(AttemptRow)
      /\ status[j] \in Statuses \cup {"absent"}
    BY DEF FenceInv, TypeOK
<1>2. a < limit[j] /\ status[j] \in {"queued", "retry_wait", "running"} /\ j \notin Exhausted
    BY <1>1 DEF ClaimJob, Claimable, Exhausted
<1>3. /\ status'[j] = "running" /\ attempts'[j] = a + 1 /\ token'[j] = Len(al) + 1
      /\ limit'[j] = limit[j] /\ intent'[j] = intent[j] /\ notified'[j] = notified[j]
    BY <1>2 DEF ClaimJob, SweptNotes, FenceInv, TypeOK
<1>4. /\ attemptLog'[j] = Append(ExpireAttempts(al), row)
      /\ batchLog'[j] = [bl EXCEPT ![Len(bl)] = new]
    BY DEF ClaimJob
<1>5. Story(status[j], a, limit[j], token[j], bl, al) /\ Told(status[j], bl, intent[j], notified[j])
    BY <1>2 DEF StoryInv, Records
<1> HIDE DEF bl, al, a
<1>6. Story("running", a + 1, limit[j], Len(al) + 1, [bl EXCEPT ![Len(bl)] = new],
            Append(ExpireAttempts(al), row))
    BY <1>1, <1>2, <1>5, StoryClaimed
<1>7. Told("running", [bl EXCEPT ![Len(bl)] = new], intent[j], notified[j])
    <2> DEFINE batches == [bl EXCEPT ![Len(bl)] = new]
    <2>1. new \in BatchRow
        BY <1>1 DEF BatchRow, Statuses
    <2>2. Len(bl) > 0 /\ bl[Len(bl)].status = status[j]
        BY <1>5 DEF Story
    <2>3. /\ batches \in Seq(BatchRow)
          /\ \A b \in DOMAIN bl : b \in DOMAIN batches
                /\ (b = Len(bl) \/ batches[b] = bl[b])
        <3> HIDE DEF new
        <3>1. bl \in [1..Len(bl) -> BatchRow] /\ DOMAIN bl = 1..Len(bl) /\ Len(bl) \in Nat
            BY <1>1
        <3>2. batches \in [1..Len(bl) -> BatchRow]
            BY <2>1, <3>1
        <3> HIDE DEF batches
        <3>3. batches \in Seq(BatchRow) /\ DOMAIN batches = 1..Len(bl)
            BY <3>1, <3>2, FunctionIsSeq
        <3>4. \A b \in DOMAIN bl : b = Len(bl) \/ batches[b] = bl[b]
            BY <3>1 DEF batches
        <3>5. QED
            BY <3>1, <3>3, <3>4
    <2> HIDE DEF batches
    <2>4. \A b \in DOMAIN bl : b \in DOMAIN batches /\ (bl[b].status = "failed" => batches[b].status = "failed")
        BY <1>2, <2>2, <2>3
    <2>5. status[j] \in Statuses /\ status[j] # "succeeded"
        BY <1>2 DEF Statuses
    <2>6. Told("running", batches, intent[j], notified[j])
        BY <1>1, <1>5, <2>3, <2>4, <2>5, ToldGoesOn
    <2>7. QED
        BY <2>6 DEF batches
<1>8. QED
    BY <1>3, <1>4, <1>6, <1>7 DEF Records

\* A job that an administrator retries.
LEMMA RetryStory ==
    ASSUME FenceInv, StoryInv, NEW j \in Jobs, NEW k \in Keys, Retry(j, k)
    PROVE  Records(status'[j], attempts'[j], limit'[j], token'[j], batchLog'[j], attemptLog'[j],
                   intent'[j], notified'[j])
<1> DEFINE bl == batchLog[j]
           row == [status |-> "queued", attempts |-> 0]
<1>1. /\ attempts[j] \in Nat /\ limit[j] \in Nat /\ bl \in Seq(BatchRow)
      /\ attemptLog[j] \in Seq(AttemptRow)
    BY DEF FenceInv, TypeOK
<1>2. /\ status[j] = "failed" /\ status'[j] = "queued" /\ attempts'[j] = 0 /\ token'[j] = 0
      /\ limit'[j] = limit[j] /\ intent'[j] = intent[j] /\ notified'[j] = notified[j]
      /\ batchLog'[j] = Append(bl, row) /\ attemptLog'[j] = attemptLog[j]
    BY DEF Retry, Retryable, FenceInv, TypeOK, noteVars
<1>3. Story("failed", attempts[j], limit[j], token[j], bl, attemptLog[j])
      /\ Told("failed", bl, intent[j], notified[j])
    BY <1>2 DEF StoryInv, Records
<1> HIDE DEF bl
<1>4. Story("queued", 0, limit[j], 0, Append(bl, row), attemptLog[j])
    BY <1>1, <1>3, StoryRetried
<1>5. Told("queued", Append(bl, row), intent[j], notified[j])
    <2>1. row \in BatchRow /\ "failed" \in Statuses
        BY DEF BatchRow, Statuses
    <2> DEFINE batches == Append(bl, row)
    <2>2. batches \in Seq(BatchRow) /\ \A b \in DOMAIN bl : b \in DOMAIN batches /\ batches[b] = bl[b]
        <3> HIDE DEF row
        <3>1. QED
            BY <1>1, <2>1
    <2> HIDE DEF batches
    <2>3. Told("queued", batches, intent[j], notified[j])
        BY <1>1, <1>3, <2>1, <2>2, ToldGoesOn
    <2>4. QED
        BY <2>3 DEF batches
<1>6. QED
    BY <1>2, <1>4, <1>5 DEF Records

\* Every step takes the records of a job to records that agree.
LEMMA StoryStep == FenceInv /\ StoryInv /\ [Next]_vars => StoryInv'
<1> SUFFICES ASSUME FenceInv, StoryInv, [Next]_vars, NEW j \in Jobs
             PROVE  Records(status'[j], attempts'[j], limit'[j], token'[j], batchLog'[j],
                            attemptLog'[j], intent'[j], notified'[j])
    BY DEF StoryInv, Records, Story, Told, Counted, RowsOf, NumbersOf, RunningIn
<1>1. TypeOK
    BY DEF FenceInv
<1>2. ASSUME UNCHANGED <<status[j], attempts[j], limit[j], token[j], batchLog[j], attemptLog[j],
                         intent[j], notified[j]>>
      PROVE  Records(status'[j], attempts'[j], limit'[j], token'[j], batchLog'[j],
                     attemptLog'[j], intent'[j], notified'[j])
    BY <1>2 DEF StoryInv
<1>3. ASSUME NEW i \in Jobs, NEW m \in Limits, NEW notify \in BOOLEAN, Enqueue(i, m, notify)
      PROVE  Records(status'[j], attempts'[j], limit'[j], token'[j], batchLog'[j],
                     attemptLog'[j], intent'[j], notified'[j])
    <2>1. CASE i # j
        BY <1>1, <1>2, <1>3, <2>1 DEF Enqueue, TypeOK
    <2>2. CASE i = j
        <3>1. /\ status'[j] = "queued" /\ limit'[j] = m
              /\ batchLog'[j] = <<[status |-> "queued", attempts |-> 0]>>
              /\ attempts'[j] = attempts[j] /\ attemptLog'[j] = attemptLog[j]
              /\ notified'[j] = notified[j] /\ status[j] = "absent"
            BY <1>1, <1>3, <2>2 DEF Enqueue, TypeOK
        <3>2. attempts[j] = 0 /\ attemptLog[j] = <<>> /\ notified[j] = {}
            BY <3>1 DEF StoryInv, Records
        <3>3. m \in Nat
            BY JobsAssumption
        <3>4. Story("queued", 0, m, token'[j], batchLog'[j], <<>>)
            BY <3>1, <3>3, StoryBegins
        <3>5. Told("queued", batchLog'[j], intent'[j], {})
            BY DEF Told
        <3>6. QED
            BY <3>1, <3>2, <3>4, <3>5 DEF Records
    <2>3. QED
        BY <2>1, <2>2
<1>4. ASSUME NEW w \in Workers, NEW i \in Jobs, NEW gone \in SUBSET Exhausted,
             ClaimJob(w, i, gone)
      PROVE  Records(status'[j], attempts'[j], limit'[j], token'[j], batchLog'[j],
                     attemptLog'[j], intent'[j], notified'[j])
    <2>1. CASE i # j
        <3>1. /\ status'[j] = SweptStatus(gone, j) /\ attemptLog'[j] = SweptAttempts(gone, j)
              /\ batchLog'[j] = SweptBatches(gone, j) /\ notified'[j] = SweptNotes(gone, j)
              /\ UNCHANGED <<attempts[j], limit[j], token[j], intent[j]>>
            BY <1>1, <1>4, <2>1 DEF ClaimJob, TypeOK
        <3>2. QED
            BY <3>1, SweepStory
    <2>2. CASE i = j
        BY <1>4, <2>2, ClaimStory
    <2>3. QED
        BY <2>1, <2>2
<1>5. ASSUME NEW w \in Workers, NEW gone \in SUBSET Exhausted, ClaimNothing(w, gone)
      PROVE  Records(status'[j], attempts'[j], limit'[j], token'[j], batchLog'[j],
                     attemptLog'[j], intent'[j], notified'[j])
    <2>1. /\ status'[j] = SweptStatus(gone, j) /\ attemptLog'[j] = SweptAttempts(gone, j)
          /\ batchLog'[j] = SweptBatches(gone, j) /\ notified'[j] = SweptNotes(gone, j)
          /\ UNCHANGED <<attempts[j], limit[j], token[j], intent[j]>>
        BY <1>5 DEF ClaimNothing
    <2>2. QED
        BY <2>1, SweepStory
<1>6. ASSUME NEW w \in Workers,
             \/ Heartbeat(w) \/ LockCurrent(w) \/ CommitStep(w) \/ Seal(w)
             \/ LoseLease(w) \/ Abandon(w)
             \/ \E kind \in {"transient", "permanent"} : HandlerError(w, kind)
      PROVE  Records(status'[j], attempts'[j], limit'[j], token'[j], batchLog'[j],
                     attemptLog'[j], intent'[j], notified'[j])
    <2>1. UNCHANGED <<rowVars, logVars, noteVars>>
        BY <1>6 DEF Heartbeat, LockCurrent, CommitStep, Seal, LoseLease, Abandon, HandlerError
    <2>2. QED
        BY <1>2, <2>1 DEF rowVars, logVars, noteVars
<1>7. ASSUME NEW w \in Workers, Fail(w)
      PROVE  Records(status'[j], attempts'[j], limit'[j], token'[j], batchLog'[j],
                     attemptLog'[j], intent'[j], notified'[j])
    <2>1. /\ lease[w].job \in Jobs
          /\ status[lease[w].job] = "running"
          /\ lease[w].token = token[lease[w].job]
          /\ lease[w].batch = Len(batchLog[lease[w].job])
        BY <1>7, CurrentIsNewest DEF Fail
    <2>2. CASE lease[w].job # j
        BY <1>1, <1>2, <1>7, <2>2 DEF Fail, TypeOK
    <2>3. CASE lease[w].job = j
        <3> DEFINE o == IF pc[w] = "transient" /\ attempts[j] < limit[j]
                        THEN "retry_wait" ELSE "failed"
        <3>1. /\ status'[j] = o
              /\ attemptLog'[j] = EndAttempt(attemptLog[j], token[j], o)
              /\ batchLog'[j] = SetBatch(batchLog[j], Len(batchLog[j]), o)
              /\ notified'[j] = IF o = "failed" THEN Publish(j, "failed") ELSE notified[j]
              /\ UNCHANGED <<attempts, limit, token, intent>>
            BY <1>1, <1>7, <2>1, <2>3 DEF Fail, TypeOK
        <3>2. o \in {"retry_wait", "failed"} /\ o \in Outcomes
            BY DEF Outcomes
        <3> HIDE DEF o
        <3>3. notified'[j] = IF o # "retry_wait" /\ intent[j] THEN notified[j] \cup {o} ELSE notified[j]
            BY <3>1, <3>2 DEF Publish
        <3>4. QED
            <4>1. Records(o, attempts[j], limit[j], token[j], SetBatch(batchLog[j], Len(batchLog[j]), o),
                          EndAttempt(attemptLog[j], token[j], o), intent[j],
                          IF o # "retry_wait" /\ intent[j] THEN notified[j] \cup {o} ELSE notified[j])
                BY <2>1, <2>3, <3>2, OutcomeStory
            <4>2. QED
                BY <3>1, <3>3, <4>1
    <2>4. QED
        BY <2>2, <2>3
<1>8. ASSUME NEW i \in Jobs, CommitSuccess(i)
      PROVE  Records(status'[j], attempts'[j], limit'[j], token'[j], batchLog'[j],
                     attemptLog'[j], intent'[j], notified'[j])
    <2>1. CASE i # j
        BY <1>1, <1>2, <1>8, <2>1 DEF CommitSuccess, TypeOK
    <2>2. CASE i = j
        <3>1. status[j] = "running" /\ tx[j].batch = Len(batchLog[j]) /\ tx[j].token = token[j]
            BY <1>8, <2>2 DEF CommitSuccess, FenceInv, FenceHolds, Unlocked
        <3>2. /\ status'[j] = "succeeded"
              /\ attemptLog'[j] = EndAttempt(attemptLog[j], token[j], "succeeded")
              /\ batchLog'[j] = SetBatch(batchLog[j], Len(batchLog[j]), "succeeded")
              /\ notified'[j] = Publish(j, "succeeded")
              /\ UNCHANGED <<attempts, limit, token, intent>>
            BY <1>1, <1>8, <2>2, <3>1 DEF CommitSuccess, TypeOK
        <3>3. notified'[j] = IF intent[j] THEN notified[j] \cup {"succeeded"} ELSE notified[j]
            BY <3>2 DEF Publish
        <3>4. QED
            <4>1. Records("succeeded", attempts[j], limit[j], token[j],
                          SetBatch(batchLog[j], Len(batchLog[j]), "succeeded"),
                          EndAttempt(attemptLog[j], token[j], "succeeded"), intent[j],
                          IF intent[j] THEN notified[j] \cup {"succeeded"} ELSE notified[j])
                <5>1. "succeeded" \in Outcomes
                    BY DEF Outcomes
                <5>2. QED
                    BY <3>1, <5>1, OutcomeStory
            <4>2. QED
                BY <3>2, <3>3, <4>1
    <2>3. QED
        BY <2>1, <2>2
<1>9. ASSUME NEW i \in Jobs, NEW k \in Keys, Retry(i, k)
      PROVE  Records(status'[j], attempts'[j], limit'[j], token'[j], batchLog'[j],
                     attemptLog'[j], intent'[j], notified'[j])
    <2>1. CASE i # j
        BY <1>1, <1>2, <1>9, <2>1 DEF Retry, TypeOK, noteVars
    <2>2. CASE i = j
        BY <1>9, <2>2, RetryStory
    <2>3. QED
        BY <2>1, <2>2
<1>10. ASSUME NEW i \in Jobs,
              \/ RollbackSealed(i) \/ LeaseTick(i) \/ BackoffEnds(i)
              \/ \E k \in Keys : ForgetRetry(i, k)
       PROVE  Records(status'[j], attempts'[j], limit'[j], token'[j], batchLog'[j],
                      attemptLog'[j], intent'[j], notified'[j])
    <2>1. UNCHANGED <<status, attempts, limit, token, logVars, noteVars>>
        BY <1>10 DEF RollbackSealed, LeaseTick, BackoffEnds, ForgetRetry, rowVars
    <2>2. QED
        BY <1>2, <2>1 DEF logVars, noteVars
<1>11. CASE UNCHANGED vars
    BY <1>2, <1>11 DEF vars, rowVars, logVars, noteVars
<1>12. QED
    BY <1>3, <1>4, <1>5, <1>6, <1>7, <1>8, <1>9, <1>10, <1>11, SweepsExhausted
    DEF Next, JobStep, WorkerStep

\* Whatever workers, crashes, polls and retries race, the four tables tell one story of a
\* job: its status, its attempts, what each batch ran, and what its requester was told.
THEOREM RecordsCorrect == Spec => []RecordsAgree
<1>1. FenceInv /\ StoryInv => RecordsAgree
    <2> SUFFICES ASSUME FenceInv, StoryInv PROVE HistoryAgrees /\ AttemptsAccounted /\ OutcomeNotified
        BY DEF RecordsAgree
    <2>1. ASSUME NEW j \in Jobs
          PROVE  Records(status[j], attempts[j], limit[j], token[j], batchLog[j], attemptLog[j],
                         intent[j], notified[j])
        BY DEF StoryInv
    <2>2. HistoryAgrees
        BY <2>1 DEF Records, Story, RunningIn, HistoryAgrees
    <2>3. AttemptsAccounted
        <3> SUFFICES ASSUME NEW j \in Jobs, NEW b \in DOMAIN batchLog[j]
                     PROVE  /\ batchLog[j][b].attempts <= limit[j]
                            /\ Cardinality(RowsOf(attemptLog[j], b)) = batchLog[j][b].attempts
                            /\ NumbersOf(attemptLog[j], b) = 1..batchLog[j][b].attempts
            BY DEF AttemptsAccounted, RowsOf, NumbersOf
        <3>1. status[j] # "absent"
            <4>1. DOMAIN <<>> = {}
                OBVIOUS
            <4>2. QED
                BY <2>1, <4>1 DEF Records
        <3>2. QED
            BY <2>1, <3>1 DEF Records, Story, Counted
    <2>4. OutcomeNotified
        BY <2>1 DEF Records, Told, OutcomeNotified
    <2>5. QED
        BY <2>2, <2>3, <2>4
<1>2. QED
    BY <1>1, FenceInit, FenceStep, StoryInit, StoryStep, PTL DEF Spec
=============================================================================
