---------------------------- MODULE ResetMailProofs ----------------------------
(***************************************************************************)
(* Theorems about ResetMail, for any number of links, workers and rows per *)
(* maintenance batch.                                                      *)
(***************************************************************************)
EXTENDS ResetMail, TLAPS

\* A worker about to record a delivery has seen the server accept the message.
RecordsWhatWasSent ==
    \A w \in Workers : At(w, "record") => delivered[work[w].job]

IInv ==
    /\ TypeOK
    /\ RecordsWhatWasSent
    /\ MaterialUntilSent
    /\ DoneMeansDelivered

JobRow == [status : {"none", "open", "succeeded", "failed"}, owner : Workers \cup {None}]
WorkRow == [job : Resets \cup {None}, phase : {"idle", "check", "material", "send", "record"}]

\* Nothing is issued yet.
LEMMA InitInv == Init => IInv
<1> SUFFICES ASSUME Init PROVE IInv
    OBVIOUS
<1>1. TypeOK
    BY DEF Init, TypeOK, Idle
<1>2. RecordsWhatWasSent /\ MaterialUntilSent /\ DoneMeansDelivered
    BY DEF Init, RecordsWhatWasSent, MaterialUntilSent, DoneMeansDelivered, At, Idle, Active
<1>3. QED
    BY <1>1, <1>2 DEF IInv

\* A worker that is not idle has a link and its job in hand.
LEMMA Busy ==
    ASSUME TypeOK, NEW w \in Workers, ~At(w, "idle")
    PROVE  /\ work[w].job \in Resets
           /\ work[w] \in WorkRow
           /\ job[work[w].job] \in JobRow
    BY DEF TypeOK, At, WorkRow, JobRow

\* Account, maintenance and administrator: links end together with their material.
LEMMA AccountInv ==
    ASSUME IInv, AccountStep \/ \E r \in Resets : Exhaust(r) \/ Retry(r)
    PROVE  IInv'
<1>1. CASE \E r \in Resets : Issue(r)
    <2>1. PICK r \in Resets : Issue(r)
        BY <1>1
    <2>2. TypeOK'
        BY <2>1 DEF IInv, TypeOK, Issue, Queued
    <2>3. RecordsWhatWasSent'
        BY <2>1 DEF IInv, RecordsWhatWasSent, Issue, At
    <2>4. MaterialUntilSent' /\ DoneMeansDelivered'
        BY <2>1 DEF IInv, TypeOK, MaterialUntilSent, DoneMeansDelivered, Issue, Active, Queued
    <2>5. QED
        BY <2>2, <2>3, <2>4 DEF IInv
<1>2. CASE \E used \in Resets \cup {None} : Revoke(used) /\ (used \in Resets => Active(used))
    <2>1. PICK used \in Resets \cup {None} : Revoke(used) /\ (used \in Resets => Active(used))
        BY <1>2
    <2>2. TypeOK'
        BY <2>1 DEF IInv, TypeOK, Revoke
    <2>3. \A r \in Resets : reset'[r] # "active" /\ ~mail'[r]
        BY <2>1 DEF IInv, TypeOK, Revoke
    <2>4. UNCHANGED <<expired, job, work, delivered>>
        BY <2>1 DEF Revoke
    <2>5. RecordsWhatWasSent'
        BY <2>4 DEF IInv, RecordsWhatWasSent, At
    <2>6. MaterialUntilSent' /\ DoneMeansDelivered'
        BY <2>3 DEF MaterialUntilSent, DoneMeansDelivered, Active
    <2>7. QED
        BY <2>2, <2>5, <2>6 DEF IInv
<1>3. CASE \E r \in Resets : Expire(r)
    <2>1. PICK r \in Resets : Expire(r)
        BY <1>3
    <2>2. TypeOK'
        BY <2>1 DEF IInv, TypeOK, Expire
    <2>3. RecordsWhatWasSent'
        BY <2>1 DEF IInv, RecordsWhatWasSent, Expire, At
    <2>4. \A q \in Resets : Active(q)' => Active(q)
        BY <2>1 DEF IInv, TypeOK, Expire, Active
    <2>5. MaterialUntilSent' /\ DoneMeansDelivered'
        BY <2>1, <2>4 DEF IInv, MaterialUntilSent, DoneMeansDelivered, Expire
    <2>6. QED
        BY <2>2, <2>3, <2>5 DEF IInv
<1>4. CASE Maintenance
    <2>1. PICK batch \in SUBSET {r \in Resets : mail[r] /\ Useless(r)} :
            mail' = [r \in Resets |-> mail[r] /\ r \notin batch]
        BY <1>4 DEF Maintenance
    <2>2. UNCHANGED <<reset, expired, job, work, delivered>>
        BY <1>4 DEF Maintenance
    <2>3. \A r \in Resets : mail'[r] \in BOOLEAN /\ (mail'[r] => mail[r])
        BY <2>1
    <2>4. \A r \in Resets : Active(r) /\ mail[r] => mail'[r]
        BY <2>1 DEF Useless
    <2>5. TypeOK'
        <3>1. mail' \in [Resets -> BOOLEAN]
            BY <2>1
        <3>2. QED
            BY <2>2, <3>1 DEF IInv, TypeOK
    <2>6. RecordsWhatWasSent'
        BY <2>2 DEF IInv, RecordsWhatWasSent, At
    <2>7. MaterialUntilSent' /\ DoneMeansDelivered'
        BY <2>2, <2>3, <2>4 DEF IInv, MaterialUntilSent, DoneMeansDelivered, Active
    <2>8. QED
        BY <2>5, <2>6, <2>7 DEF IInv
<1>5. CASE \E r \in Resets : Retry(r)
    <2>1. PICK r \in Resets : Retry(r)
        BY <1>5
    <2>2. TypeOK'
        BY <2>1 DEF IInv, TypeOK, Retry, Queued
    <2>3. RecordsWhatWasSent'
        BY <2>1 DEF IInv, RecordsWhatWasSent, Retry, At
    <2>4. MaterialUntilSent' /\ DoneMeansDelivered'
        BY <2>1 DEF IInv, TypeOK, MaterialUntilSent, DoneMeansDelivered, Retry, Active, Queued
    <2>5. QED
        BY <2>2, <2>3, <2>4 DEF IInv
<1>6. CASE \E r \in Resets : Exhaust(r)
    <2>1. PICK r \in Resets : Exhaust(r)
        BY <1>6
    <2>2. TypeOK'
        BY <2>1 DEF IInv, TypeOK, Exhaust
    <2>3. RecordsWhatWasSent'
        BY <2>1 DEF IInv, RecordsWhatWasSent, Exhaust, At
    <2>4. MaterialUntilSent' /\ DoneMeansDelivered'
        BY <2>1 DEF IInv, TypeOK, MaterialUntilSent, DoneMeansDelivered, Exhaust, Active
    <2>5. QED
        BY <2>2, <2>3, <2>4 DEF IInv
<1>7. (\E r \in Resets : Consume(r)) \/ Deactivate
        => \E used \in Resets \cup {None} : Revoke(used) /\ (used \in Resets => Active(used))
    BY ResetMailAssumption DEF Consume, Deactivate
<1>8. QED
    BY <1>1, <1>2, <1>3, <1>4, <1>5, <1>6, <1>7 DEF AccountStep

\* Workers: only the last lessee writes the job, and it removes the material only
\* together with the job it ends.
LEMMA WorkerInv ==
    ASSUME IInv, NEW w \in Workers, WorkerStep(w)
    PROVE  IInv'
<1>0. TypeOK
    BY DEF IInv
<1>1. ASSUME NEW r \in Resets, Claim(w, r) PROVE IInv'
    <2>1. TypeOK'
        BY <1>0, <1>1, ResetMailAssumption DEF TypeOK, Claim
    <2>2. RecordsWhatWasSent'
        BY <1>0, <1>1 DEF IInv, TypeOK, RecordsWhatWasSent, Claim, At
    <2>3. \A q \in Resets : job'[q].status = job[q].status
        BY <1>0, <1>1 DEF TypeOK, Claim
    <2>4. MaterialUntilSent' /\ DoneMeansDelivered'
        BY <1>1, <2>3 DEF IInv, MaterialUntilSent, DoneMeansDelivered, Claim, Active
    <2>5. QED
        BY <2>1, <2>2, <2>4 DEF IInv
\* The steps that end the job with the material, in success.
<1>2. ASSUME FinishEnded(w) \/ RecordSent(w) PROVE IInv'
    <2> DEFINE r == work[w].job
    <2>1. r \in Resets /\ (delivered[r] \/ ~Active(r))
        BY <1>0, <1>2, Busy DEF FinishEnded, RecordSent, At, IInv, RecordsWhatWasSent
    <2>2. /\ mail' = [mail EXCEPT ![r] = FALSE]
          /\ job' = [job EXCEPT ![r] = Done]
          /\ work' = [work EXCEPT ![w] = Idle]
          /\ UNCHANGED <<reset, expired, delivered>>
        BY <1>2 DEF FinishEnded, RecordSent, Leave
    <2> HIDE DEF r
    <2>3. TypeOK'
        BY <1>0, <2>1, <2>2 DEF TypeOK, Done, Idle
    <2>4. RecordsWhatWasSent'
        BY <1>0, <2>2 DEF IInv, TypeOK, RecordsWhatWasSent, At, Idle
    <2>5. MaterialUntilSent' /\ DoneMeansDelivered'
        BY <1>0, <2>1, <2>2
        DEF IInv, TypeOK, MaterialUntilSent, DoneMeansDelivered, Active, Done
    <2>6. QED
        BY <2>3, <2>4, <2>5 DEF IInv
\* The steps of one worker that write no row.
<1>3. ASSUME FindActive(w) \/ ReadMaterial(w) \/ LoseLease(w) \/ WorkerCrashes(w) PROVE IInv'
    <2>1. UNCHANGED <<reset, expired, mail, job, delivered>>
        BY <1>3 DEF FindActive, ReadMaterial, LoseLease, WorkerCrashes
    <2>2. PICK next \in WorkRow :
            /\ work' = [work EXCEPT ![w] = next]
            /\ next.phase # "record"
            /\ next.phase = "idle" <=> next.job = None
        <3>1. CASE LoseLease(w) \/ WorkerCrashes(w)
            <4>1. Idle \in WorkRow /\ Idle.phase = "idle" /\ Idle.job = None
                BY DEF WorkRow, Idle
            <4>2. work' = [work EXCEPT ![w] = Idle]
                BY <3>1 DEF LoseLease, WorkerCrashes, Leave
            <4>3. QED
                BY <4>1, <4>2
        <3>2. CASE FindActive(w) \/ ReadMaterial(w)
            <4>1. work[w] \in WorkRow /\ work[w].job \in Resets
                BY <1>0, <3>2, Busy DEF FindActive, ReadMaterial, At
            <4>2. PICK phase \in {"material", "send"} :
                    work' = [work EXCEPT ![w] = [work[w] EXCEPT !.phase = phase]]
                BY <3>2 DEF FindActive, ReadMaterial, Goto
            <4>3. [work[w] EXCEPT !.phase = phase] \in WorkRow
                BY <4>1 DEF WorkRow
            <4>4. /\ [work[w] EXCEPT !.phase = phase].phase = phase
                  /\ [work[w] EXCEPT !.phase = phase].job \in Resets
                BY <4>1 DEF WorkRow
            <4>5. QED
                BY <4>2, <4>3, <4>4, ResetMailAssumption
        <3>3. QED
            BY <1>3, <3>1, <3>2
    <2>3. TypeOK'
        BY <1>0, <2>1, <2>2 DEF TypeOK, WorkRow
    <2>4. RecordsWhatWasSent'
        BY <1>0, <2>1, <2>2 DEF IInv, TypeOK, RecordsWhatWasSent, At
    <2>5. MaterialUntilSent' /\ DoneMeansDelivered'
        BY <2>1 DEF IInv, MaterialUntilSent, DoneMeansDelivered, Active
    <2>6. QED
        BY <2>3, <2>4, <2>5 DEF IInv
\* The steps that leave an open job open or fail it.
<1>4. ASSUME MissMaterial(w) \/ \E status \in {"open", "failed"} : AttemptFails(w, status)
      PROVE  IInv'
    <2>1. PICK r \in Resets, status \in {"open", "failed"} :
            /\ r = work[w].job /\ job[r].status = "open"
            /\ job' = [job EXCEPT ![r] = [status |-> status, owner |-> None]]
        BY <1>0, <1>4 DEF MissMaterial, AttemptFails, Fenced, TypeOK
    <2>2. /\ work' = [work EXCEPT ![w] = Idle]
          /\ UNCHANGED <<reset, expired, mail, delivered>>
        BY <1>4 DEF MissMaterial, AttemptFails, Leave
    <2>3. TypeOK'
        BY <1>0, <2>1, <2>2 DEF TypeOK, Idle
    <2>4. RecordsWhatWasSent'
        BY <1>0, <2>2 DEF IInv, TypeOK, RecordsWhatWasSent, At, Idle
    <2>5. MaterialUntilSent' /\ DoneMeansDelivered'
        BY <1>0, <2>1, <2>2 DEF IInv, TypeOK, MaterialUntilSent, DoneMeansDelivered, Active
    <2>6. QED
        BY <2>3, <2>4, <2>5 DEF IInv
<1>5. ASSUME Send(w) PROVE IInv'
    <2>1. work[w].job \in Resets /\ work[w] \in WorkRow
        BY <1>0, <1>5, Busy DEF Send, At
    <2>2. /\ delivered' = [delivered EXCEPT ![work[w].job] = TRUE]
          /\ work' = work \/ work' = [work EXCEPT ![w].phase = "record"]
          /\ UNCHANGED <<reset, expired, mail, job>>
        BY <1>5 DEF Send, Goto
    <2>3. \A v \in Workers : /\ work'[v].job = work[v].job
                             /\ v # w => work'[v] = work[v]
        BY <1>0, <2>1, <2>2 DEF TypeOK, WorkRow
    <2>4. \A r \in Resets : delivered[r] => delivered'[r]
        BY <1>0, <2>2 DEF TypeOK
    <2>5. TypeOK'
        BY <1>0, <1>5, <2>1, <2>2, ResetMailAssumption DEF TypeOK, WorkRow, Send, At
    <2>6. RecordsWhatWasSent'
        <3>1. SUFFICES ASSUME NEW v \in Workers, work'[v].phase = "record"
                       PROVE  delivered'[work[v].job]
            BY <2>3 DEF RecordsWhatWasSent, At
        <3>2. CASE v = w
            BY <1>0, <2>1, <2>2, <3>2 DEF TypeOK
        <3>3. CASE v # w
            <4>1. work[v].phase = "record" /\ delivered[work[v].job]
                BY <2>3, <3>1, <3>3 DEF IInv, RecordsWhatWasSent, At
            <4>2. work[v].job \in Resets
                BY <1>0, <4>1, Busy DEF At
            <4>3. QED
                BY <2>4, <4>1, <4>2
        <3>4. QED
            BY <3>2, <3>3
    <2>7. MaterialUntilSent' /\ DoneMeansDelivered'
        BY <2>2, <2>4 DEF IInv, MaterialUntilSent, DoneMeansDelivered, Active
    <2>8. QED
        BY <2>5, <2>6, <2>7 DEF IInv
<1>6. QED
    BY <1>1, <1>2, <1>3, <1>4, <1>5 DEF WorkerStep

\* The invariant holds in every behaviour.
LEMMA InvCorrect == Spec => []IInv
<1>1. IInv /\ [Next]_vars => IInv'
    <2> SUFFICES ASSUME IInv, [Next]_vars PROVE IInv'
        OBVIOUS
    <2>1. CASE UNCHANGED vars
        BY <2>1 DEF vars, IInv, TypeOK, RecordsWhatWasSent, MaterialUntilSent,
            DoneMeansDelivered, At, Active
    <2>2. QED
        BY <2>1, AccountInv, WorkerInv DEF Next
<1>2. QED
    BY <1>1, InitInv, PTL DEF Spec

\* Type correctness of the reset mail.
THEOREM TypeCorrect == Spec => []TypeOK
<1>1. IInv => TypeOK
    BY DEF IInv
<1>2. QED
    BY <1>1, InvCorrect, PTL

\* No worker, however stale, and no maintenance takes the material of a link that
\* works and whose mail may still have to be sent.
THEOREM MaterialCorrect == Spec => []MaterialUntilSent
<1>1. IInv => MaterialUntilSent
    BY DEF IInv
<1>2. QED
    BY <1>1, InvCorrect, PTL

\* A job that is done delivered its mail or found the link ended.
THEOREM DeliveryCorrect == Spec => []DoneMeansDelivered
<1>1. IInv => DoneMeansDelivered
    BY DEF IInv
<1>2. QED
    BY <1>1, InvCorrect, PTL
(***************************************************************************)
(* The jobs of reset mails keep to the contract of the queue.              *)
(***************************************************************************)

\* A link and its job are made together.
EnqueuedWithLink == \A r \in Resets : reset[r] = "none" => job[r].status = "none"

\* What the contract lets happen to one job.
Moves == {<<"none", "open">>, <<"open", "succeeded">>, <<"open", "failed">>, <<"failed", "open">>}

\* A step that moves one job in such a way is a step of the contract.
LEMMA MoveIsContract ==
    ASSUME TypeOK, TypeOK', NEW r \in Resets, NEW to, <<job[r].status, to>> \in Moves,
           \A i \in Resets : job'[i].status = IF i = r THEN to ELSE job[i].status
    PROVE  Contract!Next
<1> DEFINE phase == [i \in Resets |-> job[i].status]
           results == [i \in Resets |-> IF job[i].status = "succeeded" THEN 1 ELSE 0]
<1>1. \A i \in Resets : phase[i] = job[i].status
    OBVIOUS
<1>2. phase' = [phase EXCEPT ![r] = to]
    OBVIOUS
<1>3. CASE job[r].status = "none" /\ to = "open"
    <2>1. phase' = [i \in Resets |-> IF i \in {r} THEN "open" ELSE phase[i]]
        BY <1>2, <1>3
    <2>2. UNCHANGED results
        BY <1>3
    <2>3. \E telling \in SUBSET {r} : [i \in Resets |-> FALSE]
            = [i \in Resets |-> IF i \in {r} THEN i \in telling ELSE [q \in Resets |-> FALSE][i]]
        <3>1. [i \in Resets |-> FALSE] =
                [i \in Resets |-> IF i \in {r} THEN i \in {} ELSE [q \in Resets |-> FALSE][i]]
            <4>1. \A i \in Resets :
                    (IF i \in {r} THEN i \in {} ELSE [q \in Resets |-> FALSE][i]) = FALSE
                OBVIOUS
            <4>2. QED
                BY <4>1, Zenon
        <3>2. QED
            BY <3>1
    <2>4. Contract!Submit({r})
        BY <1>1, <1>3, <2>1, <2>2, <2>3 DEF Contract!Submit
    <2>5. QED
        BY <2>4 DEF Contract!Next
<1>4. CASE job[r].status = "open" /\ to = "succeeded"
    <2>1. results[r] = 0 /\ results' = [results EXCEPT ![r] = 1]
        BY <1>4
    <2>2. Contract!Succeed(r)
        BY <1>1, <1>2, <1>4, <2>1 DEF Contract!Succeed, Contract!Tell
    <2>3. QED
        BY <2>2 DEF Contract!Next
<1>5. CASE job[r].status = "open" /\ to = "failed"
    <2>1. phase' = [i \in Resets |-> IF i \in {r} THEN "failed" ELSE phase[i]]
        BY <1>2, <1>5
    <2>2. UNCHANGED results
        BY <1>5
    <2>3. Contract!GiveUp({r})
        BY <1>1, <1>5, <2>1, <2>2 DEF Contract!GiveUp, Contract!Tell
    <2>4. QED
        BY <2>3 DEF Contract!Next
<1>6. CASE job[r].status = "failed" /\ to = "open"
    <2>1. UNCHANGED results
        BY <1>6
    <2>2. Contract!Reopen(r)
        BY <1>1, <1>2, <1>6, <2>1 DEF Contract!Reopen
    <2>3. QED
        BY <2>2 DEF Contract!Next
<1>7. QED
    BY <1>3, <1>4, <1>5, <1>6 DEF Moves

\* A step moves at most one job, and starts none without its link.
LEMMA OneMoves ==
    ASSUME IInv, EnqueuedWithLink, [Next]_vars
    PROVE  /\ EnqueuedWithLink'
           /\ \/ \A i \in Resets : job'[i].status = job[i].status
              \/ \E r \in Resets, to \in {"open", "succeeded", "failed"} :
                    /\ <<job[r].status, to>> \in Moves
                    /\ \A i \in Resets :
                          job'[i].status = IF i = r THEN to ELSE job[i].status
<1> DEFINE Same == \A i \in Resets : job'[i].status = job[i].status
           Moved(r, to) == /\ <<job[r].status, to>> \in Moves
                           /\ \A i \in Resets :
                                 job'[i].status = IF i = r THEN to ELSE job[i].status
<1>1. TypeOK
    BY DEF IInv
<1>2. ASSUME Same, \A i \in Resets : reset'[i] = "none" => reset[i] = "none"
      PROVE  EnqueuedWithLink'
    BY <1>2 DEF EnqueuedWithLink
<1>3. ASSUME NEW r \in Resets, NEW to, Moved(r, to), reset'[r] # "none",
             \A i \in Resets : reset'[i] = "none" => reset[i] = "none"
      PROVE  EnqueuedWithLink'
    BY <1>3 DEF EnqueuedWithLink
<1>4. CASE \E r \in Resets : Issue(r)
    <2>1. PICK r \in Resets : Issue(r)
        BY <1>4
    <2>2. reset[r] = "none" /\ job[r].status = "none"
        BY <2>1 DEF Issue, EnqueuedWithLink
    <2>3. Moved(r, "open")
        BY <1>1, <2>1, <2>2 DEF Issue, Queued, TypeOK, Moves
    <2>4. /\ reset'[r] # "none"
          /\ \A i \in Resets : reset'[i] = "none" => reset[i] = "none"
        BY <1>1, <2>1 DEF Issue, TypeOK
    <2>5. QED
        BY <1>3, <2>3, <2>4
<1>5. ASSUME NEW r \in Resets, NEW to \in {"open", "succeeded", "failed"}, NEW row,
             row.status = to, <<job[r].status, to>> \in Moves, job[r].status # "none",
             job' = [job EXCEPT ![r] = row], UNCHANGED reset
      PROVE  EnqueuedWithLink' /\ Moved(r, to)
    <2>1. Moved(r, to)
        BY <1>1, <1>5 DEF TypeOK
    <2>2. reset'[r] # "none"
        BY <1>5 DEF EnqueuedWithLink
    <2>3. QED
        BY <1>3, <1>5, <2>1, <2>2
<1>6. CASE \E r \in Resets : Exhaust(r) \/ Retry(r)
    <2>1. PICK r \in Resets : Exhaust(r) \/ Retry(r)
        BY <1>6
    <2>2. CASE Exhaust(r)
        BY <1>5, <2>2 DEF Exhaust, Moves
    <2>3. CASE Retry(r)
        BY <1>5, <2>3 DEF Retry, Queued, Moves
    <2>4. QED
        BY <2>1, <2>2, <2>3
<1>7. ASSUME NEW w \in Workers,
             \/ FinishEnded(w) \/ RecordSent(w) \/ MissMaterial(w)
             \/ \E status \in {"open", "failed"} : AttemptFails(w, status)
      PROVE  EnqueuedWithLink' /\ (Same \/ \E r \in Resets, to \in {"succeeded", "failed"} : Moved(r, to))
    <2> DEFINE r == work[w].job
    <2>1. r \in Resets /\ job[r].status = "open" /\ UNCHANGED reset
        BY <1>1, <1>7
        DEF FinishEnded, RecordSent, MissMaterial, AttemptFails, Fenced, TypeOK
    <2>2. PICK status \in {"open", "succeeded", "failed"} :
            job' = [job EXCEPT ![r] = [status |-> status, owner |-> None]]
        BY <1>7 DEF FinishEnded, RecordSent, MissMaterial, AttemptFails, Done
    <2> HIDE DEF r
    <2>3. CASE status = "open"
        <3>1. Same
            BY <1>1, <2>1, <2>2, <2>3 DEF TypeOK
        <3>2. QED
            BY <1>2, <2>1, <3>1
    <2>4. CASE status # "open"
        BY <1>5, <2>1, <2>2, <2>4 DEF Moves
    <2>5. QED
        BY <2>3, <2>4
<1>8. ASSUME \/ \E r \in Resets : Consume(r) \/ Expire(r)
             \/ Deactivate \/ Maintenance \/ UNCHANGED vars
             \/ \E w \in Workers :
                  \/ \E r \in Resets : Claim(w, r)
                  \/ FindActive(w) \/ ReadMaterial(w) \/ Send(w)
                  \/ LoseLease(w) \/ WorkerCrashes(w)
      PROVE  EnqueuedWithLink' /\ Same
    <2>1. Same
        BY <1>1, <1>8 DEF Consume, Expire, Deactivate, Revoke, Maintenance, vars, Claim,
            FindActive, ReadMaterial, Send, LoseLease, WorkerCrashes, TypeOK
    <2>2. \A i \in Resets : reset'[i] = "none" => reset[i] = "none"
        BY <1>1, <1>8 DEF Consume, Expire, Deactivate, Revoke, Maintenance, vars, Claim,
            FindActive, ReadMaterial, Send, LoseLease, WorkerCrashes, TypeOK
    <2>3. QED
        BY <1>2, <2>1, <2>2
<1>9. QED
    BY <1>4, <1>6, <1>7, <1>8 DEF Next, AccountStep, WorkerStep

\* However links, stale workers, sweeps, administrators and maintenance take part, what
\* happens to the jobs of reset mails is what the queue promises of any job (jobs/mod.rs):
\* each is enqueued once, done at most once, given up, or reopened after it failed.
THEOREM ContractKept == Spec => JobsKeepContract
<1>1. Init => Contract!Init /\ EnqueuedWithLink
    BY DEF Init, Contract!Init, EnqueuedWithLink
<1>2. IInv /\ IInv' /\ EnqueuedWithLink /\ [Next]_vars
        => [Contract!Next]_(Contract!vars) /\ EnqueuedWithLink'
    <2> SUFFICES ASSUME IInv, IInv', EnqueuedWithLink, [Next]_vars
                 PROVE  [Contract!Next]_(Contract!vars) /\ EnqueuedWithLink'
        OBVIOUS
    <2>1. EnqueuedWithLink'
        BY OneMoves
    <2>2. CASE \A i \in Resets : job'[i].status = job[i].status
        BY <2>1, <2>2 DEF Contract!vars
    <2>3. CASE \E r \in Resets, to \in {"open", "succeeded", "failed"} :
                  /\ <<job[r].status, to>> \in Moves
                  /\ \A i \in Resets : job'[i].status = IF i = r THEN to ELSE job[i].status
        BY <2>1, <2>3, MoveIsContract DEF IInv
    <2>4. QED
        BY <2>2, <2>3, OneMoves
<1>3. QED
    BY <1>1, <1>2, InvCorrect, PTL DEF Spec, JobsKeepContract, Contract!Spec
=============================================================================
