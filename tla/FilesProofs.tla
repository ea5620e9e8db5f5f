----------------------------- MODULE FilesProofs -----------------------------
(***************************************************************************)
(* Theorems about Files, for any files, requests, workers, cleanup jobs    *)
(* and rows per statement.                                                 *)
(***************************************************************************)
EXTENDS Files, FiniteSetTheorems, TLAPS

JobRow == [status : {"open", "succeeded", "failed"}, owner : Workers \cup {None}]
WorkRow == [job : JobIds \cup {None}, phase : {"idle", "plan", "delete", "record", "finish"},
            targets : SUBSET Keys, at : Keys \cup {None}]

\* A candidate has a file from the request's first transaction on; a file gets its object once.
Candidacy ==
    /\ \A c \in Candidates :
           /\ req[c] = "unused" => of[c] = None /\ cstate[c] = "none" /\ cleanup[c] = "none"
           /\ of[c] = None => req[c] = "unused"
           /\ cstate[c] = "none" => of[c] = None
           /\ of[c] # None => state[of[c]] # "none"
           /\ cstate[c] = "adopted" => readyCand[of[c]] = c
    /\ \A f \in Files :
           /\ state[f] \in {"none", "pending_upload"} => readyCand[f] = None
           /\ state[f] = "ready" => readyCand[f] # None
           /\ readyCand[f] # None => of[readyCand[f]] = f

\* What a worker may delete, or has deleted and not recorded, is listed.
HeldIsListed ==
    \A w \in Workers :
        /\ \A k \in work[w].targets : cleanup[k] # "none"
        /\ work[w].phase = "record" => work[w].at \in Keys /\ cleanup[work[w].at] # "none"

\* A verified candidate that may yet be published is in the store as it was verified.
Publishable(c) == of[c] # None /\ state[of[c]] = "pending_upload" /\ cstate[c] = "copying"
VerifiedIsStored ==
    \A c \in Candidates : req[c] = "verified" /\ Publishable(c) => store[c] = "good"

IInv ==
    /\ TypeOK
    /\ Candidacy
    /\ HeldIsListed
    /\ VerifiedIsStored
    /\ PublicationIsSound
    /\ DeletedIsScrubbed

\* Nothing is uploaded yet.
LEMMA InitInv == Init => IInv
<1> SUFFICES ASSUME Init PROVE IInv
    OBVIOUS
<1>1. TypeOK
    BY DEF Init, TypeOK, Idle, Succeeded, FileStates, CandStates, Content, Phases
<1>2. Candidacy /\ HeldIsListed /\ VerifiedIsStored
    BY DEF Init, Candidacy, HeldIsListed, VerifiedIsStored, Publishable, Idle, Keys
<1>3. PublicationIsSound /\ DeletedIsScrubbed
    BY DEF Init, PublicationIsSound, ReadyObjectIntact, OnePublication, DeletableIsDead,
           DeletedIsScrubbed, KeysOf
<1>4. QED
    BY <1>1, <1>2, <1>3 DEF IInv

(***************************************************************************)
(* Types.                                                                  *)
(***************************************************************************)
LEMMA NewJobIs ==
    ASSUME NEW f \in Files, FreeSlots(f) # {}
    PROVE  NewJob(f) \in Files \X Slots /\ NewJob(f) \in JobIds
<1> DEFINE s == CHOOSE x \in FreeSlots(f) : TRUE
<1>1. s \in FreeSlots(f)
    OBVIOUS
<1>2. s \in Slots
    BY <1>1 DEF FreeSlots
<1>3. NewJob(f) = <<f, s>>
    BY DEF NewJob
<1> HIDE DEF s
<1>4. QED
    BY <1>2, <1>3 DEF JobIds

LEMMA FileTypes == ASSUME IInv, NEW f \in Files, FileStep(f) PROVE TypeOK'
<1> USE DEF TypeOK, IInv, FileStates, Content, Keys, fileVars, candVars
<1>1. CASE Start(f) \/ PlanExpired(f)
    BY <1>1 DEF Start, PlanExpired
<1>2. CASE \E content \in Uploads : Put(f, content)
    BY <1>2, FilesAssumption DEF Put
<1>3. CASE Expire(f)
    BY <1>3 DEF Expire
<1>4. CASE MarkDeleting(f)
    <2>1. cleanup' \in [Keys -> {"none", "registered", "deleted"}]
        BY <1>4 DEF MarkDeleting, Register
    <2>2. NewJob(f) \in Files \X Slots /\ NewJob(f) \in JobIds
        BY <1>4, NewJobIs DEF MarkDeleting
    <2>3. Queued \in JobRow
        BY DEF Queued, JobRow
    <2>4. job' \in [JobIds -> JobRow] /\ cleanupJob' \in [Files -> (Files \X Slots) \cup {None}]
        BY <1>4, <2>2, <2>3 DEF MarkDeleting, JobRow
    <2>5. state' \in [Files -> FileStates]
        BY <1>4 DEF MarkDeleting
    <2>6. UNCHANGED <<past, readyCand, candVars, store, copying, req, work>>
        BY <1>4 DEF MarkDeleting
    <2>7. QED
        BY <2>1, <2>4, <2>5, <2>6 DEF JobRow, candVars
<1>5. QED
    BY <1>1, <1>2, <1>3, <1>4 DEF FileStep

LEMMA RequestTypes == ASSUME IInv, NEW c \in Candidates, RequestStep(c) PROVE TypeOK'
<1> USE DEF TypeOK, IInv, FileStates, CandStates, Content, Phases, Keys, fileVars, candVars
<1>0. c \in Keys /\ (req[c] # "unused" => of[c] \in Files /\ of[c] \in Keys)
    BY DEF Candidacy
<1>1. CASE \E f \in Files : PlanCompletion(c, f)
    BY <1>1 DEF PlanCompletion
<1>2. CASE SendCopy(c)
    BY <1>0, <1>2 DEF SendCopy
<1>3. CASE CopyLands(c)
    BY <1>0, <1>3 DEF CopyLands
<1>4. CASE CheckCopy(c) \/ RequestFails(c) \/ RequestVanishes(c) \/ PublishRefused(c)
    <2>1. \E phase \in Phases : req' = [req EXCEPT ![c] = phase]
        <3>1. CASE CheckCopy(c)
            <4>1. (CASE store[c] = "good" -> "verified" [] store[c] = "bad"  -> "rejected"
                     [] OTHER -> "failed") \in Phases
                OBVIOUS
            <4>2. QED
                BY <3>1, <4>1 DEF CheckCopy
        <3>2. CASE ~CheckCopy(c)
            BY <1>4, <3>2 DEF RequestFails, RequestVanishes, PublishRefused
        <3>3. QED
            BY <3>1, <3>2
    <2>2. UNCHANGED <<fileVars, candVars, cleanup, job, store, copying, work>>
        BY <1>4 DEF CheckCopy, RequestFails, RequestVanishes, PublishRefused
    <2>3. QED
        BY <2>1, <2>2
<1>5. CASE Abandon(c) \/ PublishTooLate(c)
    <2>1. state' \in [Files -> FileStates] /\ cstate' \in [Candidates -> CandStates]
          /\ req' \in [Candidates -> Phases]
        BY <1>5, SMTT(30) DEF Abandon, PublishTooLate
    <2>2. UNCHANGED <<past, readyCand, cleanupJob, of, cleanup, job, store, copying, work>>
        BY <1>5 DEF Abandon, PublishTooLate
    <2>3. QED
        BY <2>1, <2>2
<1>6. CASE Adopt(c)
    BY <1>6 DEF Adopt
<1>7. CASE PublishExisting(c)
    BY <1>7 DEF PublishExisting
<1>8. QED
    BY <1>1, <1>2, <1>3, <1>4, <1>5, <1>6, <1>7 DEF RequestStep

\* A worker that is fenced has an open job in hand.
LEMMA Busy ==
    ASSUME TypeOK, NEW w \in Workers
    PROVE  /\ work[w] \in WorkRow
           /\ Fenced(w) => work[w].job \in JobIds
           /\ Fenced(w) /\ work[w].job # Rescan => work[w].job[1] \in Files
<1>1. work[w] \in WorkRow
    BY DEF TypeOK, WorkRow
<1>2. Fenced(w) => work[w].job \in JobIds
    BY <1>1, FilesAssumption DEF Fenced, WorkRow, JobIds
<1>3. \A i \in JobIds : i # Rescan => i[1] \in Files
    BY DEF JobIds
<1>4. QED
    BY <1>1, <1>2, <1>3

LEMMA WorkerTypes == ASSUME IInv, NEW w \in Workers, WorkerStep(w) PROVE TypeOK'
<1> USE DEF IInv, fileVars, candVars
<1>0. /\ TypeOK /\ work[w] \in WorkRow
      /\ Idle \in WorkRow /\ Succeeded \in JobRow /\ Queued \in JobRow
      /\ work \in [Workers -> WorkRow] /\ job \in [JobIds -> JobRow]
    BY DEF TypeOK, WorkRow, JobRow, Idle, Succeeded, Queued
<1>1. ASSUME UNCHANGED <<past, readyCand, cleanupJob, of, copying, req>>,
             state' \in [Files -> FileStates], cstate' \in [Candidates -> CandStates],
             cleanup' \in [Keys -> {"none", "registered", "deleted"}],
             store' \in [Keys -> Content],
             NEW row \in WorkRow, work' = [work EXCEPT ![w] = row], row.phase = "idle" => row = Idle,
             job' \in [JobIds -> JobRow]
      PROVE  TypeOK'
    <2>1. work' \in [Workers -> WorkRow] /\ \A v \in Workers : work'[v].phase = "idle" => work'[v] = Idle
        BY <1>0, <1>1 DEF TypeOK
    <2>2. QED
        BY <1>0, <1>1, <2>1 DEF TypeOK, WorkRow, JobRow
<1>2. /\ state \in [Files -> FileStates] /\ cstate \in [Candidates -> CandStates]
      /\ cleanup \in [Keys -> {"none", "registered", "deleted"}] /\ store \in [Keys -> Content]
    BY <1>0 DEF TypeOK
<1>3. CASE \E i \in JobIds : Claim(w, i)
    <2>1. PICK i \in JobIds : Claim(w, i)
        BY <1>3
    <2> DEFINE row == [Idle EXCEPT !.job = i, !.phase = "plan"]
    <2>2. row \in WorkRow /\ row.phase # "idle"
        BY <1>0 DEF WorkRow, Idle
    <2>3. job' \in [JobIds -> JobRow]
        BY <1>0, <2>1 DEF Claim, JobRow
    <2>4. QED
        BY <2>1, <2>2, <2>3, <1>1, <1>2 DEF Claim
<1>4. CASE CleanupPlan(w)
    <2>1. cleanup' \in [Keys -> {"none", "registered", "deleted"}]
        BY <1>2, <1>4 DEF CleanupPlan, Register
    <2>2. CASE UNCHANGED <<state, job>> /\ \E keys \in SUBSET Keys :
                   work' = [work EXCEPT ![w].phase = "delete", ![w].targets = keys]
        <3>1. PICK keys \in SUBSET Keys :
                  work' = [work EXCEPT ![w].phase = "delete", ![w].targets = keys]
            BY <2>2
        <3> DEFINE row == [work[w] EXCEPT !.phase = "delete", !.targets = keys]
        <3>2. row \in WorkRow /\ row.phase # "idle" /\ work' = [work EXCEPT ![w] = row]
            BY <1>0, <3>1 DEF WorkRow
        <3> HIDE DEF row
        <3>3. QED
            BY <1>0, <1>1, <1>2, <1>4, <2>1, <2>2, <3>2 DEF CleanupPlan
    <2>3. CASE /\ state' = [state EXCEPT ![work[w].job[1]] = IF @ = "deleting" THEN "deleted" ELSE @]
               /\ job' = [job EXCEPT ![work[w].job] = Succeeded]
               /\ work' = [work EXCEPT ![w] = Idle]
        <3>1. state' \in [Files -> FileStates]
            BY <1>2, <2>3 DEF FileStates
        <3>2. job' \in [JobIds -> JobRow]
            BY <1>0, <2>3
        <3>3. QED
            BY <1>0, <1>1, <1>2, <1>4, <2>1, <2>3, <3>1, <3>2 DEF CleanupPlan
    <2>4. QED
        <3>1. work[w].job[1] \in Files
            BY <1>0, <1>4, Busy DEF CleanupPlan
        <3>2. \A S \in SUBSET Keys : \A T \in Batches(S) : T \in SUBSET Keys
            BY DEF Batches
        <3>3. KeysOf(work[w].job[1]) \subseteq Keys
            BY <3>1 DEF KeysOf, Keys
        <3> DEFINE f == work[w].job[1]
        <3>4. PICK new \in Registrations(f, state[f]) :
                 LET waiting == {k \in KeysOf(f) : Register(new)[k] = "registered"}
                 IN  \/ /\ \E keys \in Batches(waiting) :
                             work' = [work EXCEPT ![w].phase = "delete", ![w].targets = keys]
                        /\ UNCHANGED <<state, job>>
                     \/ /\ state' = [state EXCEPT ![f] = IF @ = "deleting" THEN "deleted" ELSE @]
                        /\ job' = [job EXCEPT ![work[w].job] = Succeeded]
                        /\ work' = [work EXCEPT ![w] = Idle]
            BY <1>4 DEF CleanupPlan
        <3> DEFINE waiting == {k \in KeysOf(f) : Register(new)[k] = "registered"}
        <3>5. \A keys \in Batches(waiting) : keys \in SUBSET Keys
            <4>1. waiting \in SUBSET Keys
                BY <3>3
            <4> HIDE DEF waiting
            <4>2. QED
                BY <4>1, <3>2
        <3> HIDE DEF waiting
        <3>6. CASE \E keys \in Batches(waiting) :
                       work' = [work EXCEPT ![w].phase = "delete", ![w].targets = keys]
            BY <3>6, <2>2, <2>3, <3>4, <3>5 DEF waiting
        <3>7. QED
            BY <2>2, <2>3, <3>4, <3>5, <3>6 DEF waiting
<1>5. CASE RescanPlan(w)
    <2>1. PICK keys \in SUBSET Keys :
              work' = [work EXCEPT ![w].phase = IF keys = {} THEN "finish" ELSE "delete",
                                   ![w].targets = keys]
        BY <1>5 DEF RescanPlan, Batches
    <2> DEFINE row == [work[w] EXCEPT !.phase = IF keys = {} THEN "finish" ELSE "delete",
                                      !.targets = keys]
    <2>2. row \in WorkRow /\ row.phase # "idle" /\ work' = [work EXCEPT ![w] = row]
        BY <1>0, <2>1 DEF WorkRow
    <2> HIDE DEF row
    <2>3. QED
        BY <1>0, <1>1, <1>2, <1>5, <2>2 DEF RescanPlan
<1>6. CASE \E k \in Keys : DeleteObject(w, k)
    <2>1. PICK k \in Keys : DeleteObject(w, k)
        BY <1>6
    <2> DEFINE row == [work[w] EXCEPT !.phase = "record", !.at = k]
    <2>2. row \in WorkRow /\ row.phase # "idle" /\ work' = [work EXCEPT ![w] = row]
        BY <1>0, <2>1 DEF WorkRow, DeleteObject
    <2> HIDE DEF row
    <2>3. store' \in [Keys -> Content]
        BY <1>2, <2>1 DEF DeleteObject, Content
    <2>4. QED
        BY <1>0, <1>1, <1>2, <2>1, <2>2, <2>3 DEF DeleteObject
<1>7. CASE RecordDeleted(w)
    <2> DEFINE rest == work[w].targets \ {work[w].at}
               row == [work[w] EXCEPT !.phase = NextPhase(work[w].job, rest), !.targets = rest,
                                      !.at = None]
    <2>1. NextPhase(work[w].job, rest) \in {"delete", "finish", "plan"}
        BY DEF NextPhase
    <2>2. row \in WorkRow /\ row.phase # "idle"
        BY <1>0, <2>1 DEF WorkRow
    <2>3. work' = [work EXCEPT ![w] = row]
        BY <1>7 DEF RecordDeleted
    <2> HIDE DEF row
    <2>4. /\ cleanup' \in [Keys -> {"none", "registered", "deleted"}]
          /\ cstate' \in [Candidates -> CandStates]
        BY <1>2, <1>7 DEF RecordDeleted, CandStates
    <2>5. QED
        BY <1>0, <1>1, <1>2, <1>7, <2>2, <2>3, <2>4 DEF RecordDeleted
<1>8. CASE RescanFinish(w)
    <2>1. job' \in [JobIds -> JobRow]
        BY <1>0, <1>8 DEF RescanFinish
    <2>2. QED
        BY <1>0, <1>1, <1>2, <1>8, <2>1 DEF RescanFinish
<1>9. CASE LoseLease(w) \/ WorkerCrashes(w)
    BY <1>0, <1>1, <1>2, <1>9 DEF LoseLease, WorkerCrashes
<1>10. CASE \E status \in {"open", "failed"} : AttemptFails(w, status)
    <2>1. PICK status \in {"open", "failed"} : AttemptFails(w, status)
        BY <1>10
    <2>2. job' \in [JobIds -> JobRow]
        BY <1>0, <2>1 DEF AttemptFails, JobRow
    <2>3. QED
        BY <1>0, <1>1, <1>2, <2>1, <2>2 DEF AttemptFails
<1>11. QED
    BY <1>3, <1>4, <1>5, <1>6, <1>7, <1>8, <1>9, <1>10 DEF WorkerStep

LEMMA NextTypes == ASSUME IInv, Next PROVE TypeOK'
<1> USE DEF IInv, fileVars, candVars
<1>1. CASE \E k \in Keys : LateDelete(k)
    BY <1>1 DEF LateDelete, TypeOK, Content
<1>2. CASE ScheduleRescan \/ \E i \in JobIds : Exhaust(i) \/ Retry(i)
    <2>1. job' \in [JobIds -> JobRow]
        BY <1>2 DEF ScheduleRescan, Exhaust, Retry, TypeOK, JobRow, Queued
    <2>2. UNCHANGED <<fileVars, candVars, cleanup, store, copying, req, work>>
        BY <1>2 DEF ScheduleRescan, Exhaust, Retry
    <2>3. QED
        BY <2>1, <2>2 DEF TypeOK, JobRow
<1>3. CASE ScheduleCleanup
    <2>1. PICK batch \in SUBSET {f \in Files : NeedsCheck(f)} :
              /\ \A f \in batch : FreeSlots(f) # {}
              /\ \E keys \in [batch -> SUBSET Keys] :
                   LET new == UNION {keys[f] : f \in batch}
                       start == {f \in batch : /\ MayEnqueue(f)
                                               /\ \E k \in KeysOf(f) : Register(new)[k] = "registered"}
                   IN  /\ cleanup' = Register(new)
                       /\ job' = [i \in JobIds |->
                              IF i \in {NewJob(f) : f \in start} THEN Queued ELSE job[i]]
                       /\ cleanupJob' = [f \in Files |->
                              IF f \in start THEN NewJob(f) ELSE cleanupJob[f]]
              /\ state' = [f \in Files |-> IF f \in batch THEN Checked(f) ELSE state[f]]
        BY <1>3 DEF ScheduleCleanup
    <2>2. PICK keys \in [batch -> SUBSET Keys] :
              LET new == UNION {keys[f] : f \in batch}
                  start == {f \in batch : /\ MayEnqueue(f)
                                          /\ \E k \in KeysOf(f) : Register(new)[k] = "registered"}
              IN  /\ cleanup' = Register(new)
                  /\ job' = [i \in JobIds |->
                         IF i \in {NewJob(f) : f \in start} THEN Queued ELSE job[i]]
                  /\ cleanupJob' = [f \in Files |->
                         IF f \in start THEN NewJob(f) ELSE cleanupJob[f]]
        BY <2>1
    <2>3. state' \in [Files -> FileStates]
        BY <2>1 DEF Checked, TypeOK, FileStates
    <2>4. cleanup' \in [Keys -> {"none", "registered", "deleted"}]
        BY <2>2 DEF Register, TypeOK
    <2>5. job' \in [JobIds -> JobRow]
        BY <2>2 DEF Queued, TypeOK, JobRow
    <2>6. \A f \in batch : NewJob(f) \in Files \X Slots
        BY <2>1, NewJobIs
    <2>7. cleanupJob' \in [Files -> (Files \X Slots) \cup {None}]
        BY <2>2, <2>6 DEF TypeOK
    <2>8. UNCHANGED <<past, readyCand, candVars, store, copying, req, work>>
        BY <1>3 DEF ScheduleCleanup
    <2>9. QED
        BY <2>3, <2>4, <2>5, <2>7, <2>8 DEF TypeOK, JobRow
<1>4. QED
    BY <1>1, <1>2, <1>3, FileTypes, RequestTypes, WorkerTypes DEF Next

(***************************************************************************)
(* Steps that leave states, candidates and the list of keys alone.         *)
(***************************************************************************)

\* What such a step owes: it damages no candidate that is not listed, verifies only what is
\* stored, keeps expired uploads expired and gives workers only listed keys.
LEMMA RowsRest ==
    ASSUME IInv, TypeOK', UNCHANGED <<state, readyCand, of, cstate, cleanup>>,
           \A f \in Files : past[f] => past'[f],
           \A c \in Candidates : store[c] = "good" /\ cleanup[c] = "none" => store'[c] = "good",
           \A c \in Candidates : req'[c] = "unused" <=> req[c] = "unused",
           \A c \in Candidates : req'[c] = "verified" => req[c] = "verified" \/ store'[c] = "good",
           HeldIsListed'
    PROVE  IInv'
<1> USE DEF IInv
<1>1. Candidacy'
    BY DEF Candidacy
<1>2. DeletableIsDead'
    BY DEF PublicationIsSound, DeletableIsDead, Serves, StagingUseless, Discarded, Keys
<1>3. \A f \in Files : state[f] = "ready" => cleanup[readyCand[f]] = "none" /\ readyCand[f] \in Candidates
    BY DEF TypeOK, Candidacy, PublicationIsSound, DeletableIsDead, Serves, Keys
<1>4. ReadyObjectIntact' /\ OnePublication'
    BY <1>3 DEF PublicationIsSound, ReadyObjectIntact, OnePublication
<1>5. VerifiedIsStored'
    <2>1. \A c \in Candidates : Publishable(c) => cleanup[c] = "none"
        BY DEF PublicationIsSound, DeletableIsDead, Publishable, Keys
    <2>2. QED
        BY <2>1 DEF VerifiedIsStored, Publishable
<1>6. DeletedIsScrubbed'
    BY DEF DeletedIsScrubbed, KeysOf
<1>7. QED
    BY <1>1, <1>2, <1>4, <1>5, <1>6 DEF PublicationIsSound

\* Uploads, requests that have not published yet, and effects of the store.
LEMMA QuietRequests ==
    ASSUME IInv, TypeOK',
           \/ \E f \in Files, content \in Uploads : Put(f, content)
           \/ \E f \in Files : Expire(f)
           \/ \E c \in Candidates :
                  SendCopy(c) \/ CopyLands(c) \/ CheckCopy(c) \/ RequestFails(c)
                      \/ RequestVanishes(c) \/ PublishRefused(c)
           \/ ScheduleRescan
           \/ \E i \in JobIds : Exhaust(i) \/ Retry(i)
           \/ \E k \in Keys : LateDelete(k)
    PROVE  IInv'
<1> USE DEF IInv, fileVars, candVars, Keys
<1>1. CASE \E f \in Files, content \in Uploads : Put(f, content)
    BY <1>1, RowsRest, FilesAssumption DEF Put, HeldIsListed, TypeOK
<1>2. CASE \E f \in Files : Expire(f)
    BY <1>2, RowsRest DEF Expire, HeldIsListed, TypeOK
<1>3. CASE \E c \in Candidates : SendCopy(c) \/ RequestFails(c) \/ RequestVanishes(c) \/ PublishRefused(c)
    BY <1>3, RowsRest DEF SendCopy, RequestFails, RequestVanishes, PublishRefused, HeldIsListed, TypeOK
<1>4. CASE \E c \in Candidates : CopyLands(c)
    BY <1>4, RowsRest DEF CopyLands, HeldIsListed, TypeOK
<1>5. CASE \E c \in Candidates : CheckCopy(c)
    BY <1>5, RowsRest DEF CheckCopy, HeldIsListed, TypeOK
<1>6. CASE ScheduleRescan \/ \E i \in JobIds : Exhaust(i) \/ Retry(i)
    BY <1>6, RowsRest DEF ScheduleRescan, Exhaust, Retry, HeldIsListed, TypeOK
<1>7. CASE \E k \in Keys : LateDelete(k)
    BY <1>7, RowsRest DEF LateDelete, HeldIsListed, TypeOK
<1>8. QED
    BY <1>1, <1>2, <1>3, <1>4, <1>5, <1>6, <1>7

\* Workers that register, record and close nothing.
LEMMA QuietWorkers ==
    ASSUME IInv, TypeOK', NEW w \in Workers,
           \/ \E i \in JobIds : Claim(w, i)
           \/ RescanPlan(w) \/ \E k \in Keys : DeleteObject(w, k)
           \/ RescanFinish(w) \/ LoseLease(w) \/ WorkerCrashes(w)
           \/ \E status \in {"open", "failed"} : AttemptFails(w, status)
    PROVE  IInv'
<1> USE DEF IInv, fileVars, candVars
<1>0. /\ work \in [Workers -> WorkRow] /\ work[w] \in WorkRow
      /\ Idle.targets = {} /\ Idle.phase = "idle"
    BY DEF TypeOK, WorkRow, Idle
<1>1. ASSUME NEW row, work' = [work EXCEPT ![w] = row], UNCHANGED cleanup,
             \A k \in row.targets : cleanup[k] # "none",
             row.phase = "record" => row.at \in Keys /\ cleanup[row.at] # "none"
      PROVE  HeldIsListed'
    BY <1>0, <1>1 DEF HeldIsListed
<1>2. CASE \E i \in JobIds : Claim(w, i)
    <2>1. PICK i \in JobIds : Claim(w, i)
        BY <1>2
    <2> DEFINE row == [Idle EXCEPT !.job = i, !.phase = "plan"]
    <2>2. row.targets = {} /\ row.phase = "plan"
        BY DEF Idle
    <2>3. work' = [work EXCEPT ![w] = row]
        BY <2>1 DEF Claim
    <2> HIDE DEF row
    <2>4. HeldIsListed'
        BY <2>1, <2>2, <2>3, <1>1 DEF Claim
    <2>5. QED
        BY <2>1, <2>4, RowsRest DEF Claim
<1>3. CASE RescanPlan(w)
    <2>1. PICK keys \in Batches({k \in Keys : cleanup[k] = "deleted" /\ ~Serves(k)}) :
              work' = [work EXCEPT ![w].phase = IF keys = {} THEN "finish" ELSE "delete",
                                   ![w].targets = keys]
        BY <1>3 DEF RescanPlan
    <2> DEFINE row == [work[w] EXCEPT !.phase = IF keys = {} THEN "finish" ELSE "delete",
                                      !.targets = keys]
    <2>2. row.targets = keys /\ row.phase # "record"
        BY <1>0 DEF WorkRow
    <2>3. work' = [work EXCEPT ![w] = row]
        BY <2>1, <1>0
    <2>4. \A k \in keys : cleanup[k] # "none"
        BY <2>1 DEF Batches
    <2> HIDE DEF row
    <2>5. HeldIsListed'
        BY <2>2, <2>3, <2>4, <1>1, <1>3 DEF RescanPlan
    <2>6. QED
        BY <2>5, <1>3, RowsRest DEF RescanPlan
<1>4. CASE \E k \in Keys : DeleteObject(w, k)
    <2>1. PICK k \in Keys : DeleteObject(w, k)
        BY <1>4
    <2>2. k \in work[w].targets /\ cleanup[k] # "none"
        BY <2>1 DEF DeleteObject, HeldIsListed
    <2> DEFINE row == [work[w] EXCEPT !.phase = "record", !.at = k]
    <2>3. row.targets = work[w].targets /\ row.at = k
        BY <1>0 DEF WorkRow
    <2>4. work' = [work EXCEPT ![w] = row]
        BY <2>1, <1>0 DEF DeleteObject
    <2> HIDE DEF row
    <2>5. HeldIsListed'
        <3>1. \A j \in row.targets : cleanup[j] # "none"
            BY <2>3 DEF HeldIsListed
        <3>2. row.at \in Keys /\ cleanup[row.at] # "none"
            BY <2>2, <2>3
        <3>3. QED
            BY <3>1, <3>2, <2>1, <2>4, <1>1 DEF DeleteObject
    <2>6. \A c \in Candidates : store[c] = "good" /\ cleanup[c] = "none" => store'[c] = "good"
        BY <2>1, <2>2 DEF DeleteObject, TypeOK, Keys
    <2>7. QED
        BY <2>1, <2>5, <2>6, RowsRest DEF DeleteObject
<1>5. CASE RescanFinish(w) \/ LoseLease(w) \/ WorkerCrashes(w)
              \/ \E status \in {"open", "failed"} : AttemptFails(w, status)
    <2>1. work' = [work EXCEPT ![w] = Idle]
          /\ UNCHANGED <<fileVars, candVars, cleanup, store, copying, req>>
        BY <1>5 DEF RescanFinish, LoseLease, WorkerCrashes, AttemptFails
    <2>2. HeldIsListed'
        BY <2>1, <1>0, <1>1
    <2>3. QED
        BY <2>1, <2>2, RowsRest
<1>6. QED
    BY <1>2, <1>3, <1>4, <1>5

(***************************************************************************)
(* Steps of requests that write states or candidates.                      *)
(***************************************************************************)
LEMMA BusyRequests ==
    ASSUME IInv, TypeOK',
           \/ \E f \in Files : Start(f) \/ PlanExpired(f)
           \/ \E c \in Candidates :
                  \/ \E f \in Files : PlanCompletion(c, f)
                  \/ Abandon(c) \/ Adopt(c) \/ PublishTooLate(c) \/ PublishExisting(c)
    PROVE  IInv'
<1> USE FilesAssumption DEF IInv
<1>0. /\ state \in [Files -> FileStates] /\ readyCand \in [Files -> Candidates \cup {None}]
      /\ of \in [Candidates -> Files \cup {None}] /\ cstate \in [Candidates -> CandStates]
      /\ req \in [Candidates -> Phases] /\ None \notin Files
    BY DEF TypeOK
<1>1. CASE \E f \in Files : Start(f) \/ PlanExpired(f)
    <2>1. PICK f \in Files : Start(f) \/ PlanExpired(f)
        BY <1>1
    <2>2. /\ UNCHANGED <<past, readyCand, of, cstate, cleanup, store, req, work>>
          /\ \A g \in Files \ {f} : state'[g] = state[g]
          /\ \/ state[f] = "none" /\ state'[f] = "pending_upload"
             \/ state[f] = "pending_upload" /\ state'[f] = "expired"
        BY <2>1, <1>0 DEF Start, PlanExpired, candVars
    <2>3. Candidacy'
        BY <2>2, <1>0 DEF Candidacy
    <2>4. HeldIsListed'
        BY <2>2 DEF HeldIsListed
    <2>5. VerifiedIsStored'
        BY <2>2, <1>0 DEF VerifiedIsStored, Publishable, Candidacy
    <2>6. ReadyObjectIntact' /\ OnePublication'
        BY <2>2 DEF PublicationIsSound, ReadyObjectIntact, OnePublication
    <2>7. DeletableIsDead'
        BY <2>2, <1>0 DEF PublicationIsSound, DeletableIsDead, Serves, StagingUseless, Discarded,
                          Candidacy, Keys
    <2>8. DeletedIsScrubbed'
        BY <2>2 DEF DeletedIsScrubbed, KeysOf
    <2>9. QED
        BY <2>3, <2>4, <2>5, <2>6, <2>7, <2>8 DEF PublicationIsSound
<1>2. CASE \E c \in Candidates, f \in Files : PlanCompletion(c, f)
    <2>1. PICK c \in Candidates, f \in Files : PlanCompletion(c, f)
        BY <1>2
    <2>2. /\ UNCHANGED <<state, past, readyCand, cleanup, store, work>>
          /\ \A d \in Candidates \ {c} : of'[d] = of[d] /\ cstate'[d] = cstate[d] /\ req'[d] = req[d]
          /\ of'[c] = f /\ cstate'[c] = "copying" /\ req'[c] = "head"
          /\ state[f] = "pending_upload" /\ req[c] = "unused"
        BY <2>1, <1>0 DEF PlanCompletion, fileVars
    <2>3. of[c] = None /\ cstate[c] = "none" /\ cleanup[c] = "none"
        BY <2>2 DEF Candidacy
    <2>4. Candidacy'
        BY <2>2, <2>3, <1>0 DEF Candidacy
    <2>5. HeldIsListed'
        BY <2>2 DEF HeldIsListed
    <2>6. VerifiedIsStored'
        BY <2>2 DEF VerifiedIsStored, Publishable
    <2>7. ReadyObjectIntact' /\ OnePublication'
        BY <2>2 DEF PublicationIsSound, ReadyObjectIntact, OnePublication
    <2>8. DeletableIsDead'
        BY <2>2, <2>3 DEF PublicationIsSound, DeletableIsDead, Serves, StagingUseless, Discarded
    <2>9. DeletedIsScrubbed'
        BY <2>2 DEF DeletedIsScrubbed, KeysOf
    <2>10. QED
        BY <2>4, <2>5, <2>6, <2>7, <2>8, <2>9 DEF PublicationIsSound
<1>3. CASE \E c \in Candidates : Adopt(c)
    <2>1. PICK c \in Candidates : Adopt(c)
        BY <1>3
    <2> DEFINE f == of[c]
    <2>2. f \in Files /\ readyCand[f] = None
        BY <2>1, <1>0 DEF Adopt, Candidacy
    <2>3. /\ UNCHANGED <<past, of, cleanup, store, work>>
          /\ state[f] = "pending_upload" /\ state'[f] = "ready" /\ readyCand'[f] = c
          /\ \A g \in Files \ {f} : state'[g] = state[g] /\ readyCand'[g] = readyCand[g]
          /\ req[c] = "verified" /\ cstate[c] = "copying" /\ cstate'[c] = "adopted"
          /\ \A d \in Candidates \ {c} :
                 /\ req'[d] = req[d]
                 /\ cstate'[d] = IF of[d] = f /\ cstate[d] = "copying" THEN "abandoned" ELSE cstate[d]
          /\ req'[c] = "done"
        BY <2>1, <2>2, <1>0 DEF Adopt
    <2>4. cleanup[c] = "none" /\ store[c] = "good"
        BY <2>2, <2>3, <1>0 DEF PublicationIsSound, DeletableIsDead, Keys, VerifiedIsStored, Publishable
    <2> HIDE DEF f
    <2>5. of[c] = f /\ \A d \in Candidates : of[d] = f => cstate[d] # "adopted" /\ cstate[d] # "none"
        BY <2>2, <2>3, <1>0 DEF Candidacy, f
    <2>6. Candidacy'
        BY <2>2, <2>3, <2>4, <2>5, <1>0 DEF Candidacy
    <2>7. HeldIsListed'
        BY <2>3 DEF HeldIsListed
    <2>8. VerifiedIsStored'
        BY <2>2, <2>3, <1>0 DEF VerifiedIsStored, Publishable
    <2>9. ReadyObjectIntact'
        BY <2>2, <2>3, <2>4 DEF PublicationIsSound, ReadyObjectIntact
    <2>10. OnePublication'
        <3>1. ASSUME NEW g \in Files, state'[g] = "ready", NEW d \in Candidates, of[d] = g
              PROVE  cstate'[d] \in (IF d = readyCand'[g] THEN {"adopted"} ELSE {"abandoned", "deleted"})
            BY <3>1, <2>2, <2>3, <2>5, <1>0 DEF PublicationIsSound, OnePublication, CandStates
        <3>2. QED
            BY <3>1, <2>3 DEF OnePublication
    <2>11. DeletableIsDead'
        <3>1. ASSUME NEW k \in Keys, cleanup[k] # "none"
              PROVE  /\ ~Serves(k)'
                     /\ k \in Candidates => ~(state'[of[k]] = "pending_upload" /\ cstate'[k] = "copying")
                     /\ k \in Files => StagingUseless(k, state[k])'
            <4>1. /\ \A g \in Files : state[g] = "ready" => readyCand[g] # k
                  /\ k \in Files => Discarded(state[k]) \/ (state[k] = "ready" /\ past[k])
                  /\ k \in Candidates => /\ ~(state[of[k]] = "pending_upload" /\ cstate[k] = "copying")
                                         /\ of[k] \in Files
                BY <3>1, <1>0 DEF PublicationIsSound, DeletableIsDead, Serves, StagingUseless, Candidacy
            <4>2. ~Serves(k)'
                BY <3>1, <4>1, <2>2, <2>3, <2>4 DEF Serves
            <4>3. k \in Candidates => ~(state'[of[k]] = "pending_upload" /\ cstate'[k] = "copying")
                BY <4>1, <2>2, <2>3, <1>0
            <4>4. k \in Files => StagingUseless(k, state[k])'
                BY <4>1, <2>2, <2>3 DEF StagingUseless, Discarded
            <4>5. QED
                BY <4>2, <4>3, <4>4
        <3>2. QED
            BY <3>1, <2>3 DEF DeletableIsDead
    <2>12. DeletedIsScrubbed'
        BY <2>3 DEF DeletedIsScrubbed, KeysOf
    <2>13. QED
        BY <2>6, <2>7, <2>8, <2>9, <2>10, <2>11, <2>12 DEF PublicationIsSound
<1>4. CASE \E c \in Candidates : Abandon(c) \/ PublishTooLate(c) \/ PublishExisting(c)
    <2>1. PICK c \in Candidates : Abandon(c) \/ PublishTooLate(c) \/ PublishExisting(c)
        BY <1>4
    <2> DEFINE f == of[c]
    <2>2. req[c] # "unused" /\ f \in Files
        BY <2>1, <1>0 DEF Abandon, PublishTooLate, PublishExisting, Candidacy
    <2>3. /\ UNCHANGED <<past, readyCand, of, cleanup, store, work>>
          /\ \A g \in Files \ {f} : state'[g] = state[g]
          /\ \/ state'[f] = state[f]
             \/ state[f] = "pending_upload" /\ state'[f] \in {"rejected", "expired"}
          /\ \A d \in Candidates \ {c} : cstate'[d] = cstate[d] /\ req'[d] = req[d]
          /\ \/ cstate'[c] = cstate[c]
             \/ cstate[c] = "copying" /\ cstate'[c] = "abandoned"
          /\ req'[c] = "done"
        BY <2>1, <2>2, <1>0 DEF Abandon, PublishTooLate, PublishExisting, fileVars
    <2> HIDE DEF f
    <2>4. Candidacy'
        BY <2>2, <2>3, <1>0 DEF Candidacy
    <2>5. HeldIsListed'
        BY <2>3 DEF HeldIsListed
    <2>6. VerifiedIsStored'
        BY <2>3, <1>0 DEF VerifiedIsStored, Publishable
    <2>7. ReadyObjectIntact'
        BY <2>3 DEF PublicationIsSound, ReadyObjectIntact
    <2>8. OnePublication'
        BY <2>3, <1>0 DEF PublicationIsSound, OnePublication
    <2>9. DeletableIsDead'
        <3>1. ASSUME NEW k \in Keys, cleanup[k] # "none"
              PROVE  /\ ~Serves(k)'
                     /\ k \in Candidates => ~(state'[of[k]] = "pending_upload" /\ cstate'[k] = "copying")
                     /\ k \in Files => StagingUseless(k, state[k])'
            <4>1. /\ \A g \in Files : state[g] = "ready" => readyCand[g] # k
                  /\ k \in Files => Discarded(state[k]) \/ (state[k] = "ready" /\ past[k])
                  /\ k \in Candidates => /\ ~(state[of[k]] = "pending_upload" /\ cstate[k] = "copying")
                                         /\ of[k] \in Files
                BY <3>1, <1>0 DEF PublicationIsSound, DeletableIsDead, Serves, StagingUseless, Candidacy
            <4>2. ~Serves(k)'
                BY <3>1, <4>1, <2>2, <2>3 DEF Serves
            <4>3. k \in Candidates => ~(state'[of[k]] = "pending_upload" /\ cstate'[k] = "copying")
                BY <4>1, <2>2, <2>3, <1>0
            <4>4. k \in Files => StagingUseless(k, state[k])'
                BY <4>1, <2>2, <2>3 DEF StagingUseless, Discarded
            <4>5. QED
                BY <4>2, <4>3, <4>4
        <3>2. QED
            BY <3>1, <2>3 DEF DeletableIsDead
    <2>10. DeletedIsScrubbed'
        BY <2>3 DEF DeletedIsScrubbed, KeysOf
    <2>11. QED
        BY <2>4, <2>5, <2>6, <2>7, <2>8, <2>9, <2>10 DEF PublicationIsSound
<1>5. QED
    BY <1>1, <1>2, <1>3, <1>4

(***************************************************************************)
(* Deletion and cleanup.                                                   *)
(***************************************************************************)

\* What register_locations inserts is new to the list and useless for the file.
LEMMA Registered ==
    ASSUME NEW f \in Files, NEW s, NEW new \in Registrations(f, s), NEW k \in new
    PROVE  /\ k \in Keys /\ cleanup[k] = "none"
           /\ \/ k = f /\ StagingUseless(f, s)
              \/ k \in Candidates /\ of[k] = f /\ CandidateUseless(k, s)
<1> DEFINE staging == IF StagingUseless(f, s) /\ cleanup[f] = "none" THEN {f} ELSE {}
           cands == {c \in Candidates : /\ of[c] = f /\ cleanup[c] = "none" /\ CandidateUseless(c, s)}
<1>1. PICK batch \in Batches(cands) : new = staging \cup batch
    BY DEF Registrations
<1>2. batch \subseteq cands
    BY <1>1 DEF Batches
<1>3. k \in staging \/ k \in cands
    BY <1>1, <1>2
<1>4. QED
    BY <1>3 DEF Keys

\* When nothing of a discarded file waits after a registration, nothing was left to register.
LEMMA NothingLeft ==
    ASSUME TypeOK, NEW f \in Files, NEW s, Discarded(s), NEW new \in Registrations(f, s),
           \A k \in KeysOf(f) : Register(new)[k] # "registered"
    PROVE  \A k \in KeysOf(f) : Register(new)[k] = "deleted"
<1> DEFINE staging == IF StagingUseless(f, s) /\ cleanup[f] = "none" THEN {f} ELSE {}
           cands == {c \in Candidates : /\ of[c] = f /\ cleanup[c] = "none" /\ CandidateUseless(c, s)}
<1>1. PICK batch \in Batches(cands) : new = staging \cup batch
    BY DEF Registrations
<1>2. batch \subseteq cands
    BY <1>1 DEF Batches
<1>3. batch = {}
    <2>1. \A c \in cands : c \in KeysOf(f) /\ c \in Keys
        BY DEF KeysOf, Keys
    <2>2. \A c \in batch : Register(new)[c] = "registered"
        BY <1>1, <1>2, <2>1 DEF Register
    <2>3. QED
        BY <1>2, <2>1, <2>2
<1>4. cands = {}
    <2>1. CASE Cardinality(cands) <= BatchLimit
        BY <1>1, <1>3, <2>1 DEF Batches
    <2>2. CASE ~(Cardinality(cands) <= BatchLimit)
        <3>1. Cardinality(batch) = BatchLimit
            BY <1>1, <2>2 DEF Batches
        <3>2. Cardinality({}) = 0
            BY FS_EmptySet
        <3>3. QED
            BY <1>3, <3>1, <3>2, FilesAssumption
    <2>3. QED
        BY <2>1, <2>2
<1>5. ASSUME NEW k \in KeysOf(f) PROVE Register(new)[k] = "deleted"
    <2>1. k \in Keys /\ Register(new)[k] = IF k \in new THEN "registered" ELSE cleanup[k]
        BY DEF KeysOf, Keys, Register
    <2>2. k \notin new /\ cleanup[k] # "registered"
        BY <2>1
    <2>3. CASE k = f
        <3>1. k \notin staging
            BY <1>1, <2>2
        <3>2. cleanup[k] # "none"
            BY <2>3, <3>1 DEF StagingUseless
        <3>3. QED
            BY <2>1, <2>2, <3>2 DEF TypeOK
    <2>4. CASE k \in Candidates /\ of[k] = f
        <3>1. CandidateUseless(k, s)
            BY DEF CandidateUseless
        <3>2. cleanup[k] # "none"
            BY <1>4, <2>4, <3>1
        <3>3. QED
            BY <2>1, <2>2, <3>2 DEF TypeOK
    <2>5. QED
        BY <2>3, <2>4 DEF KeysOf
<1>6. QED
    BY <1>5

\* A step that registers keys and moves files on towards their deletion.
LEMMA Registers ==
    ASSUME IInv, TypeOK', UNCHANGED <<past, readyCand, of, cstate, store, req>>,
           NEW new \in SUBSET Keys, cleanup' = Register(new),
           \A k \in new : /\ cleanup[k] = "none"
                          /\ \/ k \in Files /\ StagingUseless(k, state'[k])
                             \/ /\ k \in Candidates /\ of[k] \in Files
                                /\ CandidateUseless(k, state'[of[k]]),
           \A f \in Files :
               \/ state'[f] = state[f]
               \/ state[f] = "pending_upload" /\ state'[f] = "expired"
               \/ state[f] \notin {"none", "deleting", "deleted"} /\ state'[f] = "deleting"
               \/ /\ state[f] = "deleting" /\ state'[f] = "deleted"
                  /\ \A k \in KeysOf(f) : cleanup'[k] = "deleted",
           HeldIsListed'
    PROVE  IInv'
<1> USE FilesAssumption DEF IInv
<1>0. /\ state \in [Files -> FileStates] /\ readyCand \in [Files -> Candidates \cup {None}]
      /\ of \in [Candidates -> Files \cup {None}] /\ cstate \in [Candidates -> CandStates]
      /\ None \notin Files
    BY DEF TypeOK
<1>1. \A k \in Keys : cleanup'[k] = IF k \in new THEN "registered" ELSE cleanup[k]
    BY DEF Register
<1>2. Candidacy'
    <2>1. ASSUME NEW c \in Candidates, c \in new PROVE req[c] # "unused"
        BY <2>1, <1>0 DEF Candidacy
    <2>2. QED
        BY <2>1, <1>0, <1>1 DEF Candidacy, Keys
<1>3. VerifiedIsStored'
    BY <1>0 DEF VerifiedIsStored, Publishable
<1>4. \A f \in Files : state'[f] = "ready" => state[f] = "ready"
    OBVIOUS
<1>5. ReadyObjectIntact' /\ OnePublication'
    BY <1>4 DEF PublicationIsSound, ReadyObjectIntact, OnePublication
<1>6. DeletableIsDead'
    <2>1. ASSUME NEW k \in Keys, cleanup'[k] # "none"
          PROVE  /\ ~Serves(k)'
                 /\ k \in Candidates => ~(state'[of[k]] = "pending_upload" /\ cstate[k] = "copying")
                 /\ k \in Files => StagingUseless(k, state[k])'
        <3>1. CASE k \in new
            <4>1. CASE k \in Files /\ StagingUseless(k, state'[k])
                BY <4>1, <1>0 DEF Serves, StagingUseless
            <4>2. CASE k \in Candidates /\ of[k] \in Files /\ CandidateUseless(k, state'[of[k]])
                <5>1. \A f \in Files : state'[f] = "ready" /\ readyCand[f] = k => of[k] = f
                    BY <4>2, <1>0, <1>4 DEF Candidacy
                <5>2. ~Serves(k)'
                    BY <4>2, <5>1 DEF Serves, CandidateUseless, Discarded
                <5>3. ~(state'[of[k]] = "pending_upload" /\ cstate[k] = "copying")
                    BY <4>2 DEF CandidateUseless, Discarded
                <5>4. QED
                    BY <4>2, <5>2, <5>3
            <4>3. QED
                BY <3>1, <4>1, <4>2
        <3>2. CASE k \notin new
            <4>1. cleanup[k] # "none"
                BY <3>2, <2>1, <1>1
            <4>2. /\ \A g \in Files : state[g] = "ready" => readyCand[g] # k
                  /\ k \in Files => Discarded(state[k]) \/ (state[k] = "ready" /\ past[k])
                  /\ k \in Candidates => /\ ~(state[of[k]] = "pending_upload" /\ cstate[k] = "copying")
                                         /\ of[k] \in Files
                BY <4>1, <1>0 DEF PublicationIsSound, DeletableIsDead, Serves, StagingUseless, Candidacy
            <4>3. QED
                BY <4>2, <1>0, <1>4 DEF Serves, StagingUseless, Discarded
        <3>3. QED
            BY <3>1, <3>2
    <2>2. QED
        BY <2>1 DEF DeletableIsDead
<1>7. DeletedIsScrubbed'
    <2>1. ASSUME NEW f \in Files, state'[f] = "deleted", NEW k \in KeysOf(f)
          PROVE  cleanup'[k] = "deleted"
        <3>1. k \in Keys
            BY DEF KeysOf, Keys
        <3>2. CASE state[f] = "deleted"
            BY <3>1, <3>2, <1>1 DEF DeletedIsScrubbed
        <3>3. QED
            BY <2>1, <3>2
    <2>2. QED
        BY <2>1 DEF DeletedIsScrubbed, KeysOf
<1>8. QED
    BY <1>2, <1>3, <1>5, <1>6, <1>7 DEF PublicationIsSound

LEMMA Deletion ==
    ASSUME IInv, TypeOK', (\E f \in Files : MarkDeleting(f)) \/ ScheduleCleanup
    PROVE  IInv'
<1> USE FilesAssumption DEF IInv
<1>0. state \in [Files -> FileStates] /\ cleanup \in [Keys -> {"none", "registered", "deleted"}]
    BY DEF TypeOK
<1>1. CASE \E f \in Files : MarkDeleting(f)
    <2>1. PICK f \in Files : MarkDeleting(f)
        BY <1>1
    <2>2. PICK new \in Registrations(f, "deleting") : cleanup' = Register(new)
        BY <2>1 DEF MarkDeleting
    <2>3. /\ UNCHANGED <<past, readyCand, of, cstate, store, req, work>>
          /\ state' = [state EXCEPT ![f] = "deleting"] /\ state[f] \notin {"none", "deleting", "deleted"}
        BY <2>1 DEF MarkDeleting, candVars
    <2>4. ASSUME NEW k \in new
          PROVE  /\ k \in Keys /\ cleanup[k] = "none"
                 /\ \/ k \in Files /\ StagingUseless(k, state'[k])
                    \/ k \in Candidates /\ of[k] \in Files /\ CandidateUseless(k, state'[of[k]])
        BY <1>0, <2>3, Registered
    <2>5. HeldIsListed'
        BY <1>0, <2>2, <2>3 DEF HeldIsListed, Register, TypeOK
    <2>6. new \in SUBSET Keys
        BY <2>4
    <2>7. QED
        BY <1>0, <2>2, <2>3, <2>4, <2>5, <2>6, Registers
<1>2. CASE ScheduleCleanup
    <2>1. PICK batch \in SUBSET {f \in Files : NeedsCheck(f)} :
              /\ \E keys \in [batch -> SUBSET Keys] :
                     /\ \A f \in batch : keys[f] \in Registrations(f, Checked(f))
                     /\ cleanup' = Register(UNION {keys[f] : f \in batch})
              /\ state' = [f \in Files |-> IF f \in batch THEN Checked(f) ELSE state[f]]
        BY <1>2, ZenonT(60) DEF ScheduleCleanup
    <2>2. PICK keys \in [batch -> SUBSET Keys] :
              /\ \A f \in batch : keys[f] \in Registrations(f, Checked(f))
              /\ cleanup' = Register(UNION {keys[f] : f \in batch})
        BY <2>1
    <2> DEFINE new == UNION {keys[f] : f \in batch}
    <2>3. UNCHANGED <<past, readyCand, of, cstate, store, req, work>>
        BY <1>2 DEF ScheduleCleanup, candVars
    <2>4. \A f \in Files : \/ state'[f] = state[f]
                           \/ state[f] = "pending_upload" /\ state'[f] = "expired"
        BY <2>1, <1>0 DEF Checked
    <2>5. ASSUME NEW k \in new
          PROVE  /\ k \in Keys /\ cleanup[k] = "none"
                 /\ \/ k \in Files /\ StagingUseless(k, state'[k])
                    \/ k \in Candidates /\ of[k] \in Files /\ CandidateUseless(k, state'[of[k]])
        <3>1. PICK f \in batch : k \in keys[f]
            BY <2>5
        <3>2. f \in Files /\ state'[f] = Checked(f) /\ keys[f] \in Registrations(f, Checked(f))
            BY <2>1, <2>2, <3>1
        <3>3. QED
            BY <3>1, <3>2, Registered
    <2>6. cleanup' = Register(new)
        BY <2>2
    <2> HIDE DEF new
    <2>7. HeldIsListed'
        BY <1>0, <2>3, <2>6 DEF HeldIsListed, Register, TypeOK
    <2>8. new \in SUBSET Keys
        BY <2>5
    <2>9. QED
        BY <2>3, <2>4, <2>5, <2>6, <2>7, <2>8, Registers
<1>3. QED
    BY <1>1, <1>2

LEMMA Cleaning ==
    ASSUME IInv, TypeOK', NEW w \in Workers, CleanupPlan(w)
    PROVE  IInv'
<1> USE FilesAssumption DEF IInv
<1> DEFINE f == work[w].job[1]
<1>0. /\ f \in Files /\ state \in [Files -> FileStates]
      /\ cleanup \in [Keys -> {"none", "registered", "deleted"}]
      /\ work \in [Workers -> WorkRow] /\ work[w] \in WorkRow
    BY Busy DEF CleanupPlan, TypeOK, WorkRow
<1>1. PICK new \in Registrations(f, state[f]) :
          LET waiting == {k \in KeysOf(f) : Register(new)[k] = "registered"}
          IN  /\ cleanup' = Register(new)
              /\ \/ /\ waiting # {}
                    /\ \E keys \in Batches(waiting) :
                          work' = [work EXCEPT ![w].phase = "delete", ![w].targets = keys]
                    /\ UNCHANGED <<state, job>>
                 \/ /\ waiting = {}
                    /\ state' = [state EXCEPT ![f] = IF @ = "deleting" THEN "deleted" ELSE @]
                    /\ job' = [job EXCEPT ![work[w].job] = Succeeded]
                    /\ work' = [work EXCEPT ![w] = Idle]
    BY DEF CleanupPlan
<1> DEFINE waiting == {k \in KeysOf(f) : Register(new)[k] = "registered"}
<1>2. UNCHANGED <<past, readyCand, of, cstate, store, req>>
    BY DEF CleanupPlan, candVars
<1> HIDE DEF f
<1>3. ASSUME NEW k \in new
      PROVE  /\ k \in Keys /\ cleanup[k] = "none"
             /\ \/ k = f /\ StagingUseless(f, state[f])
                \/ k \in Candidates /\ of[k] = f /\ CandidateUseless(k, state[f])
    BY <1>0, <1>1, Registered
<1>4. new \in SUBSET Keys /\ cleanup' = Register(new)
    BY <1>1, <1>3
<1>5. \A k \in Keys : cleanup[k] # "none" => cleanup'[k] # "none"
    BY <1>0, <1>4 DEF Register
<1>6. CASE waiting # {}
    <2>1. UNCHANGED state
        BY <1>1, <1>6
    <2>2. PICK keys \in Batches(waiting) :
              work' = [work EXCEPT ![w].phase = "delete", ![w].targets = keys]
        BY <1>1, <1>6
    <2> DEFINE row == [work[w] EXCEPT !.phase = "delete", !.targets = keys]
    <2>3. work' = [work EXCEPT ![w] = row] /\ row.targets = keys /\ row.phase = "delete"
        BY <1>0, <2>2 DEF WorkRow
    <2>4. \A k \in keys : cleanup'[k] # "none"
        BY <2>2, <1>4 DEF Batches
    <2> HIDE DEF row
    <2>5. HeldIsListed'
        BY <1>0, <1>5, <2>3, <2>4 DEF HeldIsListed, WorkRow
    <2>6. ASSUME NEW k \in new
          PROVE  \/ k \in Files /\ StagingUseless(k, state'[k])
                 \/ k \in Candidates /\ of[k] \in Files /\ CandidateUseless(k, state'[of[k]])
        <3>1. CASE k = f /\ StagingUseless(f, state[f])
            BY <3>1, <1>0, <2>1
        <3>2. CASE k \in Candidates /\ of[k] = f /\ CandidateUseless(k, state[f])
            BY <3>2, <1>0, <2>1
        <3>3. QED
            BY <3>1, <3>2, <1>3
    <2>7. QED
        BY <1>2, <1>3, <1>4, <2>1, <2>5, <2>6, Registers
<1>7. CASE waiting = {}
    <2>1. /\ state' = [state EXCEPT ![f] = IF @ = "deleting" THEN "deleted" ELSE @]
          /\ work' = [work EXCEPT ![w] = Idle]
        BY <1>1, <1>7
    <2>2. \A k \in KeysOf(f) : Register(new)[k] # "registered"
        BY <1>7
    <2>3. state[f] = "deleting" => \A k \in KeysOf(f) : cleanup'[k] = "deleted"
        <3>1. ASSUME state[f] = "deleting" PROVE \A k \in KeysOf(f) : Register(new)[k] = "deleted"
            <4>1. Discarded(state[f])
                BY <3>1 DEF Discarded
            <4>2. QED
                BY <4>1, <1>0, <1>1, <2>2, NothingLeft
        <3>2. QED
            BY <3>1, <1>4
    <2>4. \A g \in Files : \/ state'[g] = state[g]
                           \/ /\ state[g] = "deleting" /\ state'[g] = "deleted"
                              /\ \A k \in KeysOf(g) : cleanup'[k] = "deleted"
        BY <1>0, <2>1, <2>3
    <2>5. ASSUME NEW k \in new
          PROVE  \/ k \in Files /\ StagingUseless(k, state'[k])
                 \/ k \in Candidates /\ of[k] \in Files /\ CandidateUseless(k, state'[of[k]])
        <3>0. state'[f] = state[f] \/ (state[f] = "deleting" /\ state'[f] = "deleted")
            BY <1>0, <2>1
        <3>1. CASE k = f /\ StagingUseless(f, state[f])
            BY <3>0, <3>1, <1>0 DEF StagingUseless, Discarded
        <3>2. CASE k \in Candidates /\ of[k] = f /\ CandidateUseless(k, state[f])
            BY <3>0, <3>2, <1>0 DEF CandidateUseless, Discarded
        <3>3. QED
            BY <3>1, <3>2, <1>3
    <2>6. HeldIsListed'
        BY <1>0, <1>5, <2>1 DEF HeldIsListed, WorkRow, Idle
    <2>7. QED
        BY <1>2, <1>3, <1>4, <2>4, <2>5, <2>6, Registers
<1>8. QED
    BY <1>6, <1>7

LEMMA Recording ==
    ASSUME IInv, TypeOK', NEW w \in Workers, RecordDeleted(w)
    PROVE  IInv'
<1> USE FilesAssumption DEF IInv
<1> DEFINE k == work[w].at
           rest == work[w].targets \ {k}
           row == [work[w] EXCEPT !.phase = NextPhase(work[w].job, rest), !.targets = rest, !.at = None]
<1>0. /\ state \in [Files -> FileStates] /\ readyCand \in [Files -> Candidates \cup {None}]
      /\ of \in [Candidates -> Files \cup {None}] /\ cstate \in [Candidates -> CandStates]
      /\ cleanup \in [Keys -> {"none", "registered", "deleted"}]
      /\ work \in [Workers -> WorkRow] /\ work[w] \in WorkRow
    BY DEF TypeOK, WorkRow
<1>1. k \in Keys /\ cleanup[k] # "none"
    BY DEF RecordDeleted, HeldIsListed
<1>2. /\ UNCHANGED <<state, past, readyCand, of, store, req>>
      /\ cleanup' = [cleanup EXCEPT ![k] = "deleted"]
      /\ cstate' = cstate \/ (k \in Candidates /\ cstate' = [cstate EXCEPT ![k] = "deleted"])
      /\ work' = [work EXCEPT ![w] = row]
    BY DEF RecordDeleted, fileVars
<1>3. row.targets \subseteq work[w].targets /\ row.phase # "record"
    BY <1>0 DEF WorkRow, NextPhase
<1> HIDE DEF k, row
<1>4. HeldIsListed'
    BY <1>0, <1>1, <1>2, <1>3 DEF HeldIsListed, WorkRow
<1>5. Candidacy'
    BY <1>0, <1>1, <1>2 DEF Candidacy, CandStates
<1>6. VerifiedIsStored'
    BY <1>0, <1>2 DEF VerifiedIsStored, Publishable
<1>7. ReadyObjectIntact'
    BY <1>2 DEF PublicationIsSound, ReadyObjectIntact
<1>8. OnePublication'
    <2>1. k \in Candidates => \A f \in Files : state[f] = "ready" => readyCand[f] # k
        BY <1>1 DEF PublicationIsSound, DeletableIsDead, Serves
    <2>2. QED
        BY <1>0, <1>2, <2>1 DEF PublicationIsSound, OnePublication
<1>9. DeletableIsDead'
    BY <1>0, <1>1, <1>2 DEF PublicationIsSound, DeletableIsDead, Serves, StagingUseless
<1>10. DeletedIsScrubbed'
    BY <1>0, <1>1, <1>2 DEF DeletedIsScrubbed, KeysOf, Keys
<1>11. QED
    BY <1>4, <1>5, <1>6, <1>7, <1>8, <1>9, <1>10 DEF PublicationIsSound

LEMMA NextInv == IInv /\ [Next]_vars => IInv'
<1> SUFFICES ASSUME IInv, [Next]_vars PROVE IInv'
    OBVIOUS
<1>1. CASE UNCHANGED vars
    BY <1>1 DEF vars, fileVars, candVars, IInv, TypeOK, Candidacy, HeldIsListed, VerifiedIsStored,
                Publishable, PublicationIsSound, ReadyObjectIntact, OnePublication, DeletableIsDead,
                Serves, StagingUseless, Discarded, DeletedIsScrubbed, KeysOf
<1>2. CASE Next
    <2>1. TypeOK'
        BY <1>2, NextTypes
    <2>2. CASE \E f \in Files : FileStep(f)
        BY <2>1, <2>2, QuietRequests, BusyRequests, Deletion DEF FileStep
    <2>3. CASE \E c \in Candidates : RequestStep(c)
        BY <2>1, <2>3, QuietRequests, BusyRequests DEF RequestStep
    <2>4. CASE \E w \in Workers : WorkerStep(w)
        BY <2>1, <2>4, QuietWorkers, Cleaning, Recording DEF WorkerStep
    <2>5. CASE \/ \E k \in Keys : LateDelete(k)
               \/ \E i \in JobIds : Exhaust(i) \/ Retry(i)
               \/ ScheduleRescan
        BY <2>1, <2>5, QuietRequests
    <2>6. CASE ScheduleCleanup
        BY <2>1, <2>6, Deletion
    <2>7. QED
        BY <1>2, <2>2, <2>3, <2>4, <2>5, <2>6 DEF Next
<1>3. QED
    BY <1>1, <1>2

(***************************************************************************)
(* The theorems.                                                           *)
(***************************************************************************)

\* Types hold in every reachable state.
THEOREM TypeCorrect == Spec => []TypeOK
<1>1. IInv => TypeOK
    BY DEF IInv
<1>2. QED
    BY <1>1, InitInv, NextInv, PTL DEF Spec

\* However many requests, workers and late effects race, a ready file has its one verified
\* object, and cleanup lists nothing that is or may be needed.
THEOREM PublicationCorrect == Spec => []PublicationIsSound
<1>1. IInv => PublicationIsSound
    BY DEF IInv
<1>2. QED
    BY <1>1, InitInv, NextInv, PTL DEF Spec

\* A file is deleted only after each of its keys was, however many rounds and workers that took.
THEOREM ScrubbedCorrect == Spec => []DeletedIsScrubbed
<1>1. IInv => DeletedIsScrubbed
    BY DEF IInv
<1>2. QED
    BY <1>1, InitInv, NextInv, PTL DEF Spec

\* No slow request, expiry or worker changes a verdict, and no key leaves the list.
THEOREM VerdictsCorrect == Spec => VerdictsAreFinal
<1> DEFINE Verdicts ==
        /\ \A f \in Files : state'[f] # state[f] =>
             \/ state[f] = "none" /\ state'[f] = "pending_upload"
             \/ state[f] = "pending_upload"
             \/ state[f] \in {"ready", "rejected", "expired"} /\ state'[f] = "deleting"
             \/ state[f] = "deleting" /\ state'[f] = "deleted"
        /\ \A k \in Keys : cleanup[k] # "none" => cleanup'[k] # "none"
        /\ \A f \in Files : readyCand[f] # None => readyCand'[f] = readyCand[f]
<1>1. ASSUME IInv, Next PROVE Verdicts
    <2>0. /\ state \in [Files -> FileStates] /\ readyCand \in [Files -> Candidates \cup {None}]
          /\ cleanup \in [Keys -> {"none", "registered", "deleted"}]
          /\ \A c \in Candidates : req[c] # "unused" => of[c] \in Files
        BY <1>1 DEF IInv, TypeOK, Candidacy
    <2> USE DEF fileVars, candVars
    <2>1. CASE \E f \in Files : FileStep(f)
        <3>1. PICK f \in Files : FileStep(f)
            BY <2>1
        <3>2. CASE MarkDeleting(f)
            BY <3>2, <2>0 DEF MarkDeleting, Register, FileStates
        <3>3. CASE ~MarkDeleting(f)
            BY <3>1, <3>3, <2>0 DEF FileStep, Start, Put, Expire, PlanExpired
        <3>4. QED
            BY <3>2, <3>3
    <2>2. CASE \E c \in Candidates : RequestStep(c)
        <3>1. PICK c \in Candidates : RequestStep(c)
            BY <2>2
        <3>2. CASE Adopt(c)
            <4>1. of[c] \in Files /\ state[of[c]] = "pending_upload" /\ readyCand[of[c]] = None
                BY <3>2, <2>0, <1>1 DEF Adopt, IInv, Candidacy
            <4>2. QED
                BY <3>2, <4>1, <2>0 DEF Adopt
        <3>3. CASE Abandon(c) \/ PublishTooLate(c)
            BY <3>3, <2>0 DEF Abandon, PublishTooLate
        <3>4. CASE ~(Adopt(c) \/ Abandon(c) \/ PublishTooLate(c))
            <4>1. UNCHANGED <<fileVars, cleanup>>
                BY <3>1, <3>4 DEF RequestStep, PlanCompletion, SendCopy, CopyLands, CheckCopy,
                                  RequestFails, RequestVanishes, PublishExisting, PublishRefused
            <4>2. QED
                BY <4>1
        <3>5. QED
            BY <3>2, <3>3, <3>4
    <2>3. CASE \E w \in Workers : WorkerStep(w)
        <3>1. PICK w \in Workers : WorkerStep(w)
            BY <2>3
        <3>2. CASE CleanupPlan(w)
            <4>1. \/ UNCHANGED state
                  \/ state' = [state EXCEPT ![work[w].job[1]] = IF @ = "deleting" THEN "deleted" ELSE @]
                BY <3>2 DEF CleanupPlan
            <4>2. UNCHANGED readyCand /\ \E new : cleanup' = Register(new)
                BY <3>2 DEF CleanupPlan
            <4>3. QED
                BY <4>1, <4>2, <2>0 DEF Register
        <3>3. CASE RecordDeleted(w)
            BY <3>3, <2>0 DEF RecordDeleted
        <3>4. CASE ~(CleanupPlan(w) \/ RecordDeleted(w))
            <4>1. UNCHANGED <<fileVars, cleanup>>
                BY <3>1, <3>4 DEF WorkerStep, Claim, RescanPlan, DeleteObject, RescanFinish, LoseLease,
                                  AttemptFails, WorkerCrashes
            <4>2. QED
                BY <4>1
        <3>5. QED
            BY <3>2, <3>3, <3>4
    <2>4. CASE ScheduleCleanup
        <3>1. UNCHANGED readyCand /\ \E new : cleanup' = Register(new)
            BY <2>4 DEF ScheduleCleanup
        <3>2. PICK batch \in SUBSET {f \in Files : NeedsCheck(f)} :
                  state' = [f \in Files |-> IF f \in batch THEN Checked(f) ELSE state[f]]
            BY <2>4 DEF ScheduleCleanup
        <3>3. QED
            BY <3>1, <3>2, <2>0 DEF Register, Checked
    <2>5. CASE \/ \E k \in Keys : LateDelete(k)
               \/ \E i \in JobIds : Exhaust(i) \/ Retry(i)
               \/ ScheduleRescan
        BY <2>5 DEF LateDelete, Exhaust, Retry, ScheduleRescan
    <2>6. QED
        BY <1>1, <2>1, <2>2, <2>3, <2>4, <2>5 DEF Next
<1>2. IInv /\ [Next]_vars => [Verdicts]_vars
    BY <1>1
<1>3. QED
    BY <1>2, InitInv, NextInv, PTL DEF Spec, VerdictsAreFinal
(***************************************************************************)
(* What the owners of files rely on: Files implements FileContract.        *)
(***************************************************************************)
ReadyFiles == {f \in Files : state[f] = "ready"}

\* The three ways in which one step changes what owners see.
Begins(f) == LifeOf(f) = "none" /\ LifeOf(f)' = "pending"
IsPublished(f) == LifeOf(f) = "pending" /\ LifeOf(f)' = "ready"
IsDiscarded(f) == LifeOf(f) \in {"pending", "ready"} /\ LifeOf(f)' = "dead"
Stays(f) == LifeOf(f)' = LifeOf(f)

\* Seen by its owner a file begins alone, is published alone, or is discarded.
LEMMA LifeSteps ==
    ASSUME IInv, [Next]_vars
    PROVE  \/ \E f \in Files :
              /\ Begins(f) \/ IsPublished(f)
              /\ \A g \in Files \ {f} : Stays(g)
           \/ \A f \in Files : Stays(f) \/ IsDiscarded(f)
<1>0. /\ state \in [Files -> FileStates]
      /\ \A c \in Candidates : req[c] # "unused" => of[c] \in Files
    BY DEF IInv, TypeOK, Candidacy
<1>1. CASE UNCHANGED state
    BY <1>1 DEF Stays, LifeOf
<1>2. CASE \E f \in Files : Start(f)
    <2>1. PICK f \in Files : state[f] = "none" /\ state' = [state EXCEPT ![f] = "pending_upload"]
        BY <1>2 DEF Start
    <2>2. Begins(f)
        BY <2>1, <1>0 DEF Begins, LifeOf
    <2>3. \A g \in Files \ {f} : Stays(g)
        BY <2>1, <1>0 DEF Stays, LifeOf
    <2>4. QED
        BY <2>2, <2>3
<1>3. CASE \E c \in Candidates : Adopt(c)
    <2>1. PICK c \in Candidates : Adopt(c)
        BY <1>3
    <2>2. PICK f \in Files : /\ state[f] = "pending_upload"
                             /\ state' = [state EXCEPT ![f] = "ready"]
        BY <2>1, <1>0 DEF Adopt
    <2>3. IsPublished(f)
        BY <2>2, <1>0 DEF IsPublished, LifeOf
    <2>4. \A g \in Files \ {f} : Stays(g)
        BY <2>2, <1>0 DEF Stays, LifeOf
    <2>5. QED
        BY <2>2, <2>3, <2>4
<1>4. ASSUME \A f \in Files :
                \/ state'[f] = state[f]
                \/ state[f] \notin {"none", "pending_upload", "ready"} /\ Discarded(state'[f])
                \/ state[f] \in {"pending_upload", "ready"} /\ Discarded(state'[f])
      PROVE  \A f \in Files : Stays(f) \/ IsDiscarded(f)
    BY <1>4, <1>0 DEF Stays, IsDiscarded, LifeOf, Discarded
<1>5. CASE \E f \in Files : PlanExpired(f) \/ MarkDeleting(f)
    BY <1>0, <1>4, <1>5 DEF PlanExpired, MarkDeleting, Discarded, FileStates
<1>6. CASE \E c \in Candidates : Abandon(c) \/ PublishTooLate(c)
    BY <1>0, <1>4, <1>6 DEF Abandon, PublishTooLate, Discarded
<1>7. CASE ScheduleCleanup
    <2>1. PICK batch \in SUBSET {f \in Files : NeedsCheck(f)} :
              state' = [f \in Files |-> IF f \in batch THEN Checked(f) ELSE state[f]]
        BY <1>7 DEF ScheduleCleanup
    <2>2. QED
        BY <1>4, <2>1 DEF Checked, Discarded
<1>8. CASE \E w \in Workers : CleanupPlan(w)
    <2>1. PICK w \in Workers : CleanupPlan(w)
        BY <1>8
    <2>2. \/ UNCHANGED state
          \/ state' = [state EXCEPT ![work[w].job[1]] = IF @ = "deleting" THEN "deleted" ELSE @]
        BY <2>1 DEF CleanupPlan
    <2>3. QED
        BY <1>0, <1>1, <1>4, <2>2 DEF Discarded
<1>9. CASE \E w \in Workers : WorkerStep(w) /\ ~CleanupPlan(w)
    <2>1. UNCHANGED state
        BY <1>9 DEF WorkerStep, Claim, RescanPlan, DeleteObject, RecordDeleted, RescanFinish,
                    LoseLease, AttemptFails, WorkerCrashes, fileVars
    <2>2. QED
        BY <1>1, <2>1
<1>10. CASE \E c \in Candidates :
              RequestStep(c) /\ ~(Adopt(c) \/ Abandon(c) \/ PublishTooLate(c))
    <2>1. UNCHANGED state
        BY <1>10 DEF RequestStep, PlanCompletion, SendCopy, CopyLands, CheckCopy, RequestFails,
                     RequestVanishes, PublishExisting, PublishRefused, fileVars
    <2>2. QED
        BY <1>1, <2>1
<1>11. CASE \/ \E f \in Files : Expire(f) \/ \E content \in Uploads : Put(f, content)
            \/ \E k \in Keys : LateDelete(k)
            \/ \E i \in JobIds : Exhaust(i) \/ Retry(i)
            \/ ScheduleRescan
            \/ UNCHANGED vars
    <2>1. UNCHANGED state
        BY <1>11 DEF Expire, Put, LateDelete, Exhaust, Retry, ScheduleRescan, fileVars, vars
    <2>2. QED
        BY <1>1, <2>1
<1>12. QED
    BY <1>2, <1>3, <1>5, <1>6, <1>7, <1>8, <1>9, <1>10, <1>11 DEF Next, FileStep

\* Whatever requests, jobs, workers and the store do in between (files/mod.rs,
\* files/cleanup.rs), the modules that own files see them published at most once,
\* readable from then on, and discarded for good.
THEOREM ContractKept == Spec => FilesKeepContract
<1>1. Init => Contract!Init
    BY DEF Init, Contract!Init, LifeOf
<1>2. IInv /\ IInv' /\ [Next]_vars => [Contract!Next]_(Contract!vars)
    <2> SUFFICES ASSUME IInv, IInv', [Next]_vars PROVE [Contract!Next]_(Contract!vars)
        OBVIOUS
    <2> DEFINE life == [f \in Files |-> LifeOf(f)]
               served == {f \in Files : state[f] = "ready" /\ store[readyCand[f]] = "good"}
    <2>1. served = ReadyFiles /\ served' = ReadyFiles'
        BY DEF IInv, PublicationIsSound, ReadyObjectIntact, ReadyFiles
    <2>2. ReadyFiles = {f \in Files : LifeOf(f) = "ready"}
          /\ ReadyFiles' = {f \in Files : LifeOf(f)' = "ready"}
        BY DEF ReadyFiles, LifeOf
    <2> HIDE DEF served
    <2>3. CASE \E f \in Files : Begins(f) /\ \A g \in Files \ {f} : Stays(g)
        <3>1. PICK f \in Files : Begins(f) /\ \A g \in Files \ {f} : Stays(g)
            BY <2>3
        <3>2. life' = [life EXCEPT ![f] = "pending"] /\ life[f] = "none"
            BY <3>1 DEF Begins, Stays
        <3>3. UNCHANGED served
            BY <2>1, <2>2, <3>1 DEF Begins, Stays
        <3>4. Contract!Start(f)
            BY <3>2, <3>3 DEF Contract!Start, served
        <3>5. QED
            BY <3>4 DEF Contract!Next
    <2>4. CASE \E f \in Files : IsPublished(f) /\ \A g \in Files \ {f} : Stays(g)
        <3>1. PICK f \in Files : IsPublished(f) /\ \A g \in Files \ {f} : Stays(g)
            BY <2>4
        <3>2. life' = [life EXCEPT ![f] = "ready"] /\ life[f] = "pending"
            BY <3>1 DEF IsPublished, Stays
        <3>3. served' = served \cup {f}
            BY <2>1, <2>2, <3>1 DEF IsPublished, Stays
        <3>4. Contract!Publish(f)
            BY <3>2, <3>3 DEF Contract!Publish, served
        <3>5. QED
            BY <3>4 DEF Contract!Next
    <2>5. CASE \A f \in Files : Stays(f) \/ IsDiscarded(f)
        <3>0. PICK gone \in SUBSET Files : gone = {f \in Files : IsDiscarded(f)}
            OBVIOUS
        <3>1. life' = [f \in Files |-> IF f \in gone THEN "dead" ELSE life[f]]
            BY <2>5, <3>0 DEF IsDiscarded, Stays
        <3>2. \A f \in gone : life[f] \in {"pending", "ready"}
            BY <3>0 DEF IsDiscarded
        <3>3. served' = served \ gone
            BY <2>1, <2>2, <2>5, <3>0 DEF IsDiscarded, Stays
        <3>4. Contract!Discard(gone)
            BY <3>1, <3>2, <3>3 DEF Contract!Discard, served
        <3>5. QED
            BY <3>4 DEF Contract!Next
    <2>6. \/ \E f \in Files : Begins(f) /\ \A g \in Files \ {f} : Stays(g)
          \/ \E f \in Files : IsPublished(f) /\ \A g \in Files \ {f} : Stays(g)
          \/ \A f \in Files : Stays(f) \/ IsDiscarded(f)
        BY LifeSteps
    <2>7. QED
        BY <2>3, <2>4, <2>5, <2>6
<1>3. QED
    BY <1>1, <1>2, InitInv, NextInv, PTL DEF Spec, FilesKeepContract, Contract!Spec
=============================================================================
