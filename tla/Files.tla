-------------------------------- MODULE Files --------------------------------
(***************************************************************************)
(* Uploaded and generated files (crates/app/src/modules/files): the rows   *)
(* that describe them, the objects of the S3 store, the requests that      *)
(* verify and publish an upload, and the jobs that delete what no row      *)
(* needs any more.                                                         *)
(*                                                                         *)
(* The store is not transactional.  A copy or a delete whose caller timed  *)
(* out may still take effect later, a client may finish an upload after    *)
(* its file is gone, and a worker that lost its lease may still be         *)
(* deleting.  Every object key is therefore written down before the object *)
(* can exist, verified before it is published, and probed again after it   *)
(* was deleted.                                                            *)
(*                                                                         *)
(* A file is its staging key; a completion request is the candidate it     *)
(* copies the staged object to (one INSERT per request).  Object content   *)
(* is "good" (what the file declares, valid for its media type) or "bad".  *)
(* past[f] is "expires_at <= clock_timestamp()"; the five minutes of        *)
(* next_cleanup_check_at and the hour of next_probe_at only throttle and   *)
(* may be over at any time.  Jobs are seen through JobContract and the     *)
(* fence of module Jobs: only the worker that leased an open job last may  *)
(* commit.                                                                 *)
(***************************************************************************)
EXTENDS Naturals, FiniteSets

CONSTANTS
    Files,        \* file identifiers, and their staging keys
    Candidates,   \* completion requests, and the keys they copy to
    Slots,        \* cleanup jobs of one file that can coexist
    Workers,
    Rescan,       \* the rescan job
    None,
    Uploads,      \* the contents clients send: "good", "bad"
    BatchLimit    \* the LIMIT 100 of the cleanup statements

ASSUME FilesAssumption ==
    /\ Files \cap Candidates = {}
    /\ None \notin Files \cup Candidates \cup Workers
    /\ Rescan \notin Files \X Slots
    /\ None \notin (Files \X Slots) \cup {Rescan}
    /\ Uploads \subseteq {"good", "bad"}
    /\ BatchLimit \in Nat \ {0}

VARIABLES
    state, past, readyCand, cleanupJob,   \* saas_core.files
    of, cstate,                           \* saas_core.file_candidates
    cleanup,                              \* saas_core.object_cleanup
    job,                                  \* cleanup and rescan jobs
    store,                                \* the object store
    copying,                              \* etags of copies on their way to it
    req,                                  \* completion requests
    work                                  \* workers

fileVars == <<state, past, readyCand, cleanupJob>>
candVars == <<of, cstate>>
vars == <<fileVars, candVars, cleanup, job, store, copying, req, work>>

Keys   == Files \cup Candidates
JobIds == (Files \X Slots) \cup {Rescan}

FileStates == {"none", "pending_upload", "ready", "rejected", "expired",
               "deleting", "deleted"}
CandStates == {"none", "copying", "adopted", "abandoned", "deleted"}
Content    == {"absent", "good", "bad"}
Phases     == {"unused", "head", "copy", "check", "verified", "rejected",
               "failed", "done"}

Queued    == [status |-> "open", owner |-> None]
Succeeded == [status |-> "succeeded", owner |-> None]
Idle      == [job |-> None, phase |-> "idle", targets |-> {}, at |-> None]

(***************************************************************************)
(* Helpers.                                                                *)
(***************************************************************************)
KeysOf(f) == {f} \cup {c \in Candidates : of[c] = f}

Discarded(s) == s \in {"deleting", "deleted", "expired", "rejected"}

\* The staging object is not needed: the file is discarded, or is ready and the
\* upload capability has expired.
StagingUseless(f, s) == Discarded(s) \/ (s = "ready" /\ past[f])

\* "Faulty" definitions are plausible mistakes that no action uses: each replaces
\* the definition after it to show that a property notices.
FaultyAdoptedUseless(c, s) == Discarded(s) \/ cstate[c] # "copying"
FaultyUnfinishedKept(c, s) ==
    cstate[c] \in {"abandoned", "deleted"} /\ c # readyCand[of[c]]
CandidateUseless(c, s) ==
    \/ Discarded(s)
    \/ cstate[c] \in {"abandoned", "deleted"} /\ c # readyCand[of[c]]

\* SELECT ... LIMIT BatchLimit, whatever the order.
Batches(S) ==
    IF Cardinality(S) <= BatchLimit THEN {S}
    ELSE {T \in SUBSET S : Cardinality(T) = BatchLimit}

\* register_locations when f is in state s: the sets of keys it may insert.
Registrations(f, s) ==
    LET staging == IF StagingUseless(f, s) /\ cleanup[f] = "none" THEN {f} ELSE {}
        cands == {c \in Candidates : /\ of[c] = f /\ cleanup[c] = "none"
                                     /\ CandidateUseless(c, s)}
    IN  {staging \cup batch : batch \in Batches(cands)}

Register(keys) ==
    [k \in Keys |-> IF k \in keys THEN "registered" ELSE cleanup[k]]

\* A job identifier of f that nothing refers to stands for the next UUID; one
\* that was never used counts as succeeded.
FreeSlots(f) ==
    {s \in Slots : /\ job[<<f, s>>] = Succeeded
                   /\ cleanupJob[f] # <<f, s>>
                   /\ \A w \in Workers : work[w].job # <<f, s>>}
NewJob(f) == <<f, CHOOSE s \in FreeSlots(f) : TRUE>>

\* lock_current and succeed accept this worker.
Fenced(w) == work[w].job # None /\ job[work[w].job] = [status |-> "open", owner |-> w]

Serves(k) ==
    \E f \in Files : state[f] = "ready" /\ readyCand[f] = k

TypeOK ==
    /\ state \in [Files -> FileStates]
    /\ past \in [Files -> BOOLEAN]
    /\ readyCand \in [Files -> Candidates \cup {None}]
    /\ cleanupJob \in [Files -> (Files \X Slots) \cup {None}]
    /\ of \in [Candidates -> Files \cup {None}]
    /\ cstate \in [Candidates -> CandStates]
    /\ cleanup \in [Keys -> {"none", "registered", "deleted"}]
    /\ job \in [JobIds -> [status : {"open", "succeeded", "failed"},
                           owner : Workers \cup {None}]]
    /\ store \in [Keys -> Content]
    /\ copying \in [Candidates -> Content]
    /\ req \in [Candidates -> Phases]
    /\ work \in [Workers -> [job : JobIds \cup {None},
                             phase : {"idle", "plan", "delete", "record", "finish"},
                             targets : SUBSET Keys, at : Keys \cup {None}]]
    /\ \A w \in Workers : work[w].phase = "idle" => work[w] = Idle

Init ==
    /\ state = [f \in Files |-> "none"]
    /\ past = [f \in Files |-> FALSE]
    /\ readyCand = [f \in Files |-> None]
    /\ cleanupJob = [f \in Files |-> None]
    /\ of = [c \in Candidates |-> None]
    /\ cstate = [c \in Candidates |-> "none"]
    /\ cleanup = [k \in Keys |-> "none"]
    /\ job = [i \in JobIds |-> Succeeded]
    /\ store = [k \in Keys |-> "absent"]
    /\ copying = [c \in Candidates |-> "absent"]
    /\ req = [c \in Candidates |-> "unused"]
    /\ work = [w \in Workers |-> Idle]

(***************************************************************************)
(* The client: an upload is started in a business transaction, its bytes   *)
(* are sent straight to the store while the signed URL is valid, and may   *)
(* be stored later, or never.                                              *)
(***************************************************************************)
Start(f) ==
    /\ state[f] = "none"
    /\ state' = [state EXCEPT ![f] = "pending_upload"]
    /\ UNCHANGED <<past, readyCand, cleanupJob, candVars, cleanup, job, store, copying, req, work>>

\* PUTs sent before the URL expired, any number of them, arrive at any time.
Put(f, content) ==
    /\ state[f] # "none"
    /\ store' = [store EXCEPT ![f] = content]
    /\ UNCHANGED <<fileVars, candVars, cleanup, job, copying, req, work>>

Expire(f) ==
    /\ state[f] # "none"
    /\ ~past[f]
    /\ past' = [past EXCEPT ![f] = TRUE]
    /\ UNCHANGED <<state, readyCand, cleanupJob, candVars, cleanup, job, store, copying, req, work>>

(***************************************************************************)
(* A completion request: plan_completion, verify_candidate, publish and    *)
(* abandon.  The object calls of verify_candidate happen outside any       *)
(* transaction.                                                            *)
(***************************************************************************)
PlanCompletion(c, f) ==
    /\ req[c] = "unused"
    /\ state[f] = "pending_upload"
    /\ ~past[f]
    /\ of' = [of EXCEPT ![c] = f]
    /\ cstate' = [cstate EXCEPT ![c] = "copying"]
    /\ req' = [req EXCEPT ![c] = "head"]
    /\ UNCHANGED <<fileVars, cleanup, job, store, copying, work>>

PlanExpired(f) ==
    /\ state[f] = "pending_upload"
    /\ past[f]
    /\ state' = [state EXCEPT ![f] = "expired"]
    /\ UNCHANGED <<past, readyCand, cleanupJob, candVars, cleanup, job, store, copying, req, work>>

\* HEAD of the staging object, then the conditional copy is sent.
SendCopy(c) ==
    /\ req[c] = "head"
    /\ store[of[c]] # "absent"
    /\ copying' = [copying EXCEPT ![c] = store[of[c]]]
    /\ req' = [req EXCEPT ![c] = "copy"]
    /\ UNCHANGED <<fileVars, candVars, cleanup, job, store, work>>

\* copy_if_absent takes effect: the source must still have the etag that HEAD
\* returned, the target must not exist.  The caller may have given up.
CopyLands(c) ==
    LET copied == store[of[c]] = copying[c] /\ store[c] = "absent"
    IN  /\ copying[c] # "absent"
        /\ store' = IF copied THEN [store EXCEPT ![c] = copying[c]] ELSE store
        /\ copying' = [copying EXCEPT ![c] = "absent"]
        /\ req' = IF req[c] = "copy"
                  THEN [req EXCEPT ![c] = IF copied THEN "check" ELSE "failed"] ELSE req
        /\ UNCHANGED <<fileVars, candVars, cleanup, job, work>>

\* HEAD and read of the copy: size, media type, digest and leading bytes.
CheckCopy(c) ==
    /\ req[c] = "check"
    /\ req' = [req EXCEPT ![c] = CASE store[c] = "good" -> "verified"
                                   [] store[c] = "bad"  -> "rejected"
                                   [] OTHER -> "failed"]
    /\ UNCHANGED <<fileVars, candVars, cleanup, job, store, copying, work>>

\* A missing staging object, no verification slot, a storage or database error,
\* a timeout, a session or membership revoked meanwhile.
RequestFails(c) ==
    /\ req[c] \in {"head", "copy", "check", "verified"}
    /\ req' = [req EXCEPT ![c] = "failed"]
    /\ UNCHANGED <<fileVars, candVars, cleanup, job, store, copying, work>>

FaultyAbandon(c) ==
    LET f == of[c]
    IN  /\ req[c] \in {"failed", "rejected"}
        /\ cstate' = [cstate EXCEPT ![c] = IF @ = "copying" THEN "abandoned" ELSE @]
        /\ state' = [state EXCEPT ![f] = IF req[c] = "rejected" THEN "rejected" ELSE @]
        /\ req' = [req EXCEPT ![c] = "done"]
        /\ UNCHANGED <<past, readyCand, cleanupJob, of, cleanup, job, store, copying, work>>
Abandon(c) ==
    LET f == of[c]
    IN  /\ req[c] \in {"failed", "rejected"}
        /\ cstate' = [cstate EXCEPT ![c] = IF @ = "copying" THEN "abandoned" ELSE @]
        /\ state' = [state EXCEPT ![f] =
               IF req[c] = "rejected" /\ @ = "pending_upload" THEN "rejected" ELSE @]
        /\ req' = [req EXCEPT ![c] = "done"]
        /\ UNCHANGED <<past, readyCand, cleanupJob, of, cleanup, job, store, copying, work>>

\* The API process dies, or the transaction that abandons the candidate fails.
RequestVanishes(c) ==
    /\ req[c] \notin {"unused", "done"}
    /\ req' = [req EXCEPT ![c] = "done"]
    /\ UNCHANGED <<fileVars, candVars, cleanup, job, store, copying, work>>

\* publish of a verified candidate while its file is still pending.
Adopt(c) ==
    LET f == of[c]
    IN  /\ req[c] = "verified"
        /\ state[f] = "pending_upload"
        /\ cstate[c] = "copying"
        /\ ~past[f]
        /\ state' = [state EXCEPT ![f] = "ready"]
        /\ readyCand' = [readyCand EXCEPT ![f] = c]
        /\ cstate' = [d \in Candidates |->
               CASE d = c -> "adopted"
                 [] d # c /\ of[d] = f /\ cstate[d] = "copying" -> "abandoned"
                 [] OTHER -> cstate[d]]
        /\ req' = [req EXCEPT ![c] = "done"]
        /\ UNCHANGED <<past, cleanupJob, of, cleanup, job, store, copying, work>>

PublishTooLate(c) ==
    LET f == of[c]
    IN  /\ req[c] = "verified"
        /\ state[f] = "pending_upload"
        /\ cstate[c] = "copying"
        /\ past[f]
        /\ state' = [state EXCEPT ![f] = "expired"]
        /\ cstate' = [cstate EXCEPT ![c] = "abandoned"]
        /\ req' = [req EXCEPT ![c] = "done"]
        /\ UNCHANGED <<past, readyCand, cleanupJob, of, cleanup, job, store, copying, work>>

\* Another request published first.
PublishExisting(c) ==
    /\ req[c] = "verified"
    /\ state[of[c]] = "ready"
    /\ cstate' = [cstate EXCEPT ![c] = IF @ = "copying" THEN "abandoned" ELSE @]
    /\ req' = [req EXCEPT ![c] = "done"]
    /\ UNCHANGED <<fileVars, of, cleanup, job, store, copying, work>>

\* The file is rejected, expired or being deleted, or the candidate is not
\* copying any more: the transaction rolls back and the request abandons.
PublishRefused(c) ==
    /\ req[c] = "verified"
    /\ \/ state[of[c]] \notin {"ready", "pending_upload"}
       \/ state[of[c]] = "pending_upload" /\ cstate[c] # "copying"
    /\ req' = [req EXCEPT ![c] = "failed"]
    /\ UNCHANGED <<fileVars, candVars, cleanup, job, store, copying, work>>

(***************************************************************************)
(* Deletion and maintenance.                                               *)
(***************************************************************************)

\* mark_deleting, in the transaction of the module that owns the file.
MarkDeleting(f) ==
    /\ state[f] \notin {"none", "deleting", "deleted"}
    /\ state' = [state EXCEPT ![f] = "deleting"]
    /\ \E keys \in Registrations(f, "deleting") : cleanup' = Register(keys)
    /\ FreeSlots(f) # {}
    /\ job' = [job EXCEPT ![NewJob(f)] = Queued]
    /\ cleanupJob' = [cleanupJob EXCEPT ![f] = NewJob(f)]
    /\ UNCHANGED <<past, readyCand, candVars, store, copying, req, work>>

\* The WHERE clause of CleanupMaintenance::schedule.
NeedsCheck(f) ==
    \/ state[f] = "pending_upload" /\ past[f]
    \/ StagingUseless(f, state[f]) /\ cleanup[f] = "none"
    \/ \E k \in KeysOf(f) : cleanup[k] = "registered"
    \/ \E c \in Candidates : /\ of[c] = f /\ cleanup[c] = "none"
                             /\ cstate[c] \in {"abandoned", "deleted"}
                             /\ c # readyCand[f]

\* The state of f after schedule has expired it.
Checked(f) == IF state[f] = "pending_upload" /\ past[f] THEN "expired" ELSE state[f]

\* First transaction of CleanupMaintenance::schedule.
FaultyMayEnqueue(f) == cleanupJob[f] = None
MayEnqueue(f) ==
    cleanupJob[f] = None \/ job[cleanupJob[f]].status = "succeeded"

ScheduleCleanup ==
    \E batch \in SUBSET {f \in Files : NeedsCheck(f)} :
        /\ batch # {}
        /\ \A f \in batch : FreeSlots(f) # {}
        /\ \E keys \in [batch -> SUBSET Keys] :
             LET new == UNION {keys[f] : f \in batch}
                 start == {f \in batch : /\ MayEnqueue(f)
                                         /\ \E k \in KeysOf(f) : Register(new)[k] = "registered"}
             IN  /\ \A f \in batch : keys[f] \in Registrations(f, Checked(f))
                 /\ cleanup' = Register(new)
                 /\ job' = [i \in JobIds |->
                        IF i \in {NewJob(f) : f \in start} THEN Queued ELSE job[i]]
                 /\ cleanupJob' = [f \in Files |->
                        IF f \in start THEN NewJob(f) ELSE cleanupJob[f]]
        /\ state' = [f \in Files |-> IF f \in batch THEN Checked(f) ELSE state[f]]
        /\ UNCHANGED <<past, readyCand, candVars, store, copying, req, work>>

\* Second transaction of CleanupMaintenance::schedule.
ScheduleRescan ==
    /\ \E k \in Keys : cleanup[k] = "deleted"
    /\ job[Rescan] = Succeeded
    /\ job' = [job EXCEPT ![Rescan] = Queued]
    /\ UNCHANGED <<fileVars, candVars, cleanup, store, copying, req, work>>

(***************************************************************************)
(* Workers: the handlers files.cleanup and files.rescan.                   *)
(***************************************************************************)

\* claim: a queued job, or one whose lease ran out under another worker.
Claim(w, i) ==
    /\ work[w] = Idle
    /\ job[i].status = "open"
    /\ job' = [job EXCEPT ![i].owner = w]
    /\ work' = [work EXCEPT ![w] = [Idle EXCEPT !.job = i, !.phase = "plan"]]
    /\ UNCHANGED <<fileVars, candVars, cleanup, store, copying, req>>

\* One round of the cleanup loop: register, select what is still to delete, and
\* if there is nothing left close the file and the job in the same transaction.
CleanupPlan(w) ==
    LET f == work[w].job[1]
    IN  /\ work[w].phase = "plan"
        /\ work[w].job # Rescan
        /\ Fenced(w)
        /\ \E new \in Registrations(f, state[f]) :
             LET registered == Register(new)
                 waiting == {k \in KeysOf(f) : registered[k] = "registered"}
             IN  /\ cleanup' = registered
                 /\ \/ /\ waiting # {}
                       /\ \E keys \in Batches(waiting) :
                            work' = [work EXCEPT ![w].phase = "delete",
                                                 ![w].targets = keys]
                       /\ UNCHANGED <<state, job>>
                    \/ /\ waiting = {}
                       /\ state' = [state EXCEPT ![f] =
                              IF @ = "deleting" THEN "deleted" ELSE @]
                       /\ job' = [job EXCEPT ![work[w].job] = Succeeded]
                       /\ work' = [work EXCEPT ![w] = Idle]
        /\ UNCHANGED <<past, readyCand, cleanupJob, candVars, store, copying, req>>

\* The rescan selects the keys to probe once, never the object of a ready file.
RescanPlan(w) ==
    /\ work[w].phase = "plan"
    /\ work[w].job = Rescan
    /\ Fenced(w)
    /\ \E keys \in Batches({k \in Keys : cleanup[k] = "deleted" /\ ~Serves(k)}) :
         work' = [work EXCEPT ![w].phase = IF keys = {} THEN "finish" ELSE "delete",
                              ![w].targets = keys]
    /\ UNCHANGED <<fileVars, candVars, cleanup, job, store, copying, req>>

\* The store whether or not the worker still holds its lease.
DeleteObject(w, k) ==
    /\ work[w].phase = "delete"
    /\ k \in work[w].targets
    /\ store' = [store EXCEPT ![k] = "absent"]
    /\ work' = [work EXCEPT ![w].phase = "record", ![w].at = k]
    /\ UNCHANGED <<fileVars, candVars, cleanup, job, copying, req>>

\* The next target, else the next round of the cleanup or the end of the rescan.
NextPhase(i, rest) ==
    CASE rest # {} -> "delete"
      [] rest = {} /\ i = Rescan -> "finish"
      [] OTHER -> "plan"

RecordDeleted(w) ==
    LET k == work[w].at
        rest == work[w].targets \ {k}
    IN  /\ work[w].phase = "record"
        /\ Fenced(w)
        /\ cleanup' = [cleanup EXCEPT ![k] = "deleted"]
        /\ cstate' = IF work[w].job # Rescan /\ k \in Candidates
                     THEN [cstate EXCEPT ![k] = "deleted"] ELSE cstate
        /\ work' = [work EXCEPT ![w].phase = NextPhase(work[w].job, rest),
                                ![w].targets = rest, ![w].at = None]
        /\ UNCHANGED <<fileVars, of, job, store, copying, req>>

RescanFinish(w) ==
    /\ work[w].phase = "finish"
    /\ Fenced(w)
    /\ job' = [job EXCEPT ![Rescan] = Succeeded]
    /\ work' = [work EXCEPT ![w] = Idle]
    /\ UNCHANGED <<fileVars, candVars, cleanup, store, copying, req>>

LoseLease(w) ==
    /\ work[w].phase \in {"plan", "record", "finish"}
    /\ ~Fenced(w)
    /\ work' = [work EXCEPT ![w] = Idle]
    /\ UNCHANGED <<fileVars, candVars, cleanup, job, store, copying, req>>

\* A storage or database error or the 120 seconds end the attempt; the queue
\* schedules another one, or none is left and the job fails.
AttemptFails(w, status) ==
    /\ work[w] # Idle
    /\ Fenced(w)
    /\ job' = [job EXCEPT ![work[w].job] = [status |-> status, owner |-> None]]
    /\ work' = [work EXCEPT ![w] = Idle]
    /\ UNCHANGED <<fileVars, candVars, cleanup, store, copying, req>>

WorkerCrashes(w) ==
    /\ work[w] # Idle
    /\ work' = [work EXCEPT ![w] = Idle]
    /\ UNCHANGED <<fileVars, candVars, cleanup, job, store, copying, req>>

\* A delete that a worker sent and gave up on arrives.
LateDelete(k) ==
    /\ cleanup[k] # "none"
    /\ store' = [store EXCEPT ![k] = "absent"]
    /\ UNCHANGED <<fileVars, candVars, cleanup, job, copying, req, work>>

\* The sweep of any worker's poll fails a job whose last attempt lost its lease, whether or
\* not the worker that had it goes on.
Exhaust(i) ==
    /\ job[i].status = "open" /\ job[i].owner # None
    /\ job' = [job EXCEPT ![i] = [status |-> "failed", owner |-> None]]
    /\ UNCHANGED <<fileVars, candVars, cleanup, store, copying, req, work>>

\* An administrator starts a new batch of a failed job.
Retry(i) ==
    /\ job[i].status = "failed"
    /\ job' = [job EXCEPT ![i] = Queued]
    /\ UNCHANGED <<fileVars, candVars, cleanup, store, copying, req, work>>

FileStep(f) ==
    \/ Start(f)
    \/ \E content \in Uploads : Put(f, content)
    \/ Expire(f)
    \/ PlanExpired(f)
    \/ MarkDeleting(f)

RequestStep(c) ==
    \/ \E f \in Files : PlanCompletion(c, f)
    \/ SendCopy(c)
    \/ CopyLands(c)
    \/ CheckCopy(c)
    \/ RequestFails(c)
    \/ Abandon(c)
    \/ RequestVanishes(c)
    \/ Adopt(c)
    \/ PublishTooLate(c)
    \/ PublishExisting(c)
    \/ PublishRefused(c)

WorkerStep(w) ==
    \/ \E i \in JobIds : Claim(w, i)
    \/ CleanupPlan(w)
    \/ RescanPlan(w)
    \/ \E k \in Keys : DeleteObject(w, k)
    \/ RecordDeleted(w)
    \/ RescanFinish(w)
    \/ LoseLease(w)
    \/ \E status \in {"open", "failed"} : AttemptFails(w, status)
    \/ WorkerCrashes(w)

Next ==
    \/ \E f \in Files : FileStep(f)
    \/ \E c \in Candidates : RequestStep(c)
    \/ \E w \in Workers : WorkerStep(w)
    \/ \E k \in Keys : LateDelete(k)
    \/ \E i \in JobIds : Exhaust(i) \/ Retry(i)
    \/ ScheduleCleanup
    \/ ScheduleRescan

Spec == Init /\ [][Next]_vars

(***************************************************************************)
(* Fairness: uploads expire, maintenance runs every period, idle workers   *)
(* poll and no cleanup job is passed over for ever, handlers make          *)
(* progress, and an administrator retries a failed job.  Attempts fail     *)
(* and leases are lost any number of times, but not for ever.  Clients,    *)
(* requests and late effects owe nothing.                                  *)
(***************************************************************************)
Progress(w) ==
    \/ CleanupPlan(w)
    \/ RescanPlan(w)
    \/ \E k \in Keys : DeleteObject(w, k)
    \/ RecordDeleted(w)
    \/ RescanFinish(w)
    \/ LoseLease(w)

Fault ==
    \E w \in Workers :
        \/ WorkerCrashes(w)
        \/ \E status \in {"open", "failed"} : AttemptFails(w, status)
        \/ \E v \in Workers : Fenced(v) /\ Claim(w, work[v].job)
        \/ \E i \in JobIds : Exhaust(i)

Fairness ==
    /\ <>[][~Fault]_vars
    /\ \A f \in Files :
        /\ WF_vars(Expire(f))
        /\ SF_vars(\E w \in Workers, s \in Slots : Claim(w, <<f, s>>))
    /\ WF_vars(\E w \in Workers : Claim(w, Rescan))
    /\ WF_vars(\E i \in JobIds : Retry(i))
    /\ WF_vars(ScheduleCleanup)
    /\ WF_vars(ScheduleRescan)
    /\ \A w \in Workers : WF_vars(Progress(w))

FairSpec == Spec /\ Fairness

(***************************************************************************)
(* Properties.                                                             *)
(***************************************************************************)

\* The object of a ready file exists and holds the verified bytes: no late copy,
\* late delete, stale worker, rescan or competing request ever damages it.
ReadyObjectIntact ==
    \A f \in Files : state[f] = "ready" => store[readyCand[f]] = "good"

\* What cleanup may delete was given up for good: it is not the object of a ready
\* file, no request can still publish it, and the staging object is not one that
\* a request may still have to copy.
DeletableIsDead ==
    \A k \in Keys : cleanup[k] # "none" =>
        /\ ~Serves(k)
        /\ k \in Candidates => ~(state[of[k]] = "pending_upload" /\ cstate[k] = "copying")
        /\ k \in Files => StagingUseless(k, state[k])

\* One publication wins: a ready file has exactly one adopted candidate, and no
\* other candidate is left in a state that maintenance would overlook.
OnePublication ==
    \A f \in Files : state[f] = "ready" =>
        \A c \in Candidates : of[c] = f =>
            cstate[c] \in (IF c = readyCand[f] THEN {"adopted"} ELSE {"abandoned", "deleted"})

\* Completions that race each other, expiry, deletion and cleanup leave a ready file
\* with the one object that was verified for it, and cleanup deletes nothing still needed.
PublicationIsSound == ReadyObjectIntact /\ OnePublication /\ DeletableIsDead

\* A file is reported deleted only when every key it ever used was deleted once
\* and stays on the list of keys that are probed again.
DeletedIsScrubbed ==
    \A f \in Files : state[f] = "deleted" =>
        \A k \in KeysOf(f) : cleanup[k] = "deleted"

\* Verdicts are final: a slow verification cannot reject or expire a file that
\* was published, nothing revives a discarded file, and a key once listed for
\* cleanup stays listed.
VerdictsAreFinal ==
    [][/\ \A f \in Files : state'[f] # state[f] =>
            \/ state[f] = "none" /\ state'[f] = "pending_upload"
            \/ state[f] = "pending_upload"
            \/ state[f] \in {"ready", "rejected", "expired"} /\ state'[f] = "deleting"
            \/ state[f] = "deleting" /\ state'[f] = "deleted"
       /\ \A k \in Keys : cleanup[k] # "none" => cleanup'[k] # "none"
       /\ \A f \in Files : readyCand[f] # None => readyCand'[f] = readyCand[f]]_vars

\* Nothing is stored for ever without need: every object in the store is removed
\* or is the object of a ready file, however its upload, copy or file ended.
NoOrphans ==
    \A k \in Keys : store[k] # "absent" ~> (store[k] = "absent" \/ Serves(k))

(***************************************************************************)
(* What the owners of files rely on.                                       *)
(***************************************************************************)
LifeOf(f) ==
    CASE state[f] = "none" -> "none"
      [] state[f] = "pending_upload" -> "pending"
      [] state[f] = "ready" -> "ready"
      [] OTHER -> "dead"

Contract == INSTANCE FileContract WITH
    life <- [f \in Files |-> LifeOf(f)],
    served <- {f \in Files : state[f] = "ready" /\ store[readyCand[f]] = "good"}

\* Whatever requests, jobs and the store do in between, their owners see files that are
\* published once, readable from then on, and discarded for good.
FilesKeepContract == Contract!Spec
=============================================================================
