------------------------------- MODULE ResetMail -------------------------------
(***************************************************************************)
(* The mail that carries a password-reset link                             *)
(* (crates/app/src/modules/identity/password_reset): its sealed material,   *)
(* the job that sends it, the maintenance that removes material which is no *)
(* longer needed, and what the account does meanwhile.                     *)
(*                                                                         *)
(* All resets belong to one account: resets of different accounts share     *)
(* nothing.  Transactions are atomic (module Accounts takes them apart),    *)
(* except the worker's first one, which reads the clock, then the material. *)
(* The job is seen through JobContract and the fence of module Jobs.  SMTP  *)
(* answers may be lost after the message was accepted.                     *)
(***************************************************************************)
EXTENDS Naturals, FiniteSets

CONSTANTS
    Resets,      \* reset links of one account, and their jobs
    Workers,
    None,
    BatchLimit   \* the LIMIT 100 of the maintenance

ASSUME ResetMailAssumption ==
    /\ None \notin Resets \cup Workers
    /\ BatchLimit \in Nat \ {0}

VARIABLES
    reset, expired,   \* saas_core.password_resets
    mail,             \* saas_core.password_reset_mail: the material exists
    job,              \* identity.password_reset jobs
    work,             \* workers
    delivered         \* the SMTP server accepted the message

vars == <<reset, expired, mail, job, work, delivered>>

Idle   == [job |-> None, phase |-> "idle"]
Queued == [status |-> "open", owner |-> None]
Done   == [status |-> "succeeded", owner |-> None]

TypeOK ==
    /\ reset \in [Resets -> {"none", "active", "used", "revoked"}]
    /\ expired \in [Resets -> BOOLEAN]
    /\ mail \in [Resets -> BOOLEAN]
    /\ job \in [Resets -> [status : {"none", "open", "succeeded", "failed"},
                           owner : Workers \cup {None}]]
    /\ work \in [Workers -> [job : Resets \cup {None},
                             phase : {"idle", "check", "material", "send", "record"}]]
    /\ delivered \in [Resets -> BOOLEAN]
    /\ \A w \in Workers : work[w].phase = "idle" <=> work[w].job = None

Init ==
    /\ reset = [r \in Resets |-> "none"]
    /\ expired = [r \in Resets |-> FALSE]
    /\ mail = [r \in Resets |-> FALSE]
    /\ job = [r \in Resets |-> [status |-> "none", owner |-> None]]
    /\ work = [w \in Workers |-> Idle]
    /\ delivered = [r \in Resets |-> FALSE]

Active(r) == reset[r] = "active" /\ ~expired[r]

\* The worker that leased the open job last.
Fenced(w) == work[w].job # None /\ job[work[w].job] = [status |-> "open", owner |-> w]

At(w, phase) == work[w].phase = phase
Goto(w, phase) == work' = [work EXCEPT ![w].phase = phase]
Leave(w) == work' = [work EXCEPT ![w] = Idle]

(***************************************************************************)
(* The account.  A worker between its two reads shares the reset row, for   *)
(* which consumption and revocation wait.                                  *)
(***************************************************************************)
RowFree(r) == \A w \in Workers : ~(At(w, "material") /\ work[w].job = r)

Issue(r) ==
    /\ reset[r] = "none"
    /\ reset' = [reset EXCEPT ![r] = "active"]
    /\ mail' = [mail EXCEPT ![r] = TRUE]
    /\ job' = [job EXCEPT ![r] = Queued]
    /\ UNCHANGED <<expired, work, delivered>>

\* revoke, which leaves no material of the account: called when the link "used"
\* has changed the password, or when the member is deactivated (used = None).
Revoke(used) ==
    /\ \A r \in Resets : reset[r] = "active" => RowFree(r)
    /\ reset' = [r \in Resets |-> CASE r = used -> "used"
                                    [] r # used /\ reset[r] = "active" -> "revoked"
                                    [] OTHER -> reset[r]]
    /\ mail' = [r \in Resets |-> FALSE]
    /\ UNCHANGED <<expired, job, work, delivered>>

\* The token is known from the mail only.
Consume(r) == Active(r) /\ delivered[r] /\ Revoke(r)

Deactivate == (\E r \in Resets : reset[r] # "none") /\ Revoke(None)

Expire(r) ==
    /\ reset[r] # "none" /\ ~expired[r]
    /\ expired' = [expired EXCEPT ![r] = TRUE]
    /\ UNCHANGED <<reset, mail, job, work, delivered>>

\* ResetMaintenance::schedule.  "Faulty" definitions are plausible mistakes that
\* no action uses: each replaces the definition after it to show that a property
\* notices.
FaultyUselessWhenFailed(r) == ~Active(r) \/ job[r].status = "failed"
FaultyUselessUnlessActive(r) == reset[r] # "active"
Useless(r) == ~Active(r)

Maintenance ==
    LET rows == {r \in Resets : mail[r] /\ Useless(r)}
    IN  /\ rows # {}
        /\ \E batch \in SUBSET rows :
              /\ batch # {} /\ Cardinality(batch) <= BatchLimit
              /\ mail' = [r \in Resets |-> mail[r] /\ r \notin batch]
        /\ UNCHANGED <<reset, expired, job, work, delivered>>

(***************************************************************************)
(* The worker.                                                             *)
(***************************************************************************)
Claim(w, r) ==
    /\ work[w] = Idle
    /\ job[r].status = "open"
    /\ job' = [job EXCEPT ![r].owner = w]
    /\ work' = [work EXCEPT ![w] = [job |-> r, phase |-> "check"]]
    /\ UNCHANGED <<reset, expired, mail, delivered>>

\* The link has ended: the material goes and the job is done.
FinishEnded(w) ==
    LET r == work[w].job
    IN  /\ At(w, "check") /\ ~Active(r) /\ Fenced(w)
        /\ mail' = [mail EXCEPT ![r] = FALSE]
        /\ job' = [job EXCEPT ![r] = Done]
        /\ Leave(w)
        /\ UNCHANGED <<reset, expired, delivered>>

FindActive(w) ==
    /\ At(w, "check") /\ Active(work[w].job)
    /\ Goto(w, "material")
    /\ UNCHANGED <<reset, expired, mail, job, delivered>>

ReadMaterial(w) ==
    /\ At(w, "material") /\ mail[work[w].job] /\ Fenced(w)
    /\ Goto(w, "send")
    /\ UNCHANGED <<reset, expired, mail, job, delivered>>

\* JobError::Permanent("identity.reset_material_missing")
MissMaterial(w) ==
    /\ At(w, "material") /\ ~mail[work[w].job] /\ Fenced(w)
    /\ job' = [job EXCEPT ![work[w].job] = [status |-> "failed", owner |-> None]]
    /\ Leave(w)
    /\ UNCHANGED <<reset, expired, mail, delivered>>

\* SMTP, whether or not the link or the lease is still good; the answer arrives,
\* or the attempt fails (AttemptFails) with the message accepted all the same.
Send(w) ==
    /\ At(w, "send")
    /\ delivered' = [delivered EXCEPT ![work[w].job] = TRUE]
    /\ \/ Goto(w, "record")
       \/ UNCHANGED work
    /\ UNCHANGED <<reset, expired, mail, job>>

RecordSent(w) ==
    LET r == work[w].job
    IN  /\ At(w, "record") /\ Fenced(w)
        /\ mail' = [mail EXCEPT ![r] = FALSE]
        /\ job' = [job EXCEPT ![r] = Done]
        /\ Leave(w)
        /\ UNCHANGED <<reset, expired, delivered>>

LoseLease(w) ==
    /\ ~At(w, "idle") /\ ~At(w, "send") /\ ~Fenced(w)
    /\ Leave(w)
    /\ UNCHANGED <<reset, expired, mail, job, delivered>>

\* A transient error schedules the next attempt; a permanent one (mail key or
\* material unusable, link expired) or the last attempt fails the job.
AttemptFails(w, status) ==
    /\ Fenced(w)
    /\ job' = [job EXCEPT ![work[w].job] = [status |-> status, owner |-> None]]
    /\ Leave(w)
    /\ UNCHANGED <<reset, expired, mail, delivered>>

WorkerCrashes(w) ==
    /\ ~At(w, "idle")
    /\ Leave(w)
    /\ UNCHANGED <<reset, expired, mail, job, delivered>>

\* The sweep of any worker's poll fails a job whose last attempt lost its lease, whether or
\* not the worker that had it goes on.
Exhaust(r) ==
    /\ job[r].status = "open" /\ job[r].owner # None
    /\ job' = [job EXCEPT ![r] = [status |-> "failed", owner |-> None]]
    /\ UNCHANGED <<reset, expired, mail, work, delivered>>

\* An administrator retries a failed job.
Retry(r) ==
    /\ job[r].status = "failed"
    /\ job' = [job EXCEPT ![r] = Queued]
    /\ UNCHANGED <<reset, expired, mail, work, delivered>>

AccountStep ==
    \/ \E r \in Resets : Issue(r) \/ Consume(r) \/ Expire(r)
    \/ Deactivate
    \/ Maintenance

WorkerStep(w) ==
    \/ \E r \in Resets : Claim(w, r)
    \/ FinishEnded(w)
    \/ FindActive(w)
    \/ ReadMaterial(w)
    \/ MissMaterial(w)
    \/ Send(w)
    \/ RecordSent(w)
    \/ LoseLease(w)
    \/ \E status \in {"open", "failed"} : AttemptFails(w, status)
    \/ WorkerCrashes(w)

Next ==
    \/ AccountStep
    \/ \E w \in Workers : WorkerStep(w)
    \/ \E r \in Resets : Exhaust(r) \/ Retry(r)

Spec == Init /\ [][Next]_vars

\* Links expire and maintenance runs every period, also where no SMTP server is
\* configured; no worker and no administrator is relied upon.
Fairness == (\A r \in Resets : WF_vars(Expire(r))) /\ WF_vars(Maintenance)

FairSpec == Spec /\ Fairness

(***************************************************************************)
(* Properties.                                                             *)
(***************************************************************************)

\* As long as a link works and its job is not done, the material is there for the
\* next attempt or for an administrator's retry, whatever stale workers,
\* maintenance or other links of the account do.
MaterialUntilSent ==
    \A r \in Resets :
        Active(r) /\ job[r].status \in {"open", "failed"} => mail[r]

\* A job that succeeded delivered the mail, or its link had ended; either way no
\* material is left behind.
DoneMeansDelivered ==
    \A r \in Resets : job[r].status = "succeeded" =>
        (delivered[r] \/ ~Active(r)) /\ ~mail[r]

\* Material does not outlive its link for long, although the job may be failed,
\* stuck or never run.
MaterialVanishes == \A r \in Resets : mail[r] ~> ~mail[r]

(***************************************************************************)
(* The jobs keep to the contract of the queue.                             *)
(***************************************************************************)
Contract == INSTANCE JobContract WITH
    Jobs <- Resets,
    phase <- [r \in Resets |-> job[r].status],
    wants <- [r \in Resets |-> FALSE],
    told <- [r \in Resets |-> {}],
    results <- [r \in Resets |-> IF job[r].status = "succeeded" THEN 1 ELSE 0]

\* However links, stale workers and maintenance take part, what happens to the jobs of reset
\* mails is what the queue promises of any job: enqueued once, done once, given up and reopened.
JobsKeepContract == Contract!Spec
=============================================================================
