----------------------------- MODULE Production -----------------------------
(***************************************************************************)
(* Backup and restore of a single-machine deployment (scripts/production-  *)
(* backup.mjs, production-restore.mjs and their libraries), as they run    *)
(* against a deployment whose api and worker go on working, crash and are  *)
(* started again by Docker until the scripts stop them.                    *)
(*                                                                         *)
(* A deployment has one row and one object per file.  An object is         *)
(* "absent", "good" (what the row says), "short" (another size) or "wrong" *)
(* (other bytes of the same size).  What the services do to rows and       *)
(* objects is Files seen from far: an object is stored before its row is   *)
(* ready and removed after its row is gone.                                *)
(***************************************************************************)
EXTENDS Integers

CONSTANTS
    Files,
    MaxDamage       \* bounds the objects of the bucket that get lost or damaged

ASSUME ProductionAssumption == MaxDamage \in Nat

VARIABLES
    row,        \* per deployment, the rows: "none", "pending", "ready" or "gone"
    object,     \* per deployment, the objects of the bucket
    service,    \* per deployment, api and worker: "running", "restarting" or "stopped"
    drained,    \* the services of production whose log has the line of a drain
    damage,     \* how many objects were damaged
    backup,     \* the backup script
    archive,    \* the archive directory
    restore,    \* the restore script
    entrance    \* the deployment the public origin leads to

prodVars == <<row, object, service, drained, damage, backup, archive, restore, entrance>>

Deployments == {"production", "restored"}
Services == {"api", "worker"}
Rows == {"none", "pending", "ready", "gone"}
Objects == {"absent", "good", "short", "wrong"}
BackupSteps == {"idle", "stop api", "check api", "stop worker", "check worker", "dump",
                "manifest", "list", "download", "passed", "failed"}
RestoreSteps == {"idle", "load", "put", "ready", "list", "passed", "failed"}

Nothing == [f \in Files |-> "none"]
EmptyBucket == [f \in Files |-> "absent"]
Down == [s \in Services |-> "stopped"]

\* blind: the worker was between two starts when the script looked for it.  swapped: the
\* files whose archived bytes were other bytes of the same size.  astray: an object of this
\* restore went to production.
BackupTypeOK ==
    /\ backup \in [at : BackupSteps, up : SUBSET Services, blind : BOOLEAN]
    /\ archive \in [dumped : BOOLEAN, rows : [Files -> Rows], listed : BOOLEAN, files : SUBSET Files,
                    objects : [Files -> Objects], report : {"none", "pass", "fail"}, manifest : BOOLEAN]

Restores == [at : RestoreSteps, sent : SUBSET Files, swapped : SUBSET Files, astray : BOOLEAN]

ProductionTypeOK ==
    /\ row \in [Deployments -> [Files -> Rows]]
    /\ object \in [Deployments -> [Files -> Objects]]
    /\ service \in [Deployments -> [Services -> {"running", "restarting", "stopped"}]]
    /\ drained \subseteq Services
    /\ damage \in 0..MaxDamage
    /\ BackupTypeOK
    /\ restore \in Restores
    /\ entrance \in Deployments

\* The deployment has run for a while: its worker may have been drained before, by an
\* operator or by a restart, and its log kept.
ProductionInit ==
    /\ row = [d \in Deployments |-> Nothing]
    /\ object = [d \in Deployments |-> EmptyBucket]
    /\ \E w \in {"running", "restarting", "stopped"} :
        service = [d \in Deployments |->
            IF d = "production" THEN [s \in Services |-> IF s = "api" THEN "running" ELSE w] ELSE Down]
    /\ drained \in SUBSET Services
    /\ damage = 0
    /\ backup = [at |-> "idle", up |-> {}, blind |-> FALSE]
    /\ archive = [dumped |-> FALSE, rows |-> Nothing, listed |-> FALSE, files |-> {},
                  objects |-> EmptyBucket, report |-> "none", manifest |-> FALSE]
    /\ restore = [at |-> "idle", sent |-> {}, swapped |-> {}, astray |-> FALSE]
    /\ entrance = "production"

scripts == <<backup, archive, restore>>

-----------------------------------------------------------------------------
(* The services of a deployment.                                           *)

Runs(d, s) == service[d][s] = "running"

Became(d, f, from, to) ==
    /\ row[d][f] = from
    /\ row' = [row EXCEPT ![d][f] = to]

\* An upload is registered by the api, the file of an export by the worker.
Register(d, f) ==
    /\ \E s \in Services : Runs(d, s)
    /\ Became(d, f, "none", "pending")
    /\ UNCHANGED <<object, service, drained, damage, scripts, entrance>>

\* A copy that was sent may land after its sender has stopped.
Store(d, f) ==
    /\ row[d][f] \in {"pending", "gone"}
    /\ d = "production" \/ \E s \in Services : Runs(d, s)
    /\ object[d][f] = "absent"
    /\ object' = [object EXCEPT ![d][f] = "good"]
    /\ UNCHANGED <<row, service, drained, damage, scripts, entrance>>

Publish(d, f) ==
    /\ \E s \in Services : Runs(d, s)
    /\ object[d][f] = "good"
    /\ Became(d, f, "pending", "ready")
    /\ UNCHANGED <<object, service, drained, damage, scripts, entrance>>

\* A user deletes a file, or the worker the files of a base and of old exports.
Remove(d, f) ==
    /\ \E s \in Services : Runs(d, s)
    /\ \/ Became(d, f, "pending", "gone")
       \/ Became(d, f, "ready", "gone")
    /\ UNCHANGED <<object, service, drained, damage, scripts, entrance>>

CleanUp(d, f) ==
    /\ Runs(d, "worker")
    /\ row[d][f] = "gone"
    /\ object[d][f] # "absent"
    /\ object' = [object EXCEPT ![d][f] = "absent"]
    /\ UNCHANGED <<row, service, drained, damage, scripts, entrance>>

Turn(s, from, to) ==
    /\ service["production"][s] = from
    /\ service' = [service EXCEPT !["production"][s] = to]

\* A service ends by itself; the restart policy starts it again (unless-stopped).
Crash(s) ==
    /\ Turn(s, "running", "restarting")
    /\ UNCHANGED <<row, object, drained, damage, scripts, entrance>>

Restart(s) ==
    /\ Turn(s, "restarting", "running")
    /\ UNCHANGED <<row, object, drained, damage, scripts, entrance>>

\* Storage loses or damages an object of production.
Damage(f) ==
    /\ damage < MaxDamage
    /\ damage' = damage + 1
    /\ \E how \in Objects \ {"good"} :
        /\ object["production"][f] \notin {"absent", how}
        /\ object' = [object EXCEPT !["production"][f] = how]
    /\ UNCHANGED <<row, service, drained, scripts, entrance>>

-----------------------------------------------------------------------------
(* The operator.                                                           *)

InWindow == backup.at \notin {"idle", "passed", "failed"}

\* production-up: after the window, on the machine the origin leads to.
BringUp ==
    /\ ~InWindow
    /\ entrance = "production"
    /\ service' = [service EXCEPT !["production"] = [s \in Services |-> "running"]]
    /\ UNCHANGED <<row, object, drained, damage, scripts, entrance>>

\* production-down: the ports are released, so that the origin leads to the restored
\* deployment from now on; the logs go with the containers.
BringDown ==
    /\ ~InWindow
    /\ entrance = "production"
    /\ service' = [service EXCEPT !["production"] = Down]
    /\ drained' = {}
    /\ entrance' = "restored"
    /\ UNCHANGED <<row, object, damage, scripts>>

\* The worker is drained ahead of the window, as the drill does.
DrainWorker ==
    /\ ~InWindow
    /\ Turn("worker", "running", "stopped")
    /\ drained' = drained \cup {"worker"}
    /\ UNCHANGED <<row, object, damage, scripts, entrance>>

-----------------------------------------------------------------------------
(* The backup script.  Each step may end it; its failures are reported in   *)
(* the archive only once there is a manifest.                              *)

At(step) == backup.at = step
Goto(step) == backup' = [backup EXCEPT !.at = step]
deployments == <<row, object, service, drained, damage, entrance>>

\* fail(): the manifest, if it was built, is written with a report.
Interrupted ==
    /\ Goto("failed")
    /\ archive' = IF archive.listed THEN [archive EXCEPT !.report = "fail", !.manifest = TRUE] ELSE archive

\* An error that is thrown past fail(), or the end of the process.
Thrown == Goto("failed") /\ UNCHANGED archive

\* What Compose reports as running; api must be, the worker may be stopped already.
BackupBegin ==
    /\ At("idle")
    /\ LET up == {s \in Services : Runs("production", s)}
       IN  IF "api" \in up
           THEN backup' = [at |-> "stop api", up |-> up, blind |-> service["production"]["worker"] = "restarting"]
           ELSE Goto("failed")
    /\ UNCHANGED <<deployments, archive, restore>>

\* stopWithBudget: the service drains and logs it in time, or is stopped without; the
\* script throws when it took as long as its budget.
Stop(s, next) ==
    /\ service' = [service EXCEPT !["production"][s] = "stopped"]
    /\ \/ Runs("production", s) /\ drained' = drained \cup {s}
       \/ UNCHANGED drained
    /\ Goto(next) \/ Goto("failed")
    /\ UNCHANGED <<row, object, damage, archive, restore, entrance>>

StopApi == At("stop api") /\ Stop("api", "check api")

\* Whether the worker is stopped by the script.
StopsWorker == "worker" \in backup.up

StopWorker ==
    /\ At("stop worker")
    /\ IF StopsWorker
       THEN Stop("worker", "check worker")
       ELSE Goto("check worker") /\ UNCHANGED <<deployments, archive, restore>>

\* drainLogPresent: the line may be that of an earlier drain, which the log keeps.
Check(s, next) ==
    /\ IF s \in drained THEN Goto(next) /\ UNCHANGED archive ELSE Interrupted
    /\ UNCHANGED <<deployments, restore>>

CheckApi == At("check api") /\ Check("api", "stop worker")
CheckWorker == At("check worker") /\ Check("worker", "dump")

Dump ==
    /\ At("dump")
    /\ \/ /\ archive' = [archive EXCEPT !.dumped = TRUE, !.rows = row["production"]]
          /\ Goto("manifest")
       \/ Interrupted
    /\ UNCHANGED <<deployments, restore>>

\* The ready rows; nothing ties them to the snapshot of the dump but that no service runs.
BuildManifest ==
    /\ At("manifest")
    /\ archive' = [archive EXCEPT !.listed = TRUE,
                                  !.files = {f \in Files : row["production"][f] = "ready"}]
    /\ Goto("list")
    /\ UNCHANGED <<deployments, restore>>

\* Faulty: verifyObjects without the comparison of sizes.
FaultyConsistent(d) == \A f \in archive.files : object[d][f] # "absent"

\* verifyObjects: every object of the manifest is in the bucket with its size.
Consistent(d) == \A f \in archive.files : object[d][f] \in {"good", "wrong"}

\* The bucket of production is listed through the public origin.
ListBucket ==
    /\ At("list")
    /\ IF Consistent(entrance) THEN Goto("download") /\ UNCHANGED archive ELSE Interrupted
    /\ UNCHANGED <<deployments, restore>>

Download(f) ==
    /\ At("download")
    /\ f \in archive.files
    /\ archive.objects[f] = "absent"
    /\ IF object[entrance][f] = "good"
       THEN archive' = [archive EXCEPT !.objects[f] = "good"] /\ UNCHANGED backup
       ELSE Interrupted
    /\ UNCHANGED <<deployments, restore>>

BackupPasses ==
    /\ At("download")
    /\ \A f \in archive.files : archive.objects[f] # "absent"
    /\ archive' = [archive EXCEPT !.report = "pass", !.manifest = TRUE]
    /\ Goto("passed")
    /\ UNCHANGED <<deployments, restore>>

BackupDies ==
    /\ InWindow
    /\ Thrown
    /\ UNCHANGED <<deployments, restore>>

-----------------------------------------------------------------------------
(* The restore script.  Its project is a new one with empty volumes; it may *)
(* be started again with another one.  It takes any archive that has a      *)
(* dump and a manifest, whatever the report says.                           *)

RestoreAt(step) == restore.at = step
Then(step) == restore' = [restore EXCEPT !.at = step]
RestoreFails == Then("failed")

RestoreBegin ==
    /\ restore.at \in {"idle", "failed"}
    /\ ~InWindow
    /\ archive.dumped
    /\ archive.manifest
    /\ row' = [row EXCEPT !["restored"] = Nothing]
    /\ object' = [object EXCEPT !["restored"] = EmptyBucket]
    /\ service' = [service EXCEPT !["restored"] = Down]
    /\ restore' = [at |-> "load", sent |-> {}, swapped |-> {}, astray |-> FALSE]
    /\ UNCHANGED <<drained, damage, backup, archive, entrance>>

\* pg_restore, storage-init and Caddy; a failure is thrown and the target is partial.
Load ==
    /\ RestoreAt("load")
    /\ \/ row' = [row EXCEPT !["restored"] = archive.rows] /\ Then("put")
       \/ RestoreFails /\ UNCHANGED row
    /\ UNCHANGED <<object, service, drained, damage, backup, archive, entrance>>

\* The archived bytes of an object, which may have been cut short or exchanged for others
\* since they were written, are sent through the public origin.  Their digest is in the
\* manifest, but the script does not look at it.
PutObject(f) ==
    /\ RestoreAt("put")
    /\ f \in archive.files \ restore.sent
    /\ IF archive.objects[f] = "absent"
       THEN RestoreFails /\ UNCHANGED object
       ELSE \E bytes \in {archive.objects[f], "short", "wrong"} :
            /\ object' = [object EXCEPT ![entrance][f] = bytes]
            /\ restore' = [restore EXCEPT !.sent = @ \cup {f},
                                          !.swapped = IF bytes = "wrong" THEN @ \cup {f} ELSE @,
                                          !.astray = @ \/ entrance # "restored"]
    /\ UNCHANGED <<row, service, drained, damage, backup, archive, entrance>>

StartServices ==
    /\ RestoreAt("put")
    /\ restore.sent = archive.files
    /\ service' = [service EXCEPT !["restored"] = [s \in Services |-> "running"]]
    /\ Then("ready")
    /\ UNCHANGED <<row, object, drained, damage, backup, archive, entrance>>

\* The public origin answers that it is ready: an api behind it runs.
CheckReady ==
    /\ RestoreAt("ready")
    /\ IF Runs(entrance, "api") THEN Then("list") ELSE RestoreFails
    /\ UNCHANGED <<deployments, backup, archive>>

\* The migration version and the bucket agree with the manifest.
RestorePasses ==
    /\ RestoreAt("list")
    /\ IF Consistent(entrance) THEN Then("passed") ELSE RestoreFails
    /\ UNCHANGED <<deployments, backup, archive>>

RestoreDies ==
    /\ restore.at \notin {"idle", "passed", "failed"}
    /\ RestoreFails
    /\ UNCHANGED <<deployments, backup, archive>>

ProductionNext ==
    \/ \E d \in Deployments, f \in Files :
        Register(d, f) \/ Store(d, f) \/ Publish(d, f) \/ Remove(d, f) \/ CleanUp(d, f)
    \/ \E s \in Services : Crash(s) \/ Restart(s)
    \/ \E f \in Files : Damage(f) \/ Download(f) \/ PutObject(f)
    \/ BringUp \/ BringDown \/ DrainWorker
    \/ BackupBegin \/ StopApi \/ CheckApi \/ StopWorker \/ CheckWorker \/ Dump
    \/ BuildManifest \/ ListBucket \/ BackupPasses \/ BackupDies
    \/ RestoreBegin \/ Load \/ StartServices \/ CheckReady \/ RestorePasses \/ RestoreDies

(***************************************************************************)
(* Properties.                                                             *)
(***************************************************************************)

\* Every file that is ready in the dump of a backup that passed is in the archive with
\* its right bytes, whatever api, worker and storage did meanwhile: the dump, the rows
\* and the bucket are read one after the other.  It needs a worker that was not between
\* two starts when the script looked: such a worker is neither stopped nor, if its log
\* has the line of an earlier drain, noticed.
ArchiveComplete ==
    archive.report = "pass" /\ ~backup.blind =>
        \A f \in Files : archive.rows[f] = "ready" => archive.objects[f] = "good"

\* In a deployment whose restore has passed, and which has run on since, every ready
\* file has its object, also when objects of the archive were lost or cut short, the
\* backup failed or the restore was tried before.  The bytes are the right ones unless
\* this restore was given others of the same size: names and sizes are all it compares,
\* and no other damage gets through.  It needs an origin that leads to the restored
\* deployment when objects are sent: it is the only way to a bucket that the script has.
RestoredIntact ==
    restore.at = "passed" /\ ~backup.blind /\ ~restore.astray =>
        \A f \in Files : row["restored"][f] = "ready" =>
            \/ object["restored"][f] = "good"
            \/ object["restored"][f] = "wrong" /\ f \in restore.swapped

\* A backup and a restore that pass have kept what they report to have kept.
BackupsHold == ArchiveComplete /\ RestoredIntact
=============================================================================
