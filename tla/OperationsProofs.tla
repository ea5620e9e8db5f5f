-------------------------- MODULE OperationsProofs --------------------------
(***************************************************************************)
(* Theorems about Operations: what its parts promise, for any files,       *)
(* leases, limits, creators, containers and bounds.  Each part has an      *)
(* inductive invariant of its own, and a step of one leaves the others     *)
(* alone.                                                                  *)
(***************************************************************************)
EXTENDS Operations, FiniteSetTheorems, WellFoundedInduction, TLAPS

-----------------------------------------------------------------------------
(* Backup and restore.                                                     *)

AfterWorker == {"check worker", "dump", "manifest", "list", "download"}
AfterApi == AfterWorker \cup {"check api", "stop worker"}

\* In the window a service that was stopped stays so; a worker the script does not stop was.
ServicesStopped ==
    /\ backup.at \in AfterApi => service["production"]["api"] = "stopped"
    /\ (InWindow /\ ~backup.blind /\ (StopsWorker => backup.at \in AfterWorker))
           => service["production"]["worker"] = "stopped"

\* From the dump to the manifest no row changes, so that every ready row of the dump is listed;
\* what is downloaded is good, and a report says pass of a whole archive.
ArchiveAgrees ==
    /\ backup.at \in {"idle", "stop api"} \cup (AfterApi \ {"list", "download"}) => ~archive.listed
    /\ backup.at \in {"list", "download", "passed"} => archive.listed
    /\ ~archive.listed => ~archive.manifest
    /\ backup.at = "manifest" /\ ~backup.blind => archive.rows = row["production"]
    /\ archive.listed /\ ~backup.blind => \A f \in Files : archive.rows[f] = "ready" => f \in archive.files
    /\ \A f \in Files : archive.objects[f] \in {"absent", "good"}
    /\ archive.report = "pass" =>
           backup.at = "passed" /\ archive.listed /\ \A f \in archive.files : archive.objects[f] = "good"

\* A restore works on an archive no script writes to any more, in a deployment whose services
\* have not run until every object was sent.
RestoreKnows ==
    /\ restore.at \in {"load", "put", "ready", "list", "passed"} =>
           backup.at \in {"passed", "failed"} /\ archive.listed
    /\ restore.at \in {"load", "put"} => service["restored"] = Down
    /\ restore.at = "load" =>
           object["restored"] = EmptyBucket /\ restore.sent = {} /\ ~restore.astray
    /\ restore.at \in {"put", "ready", "list"} /\ ~restore.astray /\ restore.sent # {} =>
           entrance = "restored"
    /\ restore.at \in {"ready", "list"} => restore.sent = archive.files

\* What was sent may have been cut short or exchanged; nothing else is wrong with a deployment
\* whose objects all went to it, and once they were compared only what was exchanged is.
RestoredObjects ==
    ~restore.astray =>
        /\ restore.at = "put" =>
               /\ row["restored"] = archive.rows
               /\ \A f \in Files : object["restored"][f] \in
                      (IF f \in restore.sent THEN {"good", "short", "wrong"} ELSE {"absent"})
        /\ restore.at \in {"put", "ready", "list", "passed"} =>
               \A f \in Files : object["restored"][f] = "wrong" => f \in restore.swapped
        /\ restore.at \in {"ready", "list", "passed"} /\ ~backup.blind => \A f \in Files :
               /\ row["restored"][f] = "ready" => object["restored"][f] # "absent"
               /\ object["restored"][f] = "short" =>
                      restore.at # "passed" /\ f \in archive.files

ProductionInv ==
    ProductionTypeOK /\ ServicesStopped /\ ArchiveAgrees /\ RestoreKnows /\ RestoredObjects

LEMMA ProductionInitInv == ProductionInit => ProductionInv
<1> SUFFICES ASSUME ProductionInit PROVE ProductionInv
    OBVIOUS
<1> USE DEF ProductionInit, InWindow, StopsWorker, AfterApi, AfterWorker
<1>1. row \in [Deployments -> [Files -> Rows]] /\ object \in [Deployments -> [Files -> Objects]]
    BY DEF Nothing, EmptyBucket, Rows, Objects
<1>2. service \in [Deployments -> [Services -> {"running", "restarting", "stopped"}]]
    BY DEF Down, Deployments, Services
<1>3. BackupTypeOK
    BY DEF BackupTypeOK, BackupSteps, Nothing, EmptyBucket, Rows, Objects
<1>4. ProductionTypeOK
    BY <1>1, <1>2, <1>3, ProductionAssumption DEF ProductionTypeOK, Restores, RestoreSteps, Deployments
<1>5. ServicesStopped /\ RestoreKnows /\ RestoredObjects
    BY DEF ServicesStopped, RestoreKnows, RestoredObjects
<1>6. ArchiveAgrees
    BY DEF ArchiveAgrees, EmptyBucket
<1>7. QED
    BY <1>4, <1>5, <1>6 DEF ProductionInv

\* A change of one file of one deployment.
LEMMA OneFile ==
    ASSUME NEW T, NEW g \in [Deployments -> [Files -> T]], NEW d \in Deployments, NEW f \in Files,
           NEW v \in T
    PROVE  LET h == [g EXCEPT ![d][f] = v]
           IN  /\ h \in [Deployments -> [Files -> T]]
               /\ \A e \in Deployments : e # d => h[e] = g[e]
               /\ h[d][f] = v
               /\ \A x \in Files : x # f => h[d][x] = g[d][x]
OBVIOUS

\* A change of one deployment as a whole.
LEMMA OneDeployment ==
    ASSUME NEW T, NEW g \in [Deployments -> T], NEW d \in Deployments, NEW v \in T
    PROVE  LET h == [g EXCEPT ![d] = v]
           IN  /\ h \in [Deployments -> T]
               /\ h[d] = v
               /\ \A e \in Deployments : e # d => h[e] = g[e]
OBVIOUS

\* A file of a deployment is registered, stored, published, removed or cleaned up.
FileStep(d, f) == Register(d, f) \/ Store(d, f) \/ Publish(d, f) \/ Remove(d, f) \/ CleanUp(d, f)

\* What the services do to a file leaves the rest alone, and needs a service but for copies
\* that land late in production.
LEMMA FileFacts ==
    ASSUME ProductionTypeOK, NEW d \in Deployments, NEW f \in Files, FileStep(d, f)
    PROVE  /\ row' \in [Deployments -> [Files -> Rows]]
           /\ object' \in [Deployments -> [Files -> Objects]]
           /\ UNCHANGED <<service, drained, damage, scripts, entrance>>
           /\ \A e \in Deployments : (\A s \in Services : ~Runs(e, s)) =>
                  row'[e] = row[e] /\ (e # "production" => object'[e] = object[e])
           /\ \A e \in Deployments, x \in Files :
                  /\ row'[e][x] = "ready" /\ row[e][x] # "ready" => object'[e][x] = "good"
                  /\ object'[e][x] \in {object[e][x], "good", "absent"}
                  /\ row[e][x] = "ready" => object'[e][x] = object[e][x]
<1> USE DEF ProductionTypeOK
<1>1. UNCHANGED <<service, drained, damage, scripts, entrance>>
    BY DEF FileStep, Register, Store, Publish, Remove, CleanUp
<1>2. CASE Register(d, f)
    <2>1. row' = [row EXCEPT ![d][f] = "pending"] /\ "pending" \in Rows /\ object' = object
          /\ \E s \in Services : Runs(d, s)
        BY <1>2 DEF Register, Became, Rows
    <2>2. QED
        BY <2>1, <1>1, OneFile
<1>3. CASE Store(d, f)
    <2>1. object' = [object EXCEPT ![d][f] = "good"] /\ "good" \in Objects /\ row' = row
          /\ row[d][f] # "ready" /\ (d = "production" \/ \E s \in Services : Runs(d, s))
        BY <1>3 DEF Store, Objects
    <2>2. QED
        BY <2>1, <1>1, OneFile
<1>4. CASE Publish(d, f)
    <2>1. row' = [row EXCEPT ![d][f] = "ready"] /\ "ready" \in Rows /\ object' = object
          /\ object[d][f] = "good" /\ \E s \in Services : Runs(d, s)
        BY <1>4 DEF Publish, Became, Rows
    <2>2. QED
        BY <2>1, <1>1, OneFile
<1>5. CASE Remove(d, f)
    <2>1. row' = [row EXCEPT ![d][f] = "gone"] /\ "gone" \in Rows /\ object' = object
          /\ \E s \in Services : Runs(d, s)
        BY <1>5 DEF Remove, Became, Rows
    <2>2. QED
        BY <2>1, <1>1, OneFile
<1>6. CASE CleanUp(d, f)
    <2>1. object' = [object EXCEPT ![d][f] = "absent"] /\ "absent" \in Objects /\ row' = row
          /\ row[d][f] # "ready" /\ \E s \in Services : Runs(d, s)
        BY <1>6 DEF CleanUp, Objects, Services
    <2>2. QED
        BY <2>1, <1>1, OneFile
<1>7. QED
    BY <1>2, <1>3, <1>4, <1>5, <1>6 DEF FileStep

\* The services of production, and what starts and stops them.
ServiceStep ==
    \/ \E s \in Services : Crash(s) \/ Restart(s)
    \/ BringUp \/ BringDown \/ DrainWorker
    \/ StopApi \/ StopWorker

LEMMA ServiceFacts ==
    ASSUME ProductionTypeOK, ServiceStep
    PROVE  /\ service' \in [Deployments -> [Services -> {"running", "restarting", "stopped"}]]
           /\ service'["restored"] = service["restored"]
           /\ InWindow => \A s \in Services :
                  service["production"][s] = "stopped" => service'["production"][s] = "stopped"
           /\ UNCHANGED <<row, object, damage, archive, restore>>
           /\ entrance' \in Deployments
           /\ entrance = "restored" => entrance' = "restored"
           /\ drained' \subseteq Services
<1> USE DEF ProductionTypeOK
<1> DEFINE T == {"running", "restarting", "stopped"}
<1>0. /\ "production" \in Deployments /\ "restored" \in Deployments
      /\ "api" \in Services /\ "worker" \in Services
    BY DEF Deployments, Services
<1>1. ASSUME NEW s \in Services, NEW v \in T, service' = [service EXCEPT !["production"][s] = v],
             v = "stopped" \/ ~InWindow \/ service["production"][s] # "stopped"
      PROVE  /\ service' \in [Deployments -> [Services -> T]]
             /\ service'["restored"] = service["restored"]
             /\ InWindow => \A r \in Services :
                    service["production"][r] = "stopped" => service'["production"][r] = "stopped"
    BY <1>0, <1>1
<1>2. ASSUME NEW v \in [Services -> T], service' = [service EXCEPT !["production"] = v]
      PROVE  /\ service' \in [Deployments -> [Services -> T]]
             /\ service'["restored"] = service["restored"]
    BY <1>0, <1>2
<1>3. UNCHANGED <<row, object, damage, archive, restore>>
    BY DEF ServiceStep, Crash, Restart, BringUp, BringDown, DrainWorker, StopApi, StopWorker, Stop,
           scripts, deployments
<1>4. ASSUME NEW s \in Services, Crash(s) \/ Restart(s)
      PROVE  service' =
                [service EXCEPT !["production"][s] = IF Crash(s) THEN "restarting" ELSE "running"]
          /\ service["production"][s] # "stopped" /\ UNCHANGED <<drained, entrance>>
    BY <1>4 DEF Crash, Restart, Turn
<1>5. ASSUME BringUp \/ BringDown PROVE ~InWindow /\ drained' \subseteq Services
          /\ \E v \in [Services -> T] : service' = [service EXCEPT !["production"] = v]
          /\ entrance' \in Deployments /\ entrance # "restored"
    BY <1>5, <1>0 DEF BringUp, BringDown, Down
<1>6. ASSUME DrainWorker \/ StopApi \/ StopWorker
      PROVE  /\ \/ \E s \in Services : service' = [service EXCEPT !["production"][s] = "stopped"]
                \/ service' = service
             /\ drained' \subseteq Services /\ entrance' = entrance
    BY <1>6, <1>0 DEF DrainWorker, StopApi, StopWorker, Stop, Turn, deployments
<1>7. CASE \E s \in Services : Crash(s) \/ Restart(s)
    BY <1>1, <1>3, <1>4, <1>7
<1>8. CASE BringUp \/ BringDown
    BY <1>2, <1>3, <1>5, <1>8
<1>9. CASE DrainWorker \/ StopApi \/ StopWorker
    BY <1>1, <1>3, <1>6, <1>9
<1>10. QED
    BY <1>7, <1>8, <1>9 DEF ServiceStep

BackupStep ==
    \/ BackupBegin \/ StopApi \/ CheckApi \/ StopWorker \/ CheckWorker \/ Dump
    \/ BuildManifest \/ ListBucket \/ (\E f \in Files : Download(f)) \/ BackupPasses \/ BackupDies

\* Where a step of the backup comes from and leads to.
LEMMA BackupFacts ==
    ASSUME ProductionTypeOK, BackupStep
    PROVE  /\ BackupTypeOK'
           /\ backup.at \notin {"passed", "failed"} /\ backup'.at # "idle"
           /\ UNCHANGED <<row, object, damage, restore, entrance>>
           /\ drained' \subseteq Services
<1> USE DEF ProductionTypeOK, BackupTypeOK, BackupSteps
<1>1. ASSUME NEW next \in BackupSteps, Goto(next)
      PROVE  backup' \in [at : BackupSteps, up : SUBSET Services, blind : BOOLEAN] /\ backup'.at = next
    BY <1>1 DEF Goto
<1>2. ASSUME Interrupted
      PROVE  BackupTypeOK' /\ backup'.at = "failed"
    <2>1. archive' = archive \/ archive' = [archive EXCEPT !.report = "fail", !.manifest = TRUE]
        BY <1>2 DEF Interrupted
    <2>2. backup' \in [at : BackupSteps, up : SUBSET Services, blind : BOOLEAN] /\ backup'.at = "failed"
        BY <1>1, <1>2 DEF Interrupted
    <2>3. QED
        BY <2>1, <2>2
<1>3. CASE BackupBegin
    <2>1. CASE "api" \in {s \in Services : Runs("production", s)}
        <3> DEFINE up == {s \in Services : Runs("production", s)}
                   blind == service["production"]["worker"] = "restarting"
        <3>1. backup' = [at |-> "stop api", up |-> up, blind |-> blind]
            BY <1>3, <2>1 DEF BackupBegin
        <3>2. up \in SUBSET Services /\ blind \in BOOLEAN
            OBVIOUS
        <3> HIDE DEF up, blind
        <3>3. backup' \in [at : BackupSteps, up : SUBSET Services, blind : BOOLEAN] /\ backup'.at = "stop api"
            BY <3>1, <3>2
        <3>4. QED
            BY <1>3, <3>3 DEF BackupBegin, At, deployments
    <2>2. CASE "api" \notin {s \in Services : Runs("production", s)}
        BY <1>3, <2>2, <1>1 DEF BackupBegin, At, deployments
    <2>3. QED
        BY <2>1, <2>2
<1>4. CASE StopApi \/ StopWorker
    <2>1. UNCHANGED <<row, object, damage, archive, restore, entrance>> /\ drained' \subseteq Services
          /\ backup.at \in {"stop api", "stop worker"}
        BY <1>4 DEF StopApi, StopWorker, Stop, deployments, At, Services
    <2>2. Goto("check api") \/ Goto("check worker") \/ Goto("failed")
        BY <1>4 DEF StopApi, StopWorker, Stop
    <2>3. QED
        BY <2>1, <2>2, <1>1
<1>5. CASE CheckApi \/ CheckWorker
    <2>1. backup.at \in {"check api", "check worker"} /\ UNCHANGED <<deployments, restore>>
        BY <1>5 DEF CheckApi, CheckWorker, Check, At
    <2>2. ((Goto("stop worker") \/ Goto("dump")) /\ UNCHANGED archive) \/ Interrupted
        BY <1>5 DEF CheckApi, CheckWorker, Check
    <2>3. QED
        BY <2>1, <2>2, <1>1, <1>2 DEF deployments
<1>6. CASE Dump
    <2>1. backup.at = "dump" /\ UNCHANGED <<deployments, restore>>
        BY <1>6 DEF Dump, At
    <2>2. CASE archive' = [archive EXCEPT !.dumped = TRUE, !.rows = row["production"]] /\ Goto("manifest")
        <3>1. row["production"] \in [Files -> Rows]
            BY DEF Deployments
        <3>2. QED
            BY <2>1, <2>2, <3>1, <1>1 DEF deployments
    <2>3. CASE Interrupted
        BY <2>1, <2>3, <1>2 DEF deployments
    <2>4. QED
        BY <2>2, <2>3, <1>6 DEF Dump
<1>7. CASE BuildManifest
    BY <1>7, <1>1 DEF BuildManifest, At, deployments
<1>8. CASE ListBucket
    <2>1. backup.at = "list" /\ UNCHANGED <<deployments, restore>>
        BY <1>8 DEF ListBucket, At
    <2>2. (Goto("download") /\ UNCHANGED archive) \/ Interrupted
        BY <1>8 DEF ListBucket
    <2>3. QED
        BY <2>1, <2>2, <1>1, <1>2 DEF deployments
<1>9. ASSUME NEW f \in Files, Download(f)
      PROVE  /\ BackupTypeOK' /\ backup.at = "download" /\ backup'.at # "idle"
             /\ UNCHANGED <<deployments, restore>>
    <2>1. backup.at = "download" /\ UNCHANGED <<deployments, restore>>
        BY <1>9 DEF Download, At
    <2>2. CASE archive' = [archive EXCEPT !.objects[f] = "good"] /\ UNCHANGED backup
        BY <2>1, <2>2 DEF Objects
    <2>3. CASE Interrupted
        BY <2>1, <2>3, <1>2
    <2>4. QED
        BY <2>2, <2>3, <2>1, <1>9 DEF Download
<1>10. CASE BackupPasses
    BY <1>10, <1>1 DEF BackupPasses, At, deployments
<1>11. CASE BackupDies
    BY <1>11, <1>1 DEF BackupDies, Thrown, InWindow, deployments
<1>12. QED
    BY <1>3, <1>4, <1>5, <1>6, <1>7, <1>8, <1>9, <1>10, <1>11 DEF BackupStep, deployments

RestoreStep ==
    \/ RestoreBegin \/ Load \/ (\E f \in Files : PutObject(f)) \/ StartServices
    \/ CheckReady \/ RestorePasses \/ RestoreDies

\* One object is sent, as the bytes that are in the archive by then.
Puts(f, bytes) ==
    /\ object' = [object EXCEPT ![entrance][f] = bytes]
    /\ restore' = [restore EXCEPT !.sent = @ \cup {f},
                                  !.swapped = IF bytes = "wrong" THEN @ \cup {f} ELSE @,
                                  !.astray = @ \/ entrance # "restored"]

LEMMA PutFacts ==
    ASSUME NEW f \in Files, PutObject(f), archive.objects[f] # "absent"
    PROVE  \E bytes \in {archive.objects[f], "short", "wrong"} : Puts(f, bytes)
BY DEF PutObject, Puts

LEMMA PutsFacts ==
    ASSUME ProductionTypeOK, NEW f \in Files, NEW bytes, Puts(f, bytes)
    PROVE  /\ restore'.at = restore.at /\ restore'.sent = restore.sent \cup {f}
           /\ restore.swapped \subseteq restore'.swapped
           /\ bytes = "wrong" => f \in restore'.swapped
           /\ restore'.astray <=> restore.astray \/ entrance # "restored"
           /\ entrance = "restored" =>
                  /\ object'["restored"][f] = bytes
                  /\ \A x \in Files : x # f => object'["restored"][x] = object["restored"][x]
<1>1. /\ restore'.at = restore.at /\ restore'.sent = restore.sent \cup {f}
      /\ restore'.swapped = IF bytes = "wrong" THEN restore.swapped \cup {f} ELSE restore.swapped
    BY DEF Puts, ProductionTypeOK, Restores
<1>2. restore'.astray <=> restore.astray \/ entrance # "restored"
    BY DEF Puts, ProductionTypeOK, Restores
<1>3. entrance = "restored" =>
          /\ object'["restored"][f] = bytes
          /\ \A x \in Files : x # f => object'["restored"][x] = object["restored"][x]
    BY DEF Puts, ProductionTypeOK, Deployments
<1>4. QED
    BY <1>1, <1>2, <1>3

\* A step of the restore leaves the backup alone, and production but for what is sent astray.
LEMMA RestoreFacts ==
    ASSUME ProductionTypeOK, RestoreStep
    PROVE  /\ row' \in [Deployments -> [Files -> Rows]] /\ row'["production"] = row["production"]
           /\ object' \in [Deployments -> [Files -> Objects]]
           /\ service' \in [Deployments -> [Services -> {"running", "restarting", "stopped"}]]
           /\ service'["production"] = service["production"]
           /\ restore' \in Restores
           /\ UNCHANGED <<drained, damage, backup, archive, entrance>>
<1> USE DEF ProductionTypeOK, Restores, RestoreSteps
<1>0. "production" \in Deployments /\ "restored" \in Deployments
    BY DEF Deployments
<1>1. ASSUME NEW step \in RestoreSteps, Then(step)
      PROVE  restore' \in Restores
    BY <1>1 DEF Then
<1>2. RestoreFails => restore' \in Restores
    BY <1>1 DEF RestoreFails
<1>3. UNCHANGED <<drained, damage, backup, archive, entrance>>
    BY DEF RestoreStep, RestoreBegin, Load, PutObject, StartServices, CheckReady, RestorePasses,
           RestoreDies, deployments
<1>4. CASE RestoreBegin
    <2>1. Nothing \in [Files -> Rows] /\ EmptyBucket \in [Files -> Objects]
          /\ Down \in [Services -> {"running", "restarting", "stopped"}]
        BY DEF Nothing, EmptyBucket, Down, Rows, Objects
    <2>2. QED
        BY <1>0, <1>3, <1>4, <2>1 DEF RestoreBegin
<1>5. CASE Load
    <2>1. archive.rows \in [Files -> Rows]
        BY DEF BackupTypeOK
    <2>2. row' = row \/ row' = [row EXCEPT !["restored"] = archive.rows]
        BY <1>5 DEF Load
    <2>3. Then("put") \/ RestoreFails
        BY <1>5 DEF Load
    <2>4. QED
        BY <1>0, <1>1, <1>2, <1>3, <1>5, <2>1, <2>2, <2>3 DEF Load
<1>6. ASSUME NEW f \in Files, PutObject(f)
      PROVE  /\ object' \in [Deployments -> [Files -> Objects]]
             /\ restore' \in Restores
             /\ UNCHANGED <<row, service>>
    <2>1. UNCHANGED <<row, service>>
        BY <1>6 DEF PutObject
    <2>2. CASE archive.objects[f] = "absent"
        BY <1>2, <1>6, <2>1, <2>2 DEF PutObject
    <2>3. CASE archive.objects[f] # "absent"
        <3>1. archive.objects[f] \in Objects /\ "short" \in Objects /\ "wrong" \in Objects
            BY DEF BackupTypeOK, Objects
        <3>2. PICK bytes \in {archive.objects[f], "short", "wrong"} : Puts(f, bytes)
            BY <1>6, <2>3, PutFacts
        <3>3. object' \in [Deployments -> [Files -> Objects]]
            BY <3>1, <3>2, OneFile DEF Puts
        <3>4. restore' \in Restores
            BY <3>2 DEF Puts
        <3>5. QED
            BY <2>1, <3>3, <3>4
    <2>4. QED
        BY <2>2, <2>3
<1>7. CASE StartServices
    BY <1>0, <1>1, <1>3, <1>7 DEF StartServices
<1>8. CASE CheckReady \/ RestorePasses \/ RestoreDies
    BY <1>1, <1>2, <1>3, <1>8 DEF CheckReady, RestorePasses, RestoreDies, deployments
<1>9. QED
    BY <1>3, <1>4, <1>5, <1>6, <1>7, <1>8 DEF RestoreStep

LEMMA DamageFacts ==
    ASSUME ProductionTypeOK, NEW f \in Files, Damage(f)
    PROVE  /\ object' \in [Deployments -> [Files -> Objects]] /\ object'["restored"] = object["restored"]
           /\ damage' \in 0..MaxDamage
           /\ UNCHANGED <<row, service, drained, scripts, entrance>>
<1>1. PICK how \in Objects \ {"good"} : object' = [object EXCEPT !["production"][f] = how]
    BY DEF Damage
<1>2. "production" \in Deployments /\ "restored" \in Deployments
    BY DEF Deployments
<1>3. QED
    BY <1>1, <1>2, ProductionAssumption DEF Damage, ProductionTypeOK

LEMMA ProductionSteps ==
    ASSUME [ProductionNext]_prodVars
    PROVE  \/ \E d \in Deployments, f \in Files : FileStep(d, f)
           \/ ServiceStep \/ BackupStep \/ RestoreStep
           \/ \E f \in Files : Damage(f)
           \/ UNCHANGED prodVars
BY DEF ProductionNext, FileStep, ServiceStep, BackupStep, RestoreStep

LEMMA GotoFacts ==
    ASSUME BackupTypeOK, NEW step, Goto(step)
    PROVE  backup'.at = step /\ backup'.up = backup.up /\ backup'.blind = backup.blind
BY DEF BackupTypeOK, Goto

LEMMA InterruptedFacts ==
    ASSUME BackupTypeOK, Interrupted
    PROVE  /\ backup'.at = "failed" /\ backup'.up = backup.up /\ backup'.blind = backup.blind
           /\ archive'.rows = archive.rows /\ archive'.listed = archive.listed
           /\ archive'.files = archive.files /\ archive'.objects = archive.objects
           /\ archive'.manifest = archive.manifest \/ archive.listed
           /\ archive'.report # "pass" \/ archive' = archive
<1>1. Goto("failed")
    BY DEF Interrupted
<1>2. \/ archive' = archive
      \/ (archive.listed /\ archive' = [archive EXCEPT !.report = "fail", !.manifest = TRUE])
    BY DEF Interrupted
<1>3. backup'.at = "failed" /\ backup'.up = backup.up /\ backup'.blind = backup.blind
    BY <1>1, GotoFacts
<1>4. /\ archive'.rows = archive.rows /\ archive'.listed = archive.listed
      /\ archive'.files = archive.files /\ archive'.objects = archive.objects
      /\ archive'.manifest = archive.manifest \/ archive.listed
      /\ archive'.report # "pass" \/ archive' = archive
    <2>1. CASE archive' = archive
        BY <2>1
    <2>2. CASE archive.listed /\ archive' = [archive EXCEPT !.report = "fail", !.manifest = TRUE]
        BY <2>2 DEF BackupTypeOK
    <2>3. QED
        BY <1>2, <2>1, <2>2
<1>5. QED
    BY <1>3, <1>4

LEMMA BeginFacts ==
    ASSUME ProductionTypeOK, BackupBegin
    PROVE  /\ backup.at = "idle" /\ backup'.at \in {"stop api", "failed"}
           /\ UNCHANGED <<deployments, archive, restore>>
           /\ backup'.at = "stop api" /\ ~backup'.blind /\ "worker" \notin backup'.up =>
                  service["production"]["worker"] = "stopped"
<1> DEFINE up == {s \in Services : Runs("production", s)}
           blind == service["production"]["worker"] = "restarting"
<1>1. CASE "api" \in up
    <2>1. backup' = [at |-> "stop api", up |-> up, blind |-> blind]
        BY <1>1 DEF BackupBegin
    <2>2. ~blind /\ "worker" \notin up => service["production"]["worker"] = "stopped"
        BY DEF ProductionTypeOK, Deployments, Services, Runs
    <2> HIDE DEF up, blind
    <2>3. backup'.at = "stop api" /\ backup'.up = up /\ (backup'.blind <=> blind)
        BY <2>1
    <2>4. backup.at = "idle" /\ UNCHANGED <<deployments, archive, restore>>
        BY DEF BackupBegin, At
    <2>5. QED
        BY <2>2, <2>3, <2>4
<1>2. CASE "api" \notin up
    <2>1. Goto("failed") /\ backup.at = "idle" /\ UNCHANGED <<deployments, archive, restore>>
        BY <1>2 DEF BackupBegin, At
    <2>2. backup'.at = "failed"
        BY <2>1, GotoFacts DEF ProductionTypeOK
    <2>3. QED
        BY <2>1, <2>2
<1>3. QED
    BY <1>1, <1>2

LEMMA KeepsServicesStopped ==
    ASSUME ProductionInv, [ProductionNext]_prodVars PROVE ServicesStopped'
<1>0. ProductionTypeOK /\ BackupTypeOK /\ ServicesStopped
    BY DEF ProductionInv, ProductionTypeOK
<1>1. ASSUME UNCHANGED backup,
             InWindow => \A s \in Services :
                 service["production"][s] = "stopped" => service'["production"][s] = "stopped"
      PROVE  ServicesStopped'
    BY <1>0, <1>1 DEF ServicesStopped, AfterApi, AfterWorker, InWindow, StopsWorker, Services
<1>2. CASE BackupBegin
    BY <1>0, <1>2, BeginFacts
       DEF ServicesStopped, AfterApi, AfterWorker, InWindow, StopsWorker, deployments
<1>3. ASSUME backup'.at \in {"passed", "failed"} PROVE ServicesStopped'
    BY <1>3 DEF ServicesStopped, AfterApi, AfterWorker, InWindow
<1>4. "api" \in Services /\ "worker" \in Services
    BY DEF Services
<1>5. ASSUME NEW s \in Services, service' = [service EXCEPT !["production"][s] = "stopped"]
      PROVE  /\ service'["production"][s] = "stopped"
             /\ \A r \in Services :
                    service["production"][r] = "stopped" => service'["production"][r] = "stopped"
    BY <1>0, <1>5 DEF ProductionTypeOK, Deployments
<1>6. CASE StopApi
    <2>1. service' = [service EXCEPT !["production"]["api"] = "stopped"] /\ backup.at = "stop api"
          /\ (Goto("check api") \/ Goto("failed"))
        BY <1>6 DEF StopApi, Stop, At
    <2>2. backup'.up = backup.up /\ backup'.blind = backup.blind /\ backup'.at \in {"check api", "failed"}
        BY <1>0, <2>1, GotoFacts
    <2>3. QED
        BY <1>0, <1>4, <1>5, <2>1, <2>2
           DEF ServicesStopped, AfterApi, AfterWorker, InWindow, StopsWorker
<1>7. CASE StopWorker
    <2>1. backup.at = "stop worker" /\ (Goto("check worker") \/ Goto("failed"))
          /\ IF StopsWorker THEN service' = [service EXCEPT !["production"]["worker"] = "stopped"]
             ELSE service' = service
        BY <1>7 DEF StopWorker, Stop, At, deployments
    <2>2. backup'.up = backup.up /\ backup'.blind = backup.blind /\ backup'.at \in {"check worker", "failed"}
        BY <1>0, <2>1, GotoFacts
    <2>3. QED
        BY <1>0, <1>4, <1>5, <2>1, <2>2
           DEF ServicesStopped, AfterApi, AfterWorker, InWindow, StopsWorker
<1>8. ASSUME NEW step, backup.at \in AfterApi, step \in AfterApi,
             step \in AfterWorker => backup.at \in AfterWorker, Goto(step), service' = service
      PROVE  ServicesStopped'
    <2>1. backup'.up = backup.up /\ backup'.blind = backup.blind /\ backup'.at = step
        BY <1>0, <1>8, GotoFacts
    <2>2. QED
        BY <1>0, <1>8, <2>1 DEF ServicesStopped, AfterApi, AfterWorker, InWindow, StopsWorker
<1>9. Interrupted => ServicesStopped'
    BY <1>0, <1>3, InterruptedFacts
<1>10. CASE CheckApi \/ CheckWorker
    <2>1. /\ service' = service
          /\ \/ backup.at = "check api" /\ Goto("stop worker")
             \/ backup.at = "check worker" /\ Goto("dump")
             \/ Interrupted
        BY <1>10 DEF CheckApi, CheckWorker, Check, At, deployments
    <2>2. QED
        BY <1>8, <1>9, <2>1 DEF AfterApi, AfterWorker
<1>11. CASE Dump \/ BuildManifest \/ ListBucket
    <2>1. /\ service' = service
          /\ \/ backup.at = "dump" /\ Goto("manifest")
             \/ backup.at = "manifest" /\ Goto("list")
             \/ backup.at = "list" /\ Goto("download")
             \/ Interrupted
        BY <1>11 DEF Dump, BuildManifest, ListBucket, At, deployments
    <2>2. QED
        BY <1>8, <1>9, <2>1 DEF AfterApi, AfterWorker
<1>12. CASE \E f \in Files : Download(f)
    <2>1. service' = service /\ (UNCHANGED backup \/ Interrupted)
        BY <1>12 DEF Download, deployments
    <2>2. QED
        BY <1>1, <1>9, <2>1
<1>13. CASE BackupPasses \/ BackupDies
    <2>1. Goto("passed") \/ Goto("failed")
        BY <1>13 DEF BackupPasses, BackupDies, Thrown
    <2>2. QED
        BY <1>0, <1>3, <2>1, GotoFacts
<1>14. CASE BackupStep
    BY <1>2, <1>6, <1>7, <1>10, <1>11, <1>12, <1>13, <1>14 DEF BackupStep
<1>15. CASE ServiceStep /\ ~BackupStep
    <2>1. UNCHANGED backup
        BY <1>15 DEF ServiceStep, BackupStep, Crash, Restart, BringUp, BringDown, DrainWorker, scripts
    <2>2. QED
        BY <1>0, <1>1, <1>15, <2>1, ServiceFacts
<1>16. CASE RestoreStep
    BY <1>0, <1>1, <1>16, RestoreFacts
<1>17. ASSUME NEW d \in Deployments, NEW f \in Files, FileStep(d, f) \/ Damage(f) PROVE ServicesStopped'
    BY <1>0, <1>1, <1>17, FileFacts, DamageFacts DEF scripts
<1>18. CASE UNCHANGED prodVars
    BY <1>1, <1>18 DEF prodVars
<1>19. QED
    BY <1>14, <1>15, <1>16, <1>17, <1>18, ProductionSteps DEF Deployments

LEMMA KeepsProductionTypes ==
    ASSUME ProductionTypeOK, [ProductionNext]_prodVars PROVE ProductionTypeOK'
<1>1. ASSUME NEW d \in Deployments, NEW f \in Files, FileStep(d, f) PROVE ProductionTypeOK'
    BY <1>1, FileFacts DEF ProductionTypeOK, scripts, BackupTypeOK
<1>2. CASE ServiceStep /\ ~BackupStep
    <2>1. UNCHANGED backup
        BY <1>2 DEF ServiceStep, BackupStep, Crash, Restart, BringUp, BringDown, DrainWorker, scripts
    <2>2. QED
        BY <1>2, <2>1, ServiceFacts DEF ProductionTypeOK, BackupTypeOK
<1>3. CASE BackupStep
    <2>1. service' \in [Deployments -> [Services -> {"running", "restarting", "stopped"}]]
        <3>1. CASE ServiceStep
            BY <3>1, ServiceFacts
        <3>2. CASE ~ServiceStep
            BY <1>3, <3>2 DEF ServiceStep, BackupStep, BackupBegin, CheckApi, CheckWorker, Check, Dump,
                BuildManifest, ListBucket, Download, BackupPasses, BackupDies, deployments, ProductionTypeOK
        <3>3. QED
            BY <3>1, <3>2
    <2>2. QED
        BY <1>3, <2>1, BackupFacts DEF ProductionTypeOK
<1>4. CASE RestoreStep
    BY <1>4, RestoreFacts DEF ProductionTypeOK, BackupTypeOK
<1>5. ASSUME NEW f \in Files, Damage(f) PROVE ProductionTypeOK'
    BY <1>5, DamageFacts DEF ProductionTypeOK, scripts, BackupTypeOK
<1>6. CASE UNCHANGED prodVars
    BY <1>6 DEF ProductionTypeOK, BackupTypeOK, prodVars
<1>7. QED
    BY <1>1, <1>2, <1>3, <1>4, <1>5, <1>6, ProductionSteps

\* ArchiveAgrees looks at the backup, the archive and, before the manifest, the rows of production.
LEMMA KeepsArchive ==
    ASSUME ProductionInv, [ProductionNext]_prodVars PROVE ArchiveAgrees'
<1>0. ProductionTypeOK /\ BackupTypeOK /\ ServicesStopped /\ ArchiveAgrees
    BY DEF ProductionInv, ProductionTypeOK
<1>1. ASSUME UNCHANGED <<backup, archive>>, backup.at = "manifest" /\ ~backup.blind =>
                 row'["production"] = row["production"]
      PROVE  ArchiveAgrees'
    BY <1>0, <1>1 DEF ArchiveAgrees, AfterApi, AfterWorker
<1>2. ASSUME archive' = archive, backup'.blind = backup.blind,
             \/ backup'.at = "failed" /\ backup.at # "passed"
             \/ backup.at = "stop api" /\ backup'.at = "check api"
             \/ backup.at = "check api" /\ backup'.at = "stop worker"
             \/ backup.at = "stop worker" /\ backup'.at = "check worker"
             \/ backup.at = "check worker" /\ backup'.at = "dump"
             \/ backup.at = "list" /\ backup'.at = "download"
      PROVE  ArchiveAgrees'
    BY <1>0, <1>2 DEF ArchiveAgrees, AfterApi, AfterWorker
<1>3. ASSUME Interrupted, backup.at \in AfterApi PROVE ArchiveAgrees'
    BY <1>0, <1>3, InterruptedFacts DEF ArchiveAgrees, AfterApi, AfterWorker
<1>4. CASE BackupBegin
    <2>1. backup'.at \in {"stop api", "failed"} /\ archive' = archive /\ backup.at = "idle"
        BY <1>0, <1>4, BeginFacts
    <2>2. QED
        BY <1>0, <2>1 DEF ArchiveAgrees, AfterApi, AfterWorker
<1>5. CASE StopApi \/ StopWorker \/ BackupDies
    <2>1. /\ archive' = archive
          /\ \/ backup.at = "stop api" /\ Goto("check api")
             \/ backup.at = "stop worker" /\ Goto("check worker")
             \/ backup.at # "passed" /\ Goto("failed")
        BY <1>5 DEF StopApi, StopWorker, Stop, At, BackupDies, Thrown, InWindow
    <2>2. QED
        BY <1>0, <1>2, <2>1, GotoFacts
<1>6. CASE CheckApi \/ CheckWorker \/ ListBucket
    <2>1. \/ archive' = archive /\ backup.at = "check api" /\ Goto("stop worker")
          \/ archive' = archive /\ backup.at = "check worker" /\ Goto("dump")
          \/ archive' = archive /\ backup.at = "list" /\ Goto("download")
          \/ backup.at \in AfterApi /\ Interrupted
        BY <1>6 DEF CheckApi, CheckWorker, Check, ListBucket, At, AfterApi, AfterWorker
    <2>2. QED
        BY <1>0, <1>2, <1>3, <2>1, GotoFacts
<1>7. CASE Dump
    <2>1. backup.at = "dump" /\ row' = row
        BY <1>7 DEF Dump, At, deployments
    <2>2. CASE archive' = [archive EXCEPT !.dumped = TRUE, !.rows = row["production"]] /\ Goto("manifest")
        <3>1. backup'.at = "manifest" /\ backup'.blind = backup.blind
            BY <1>0, <2>2, GotoFacts
        <3>2. /\ archive'.listed = archive.listed /\ archive'.objects = archive.objects
              /\ archive'.manifest = archive.manifest /\ archive'.report = archive.report
              /\ archive'.rows = row["production"]
            BY <1>0, <2>2 DEF BackupTypeOK
        <3>3. QED
            BY <1>0, <2>1, <3>1, <3>2 DEF ArchiveAgrees, AfterApi, AfterWorker
    <2>3. CASE Interrupted
        BY <1>3, <2>1, <2>3 DEF AfterApi, AfterWorker
    <2>4. QED
        BY <1>7, <2>2, <2>3 DEF Dump
<1>8. CASE BuildManifest
    <2>1. /\ archive'.rows = archive.rows /\ archive'.objects = archive.objects
          /\ archive'.manifest = archive.manifest /\ archive'.report = archive.report
          /\ archive'.listed /\ archive'.files = {f \in Files : row["production"][f] = "ready"}
          /\ backup.at = "manifest"
        BY <1>0, <1>8 DEF BuildManifest, BackupTypeOK, At
    <2>2. backup'.at = "list" /\ backup'.blind = backup.blind
        BY <1>0, <1>8, GotoFacts DEF BuildManifest
    <2>3. QED
        BY <1>0, <2>1, <2>2 DEF ArchiveAgrees, AfterApi, AfterWorker
<1>9. ASSUME NEW f \in Files, Download(f) PROVE ArchiveAgrees'
    <2>1. backup.at = "download"
        BY <1>9 DEF Download, At
    <2>2. CASE archive' = [archive EXCEPT !.objects[f] = "good"] /\ UNCHANGED backup
        <3>1. /\ archive'.rows = archive.rows /\ archive'.listed = archive.listed
              /\ archive'.files = archive.files /\ archive'.manifest = archive.manifest
              /\ archive'.report = archive.report
              /\ \A x \in Files : archive'.objects[x] \in {archive.objects[x], "good"}
            BY <1>0, <2>2 DEF BackupTypeOK
        <3>2. QED
            BY <1>0, <2>1, <2>2, <3>1 DEF ArchiveAgrees, AfterApi, AfterWorker
    <2>3. CASE Interrupted
        BY <1>3, <2>1, <2>3 DEF AfterApi, AfterWorker
    <2>4. QED
        BY <1>9, <2>2, <2>3 DEF Download
<1>10. CASE BackupPasses
    <2>1. /\ archive'.rows = archive.rows /\ archive'.listed = archive.listed
          /\ archive'.files = archive.files /\ archive'.objects = archive.objects
          /\ archive.files \subseteq Files
        BY <1>0, <1>10 DEF BackupPasses, BackupTypeOK
    <2>2. backup'.at = "passed" /\ backup'.blind = backup.blind /\ backup.at = "download"
        BY <1>0, <1>10, GotoFacts DEF BackupPasses, At
    <2>3. \A f \in archive.files : archive.objects[f] # "absent"
        BY <1>10 DEF BackupPasses
    <2>4. QED
        BY <1>0, <2>1, <2>2, <2>3 DEF ArchiveAgrees, AfterApi, AfterWorker
<1>11. CASE BackupStep
    BY <1>4, <1>5, <1>6, <1>7, <1>8, <1>9, <1>10, <1>11 DEF BackupStep
<1>12. CASE ServiceStep /\ ~BackupStep
    <2>1. UNCHANGED backup
        BY <1>12 DEF ServiceStep, BackupStep, Crash, Restart, BringUp, BringDown, DrainWorker, scripts
    <2>2. QED
        BY <1>0, <1>1, <1>12, <2>1, ServiceFacts
<1>13. CASE RestoreStep
    BY <1>0, <1>1, <1>13, RestoreFacts
<1>14. ASSUME NEW d \in Deployments, NEW f \in Files, FileStep(d, f) PROVE ArchiveAgrees'
    <2>1. UNCHANGED <<backup, archive>>
        BY <1>0, <1>14, FileFacts DEF scripts
    <2>2. ASSUME backup.at = "manifest" /\ ~backup.blind PROVE row'["production"] = row["production"]
        <3>1. \A s \in Services : service["production"][s] = "stopped"
            BY <1>0, <2>2 DEF ServicesStopped, InWindow, Services, AfterApi, AfterWorker
        <3>2. QED
            BY <1>0, <1>14, <3>1, FileFacts DEF Runs, Deployments
    <2>3. QED
        BY <1>1, <2>1, <2>2
<1>15. ASSUME NEW f \in Files, Damage(f) PROVE ArchiveAgrees'
    BY <1>0, <1>1, <1>15, DamageFacts DEF scripts
<1>16. CASE UNCHANGED prodVars
    BY <1>1, <1>16 DEF prodVars
<1>17. QED
    BY <1>11, <1>12, <1>13, <1>14, <1>15, <1>16, ProductionSteps

\* Once a restore can begin, the backup and its archive rest.
LEMMA BackupRests ==
    ASSUME ProductionTypeOK, [ProductionNext]_prodVars, backup.at \in {"passed", "failed"}
    PROVE  UNCHANGED <<backup, archive>>
<1>1. ~BackupStep
    BY BackupFacts
<1>2. ServiceStep => UNCHANGED <<backup, archive>>
    BY <1>1 DEF ServiceStep, BackupStep, Crash, Restart, BringUp, BringDown, DrainWorker, scripts
<1>3. RestoreStep => UNCHANGED <<backup, archive>>
    BY RestoreFacts
<1>4. ASSUME NEW d \in Deployments, NEW f \in Files, FileStep(d, f) \/ Damage(f)
      PROVE  UNCHANGED <<backup, archive>>
    BY <1>4, FileFacts, DamageFacts DEF scripts
<1>5. QED
    BY <1>1, <1>2, <1>3, <1>4, ProductionSteps DEF prodVars, Deployments

\* What a step that is not one of the restore script may do to the restored deployment.
RestoredGoesOn ==
    /\ UNCHANGED restore
    /\ service'["restored"] = service["restored"]
    /\ entrance = "restored" => entrance' = "restored"
    /\ service["restored"] = Down =>
           row'["restored"] = row["restored"] /\ object'["restored"] = object["restored"]
    /\ \A x \in Files :
           /\ row'["restored"][x] = "ready" /\ row["restored"][x] # "ready" =>
                  object'["restored"][x] = "good"
           /\ object'["restored"][x] \in {object["restored"][x], "good", "absent"}
           /\ row["restored"][x] = "ready" => object'["restored"][x] = object["restored"][x]

LEMMA RestoreRests ==
    ASSUME ProductionTypeOK, [ProductionNext]_prodVars, ~RestoreStep PROVE RestoredGoesOn
<1>0. "restored" \in Deployments /\ "restored" # "production" /\ \A s \in Services : Down[s] # "running"
    BY DEF Deployments, Down
<1>1. ASSUME UNCHANGED <<row, restore>>, object'["restored"] = object["restored"],
             service'["restored"] = service["restored"], entrance = "restored" => entrance' = "restored"
      PROVE  RestoredGoesOn
    BY <1>1 DEF RestoredGoesOn
<1>2. ASSUME NEW d \in Deployments, NEW f \in Files, FileStep(d, f)
      PROVE  RestoredGoesOn
    <2>1. UNCHANGED <<service, restore, entrance>>
        BY <1>2, FileFacts DEF scripts
    <2>2. service["restored"] = Down => \A s \in Services : ~Runs("restored", s)
        BY <1>0 DEF Runs
    <2>3. service["restored"] = Down =>
             row'["restored"] = row["restored"] /\ object'["restored"] = object["restored"]
        BY <1>0, <1>2, <2>2, FileFacts
    <2>4. QED
        BY <1>0, <1>2, <2>1, <2>3, FileFacts DEF RestoredGoesOn
<1>3. CASE ServiceStep
    BY <1>1, <1>3, ServiceFacts
<1>4. CASE BackupStep /\ ~ServiceStep
    <2>1. UNCHANGED service
        BY <1>4 DEF ServiceStep, BackupStep, BackupBegin, CheckApi, CheckWorker, Check, Dump,
            BuildManifest, ListBucket, Download, BackupPasses, BackupDies, deployments
    <2>2. QED
        BY <1>1, <1>4, <2>1, BackupFacts
<1>5. ASSUME NEW f \in Files, Damage(f) PROVE RestoredGoesOn
    BY <1>1, <1>5, DamageFacts DEF scripts
<1>6. CASE UNCHANGED prodVars
    BY <1>1, <1>6 DEF prodVars
<1>7. QED
    BY <1>2, <1>3, <1>4, <1>5, <1>6, ProductionSteps

LEMMA KeepsRestore ==
    ASSUME ProductionInv, [ProductionNext]_prodVars PROVE RestoreKnows'
<1>0. ProductionTypeOK /\ BackupTypeOK /\ RestoreKnows /\ ArchiveAgrees
    BY DEF ProductionInv, ProductionTypeOK
<1>1. backup.at \in {"passed", "failed"} => UNCHANGED <<backup, archive>>
    BY <1>0, BackupRests
<1>2. CASE ~RestoreStep
    BY <1>0, <1>1, <1>2, RestoreRests DEF RestoreKnows, RestoredGoesOn
<1>3. CASE RestoreStep
    <2>0. UNCHANGED <<backup, archive, entrance>> /\ "restored" \in Deployments
        BY <1>0, <1>3, RestoreFacts DEF Deployments
    <2>1. CASE RestoreBegin
        <3>1. restore' = [at |-> "load", sent |-> {}, swapped |-> {}, astray |-> FALSE]
              /\ service'["restored"] = Down /\ object'["restored"] = EmptyBucket
            BY <1>0, <2>0, <2>1 DEF RestoreBegin, ProductionTypeOK
        <3>2. archive.listed
            BY <1>0, <2>1 DEF RestoreBegin, ArchiveAgrees
        <3>3. backup.at \in {"passed", "failed"}
            BY <1>0, <2>1, <3>2 DEF RestoreBegin, ArchiveAgrees, InWindow
        <3>4. QED
            BY <2>0, <3>1, <3>2, <3>3 DEF RestoreKnows
    <2>2. ASSUME NEW step, Then(step)
          PROVE  restore'.at = step /\ restore'.sent = restore.sent /\ restore'.astray = restore.astray
                 /\ restore'.swapped = restore.swapped
        BY <1>0, <2>2 DEF Then, ProductionTypeOK, Restores
    <2>3. ASSUME RestoreFails PROVE RestoreKnows'
        BY <2>2, <2>3 DEF RestoreFails, RestoreKnows
    <2>4. CASE Load
        <3>1. CASE Then("put")
            <4>1. restore'.at = "put" /\ restore'.sent = restore.sent /\ restore'.astray = restore.astray
                BY <2>2, <3>1
            <4>2. restore.at = "load" /\ service' = service
                BY <2>4 DEF Load, RestoreAt
            <4>3. QED
                BY <1>0, <2>0, <4>1, <4>2 DEF RestoreKnows
        <3>2. QED
            BY <2>3, <2>4, <3>1 DEF Load
    <2>5. ASSUME NEW f \in Files, PutObject(f) PROVE RestoreKnows'
        <3>1. CASE archive.objects[f] = "absent"
            BY <2>3, <2>5, <3>1 DEF PutObject
        <3>2. CASE archive.objects[f] # "absent"
            <4>1. restore.at = "put" /\ service' = service
                BY <2>5 DEF PutObject, RestoreAt
            <4>2. restore'.at = "put" /\ (restore'.astray <=> restore.astray \/ entrance # "restored")
                BY <1>0, <2>5, <3>2, <4>1, PutFacts, PutsFacts
            <4>3. QED
                BY <1>0, <2>0, <4>1, <4>2 DEF RestoreKnows
        <3>3. QED
            BY <3>1, <3>2
    <2>6. CASE StartServices
        <3>1. restore'.at = "ready" /\ restore'.sent = restore.sent /\ restore'.astray = restore.astray
              /\ restore.at = "put" /\ restore.sent = archive.files
            BY <2>2, <2>6 DEF StartServices, RestoreAt
        <3>2. QED
            BY <1>0, <2>0, <3>1 DEF RestoreKnows
    <2>7. CASE CheckReady \/ RestorePasses
        <3>1. CASE Then("list") \/ Then("passed")
            <4>1. /\ restore'.at \in {"list", "passed"}
                  /\ restore'.sent = restore.sent /\ restore'.astray = restore.astray
                BY <2>2, <3>1
            <4>2. restore.at \in {"ready", "list"}
                BY <2>7 DEF CheckReady, RestorePasses, RestoreAt
            <4>3. QED
                BY <1>0, <2>0, <4>1, <4>2 DEF RestoreKnows
        <3>2. QED
            BY <2>3, <2>7, <3>1 DEF CheckReady, RestorePasses
    <2>8. CASE RestoreDies
        BY <2>3, <2>8 DEF RestoreDies
    <2>9. QED
        BY <1>3, <2>1, <2>4, <2>5, <2>6, <2>7, <2>8 DEF RestoreStep
<1>4. QED
    BY <1>2, <1>3

LEMMA KeepsRestoredObjects ==
    ASSUME ProductionInv, [ProductionNext]_prodVars PROVE RestoredObjects'
<1>0. ProductionTypeOK /\ BackupTypeOK /\ RestoreKnows /\ ArchiveAgrees /\ RestoredObjects
    BY DEF ProductionInv, ProductionTypeOK
<1>1. backup.at \in {"passed", "failed"} => UNCHANGED <<backup, archive>>
    BY <1>0, BackupRests
<1>2. CASE ~RestoreStep
    <2>1. RestoredGoesOn
        BY <1>0, <1>2, RestoreRests
    <2>2. CASE restore.at = "put"
        BY <1>0, <1>1, <2>1, <2>2 DEF RestoreKnows, RestoredGoesOn, RestoredObjects
    <2>3. CASE restore.at \in {"ready", "list", "passed"}
        BY <1>0, <1>1, <2>1, <2>3 DEF RestoreKnows, RestoredGoesOn, RestoredObjects
    <2>4. QED
        BY <2>1, <2>2, <2>3 DEF RestoredGoesOn, RestoredObjects
<1>3. CASE RestoreStep
    <2>0. UNCHANGED <<backup, archive, entrance>> /\ "restored" \in Deployments
        BY <1>0, <1>3, RestoreFacts DEF Deployments
    <2>1. CASE RestoreBegin
        BY <2>1 DEF RestoreBegin, RestoredObjects
    <2>2. ASSUME NEW step, Then(step)
          PROVE  restore'.at = step /\ restore'.sent = restore.sent /\ restore'.astray = restore.astray
                 /\ restore'.swapped = restore.swapped
        BY <1>0, <2>2 DEF Then, ProductionTypeOK, Restores
    <2>3. ASSUME RestoreFails PROVE RestoredObjects'
        BY <2>2, <2>3 DEF RestoreFails, RestoredObjects
    <2>4. CASE Load
        <3>1. CASE row' = [row EXCEPT !["restored"] = archive.rows] /\ Then("put")
            <4>1. restore'.at = "put" /\ restore'.sent = restore.sent /\ restore'.astray = restore.astray
                  /\ restore'.swapped = restore.swapped
                BY <2>2, <3>1
            <4>2. restore.at = "load" /\ object' = object
                BY <2>4 DEF Load, RestoreAt
            <4>3. row'["restored"] = archive.rows
                BY <1>0, <2>0, <3>1 DEF ProductionTypeOK
            <4>4. ~restore.astray =>
                     \A f \in Files : object["restored"][f] = "absent" /\ f \notin restore.sent
                BY <1>0, <4>2 DEF RestoreKnows, EmptyBucket
            <4>5. QED
                BY <2>0, <4>1, <4>2, <4>3, <4>4 DEF RestoredObjects
        <3>2. QED
            BY <2>3, <2>4, <3>1 DEF Load
    <2>5. ASSUME NEW f \in Files, PutObject(f) PROVE RestoredObjects'
        <3>1. CASE archive.objects[f] = "absent"
            BY <2>3, <2>5, <3>1 DEF PutObject
        <3>2. CASE archive.objects[f] # "absent"
            <4>1. restore.at = "put" /\ row' = row
                BY <2>5 DEF PutObject, RestoreAt
            <4>2. archive.objects[f] = "good"
                BY <1>0, <3>2 DEF ArchiveAgrees
            <4>3. PICK bytes \in {"good", "short", "wrong"} : Puts(f, bytes)
                BY <2>5, <3>2, <4>2, PutFacts
            <4>4. /\ restore'.at = "put" /\ restore'.sent = restore.sent \cup {f}
                  /\ restore.swapped \subseteq restore'.swapped
                  /\ bytes = "wrong" => f \in restore'.swapped
                  /\ restore'.astray <=> restore.astray \/ entrance # "restored"
                  /\ entrance = "restored" =>
                         /\ object'["restored"][f] = bytes
                         /\ \A x \in Files : x # f => object'["restored"][x] = object["restored"][x]
                BY <1>0, <4>1, <4>3, PutsFacts
            <4>5. QED
                BY <1>0, <2>0, <4>1, <4>4 DEF RestoredObjects
        <3>3. QED
            BY <3>1, <3>2
    <2>6. CASE StartServices
        <3>1. restore'.at = "ready" /\ restore'.sent = restore.sent /\ restore'.astray = restore.astray
              /\ restore'.swapped = restore.swapped
              /\ restore.at = "put" /\ restore.sent = archive.files /\ UNCHANGED <<row, object>>
            BY <2>2, <2>6 DEF StartServices, RestoreAt
        <3>2. ~backup.blind => \A f \in Files : archive.rows[f] = "ready" => f \in archive.files
            BY <1>0, <3>1 DEF RestoreKnows, ArchiveAgrees
        <3>3. QED
            BY <1>0, <2>0, <3>1, <3>2 DEF RestoredObjects
    <2>7. CASE CheckReady
        <3>1. CASE Then("list")
            <4>1. restore'.at = "list" /\ restore'.astray = restore.astray /\ UNCHANGED <<row, object>>
                  /\ restore.at = "ready" /\ restore'.swapped = restore.swapped
                BY <2>2, <2>7, <3>1 DEF CheckReady, RestoreAt, deployments
            <4>2. QED
                BY <1>0, <2>0, <4>1 DEF RestoredObjects
        <3>2. QED
            BY <2>3, <2>7, <3>1 DEF CheckReady
    <2>8. CASE RestorePasses
        <3>1. CASE Then("passed") /\ Consistent(entrance)
            <4>1. restore'.at = "passed" /\ restore'.astray = restore.astray /\ UNCHANGED <<row, object>>
                  /\ restore.at = "list" /\ restore'.swapped = restore.swapped
                BY <2>2, <2>8, <3>1 DEF RestorePasses, RestoreAt, deployments
            <4>2. ASSUME ~restore.astray, NEW f \in archive.files PROVE object["restored"][f] # "short"
                <5>1. restore.sent # {}
                    BY <1>0, <4>1, <4>2 DEF RestoreKnows
                <5>2. entrance = "restored"
                    BY <1>0, <4>1, <4>2, <5>1 DEF RestoreKnows
                <5>3. QED
                    BY <3>1, <5>2 DEF Consistent
            <4>3. QED
                BY <1>0, <2>0, <4>1, <4>2 DEF RestoredObjects
        <3>2. QED
            BY <2>3, <2>8, <3>1 DEF RestorePasses
    <2>9. CASE RestoreDies
        BY <2>3, <2>9 DEF RestoreDies
    <2>10. QED
        BY <1>3, <2>1, <2>4, <2>5, <2>6, <2>7, <2>8, <2>9 DEF RestoreStep
<1>4. QED
    BY <1>2, <1>3

LEMMA ProductionStepInv == ProductionInv /\ [ProductionNext]_prodVars => ProductionInv'
BY KeepsProductionTypes, KeepsServicesStopped, KeepsArchive, KeepsRestore, KeepsRestoredObjects
   DEF ProductionInv

LEMMA BackupsAreSound == ProductionInv => BackupsHold
<1> SUFFICES ASSUME ProductionInv PROVE ArchiveComplete /\ RestoredIntact
    BY DEF BackupsHold
<1>1. ArchiveComplete
    BY DEF ProductionInv, ArchiveAgrees, ArchiveComplete
<1>2. RestoredIntact
    BY DEF ProductionInv, RestoredObjects, RestoredIntact, ProductionTypeOK, Deployments, Objects
<1>3. QED
    BY <1>1, <1>2

-----------------------------------------------------------------------------
(* The alert rule.                                                         *)

Observations == [now : Nat \ {0}, at : Nat, judged : {"breach", "fine", "none"}]
Last == seen[Len(seen)]

\* Observations come in order of their time, scrapes in that of theirs; only the first may be
\* good, for a good one starts the history anew.
SeenInOrder ==
    /\ \A i \in 1..Len(seen) :
        /\ seen[i].judged = "none" <=> seen[i].at = 0
        /\ seen[i].judged = "fine" => i = 1
    /\ \A i, j \in 1..Len(seen) :
        i < j => seen[i].now < seen[j].now /\ (seen[j].at > 0 => seen[i].at < seen[j].at)

\* What the row has kept of the history.
RowKnowsSeen ==
    /\ ~rule.enabled => seen = <<>> /\ ~rule.incident
    /\ rule.enabled /\ seen = <<>> =>
           /\ rule.evaluated = 0 /\ rule.sampled = 0 /\ rule.state # "pending" /\ ~rule.incident
    /\ seen # <<>> =>
           /\ rule.evaluated = Last.now
           /\ \A i \in 1..Len(seen) : seen[i].at <= rule.sampled
           /\ Last.at > 0 => rule.sampled = Last.at
           /\ rule.sampled = 0 \/ \E i \in 1..Len(seen) : seen[i].at = rule.sampled
           /\ ~rule.incident => (rule.state = "pending" <=> Last.judged = "breach")

\* The breaches from an index to the end, no two further apart than MaxGap.
RunFrom(k) ==
    \A j \in k..Len(seen) :
        seen[j].judged = "breach" /\ (j > k => seen[j].at - seen[j - 1].at <= MaxGap)

\* A pending rule knows when the run of breaches at the end of the history began.
RowKnowsRun ==
    ~rule.incident /\ rule.state = "pending" =>
        \E k \in 1..Len(seen) :
            /\ rule.breach = seen[k].now
            /\ RunFrom(k)
            /\ \A l \in 1..Len(seen) : RunFrom(l) => k <= l

AlertsTyped ==
    /\ rule \in [enabled : BOOLEAN, duration : Nat, state : States, evaluated : Nat,
                 breach : Nat, sampled : Nat, incident : BOOLEAN]
    /\ asked \in [Evaluators -> [on : BOOLEAN, now : Nat, at : Nat, judged : Judgements]]
    /\ \A w \in Evaluators : asked[w].on => asked[w].now > 0
    /\ seen \in Seq(Observations)
    /\ clock \in Nat \ {0}
    /\ latest \in [at : Nat, judged : Judgements]

AlertsInv ==
    /\ AlertsTyped /\ SeenInOrder /\ RowKnowsSeen /\ RowKnowsRun
    /\ IncidentIsSustained

LEMMA AlertsInitInv == AlertsInit => AlertsInv
<1> SUFFICES ASSUME AlertsInit PROVE AlertsInv
    OBVIOUS
<1>1. PICK d \in Durations : rule = Fresh(FALSE, d)
    BY DEF AlertsInit
<1>2. /\ d \in Nat /\ seen = <<>> /\ Len(seen) = 0
      /\ ~rule.enabled /\ ~rule.incident /\ rule.state = "disabled"
    BY <1>1, AlertsAssumption DEF AlertsInit, Fresh
<1>3. AlertsTyped
    <2>1. rule \in [enabled : BOOLEAN, duration : Nat, state : States, evaluated : Nat,
                    breach : Nat, sampled : Nat, incident : BOOLEAN]
        BY <1>1, <1>2 DEF Fresh, States
    <2>2. asked \in [Evaluators -> [on : BOOLEAN, now : Nat, at : Nat, judged : Judgements]]
          /\ \A w \in Evaluators : ~asked[w].on
        BY DEF AlertsInit, NoQuestion, Judgements
    <2>3. seen \in Seq(Observations)
        BY <1>2
    <2>4. clock = 1 /\ latest \in [at : Nat, judged : Judgements]
        BY DEF AlertsInit, Judgements
    <2>5. QED
        BY <2>1, <2>2, <2>3, <2>4 DEF AlertsTyped
<1>4. SeenInOrder /\ RowKnowsSeen /\ RowKnowsRun
    BY <1>2 DEF SeenInOrder, RowKnowsSeen, RowKnowsRun
<1>5. IncidentIsSustained
    BY <1>2 DEF IncidentIsSustained
<1>6. QED
    BY <1>3, <1>4, <1>5 DEF AlertsInv

LEMMA SeenFacts ==
    ASSUME AlertsInv
    PROVE  /\ Len(seen) \in Nat /\ DOMAIN seen = 1..Len(seen) /\ seen \in Seq(Observations)
           /\ \A i \in 1..Len(seen) : seen[i] \in Observations
           /\ seen = <<>> <=> Len(seen) = 0
BY DEF AlertsInv, AlertsTyped

\* The row tells which questions the history counts.
LEMMA Heeding ==
    ASSUME AlertsInv, NEW w \in Evaluators, asked[w].on, rule.enabled
    PROVE  Counts(Observation(asked[w])) <=> ~Overtaken(asked[w]) /\ ~Repeated(asked[w])
<1> DEFINE q == asked[w]
           n == Len(seen)
           scrape == IF Valid(q) THEN q.at ELSE 0
<1>1. q.now \in Nat \ {0} /\ q.at \in Nat /\ Observation(q).now = q.now /\ Observation(q).at = scrape
    BY DEF AlertsInv, AlertsTyped, Observation
<1>2. Valid(q) => q.at > 0
    BY DEF Valid
<1>3. scrape \in Nat /\ (Valid(q) <=> scrape > 0) /\ (Valid(q) => scrape = q.at)
    BY <1>1, <1>2
<1>4. rule.evaluated \in Nat /\ rule.sampled \in Nat
    BY DEF AlertsInv, AlertsTyped
<1>5. Counts(Observation(q)) <=>
        \A i \in 1..n : seen[i].now < q.now /\ (scrape > 0 => seen[i].at < scrape)
    BY <1>1, SeenFacts DEF Counts
<1>6. Overtaken(q) <=> rule.evaluated >= q.now
    BY DEF Overtaken
<1>7. Repeated(q) <=> scrape > 0 /\ rule.sampled >= scrape
    BY <1>3 DEF Repeated
<1> HIDE DEF q, scrape
<1>8. CASE seen = <<>>
    <2>1. rule.evaluated = 0 /\ rule.sampled = 0 /\ n = 0
        BY <1>8 DEF AlertsInv, RowKnowsSeen
    <2> HIDE DEF n
    <2>2. Counts(Observation(q))
        BY <1>5, <2>1
    <2>3. QED
        BY <1>1, <1>3, <1>6, <1>7, <2>1, <2>2 DEF q
<1>9. CASE seen # <<>>
    <2>1. /\ n \in Nat /\ n >= 1
          /\ \A i \in 1..n : seen[i].now \in Nat /\ seen[i].at \in Nat
        BY <1>9, SeenFacts DEF Observations
    <2>2. /\ rule.evaluated = seen[n].now
          /\ \A i \in 1..n : seen[i].at <= rule.sampled
          /\ rule.sampled = 0 \/ \E i \in 1..n : seen[i].at = rule.sampled
        BY <1>9 DEF AlertsInv, RowKnowsSeen, Last
    <2>3. \A i \in 1..n : i < n => seen[i].now < seen[n].now
        BY <2>1 DEF AlertsInv, SeenInOrder
    <2> HIDE DEF n
    <2>4. (\A i \in 1..n : seen[i].now < q.now) <=> ~(rule.evaluated >= q.now)
        BY <1>1, <1>4, <2>1, <2>2, <2>3
    <2>5. (scrape > 0 => \A i \in 1..n : seen[i].at < scrape) <=> ~(scrape > 0 /\ rule.sampled >= scrape)
        BY <1>3, <1>4, <2>1, <2>2
    <2>6. Counts(Observation(q)) <=>
            /\ \A i \in 1..n : seen[i].now < q.now
            /\ scrape > 0 => \A i \in 1..n : seen[i].at < scrape
        BY <1>5
    <2>7. QED
        BY <1>6, <1>7, <2>4, <2>5, <2>6 DEF q
<1>10. QED
    BY <1>8, <1>9 DEF q

LEMMA SeenAppended ==
    ASSUME AlertsInv, NEW o \in Observations, seen' = Append(seen, o)
    PROVE  /\ seen' \in Seq(Observations) /\ Len(seen') = Len(seen) + 1
           /\ seen' # <<>> /\ DOMAIN seen' = 1..(Len(seen) + 1)
           /\ \A i \in 1..Len(seen) : seen'[i] = seen[i]
           /\ seen'[Len(seen) + 1] = o
BY SeenFacts

\* One more observation that is not good changes nothing about those before it.
LEMMA SustainedKept ==
    ASSUME AlertsInv, NEW o \in Observations, seen' = Append(seen, o),
           rule'.duration = rule.duration, NEW i \in 1..Len(seen)
    PROVE  Sustained(i)' <=> Sustained(i)
<1>1. Len(seen) \in Nat /\ \A j \in 1..Len(seen) : seen'[j] = seen[j]
    BY SeenFacts, SeenAppended
<1>2. \A k \in 1..i : k..i \subseteq 1..Len(seen) /\ \A j \in k..i : j > k => j - 1 \in 1..Len(seen)
    BY <1>1
<1>3. \A k \in 1..i :
        (\A j \in k..i : seen'[j].judged = "breach" /\ (j > k => seen'[j].at - seen'[j - 1].at <= MaxGap))
        <=> (\A j \in k..i : seen[j].judged = "breach" /\ (j > k => seen[j].at - seen[j - 1].at <= MaxGap))
    BY <1>1, <1>2
<1>4. i \in 1..i /\ \A k \in 1..i : seen'[k] = seen[k]
    BY <1>1
<1>5. QED
    BY <1>3, <1>4 DEF Sustained

\* An incident goes on while no good sample comes.
LEMMA IncidentKept ==
    ASSUME AlertsInv, NEW o \in Observations, seen' = Append(seen, o), o.judged # "fine",
           rule'.duration = rule.duration, NEW m, m = Len(seen) + 1
    PROVE  (\E i \in DOMAIN seen' : Sustained(i)' /\ \A j \in i..Len(seen') : seen'[j].judged # "fine")
           <=> rule.incident \/ Sustained(m)'
<1> DEFINE n == Len(seen)
<1>1. /\ n \in Nat /\ m = n + 1 /\ Len(seen') = n + 1 /\ DOMAIN seen' = 1..(n + 1) /\ DOMAIN seen = 1..n
      /\ \A i \in 1..n : seen'[i] = seen[i]
      /\ seen'[n + 1] = o
    BY SeenFacts, SeenAppended
<1>2. \A i \in 1..n : Sustained(i)' <=> Sustained(i)
    BY SustainedKept
<1> HIDE DEF n
<1>3. \A i \in 1..n :
        (\A j \in i..(n + 1) : seen'[j].judged # "fine") <=> (\A j \in i..n : seen[j].judged # "fine")
    <2> SUFFICES ASSUME NEW i \in 1..n
                 PROVE  (\A j \in i..(n + 1) : seen'[j].judged # "fine")
                        <=> (\A j \in i..n : seen[j].judged # "fine")
        OBVIOUS
    <2>1. \A j \in i..(n + 1) : (j \in i..n /\ j \in 1..n) \/ j = n + 1
        BY <1>1
    <2>2. \A j \in i..n : j \in i..(n + 1) /\ j \in 1..n
        BY <1>1
    <2>3. QED
        BY <1>1, <2>1, <2>2
<1>4. rule.incident <=> \E i \in 1..n : Sustained(i) /\ \A j \in i..n : seen[j].judged # "fine"
    BY <1>1 DEF AlertsInv, IncidentIsSustained, n
<1>5. \A j \in (n + 1)..(n + 1) : seen'[j].judged # "fine"
    BY <1>1
<1> DEFINE Ends(i) == Sustained(i)' /\ \A j \in i..(n + 1) : seen'[j].judged # "fine"
<1>6. (\E i \in 1..(n + 1) : Ends(i)) <=> (\E i \in 1..n : Ends(i)) \/ Sustained(m)'
    <2>1. Ends(m) <=> Sustained(m)'
        BY <1>1, <1>5
    <2> HIDE DEF Ends
    <2>2. \A i \in 1..(n + 1) : i \in 1..n \/ i = m
        BY <1>1
    <2>3. m \in 1..(n + 1) /\ \A i \in 1..n : i \in 1..(n + 1)
        BY <1>1
    <2>4. QED
        BY <2>1, <2>2, <2>3
<1>7. QED
    BY <1>1, <1>2, <1>3, <1>4, <1>6 DEF n

LEMMA QuestionFacts ==
    ASSUME AlertsInv, NEW w \in Evaluators, asked[w].on
    PROVE  /\ asked[w].now \in Nat \ {0} /\ asked[w].at \in Nat /\ asked[w].judged \in Judgements
           /\ Observation(asked[w]) \in Observations
           /\ Observation(asked[w]).now = asked[w].now
           /\ Valid(asked[w]) =>
                  /\ asked[w].at > 0 /\ Observation(asked[w]).at = asked[w].at
                  /\ asked[w].judged \in {"breach", "fine"}
                  /\ Observation(asked[w]).judged = asked[w].judged
           /\ ~Valid(asked[w]) => Observation(asked[w]).at = 0 /\ Observation(asked[w]).judged = "none"
           /\ Heeded(asked[w]) => rule.enabled /\ Counts(Observation(asked[w]))
<1>1. /\ asked[w].now \in Nat \ {0} /\ asked[w].at \in Nat /\ asked[w].judged \in Judgements
    BY DEF AlertsInv, AlertsTyped
<1>2. Valid(asked[w]) => asked[w].at > 0 /\ asked[w].judged \in {"breach", "fine"}
    BY <1>1 DEF Valid, Judgements
<1>3. Observation(asked[w]) \in Observations
    BY <1>1, <1>2 DEF Observation, Observations
<1>4. Heeded(asked[w]) => rule.enabled /\ Counts(Observation(asked[w]))
    BY Heeding DEF Heeded
<1>5. QED
    BY <1>1, <1>2, <1>3, <1>4 DEF Observation

\* A question that is heeded goes into the history, one that is not leaves it.
LEMMA QuestionWatched ==
    ASSUME AlertsInv, NEW w \in Evaluators, asked[w].on, Watch(asked[w])
    PROVE  /\ Heeded(asked[w]) /\ Observation(asked[w]).judged # "fine" =>
                  seen' = Append(seen, Observation(asked[w]))
           /\ Heeded(asked[w]) /\ Observation(asked[w]).judged = "fine" =>
                  seen' = <<Observation(asked[w])>>
           /\ (Overtaken(asked[w]) \/ (rule.enabled /\ Repeated(asked[w]))) => seen' = seen
<1> DEFINE o == Observation(asked[w])
<1>1. seen' = IF ~rule.enabled \/ ~Counts(o) THEN seen
              ELSE IF o.judged = "fine" THEN <<o>> ELSE Append(seen, o)
    BY DEF Watch
<1>2. rule.enabled => (Counts(o) <=> ~Overtaken(asked[w]) /\ ~Repeated(asked[w]))
    BY Heeding
<1>3. Heeded(asked[w]) => rule.enabled /\ Counts(o)
    BY <1>2 DEF Heeded
<1>4. Overtaken(asked[w]) \/ (rule.enabled /\ Repeated(asked[w])) => ~rule.enabled \/ ~Counts(o)
    BY <1>2
<1> HIDE DEF o
<1>5. /\ Heeded(asked[w]) /\ o.judged # "fine" => seen' = Append(seen, o)
      /\ Heeded(asked[w]) /\ o.judged = "fine" => seen' = <<o>>
    BY <1>1, <1>3
<1>6. Overtaken(asked[w]) \/ (rule.enabled /\ Repeated(asked[w])) => seen' = seen
    BY <1>1, <1>4
<1>7. QED
    BY <1>5, <1>6 DEF o

\* What the clock, the scrapes and the questions leave as it is.
LEMMA AlertsQuiet ==
    ASSUME AlertsInv, AlertsTyped', UNCHANGED <<rule, seen>>
    PROVE  AlertsInv'
<1>1. SeenInOrder' /\ RowKnowsSeen' /\ RowKnowsRun' /\ IncidentIsSustained'
    BY DEF AlertsInv, SeenInOrder, RowKnowsSeen, RowKnowsRun, RunFrom, Last, IncidentIsSustained,
           Sustained
<1>2. QED
    BY <1>1 DEF AlertsInv

LEMMA AlertsCleared ==
    ASSUME AlertsTyped', seen' = <<>>, ~rule'.incident, rule'.state # "pending",
           rule'.enabled => rule'.evaluated = 0 /\ rule'.sampled = 0
    PROVE  AlertsInv'
<1>1. Len(seen') = 0 /\ DOMAIN seen' = {}
    OBVIOUS
<1>2. SeenInOrder' /\ RowKnowsSeen' /\ RowKnowsRun' /\ IncidentIsSustained'
    BY <1>1 DEF SeenInOrder, RowKnowsSeen, RowKnowsRun, IncidentIsSustained
<1>3. QED
    BY <1>2 DEF AlertsInv

LEMMA AppendedInOrder ==
    ASSUME AlertsInv, NEW o \in Observations, seen' = Append(seen, o), Counts(o),
           o.judged # "fine", o.judged = "none" <=> o.at = 0
    PROVE  SeenInOrder'
<1> DEFINE n == Len(seen)
<1>1. /\ n \in Nat /\ Len(seen') = n + 1 /\ DOMAIN seen = 1..n
      /\ \A i \in 1..n : seen'[i] = seen[i]
      /\ seen'[n + 1] = o
    BY SeenFacts, SeenAppended
<1>2. \A i \in 1..n : seen[i].now < o.now /\ (o.at > 0 => seen[i].at < o.at)
    BY <1>1 DEF Counts
<1>3. /\ \A i \in 1..n :
            /\ seen[i].judged = "none" <=> seen[i].at = 0
            /\ seen[i].judged = "fine" => i = 1
      /\ \A i, j \in 1..n :
            i < j => seen[i].now < seen[j].now /\ (seen[j].at > 0 => seen[i].at < seen[j].at)
    BY DEF AlertsInv, SeenInOrder
<1> HIDE DEF n
<1>4. \A i \in 1..(n + 1) : i \in 1..n \/ i = n + 1
    BY <1>1
<1>5. ASSUME NEW i \in 1..(n + 1)
      PROVE  /\ seen'[i].judged = "none" <=> seen'[i].at = 0
             /\ seen'[i].judged = "fine" => i = 1
    BY <1>1, <1>3, <1>4
<1>6. ASSUME NEW i \in 1..(n + 1), NEW j \in 1..(n + 1), i < j
      PROVE  seen'[i].now < seen'[j].now /\ (seen'[j].at > 0 => seen'[i].at < seen'[j].at)
    <2>1. i \in 1..n
        BY <1>1, <1>4, <1>6
    <2>2. CASE j \in 1..n
        BY <1>1, <1>3, <1>6, <2>1, <2>2
    <2>3. CASE j = n + 1
        BY <1>1, <1>2, <2>1, <2>3
    <2>4. QED
        BY <1>4, <2>2, <2>3
<1>7. QED
    BY <1>1, <1>5, <1>6 DEF SeenInOrder

\* An observation without data ends a run.
LEMMA AlertsNoData ==
    ASSUME AlertsInv, AlertsTyped', NEW w \in Evaluators, EvaluateNoData(w)
    PROVE  AlertsInv'
<1> DEFINE q == asked[w]
           o == Observation(q)
           n == Len(seen)
<1>1. /\ q.on /\ Heeded(q) /\ ~Valid(q) /\ Watch(q)
      /\ rule' = [rule EXCEPT !.state = "no_data", !.evaluated = q.now,
                              !.breach = IF rule.incident THEN @ ELSE 0]
    BY DEF EvaluateNoData
<1>2. /\ o \in Observations /\ o.now = q.now /\ o.at = 0 /\ o.judged = "none"
      /\ rule.enabled /\ Counts(o)
    BY <1>1, QuestionFacts
<1>3. seen' = Append(seen, o)
    BY <1>1, <1>2, QuestionWatched
<1>4. /\ rule'.state = "no_data" /\ rule'.evaluated = q.now /\ rule'.enabled = rule.enabled
      /\ rule'.incident = rule.incident /\ rule'.sampled = rule.sampled
      /\ rule'.duration = rule.duration
    BY <1>1 DEF AlertsInv, AlertsTyped
<1>5. /\ n \in Nat /\ Len(seen') = n + 1 /\ seen' # <<>> /\ DOMAIN seen' = 1..(n + 1)
      /\ \A i \in 1..n : seen'[i] = seen[i]
      /\ seen'[n + 1] = o
    BY <1>2, <1>3, SeenFacts, SeenAppended
<1> HIDE DEF q, o
<1>6. SeenInOrder'
    BY <1>2, <1>3, AppendedInOrder
<1>7. RowKnowsSeen'
    <2>1. \A i \in 1..n : seen[i].at <= rule.sampled
        BY <1>5 DEF AlertsInv, RowKnowsSeen
    <2>2. rule.sampled \in Nat /\ (rule.sampled = 0 \/ \E i \in 1..n : seen[i].at = rule.sampled)
        BY <1>2 DEF AlertsInv, AlertsTyped, RowKnowsSeen
    <2>3. Last' = o
        BY <1>5 DEF Last
    <2> HIDE DEF n
    <2>4. \A i \in 1..(n + 1) : i \in 1..n \/ i = n + 1
        BY <1>5
    <2>5. \A i \in 1..(n + 1) : seen'[i].at <= rule'.sampled
        BY <1>2, <1>4, <1>5, <2>1, <2>2, <2>4
    <2>6. rule'.sampled = 0 \/ \E i \in 1..(n + 1) : seen'[i].at = rule'.sampled
        BY <1>4, <1>5, <2>2
    <2>7. QED
        BY <1>2, <1>4, <1>5, <2>3, <2>5, <2>6 DEF RowKnowsSeen
<1>8. RowKnowsRun'
    BY <1>4 DEF RowKnowsRun
<1>9. IncidentIsSustained'
    <2>0. PICK m : m = n + 1
        OBVIOUS
    <2>1. ~Sustained(m)'
        <3>1. \A k \in 1..m : m \in k..m
            BY <1>5, <2>0
        <3>2. seen'[m].judged # "breach"
            BY <1>2, <1>5, <2>0
        <3>3. QED
            BY <3>1, <3>2 DEF Sustained
    <2>2. QED
        BY <1>2, <1>3, <1>4, <2>0, <2>1, IncidentKept DEF IncidentIsSustained
<1>10. QED
    BY <1>6, <1>7, <1>8, <1>9 DEF AlertsInv

\* A good sample starts the history anew.
LEMMA AlertsFine ==
    ASSUME AlertsInv, AlertsTyped', NEW w \in Evaluators, EvaluateFine(w)
    PROVE  AlertsInv'
<1> DEFINE q == asked[w]
           o == Observation(q)
<1>1. /\ q.on /\ Heeded(q) /\ Valid(q) /\ q.judged = "fine" /\ Watch(q)
      /\ rule' = [rule EXCEPT !.state = "normal", !.evaluated = q.now, !.breach = 0,
                              !.sampled = q.at, !.incident = FALSE]
    BY DEF EvaluateFine
<1>2. /\ o \in Observations /\ o.now = q.now /\ o.at = q.at /\ q.at > 0 /\ o.judged = "fine"
      /\ rule.enabled /\ q.at \in Nat
    BY <1>1, QuestionFacts
<1>3. seen' = <<o>>
    BY <1>1, <1>2, QuestionWatched
<1>4. /\ rule'.state = "normal" /\ rule'.evaluated = q.now /\ rule'.enabled
      /\ ~rule'.incident /\ rule'.sampled = q.at
    BY <1>1, <1>2 DEF AlertsInv, AlertsTyped
<1>5. Len(seen') = 1 /\ seen' # <<>> /\ DOMAIN seen' = 1..1 /\ seen'[1] = o
    BY <1>3
<1> HIDE DEF q, o
<1>6. \A i \in 1..1 : i = 1
    OBVIOUS
<1>7. SeenInOrder'
    BY <1>2, <1>5, <1>6 DEF SeenInOrder
<1>8. RowKnowsSeen'
    BY <1>2, <1>4, <1>5, <1>6 DEF RowKnowsSeen, Last
<1>9. RowKnowsRun'
    BY <1>4 DEF RowKnowsRun
<1>10. IncidentIsSustained'
    <2>1. \A j \in 1..1 : seen'[j].judged = "fine"
        BY <1>2, <1>5, <1>6
    <2>2. QED
        BY <1>4, <1>5, <2>1 DEF IncidentIsSustained
<1>11. QED
    BY <1>7, <1>8, <1>9, <1>10 DEF AlertsInv

\* A breach continues the run the row knows, or starts one.
LEMMA AlertsBreach ==
    ASSUME AlertsInv, AlertsTyped', NEW w \in Evaluators, EvaluateBreach(w)
    PROVE  AlertsInv'
<1> DEFINE q == asked[w]
           o == Observation(q)
           n == Len(seen)
           fires == q.now - Started(q) >= rule.duration
<1>1. /\ q.on /\ Heeded(q) /\ Valid(q) /\ q.judged = "breach" /\ Watch(q)
      /\ rule' = [rule EXCEPT
               !.state = IF rule.incident \/ fires THEN "firing" ELSE "pending",
               !.breach = IF rule.incident THEN @ ELSE Started(q),
               !.incident = rule.incident \/ fires,
               !.evaluated = q.now, !.sampled = q.at]
    BY DEF EvaluateBreach
<1>2. /\ o \in Observations /\ o.now = q.now /\ o.at = q.at /\ q.at > 0 /\ o.judged = "breach"
      /\ rule.enabled /\ Counts(o) /\ q.at \in Nat /\ q.now \in Nat \ {0}
    BY <1>1, QuestionFacts
<1>3. seen' = Append(seen, o)
    BY <1>1, <1>2, QuestionWatched
<1> HIDE DEF fires
<1>4. /\ rule'.state = IF rule.incident \/ fires THEN "firing" ELSE "pending"
      /\ rule'.evaluated = q.now /\ rule'.enabled = rule.enabled
      /\ rule'.sampled = q.at /\ rule'.duration = rule.duration
      /\ rule'.breach = IF rule.incident THEN rule.breach ELSE Started(q)
      /\ rule'.incident <=> rule.incident \/ fires
    BY <1>1 DEF AlertsInv, AlertsTyped
<1>5. /\ n \in Nat /\ Len(seen') = n + 1 /\ seen' # <<>> /\ DOMAIN seen' = 1..(n + 1)
      /\ \A i \in 1..n : seen'[i] = seen[i]
      /\ seen'[n + 1] = o
      /\ \A i \in 1..n : seen[i] \in Observations
      /\ (seen = <<>> <=> n = 0) /\ DOMAIN seen = 1..n
    BY <1>2, <1>3, SeenFacts, SeenAppended
<1>6. \A i \in 1..n : seen[i].now < q.now /\ seen[i].at < q.at
    BY <1>2, <1>5 DEF Counts
<1>7. rule.duration \in Nat /\ rule.breach \in Nat /\ rule.sampled \in Nat
    BY DEF AlertsInv, AlertsTyped
<1>8. \A i \in 1..(n + 1) : i \in 1..n \/ i = n + 1
    BY <1>5
<1>9. /\ \A i \in 1..(n + 1) : seen'[i].now \in Nat \ {0} /\ seen'[i].at \in Nat
      /\ \A i \in 1..(n + 1) : seen'[i].now <= q.now
    <2> SUFFICES ASSUME NEW i \in 1..(n + 1)
                 PROVE  /\ seen'[i].now \in Nat \ {0} /\ seen'[i].at \in Nat
                        /\ seen'[i].now <= q.now
        OBVIOUS
    <2> HIDE DEF q, o
    <2>1. CASE i \in 1..n
        BY <1>2, <1>5, <1>6, <2>1 DEF Observations
    <2>2. CASE i = n + 1
        BY <1>2, <1>5, <2>2
    <2>3. QED
        BY <1>8, <2>1, <2>2
<1> HIDE DEF q, o
<1>10. SeenInOrder'
    BY <1>2, <1>3, AppendedInOrder
<1>11. RowKnowsSeen'
    <2>1. Last' = o
        BY <1>5 DEF Last
    <2>2. \A i \in 1..(n + 1) : seen'[i].at <= rule'.sampled
        BY <1>2, <1>4, <1>5, <1>6, <1>8, <1>9
    <2>3. \E i \in 1..(n + 1) : seen'[i].at = rule'.sampled
        BY <1>2, <1>4, <1>5
    <2> HIDE DEF n
    <2>4. QED
        BY <1>2, <1>4, <1>5, <2>1, <2>2, <2>3 DEF RowKnowsSeen
\* The run that ends with this breach.
<1> DEFINE Unbroken(k) == \A j \in k..(n + 1) :
                        seen'[j].judged = "breach" /\ (j > k => seen'[j].at - seen'[j - 1].at <= MaxGap)
<1>12. \A k \in 1..(n + 1) : RunFrom(k)' <=> Unbroken(k)
    BY <1>5 DEF RunFrom
<1>13. ~rule.incident => \E k \in 1..(n + 1) :
            /\ Started(q) = seen'[k].now
            /\ Unbroken(k)
            /\ \A l \in 1..(n + 1) : Unbroken(l) => k <= l
    <2> SUFFICES ASSUME ~rule.incident
                 PROVE  \E k \in 1..(n + 1) :
                            /\ Started(q) = seen'[k].now
                            /\ Unbroken(k)
                            /\ \A l \in 1..(n + 1) : Unbroken(l) => k <= l
        OBVIOUS
    <2>1. Unbroken(n + 1)
        <3>1. \A j \in (n + 1)..(n + 1) : j = n + 1
            BY <1>5
        <3>2. QED
            BY <1>2, <1>5, <3>1
    <2>2. n > 0 => seen # <<>> /\ Last = seen[n] /\ n \in 1..n
        BY <1>5 DEF Last
    <2>3. \A k \in 1..n : Unbroken(k) <=> RunFrom(k) /\ q.at - seen[n].at <= MaxGap
        <3> SUFFICES ASSUME NEW k \in 1..n
                     PROVE  Unbroken(k) <=> RunFrom(k) /\ q.at - seen[n].at <= MaxGap
            OBVIOUS
        <3>1. \A j \in k..(n + 1) : (j \in k..n /\ j \in 1..n) \/ j = n + 1
            BY <1>5
        <3>2. \A j \in k..n : j \in k..(n + 1) /\ j \in 1..n /\ (j > k => j - 1 \in 1..n)
            BY <1>5
        <3>3. n + 1 \in k..(n + 1) /\ n + 1 > k /\ (n + 1) - 1 = n /\ n \in 1..n
            BY <1>5
        <3>4. ASSUME Unbroken(k) PROVE RunFrom(k) /\ q.at - seen[n].at <= MaxGap
            <4>1. q.at - seen[n].at <= MaxGap
                BY <1>2, <1>5, <3>3, <3>4
            <4>2. QED
                BY <1>5, <3>2, <3>4, <4>1 DEF RunFrom
        <3>5. ASSUME RunFrom(k), q.at - seen[n].at <= MaxGap PROVE Unbroken(k)
            <4> SUFFICES ASSUME NEW j \in k..(n + 1)
                         PROVE  /\ seen'[j].judged = "breach"
                                /\ j > k => seen'[j].at - seen'[j - 1].at <= MaxGap
                OBVIOUS
            <4>1. CASE j = n + 1
                BY <1>2, <1>5, <3>3, <3>5, <4>1
            <4>2. CASE j \in k..n
                BY <1>5, <3>2, <3>5, <4>2 DEF RunFrom
            <4>3. QED
                BY <3>1, <4>1, <4>2
        <3>6. QED
            BY <3>4, <3>5
    <2>4. CASE Continuous(q) /\ rule.breach > 0
        <3>1. rule.state = "pending" /\ rule.sampled > 0 /\ q.at - rule.sampled <= MaxGap
              /\ Started(q) = rule.breach
            BY <2>4 DEF Continuous, Started
        <3>2. PICK k \in 1..n : /\ rule.breach = seen[k].now
                                /\ RunFrom(k)
                                /\ \A l \in 1..n : RunFrom(l) => k <= l
            BY <3>1 DEF AlertsInv, RowKnowsRun
        <3>3. n > 0
            BY <1>5, <3>2
        <3>4. Last.judged = "breach" /\ Last.at \in Nat /\ Last.at # 0
            BY <1>2, <1>5, <2>2, <3>1, <3>3 DEF AlertsInv, RowKnowsSeen, SeenInOrder, Observations
        <3>5. seen[n].at = rule.sampled
            BY <2>2, <3>3, <3>4 DEF AlertsInv, RowKnowsSeen
        <3>6. Unbroken(k)
            BY <2>3, <3>1, <3>2, <3>5
        <3>7. ASSUME NEW l \in 1..(n + 1), Unbroken(l) PROVE k <= l
            <4>1. CASE l \in 1..n
                BY <2>3, <3>2, <3>7, <4>1
            <4>2. CASE l = n + 1
                BY <1>5, <4>2
            <4>3. QED
                BY <1>8, <4>1, <4>2
        <3> HIDE DEF Unbroken
        <3>8. k \in 1..(n + 1) /\ Started(q) = seen'[k].now
            BY <1>5, <3>1, <3>2
        <3>9. QED
            BY <3>6, <3>7, <3>8
    <2>5. CASE ~(Continuous(q) /\ rule.breach > 0)
        <3>1. Started(q) = q.now
            BY <2>5 DEF Started
        <3>2. ASSUME NEW l \in 1..n, Unbroken(l) PROVE FALSE
            <4>1. RunFrom(l) /\ q.at - seen[n].at <= MaxGap /\ n > 0
                BY <1>5, <2>3, <3>2
            <4>2. Last.judged = "breach" /\ Last = seen[n]
                BY <1>5, <2>2, <4>1 DEF RunFrom
            <4>3. rule.state = "pending" /\ Last.at \in Nat /\ Last.at # 0
                BY <1>5, <2>2, <4>1, <4>2 DEF AlertsInv, RowKnowsSeen, SeenInOrder, Observations
            <4>4. rule.sampled = Last.at
                BY <2>2, <4>1, <4>3 DEF AlertsInv, RowKnowsSeen
            <4>5. Continuous(q)
                BY <4>1, <4>2, <4>3, <4>4 DEF Continuous
            <4>6. PICK k \in 1..n : rule.breach = seen[k].now
                BY <4>3 DEF AlertsInv, RowKnowsRun
            <4>7. rule.breach > 0
                BY <1>5, <4>6 DEF Observations
            <4>8. QED
                BY <2>5, <4>5, <4>7
        <3> HIDE DEF Unbroken
        <3>3. \A l \in 1..(n + 1) : Unbroken(l) => n + 1 <= l
            BY <1>5, <1>8, <3>2
        <3>4. n + 1 \in 1..(n + 1) /\ Started(q) = seen'[n + 1].now
            BY <1>2, <1>5, <3>1
        <3>5. QED
            BY <2>1, <3>3, <3>4
    <2>6. QED
        BY <2>4, <2>5
<1>14. RowKnowsRun'
    <2> SUFFICES ASSUME ~rule'.incident
                 PROVE  \E k \in 1..(n + 1) :
                            /\ rule'.breach = seen'[k].now
                            /\ RunFrom(k)'
                            /\ \A l \in 1..(n + 1) : RunFrom(l)' => k <= l
        BY <1>5 DEF RowKnowsRun
    <2>1. ~rule.incident /\ rule'.breach = Started(q)
        BY <1>4
    <2> HIDE DEF Unbroken
    <2>2. QED
        BY <1>12, <1>13, <2>1
<1>15. IncidentIsSustained'
    <2>1. PICK m : m = n + 1
        OBVIOUS
    <2>2. Sustained(m)' <=> \E k \in 1..m : seen'[k].now + rule.duration <= q.now /\ Unbroken(k)
        <3>1. seen'[m].now = q.now
            BY <1>2, <1>5, <2>1
        <3>2. QED
            BY <1>4, <2>1, <3>1 DEF Sustained
    <2>3. ~rule.incident => (Sustained(m)' <=> fires)
        <3> SUFFICES ASSUME ~rule.incident PROVE Sustained(m)' <=> fires
            OBVIOUS
        <3>1. PICK k \in 1..(n + 1) :
                    /\ Started(q) = seen'[k].now
                    /\ Unbroken(k)
                    /\ \A l \in 1..(n + 1) : Unbroken(l) => k <= l
            BY <1>13
        <3>2. \A l \in 1..(n + 1) : k <= l => seen'[k].now <= seen'[l].now
            <4>1. \A i, j \in 1..(n + 1) : i < j => seen'[i].now < seen'[j].now
                BY <1>5, <1>10 DEF SeenInOrder
            <4>2. ASSUME NEW l \in 1..(n + 1), k <= l PROVE seen'[k].now <= seen'[l].now
                <5>1. k = l \/ k < l
                    BY <1>5, <4>2
                <5>2. seen'[k].now \in Nat /\ seen'[l].now \in Nat
                    BY <1>9
                <5>3. QED
                    BY <4>1, <5>1, <5>2
            <4>3. QED
                BY <4>2
        <3>3. fires <=> seen'[k].now + rule.duration <= q.now
            <4>1. seen'[k].now \in Nat /\ Started(q) = seen'[k].now /\ q.now \in Nat
                BY <1>2, <1>9, <3>1
            <4>2. QED
                BY <1>7, <4>1 DEF fires
        <3> HIDE DEF Unbroken
        <3>4. (\E l \in 1..m : seen'[l].now + rule.duration <= q.now /\ Unbroken(l))
              <=> seen'[k].now + rule.duration <= q.now
            <4>1. ASSUME NEW l \in 1..m, seen'[l].now + rule.duration <= q.now, Unbroken(l)
                  PROVE  seen'[k].now + rule.duration <= q.now
                <5>1. seen'[k].now <= seen'[l].now /\ seen'[k].now \in Nat /\ seen'[l].now \in Nat
                    BY <1>9, <2>1, <3>1, <3>2, <4>1
                <5>2. QED
                    BY <1>2, <1>7, <4>1, <5>1
            <4>2. QED
                BY <2>1, <3>1, <4>1
        <3>5. QED
            BY <2>2, <3>3, <3>4
    <2>4. (\E i \in DOMAIN seen' : Sustained(i)' /\ \A j \in i..Len(seen') : seen'[j].judged # "fine")
           <=> rule.incident \/ Sustained(m)'
        BY <1>2, <1>3, <1>4, <2>1, IncidentKept
    <2>5. rule'.incident <=> rule.incident \/ Sustained(m)'
        BY <1>4, <2>3
    <2>6. QED
        BY <2>4, <2>5 DEF IncidentIsSustained
<1>16. QED
    BY <1>10, <1>11, <1>14, <1>15 DEF AlertsInv

LEMMA AlertsTypes ==
    ASSUME AlertsInv, AlertsNext
    PROVE  AlertsTyped'
<1>1. AlertsTyped
    BY DEF AlertsInv
<1>2. \A w \in Evaluators : Answered(w) =>
        /\ asked' \in [Evaluators -> [on : BOOLEAN, now : Nat, at : Nat, judged : Judgements]]
        /\ \A v \in Evaluators : asked'[v].on => asked'[v].now > 0
    <2> SUFFICES ASSUME NEW w \in Evaluators, Answered(w)
                 PROVE  /\ asked' \in [Evaluators ->
                              [on : BOOLEAN, now : Nat, at : Nat, judged : Judgements]]
                        /\ \A v \in Evaluators : asked'[v].on => asked'[v].now > 0
        OBVIOUS
    <2>1. /\ asked \in [Evaluators -> [on : BOOLEAN, now : Nat, at : Nat, judged : Judgements]]
          /\ \A v \in Evaluators : asked[v].on => asked[v].now > 0
          /\ asked' = [asked EXCEPT ![w] = [asked[w] EXCEPT !.on = FALSE]]
        BY <1>1 DEF AlertsTyped, Answered
    <2>2. asked' \in [Evaluators -> [on : BOOLEAN, now : Nat, at : Nat, judged : Judgements]]
        BY <2>1
    <2>3. ASSUME NEW v \in Evaluators, asked'[v].on PROVE asked'[v].now > 0
        <3>1. CASE v = w
            BY <2>1, <2>3, <3>1
        <3>2. CASE v # w
            BY <2>1, <2>3, <3>2
        <3>3. QED
            BY <3>1, <3>2
    <2>4. QED
        BY <2>2, <2>3
<1>3. ASSUME seen' = seen \/ seen' = <<>> \/ \E o \in Observations : seen' \in {Append(seen, o), <<o>>}
      PROVE  seen' \in Seq(Observations)
    <2>1. seen \in Seq(Observations)
        BY <1>1 DEF AlertsTyped
    <2>2. CASE seen' = seen
        BY <2>1, <2>2
    <2>3. CASE seen' = <<>>
        <3>1. <<>> \in Seq(Observations)
            OBVIOUS
        <3>2. QED
            BY <2>3, <3>1
    <2>4. ASSUME NEW o \in Observations, seen' \in {Append(seen, o), <<o>>}
          PROVE  seen' \in Seq(Observations)
        <3>1. <<o>> \in Seq(Observations) /\ Append(seen, o) \in Seq(Observations)
            BY <2>1
        <3>2. QED
            BY <2>4, <3>1
    <2>5. QED
        BY <1>3, <2>2, <2>3, <2>4
<1>4. CASE Interval
    <2>1. clock' \in Nat \ {0}
        BY <1>1, <1>4 DEF Interval, AlertsTyped
    <2>2. latest' \in [at : Nat, judged : Judgements]
        <3>1. CASE UNCHANGED latest
            BY <1>1, <3>1 DEF AlertsTyped
        <3>2. CASE \E judged \in Judgements : latest' = [at |-> clock + 1, judged |-> judged]
            BY <1>1, <3>2 DEF AlertsTyped
        <3>3. QED
            BY <1>4, <3>1, <3>2 DEF Interval
    <2>3. UNCHANGED <<rule, asked, seen>>
        BY <1>4 DEF Interval
    <2>4. QED
        BY <1>1, <2>1, <2>2, <2>3 DEF AlertsTyped
<1>5. ASSUME NEW enabled \in BOOLEAN, NEW d \in Durations, UpdateRule(enabled, d)
      PROVE  AlertsTyped'
    <2>1. rule' = Fresh(enabled, d) /\ seen' = <<>> /\ UNCHANGED <<clock, latest, asked>>
        BY <1>5 DEF UpdateRule
    <2>2. d \in Nat
        BY AlertsAssumption
    <2>3. rule' \in [enabled : BOOLEAN, duration : Nat, state : States, evaluated : Nat,
                     breach : Nat, sampled : Nat, incident : BOOLEAN]
        BY <2>1, <2>2 DEF Fresh, States
    <2>4. QED
        BY <1>1, <1>3, <2>1, <2>3 DEF AlertsTyped
<1>6. ASSUME NEW w \in Evaluators, Ask(w)
      PROVE  AlertsTyped'
    BY <1>1, <1>6 DEF Ask, AlertsTyped
<1>7. ASSUME NEW w \in Evaluators, AskFails(w) \/ EvaluateNothing(w)
      PROVE  AlertsTyped'
    <2>1. Answered(w) /\ UNCHANGED <<clock, latest, rule>> /\ seen' = seen
        BY <1>7, QuestionWatched DEF AskFails, EvaluateNothing
    <2>2. QED
        BY <1>1, <1>2, <2>1 DEF AlertsTyped
<1>8. ASSUME NEW w \in Evaluators, EvaluateDisabled(w)
      PROVE  AlertsTyped'
    <2>1. /\ Answered(w) /\ UNCHANGED <<clock, latest, seen>> /\ asked[w].on
          /\ rule' = [Fresh(FALSE, rule.duration) EXCEPT !.evaluated = asked[w].now]
        BY <1>8 DEF EvaluateDisabled
    <2>2. rule.duration \in Nat /\ asked[w].now \in Nat
        BY <1>1 DEF AlertsTyped
    <2>3. rule' \in [enabled : BOOLEAN, duration : Nat, state : States, evaluated : Nat,
                     breach : Nat, sampled : Nat, incident : BOOLEAN]
        BY <2>1, <2>2 DEF Fresh, States
    <2>4. QED
        BY <1>1, <1>2, <2>1, <2>3 DEF AlertsTyped
<1>9. ASSUME NEW w \in Evaluators, EvaluateNoData(w) \/ EvaluateFine(w) \/ EvaluateBreach(w)
      PROVE  AlertsTyped'
    <2>1. Answered(w) /\ UNCHANGED <<clock, latest>> /\ asked[w].on /\ Watch(asked[w])
        BY <1>9 DEF EvaluateNoData, EvaluateFine, EvaluateBreach
    <2>2. asked[w].now \in Nat /\ asked[w].at \in Nat /\ Observation(asked[w]) \in Observations
        BY <2>1, QuestionFacts
    <2>3. seen' \in Seq(Observations)
        BY <1>3, <2>1, <2>2 DEF Watch
    <2>4. Started(asked[w]) \in Nat /\ "no_data" \in States /\ "normal" \in States
          /\ "pending" \in States /\ "firing" \in States
        BY <1>1, <2>2 DEF AlertsTyped, Started, States
    <2>5. rule' \in [enabled : BOOLEAN, duration : Nat, state : States, evaluated : Nat,
                     breach : Nat, sampled : Nat, incident : BOOLEAN]
        <3> HIDE DEF States
        <3>1. CASE EvaluateNoData(w)
            BY <1>1, <2>2, <2>4, <3>1 DEF EvaluateNoData, AlertsTyped
        <3>2. CASE EvaluateFine(w)
            BY <1>1, <2>2, <2>4, <3>2 DEF EvaluateFine, AlertsTyped
        <3>3. CASE EvaluateBreach(w)
            <4> DEFINE fires == asked[w].now - Started(asked[w]) >= rule.duration
            <4>1. rule' = [rule EXCEPT
                       !.state = IF rule.incident \/ fires THEN "firing" ELSE "pending",
                       !.breach = IF rule.incident THEN @ ELSE Started(asked[w]),
                       !.incident = rule.incident \/ fires,
                       !.evaluated = asked[w].now, !.sampled = asked[w].at]
                BY <3>3 DEF EvaluateBreach
            <4>2. (rule.incident \/ fires) \in BOOLEAN
                OBVIOUS
            <4> HIDE DEF fires
            <4>3. QED
                BY <1>1, <2>2, <2>4, <4>1, <4>2 DEF AlertsTyped
        <3>4. QED
            BY <1>9, <3>1, <3>2, <3>3
    <2>6. QED
        BY <1>1, <1>2, <2>1, <2>3, <2>5 DEF AlertsTyped
<1>10. QED
    BY <1>4, <1>5, <1>6, <1>7, <1>8, <1>9 DEF AlertsNext

LEMMA AlertsStepInv == AlertsInv /\ [AlertsNext]_alertVars => AlertsInv'
<1> SUFFICES ASSUME AlertsInv, [AlertsNext]_alertVars PROVE AlertsInv'
    OBVIOUS
<1>1. CASE UNCHANGED alertVars
    <2>1. UNCHANGED <<clock, latest, rule, asked, seen>>
        BY <1>1 DEF alertVars
    <2>2. AlertsTyped'
        BY <2>1 DEF AlertsInv, AlertsTyped
    <2>3. QED
        BY <2>1, <2>2, AlertsQuiet
<1>2. CASE AlertsNext
    <2>1. AlertsTyped'
        BY <1>2, AlertsTypes
    <2>2. CASE Interval \/ \E w \in Evaluators : Ask(w) \/ AskFails(w)
        BY <2>1, <2>2, AlertsQuiet DEF Interval, Ask, AskFails
    <2>3. ASSUME NEW enabled \in BOOLEAN, NEW d \in Durations, UpdateRule(enabled, d)
          PROVE  AlertsInv'
        BY <2>1, <2>3, AlertsCleared DEF UpdateRule, Fresh
    <2>4. ASSUME NEW w \in Evaluators, EvaluateNothing(w)
          PROVE  AlertsInv'
        BY <2>1, <2>4, QuestionWatched, AlertsQuiet DEF EvaluateNothing
    <2>5. ASSUME NEW w \in Evaluators, EvaluateDisabled(w)
          PROVE  AlertsInv'
        <3>1. ~rule.enabled /\ seen' = seen
              /\ rule' = [Fresh(FALSE, rule.duration) EXCEPT !.evaluated = asked[w].now]
            BY <2>5 DEF EvaluateDisabled
        <3>2. seen' = <<>>
            BY <3>1 DEF AlertsInv, RowKnowsSeen
        <3>3. ~rule'.enabled /\ ~rule'.incident /\ rule'.state = "disabled"
            BY <3>1 DEF Fresh
        <3>4. QED
            BY <2>1, <3>2, <3>3, AlertsCleared
    <2>6. QED
        BY <1>2, <2>1, <2>2, <2>3, <2>4, <2>5, AlertsNoData, AlertsFine, AlertsBreach
           DEF AlertsNext
<1>3. QED
    BY <1>1, <1>2

-----------------------------------------------------------------------------
(* The timing of a lease.                                                  *)

\* What the claim took counts until the first renewal.
Excess == IF renewed THEN 0 ELSE slow

\* A handler at work has a period left after its next heartbeat; while one is sent its timeout
\* ends with the lease, and once it has renewed the lease there are two periods from the last tick.
RoomIsLeft ==
    /\ attempt.at = "claiming" => expires = policy.lease /\ ~renewed
    /\ attempt.at = "working" =>
           /\ ~locked
           /\ instant <= attempt.tick
           /\ attempt.tick + policy.heartbeat <= expires + Excess
    /\ attempt.at = "beating" =>
           /\ attempt.tick <= instant /\ instant <= attempt.deadline
           /\ attempt.deadline = attempt.tick + policy.heartbeat
           /\ attempt.deadline <= expires + Excess
           /\ locked => attempt.deadline + policy.heartbeat <= expires

LeaseInv ==
    /\ LeaseTypeOK
    /\ policy.heartbeat >= 1 /\ 2 * policy.heartbeat <= policy.lease
    /\ RoomIsLeft

\* from_env leaves room for two periods in a lease.
LEMMA LeaseInitInv == LeaseInit => LeaseInv
<1> SUFFICES ASSUME LeaseInit PROVE LeaseInv
    OBVIOUS
<1>1. policy \in [lease : Nat, heartbeat : Nat] /\ policy.heartbeat >= 1
      /\ policy.heartbeat <= policy.lease \div 2
    BY LeaseClockAssumption DEF LeaseInit, Policies
<1>2. 2 * policy.heartbeat <= policy.lease
    BY <1>1
<1>3. LeaseTypeOK
    <2>1. instant \in 0..MaxInstant /\ expires \in Nat /\ slow \in Nat
        BY <1>1, LeaseClockAssumption DEF LeaseInit
    <2>2. attempt \in [at : Stages, tick : Nat, deadline : Nat]
        BY DEF LeaseInit, Stages
    <2>3. locked \in BOOLEAN /\ renewed \in BOOLEAN
        BY DEF LeaseInit
    <2>4. QED
        BY <1>1, <2>1, <2>2, <2>3 DEF LeaseTypeOK
<1>4. RoomIsLeft
    BY DEF LeaseInit, RoomIsLeft
<1>5. QED
    BY <1>1, <1>2, <1>3, <1>4 DEF LeaseInv

LEMMA LeaseStepInv == LeaseInv /\ [LeaseNext]_leaseVars => LeaseInv'
<1> SUFFICES ASSUME LeaseInv, [LeaseNext]_leaseVars PROVE LeaseInv'
    OBVIOUS
<1> USE LeaseClockAssumption DEF LeaseInv, LeaseTypeOK, RoomIsLeft, Excess, Stages
<1>0. policy.heartbeat \in Nat /\ policy.lease \in Nat /\ instant \in Nat /\ attempt.tick \in Nat
    OBVIOUS
<1>1. CASE Start
    <2>1. attempt' \in [at : Stages, tick : Nat, deadline : Nat]
        BY <1>0, <1>1 DEF Start
    <2>2. attempt'.at = "working" /\ attempt'.tick = instant + policy.heartbeat
        BY <1>1 DEF Start
    <2>3. LeaseTypeOK'
        BY <2>1, <1>0, <1>1 DEF Start
    <2>4. RoomIsLeft'
        BY <2>2, <1>0, <1>1 DEF Start
    <2>5. QED
        BY <2>3, <2>4, <1>1 DEF Start
<1>2. CASE Passes
    BY <1>2 DEF Passes, Due
<1>3. CASE SendHeartbeat
    <2> DEFINE deadline == instant + policy.heartbeat
    <2>1. attempt' = [attempt EXCEPT !.at = "beating", !.deadline = deadline]
        BY <1>3 DEF SendHeartbeat
    <2>2. deadline \in Nat
        BY <1>0
    <2> HIDE DEF deadline
    <2>3. attempt' \in [at : Stages, tick : Nat, deadline : Nat]
        BY <2>1, <2>2
    <2>4. attempt'.at = "beating" /\ attempt'.tick = attempt.tick /\ attempt'.deadline = deadline
        BY <2>1
    <2>5. LeaseTypeOK'
        BY <2>3, <1>3 DEF SendHeartbeat
    <2>6. /\ attempt.tick <= instant /\ instant <= deadline
          /\ deadline = attempt.tick + policy.heartbeat
          /\ deadline <= expires + Excess
        BY <1>0, <1>3 DEF SendHeartbeat, deadline
    <2>7. RoomIsLeft'
        BY <2>4, <2>6, <1>3 DEF SendHeartbeat
    <2>8. QED
        BY <2>5, <2>7, <1>3 DEF SendHeartbeat
<1>4. CASE Renew
    BY <1>4 DEF Renew
<1>5. CASE HeartbeatDone
    <2> DEFINE tick == attempt.tick + policy.heartbeat
    <2>1. attempt' = [attempt EXCEPT !.at = "working", !.tick = tick]
        BY <1>5 DEF HeartbeatDone
    <2>2. tick \in Nat
        BY <1>0
    <2> HIDE DEF tick
    <2>3. attempt' \in [at : Stages, tick : Nat, deadline : Nat]
        BY <2>1, <2>2
    <2>4. attempt'.at = "working" /\ attempt'.tick = tick
        BY <2>1
    <2>5. LeaseTypeOK'
        BY <2>3, <1>5 DEF HeartbeatDone
    <2>6. /\ instant <= tick
          /\ tick + policy.heartbeat <= expires
        BY <1>0, <1>5 DEF HeartbeatDone, tick
    <2>7. RoomIsLeft'
        BY <2>4, <2>6, <1>5 DEF HeartbeatDone
    <2>8. QED
        BY <2>5, <2>7, <1>5 DEF HeartbeatDone
<1>6. CASE Over
    BY <1>6 DEF Over
<1>7. CASE UNCHANGED leaseVars
    BY <1>7 DEF leaseVars
<1>8. QED
    BY <1>1, <1>2, <1>3, <1>4, <1>5, <1>6, <1>7 DEF LeaseNext

LEMMA LeaseInvIsInTime == LeaseInv => DroppedInTime
BY DEF LeaseInv, LeaseTypeOK, RoomIsLeft, Excess, DroppedInTime

-----------------------------------------------------------------------------
(* Rate limits.                                                            *)

CountedEntries == [id : Nat, count : Nat]
UnderWay == [at : {"none", "read", "counted"}, client : Clients, window : 0..MaxWindow, used : Nat]

\* Types without the bounds that the number of requests gives, and the requests' windows.
RateTyped ==
    /\ window \in Windows
    /\ local \in [table : [Clients -> CountedEntries], overflow : CountedEntries, pruned : 0..MaxWindow]
    /\ counter \in [Windows -> [Clients -> Nat]]
    /\ request \in [Requests -> UnderWay]
    /\ served \in [Windows -> [Clients -> [redis : Nat, local : Nat]]]
    /\ jumps \in Nat /\ late \in Nat /\ losses \in Nat
    /\ \A r \in Requests :
           request[r].at # "none" => request[r].window \in Windows /\ request[r].window <= window

\* What Redis has let through in a window that is not over is in its counter, but for what was
\* counted before each loss; in a window that is over its limit is used up at most.
RedisKeepsCount ==
    \A w \in Windows, c \in Clients :
        /\ counter[w][c] <= Limit
        /\ served[w][c].redis <= Limit * (1 + losses) + late
        /\ w >= window => served[w][c].redis <= Limit * losses + counter[w][c] + late

\* Requests of a client that are counted and that the process would let through.
PendingOf(w, c) ==
    {r \in Requests : /\ request[r].at = "counted"
                      /\ request[r].client = c /\ request[r].window = w
                      /\ request[r].used <= FallbackLimit}

Granted(w, c) == served[w][c].local + Cardinality(PendingOf(w, c))

RoomLeft(t) == Cardinality(Used(t.table)) < Capacity

\* The last count of a client in the window the table holds.
LastCount(t, c) ==
    IF c \in Used(t.table) THEN t.table[c].count
    ELSE IF ~RoomLeft(t) /\ t.overflow.id = t.pruned THEN t.overflow.count
    ELSE 0

Capped(n) == IF n <= FallbackLimit THEN n ELSE FallbackLimit

\* The table holds the entries of one window.
OneWindow(t) == \A c \in Used(t.table) : t.table[c].id = t.pruned

\* What the process has let through or may yet: in a window the table has not reached, no more
\* than each return to an older window allows; in the window it holds, what it has counted
\* since; in an older window one limit more, for the count that the next window ended.
Allowance(w, c) ==
    IF local.pruned < w THEN FallbackLimit * jumps
    ELSE IF local.pruned = w THEN FallbackLimit * jumps + Capped(LastCount(local, c))
    ELSE FallbackLimit * (1 + jumps)

ProcessKeepsCount ==
    /\ OneWindow(local)
    /\ \A w \in Windows, c \in Clients : Granted(w, c) <= Allowance(w, c)

RateInv == RateTyped /\ RedisKeepsCount /\ ProcessKeepsCount

\* Products with one more loss, or one more jump.
LEMMA OneMore ==
    ASSUME NEW f \in Nat, NEW n \in Nat
    PROVE  /\ f * n \in Nat /\ f * (1 + n) \in Nat
           /\ f * (1 + n) = f * n + f
           /\ f * (n + 1) = f * n + f
           /\ f * (1 + (n + 1)) = f * (1 + n) + f
    OBVIOUS

\* The count up to the limit.
LEMMA CappedFacts ==
    ASSUME NEW n \in Nat
    PROVE  /\ Capped(n) \in Nat /\ Capped(n) <= FallbackLimit
           /\ n >= 1 => Capped(n) >= 1
           /\ n + 1 <= FallbackLimit => Capped(n + 1) = Capped(n) + 1
           /\ \A m \in Nat : m <= n => Capped(m) <= Capped(n)
    BY RateLimitAssumption DEF Capped

LEMMA PendingFinite ==
    ASSUME NEW w, NEW c
    PROVE  /\ IsFiniteSet(PendingOf(w, c)) /\ Cardinality(PendingOf(w, c)) \in Nat
           /\ IsFiniteSet(PendingOf(w, c)') /\ Cardinality(PendingOf(w, c)') \in Nat
<1>1. PendingOf(w, c) \subseteq Requests /\ PendingOf(w, c)' \subseteq Requests
    BY DEF PendingOf
<1>2. QED
    BY <1>1, RateLimitAssumption, FS_Subset, FS_CardinalityType

LEMMA RateInitInv == RateInit => RateInv
<1> SUFFICES ASSUME RateInit PROVE RateInv
    OBVIOUS
<1>0. NoRequest \in UnderWay /\ NoRequest.at = "none"
    BY RateLimitAssumption DEF NoRequest, UnderWay
<1>1. RateTyped
    BY <1>0, RateLimitAssumption DEF RateInit, RateTyped, Windows, CountedEntries, NoEntry
<1>2. RedisKeepsCount
    BY RateLimitAssumption, OneMore DEF RateInit, RedisKeepsCount
<1>3. ProcessKeepsCount
    <2>1. OneWindow(local)
        BY DEF RateInit, OneWindow, Used
    <2>2. ASSUME NEW w \in Windows, NEW c \in Clients
          PROVE  Granted(w, c) <= Allowance(w, c)
        <3>1. PendingOf(w, c) = {}
            BY <1>0 DEF RateInit, PendingOf
        <3>2. Granted(w, c) = 0
            BY <3>1, FS_EmptySet DEF Granted, RateInit
        <3>3. Allowance(w, c) = FallbackLimit * jumps
            BY RateLimitAssumption DEF Allowance, RateInit, Windows
        <3>4. QED
            BY <3>2, <3>3, RateLimitAssumption, OneMore DEF RateInit
    <2>3. QED
        BY <2>1, <2>2 DEF ProcessKeepsCount
<1>4. QED
    BY <1>1, <1>2, <1>3 DEF RateInv

(***************************************************************************)
(* Redis.                                                                  *)
(***************************************************************************)

\* What letting a request through changes.
LEMMA LetChanges ==
    ASSUME RateTyped, NEW r \in Requests, request[r].window \in Windows, NEW who \in {"redis", "local"},
           Let(r, who)
    PROVE  /\ served' \in [Windows -> [Clients -> [redis : Nat, local : Nat]]]
           /\ \A w \in Windows, c \in Clients :
                  /\ served'[w][c].redis =
                         IF who = "redis" /\ w = request[r].window /\ c = request[r].client
                         THEN served[w][c].redis + 1 ELSE served[w][c].redis
                  /\ served'[w][c].local =
                         IF who = "local" /\ w = request[r].window /\ c = request[r].client
                         THEN served[w][c].local + 1 ELSE served[w][c].local
<1> DEFINE W == request[r].window
           C == request[r].client
<1>1. W \in Windows /\ C \in Clients
    BY DEF RateTyped, UnderWay
<1> HIDE DEF W, C
<1>2. served \in [Windows -> [Clients -> [redis : Nat, local : Nat]]]
    BY DEF RateTyped
<1> DEFINE old == served[W][C]
           new == [old EXCEPT ![who] = @ + 1]
           changedRow == [served[W] EXCEPT ![C] = new]
<1>3. served' = [served EXCEPT ![W] = changedRow]
    BY DEF Let, W, C
<1>4. old \in [redis : Nat, local : Nat] /\ served[W] \in [Clients -> [redis : Nat, local : Nat]]
    BY <1>1, <1>2
<1>5. /\ new \in [redis : Nat, local : Nat]
      /\ new.redis = IF who = "redis" THEN old.redis + 1 ELSE old.redis
      /\ new.local = IF who = "local" THEN old.local + 1 ELSE old.local
    BY <1>4
<1> HIDE DEF new
<1>6. changedRow \in [Clients -> [redis : Nat, local : Nat]] /\ changedRow[C] = new
      /\ \A c \in Clients \ {C} : changedRow[c] = served[W][c]
    BY <1>1, <1>4, <1>5
<1> HIDE DEF changedRow
<1>7. served' \in [Windows -> [Clients -> [redis : Nat, local : Nat]]] /\ served'[W] = changedRow
      /\ \A w \in Windows \ {W} : served'[w] = served[w]
    BY <1>1, <1>2, <1>3, <1>6
<1>8. QED
    BY <1>1, <1>5, <1>6, <1>7 DEF W, C

\* The script counts up to the limit.
LEMMA CountedChanges ==
    ASSUME RateTyped, NEW r \in Requests, request[r].at # "none"
    PROVE  LET q == request[r]
           IN  /\ Counted(q) \in [Windows -> [Clients -> Nat]]
               /\ \A w \in Windows, c \in Clients :
                      Counted(q)[w][c] = IF w = q.window /\ c = q.client /\ ~Full(q)
                                         THEN counter[w][c] + 1 ELSE counter[w][c]
<1>1. request[r].window \in Windows /\ request[r].client \in Clients
    BY DEF RateTyped, UnderWay
<1>2. counter \in [Windows -> [Clients -> Nat]]
    BY DEF RateTyped
<1>3. QED
    BY <1>1, <1>2 DEF Counted

\* A request that has left is none.
LEMMA LeaveChanges ==
    ASSUME RateTyped, NEW r \in Requests, Leave(r)
    PROVE  /\ request' \in [Requests -> UnderWay]
           /\ request'[r].at = "none"
           /\ \A s \in Requests \ {r} : request'[s] = request[s]
<1>1. NoRequest \in UnderWay /\ NoRequest.at = "none"
    BY RateLimitAssumption DEF NoRequest, UnderWay
<1>2. QED
    BY <1>1 DEF Leave, RateTyped

LEMMA NextTyped == ASSUME RateTyped, RateNext PROVE RateTyped'
<1>1. CASE \E r \in Requests, c \in Clients : Arrive(r, c)
    <2>1. PICK r \in Requests, c \in Clients : Arrive(r, c)
        BY <1>1
    <2> DEFINE new == [at |-> "read", client |-> c, window |-> window, used |-> 0]
    <2>2. new \in UnderWay /\ new.window = window /\ window \in Windows
        BY DEF UnderWay, RateTyped, Windows
    <2>3. request' = [request EXCEPT ![r] = new]
        BY <2>1 DEF Arrive
    <2> HIDE DEF new
    <2>4. QED
        BY <2>1, <2>2, <2>3 DEF Arrive, RateTyped, Windows
<1>2. CASE \E r \in Requests : CountLocally(r)
    <2>1. PICK r \in Requests : CountLocally(r)
        BY <1>2
    <2> DEFINE w == request[r].window
               c == request[r].client
    <2>2. w \in Windows /\ w \in Nat \ {0} /\ w \in 0..MaxWindow /\ c \in Clients
        BY <2>1 DEF RateTyped, CountLocally, UnderWay, Windows
    <2> HIDE DEF w, c
    <2>3. Pruned(w) \in [Clients -> CountedEntries]
        BY DEF RateTyped, Pruned, NoEntry, CountedEntries
    <2>4. \A e \in CountedEntries : Consumed(e, w) \in CountedEntries
        BY <2>2 DEF Consumed, CountedEntries
    <2>5. local' \in [table : [Clients -> CountedEntries], overflow : CountedEntries, pruned : 0..MaxWindow]
        <3>1. local' = Consume(c, w)
            BY <2>1 DEF CountLocally, w, c
        <3>2. [Pruned(w) EXCEPT ![c] = Consumed(@, w)] \in [Clients -> CountedEntries]
            BY <2>2, <2>3, <2>4
        <3>3. Consumed(local.overflow, w) \in CountedEntries
            BY <2>4 DEF RateTyped
        <3>4. QED
            BY <3>1, <3>2, <3>3, <2>2, <2>3 DEF Consume, RateTyped
    <2>6. CountOf(c, w) \in Nat
        BY <2>2, <2>3, <2>4 DEF CountOf, RateTyped, CountedEntries
    <2>7. request' = [request EXCEPT ![r].at = "counted", ![r].used = CountOf(c, w)]
        BY <2>1 DEF CountLocally, w, c
    <2>8. request' \in [Requests -> UnderWay]
        BY <2>6, <2>7, ZenonT(60) DEF RateTyped, UnderWay
    <2>9. \A s \in Requests :
              request'[s].window = request[s].window
              /\ (request'[s].at # "none" => request[s].at # "none")
        BY <2>1, <2>7 DEF RateTyped, UnderWay, CountLocally
    <2>10. jumps' \in Nat
        BY <2>1 DEF CountLocally, RateTyped
    <2>11. QED
        BY <2>1, <2>5, <2>8, <2>9, <2>10 DEF CountLocally, RateTyped
<1>3. CASE \E r \in Requests : RedisAnswers(r) \/ FallBack(r)
    <2>1. PICK r \in Requests : RedisAnswers(r) \/ FallBack(r)
        BY <1>3
    <2>2. request[r].at # "none" /\ request[r].window \in Windows /\ Leave(r)
        BY <2>1 DEF RedisAnswers, FallBack, RateTyped
    <2>3. counter' \in [Windows -> [Clients -> Nat]]
        BY <2>1, <2>2, CountedChanges DEF RedisAnswers, FallBack, RateTyped
    <2>4. served' \in [Windows -> [Clients -> [redis : Nat, local : Nat]]]
        <3>1. Let(r, "redis") \/ Let(r, "local") \/ UNCHANGED served
            BY <2>1 DEF RedisAnswers, FallBack
        <3>2. QED
            BY <2>2, <3>1, LetChanges DEF RateTyped
    <2>5. late' \in Nat /\ UNCHANGED <<window, local, jumps, losses>>
        BY <2>1 DEF RedisAnswers, FallBack, RateTyped
    <2>6. QED
        BY <2>2, <2>3, <2>4, <2>5, LeaveChanges DEF RateTyped
<1>4. CASE NextWindow
    <2>1. window' \in Windows /\ window' = window + 1 /\ window \in Nat
        BY <1>4, RateLimitAssumption DEF NextWindow, RateTyped, Windows
    <2>2. counter' \in [Windows -> [Clients -> Nat]]
        BY <1>4 DEF NextWindow, RateTyped
    <2>3. \A r \in Requests : request[r].at # "none" =>
              request[r].window \in Windows /\ request[r].window <= window'
        BY <2>1 DEF RateTyped, Windows
    <2>4. QED
        BY <1>4, <2>1, <2>2, <2>3 DEF NextWindow, RateTyped
<1>5. CASE LoseCounters
    BY <1>5 DEF LoseCounters, RateTyped
<1>6. QED
    BY <1>1, <1>2, <1>3, <1>4, <1>5 DEF RateNext

LEMMA NextRedis == ASSUME RateTyped, RedisKeepsCount, RateNext PROVE RedisKeepsCount'
<1> USE RateLimitAssumption
<1>0. /\ window \in Nat /\ late \in Nat /\ losses \in Nat
      /\ \A w \in Windows, c \in Clients :
             w \in Nat /\ counter[w][c] \in Nat /\ served[w][c].redis \in Nat
    BY SMTT(30) DEF RateTyped, Windows
<1>1. /\ Limit * losses \in Nat /\ Limit * (1 + losses) = Limit * losses + Limit
      /\ Limit * (1 + (losses + 1)) = Limit * (1 + losses) + Limit
      /\ Limit * (losses + 1) = Limit * losses + Limit
    BY <1>0, OneMore
<1>2. CASE \E r \in Requests : RedisAnswers(r)
    <2>1. PICK r \in Requests : RedisAnswers(r)
        BY <1>2
    <2> DEFINE q == request[r]
    <2>2. /\ q.at # "none" /\ q.window \in Windows /\ q.client \in Clients
          /\ q.window \in Nat /\ q.window <= window
        <3>1. q.at # "none" /\ q \in UnderWay
            BY <2>1 DEF RedisAnswers, RateTyped
        <3>2. q.window \in Windows /\ q.window <= window
            BY <3>1 DEF RateTyped
        <3>3. QED
            BY <3>1, <3>2 DEF UnderWay, Windows
    <2>3. UNCHANGED <<window, losses>>
          /\ late' = IF q.window < window THEN late + 1 ELSE late
        BY <2>1 DEF RedisAnswers
    <2>4. ASSUME NEW w \in Windows, NEW c \in Clients
          PROVE  counter'[w][c] = IF w = q.window /\ c = q.client /\ ~Full(q)
                                  THEN counter[w][c] + 1 ELSE counter[w][c]
        BY <2>1, <2>2, CountedChanges DEF RedisAnswers
    <2>5. ASSUME NEW w \in Windows, NEW c \in Clients
          PROVE  served'[w][c].redis = IF w = q.window /\ c = q.client /\ ~Full(q)
                                       THEN served[w][c].redis + 1 ELSE served[w][c].redis
        BY <2>1, <2>2, LetChanges DEF RedisAnswers
    <2>6. ASSUME NEW w \in Windows, NEW c \in Clients
          PROVE  /\ counter'[w][c] <= Limit
                 /\ served'[w][c].redis <= Limit * (1 + losses) + late'
                 /\ w >= window => served'[w][c].redis <= Limit * losses + counter'[w][c] + late'
        <3>1. CASE w = q.window /\ c = q.client /\ ~Full(q)
            <4>1. counter[w][c] < Limit
                BY <3>1, <1>0 DEF Full
            <4>2. counter'[w][c] = counter[w][c] + 1 /\ served'[w][c].redis = served[w][c].redis + 1
                BY <3>1, <2>4, <2>5
            <4>3. CASE w < window
                BY <3>1, <4>1, <4>2, <4>3, <1>0, <1>1, <2>3 DEF RedisKeepsCount
            <4>4. CASE w >= window
                <5>1. late' = late
                    BY <3>1, <4>4, <1>0, <2>2, <2>3
                <5>2. served[w][c].redis <= Limit * losses + counter[w][c] + late
                    BY <4>4 DEF RedisKeepsCount
                <5>3. QED
                    BY <4>1, <4>2, <5>1, <5>2, <1>0, <1>1
            <4>5. QED
                BY <4>3, <4>4, <1>0
        <3>2. CASE ~(w = q.window /\ c = q.client /\ ~Full(q))
            <4>1. counter'[w][c] = counter[w][c] /\ served'[w][c].redis = served[w][c].redis
                  /\ late' >= late /\ late' \in Nat
                BY <3>2, <1>0, <2>3, <2>4, <2>5
            <4>2. QED
                BY <4>1, <1>0, <1>1 DEF RedisKeepsCount
        <3>3. QED
            BY <3>1, <3>2
    <2>7. QED
        BY <2>3, <2>6 DEF RedisKeepsCount
<1>3. CASE \E r \in Requests : FallBack(r)
    <2>1. PICK r \in Requests : FallBack(r)
        BY <1>3
    <2> DEFINE q == request[r]
    <2>2. q.at # "none" /\ q.window \in Windows /\ q.client \in Clients
        BY <2>1 DEF FallBack, RateTyped, UnderWay
    <2>3. UNCHANGED <<window, losses, late>>
        BY <2>1 DEF FallBack
    <2>4. ASSUME NEW w \in Windows, NEW c \in Clients
          PROVE  counter'[w][c] \in Nat /\ counter'[w][c] >= counter[w][c] /\ counter'[w][c] <= Limit
        <3>1. Counted(q)[w][c] = IF w = q.window /\ c = q.client /\ ~Full(q)
                                 THEN counter[w][c] + 1 ELSE counter[w][c]
            BY <2>2, CountedChanges
        <3>2. Full(q) <=> counter[q.window][q.client] >= Limit
            BY DEF Full
        <3>3. counter'[w][c] = counter[w][c] \/ counter'[w][c] = Counted(q)[w][c]
            BY <2>1 DEF FallBack
        <3>4. QED
            BY <1>0, <2>2, <3>1, <3>2, <3>3 DEF RedisKeepsCount
    <2>5. ASSUME NEW w \in Windows, NEW c \in Clients
          PROVE  served'[w][c].redis = served[w][c].redis
        BY <2>1, <2>2, LetChanges DEF FallBack
    <2>6. ASSUME NEW w \in Windows, NEW c \in Clients
          PROVE  /\ counter'[w][c] <= Limit
                 /\ served'[w][c].redis <= Limit * (1 + losses) + late
                 /\ w >= window => served'[w][c].redis <= Limit * losses + counter'[w][c] + late
        BY <1>0, <1>1, <2>4, <2>5 DEF RedisKeepsCount
    <2>7. QED
        BY <2>3, <2>6 DEF RedisKeepsCount
<1>4. CASE NextWindow
    <2>1. window' = window + 1 /\ UNCHANGED <<served, late, losses>>
        BY <1>4 DEF NextWindow
    <2>2. ASSUME NEW w \in Windows, NEW c \in Clients
          PROVE  counter'[w][c] = IF w = window THEN 0 ELSE counter[w][c]
        BY <1>4 DEF NextWindow, RateTyped
    <2>3. ASSUME NEW w \in Windows, NEW c \in Clients
          PROVE  /\ counter'[w][c] <= Limit
                 /\ served[w][c].redis <= Limit * (1 + losses) + late
                 /\ w >= window' => served[w][c].redis <= Limit * losses + counter'[w][c] + late
        BY <1>0, <1>1, <2>1, <2>2 DEF RedisKeepsCount
    <2>4. QED
        BY <2>1, <2>3 DEF RedisKeepsCount
<1>5. CASE LoseCounters
    <2>1. losses' = losses + 1 /\ UNCHANGED <<window, served, late>>
        BY <1>5 DEF LoseCounters
    <2>2. ASSUME NEW w \in Windows, NEW c \in Clients
          PROVE  counter'[w][c] = 0
        BY <1>5 DEF LoseCounters
    <2>3. ASSUME NEW w \in Windows, NEW c \in Clients
          PROVE  /\ counter'[w][c] <= Limit
                 /\ served[w][c].redis <= Limit * (1 + losses') + late
                 /\ w >= window => served[w][c].redis <= Limit * losses' + counter'[w][c] + late
        BY <1>0, <1>1, <2>1, <2>2 DEF RedisKeepsCount
    <2>4. QED
        BY <2>1, <2>3 DEF RedisKeepsCount
<1>6. CASE \E r \in Requests, c \in Clients : Arrive(r, c)
    BY <1>6 DEF Arrive, RedisKeepsCount
<1>7. CASE \E r \in Requests : CountLocally(r)
    BY <1>7 DEF CountLocally, RedisKeepsCount
<1>8. QED
    BY <1>2, <1>3, <1>4, <1>5, <1>6, <1>7 DEF RateNext

(***************************************************************************)
(* The process.                                                            *)
(***************************************************************************)

\* Entries that a table holds for the window w are the only ones it is pruned to.
LEMMA PrunedTable ==
    ASSUME RateTyped, OneWindow(local), NEW w \in Windows
    PROVE  /\ Pruned(w) \in [Clients -> CountedEntries]
           /\ local.pruned = w => Pruned(w) = local.table
           /\ \A c \in Clients : Pruned(w)[c] # NoEntry => Pruned(w)[c].id = w
    BY DEF RateTyped, OneWindow, Pruned, Used, NoEntry, CountedEntries

\* Counting one request: the table holds its window then, its client's count is one more than
\* before if the table held that window before, and nobody's count is less.
LEMMA Counting ==
    ASSUME RateTyped, OneWindow(local), NEW r \in Requests, CountLocally(r)
    PROVE  LET w == request[r].window
               c == request[r].client
               n == CountOf(c, w)
           IN  /\ OneWindow(local') /\ local'.pruned = w
               /\ n \in Nat /\ n >= 1 /\ LastCount(local', c) = n
               /\ local.pruned = w => n = LastCount(local, c) + 1
               /\ \A d \in Clients :
                      /\ LastCount(local', d) \in Nat
                      /\ local.pruned = w => LastCount(local, d) <= LastCount(local', d)
<1> DEFINE w == request[r].window
           c == request[r].client
           n == CountOf(c, w)
           table == Pruned(w)
<1>1. w \in Windows /\ w \in Nat \ {0} /\ c \in Clients
    <2>1. request[r] \in UnderWay /\ w \in Windows
        BY DEF CountLocally, RateTyped
    <2>2. QED
        BY <2>1 DEF UnderWay, Windows
<1>2. /\ local' = Consume(c, w)
      /\ local.overflow \in CountedEntries /\ local.table \in [Clients -> CountedEntries]
      /\ local \in [table : [Clients -> CountedEntries], overflow : CountedEntries, pruned : 0..MaxWindow]
    BY DEF CountLocally, RateTyped
<1> HIDE DEF w, c
<1>3. /\ table \in [Clients -> CountedEntries]
      /\ local.pruned = w => table = local.table
      /\ \A d \in Clients : table[d] # NoEntry => table[d].id = w
    BY <1>1, PrunedTable
<1>4. ASSUME NEW e \in CountedEntries
      PROVE  /\ Consumed(e, w) \in CountedEntries
             /\ Consumed(e, w).id = w /\ Consumed(e, w).count >= 1 /\ Consumed(e, w) # NoEntry
             /\ e.id = w => Consumed(e, w).count = e.count + 1
             /\ e.id # w => Consumed(e, w).count = 1
    BY <1>1 DEF Consumed, CountedEntries, NoEntry
<1>5. ASSUME NEW d \in Clients
      PROVE  /\ LastCount(local, d) \in Nat
             /\ d \in Used(local.table) => LastCount(local, d) = local.table[d].count
             /\ d \notin Used(local.table) /\ (RoomLeft(local) \/ local.overflow.id # local.pruned)
                    => LastCount(local, d) = 0
             /\ d \notin Used(local.table) /\ ~RoomLeft(local) /\ local.overflow.id = local.pruned
                    => LastCount(local, d) = local.overflow.count
    BY <1>2 DEF LastCount, CountedEntries
<1>6. CASE InTable(table, c)
    <2> DEFINE new == [table EXCEPT ![c] = Consumed(@, w)]
    <2>1. new \in [Clients -> CountedEntries] /\ new[c] = Consumed(table[c], w)
          /\ \A d \in Clients \ {c} : new[d] = table[d]
        BY <1>1, <1>3, <1>4
    <2>2. local'.pruned = w /\ local'.table = new /\ local'.overflow = local.overflow
        BY <1>2, <1>6 DEF Consume
    <2>3. n = Consumed(table[c], w).count
        BY <1>6 DEF CountOf
    <2>4. Used(new) = Used(table) \cup {c}
        BY <2>1, <1>1, <1>3, <1>4 DEF Used
    <2> HIDE DEF new, table, n
    <2>5. OneWindow(local')
        BY <2>1, <2>2, <1>1, <1>3, <1>4 DEF OneWindow, Used
    <2>6. n \in Nat /\ n >= 1 /\ LastCount(local', c) = n
        <3>1. table[c] \in CountedEntries /\ Consumed(table[c], w) \in CountedEntries
            BY <1>1, <1>3, <1>4
        <3>2. n \in Nat /\ n >= 1
            BY <3>1, <2>3, <1>4 DEF CountedEntries
        <3>3. LastCount(local', c) = new[c].count
            <4>1. c \in Used(local'.table)
                BY <2>2, <2>4
            <4>2. QED
                BY <4>1, <2>2 DEF LastCount, Used
        <3>4. QED
            BY <3>2, <3>3, <2>1, <2>3
    <2>7. ASSUME NEW d \in Clients PROVE LastCount(local', d) \in Nat
        BY <2>1, <2>2, <1>2 DEF LastCount, CountedEntries
    <2>8. ASSUME local.pruned = w
          PROVE  n = LastCount(local, c) + 1
        <3>1. CASE c \in Used(local.table)
            <4>1. table[c] = local.table[c] /\ table[c] # NoEntry
                BY <2>8, <3>1, <1>3 DEF Used
            <4>2. QED
                BY <4>1, <3>1, <2>3, <1>1, <1>3, <1>4, <1>5
        <3>2. CASE c \notin Used(local.table)
            <4>1. RoomLeft(local)
                BY <2>8, <3>2, <1>3, <1>6 DEF InTable, RoomLeft
            <4>2. table[c] = NoEntry /\ NoEntry.id = 0
                BY <2>8, <3>2, <1>1, <1>3 DEF Used, NoEntry
            <4>3. LastCount(local, c) = 0
                BY <3>2, <4>1, <1>1, <1>5
            <4>4. QED
                BY <4>2, <4>3, <2>3, <1>1, <1>3, <1>4
        <3>3. QED
            BY <3>1, <3>2
    <2>9. ASSUME local.pruned = w, NEW d \in Clients
          PROVE  LastCount(local, d) <= LastCount(local', d)
        <3>1. CASE d = c
            <4>1. LastCount(local, c) \in Nat /\ n = LastCount(local, c) + 1
                BY <2>8, <2>9, <1>1, <1>5
            <4>2. QED
                BY <3>1, <4>1, <2>6
        <3>2. CASE d # c /\ d \in Used(local.table)
            <4>1. d \in Used(new) /\ new[d] = local.table[d]
                BY <2>9, <3>2, <2>1, <2>4, <1>3
            <4>2. LastCount(local', d) = new[d].count
                BY <4>1, <2>2 DEF LastCount
            <4>3. QED
                BY <4>1, <4>2, <3>2, <1>5
        <3>3. CASE d # c /\ d \notin Used(local.table)
            <4>1. d \notin Used(new)
                BY <2>9, <3>3, <2>4, <1>3
            <4>2. CASE RoomLeft(local) \/ local.overflow.id # local.pruned
                BY <4>2, <3>3, <2>7, <1>5
            <4>3. CASE ~RoomLeft(local) /\ local.overflow.id = local.pruned
                <5>1. c \in Used(local.table)
                    BY <4>3, <2>9, <1>3, <1>6 DEF InTable, RoomLeft
                <5>2. Used(new) = Used(local.table)
                    BY <5>1, <2>9, <2>4, <1>3
                <5>3. ~RoomLeft(local')
                    BY <5>2, <4>3, <2>2 DEF RoomLeft
                <5>4. LastCount(local', d) = local.overflow.count
                    BY <5>3, <4>1, <4>3, <2>2, <2>9 DEF LastCount
                <5>5. QED
                    BY <5>4, <4>3, <3>3, <1>5
            <4>4. QED
                BY <4>2, <4>3
        <3>4. QED
            BY <3>1, <3>2, <3>3
    <2>10. QED
        BY <2>2, <2>5, <2>6, <2>7, <2>8, <2>9 DEF w, c, n
<1>7. CASE ~InTable(table, c)
    <2> DEFINE over == Consumed(local.overflow, w)
    <2>1. local'.pruned = w /\ local'.table = table /\ local'.overflow = over
        BY <1>2, <1>7 DEF Consume
    <2>2. n = over.count /\ over \in CountedEntries /\ over.id = w /\ over.count >= 1
        BY <1>2, <1>4, <1>7 DEF CountOf
    <2>3. c \notin Used(table) /\ ~(Cardinality(Used(table)) < Capacity)
        BY <1>7 DEF InTable
    <2>4. (local.overflow.id = w => over.count = local.overflow.count + 1)
        BY <1>2, <1>4
    <2> HIDE DEF over, table, n
    <2>5. OneWindow(local')
        BY <2>1, <1>3 DEF OneWindow, Used
    <2>6. ~RoomLeft(local')
        BY <2>1, <2>3 DEF RoomLeft
    <2>7. n \in Nat /\ n >= 1 /\ LastCount(local', c) = n
        <3>1. n \in Nat /\ n >= 1
            BY <2>2 DEF CountedEntries
        <3>2. LastCount(local', c) = over.count
            <4>1. c \notin Used(local'.table) /\ local'.overflow.id = local'.pruned
                BY <2>1, <2>2, <2>3
            <4>2. QED
                BY <4>1, <2>1, <2>6 DEF LastCount, Used
        <3>3. QED
            BY <3>1, <3>2, <2>2
    <2>8. ASSUME NEW d \in Clients PROVE LastCount(local', d) \in Nat
        BY <2>1, <2>2, <1>3 DEF LastCount, CountedEntries
    <2>9. ASSUME local.pruned = w
          PROVE  n = LastCount(local, c) + 1
        <3>1. c \notin Used(local.table) /\ ~RoomLeft(local)
            BY <2>3, <2>9, <1>3 DEF RoomLeft
        <3>2. CASE local.overflow.id = w
            BY <3>1, <3>2, <2>2, <2>4, <2>9, <1>1, <1>5
        <3>3. CASE local.overflow.id # w
            <4>1. LastCount(local, c) = 0
                BY <3>1, <3>3, <2>9, <1>1, <1>5
            <4>2. over.count = 1
                BY <3>3, <1>2, <1>4 DEF over
            <4>3. QED
                BY <4>1, <4>2, <2>2
        <3>4. QED
            BY <3>2, <3>3
    <2>10. ASSUME local.pruned = w, NEW d \in Clients
           PROVE  LastCount(local, d) <= LastCount(local', d)
        <3>1. CASE d \in Used(local.table)
            <4>1. LastCount(local', d) = local.table[d].count
                BY <2>1, <2>10, <3>1, <1>3 DEF LastCount
            <4>2. QED
                BY <4>1, <3>1, <1>5
        <3>2. CASE d \notin Used(local.table)
            <4>1. LastCount(local', d) = over.count
                BY <2>1, <2>2, <2>6, <2>10, <3>2, <1>3 DEF LastCount
            <4>2. CASE RoomLeft(local) \/ local.overflow.id # local.pruned
                BY <4>2, <3>2, <2>8, <1>5
            <4>3. CASE ~RoomLeft(local) /\ local.overflow.id = local.pruned
                <5>1. LastCount(local, d) = local.overflow.count /\ over.count = local.overflow.count + 1
                    BY <4>3, <3>2, <2>4, <2>10, <1>5
                <5>2. QED
                    BY <5>1, <4>1, <1>2 DEF CountedEntries
            <4>4. QED
                BY <4>2, <4>3
        <3>3. QED
            BY <3>1, <3>2
    <2>11. QED
        BY <2>1, <2>5, <2>7, <2>8, <2>9, <2>10 DEF w, c, n
<1>8. QED
    BY <1>6, <1>7

\* A request that is counted is granted at most once, and only if its count is in the limit.
LEMMA GrantCounted ==
    ASSUME RateTyped, NEW r \in Requests, CountLocally(r), NEW w \in Windows, NEW c \in Clients
    PROVE  Granted(w, c)' =
               IF /\ w = request[r].window /\ c = request[r].client
                  /\ CountOf(c, w) <= FallbackLimit
               THEN Granted(w, c) + 1 ELSE Granted(w, c)
<1> DEFINE n == CountOf(request[r].client, request[r].window)
           mine == w = request[r].window /\ c = request[r].client /\ n <= FallbackLimit
<1>1. /\ request[r].at = "read" /\ request \in [Requests -> UnderWay] /\ UNCHANGED served
      /\ request' = [request EXCEPT ![r].at = "counted", ![r].used = n]
    BY DEF CountLocally, RateTyped
<1> HIDE DEF n
<1>2. /\ request'[r].at = "counted" /\ request'[r].used = n
      /\ request'[r].client = request[r].client /\ request'[r].window = request[r].window
      /\ \A s \in Requests \ {r} : request'[s] = request[s]
    BY <1>1 DEF UnderWay
<1>3. PendingOf(w, c)' = IF mine THEN PendingOf(w, c) \cup {r} ELSE PendingOf(w, c)
    BY <1>1, <1>2 DEF PendingOf
<1>4. r \notin PendingOf(w, c)
    BY <1>1 DEF PendingOf
<1>5. Cardinality(PendingOf(w, c)') =
          IF mine THEN Cardinality(PendingOf(w, c)) + 1 ELSE Cardinality(PendingOf(w, c))
    BY <1>3, <1>4, PendingFinite, FS_AddElement
<1>6. Granted(w, c)' = served[w][c].local + Cardinality(PendingOf(w, c)')
    BY <1>1 DEF Granted
<1>7. served[w][c].local \in Nat /\ Cardinality(PendingOf(w, c)) \in Nat
    BY PendingFinite DEF RateTyped
<1>8. Granted(w, c)' = IF mine THEN Granted(w, c) + 1 ELSE Granted(w, c)
    BY <1>5, <1>6, <1>7 DEF Granted
<1>9. QED
    BY <1>8 DEF n

\* A request that leaves has been let through only if it was granted.
LEMMA GrantLeft ==
    ASSUME RateTyped, NEW r \in Requests, RedisAnswers(r) \/ FallBack(r),
           NEW w \in Windows, NEW c \in Clients
    PROVE  Granted(w, c)' <= Granted(w, c)
<1>1. /\ request[r].at = "counted" /\ request \in [Requests -> UnderWay] /\ Leave(r)
      /\ request[r].window \in Windows
    BY DEF RedisAnswers, FallBack, RateTyped
<1>2. PendingOf(w, c)' = PendingOf(w, c) \ {r}
    BY <1>1, LeaveChanges DEF PendingOf
<1>3. Cardinality(PendingOf(w, c)') =
          IF r \in PendingOf(w, c) THEN Cardinality(PendingOf(w, c)) - 1 ELSE Cardinality(PendingOf(w, c))
    BY <1>2, PendingFinite, FS_RemoveElement
<1>4. served[w][c].local \in Nat /\ Cardinality(PendingOf(w, c)) \in Nat
    BY PendingFinite DEF RateTyped
<1>5. CASE FallBack(r) /\ request[r].used <= FallbackLimit
    <2>1. Let(r, "local")
        BY <1>5 DEF FallBack
    <2>2. served'[w][c].local = IF w = request[r].window /\ c = request[r].client
                                THEN served[w][c].local + 1 ELSE served[w][c].local
        BY <1>1, <2>1, LetChanges
    <2>3. r \in PendingOf(w, c) <=> w = request[r].window /\ c = request[r].client
        BY <1>1, <1>5 DEF PendingOf
    <2>4. QED
        BY <1>3, <1>4, <2>2, <2>3 DEF Granted
<1>6. CASE ~(FallBack(r) /\ request[r].used <= FallbackLimit)
    <2>1. Let(r, "redis") \/ UNCHANGED served
        BY <1>6 DEF RedisAnswers, FallBack
    <2>2. served'[w][c].local = served[w][c].local
        BY <1>1, <2>1, LetChanges
    <2>3. QED
        BY <1>3, <1>4, <2>2 DEF Granted
<1>7. QED
    BY <1>5, <1>6

\* What grants nothing and leaves the table alone keeps the count.
LEMMA ProcessRests ==
    ASSUME RateTyped, ProcessKeepsCount, UNCHANGED <<local, jumps>>,
           \A w \in Windows, c \in Clients :
               Granted(w, c)' \in Int /\ Granted(w, c)' <= Granted(w, c)
    PROVE  ProcessKeepsCount'
<1>1. OneWindow(local')
    BY DEF ProcessKeepsCount
<1>2. ASSUME NEW w \in Windows, NEW c \in Clients
      PROVE  Granted(w, c)' <= Allowance(w, c)'
    <2>1. Allowance(w, c)' = Allowance(w, c)
        BY DEF Allowance, LastCount, RoomLeft, Used
    <2>2. Granted(w, c) <= Allowance(w, c)
        BY DEF ProcessKeepsCount
    <2>3. Granted(w, c) \in Int /\ Allowance(w, c) \in Int
        <3>1. Granted(w, c) \in Int
            BY PendingFinite DEF Granted, RateTyped
        <3>2. Allowance(w, c) \in Int
            <4>1. FallbackLimit * jumps \in Nat /\ FallbackLimit * (1 + jumps) \in Nat
                BY RateLimitAssumption, OneMore DEF RateTyped
            <4>2. Capped(LastCount(local, c)) \in Nat
                BY RateLimitAssumption DEF Capped, LastCount, RateTyped, CountedEntries, Used
            <4>3. QED
                BY <4>1, <4>2 DEF Allowance
        <3>3. QED
            BY <3>1, <3>2
    <2>4. QED
        BY <2>1, <2>2, <2>3
<1>3. QED
    BY <1>1, <1>2 DEF ProcessKeepsCount

LEMMA NextProcess == ASSUME RateTyped, ProcessKeepsCount, RateNext PROVE ProcessKeepsCount'
<1>0. RateTyped'
    BY NextTyped
<1>1. ASSUME NEW w \in Windows, NEW c \in Clients
      PROVE  Granted(w, c) \in Nat /\ Granted(w, c)' \in Nat
    BY <1>0, PendingFinite DEF Granted, RateTyped
<1>2. CASE \E r \in Requests : CountLocally(r)
    <2>1. PICK r \in Requests : CountLocally(r)
        BY <1>2
    <2> DEFINE v == request[r].window
               d == request[r].client
               n == CountOf(d, v)
               J == FallbackLimit * jumps
    <2>2. v \in Windows /\ v \in Nat /\ d \in Clients
        <3>1. request[r] \in UnderWay /\ v \in Windows
            BY <2>1 DEF CountLocally, RateTyped
        <3>2. QED
            BY <3>1 DEF UnderWay, Windows
    <2>3. /\ OneWindow(local') /\ local'.pruned = v
          /\ n \in Nat /\ n >= 1 /\ LastCount(local', d) = n
          /\ local.pruned = v => n = LastCount(local, d) + 1
          /\ \A c \in Clients : /\ LastCount(local', c) \in Nat
                               /\ local.pruned = v => LastCount(local, c) <= LastCount(local', c)
        BY <2>1, Counting DEF ProcessKeepsCount
    <2>4. ASSUME NEW w \in Windows, NEW c \in Clients
          PROVE  Granted(w, c)' = IF w = v /\ c = d /\ n <= FallbackLimit
                                  THEN Granted(w, c) + 1 ELSE Granted(w, c)
        BY <2>1, GrantCounted
    <2>5. jumps' = IF v < local.pruned THEN jumps + 1 ELSE jumps
        BY <2>1 DEF CountLocally
    <2>6. /\ FallbackLimit \in Nat /\ FallbackLimit >= 1 /\ jumps \in Nat /\ local.pruned \in Nat
          /\ \A c \in Clients : LastCount(local, c) \in Nat
        BY RateLimitAssumption DEF RateTyped, LastCount, CountedEntries, Used
    <2>7. /\ J \in Nat /\ FallbackLimit * (1 + jumps) = J + FallbackLimit
          /\ FallbackLimit * (jumps + 1) = J + FallbackLimit
          /\ FallbackLimit * (1 + (jumps + 1)) = J + FallbackLimit + FallbackLimit
        BY <2>6, OneMore
    <2> HIDE DEF v, d, n, J
    <2>8. ASSUME NEW w \in Windows, NEW c \in Clients
          PROVE  Granted(w, c)' <= Allowance(w, c)'
        <3>0. w \in Nat
            BY DEF Windows
        <3>1. Granted(w, c) <= IF local.pruned < w THEN J
                               ELSE IF local.pruned = w THEN J + Capped(LastCount(local, c))
                               ELSE J + FallbackLimit
            BY <2>7 DEF ProcessKeepsCount, Allowance, J
        <3>2. Granted(w, c) <= J + FallbackLimit
            BY <3>1, <1>1, <2>6, <2>7 DEF Capped
        <3>3. /\ LastCount(local, c) \in Nat /\ LastCount(local', c) \in Nat
              /\ Capped(LastCount(local, c)) \in Nat /\ Capped(LastCount(local', c)) \in Nat
            <4>1. LastCount(local, c) \in Nat
                BY <2>6
            <4>2. LastCount(local', c) \in Nat
                BY <1>0 DEF RateTyped, LastCount, CountedEntries, Used
            <4>3. QED
                BY <4>1, <4>2, CappedFacts
        <3>4. Granted(w, c)' = Granted(w, c) \/ Granted(w, c)' = Granted(w, c) + 1
            BY <2>4
        <3>5. w = v /\ c = d /\ n <= FallbackLimit => Capped(LastCount(local', c)) >= 1
            BY <2>3, CappedFacts
        <3>6. ~(w = v /\ c = d /\ n <= FallbackLimit) => Granted(w, c)' = Granted(w, c)
            BY <2>4
        <3>7. CASE v < local.pruned
            <4>1. Allowance(w, c)' = IF v < w THEN J + FallbackLimit
                                     ELSE IF v = w THEN J + FallbackLimit + Capped(LastCount(local', c))
                                     ELSE J + FallbackLimit + FallbackLimit
                BY <3>7, <2>3, <2>5, <2>7 DEF Allowance, Capped
            <4>2. CASE v = w
                BY <4>1, <4>2, <3>2, <3>3, <3>4, <3>5, <3>6, <1>1, <2>2, <2>6, <2>7
            <4>3. CASE v # w
                BY <4>1, <4>3, <3>2, <3>6, <1>1, <2>6, <2>7
            <4>4. QED
                BY <4>2, <4>3
        <3>8. CASE ~(v < local.pruned)
            <4>1. Allowance(w, c)' = IF v < w THEN J
                                     ELSE IF v = w THEN J + Capped(LastCount(local', c))
                                     ELSE J + FallbackLimit
                BY <3>8, <2>3, <2>5, <2>7 DEF Allowance, Capped, J
            <4>2. CASE v # w
                BY <4>1, <4>2, <3>0, <3>1, <3>2, <3>6, <3>8, <1>1, <2>2, <2>6, <2>7
            <4>3. CASE v = w /\ local.pruned # v
                <5>1. Granted(w, c) <= J
                    BY <4>3, <3>0, <3>1, <3>8, <2>2, <2>6
                <5>2. Allowance(w, c)' = J + Capped(LastCount(local', c))
                    BY <4>1, <4>3, <2>2
                <5>3. QED
                    BY <5>1, <5>2, <3>3, <3>4, <3>5, <3>6, <4>3, <1>1, <2>7
            <4>4. CASE v = w /\ local.pruned = v
                <5>1. Granted(w, c) <= J + Capped(LastCount(local, c))
                    BY <4>4, <3>0, <3>1
                <5>2. Allowance(w, c)' = J + Capped(LastCount(local', c))
                    BY <4>1, <4>4, <2>2
                <5>3. Capped(LastCount(local, c)) <= Capped(LastCount(local', c))
                    BY <4>4, <2>3, <3>3, CappedFacts
                <5>4. CASE c = d /\ n <= FallbackLimit
                    <6>1. n = LastCount(local, c) + 1 /\ LastCount(local', c) = n
                        BY <5>4, <4>4, <2>3
                    <6>2. Capped(LastCount(local', c)) = Capped(LastCount(local, c)) + 1
                        BY <5>4, <6>1, <3>3, CappedFacts
                    <6>3. QED
                        BY <5>1, <5>2, <6>2, <3>3, <3>4, <1>1, <2>7
                <5>5. CASE ~(c = d /\ n <= FallbackLimit)
                    BY <5>1, <5>2, <5>3, <5>5, <3>3, <3>6, <1>1, <2>7
                <5>6. QED
                    BY <5>4, <5>5
            <4>5. QED
                BY <4>2, <4>3, <4>4
        <3>9. QED
            BY <3>7, <3>8
    <2>9. QED
        BY <2>3, <2>8 DEF ProcessKeepsCount
<1>3. CASE \E r \in Requests : RedisAnswers(r) \/ FallBack(r)
    <2>1. PICK r \in Requests : RedisAnswers(r) \/ FallBack(r)
        BY <1>3
    <2>2. UNCHANGED <<local, jumps>>
        BY <2>1 DEF RedisAnswers, FallBack
    <2>3. QED
        BY <2>1, <2>2, <1>1, GrantLeft, ProcessRests
<1>4. CASE \E r \in Requests, c \in Clients : Arrive(r, c)
    <2>1. PICK r \in Requests, c \in Clients : Arrive(r, c)
        BY <1>4
    <2>2. /\ request[r].at = "none" /\ request'[r].at = "read"
          /\ \A s \in Requests \ {r} : request'[s] = request[s]
          /\ UNCHANGED <<local, jumps, served>>
        BY <2>1 DEF Arrive, RateTyped
    <2>3. \A w \in Windows, e \in Clients : PendingOf(w, e)' = PendingOf(w, e)
        BY <2>2 DEF PendingOf
    <2>4. \A w \in Windows, e \in Clients : Granted(w, e)' = Granted(w, e)
        BY <2>2, <2>3 DEF Granted
    <2>5. QED
        BY <2>2, <2>4, <1>1, ProcessRests
<1>5. CASE NextWindow \/ LoseCounters
    <2>1. UNCHANGED <<local, jumps, served, request>>
        BY <1>5 DEF NextWindow, LoseCounters
    <2>2. \A w \in Windows, e \in Clients : Granted(w, e)' = Granted(w, e)
        BY <2>1 DEF Granted, PendingOf
    <2>3. QED
        BY <2>1, <2>2, <1>1, ProcessRests
<1>6. QED
    BY <1>2, <1>3, <1>4, <1>5 DEF RateNext

LEMMA RateStepInv == RateInv /\ [RateNext]_rateVars => RateInv'
<1> SUFFICES ASSUME RateInv, [RateNext]_rateVars PROVE RateInv'
    OBVIOUS
<1>1. CASE RateNext
    BY <1>1, NextTyped, NextRedis, NextProcess DEF RateInv
<1>2. CASE UNCHANGED rateVars
    <2>1. RateTyped'
        BY <1>2 DEF rateVars, RateInv, RateTyped
    <2>2. RedisKeepsCount'
        BY <1>2 DEF rateVars, RateInv, RedisKeepsCount
    <2>3. ProcessKeepsCount'
        <3>1. \A w \in Windows, c \in Clients : Granted(w, c)' = Granted(w, c)
            BY <1>2 DEF rateVars, Granted, PendingOf
        <3>2. \A w \in Windows, c \in Clients : Granted(w, c) \in Int
            BY PendingFinite DEF RateInv, Granted, RateTyped
        <3>3. QED
            BY <1>2, <3>1, <3>2, ProcessRests DEF rateVars, RateInv
    <2>4. QED
        BY <2>1, <2>2, <2>3 DEF RateInv
<1>3. QED
    BY <1>1, <1>2

LEMMA RateInvIsInBudget ==
    ASSUME RateInv
    PROVE  WithinBudget
<1>1. ASSUME NEW w \in Windows, NEW c \in Clients
      PROVE  served[w][c].local <= FallbackLimit * (1 + jumps)
    <2>1. Granted(w, c) <= Allowance(w, c)
        BY DEF RateInv, ProcessKeepsCount
    <2>2. served[w][c].local \in Nat /\ Cardinality(PendingOf(w, c)) \in Nat
        BY PendingFinite DEF RateInv, RateTyped
    <2>3. served[w][c].local <= Granted(w, c) /\ Granted(w, c) \in Nat
        BY <2>2 DEF Granted
    <2>4. /\ FallbackLimit * jumps \in Nat /\ FallbackLimit * (1 + jumps) \in Nat
          /\ FallbackLimit * (1 + jumps) = FallbackLimit * jumps + FallbackLimit
          /\ FallbackLimit \in Nat
        BY RateLimitAssumption, OneMore DEF RateInv, RateTyped
    <2>5. LastCount(local, c) \in Nat
        BY DEF RateInv, RateTyped, LastCount, CountedEntries, Used
    <2>6. Capped(LastCount(local, c)) \in Nat /\ Capped(LastCount(local, c)) <= FallbackLimit
        BY <2>5, CappedFacts
    <2> DEFINE J == FallbackLimit * jumps
               K == FallbackLimit * (1 + jumps)
    <2>7. J \in Nat /\ K = J + FallbackLimit
        BY <2>4
    <2>8. Granted(w, c) <= IF local.pruned < w THEN J
                           ELSE IF local.pruned = w THEN J + Capped(LastCount(local, c)) ELSE K
        BY <2>1 DEF Allowance
    <2>9. served[w][c].local <= K
        <3> HIDE DEF J, K
        <3>1. QED
            BY <2>2, <2>3, <2>4, <2>6, <2>7, <2>8
    <2>10. QED
        BY <2>9
<1>2. QED
    BY <1>1 DEF RateInv, RedisKeepsCount, WithinBudget

-----------------------------------------------------------------------------
(* just dev.                                                               *)

\* A container that was brought up has its own port, which others cannot take, or runs bare.
PortsAreOwn ==
    /\ listener \in [Bindings -> {"free", "own", "foreign"}]
    /\ stage = "up" =>
           done \subseteq Containers /\ \A c \in done : listener[c] = "own" \/ c \in bare
    /\ stage \in {"verify", "migrate"} => \A c \in Containers : listener[c] = "own" \/ c \in bare
    /\ stage = "migrate" => bare = {}
    /\ MigratesOwn

\* Only the latest api and worker, and web, may be alive, close waits for all of them, and
\* nothing runs or is to be launched before the stage "running".
OnlyLatestLive ==
    /\ source \in 0..MaxChanges
    /\ child \in [Rust -> [name : Rust, run : Nat, built : Nat]] /\ \A s \in Rust : child[s].name = s
    /\ restart \in [on : BOOLEAN, changed : BOOLEAN, timer : BOOLEAN]
    /\ alive \subseteq Children \cup {Web}
    /\ closing => closer = Children \cup {Web}
    /\ stage # "running" =>
           /\ alive = {} /\ ~closing
           /\ ~restart.on /\ ~restart.timer
           /\ \A s \in Rust : child[s].built = source
    /\ LatestRuns

DevInv == PortsAreOwn /\ OnlyLatestLive

LEMMA LaunchedFacts ==
    ASSUME source \in 0..MaxChanges, NEW n \in Nat
    PROVE  /\ Launched(n) \in [Rust -> [name : Rust, run : Nat, built : Nat]]
           /\ \A s \in Rust : Launched(n)[s].name = s /\ Launched(n)[s].built = source
BY DevAssumption DEF Launched

LEMMA DevInitInv == DevInit => DevInv
<1> SUFFICES ASSUME DevInit PROVE DevInv
    OBVIOUS
<1>1. PortsAreOwn
    BY DEF DevInit, PortsAreOwn, MigratesOwn
<1>2. source \in 0..MaxChanges
    BY DevAssumption DEF DevInit
<1>3. OnlyLatestLive
    BY <1>2, LaunchedFacts DEF DevInit, OnlyLatestLive, LatestRuns
<1>4. QED
    BY <1>1, <1>3 DEF DevInv

\* Where the steps before "running" lead.
LEMMA ThroughFacts ==
    ASSUME NEW p, NEW everything, NEW next, Through(p, everything, next)
    PROVE  \/ stage' = next /\ done' = {} /\ done \cup {p} = everything
           \/ stage' = stage /\ done' = done \cup {p}
BY DEF Through

LEMMA PreflightFacts ==
    ASSUME NEW p \in Bindings, PreflightPort(p)
    PROVE  /\ stage = "preflight"
           /\ stage' \in {"preflight", "failed"} \/ (stage' = "up" /\ done' = {})
           /\ UNCHANGED <<bare, listener, migrated>> /\ UNCHANGED processVars
<1>1. CASE listener[p] \in {"own", "free"}
    <2>1. Through(p, Bindings, "up") /\ UNCHANGED <<bare, listener, migrated>> /\ UNCHANGED processVars
          /\ stage = "preflight"
        BY <1>1 DEF PreflightPort
    <2>2. QED
        BY <2>1, ThroughFacts
<1>2. CASE listener[p] \notin {"own", "free"}
    BY <1>2 DEF PreflightPort, Fail
<1>3. QED
    BY <1>1, <1>2

LEMMA UpFacts ==
    ASSUME NEW c \in Containers, UpService(c), listener \in [Bindings -> {"free", "own", "foreign"}]
    PROVE  /\ stage = "up"
           /\ \/ stage' = "failed"
              \/ stage' = "verify" /\ done \cup {c} = Containers
              \/ stage' = "up" /\ done' = done \cup {c}
           /\ UNCHANGED migrated /\ UNCHANGED processVars
<1>1. stage = "up" /\ UNCHANGED migrated /\ UNCHANGED processVars
    BY DEF UpService
<1>2. listener[c] \in {"own", "free", "foreign"}
    BY DEF Bindings
<1>3. Through(c, Containers, "verify") \/ stage' = "failed"
    BY <1>2 DEF UpService, Fail
<1>4. QED
    BY <1>1, <1>3, ThroughFacts

LEMMA KeepsPorts ==
    ASSUME PortsAreOwn, DevNext PROVE PortsAreOwn'
<1> USE DEF PortsAreOwn, MigratesOwn
<1>1. ASSUME NEW p \in Bindings, OthersMove(p) PROVE PortsAreOwn'
    <2>1. \A c \in Bindings : listener[c] = "own" => listener'[c] = "own"
        BY <1>1 DEF OthersMove
    <2>2. listener' \in [Bindings -> {"free", "own", "foreign"}]
          /\ UNCHANGED <<stage, done, bare, migrated>>
        BY <1>1 DEF OthersMove
    <2>3. QED
        BY <2>1, <2>2 DEF Bindings
<1>2. ASSUME NEW p \in Bindings, PreflightPort(p) PROVE PortsAreOwn'
    BY <1>2, PreflightFacts
<1>3. ASSUME NEW c \in Containers, UpService(c) PROVE PortsAreOwn'
    <2>2. /\ listener' \in [Bindings -> {"free", "own", "foreign"}]
          /\ \A d \in Bindings : listener[d] = "own" => listener'[d] = "own"
        BY <1>3 DEF UpService, Fail, Bindings
    <2>3. bare \subseteq bare' /\ (stage' # "failed" => listener'[c] = "own" \/ c \in bare')
        BY <1>3 DEF UpService, Fail, Bindings
    <2>4. stage = "up" /\ migrated' = migrated
        BY <1>3 DEF UpService
    <2>5. QED
        BY <1>3, <2>2, <2>3, <2>4, UpFacts DEF Bindings
<1>4. CASE VerifyBindings
    BY <1>4 DEF VerifyBindings, Fail
<1>5. CASE MigrateAndLaunch
    <2>1. "postgres" \in Containers
        BY DevAssumption
    <2>2. stage = "migrate" /\ stage' \in {"failed", "running"} /\ migrated' = listener["postgres"]
          /\ UNCHANGED <<bare, listener>>
        BY <1>5 DEF MigrateAndLaunch, Fail
    <2>3. QED
        BY <2>1, <2>2
<1>6. CASE (\E p \in Process : Exit(p)) \/ Change \/ RestartRust \/ RestartGoesOn \/ Close
    BY <1>6 DEF Exit, Change, RestartRust, RestartGoesOn, Close, portVars
<1>7. QED
    BY <1>1, <1>2, <1>3, <1>4, <1>5, <1>6 DEF DevNext

LEMMA KeepsOnlyLatest ==
    ASSUME PortsAreOwn, OnlyLatestLive, DevNext PROVE OnlyLatestLive'
<1> USE DEF OnlyLatestLive, LatestRuns
<1>0. listener \in [Bindings -> {"free", "own", "foreign"}]
    BY DEF PortsAreOwn
<1>1. CASE (\E p \in Bindings : OthersMove(p) \/ PreflightPort(p))
           \/ (\E c \in Containers : UpService(c)) \/ VerifyBindings
    <2>1. /\ UNCHANGED processVars
          /\ stage = "running" => stage' = "running"
          /\ stage # "running" => stage' # "running"
        <3>1. UNCHANGED processVars
            BY <1>1 DEF OthersMove, PreflightPort, UpService, VerifyBindings
        <3>2. CASE \E p \in Bindings : OthersMove(p)
            BY <3>1, <3>2 DEF OthersMove
        <3>3. CASE \E p \in Bindings : PreflightPort(p)
            BY <3>1, <3>3, PreflightFacts
        <3>4. CASE \E c \in Containers : UpService(c)
            BY <1>0, <3>1, <3>4, UpFacts
        <3>5. CASE VerifyBindings
            BY <3>1, <3>5 DEF VerifyBindings, Fail
        <3>6. QED
            BY <1>1, <3>2, <3>3, <3>4, <3>5
    <2>2. QED
        BY <2>1 DEF processVars, Children
<1>2. CASE MigrateAndLaunch
    <2>1. stage = "migrate" /\ stage' \in {"running", "failed"}
          /\ UNCHANGED <<source, child, restart, closing, closer>>
          /\ alive' \subseteq Children \cup {Web} /\ (stage' = "failed" => alive' = alive)
        BY <1>2 DEF MigrateAndLaunch, Fail
    <2>2. QED
        BY <2>1 DEF Children
<1>3. ASSUME NEW p \in Process, Exit(p) PROVE OnlyLatestLive'
    BY <1>3 DEF Exit, portVars, Children
<1>4. CASE Change
    <2>1. source' \in 0..MaxChanges
        BY <1>4, DevAssumption DEF Change
    <2>2. restart' \in [on : BOOLEAN, changed : BOOLEAN, timer : BOOLEAN] /\ (~closing => restart'.timer)
          /\ stage = "running" /\ stage' = stage /\ UNCHANGED <<alive, child, closing, closer>>
        BY <1>4 DEF Change, portVars
    <2>3. QED
        BY <2>1, <2>2 DEF Children
<1>5. CASE RestartRust
    <2>1. restart' \in [on : BOOLEAN, changed : BOOLEAN, timer : BOOLEAN] /\ restart'.on
          /\ restart.timer /\ stage' = stage /\ UNCHANGED <<source, alive, child, closing, closer>>
        BY <1>5 DEF RestartRust, portVars
    <2>2. QED
        BY <2>1 DEF Children
<1>6. CASE RestartGoesOn
    <2>1. restart' \in [on : BOOLEAN, changed : BOOLEAN, timer : BOOLEAN]
          /\ restart.on /\ stage' = stage /\ UNCHANGED <<source, closing, closer>>
        BY <1>6 DEF RestartGoesOn, portVars
    <2>2. stage = "running"
        BY <2>1
    <2>3. CASE MayLaunch
        <3>1. child["api"].run + 1 \in Nat
            BY DEF Rust
        <3>2. child' = Launched(child["api"].run + 1) /\ alive' = alive \cup {child'[s] : s \in Rust}
            BY <1>6, <2>3 DEF RestartGoesOn
        <3>3. /\ child' \in [Rust -> [name : Rust, run : Nat, built : Nat]]
              /\ \A s \in Rust : child'[s].name = s /\ child'[s].built = source
            BY <3>1, <3>2, LaunchedFacts
        <3>4. alive \subseteq {Web}
            BY <1>6 DEF RestartGoesOn
        <3>5. alive' \subseteq Children' \cup {Web}
            BY <3>2, <3>4 DEF Children
        <3>6. ~closing
            BY <2>3 DEF MayLaunch
        <3>7. QED
            BY <2>1, <2>2, <3>3, <3>5, <3>6
    <2>4. CASE ~MayLaunch
        <3>1. UNCHANGED <<child, alive>> /\ closing
            BY <1>6, <2>4 DEF RestartGoesOn, MayLaunch
        <3>2. QED
            BY <2>1, <2>2, <3>1 DEF Children
    <2>5. QED
        BY <2>3, <2>4
<1>7. CASE Close
    <2>1. restart' \in [on : BOOLEAN, changed : BOOLEAN, timer : BOOLEAN] /\ closing'
          /\ stage = "running" /\ stage' = stage /\ UNCHANGED <<source, alive, child>>
          /\ closer' = Children \cup {Web}
        BY <1>7 DEF Close, portVars
    <2>2. QED
        BY <2>1 DEF Children
<1>8. QED
    BY <1>1, <1>2, <1>3, <1>4, <1>5, <1>6, <1>7 DEF DevNext

LEMMA DevStepInv == DevInv /\ [DevNext]_devVars => DevInv'
<1> SUFFICES ASSUME DevInv, [DevNext]_devVars PROVE DevInv'
    OBVIOUS
<1>1. CASE DevNext
    BY <1>1, KeepsPorts, KeepsOnlyLatest DEF DevInv
<1>2. CASE UNCHANGED devVars
    BY <1>2 DEF DevInv, PortsAreOwn, OnlyLatestLive, MigratesOwn, LatestRuns, Children, devVars
<1>3. QED
    BY <1>1, <1>2

LEMMA DevIsSound == DevInv => DevKeepsToItself
<1> SUFFICES ASSUME DevInv PROVE DevKeepsToItself
    OBVIOUS
<1>1. MigratesOwn /\ LatestRuns
    BY DEF DevInv, PortsAreOwn, OnlyLatestLive
<1>2. ASSUME NEW p \in alive, NEW q \in alive, p.name = q.name PROVE p = q
    <2>1. \A x \in alive : x = Web \/ \E s \in Rust : x = child[s] /\ x.name = s
        BY DEF DevInv, OnlyLatestLive, Children
    <2>2. Web.name \notin Rust
        BY DEF Web, Rust
    <2>3. QED
        BY <1>2, <2>1, <2>2
<1>3. closing /\ closer \cap alive = {} => alive = {}
    BY DEF DevInv, OnlyLatestLive
<1>4. QED
    BY <1>1, <1>2, <1>3 DEF DevKeepsToItself, NoneSurvives

-----------------------------------------------------------------------------
(* Copies of the course.                                                   *)

\* What the course wrote in a file, or found there: what the learner wrote later does not count.
Ours(f) == IF f \in edited THEN original[f] ELSE file[f]

\* What the copy is to be: the receipt, or the one that will follow.
Promised == IF AtRest THEN receipt ELSE setup.then

\* A receipt never vouches for what the learner wrote, and knows its checkpoint's migrations.
ReceiptIsWhole(r) ==
    /\ \A f \in Managed : r.files[f] # Mine
    /\ r.stage = 0 => r = NoReceipt
    /\ r.stage > 0 =>
           /\ r.base > 0
           /\ r.files["tickets"][1] = Checkpoints[r.stage]
           /\ \A m \in Names : r.files[m] # Absent <=> m \in MigrationsOf(r.stage)

ReceiptsAreWhole ==
    /\ ReceiptIsWhole(receipt)
    /\ AtRest => setup.todo = {}
    /\ ~AtRest => ReceiptIsWhole(setup.then) /\ setup.then.stage > 0

NothingBefore ==
    ~Copied => AtRest /\ receipt = NoReceipt /\ edited = {} /\ \A f \in Managed : file[f] = Absent

\* A migration is in the database's order if it was written.
WrittenIsNumbered == \A m \in Names :
    /\ (\E j \in DOMAIN ledger : ledger[j] = m) <=> Ours(m) # Absent
    /\ m \in edited => Ours(m) # Absent

\* What a setup has still to write is not the learner's, and a migration is not there yet,
\* while those before it are or will be.
TodoIsFree ==
    /\ setup.todo \cap edited = {}
    /\ \A k \in 1..3 : Migrations[k] \in setup.todo =>
           /\ Ours(Migrations[k]) = Absent
           /\ receipt.files[Migrations[k]] = Absent
           /\ setup.then.files[Migrations[k]] # Absent
           /\ \A l \in 1..(k - 1) : Migrations[l] \in setup.todo \/ Ours(Migrations[l]) # Absent

\* The migrations a setup wrote before it died.
Stray == {m \in Names : Ours(m) # Absent /\ receipt.files[m] = Absent}

\* A setup that died after a migration has left the module of its checkpoint, which the
\* receipt does not know.
DeathShows ==
    /\ Stray # {} /\ receipt.stage > 0 => Ours("tickets") # receipt.files["tickets"]
    /\ ~AtRest =>
           /\ \A m \in Names : Ours(m) # Absent => setup.then.files[m] # Absent
           /\ "tickets" \notin setup.todo => Ours("tickets") = setup.then.files["tickets"]
           /\ "tickets" \in setup.todo /\ receipt.stage > 0 => Stray = {}

PromiseIsKept == ~died => \A f \in Managed \ setup.todo : Ours(f) = Promised.files[f]

CourseInv ==
    /\ CourseTypeOK /\ EditsSurvive /\ InstalledOnce
    /\ ReceiptsAreWhole /\ NothingBefore /\ WrittenIsNumbered /\ TodoIsFree /\ DeathShows
    /\ PromiseIsKept

LEMMA CourseIsSound == CourseInv => CourseIsKept
<1> SUFFICES ASSUME CourseInv, AtRest, ~died, NEW f \in Managed \ edited
             PROVE  file[f] = receipt.files[f]
    BY DEF CourseInv, CourseIsKept, ReceiptTruthful
<1>1. setup.todo = {}
    BY DEF CourseInv, ReceiptsAreWhole
<1>2. Ours(f) = receipt.files[f]
    BY <1>1 DEF CourseInv, PromiseIsKept, Promised
<1>3. QED
    BY <1>2 DEF Ours

-----------------------------------------------------------------------------
(* The names.                                                              *)

LEMMA MigrationNames ==
    /\ Migrations[1] = "tickets.sql" /\ Migrations[2] = "uploads.sql" /\ Migrations[3] = "exports.sql"
    /\ Names = {"tickets.sql", "uploads.sql", "exports.sql"}
    /\ \A k \in 1..3 : Migrations[k] \in Names
    /\ \A j, k \in 1..3 : Migrations[j] = Migrations[k] => j = k
<1>1. Migrations[1] = "tickets.sql" /\ Migrations[2] = "uploads.sql" /\ Migrations[3] = "exports.sql"
    BY DEF Migrations
<1>2. 1..3 = {1, 2, 3}
    OBVIOUS
<1>3. \A m : m \in Names <=> m \in {"tickets.sql", "uploads.sql", "exports.sql"}
    BY <1>1, <1>2 DEF Names
<1>4. QED
    BY <1>1, <1>2, <1>3 DEF Names

LEMMA MigrationsGrow ==
    ASSUME NEW n \in 0..4
    PROVE  /\ MigrationsOf(n) \subseteq Names
           /\ \A k \in 1..3 : Migrations[k] \in MigrationsOf(n) <=> k < n
           /\ \A i \in 0..n : MigrationsOf(i) \subseteq MigrationsOf(n)
BY MigrationNames DEF MigrationsOf, Names

LEMMA CheckpointsDiffer ==
    /\ \A i, j \in 1..4 : Checkpoints[i] = Checkpoints[j] => i = j
    /\ \A i \in 1..4 : Checkpoints[i] \in {"module", "crud", "files", "jobs"}
<1>1. /\ Checkpoints[1] = "module" /\ Checkpoints[2] = "crud"
      /\ Checkpoints[3] = "files" /\ Checkpoints[4] = "jobs"
    BY DEF Checkpoints
<1>2. 1..4 = {1, 2, 3, 4}
    OBVIOUS
<1>3. QED
    BY <1>1, <1>2

LEMMA ManagedNames ==
    /\ Names \subseteq Managed
    /\ {"tickets", "exports", "api", "worker", "fixture", "env"} \subseteq Managed
    /\ Names \cap {"tickets", "exports", "api", "worker", "fixture", "env"} = {}
BY MigrationNames DEF Managed

\* The contents a setup writes are neither absent nor the learner's.
LEMMA ContentIsInstalled ==
    ASSUME CourseTypeOK, NEW f \in Managed, NEW n \in 1..4, NEW base \in 1..MaxReleases
    PROVE  /\ Content(f, n, base) \in Contents \ {Absent, Mine}
           /\ f = "tickets" => Content(f, n, base)[1] = Checkpoints[n]
<1>1. Checkpoints[n] \in {"module", "crud", "files", "jobs"}
    BY CheckpointsDiffer
<1>2. code \in 1..MaxReleases /\ schema \in 1..MaxReleases /\ 1 \in 1..MaxReleases
    BY CourseAssumption DEF CourseTypeOK
<1> DEFINE Kinds == {"module", "crud", "files", "jobs", "template", "disabled", "private", "sql"}
<1>3. \A k \in Kinds, v \in 1..MaxReleases :
          <<k, v>> \in Contents \ {Absent, Mine} /\ <<k, v>>[1] = k
    BY DEF Contents, Absent, Mine
<1>4. \E k \in Kinds, v \in 1..MaxReleases :
          Content(f, n, base) = <<k, v>> /\ (f = "tickets" => k = Checkpoints[n])
    <2>1. CASE f \in {"tickets", "exports"}
        BY <1>1, <1>2, <2>1 DEF Content
    <2>2. CASE f \notin {"tickets", "exports"}
        <3>1. CASE f = "api"
            BY <1>2, <3>1 DEF Content
        <3>2. CASE f = "worker"
            BY <1>2, <3>2 DEF Content
        <3>3. CASE f = "fixture"
            BY <1>2, <3>3 DEF Content
        <3>4. CASE f = "env"
            BY <1>2, <3>4 DEF Content, Addresses
        <3>5. CASE f \notin {"api", "worker", "fixture", "env"}
            BY <1>2, <2>2, <3>5 DEF Content
        <3>6. QED
            BY <3>1, <3>2, <3>3, <3>4, <3>5
    <2>3. QED
        BY <2>1, <2>2
<1>5. QED
    BY <1>3, <1>4

-----------------------------------------------------------------------------
(* The steps.                                                              *)

LEMMA CourseInitInv == CourseInit => CourseInv
<1> SUFFICES ASSUME CourseInit PROVE CourseInv
    OBVIOUS
<1> USE DEF CourseInit
<1>1. Absent \in Contents /\ Mine # Absent
    BY DEF Contents, Absent, Mine
<1>2. NoReceipt \in Receipts /\ \A f \in Managed : NoReceipt.files[f] = Absent
    BY <1>1, CourseAssumption DEF Receipts, NoReceipt
<1>3. NoReceipt.stage = 0 /\ Idle.todo = {} /\ Idle \in [todo : SUBSET Managed, then : Receipts]
    BY <1>2 DEF NoReceipt, Idle
<1>4. CourseTypeOK
    <2>1. ledger \in Seq(Names \cup {"template", "mine"}) /\ edited \subseteq Managed
        OBVIOUS
    <2>2. file \in [Managed -> Contents] /\ original \in [Managed -> Contents]
        BY <1>1
    <2>3. code \in 1..MaxReleases /\ schema \in 1..MaxReleases /\ edits \in 0..MaxEdits
        BY CourseAssumption
    <2>4. receipt \in Receipts /\ setup \in [todo : SUBSET Managed, then : Receipts] /\ died \in BOOLEAN
        BY <1>2, <1>3
    <2>5. QED
        BY <2>1, <2>2, <2>3, <2>4 DEF CourseTypeOK
<1>5. EditsSurvive /\ InstalledOnce /\ NothingBefore
    BY <1>1 DEF EditsSurvive, InstalledOnce, NothingBefore, Copied, AtRest
<1>6. ReceiptsAreWhole
    BY <1>1, <1>2, <1>3 DEF ReceiptsAreWhole, ReceiptIsWhole, AtRest
<1>7. \A f \in Managed : Ours(f) = Absent
    BY DEF Ours
<1>8. WrittenIsNumbered /\ TodoIsFree
    BY <1>3, <1>7, ManagedNames DEF WrittenIsNumbered, TodoIsFree
<1>9. DeathShows /\ PromiseIsKept
    BY <1>2, <1>3, <1>7 DEF DeathShows, PromiseIsKept, Promised, AtRest
<1>10. QED
    BY <1>4, <1>5, <1>6, <1>8, <1>9 DEF CourseInv

\* The learner and the repository leave alone what the course wrote and what it knows.
LEMMA LearnerFacts ==
    ASSUME CourseInv, NEW f \in Managed, Edit(f) \/ Undo(f) \/ AddMigration \/ NewRelease
    PROVE  /\ AtRest /\ UNCHANGED <<setup, receipt, died>>
           /\ CourseTypeOK' /\ EditsSurvive'
           /\ \A g \in Managed : Ours(g)' = Ours(g)
           /\ ledger' = ledger \/ (ledger # <<>> /\ ledger' = Append(ledger, "mine"))
           /\ ledger = <<>> => UNCHANGED <<file, edited>>
           /\ \A m \in Names : m \in edited' => m \in edited \/ Ours(m) # Absent
<1> USE DEF CourseInv, CourseTypeOK
<1>1. Mine \in Contents
    BY DEF Contents
<1>2. CASE Edit(f)
    <2> USE <1>2, <1>1 DEF Edit
    <2>1. CourseTypeOK' /\ EditsSurvive'
        BY CourseAssumption DEF EditsSurvive
    <2>2. \A g \in Managed : Ours(g)' = Ours(g)
        BY DEF Ours
    <2>3. \A m \in Names : m \in edited' => m \in edited \/ Ours(m) # Absent
        BY DEF Ours
    <2>4. QED
        BY <2>1, <2>2, <2>3 DEF Copied
<1>3. CASE Undo(f)
    <2> USE <1>3 DEF Undo
    <2>1. CourseTypeOK' /\ EditsSurvive'
        BY DEF EditsSurvive
    <2>2. \A g \in Managed : Ours(g)' = Ours(g)
        BY DEF Ours
    <2>3. ledger # <<>>
        BY DEF NothingBefore, Copied
    <2>4. QED
        BY <2>1, <2>2, <2>3
<1>4. CASE AddMigration
    <2> USE <1>4 DEF AddMigration
    <2>1. ledger' \in Seq(Names \cup {"template", "mine"}) /\ edits' \in 0..MaxEdits
        BY CourseAssumption
    <2>2. CourseTypeOK' /\ EditsSurvive'
        BY <2>1 DEF EditsSurvive
    <2>3. QED
        BY <2>2 DEF Ours, Copied
<1>5. CASE NewRelease
    <2> USE <1>5 DEF NewRelease
    <2>1. CourseTypeOK' /\ EditsSurvive'
        BY CourseAssumption DEF EditsSurvive
    <2>2. QED
        BY <2>1 DEF Ours
<1>6. QED
    BY <1>2, <1>3, <1>4, <1>5

LEMMA Appended ==
    ASSUME NEW S, NEW s \in Seq(S), NEW x \in S
    PROVE  /\ DOMAIN s = 1..Len(s) /\ DOMAIN Append(s, x) = 1..(Len(s) + 1) /\ Len(s) \in Nat
           /\ \A j \in 1..Len(s) : Append(s, x)[j] = s[j]
           /\ Append(s, x)[Len(s) + 1] = x
OBVIOUS

\* A migration that is none of the course changes nothing about the order of those.
LEMMA ForeignMigration ==
    ASSUME CourseTypeOK, NEW x \in {"template", "mine"}, ledger' = Append(ledger, x)
    PROVE  /\ InstalledOnce => InstalledOnce'
           /\ \A m \in Names : (\E j \in DOMAIN ledger' : ledger'[j] = m) <=>
                                  \E j \in DOMAIN ledger : ledger[j] = m
           /\ ledger' # <<>>
<1>1. ledger \in Seq(Names \cup {"template", "mine"})
    BY DEF CourseTypeOK
<1>2. x \notin Names
    BY MigrationNames
<1>3. /\ DOMAIN ledger = 1..Len(ledger) /\ DOMAIN ledger' = 1..(Len(ledger) + 1) /\ Len(ledger) \in Nat
      /\ \A j \in 1..Len(ledger) : ledger'[j] = ledger[j]
      /\ ledger'[Len(ledger) + 1] = x
    BY <1>1, Appended
<1>4. ASSUME InstalledOnce, NEW j \in DOMAIN ledger', NEW k \in 1..3, ledger'[j] = Migrations[k]
      PROVE  /\ \A i \in 1..(j - 1) : ledger'[i] # Migrations[k]
             /\ \A l \in 1..(k - 1) : \E i \in 1..(j - 1) : ledger'[i] = Migrations[l]
    <2>1. j \in DOMAIN ledger /\ ledger[j] = Migrations[k]
        BY <1>2, <1>3, <1>4, MigrationNames
    <2>2. \A i \in 1..(j - 1) : ledger'[i] = ledger[i]
        BY <2>1, <1>3
    <2>3. /\ \A i \in 1..(j - 1) : ledger[i] # Migrations[k]
          /\ \A l \in 1..(k - 1) : \E i \in 1..(j - 1) : ledger[i] = Migrations[l]
        BY <2>1, <1>4 DEF InstalledOnce
    <2>4. QED
        BY <2>2, <2>3
<1>5. InstalledOnce => InstalledOnce'
    BY <1>4 DEF InstalledOnce
<1>6. \A m \in Names : (\E j \in DOMAIN ledger' : ledger'[j] = m) <=>
                           \E j \in DOMAIN ledger : ledger[j] = m
    BY <1>2, <1>3
<1>7. ledger' # <<>>
    BY <1>3
<1>8. QED
    BY <1>5, <1>6, <1>7

LEMMA LearnerKeeps ==
    ASSUME CourseInv, NEW f \in Managed, Edit(f) \/ Undo(f) \/ AddMigration \/ NewRelease
    PROVE  CourseInv'
<1>1. /\ AtRest /\ setup' = setup /\ receipt' = receipt /\ died' = died
      /\ CourseTypeOK' /\ EditsSurvive'
      /\ \A g \in Managed : Ours(g)' = Ours(g)
      /\ ledger' = ledger \/ (ledger # <<>> /\ ledger' = Append(ledger, "mine"))
      /\ ledger = <<>> => file' = file /\ edited' = edited
      /\ \A m \in Names : m \in edited' => m \in edited \/ Ours(m) # Absent
    BY LearnerFacts
<1>2. AtRest' /\ setup.todo = {}
    BY <1>1 DEF AtRest, CourseInv, ReceiptsAreWhole
<1>3. /\ InstalledOnce'
      /\ \A m \in Names : (\E j \in DOMAIN ledger' : ledger'[j] = m) <=>
                             \E j \in DOMAIN ledger : ledger[j] = m
      /\ ledger' = <<>> => ledger = <<>>
    <2>1. CASE ledger' = ledger
        BY <2>1 DEF CourseInv, InstalledOnce
    <2>2. CASE ledger' = Append(ledger, "mine")
        BY <2>2, ForeignMigration DEF CourseInv
    <2>3. QED
        BY <1>1, <2>1, <2>2
<1>4. ReceiptsAreWhole'
    BY <1>1, <1>2 DEF CourseInv, ReceiptsAreWhole, ReceiptIsWhole
<1>5. NothingBefore'
    BY <1>1, <1>2, <1>3 DEF CourseInv, NothingBefore, Copied
<1>6. WrittenIsNumbered'
    BY <1>1, <1>3, ManagedNames DEF CourseInv, WrittenIsNumbered
<1>7. TodoIsFree'
    BY <1>1, <1>2 DEF TodoIsFree
<1>8. DeathShows'
    <2>1. Stray' = Stray
        BY <1>1, ManagedNames DEF Stray
    <2>2. QED
        BY <1>1, <1>2, <2>1, ManagedNames DEF CourseInv, DeathShows
<1>9. PromiseIsKept'
    BY <1>1, <1>2 DEF CourseInv, PromiseIsKept, Promised
<1>10. QED
    BY <1>1, <1>3, <1>4, <1>5, <1>6, <1>7, <1>8, <1>9 DEF CourseInv

\* What a setup is to write, and the receipt to follow.
LEMMA CoursePlanFacts ==
    ASSUME NEW n \in 1..4
    PROVE  /\ Plan(n) \subseteq Managed /\ "tickets" \in Plan(n)
           /\ \A m \in Names : m \in Plan(n) <=> m \in MigrationsOf(n) /\ receipt.files[m] = Absent
<1>1. Added(n) \subseteq Names /\ Fixture \subseteq {"fixture"}
    BY MigrationsGrow DEF Added, Fixture
<1>2. QED
    BY <1>1, ManagedNames DEF Plan, Added

LEMMA ReceiptFacts ==
    ASSUME CourseInv, NEW n \in 1..4, NEW base \in 1..MaxReleases, receipt.stage <= n
    PROVE  LET r == Receipt(n, base)
           IN  /\ r \in Receipts /\ ReceiptIsWhole(r) /\ r.stage = n
               /\ \A m \in Names \cap Plan(n) : r.files[m] # Absent
               /\ \A f \in Managed \ Plan(n) :
                      r.files[f] = IF f = "worker" /\ ~Copied THEN <<"template", base>>
                                   ELSE receipt.files[f]
<1> DEFINE r == Receipt(n, base)
<1>1. /\ r.stage = n /\ r.base = base
      /\ \A f \in Managed : r.files[f] =
             IF f \in Plan(n) THEN Content(f, n, base)
             ELSE IF f = "worker" /\ ~Copied THEN <<"template", base>> ELSE receipt.files[f]
    BY DEF Receipt
<1>2. receipt \in Receipts /\ CourseTypeOK /\ ReceiptIsWhole(receipt)
    BY DEF CourseInv, CourseTypeOK, ReceiptsAreWhole
<1>3. <<"template", base>> \in Contents \ {Absent, Mine}
    BY DEF Contents, Absent, Mine
<1>4. \A f \in Plan(n) :
          /\ Content(f, n, base) \in Contents \ {Absent, Mine}
          /\ f = "tickets" => Content(f, n, base)[1] = Checkpoints[n]
    BY <1>2, ContentIsInstalled, CoursePlanFacts
<1>5. \A f \in Managed : receipt.files[f] \in Contents \ {Mine}
    BY <1>2 DEF Receipts, ReceiptIsWhole
<1>6. \A f \in Managed : r.files[f] \in Contents \ {Mine}
    BY <1>1, <1>3, <1>4, <1>5
<1>7. r \in Receipts
    <2>1. [f \in Managed |-> r.files[f]] \in [Managed -> Contents]
        BY <1>6
    <2>2. r = [stage |-> n, base |-> base, files |-> [f \in Managed |-> r.files[f]]]
        BY <1>1 DEF Receipt
    <2>3. n \in 0..4 /\ base \in 0..MaxReleases
        BY CourseAssumption
    <2>4. QED
        BY <2>1, <2>2, <2>3 DEF Receipts
<1>8. ASSUME NEW m \in Names PROVE r.files[m] # Absent <=> m \in MigrationsOf(n)
    <2>1. m \in Managed /\ m # "worker"
        BY ManagedNames
    <2>2. CASE m \in Plan(n)
        BY <2>1, <2>2, <1>1, <1>4, CoursePlanFacts
    <2>3. CASE m \notin Plan(n)
        <3>1. r.files[m] = receipt.files[m]
            BY <2>1, <2>3, <1>1
        <3>2. m \in MigrationsOf(n) => receipt.files[m] # Absent
            BY <2>3, CoursePlanFacts
        <3>3. m \notin MigrationsOf(n) => receipt.files[m] = Absent
            <4>1. CASE receipt.stage = 0
                BY <4>1, <2>1, <1>2 DEF ReceiptIsWhole, NoReceipt
            <4>2. CASE receipt.stage > 0
                <5>1. receipt.stage \in 0..n /\ n \in 0..4
                    BY <4>2, <1>2 DEF Receipts
                <5>2. MigrationsOf(receipt.stage) \subseteq MigrationsOf(n)
                    BY <5>1, MigrationsGrow
                <5>3. QED
                    BY <5>2, <4>2, <1>2 DEF ReceiptIsWhole
            <4>3. QED
                BY <4>1, <4>2, <1>2 DEF Receipts
        <3>4. QED
            BY <3>1, <3>2, <3>3
    <2>4. QED
        BY <2>2, <2>3
<1>9. ReceiptIsWhole(r)
    <2>1. r.files["tickets"][1] = Checkpoints[n]
        BY <1>1, <1>4, CoursePlanFacts
    <2>2. QED
        BY <1>1, <1>6, <1>8, <2>1 DEF ReceiptIsWhole
<1>10. QED
    BY <1>1, <1>4, <1>7, <1>9, ManagedNames

\* A setup has begun: nothing but the worker of a new copy is written yet.
LEMMA SetUpNewKeeps ==
    ASSUME CourseInv, NEW n \in 1..4, SetUpNew(n)
    PROVE  CourseInv'
<1> DEFINE r == Receipt(n, code)
<1>1. CourseTypeOK /\ code \in 1..MaxReleases
    BY DEF CourseInv, CourseTypeOK
<1>2. /\ ~Copied /\ receipt = NoReceipt /\ edited = {} /\ \A f \in Managed : file[f] = Absent
      /\ receipt.stage = 0 /\ \A f \in Managed : receipt.files[f] = Absent
    BY DEF SetUpNew, CourseInv, NothingBefore, NoReceipt
<1>3. /\ ledger' = <<"template">> /\ file' = [file EXCEPT !["worker"] = <<"template", code>>]
      /\ setup' = [todo |-> Plan(n), then |-> r]
      /\ receipt' = receipt /\ edited' = {} /\ died' = died
    BY <1>2 DEF SetUpNew
<1>4. /\ r \in Receipts /\ ReceiptIsWhole(r) /\ r.stage = n
      /\ \A m \in Names \cap Plan(n) : r.files[m] # Absent
      /\ \A f \in Managed \ Plan(n) :
             r.files[f] = IF f = "worker" /\ ~Copied THEN <<"template", code>> ELSE receipt.files[f]
    BY <1>1, <1>2, ReceiptFacts
<1>5. /\ \A f \in Managed : Ours(f)' = IF f = "worker" THEN <<"template", code>> ELSE Absent
      /\ \A m \in Names : Ours(m)' = Absent
    <2>1. \A f \in Managed : file'[f] = IF f = "worker" THEN <<"template", code>> ELSE Absent
        BY <1>1, <1>2, <1>3 DEF CourseTypeOK
    <2>2. QED
        BY <2>1, <1>3, ManagedNames DEF Ours
<1>6. ~AtRest' /\ setup'.todo = Plan(n) /\ setup'.then = r
    <2>1. Idle.then.stage = 0
        BY DEF Idle, NoReceipt
    <2>2. QED
        BY <1>3, <1>4, <2>1 DEF AtRest
<1>7. CourseTypeOK'
    <2>1. <<"template", code>> \in Contents
        BY <1>1 DEF Contents
    <2>2. file' \in [Managed -> Contents]
        BY <2>1, <1>1, <1>3 DEF CourseTypeOK
    <2>3. ledger' \in Seq(Names \cup {"template", "mine"})
        BY <1>3
    <2>4. setup' \in [todo : SUBSET Managed, then : Receipts]
        BY <1>3, <1>4, CoursePlanFacts
    <2>5. QED
        BY <1>1, <1>3, <2>2, <2>3, <2>4 DEF CourseTypeOK, SetUpNew
<1>8. EditsSurvive' /\ NothingBefore'
    BY <1>3 DEF EditsSurvive, NothingBefore, Copied
<1>9. InstalledOnce' /\ WrittenIsNumbered'
    <2>1. DOMAIN ledger' = 1..1 /\ ledger'[1] = "template" /\ "template" \notin Names
        BY <1>3, MigrationNames
    <2>2. \A j \in DOMAIN ledger' : ledger'[j] \notin Names
        BY <2>1
    <2>3. QED
        BY <2>2, <1>3, <1>5, MigrationNames DEF InstalledOnce, WrittenIsNumbered
<1>10. ReceiptsAreWhole'
    BY <1>3, <1>4, <1>6 DEF CourseInv, ReceiptsAreWhole, ReceiptIsWhole
<1>11. TodoIsFree'
    <2> SUFFICES ASSUME NEW k \in 1..3, Migrations[k] \in Plan(n)
                 PROVE  \A l \in 1..(k - 1) : Migrations[l] \in Plan(n)
        BY <1>2, <1>3, <1>4, <1>5, <1>6, MigrationNames, ManagedNames DEF TodoIsFree
    <2>1. Migrations[k] \in MigrationsOf(n)
        BY MigrationNames, CoursePlanFacts
    <2>2. \A l \in 1..(k - 1) : Migrations[l] \in MigrationsOf(n)
        BY <2>1, MigrationsGrow
    <2>3. QED
        BY <2>2, <1>2, MigrationNames, ManagedNames, CoursePlanFacts
<1>12. DeathShows'
    BY <1>2, <1>3, <1>5, <1>6, CoursePlanFacts DEF DeathShows
<1>13. PromiseIsKept'
    BY <1>2, <1>4, <1>5, <1>6 DEF PromiseIsKept, Promised
<1>14. QED
    BY <1>7, <1>8, <1>9, <1>10, <1>11, <1>12, <1>13 DEF CourseInv

LEMMA UpgradeKeeps ==
    ASSUME CourseInv, NEW n \in 1..4, Upgrade(n)
    PROVE  CourseInv'
<1> DEFINE r == Receipt(n, receipt.base)
<1>1. CourseTypeOK /\ receipt \in Receipts /\ ReceiptIsWhole(receipt) /\ setup.todo = {}
    BY DEF CourseInv, CourseTypeOK, ReceiptsAreWhole, Upgrade
<1>2. /\ Copied /\ AtRest /\ receipt.stage > 0 /\ receipt.stage <= n
      /\ receipt.base \in 1..MaxReleases
    BY <1>1 DEF Upgrade, Receipts, ReceiptIsWhole
<1>3. /\ setup' = [todo |-> Plan(n), then |-> r]
      /\ receipt' = receipt /\ edited' = edited /\ died' = died /\ file' = file
      /\ original' = original /\ ledger' = ledger
    BY DEF Upgrade
<1>4. /\ r \in Receipts /\ ReceiptIsWhole(r) /\ r.stage = n
      /\ \A m \in Names \cap Plan(n) : r.files[m] # Absent
      /\ \A f \in Managed \ Plan(n) : r.files[f] = receipt.files[f]
    BY <1>2, ReceiptFacts
<1>5. \A f : Ours(f)' = Ours(f)
    BY <1>3 DEF Ours
<1>6. ~AtRest' /\ setup'.todo = Plan(n) /\ setup'.then = r
    <2>1. Idle.then.stage = 0
        BY DEF Idle, NoReceipt
    <2>2. QED
        BY <1>3, <1>4, <2>1 DEF AtRest
\* What is written anew, and what is installed, is as it was left.
<1>7. /\ \A f \in Plan(n) \ Names : f \notin edited /\ Ours(f) = receipt.files[f]
      /\ \A m \in Names : receipt.files[m] # Absent => Ours(m) = receipt.files[m]
    <2>1. \A f \in Managed : file[f] = receipt.files[f] => f \notin edited
        BY <1>1 DEF CourseInv, EditsSurvive, ReceiptIsWhole
    <2>2. /\ \A f \in Plan(n) \ Names : file[f] = receipt.files[f]
          /\ \A m \in Names : receipt.files[m] # Absent => file[m] = receipt.files[m]
        BY DEF Upgrade, Unmodified, Expected
    <2>3. QED
        BY <2>1, <2>2, ManagedNames, CoursePlanFacts DEF Ours
<1>8. Stray = {}
    BY <1>2, <1>7, ManagedNames, CoursePlanFacts DEF CourseInv, DeathShows
<1>9. CourseTypeOK'
    <2>1. setup' \in [todo : SUBSET Managed, then : Receipts]
        BY <1>3, <1>4, CoursePlanFacts
    <2>2. QED
        BY <1>1, <2>1 DEF CourseTypeOK, Upgrade
<1>10. EditsSurvive' /\ InstalledOnce' /\ NothingBefore'
    BY <1>2, <1>3 DEF CourseInv, EditsSurvive, InstalledOnce, NothingBefore, Copied
<1>11. WrittenIsNumbered'
    BY <1>3, <1>5 DEF CourseInv, WrittenIsNumbered
<1>12. ReceiptsAreWhole'
    BY <1>1, <1>3, <1>4, <1>6 DEF CourseInv, ReceiptsAreWhole, ReceiptIsWhole
<1>13. TodoIsFree'
    <2>1. ASSUME NEW m \in Names, m \in Plan(n)
          PROVE  Ours(m) = Absent /\ receipt.files[m] = Absent /\ m \notin edited
        <3>1. receipt.files[m] = Absent /\ m \in Managed
            BY <2>1, CoursePlanFacts, ManagedNames
        <3>2. Ours(m) = Absent
            BY <3>1, <1>8 DEF Stray
        <3>3. QED
            BY <3>1, <3>2 DEF CourseInv, WrittenIsNumbered
    <2>2. ASSUME NEW k \in 1..3, Migrations[k] \in Plan(n), NEW l \in 1..(k - 1)
          PROVE  Migrations[l] \in Plan(n) \/ Ours(Migrations[l]) # Absent
        <3>1. Migrations[l] \in Names /\ Migrations[l] \in MigrationsOf(n)
            BY <2>2, MigrationNames, MigrationsGrow, CoursePlanFacts
        <3>2. QED
            BY <3>1, <1>7, CoursePlanFacts
    <2>3. Plan(n) \cap edited = {}
        BY <1>7, <2>1
    <2>4. QED
        BY <1>3, <1>4, <1>5, <1>6, <2>1, <2>2, <2>3, MigrationNames DEF TodoIsFree
<1>14. DeathShows'
    <2>1. Stray' = {}
        BY <1>3, <1>5, <1>8 DEF Stray
    <2>2. \A m \in Names : Ours(m) # Absent => r.files[m] # Absent
        <3>1. \A m \in Names : Ours(m) # Absent => receipt.files[m] # Absent
            BY <1>8 DEF Stray
        <3>2. QED
            BY <3>1, <1>4, ManagedNames
    <2>3. QED
        BY <1>5, <1>6, <2>1, <2>2, CoursePlanFacts DEF DeathShows
<1>15. PromiseIsKept'
    BY <1>1, <1>2, <1>3, <1>4, <1>5, <1>6 DEF CourseInv, PromiseIsKept, Promised
<1>16. QED
    BY <1>9, <1>10, <1>11, <1>12, <1>13, <1>14, <1>15 DEF CourseInv

\* The order in which a plan is written.
LEMMA OrderNames ==
    /\ Order[1] = "tickets"
    /\ \A k \in 1..3 : Order[4 + k] = Migrations[k]
    /\ \A i \in 1..9 : Order[i] \in Names => i > 4 /\ i < 8 /\ Order[i] = Migrations[i - 4]
<1>1. /\ Order[1] = "tickets" /\ Order[2] = "exports" /\ Order[3] = "api" /\ Order[4] = "worker"
      /\ Order[5] = "tickets.sql" /\ Order[6] = "uploads.sql" /\ Order[7] = "exports.sql"
      /\ Order[8] = "fixture" /\ Order[9] = "env"
    BY DEF Order
<1>2. 1..9 = {1, 2, 3, 4, 5, 6, 7, 8, 9} /\ 1..3 = {1, 2, 3}
    OBVIOUS
<1>3. QED
    BY <1>1, <1>2, MigrationNames

\* A migration is written after the module and after the migrations before it.
LEMMA MigrationIsNext ==
    ASSUME NEW k \in 1..3, WriteFile(Migrations[k])
    PROVE  /\ "tickets" \notin setup.todo
           /\ \A l \in 1..(k - 1) : Migrations[l] \notin setup.todo
<1>1. PICK i \in 1..9 : Order[i] = Migrations[k] /\ \A j \in 1..(i - 1) : Order[j] \notin setup.todo
    BY DEF WriteFile
<1>2. Migrations[k] \in Names
    BY MigrationNames
<1>3. i > 4 /\ i < 8 /\ Order[i] = Migrations[i - 4]
    BY <1>1, <1>2, OrderNames
<1>4. i = 4 + k
    <2>1. i - 4 \in 1..3 /\ Migrations[i - 4] = Migrations[k]
        BY <1>1, <1>3
    <2>2. i - 4 = k
        BY <2>1, MigrationNames
    <2>3. QED
        BY <2>2
<1>5. 1 \in 1..(i - 1) /\ \A l \in 1..(k - 1) : 4 + l \in 1..(i - 1) /\ l \in 1..3
    BY <1>4
<1>6. QED
    BY <1>1, <1>5, OrderNames

LEMMA WriteFileKeeps ==
    ASSUME CourseInv, NEW f \in Managed, WriteFile(f)
    PROVE  CourseInv'
<1> DEFINE r == setup.then
<1>1. CourseTypeOK /\ f \in setup.todo /\ f \notin edited
    BY DEF CourseInv, WriteFile, TodoIsFree
<1>2. /\ setup' = [setup EXCEPT !.todo = setup.todo \ {f}]
      /\ file' = [file EXCEPT ![f] = r.files[f]]
      /\ ledger' = IF f \in Names THEN Append(ledger, f) ELSE ledger
      /\ receipt' = receipt /\ edited' = edited /\ original' = original /\ died' = died
      /\ edits' = edits /\ code' = code /\ schema' = schema
    BY DEF WriteFile
<1>3. r \in Receipts /\ setup'.todo = setup.todo \ {f} /\ setup'.then = r
      /\ setup' \in [todo : SUBSET Managed, then : Receipts]
    BY <1>1, <1>2 DEF CourseTypeOK
<1>4. ~AtRest /\ ReceiptIsWhole(r) /\ r.stage > 0 /\ ReceiptIsWhole(receipt)
    BY <1>1 DEF CourseInv, ReceiptsAreWhole
<1>5. ~AtRest'
    <2>1. Idle.then.stage = 0
        BY DEF Idle, NoReceipt
    <2>2. QED
        BY <1>3, <1>4, <2>1 DEF AtRest
<1>6. /\ Ours(f)' = r.files[f]
      /\ \A g \in Managed : g # f => Ours(g)' = Ours(g)
    BY <1>1, <1>2 DEF Ours, CourseTypeOK
<1>7. Copied
    BY <1>4 DEF CourseInv, NothingBefore
<1>8. ASSUME NEW k \in 1..3, f = Migrations[k]
      PROVE  /\ f \in Names /\ f # "tickets" /\ "tickets" \notin setup.todo
             /\ Ours(f) = Absent /\ receipt.files[f] = Absent /\ r.files[f] # Absent
             /\ \A l \in 1..(k - 1) : Ours(Migrations[l]) # Absent
    <2>1. "tickets" \notin setup.todo /\ \A l \in 1..(k - 1) : Migrations[l] \notin setup.todo
        BY <1>8, MigrationIsNext
    <2>2. f \in Names /\ f # "tickets"
        BY <1>8, MigrationNames
    <2>3. QED
        BY <1>1, <1>8, <2>1, <2>2 DEF CourseInv, TodoIsFree
<1>9. f \in Names => \E k \in 1..3 : f = Migrations[k]
    BY DEF Names
<1>10. ledger \in Seq(Names \cup {"template", "mine"})
    BY <1>1 DEF CourseTypeOK
<1>11. f \in Names =>
           /\ DOMAIN ledger = 1..Len(ledger) /\ DOMAIN ledger' = 1..(Len(ledger) + 1)
           /\ Len(ledger) \in Nat
           /\ \A j \in 1..Len(ledger) : ledger'[j] = ledger[j]
           /\ ledger'[Len(ledger) + 1] = f
    <2>1. f \in Names => f \in Names \cup {"template", "mine"}
        OBVIOUS
    <2>2. QED
        BY <1>2, <1>10, <2>1, Appended
<1>12. CourseTypeOK'
    <2>1. file' \in [Managed -> Contents]
        BY <1>1, <1>2, <1>3 DEF CourseTypeOK, Receipts
    <2>2. ledger' \in Seq(Names \cup {"template", "mine"})
        BY <1>2, <1>10
    <2>3. QED
        BY <1>1, <1>2, <1>3, <2>1, <2>2 DEF CourseTypeOK
<1>13. EditsSurvive'
    BY <1>1, <1>2 DEF CourseInv, CourseTypeOK, EditsSurvive
<1>14. InstalledOnce'
    <2>1. CASE f \notin Names
        BY <2>1, <1>2 DEF CourseInv, InstalledOnce
    <2>2. CASE f \in Names
        <3> SUFFICES ASSUME NEW j \in DOMAIN ledger', NEW k \in 1..3, ledger'[j] = Migrations[k]
                     PROVE  /\ \A i \in 1..(j - 1) : ledger'[i] # Migrations[k]
                            /\ \A l \in 1..(k - 1) : \E i \in 1..(j - 1) : ledger'[i] = Migrations[l]
            BY DEF InstalledOnce
        <3>1. \A i \in 1..(j - 1) : ledger'[i] = ledger[i] /\ i \in DOMAIN ledger
            BY <2>2, <1>11
        <3>2. CASE j \in DOMAIN ledger
            <4>1. ledger[j] = Migrations[k]
                BY <3>2, <2>2, <1>11
            <4>2. /\ \A i \in 1..(j - 1) : ledger[i] # Migrations[k]
                  /\ \A l \in 1..(k - 1) : \E i \in 1..(j - 1) : ledger[i] = Migrations[l]
                BY <3>2, <4>1 DEF CourseInv, InstalledOnce
            <4>3. QED
                BY <3>1, <4>2
        <3>3. CASE j = Len(ledger) + 1
            <4>1. f = Migrations[k] /\ 1..(j - 1) = DOMAIN ledger
                BY <3>3, <2>2, <1>11
            <4>2. Ours(f) = Absent /\ \A l \in 1..(k - 1) : Ours(Migrations[l]) # Absent
                BY <4>1, <1>8
            <4>3. ~ \E i \in DOMAIN ledger : ledger[i] = f
                BY <4>2, <2>2 DEF CourseInv, WrittenIsNumbered
            <4>4. \A l \in 1..(k - 1) : \E i \in DOMAIN ledger : ledger[i] = Migrations[l]
                <5>1. \A l \in 1..(k - 1) : Migrations[l] \in Names
                    BY MigrationNames
                <5>2. QED
                    BY <4>2, <5>1 DEF CourseInv, WrittenIsNumbered
            <4>5. QED
                BY <3>1, <4>1, <4>3, <4>4
        <3>4. QED
            BY <3>2, <3>3, <2>2, <1>11
    <2>3. QED
        BY <2>1, <2>2
<1>15. ReceiptsAreWhole'
    BY <1>2, <1>3, <1>4, <1>5 DEF ReceiptsAreWhole, ReceiptIsWhole
<1>16. NothingBefore'
    <2>1. ledger' # <<>>
        BY <1>2, <1>7, <1>11 DEF Copied
    <2>2. QED
        BY <2>1 DEF NothingBefore, Copied
<1>17. WrittenIsNumbered'
    <2>1. CASE f \notin Names
        BY <2>1, <1>2, <1>6, ManagedNames DEF CourseInv, WrittenIsNumbered
    <2>2. CASE f \in Names
        <3>1. ASSUME NEW m \in Names, m # f
              PROVE  (\E j \in DOMAIN ledger' : ledger'[j] = m) <=> \E j \in DOMAIN ledger : ledger[j] = m
            BY <2>2, <3>1, <1>11
        <3>2. \E j \in DOMAIN ledger' : ledger'[j] = f
            BY <2>2, <1>11
        <3>3. Ours(f)' # Absent
            BY <2>2, <1>6, <1>8, <1>9
        <3>4. QED
            BY <3>1, <3>2, <3>3, <1>1, <1>2, <1>6, ManagedNames DEF CourseInv, WrittenIsNumbered
    <2>3. QED
        BY <2>1, <2>2
<1>18. TodoIsFree'
    <2>1. ASSUME NEW k \in 1..3, Migrations[k] \in setup.todo \ {f}
          PROVE  /\ Ours(Migrations[k])' = Absent /\ receipt.files[Migrations[k]] = Absent
                 /\ r.files[Migrations[k]] # Absent
                 /\ \A l \in 1..(k - 1) :
                        Migrations[l] \in setup.todo \ {f} \/ Ours(Migrations[l])' # Absent
        <3>1. /\ Ours(Migrations[k]) = Absent /\ receipt.files[Migrations[k]] = Absent
              /\ r.files[Migrations[k]] # Absent
              /\ \A l \in 1..(k - 1) : Migrations[l] \in setup.todo \/ Ours(Migrations[l]) # Absent
            BY <2>1 DEF CourseInv, TodoIsFree
        <3>2. ASSUME NEW l \in 1..(k - 1)
              PROVE  Migrations[l] \in setup.todo \ {f} \/ Ours(Migrations[l])' # Absent
            <4>1. l \in 1..3 /\ Migrations[l] \in Managed
                BY MigrationNames, ManagedNames
            <4>2. CASE Migrations[l] = f
                BY <4>1, <4>2, <1>6, <1>8
            <4>3. CASE Migrations[l] # f
                BY <4>1, <4>3, <3>1, <1>6
            <4>4. QED
                BY <4>2, <4>3
        <3>3. Ours(Migrations[k])' = Absent
            BY <2>1, <3>1, <1>6, MigrationNames, ManagedNames
        <3>4. QED
            BY <3>1, <3>2, <3>3
    <2>2. QED
        BY <2>1, <1>2, <1>3 DEF CourseInv, TodoIsFree
<1>19. DeathShows'
    <2>1. CASE f = "tickets"
        <3>1. \A m \in Names : m # f /\ Ours(m)' = Ours(m)
            BY <2>1, <1>6, ManagedNames
        <3>2. Stray' = Stray /\ (receipt.stage > 0 => Stray = {})
            BY <2>1, <3>1, <1>1, <1>2, <1>4 DEF CourseInv, DeathShows, Stray
        <3>3. QED
            BY <2>1, <3>1, <3>2, <1>2, <1>3, <1>4, <1>6 DEF CourseInv, DeathShows
    <2>2. CASE f \in Names
        <3>1. PICK k \in 1..3 : f = Migrations[k]
            BY <2>2, <1>9
        <3>2. /\ f # "tickets" /\ "tickets" \notin setup.todo
              /\ receipt.files[f] = Absent /\ r.files[f] # Absent
            BY <3>1, <1>8
        <3>3. Ours("tickets")' = r.files["tickets"]
            BY <3>2, <1>4, <1>6, ManagedNames DEF CourseInv, DeathShows
        <3>4. receipt.stage > 0 => receipt.stage # r.stage
            BY <2>2, <3>2, <1>4 DEF ReceiptIsWhole
        <3>5. receipt.stage \in 0..4 /\ r.stage \in 0..4
            BY <1>1, <1>3 DEF CourseTypeOK, Receipts
        <3>6. receipt.stage > 0 => r.files["tickets"] # receipt.files["tickets"]
            BY <3>4, <3>5, <1>4, CheckpointsDiffer DEF ReceiptIsWhole
        <3>7. \A m \in Names : Ours(m)' # Absent => r.files[m] # Absent
            BY <3>2, <1>4, <1>6, ManagedNames DEF CourseInv, DeathShows
        <3>8. QED
            BY <3>2, <3>3, <3>6, <3>7, <1>2, <1>3 DEF DeathShows
    <2>3. CASE f # "tickets" /\ f \notin Names
        <3>1. Ours("tickets")' = Ours("tickets") /\ \A m \in Names : Ours(m)' = Ours(m)
            BY <2>3, <1>6, ManagedNames
        <3>2. Stray' = Stray
            BY <3>1, <1>2 DEF Stray
        <3>3. QED
            BY <2>3, <3>1, <3>2, <1>2, <1>3, <1>4 DEF CourseInv, DeathShows
    <2>4. QED
        BY <2>1, <2>2, <2>3
<1>20. PromiseIsKept'
    <2> SUFFICES ASSUME ~died, NEW g \in Managed, g \notin setup.todo \/ g = f
                 PROVE  Ours(g)' = r.files[g]
        BY <1>2, <1>3, <1>5 DEF PromiseIsKept, Promised
    <2>1. CASE g = f
        BY <2>1, <1>6
    <2>2. CASE g # f
        BY <2>2, <1>4, <1>6 DEF CourseInv, PromiseIsKept, Promised
    <2>3. QED
        BY <2>1, <2>2
<1>21. QED
    BY <1>12, <1>13, <1>14, <1>15, <1>16, <1>17, <1>18, <1>19, <1>20 DEF CourseInv

\* A setup ends with its receipt, or dies.
LEMMA SetUpEndsKeeps ==
    ASSUME CourseInv, WriteReceipt \/ Die
    PROVE  CourseInv'
<1>1. CourseTypeOK /\ ~AtRest /\ ReceiptIsWhole(setup.then) /\ ReceiptIsWhole(receipt) /\ Copied
    BY DEF CourseInv, ReceiptsAreWhole, NothingBefore, WriteReceipt, Die
<1>2. /\ setup' = Idle /\ file' = file /\ ledger' = ledger /\ edited' = edited /\ original' = original
      /\ code' = code /\ schema' = schema /\ edits' = edits
      /\ \/ setup.todo = {} /\ receipt' = setup.then /\ died' = died
         \/ receipt' = receipt /\ died' = TRUE
         \/ receipt' = NoReceipt /\ died' = TRUE
    BY DEF WriteReceipt, Die
<1>3. AtRest' /\ setup'.todo = {}
    BY <1>2 DEF AtRest, Idle
<1>4. NoReceipt \in Receipts /\ NoReceipt.stage = 0 /\ \A f \in Managed : NoReceipt.files[f] # Mine
    <2>1. Absent \in Contents /\ Absent # Mine
        BY DEF Contents, Absent, Mine
    <2>2. QED
        BY <2>1, CourseAssumption DEF NoReceipt, Receipts
<1>5. \A f : Ours(f)' = Ours(f)
    BY <1>2 DEF Ours
<1>6. CourseTypeOK'
    <2>1. Idle \in [todo : SUBSET Managed, then : Receipts]
        BY <1>4 DEF Idle
    <2>2. receipt' \in Receipts /\ died' \in BOOLEAN
        BY <1>1, <1>2, <1>4 DEF CourseTypeOK
    <2>3. QED
        BY <1>1, <1>2, <2>1, <2>2 DEF CourseTypeOK
<1>7. EditsSurvive' /\ InstalledOnce' /\ NothingBefore'
    BY <1>1, <1>2 DEF CourseInv, EditsSurvive, InstalledOnce, NothingBefore, Copied
<1>8. ReceiptsAreWhole'
    <2>1. ReceiptIsWhole(NoReceipt)
        BY <1>4 DEF ReceiptIsWhole
    <2>2. ReceiptIsWhole(receipt)'
        BY <1>1, <1>2, <2>1 DEF ReceiptIsWhole
    <2>3. QED
        BY <1>3, <2>2 DEF ReceiptsAreWhole
<1>9. WrittenIsNumbered'
    BY <1>2, <1>5 DEF CourseInv, WrittenIsNumbered
<1>10. TodoIsFree'
    BY <1>3 DEF TodoIsFree
<1>11. DeathShows'
    <2>1. CASE setup.todo = {} /\ receipt' = setup.then
        <3>1. Stray' = {}
            BY <2>1, <1>1, <1>5 DEF CourseInv, DeathShows, Stray
        <3>2. QED
            BY <3>1, <1>3 DEF DeathShows
    <2>2. CASE receipt' = receipt
        <3>1. Stray' = Stray
            BY <2>2, <1>5 DEF Stray
        <3>2. QED
            BY <2>2, <3>1, <1>3, <1>5 DEF CourseInv, DeathShows
    <2>3. CASE receipt' = NoReceipt
        BY <2>3, <1>3, <1>4 DEF DeathShows
    <2>4. QED
        BY <1>2, <2>1, <2>2, <2>3
<1>12. PromiseIsKept'
    BY <1>1, <1>2, <1>3, <1>5 DEF CourseInv, PromiseIsKept, Promised
<1>13. QED
    BY <1>6, <1>7, <1>8, <1>9, <1>10, <1>11, <1>12 DEF CourseInv

LEMMA CourseStepInv == CourseInv /\ [CourseNext]_courseVars => CourseInv'
<1> SUFFICES ASSUME CourseInv, [CourseNext]_courseVars PROVE CourseInv'
    OBVIOUS
<1>1. CASE UNCHANGED courseVars
    <2> USE <1>1 DEF courseVars
    <2>1. CourseTypeOK' /\ EditsSurvive' /\ InstalledOnce' /\ NothingBefore'
        BY DEF CourseInv, CourseTypeOK, EditsSurvive, InstalledOnce, NothingBefore, Copied, AtRest
    <2>2. ReceiptsAreWhole' /\ \A f : Ours(f)' = Ours(f)
        BY DEF CourseInv, ReceiptsAreWhole, ReceiptIsWhole, AtRest, Ours
    <2>3. WrittenIsNumbered' /\ TodoIsFree' /\ Stray' = Stray
        BY <2>2 DEF CourseInv, WrittenIsNumbered, TodoIsFree, Stray
    <2>4. DeathShows' /\ PromiseIsKept'
        BY <2>2, <2>3 DEF CourseInv, DeathShows, PromiseIsKept, Promised, AtRest
    <2>5. QED
        BY <2>1, <2>2, <2>3, <2>4 DEF CourseInv
<1>2. ASSUME NEW f \in Managed, Edit(f) \/ Undo(f)
      PROVE  CourseInv'
    BY <1>2, LearnerKeeps
<1>3. CASE AddMigration \/ NewRelease
    <2>1. "env" \in Managed
        BY ManagedNames
    <2>2. QED
        BY <1>3, <2>1, LearnerKeeps
<1>4. ASSUME NEW n \in 1..4, SetUpNew(n) \/ Upgrade(n)
      PROVE  CourseInv'
    BY <1>4, SetUpNewKeeps, UpgradeKeeps
<1>5. ASSUME NEW f \in Managed, WriteFile(f)
      PROVE  CourseInv'
    BY <1>5, WriteFileKeeps
<1>6. CASE WriteReceipt \/ Die
    BY <1>6, SetUpEndsKeeps
<1>7. QED
    BY <1>1, <1>2, <1>3, <1>4, <1>5, <1>6 DEF CourseNext

-----------------------------------------------------------------------------
(* The creators of projects.                                               *)

Holds(c) == at[c] \in {"locked", "reserved", "renamed", "saved"}

CreatorTyped ==
    /\ at \in [Creators -> {"idle", "waiting", "locked", "reserved", "renamed", "saved", "dead"}]
    /\ target \in [Creators -> Places \cup {NoPlace}]
    /\ \A c \in Creators : Holds(c) \/ at[c] = "waiting" => target[c] \in Places
    /\ known \in [Creators -> [Places -> Groups]]
    /\ allocated \in [Creators -> Groups]
    /\ registry \in [Places -> Groups]
    /\ project \in [Places -> [ports : Groups, runs : BOOLEAN]]
    /\ finished \subseteq {p \in Places : Exists(p)}

\* Who works on the registry has the lock.
LockIsHeld == \A c \in Creators : Holds(c) => lock = c

\* The ports of a reported project are in the registry, and in what the creator under the lock
\* has read of it; the group that one has found is apart from all of them.
RegistryKnows ==
    /\ \A p \in finished : registry[p] = project[p].ports
    /\ \A c \in Creators : Holds(c) => \A p \in finished : known[c][p] = project[p].ports
    /\ \A c \in Creators : at[c] \in {"reserved", "renamed", "saved"} =>
           /\ allocated[c] # NoPorts
           /\ \A p \in finished : allocated[c] \cap project[p].ports = {}
    /\ \A c \in Creators : at[c] \in {"renamed", "saved"} =>
           /\ target[c] \notin finished
           /\ known[c][target[c]] = allocated[c]
    /\ \A c \in Creators : at[c] = "saved" => registry = known[c]

CreatorInv == CreatorTyped /\ LockIsHeld /\ RegistryKnows /\ PortsAreApart

LEMMA CreatorInitInv == CreatorInit => CreatorInv
<1> SUFFICES ASSUME CreatorInit PROVE CreatorInv
    OBVIOUS
<1> USE DEF CreatorInit, Holds
<1>1. CreatorTyped
    BY DEF CreatorTyped, Groups, NoPorts
<1>2. LockIsHeld /\ RegistryKnows /\ PortsAreApart
    BY DEF LockIsHeld, RegistryKnows, PortsAreApart
<1>3. QED
    BY <1>1, <1>2 DEF CreatorInv

LEMMA CreatorGoes ==
    ASSUME CreatorTyped, NEW c \in Creators, NEW from,
           NEW to \in {"idle", "waiting", "locked", "reserved", "renamed", "saved", "dead"},
           Goes(c, from, to)
    PROVE  /\ at' \in [Creators -> {"idle", "waiting", "locked", "reserved", "renamed", "saved", "dead"}]
           /\ at[c] = from /\ at'[c] = to
           /\ \A d \in Creators : d # c => at'[d] = at[d]
BY DEF CreatorTyped, Goes

\* A creator forgets all it knew; the others do not.
LEMMA Forgotten ==
    ASSUME CreatorTyped, NEW c \in Creators, Forget(c)
    PROVE  /\ target' \in [Creators -> Places \cup {NoPlace}]
           /\ known' \in [Creators -> [Places -> Groups]]
           /\ allocated' \in [Creators -> Groups]
           /\ \A d \in Creators : d # c =>
                  target'[d] = target[d] /\ known'[d] = known[d] /\ allocated'[d] = allocated[d]
<1>1. NoPorts \in Groups /\ [p \in Places |-> NoPorts] \in [Places -> Groups]
    BY DEF Groups
<1>2. QED
    BY <1>1 DEF Forget, CreatorTyped

\* A step of a creator that keeps registry and projects, and after which it is not under the
\* lock, keeps what the others rely on.
LEMMA CreatorLeaves ==
    ASSUME CreatorInv, NEW c \in Creators, Forget(c),
           at' \in [Creators -> {"idle", "waiting", "locked", "reserved", "renamed", "saved", "dead"}],
           at'[c] \in {"idle", "dead"}, \A d \in Creators : d # c => at'[d] = at[d],
           lock' = lock \/ lock = c, UNCHANGED <<registry, project, finished>>
    PROVE  CreatorInv'
<1> USE DEF CreatorInv, Holds
<1>1. CreatorTyped'
    BY Forgotten DEF CreatorTyped, Exists
<1>2. LockIsHeld'
    BY DEF LockIsHeld
<1>3. \A d \in Creators : at'[d] \notin {"idle", "dead"} =>
          at'[d] = at[d] /\ target'[d] = target[d] /\ known'[d] = known[d] /\ allocated'[d] = allocated[d]
    BY Forgotten
<1>4. RegistryKnows'
    BY <1>3 DEF RegistryKnows
<1>5. PortsAreApart'
    BY DEF PortsAreApart
<1>6. QED
    BY <1>1, <1>2, <1>4, <1>5

LEMMA CreatorStepInv == CreatorInv /\ [CreatorNext]_creatorVars => CreatorInv'
<1> SUFFICES ASSUME CreatorInv, [CreatorNext]_creatorVars PROVE CreatorInv'
    OBVIOUS
<1>0. CreatorTyped /\ LockIsHeld /\ RegistryKnows /\ PortsAreApart
    BY DEF CreatorInv
<1>1. ASSUME NEW c \in Creators, NEW p \in Places, Begin(c, p) PROVE CreatorInv'
    <2>1. at' \in [Creators -> {"idle", "waiting", "locked", "reserved", "renamed", "saved", "dead"}]
          /\ at'[c] = "waiting" /\ \A d \in Creators : d # c => at'[d] = at[d]
        BY <1>0, <1>1, CreatorGoes DEF Begin
    <2>2. target' \in [Creators -> Places \cup {NoPlace}] /\ target'[c] = p
          /\ \A d \in Creators : d # c => target'[d] = target[d]
        BY <1>0, <1>1 DEF Begin, CreatorTyped
    <2>3. UNCHANGED <<known, allocated, lock, registry, project, finished>>
        BY <1>1 DEF Begin
    <2>4. CreatorTyped'
        BY <1>0, <2>1, <2>2, <2>3 DEF CreatorTyped, Holds, Exists
    <2>5. LockIsHeld' /\ PortsAreApart'
        BY <1>0, <2>1, <2>3 DEF LockIsHeld, Holds, PortsAreApart
    <2>6. RegistryKnows'
        BY <1>0, <2>1, <2>2, <2>3 DEF RegistryKnows, Holds
    <2>7. QED
        BY <2>4, <2>5, <2>6 DEF CreatorInv
<1>2. ASSUME NEW c \in Creators, TakeLock(c) PROVE CreatorInv'
    <2>1. at' \in [Creators -> {"idle", "waiting", "locked", "reserved", "renamed", "saved", "dead"}]
          /\ at[c] = "waiting" /\ at'[c] = "locked" /\ \A d \in Creators : d # c => at'[d] = at[d]
        BY <1>0, <1>2, CreatorGoes DEF TakeLock
    <2> DEFINE read == [p \in Places |-> IF Exists(p) THEN registry[p] ELSE NoPorts]
    <2>2. read \in [Places -> Groups]
        BY <1>0 DEF CreatorTyped, Groups
    <2>3. \A p \in finished : read[p] = project[p].ports
        BY <1>0 DEF CreatorTyped, RegistryKnows
    <2>4. known' = [known EXCEPT ![c] = read]
        BY <1>2 DEF TakeLock
    <2> HIDE DEF read
    <2>5. known' \in [Creators -> [Places -> Groups]] /\ known'[c] = read
          /\ \A d \in Creators : d # c => known'[d] = known[d]
        BY <1>0, <2>2, <2>4 DEF CreatorTyped
    <2>6. lock = "none" /\ lock' = c /\ UNCHANGED <<target, allocated, registry, project, finished>>
        BY <1>2 DEF TakeLock, Unlocked
    <2>7. CreatorTyped'
        BY <1>0, <2>1, <2>5, <2>6 DEF CreatorTyped, Holds, Exists
    <2>8. LockIsHeld' /\ PortsAreApart'
        BY <1>0, <2>1, <2>6, CreatorAssumption DEF LockIsHeld, Holds, PortsAreApart
    <2>9. RegistryKnows'
        BY <1>0, <2>1, <2>3, <2>5, <2>6 DEF RegistryKnows, Holds
    <2>10. QED
        BY <2>7, <2>8, <2>9 DEF CreatorInv
<1>3. ASSUME NEW c \in Creators, NEW g \in PortGroups, ReservePorts(c, g) PROVE CreatorInv'
    <2>1. at' \in [Creators -> {"idle", "waiting", "locked", "reserved", "renamed", "saved", "dead"}]
          /\ at[c] = "locked" /\ at'[c] = "reserved" /\ \A d \in Creators : d # c => at'[d] = at[d]
        BY <1>0, <1>3, CreatorGoes DEF ReservePorts
    <2>2. allocated' \in [Creators -> Groups] /\ allocated'[c] = g
          /\ \A d \in Creators : d # c => allocated'[d] = allocated[d]
        BY <1>0, <1>3 DEF ReservePorts, CreatorTyped, Groups
    <2>3. UNCHANGED <<target, known, lock, registry, project, finished>>
        BY <1>3 DEF ReservePorts
    <2>4. \A p \in Places : g \cap known[c][p] = {}
        BY <1>3 DEF ReservePorts, Reserved
    <2>5. \A p \in finished : g \cap project[p].ports = {}
        BY <1>0, <2>1, <2>4 DEF RegistryKnows, Holds, CreatorTyped
    <2>6. g # NoPorts
        BY CreatorAssumption DEF NoPorts
    <2>7. CreatorTyped'
        BY <1>0, <2>1, <2>2, <2>3 DEF CreatorTyped, Holds, Exists
    <2>8. LockIsHeld' /\ PortsAreApart'
        BY <1>0, <2>1, <2>3 DEF LockIsHeld, Holds, PortsAreApart
    <2>9. RegistryKnows'
        BY <1>0, <2>1, <2>2, <2>3, <2>5, <2>6 DEF RegistryKnows, Holds
    <2>10. QED
        BY <2>7, <2>8, <2>9 DEF CreatorInv
<1>4. ASSUME NEW c \in Creators, RenameStage(c) PROVE CreatorInv'
    <2> DEFINE t == target[c]
    <2>1. at' \in [Creators -> {"idle", "waiting", "locked", "reserved", "renamed", "saved", "dead"}]
          /\ at[c] = "reserved" /\ at'[c] = "renamed" /\ \A d \in Creators : d # c => at'[d] = at[d]
        BY <1>0, <1>4, CreatorGoes DEF RenameStage
    <2>2. t \in Places /\ t \notin finished /\ allocated[c] \in Groups /\ allocated[c] # NoPorts
        BY <1>0, <1>4, <2>1 DEF RenameStage, CreatorTyped, Holds, RegistryKnows
    <2>3. project' \in [Places -> [ports : Groups, runs : BOOLEAN]]
          /\ project'[t].ports = allocated[c]
          /\ \A p \in Places : p # t => project'[p] = project[p]
        BY <1>0, <1>4, <2>2 DEF RenameStage, CreatorTyped
    <2>4. known' \in [Creators -> [Places -> Groups]]
          /\ known'[c][t] = allocated[c] /\ (\A p \in Places : p # t => known'[c][p] = known[c][p])
          /\ \A d \in Creators : d # c => known'[d] = known[d]
        BY <1>0, <1>4, <2>2 DEF RenameStage, CreatorTyped
    <2>5. UNCHANGED <<target, allocated, lock, registry, finished>>
        BY <1>4 DEF RenameStage
    <2>6. \A d \in Creators : d # c => ~Holds(d) /\ ~Holds(d)'
        BY <1>0, <2>1 DEF LockIsHeld, Holds
    <2> HIDE DEF t
    <2>7. CreatorTyped'
        BY <1>0, <2>1, <2>2, <2>3, <2>4, <2>5 DEF CreatorTyped, Holds, Exists
    <2>8. LockIsHeld'
        BY <1>0, <2>1, <2>5, <2>6 DEF LockIsHeld, Holds
    <2>9. PortsAreApart'
        BY <1>0, <2>2, <2>3, <2>5 DEF PortsAreApart, CreatorTyped
    <2>10. RegistryKnows'
        <3>1. \A p \in finished : p \in Places /\ p # t
            BY <1>0, <2>2 DEF CreatorTyped
        <3>2. t = target'[c] /\ allocated'[c] = allocated[c] /\ allocated[c] # NoPorts
            BY <2>2, <2>5 DEF t
        <3>3. \A p \in finished' : p \in finished /\ project'[p].ports = project[p].ports
                  /\ known'[c][p] = known[c][p]
            BY <2>3, <2>4, <2>5, <3>1
        <3>4. /\ \A p \in finished : registry[p] = project[p].ports
              /\ \A p \in finished : known[c][p] = project[p].ports
              /\ \A p \in finished : allocated[c] \cap project[p].ports = {}
            BY <1>0, <2>1 DEF RegistryKnows, Holds
        <3>5. \A d \in Creators : Holds(d)' => d = c
            BY <2>6
        <3>6. \A p \in finished' : registry'[p] = project'[p].ports
            BY <2>5, <3>3, <3>4
        <3>7. QED
            BY <2>1, <2>2, <2>4, <2>5, <3>2, <3>3, <3>4, <3>5, <3>6 DEF RegistryKnows, Holds
    <2>11. QED
        BY <2>7, <2>8, <2>9, <2>10 DEF CreatorInv
<1>5. ASSUME NEW c \in Creators, SaveRegistry(c) PROVE CreatorInv'
    <2>1. at' \in [Creators -> {"idle", "waiting", "locked", "reserved", "renamed", "saved", "dead"}]
          /\ at[c] = "renamed" /\ at'[c] = "saved" /\ \A d \in Creators : d # c => at'[d] = at[d]
        BY <1>0, <1>5, CreatorGoes DEF SaveRegistry
    <2>2. registry' = known[c] /\ UNCHANGED <<target, known, allocated, lock, project, finished>>
        BY <1>5 DEF SaveRegistry, ofCreator
    <2>3. \A d \in Creators : d # c => ~Holds(d) /\ ~Holds(d)'
        BY <1>0, <2>1 DEF LockIsHeld, Holds
    <2>4. CreatorTyped'
        BY <1>0, <2>1, <2>2 DEF CreatorTyped, Holds, Exists
    <2>5. LockIsHeld' /\ PortsAreApart'
        BY <1>0, <2>1, <2>2 DEF LockIsHeld, Holds, PortsAreApart
    <2>6. RegistryKnows'
        BY <1>0, <2>1, <2>2, <2>3 DEF RegistryKnows, Holds
    <2>7. QED
        BY <2>4, <2>5, <2>6 DEF CreatorInv
<1>6. ASSUME NEW c \in Creators, Reports(c) PROVE CreatorInv'
    <2> DEFINE t == target[c]
    <2>1. at' \in [Creators -> {"idle", "waiting", "locked", "reserved", "renamed", "saved", "dead"}]
          /\ at[c] = "saved" /\ at'[c] = "idle" /\ \A d \in Creators : d # c => at'[d] = at[d]
        BY <1>0, <1>6, CreatorGoes DEF Reports
    <2>2. Forget(c) /\ lock' = "none" /\ UNCHANGED <<registry, project>>
        BY <1>6 DEF Reports
    <2>3. \A d \in Creators : d # c => ~Holds(d) /\ ~Holds(d)'
        BY <1>0, <2>1 DEF LockIsHeld, Holds
    <2>4. finished' \subseteq finished \cup {t} /\ (t \in finished' => project[t].ports = allocated[c])
        BY <1>0, <1>6, <2>1 DEF Reports, RegistryKnows
    <2>5. /\ t \in Places /\ t \notin finished /\ allocated[c] # NoPorts
          /\ registry[t] = allocated[c]
          /\ \A p \in finished : allocated[c] \cap project[p].ports = {}
        BY <1>0, <2>1 DEF CreatorTyped, Holds, RegistryKnows
    <2> HIDE DEF t
    <2>6. CreatorTyped'
        BY <1>0, <2>1, <2>2, <2>3, <2>4, <2>5, Forgotten DEF CreatorTyped, Holds, Exists
    <2>7. LockIsHeld'
        BY <2>1, <2>3 DEF LockIsHeld, Holds
    <2>8. PortsAreApart'
        BY <1>0, <2>2, <2>4, <2>5 DEF PortsAreApart
    <2>9. RegistryKnows'
        BY <1>0, <2>1, <2>2, <2>3, <2>4, <2>5 DEF RegistryKnows, Holds
    <2>10. QED
        BY <2>6, <2>7, <2>8, <2>9 DEF CreatorInv
<1>7. ASSUME NEW c \in Creators, GiveUp(c) \/ Kill(c) PROVE CreatorInv'
    <2>1. /\ Forget(c) /\ UNCHANGED <<registry, project, finished>>
          /\ at' = [at EXCEPT ![c] = IF Kill(c) THEN "dead" ELSE "idle"]
        BY <1>7 DEF GiveUp, Kill
    <2>2. lock' = lock \/ lock = c
        BY <1>0, <1>7 DEF GiveUp, Kill, LockIsHeld, Holds
    <2>3. at' \in [Creators -> {"idle", "waiting", "locked", "reserved", "renamed", "saved", "dead"}]
          /\ at'[c] \in {"idle", "dead"} /\ \A d \in Creators : d # c => at'[d] = at[d]
        BY <1>0, <2>1 DEF CreatorTyped
    <2>4. QED
        BY <2>1, <2>2, <2>3, CreatorLeaves
<1>8. ASSUME NEW c \in Creators, RemoveLock(c) PROVE CreatorInv'
    <2>1. at' \in [Creators -> {"idle", "waiting", "locked", "reserved", "renamed", "saved", "dead"}]
          /\ at'[c] = "idle" /\ \A d \in Creators : d # c => at'[d] = at[d]
        BY <1>0, <1>8, CreatorGoes DEF RemoveLock
    <2>2. UNCHANGED <<target, known, allocated, registry, project, finished>> /\ (lock' = lock \/ lock = c)
        BY <1>8 DEF RemoveLock, ofCreator
    <2>3. CreatorTyped'
        BY <1>0, <2>1, <2>2 DEF CreatorTyped, Holds, Exists
    <2>4. LockIsHeld' /\ PortsAreApart'
        BY <1>0, <2>1, <2>2 DEF LockIsHeld, Holds, PortsAreApart
    <2>5. RegistryKnows'
        BY <1>0, <2>1, <2>2 DEF RegistryKnows, Holds
    <2>6. QED
        BY <2>3, <2>4, <2>5 DEF CreatorInv
<1>9. ASSUME NEW p \in Places, Run(p) \/ Halted(p) PROVE CreatorInv'
    <2>1. project' \in [Places -> [ports : Groups, runs : BOOLEAN]]
          /\ \A q \in Places : project'[q].ports = project[q].ports
        <3>1. PICK b \in BOOLEAN : project' = [project EXCEPT ![p].runs = b]
            BY <1>9 DEF Run, Halted
        <3>2. QED
            BY <1>0, <3>1 DEF CreatorTyped
    <2>2. UNCHANGED <<at, target, known, allocated, lock, registry, finished>>
        BY <1>9 DEF Run, Halted, ofCreator
    <2>3. CreatorTyped'
        BY <1>0, <2>1, <2>2 DEF CreatorTyped, Holds, Exists
    <2>4. LockIsHeld' /\ PortsAreApart'
        BY <1>0, <2>1, <2>2 DEF LockIsHeld, Holds, PortsAreApart, CreatorTyped
    <2>5. RegistryKnows'
        BY <1>0, <2>1, <2>2 DEF RegistryKnows, Holds, CreatorTyped
    <2>6. QED
        BY <2>3, <2>4, <2>5 DEF CreatorInv
<1>10. ASSUME NEW p \in Places, Delete(p) PROVE CreatorInv'
    <2>1. project' \in [Places -> [ports : Groups, runs : BOOLEAN]]
          /\ \A q \in Places : q # p => project'[q] = project[q]
        BY <1>0, <1>10 DEF Delete, CreatorTyped, Groups
    <2>2. UNCHANGED <<at, target, known, allocated, lock, registry>> /\ finished' = finished \ {p}
        BY <1>10 DEF Delete, ofCreator
    <2>3. CreatorTyped'
        BY <1>0, <2>1, <2>2 DEF CreatorTyped, Holds, Exists
    <2>4. LockIsHeld' /\ PortsAreApart'
        BY <1>0, <2>1, <2>2 DEF LockIsHeld, Holds, PortsAreApart, CreatorTyped
    <2>5. RegistryKnows'
        BY <1>0, <2>1, <2>2 DEF RegistryKnows, Holds, CreatorTyped
    <2>6. QED
        BY <2>3, <2>4, <2>5 DEF CreatorInv
<1>11. CASE UNCHANGED creatorVars
    BY <1>0, <1>11 DEF creatorVars, CreatorInv, CreatorTyped, LockIsHeld, RegistryKnows, PortsAreApart,
                       Holds, Exists
<1>12. QED
    BY <1>1, <1>2, <1>3, <1>4, <1>5, <1>6, <1>7, <1>8, <1>9, <1>10, <1>11 DEF CreatorNext

-----------------------------------------------------------------------------
(* Examples that go and come back.                                         *)

\* What is left of a removal after each of its writes.
Rest1 == <<"manifest">>
Rest2 == <<"dependencies", "manifest">>
Rest3 == <<"views", "dependencies", "manifest">>
Rest4 == <<"assembly", "views", "dependencies", "manifest">>
Removals == {RemovalPlan, Rest4, Rest3, Rest2, Rest1}

LEMMA PlanFacts ==
    /\ Head(RemovalPlan) = "paths" /\ Tail(RemovalPlan) = Rest4
    /\ Head(Rest4) = "assembly" /\ Tail(Rest4) = Rest3
    /\ Head(Rest3) = "views" /\ Tail(Rest3) = Rest2
    /\ Head(Rest2) = "dependencies" /\ Tail(Rest2) = Rest1
    /\ Head(Rest1) = "manifest" /\ Tail(Rest1) = <<>>
    /\ Head(<<"splice">>) = "splice" /\ Tail(<<"splice">>) = <<>>
BY DEF RemovalPlan, Rest1, Rest2, Rest3, Rest4

LEMMA PlansDiffer ==
    /\ RemovalPlan \notin {Rest4, Rest3, Rest2, Rest1, <<"splice">>, <<>>}
    /\ Rest4 \notin {Rest3, Rest2, Rest1, <<"splice">>, <<>>}
    /\ Rest3 \notin {Rest2, Rest1, <<"splice">>, <<>>}
    /\ Rest2 \notin {Rest1, <<"splice">>, <<>>}
    /\ Rest1 \notin {<<"splice">>, <<>>}
    /\ <<"splice">> # <<>>
BY DEF RemovalPlan, Rest1, Rest2, Rest3, Rest4

LEMMA PiecesWithin == \A x \in Pieces : Within(x) \subseteq Pieces
BY DEF Pieces, Within

\* Neither Core nor a package lies in a directory.
LEMMA WithinIsApart ==
    ASSUME NEW paths
    PROVE  /\ "core code" \notin paths => "core code" \notin AllWithin(paths)
           /\ paths \subseteq AllWithin(paths)
           /\ AllWithin(paths \ Packages) \cap Packages = {}
<1>1. \A x : x \in Within(x)
  BY DEF Within
<1>2. \A x, y : y \in Within(x) => y = x \/ y = "extension"
  BY DEF Within
<1>3. "core code" # "extension" /\ "extension" \notin Packages
  BY DEF Packages
<1>4. \A y : y \in AllWithin(paths) => y \in paths \/ y = "extension"
  BY <1>2 DEF AllWithin
<1>5. \A y : y \in AllWithin(paths \ Packages) => y \in paths \ Packages \/ y = "extension"
  BY <1>2 DEF AllWithin
<1>6. paths \subseteq AllWithin(paths)
  BY <1>1 DEF AllWithin
<1>7. QED
  BY <1>3, <1>4, <1>5, <1>6

LEMMA PackagesAreNotSwept == Swept \cap Packages = {}
<1>1. \A d \in Ids : AllWithin(removed[d] \ Packages) \cap Packages = {}
  BY WithinIsApart
<1>2. QED
  BY <1>1 DEF Swept

LEMMA SweptStays ==
    ASSUME removed' = removed
    PROVE  Swept' = Swept
BY DEF Swept

\* A copy, as it is or as it was committed: an example no removal was begun for lacks only what
\* the developer took and what lay in a directory of one that was removed, and of one that is gone
\* nothing is left.  Core is nobody's.
CopyHolds(copy) ==
    /\ "core code" \in copy.present \cup copy.taken
    /\ \A e \in Ids :
        /\ "core code" \notin copy.claims[e]
        /\ removed[e] = {} => copy.claims[e] \subseteq copy.present \cup copy.taken \cup Swept
        /\ e \notin copy.active =>
            removed[e] \cap copy.present = {} /\ \A f \in Shared : copy.block[f][e] = "absent"

\* A removal that is at work has taken what it has written so far, and only its example's.
RemovalIsExact ==
    todo \in Removals =>
        /\ example \in active
        /\ removed[example] = claims[example]
        /\ Exclusive
        /\ todo # RemovalPlan => present \cap (claims[example] \ Packages) = {}
        /\ todo \in {Rest1, Rest2, Rest3} => block["assembly"][example] = "absent"
        /\ todo \in {Rest1, Rest2} => block["views"][example] = "absent"
        /\ todo = Rest1 => present \cap claims[example] = {}

ToolKnows ==
    /\ todo \in {<<>>, <<"splice">>} \cup Removals
    /\ todo # <<>> => AtWork
    /\ todo = <<"splice">> => example \in active
    /\ RemovalIsExact

CopyTypeOK(copy) ==
    /\ copy.block \in [Shared -> [Ids -> {"absent", "intact", "broken"}]]
    /\ copy.claims \in [Ids -> SUBSET Pieces]
    /\ copy.present \subseteq Pieces
    /\ copy.taken \subseteq Pieces
    /\ copy.active \subseteq Ids

ExamplesInv ==
    /\ ExamplesTypeOK
    /\ CopyTypeOK(committed)
    /\ CopyHolds(Copy)
    /\ CopyHolds(committed)
    /\ ToolKnows

LEMMA ExamplesInitInv ==
    ASSUME ExamplesInit
    PROVE  ExamplesInv
<1>1. claims["knowledge"] = {"knowledge code", "zip"} /\ claims["notes"] = {"notes code"}
  BY DEF ExamplesInit, Ids
<1>2. ExamplesTypeOK
  <2>1. claims \in [Ids -> SUBSET Pieces]  BY DEF ExamplesInit, Ids, Pieces
  <2>2. removed \in [Ids -> SUBSET Pieces]  BY DEF ExamplesInit
  <2>3. block \in [Shared -> [Ids -> {"absent", "intact", "broken"}]]  BY DEF ExamplesInit
  <2>4. QED  BY <2>1, <2>2, <2>3 DEF ExamplesInit, ExamplesTypeOK, Pieces
<1>3. CopyTypeOK(committed)  BY <1>2 DEF ExamplesInit, CopyTypeOK, ExamplesTypeOK, Copy
<1>4. CopyHolds(Copy)  BY <1>1 DEF ExamplesInit, CopyHolds, Copy, Ids, Pieces
<1>5. CopyHolds(committed)  BY <1>4 DEF ExamplesInit
<1>6. ToolKnows  BY PlansDiffer DEF ExamplesInit, ToolKnows, RemovalIsExact, Removals
<1>7. QED  BY <1>2, <1>3, <1>4, <1>5, <1>6 DEF ExamplesInv

\* What a step of the developer needs to keep: the copy, for the tool rests.
LEMMA DeveloperSteps ==
    ASSUME ExamplesInv, ~AtWork, ExamplesTypeOK',
           UNCHANGED <<todo, example, removed>>,
           CopyHolds(Copy)',
           CopyTypeOK(committed)', CopyHolds(committed)'
    PROVE  ExamplesInv'
<1>1. todo = <<>> /\ todo' = <<>>  BY DEF ExamplesInv, ToolKnows
<1>2. ToolKnows'
  BY <1>1, PlansDiffer DEF ToolKnows, RemovalIsExact, Removals
<1>3. QED  BY <1>2 DEF ExamplesInv

LEMMA DeleteThingKeeps ==
    ASSUME ExamplesInv, NEW x \in Pieces, DeleteThing(x)
    PROVE  ExamplesInv'
<1>1. UNCHANGED <<claims, active, block, committed, todo, example, removed>>
      /\ present' = present \ Within(x) /\ taken' = taken \cup Within(x) /\ ~AtWork
  BY DEF DeleteThing
<1>2. ExamplesTypeOK'  BY <1>1, PiecesWithin DEF ExamplesInv, ExamplesTypeOK
<1>3. CopyHolds(Copy)'
  <2>1. CopyHolds(Copy)  BY DEF ExamplesInv
  <2>2. QED  BY <2>1, <1>1, SweptStays DEF CopyHolds, Copy
<1>4. CopyTypeOK(committed)' /\ CopyHolds(committed)'
  <2>1. CopyTypeOK(committed) /\ CopyHolds(committed)  BY DEF ExamplesInv
  <2>2. QED  BY <2>1, <1>1, SweptStays DEF CopyHolds, CopyTypeOK
<1>5. QED  BY <1>1, <1>2, <1>3, <1>4, DeveloperSteps

LEMMA RestructureKeeps ==
    ASSUME ExamplesInv, NEW f \in Shared, NEW e \in Ids, Restructure(f, e)
    PROVE  ExamplesInv'
<1>1. UNCHANGED <<present, claims, active, committed, todo, example, taken, removed>>
      /\ block[f][e] = "intact" /\ block' = [block EXCEPT ![f][e] = "broken"] /\ ~AtWork
  BY DEF Restructure
<1>2. block \in [Shared -> [Ids -> {"absent", "intact", "broken"}]]
  BY DEF ExamplesInv, ExamplesTypeOK
<1>3. ExamplesTypeOK'
  <2>1. block' \in [Shared -> [Ids -> {"absent", "intact", "broken"}]]  BY <1>1, <1>2
  <2>2. QED  BY <1>1, <2>1 DEF ExamplesInv, ExamplesTypeOK
<1>4. \A g \in Shared, d \in Ids : block[g][d] = "absent" => block'[g][d] = "absent"
  BY <1>1, <1>2
<1>5. CopyHolds(Copy)'
  <2>1. CopyHolds(Copy)  BY DEF ExamplesInv
  <2>2. QED  BY <2>1, <1>1, <1>4, SweptStays DEF CopyHolds, Copy
<1>6. CopyTypeOK(committed)' /\ CopyHolds(committed)'
  <2>1. CopyTypeOK(committed) /\ CopyHolds(committed)  BY DEF ExamplesInv
  <2>2. QED  BY <2>1, <1>1, SweptStays DEF CopyHolds, CopyTypeOK
<1>7. QED  BY <1>1, <1>3, <1>5, <1>6, DeveloperSteps

LEMMA ClaimKeeps ==
    ASSUME ExamplesInv, NEW x \in Pieces, NEW e \in Ids, Claim(e, x)
    PROVE  ExamplesInv'
<1>1. UNCHANGED <<present, active, block, committed, todo, example, taken, removed>>
      /\ x \in present \ {"core code"} /\ claims' = [claims EXCEPT ![e] = @ \cup {x}]
      /\ ~AtWork
  BY DEF Claim
<1>2. claims \in [Ids -> SUBSET Pieces]  BY DEF ExamplesInv, ExamplesTypeOK
<1>3. \A d \in Ids : claims'[d] = IF d = e THEN claims[d] \cup {x} ELSE claims[d]
  BY <1>1, <1>2
<1>4. ExamplesTypeOK'
  <2>1. claims' \in [Ids -> SUBSET Pieces]  BY <1>1, <1>2
  <2>2. QED  BY <1>1, <2>1 DEF ExamplesInv, ExamplesTypeOK
<1>5. CopyHolds(Copy)'
  <2>1. CopyHolds(Copy)  BY DEF ExamplesInv
  <2>2. "core code" \in present' \cup taken'  BY <2>1, <1>1 DEF CopyHolds, Copy
  <2>3. ASSUME NEW d \in Ids
        PROVE  /\ "core code" \notin claims'[d]
               /\ removed'[d] = {} => claims'[d] \subseteq present' \cup taken' \cup Swept'
    <3>1. /\ "core code" \notin claims[d]
          /\ removed[d] = {} => claims[d] \subseteq present \cup taken \cup Swept
      BY <2>1, <2>3 DEF CopyHolds, Copy
    <3>2. /\ claims'[d] = claims[d] \/ claims'[d] = claims[d] \cup {x}
          /\ x \in present /\ x # "core code"
          /\ removed' = removed /\ present' = present /\ taken' = taken /\ Swept' = Swept
      BY <1>1, <1>3, <2>3, SweptStays
    <3>3. QED  BY <3>1, <3>2
  <2>4. ASSUME NEW d \in Ids, d \notin active'
        PROVE  removed'[d] \cap present' = {} /\ \A f \in Shared : block'[f][d] = "absent"
    BY <2>1, <2>4, <1>1 DEF CopyHolds, Copy
  <2>5. QED  BY <2>2, <2>3, <2>4, SweptStays DEF CopyHolds, Copy
<1>6. CopyTypeOK(committed)' /\ CopyHolds(committed)'
  <2>1. CopyTypeOK(committed) /\ CopyHolds(committed)  BY DEF ExamplesInv
  <2>2. QED  BY <2>1, <1>1, SweptStays DEF CopyHolds, CopyTypeOK
<1>7. QED  BY <1>1, <1>4, <1>5, <1>6, DeveloperSteps

LEMMA CommitKeeps ==
    ASSUME ExamplesInv, Commit
    PROVE  ExamplesInv'
<1>1. UNCHANGED <<present, claims, active, block, todo, example, taken, removed>>
      /\ committed' = Copy /\ ~AtWork
  BY DEF Commit
<1>2. ExamplesTypeOK'  BY <1>1 DEF ExamplesInv, ExamplesTypeOK
<1>3. Copy' = Copy  BY <1>1 DEF Copy
<1>4. CopyHolds(Copy) /\ CopyTypeOK(Copy)
  BY DEF ExamplesInv, ExamplesTypeOK, CopyTypeOK, Copy
<1>5. CopyHolds(Copy)'  BY <1>1, <1>3, <1>4, SweptStays DEF CopyHolds
<1>6. CopyTypeOK(committed)' /\ CopyHolds(committed)'
  BY <1>1, <1>4, SweptStays DEF CopyHolds, CopyTypeOK
<1>7. QED  BY <1>1, <1>2, <1>5, <1>6, DeveloperSteps

LEMMA ResetKeeps ==
    ASSUME ExamplesInv, Reset
    PROVE  ExamplesInv'
<1>1. /\ UNCHANGED <<committed, todo, example, removed>> /\ ~AtWork
      /\ present' = committed.present /\ claims' = committed.claims
      /\ active' = committed.active /\ block' = committed.block
      /\ taken' = committed.taken
  BY DEF Reset
<1>2. CopyTypeOK(committed) /\ CopyHolds(committed)  BY DEF ExamplesInv
<1>3. ExamplesTypeOK'
  BY <1>1, <1>2 DEF ExamplesInv, ExamplesTypeOK, CopyTypeOK
<1>4. CopyHolds(Copy)'  BY <1>1, <1>2, SweptStays DEF CopyHolds, Copy
<1>5. CopyTypeOK(committed)' /\ CopyHolds(committed)'
  BY <1>1, <1>2, SweptStays DEF CopyHolds, CopyTypeOK
<1>6. QED  BY <1>1, <1>3, <1>4, <1>5, DeveloperSteps

-----------------------------------------------------------------------------
(* The tools.                                                              *)

LEMMA BeginRemovalKeeps ==
    ASSUME ExamplesInv, NEW e \in Ids, BeginRemoval(e)
    PROVE  ExamplesInv'
<1>1. /\ UNCHANGED <<present, claims, active, block, committed, taken>>
      /\ example' = e /\ todo' = RemovalPlan /\ e \in active
      /\ removed' = [removed EXCEPT ![e] = claims[e]]
      /\ Exclusive /\ committed = Copy
      /\ \A d \in Ids : claims[d] \subseteq present \cup Packages
  BY DEF BeginRemoval, Removable, Verified, Clean
<1>2. removed \in [Ids -> SUBSET Pieces] /\ claims \in [Ids -> SUBSET Pieces]
  BY DEF ExamplesInv, ExamplesTypeOK
<1>3. \A d \in Ids : removed'[d] = IF d = e THEN claims[d] ELSE removed[d]
  BY <1>1, <1>2
<1>4. ExamplesTypeOK'
  <2>1. removed' \in [Ids -> SUBSET Pieces]  BY <1>1, <1>2
  <2>2. QED  BY <1>1, <2>1 DEF ExamplesInv, ExamplesTypeOK
<1>5. CopyHolds(Copy)'
  <2>1. CopyHolds(Copy)  BY DEF ExamplesInv
  <2>2. ASSUME NEW d \in Ids, removed'[d] = {}
        PROVE  claims[d] \subseteq present \cup taken
    <3>1. CASE d = e  BY <3>1, <2>2, <1>3
    <3>2. CASE d # e
      <4>1. claims[d] \subseteq present \cup taken \cup Swept
        BY <3>2, <2>1, <2>2, <1>3 DEF CopyHolds, Copy
      <4>2. QED  BY <4>1, <2>2, <1>1, PackagesAreNotSwept
    <3>3. QED  BY <3>1, <3>2
  <2>3. ASSUME NEW d \in Ids
        PROVE  /\ "core code" \notin claims[d]
               /\ d \notin active =>
                    removed'[d] \cap present = {} /\ \A f \in Shared : block[f][d] = "absent"
    <3>1. d \notin active => removed'[d] = removed[d]  BY <1>1, <1>3, <2>3
    <3>2. QED  BY <2>1, <2>3, <3>1 DEF CopyHolds, Copy
  <2>4. "core code" \in present \cup taken  BY <2>1 DEF CopyHolds, Copy
  <2>5. QED  BY <2>2, <2>3, <2>4, <1>1 DEF CopyHolds, Copy
<1>6. CopyTypeOK(committed)' /\ CopyHolds(committed)'
  <2>1. CopyTypeOK(committed)  BY DEF ExamplesInv
  <2>2. Copy' = Copy  BY <1>1 DEF Copy
  <2>3. QED  BY <2>1, <2>2, <1>1, <1>5 DEF CopyHolds, CopyTypeOK
<1>7. ToolKnows'
  <2>1. Exclusive'  BY <1>1 DEF Exclusive
  <2>2. AtWork'  BY <1>1 DEF AtWork, Ids, NoExample
  <2>3. QED  BY <1>1, <1>3, <2>1, <2>2, PlansDiffer DEF ToolKnows, RemovalIsExact, Removals
<1>8. QED  BY <1>4, <1>5, <1>6, <1>7 DEF ExamplesInv

LEMMA BeginAdditionKeeps ==
    ASSUME ExamplesInv, NEW e \in Ids, BeginAddition(e)
    PROVE  ExamplesInv'
<1>1. /\ UNCHANGED <<present, claims, active, block, committed, taken, removed>>
      /\ example' = e /\ todo' = <<"splice">> /\ e \in active
  BY DEF BeginAddition
<1>2. ExamplesTypeOK'  BY <1>1 DEF ExamplesInv, ExamplesTypeOK
<1>3. CopyHolds(Copy)'
  <2>1. CopyHolds(Copy)  BY DEF ExamplesInv
  <2>2. QED  BY <2>1, <1>1, SweptStays DEF CopyHolds, Copy
<1>4. CopyTypeOK(committed)' /\ CopyHolds(committed)'
  <2>1. CopyTypeOK(committed) /\ CopyHolds(committed)  BY DEF ExamplesInv
  <2>2. QED  BY <2>1, <1>1, SweptStays DEF CopyHolds, CopyTypeOK
<1>5. ToolKnows'
  <2>1. AtWork'  BY <1>1 DEF AtWork, Ids, NoExample
  <2>2. QED  BY <1>1, <2>1, PlansDiffer DEF ToolKnows, RemovalIsExact, Removals
<1>6. QED  BY <1>2, <1>3, <1>4, <1>5 DEF ExamplesInv

LEMMA ToolEndsKeeps ==
    ASSUME ExamplesInv, ToolEnds
    PROVE  ExamplesInv'
<1>1. /\ UNCHANGED <<present, claims, active, block, committed, taken, removed>>
      /\ example' = NoExample /\ todo' = <<>>
  BY DEF ToolEnds
<1>2. ExamplesTypeOK'  BY <1>1 DEF ExamplesInv, ExamplesTypeOK
<1>3. CopyHolds(Copy)'
  <2>1. CopyHolds(Copy)  BY DEF ExamplesInv
  <2>2. QED  BY <2>1, <1>1, SweptStays DEF CopyHolds, Copy
<1>4. CopyTypeOK(committed)' /\ CopyHolds(committed)'
  <2>1. CopyTypeOK(committed) /\ CopyHolds(committed)  BY DEF ExamplesInv
  <2>2. QED  BY <2>1, <1>1, SweptStays DEF CopyHolds, CopyTypeOK
<1>5. ToolKnows'
  BY <1>1, PlansDiffer DEF ToolKnows, RemovalIsExact, Removals
<1>6. QED  BY <1>2, <1>3, <1>4, <1>5 DEF ExamplesInv

\* What is known before a write: an example is active, and what the tool has yet to do.
LEMMA BeforeWrite ==
    ASSUME ExamplesInv, WriteNext
    PROVE  /\ UNCHANGED <<committed, example, taken, removed>>
           /\ example \in Ids /\ example \in active /\ AtWork /\ AtWork'
           /\ \/ todo \in Removals /\ todo' = Tail(todo) /\ RemovalIsExact
              \/ todo = <<"splice">> /\ todo' = <<>>
           /\ DeleteOwned \/ CutBlock \/ EmptyManifest \/ Splice
<1>1. todo # <<>> /\ todo' = Tail(todo) /\ UNCHANGED <<committed, example, taken, removed>>
      /\ (DeleteOwned \/ CutBlock \/ EmptyManifest \/ Splice)
  BY DEF WriteNext
<1>2. ToolKnows  BY DEF ExamplesInv
<1>3. AtWork /\ AtWork'  BY <1>1, <1>2 DEF ToolKnows, AtWork
<1>4. example \in Ids  BY <1>3 DEF AtWork, ExamplesInv, ExamplesTypeOK
<1>5. example \in active  BY <1>1, <1>2 DEF ToolKnows, RemovalIsExact
<1>6. (todo \in Removals /\ RemovalIsExact) \/ todo = <<"splice">>  BY <1>1, <1>2 DEF ToolKnows
<1>7. QED  BY <1>1, <1>3, <1>4, <1>5, <1>6, PlanFacts

\* Which write the head of a removal stands for, and what it leaves to be done.
LEMMA Heads ==
    ASSUME todo \in Removals
    PROVE  /\ Head(todo) = "paths" => todo = RemovalPlan /\ Tail(todo) = Rest4
           /\ Head(todo) = "assembly" => todo = Rest4 /\ Tail(todo) = Rest3
           /\ Head(todo) = "views" => todo = Rest3 /\ Tail(todo) = Rest2
           /\ Head(todo) = "dependencies" => todo = Rest2 /\ Tail(todo) = Rest1
           /\ Head(todo) = "manifest" => todo = Rest1 /\ Tail(todo) = <<>>
           /\ Head(todo) # "splice"
BY PlanFacts DEF Removals

LEMMA DeletePathsKeeps ==
    ASSUME ExamplesInv, WriteNext, Head(todo) = "paths",
           present' = present \ AllWithin(claims[example] \ Packages),
           UNCHANGED <<claims, active, block>>
    PROVE  ExamplesInv'
<1>1. /\ UNCHANGED <<committed, example, taken, removed>> /\ example \in Ids /\ AtWork'
      /\ todo = RemovalPlan /\ todo' = Rest4 /\ RemovalIsExact
  BY BeforeWrite, Heads, PlanFacts
<1>2. /\ example \in active /\ removed[example] = claims[example] /\ Exclusive
  BY <1>1 DEF RemovalIsExact, Removals
<1>3. ExamplesTypeOK'  BY <1>1 DEF ExamplesInv, ExamplesTypeOK
<1>4. CopyHolds(Copy)'
  <2>1. CopyHolds(Copy)  BY DEF ExamplesInv
  <2>2. "core code" \in present' \cup taken'
    <3>1. "core code" \in present \cup taken /\ "core code" \notin claims[example] \ Packages
      BY <2>1, <1>1 DEF CopyHolds, Copy
    <3>2. QED  BY <3>1, <1>1, WithinIsApart
  <2>3. ASSUME NEW e \in Ids, removed[e] = {}
        PROVE  claims[e] \subseteq present' \cup taken \cup Swept
    <3>1. claims[e] \subseteq present \cup taken \cup Swept  BY <2>1, <2>3 DEF CopyHolds, Copy
    <3>2. claims[e] \cap claims[example] = {}
      BY <1>1, <1>2, <2>3 DEF Exclusive
    <3>3. AllWithin(claims[example] \ Packages) \ claims[example] \subseteq Swept
      BY <1>1, <1>2 DEF Swept
    <3>4. QED  BY <3>1, <3>2, <3>3
  <2>4. present' \subseteq present  OBVIOUS
  <2>5. QED  BY <2>1, <2>2, <2>3, <2>4, <1>1, SweptStays DEF CopyHolds, Copy
<1>5. CopyTypeOK(committed)' /\ CopyHolds(committed)'
  <2>1. CopyTypeOK(committed) /\ CopyHolds(committed)  BY DEF ExamplesInv
  <2>2. QED  BY <2>1, <1>1, SweptStays DEF CopyHolds, CopyTypeOK
<1>6. ToolKnows'
  <2>1. Exclusive'  BY <1>2 DEF Exclusive
  <2>2. present' \cap (claims[example] \ Packages) = {}  BY WithinIsApart
  <2>3. QED  BY <1>1, <1>2, <2>1, <2>2, PlansDiffer DEF ToolKnows, RemovalIsExact, Removals
<1>7. QED  BY <1>3, <1>4, <1>5, <1>6 DEF ExamplesInv

LEMMA DeletePackagesKeeps ==
    ASSUME ExamplesInv, WriteNext, Head(todo) = "dependencies",
           present' = present \ (claims[example] \cap Packages),
           UNCHANGED <<claims, active, block>>
    PROVE  ExamplesInv'
<1>1. /\ UNCHANGED <<committed, example, taken, removed>> /\ example \in Ids /\ AtWork'
      /\ todo = Rest2 /\ todo' = Rest1 /\ RemovalIsExact
  BY BeforeWrite, Heads, PlanFacts
<1>2. /\ example \in active /\ removed[example] = claims[example] /\ Exclusive
      /\ present \cap (claims[example] \ Packages) = {}
      /\ block["assembly"][example] = "absent" /\ block["views"][example] = "absent"
  BY <1>1, PlansDiffer DEF RemovalIsExact, Removals
<1>3. ExamplesTypeOK'  BY <1>1 DEF ExamplesInv, ExamplesTypeOK
<1>4. CopyHolds(Copy)'
  <2>1. CopyHolds(Copy)  BY DEF ExamplesInv
  <2>2. "core code" \in present' \cup taken'  BY <2>1, <1>1 DEF CopyHolds, Copy
  <2>3. ASSUME NEW e \in Ids, removed[e] = {}
        PROVE  claims[e] \subseteq present' \cup taken \cup Swept
    <3>1. claims[e] \subseteq present \cup taken \cup Swept  BY <2>1, <2>3 DEF CopyHolds, Copy
    <3>2. claims[e] \cap claims[example] = {}
      BY <1>1, <1>2, <2>3 DEF Exclusive
    <3>3. QED  BY <3>1, <3>2
  <2>4. QED  BY <2>1, <2>2, <2>3, <1>1, SweptStays DEF CopyHolds, Copy
<1>5. CopyTypeOK(committed)' /\ CopyHolds(committed)'
  <2>1. CopyTypeOK(committed) /\ CopyHolds(committed)  BY DEF ExamplesInv
  <2>2. QED  BY <2>1, <1>1, SweptStays DEF CopyHolds, CopyTypeOK
<1>6. ToolKnows'
  <2>1. Exclusive'  BY <1>2 DEF Exclusive
  <2>2. present' \cap claims[example] = {}  BY <1>2
  <2>3. QED  BY <1>1, <1>2, <2>1, <2>2, PlansDiffer DEF ToolKnows, RemovalIsExact, Removals
<1>7. QED  BY <1>3, <1>4, <1>5, <1>6 DEF ExamplesInv

LEMMA CutBlockKeeps ==
    ASSUME ExamplesInv, WriteNext, CutBlock
    PROVE  ExamplesInv'
<1>1. /\ UNCHANGED <<committed, example, taken, removed>> /\ example \in Ids /\ AtWork'
      /\ UNCHANGED <<present, claims, active>>
      /\ Head(todo) \in {"assembly", "views"}
      /\ block' = [block EXCEPT ![Head(todo)][example] = "absent"]
  BY BeforeWrite DEF CutBlock, Shared
<1>2. todo \in Removals /\ todo' = Tail(todo) /\ RemovalIsExact
  BY <1>1, BeforeWrite, PlanFacts
<1>3. \/ Head(todo) = "assembly" /\ todo = Rest4 /\ todo' = Rest3
      \/ Head(todo) = "views" /\ todo = Rest3 /\ todo' = Rest2
  BY <1>1, <1>2, Heads
<1>4. /\ example \in active /\ removed[example] = claims[example] /\ Exclusive
      /\ present \cap (claims[example] \ Packages) = {}
      /\ todo = Rest3 => block["assembly"][example] = "absent"
  BY <1>2, <1>3, PlansDiffer DEF RemovalIsExact, Removals
<1>5. block \in [Shared -> [Ids -> {"absent", "intact", "broken"}]]
  BY DEF ExamplesInv, ExamplesTypeOK
<1>6. /\ block' \in [Shared -> [Ids -> {"absent", "intact", "broken"}]]
      /\ \A f \in Shared, e \in Ids :
            block'[f][e] = IF f = Head(todo) /\ e = example THEN "absent" ELSE block[f][e]
  BY <1>1, <1>5 DEF Shared
<1>7. ExamplesTypeOK'  BY <1>1, <1>6 DEF ExamplesInv, ExamplesTypeOK
<1>8. CopyHolds(Copy)'
  <2>1. CopyHolds(Copy)  BY DEF ExamplesInv
  <2>2. \A f \in Shared, e \in Ids : block[f][e] = "absent" => block'[f][e] = "absent"
    BY <1>6
  <2>3. QED  BY <2>1, <2>2, <1>1, SweptStays DEF CopyHolds, Copy
<1>9. CopyTypeOK(committed)' /\ CopyHolds(committed)'
  <2>1. CopyTypeOK(committed) /\ CopyHolds(committed)  BY DEF ExamplesInv
  <2>2. QED  BY <2>1, <1>1, SweptStays DEF CopyHolds, CopyTypeOK
<1>10. ToolKnows'
  <2>1. Exclusive'  BY <1>1, <1>4 DEF Exclusive
  <2>2. block'["assembly"][example] = "absent"
    BY <1>1, <1>3, <1>4, <1>6 DEF Shared
  <2>3. todo' = Rest2 => block'["views"][example] = "absent"
    BY <1>1, <1>3, <1>6, PlansDiffer DEF Shared
  <2>4. QED
    BY <1>1, <1>3, <1>4, <2>1, <2>2, <2>3, PlansDiffer
       DEF ToolKnows, RemovalIsExact, Removals
<1>11. QED  BY <1>7, <1>8, <1>9, <1>10 DEF ExamplesInv

LEMMA EmptyManifestKeeps ==
    ASSUME ExamplesInv, WriteNext, EmptyManifest
    PROVE  ExamplesInv'
<1>1. /\ UNCHANGED <<committed, example, taken, removed>> /\ example \in Ids
      /\ UNCHANGED <<present, block>> /\ Head(todo) = "manifest"
      /\ claims' = [claims EXCEPT ![example] = {}]
      /\ active' = active \ {example}
  BY BeforeWrite DEF EmptyManifest
<1>2. todo = Rest1 /\ todo' = <<>> /\ RemovalIsExact
  BY <1>1, BeforeWrite, Heads, PlanFacts
<1>3. /\ removed[example] = claims[example] /\ present \cap claims[example] = {}
      /\ block["assembly"][example] = "absent" /\ block["views"][example] = "absent"
  BY <1>2 DEF RemovalIsExact, Removals
<1>4. claims \in [Ids -> SUBSET Pieces]  BY DEF ExamplesInv, ExamplesTypeOK
<1>5. \A e \in Ids : claims'[e] = IF e = example THEN {} ELSE claims[e]  BY <1>1, <1>4
<1>6. ExamplesTypeOK'
  <2>1. claims' \in [Ids -> SUBSET Pieces]  BY <1>1, <1>4
  <2>2. QED  BY <1>1, <2>1 DEF ExamplesInv, ExamplesTypeOK
<1>7. CopyHolds(Copy)'
  <2>1. CopyHolds(Copy)  BY DEF ExamplesInv
  <2>2. "core code" \in present' \cup taken'  BY <2>1, <1>1 DEF CopyHolds, Copy
  <2>3. ASSUME NEW e \in Ids
        PROVE  /\ "core code" \notin claims'[e]
               /\ removed[e] = {} => claims'[e] \subseteq present \cup taken \cup Swept
    BY <2>1, <1>5, SweptStays DEF CopyHolds, Copy
  <2>4. ASSUME NEW e \in Ids, e \notin active'
        PROVE  removed[e] \cap present = {} /\ \A f \in Shared : block[f][e] = "absent"
    <3>1. CASE e = example  BY <3>1, <1>3 DEF Shared
    <3>2. CASE e # example  BY <3>2, <2>1, <2>4, <1>1 DEF CopyHolds, Copy
    <3>3. QED  BY <3>1, <3>2
  <2>5. QED  BY <2>2, <2>3, <2>4, <1>1, SweptStays DEF CopyHolds, Copy
<1>8. CopyTypeOK(committed)' /\ CopyHolds(committed)'
  <2>1. CopyTypeOK(committed) /\ CopyHolds(committed)  BY DEF ExamplesInv
  <2>2. QED  BY <2>1, <1>1, SweptStays DEF CopyHolds, CopyTypeOK
<1>9. ToolKnows'  BY <1>2, PlansDiffer DEF ToolKnows, RemovalIsExact, Removals
<1>10. QED  BY <1>6, <1>7, <1>8, <1>9 DEF ExamplesInv

LEMMA SpliceKeeps ==
    ASSUME ExamplesInv, WriteNext, Splice
    PROVE  ExamplesInv'
<1>1. /\ UNCHANGED <<committed, example, taken, removed>> /\ example \in active
      /\ UNCHANGED <<present, claims, active>> /\ Head(todo) = "splice"
      /\ block' = [f \in Shared |-> [e \in Ids |->
            IF e = example /\ f \in Unregistered(e) THEN "intact" ELSE block[f][e]]]
  BY BeforeWrite DEF Splice
<1>2. todo' = <<>>  BY <1>1, BeforeWrite, Heads
<1>3. block \in [Shared -> [Ids -> {"absent", "intact", "broken"}]]
  BY DEF ExamplesInv, ExamplesTypeOK
<1>4. block' \in [Shared -> [Ids -> {"absent", "intact", "broken"}]]  BY <1>1, <1>3
<1>5. \A f \in Shared, e \in Ids : e # example => block'[f][e] = block[f][e]  BY <1>1
<1>6. ExamplesTypeOK'  BY <1>1, <1>4 DEF ExamplesInv, ExamplesTypeOK
<1>7. CopyHolds(Copy)'
  <2>1. CopyHolds(Copy)  BY DEF ExamplesInv
  <2>2. QED  BY <2>1, <1>1, <1>5, SweptStays DEF CopyHolds, Copy
<1>8. CopyTypeOK(committed)' /\ CopyHolds(committed)'
  <2>1. CopyTypeOK(committed) /\ CopyHolds(committed)  BY DEF ExamplesInv
  <2>2. QED  BY <2>1, <1>1, SweptStays DEF CopyHolds, CopyTypeOK
<1>9. ToolKnows'  BY <1>2, PlansDiffer DEF ToolKnows, RemovalIsExact, Removals
<1>10. QED  BY <1>6, <1>7, <1>8, <1>9 DEF ExamplesInv

LEMMA ExamplesStepInv ==
    ASSUME ExamplesInv, [ExamplesNext]_exampleVars
    PROVE  ExamplesInv'
<1>1. CASE UNCHANGED exampleVars
  <2>1. /\ UNCHANGED <<present, claims, active, block, committed, todo>>
        /\ UNCHANGED <<example, taken, removed>>
    BY <1>1 DEF exampleVars
  <2>2. ExamplesTypeOK'  BY <2>1 DEF ExamplesInv, ExamplesTypeOK
  <2>3. CopyHolds(Copy)'
    <3>1. CopyHolds(Copy)  BY DEF ExamplesInv
    <3>2. QED  BY <2>1, <3>1, SweptStays DEF CopyHolds, Copy
  <2>4. CopyTypeOK(committed)' /\ CopyHolds(committed)'
    <3>1. CopyTypeOK(committed) /\ CopyHolds(committed)  BY DEF ExamplesInv
    <3>2. QED  BY <2>1, <3>1, SweptStays DEF CopyHolds, CopyTypeOK
  <2>5. ToolKnows'
    <3>1. ToolKnows  BY DEF ExamplesInv
    <3>2. QED  BY <2>1, <3>1 DEF ToolKnows, RemovalIsExact, Exclusive, AtWork
  <2>6. QED  BY <2>2, <2>3, <2>4, <2>5 DEF ExamplesInv
<1>2. ASSUME NEW x \in Pieces, DeleteThing(x)
      PROVE  ExamplesInv'
  BY <1>2, DeleteThingKeeps
<1>3. ASSUME NEW x \in Pieces, NEW e \in Ids, Claim(e, x)
      PROVE  ExamplesInv'
  BY <1>3, ClaimKeeps
<1>4. ASSUME NEW f \in Shared, NEW e \in Ids, Restructure(f, e)
      PROVE  ExamplesInv'
  BY <1>4, RestructureKeeps
<1>5. ASSUME NEW e \in Ids, BeginRemoval(e)
      PROVE  ExamplesInv'
  BY <1>5, BeginRemovalKeeps
<1>6. ASSUME NEW e \in Ids, BeginAddition(e)
      PROVE  ExamplesInv'
  BY <1>6, BeginAdditionKeeps
<1>7. CASE WriteNext
  <2>1. DeleteOwned \/ CutBlock \/ EmptyManifest \/ Splice  BY <1>7, BeforeWrite
  <2>2. CASE DeleteOwned
    BY <1>7, <2>2, DeletePathsKeeps, DeletePackagesKeeps DEF DeleteOwned
  <2>3. QED  BY <1>7, <2>1, <2>2, CutBlockKeeps, EmptyManifestKeeps, SpliceKeeps
<1>8. QED
  BY <1>1, <1>2, <1>3, <1>4, <1>5, <1>6, <1>7, CommitKeeps, ResetKeeps, ToolEndsKeeps
     DEF ExamplesNext

LEMMA ExamplesInvIsApart == ExamplesInv => ExamplesAreApart
BY DEF ExamplesInv, CopyHolds, Copy, ExamplesAreApart, OthersUntouched, NothingLeftBehind

-----------------------------------------------------------------------------
(* The assembly of an app.                                                 *)

LEMMA FirstIsLeast ==
    ASSUME NEW S, S \subseteq Nat, S # {}
    PROVE  First(S) \in S /\ \A j \in S : First(S) <= j
<1> DEFINE R == OpToRel(<, Nat)
<1>1. R = {pair \in Nat \X Nat : pair[1] < pair[2]}
    BY DEF OpToRel
<1>2. IsWellFoundedOn(R, Nat)
    BY NatLessThanWellFounded
<1> HIDE DEF R
<1>3. PICK x \in S : \A y \in S : ~(<<y, x>> \in R)
    BY <1>2, WFMin
<1>4. ASSUME NEW y \in S PROVE x <= y
    <2>1. x \in Nat /\ y \in Nat
        OBVIOUS
    <2>2. <<y, x>> \notin {pair \in Nat \X Nat : pair[1] < pair[2]}
        BY <1>1, <1>3
    <2>3. ~(y < x)
        BY <2>1, <2>2
    <2>4. QED
        BY <2>1, <2>3
<1>5. QED
    BY <1>4 DEF First

LEMMA FirstIs ==
    ASSUME NEW S, S \subseteq Nat, NEW i \in S, \A j \in S : i <= j
    PROVE  First(S) = i
<1>1. First(S) \in S /\ First(S) <= i
    BY FirstIsLeast
<1>2. i <= First(S) /\ i \in Nat /\ First(S) \in Nat
    BY <1>1
<1> HIDE DEF First
<1>3. QED
    BY <1>1, <1>2

AssemblyInv == registered \in Seq(Contributions)

LEMMA AssemblyInitInv == AssemblyInit => AssemblyInv
BY DEF AssemblyInit, AssemblyInv

LEMMA AssemblyStepInv == AssemblyInv /\ [AssemblyNext]_registered => AssemblyInv'
BY DEF AssemblyInv, AssemblyNext, RegisterExample

\* What is left of a list without one of its members: the others in their order.
From(i, j) == IF j < i THEN j ELSE j + 1

LEMMA Without ==
    ASSUME NEW S, NEW list \in Seq(S), NEW i \in 1..Len(list)
    PROVE  /\ Len(list) \in Nat /\ Len(Ext!RemoveAt(list, i)) = Len(list) - 1
           /\ Len(list) - 1 \in Nat
           /\ \A j \in 1..(Len(list) - 1) :
                From(i, j) \in 1..Len(list) /\ Ext!RemoveAt(list, i)[j] = list[From(i, j)]
           /\ \A j \in 1..Len(list) : j # i => \E k \in 1..(Len(list) - 1) : From(i, k) = j
           /\ \A j, k \in 1..(Len(list) - 1) : j < k <=> From(i, j) < From(i, k)
<1> DEFINE n == Len(list)
           s == SubSeq(list, 1, i - 1)
           t == SubSeq(list, i + 1, n)
<1>1. n \in Nat /\ i \in 1..n /\ n - 1 \in Nat
    OBVIOUS
<1>2. Len(s) = i - 1 /\ \A j \in 1..(i - 1) : s[j] = list[j]
    OBVIOUS
<1>3. Len(t) = n - i /\ \A j \in 1..(n - i) : t[j] = list[j + i]
    OBVIOUS
<1>4. s \in Seq(S) /\ t \in Seq(S)
    OBVIOUS
<1>5. Ext!RemoveAt(list, i) = s \o t
    BY DEF Ext!RemoveAt
<1> HIDE DEF s, t, n
<1>6. Len(s \o t) = n - 1
    <2>1. Len(s \o t) = Len(s) + Len(t)
        BY <1>4
    <2>2. QED
        BY <1>1, <1>2, <1>3, <2>1
<1>7. ASSUME NEW j \in 1..(n - 1)
      PROVE  From(i, j) \in 1..n /\ (s \o t)[j] = list[From(i, j)]
    <2>1. CASE j < i
        <3>1. j \in 1..Len(s) /\ From(i, j) = j
            BY <1>1, <1>2, <2>1 DEF From
        <3>2. (s \o t)[j] = s[j]
            BY <1>4, <3>1
        <3>3. QED
            BY <1>1, <1>2, <2>1, <3>1, <3>2
    <2>2. CASE ~(j < i)
        <3>1. j - Len(s) \in 1..Len(t) /\ From(i, j) = j + 1
            BY <1>1, <1>2, <1>3, <2>2 DEF From
        <3>2. (s \o t)[j] = t[j - Len(s)]
            BY <1>1, <1>2, <1>3, <1>4, <2>2, <3>1
        <3>3. (j - Len(s)) + i = j + 1
            BY <1>1, <1>2
        <3>4. QED
            BY <1>1, <1>3, <2>2, <3>1, <3>2, <3>3
    <2>3. QED
        BY <2>1, <2>2
<1>8. ASSUME NEW j \in 1..n, j # i
      PROVE  \E k \in 1..(n - 1) : From(i, k) = j
    <2>1. CASE j < i
        <3>1. j \in 1..(n - 1) /\ From(i, j) = j
            BY <1>1, <2>1 DEF From
        <3>2. QED
            BY <3>1
    <2>2. CASE ~(j < i)
        <3>1. j - 1 \in 1..(n - 1) /\ From(i, j - 1) = j
            BY <1>1, <1>8, <2>2 DEF From
        <3>2. QED
            BY <3>1
    <2>3. QED
        BY <2>1, <2>2
<1>9. \A j, k \in 1..(n - 1) : j < k <=> From(i, j) < From(i, k)
    BY <1>1 DEF From
<1>10. QED
    BY <1>1, <1>5, <1>6, <1>7, <1>8, <1>9 DEF n

\* Which routes have been seen before an index.
LEMMA Seen ==
    ASSUME NEW list, NEW i, NEW r
    PROVE  r \in SeenBefore(list, i) <=> \E j \in 1..(i - 1) : r \in Routes(list[j])
BY DEF SeenBefore

\* An app that is accepted stays so without one of its examples, into whose routes no other's
\* navigation leads.
LEMMA LeftIsAccepted ==
    ASSUME NEW list \in Seq(Contributions), NEW i \in 1..Len(list), Accepted(list),
           NEW left, left = Ext!RemoveAt(list, i),
           \A j \in 1..Len(left) : left[j].navigation = NoPath
                                       \/ Normal(left[j].navigation) \notin Routes(list[i])
    PROVE  Accepted(left)
<1> DEFINE n == Len(list)
<1>1. /\ n \in Nat /\ Len(left) = n - 1 /\ n - 1 \in Nat
      /\ \A j \in 1..(n - 1) : From(i, j) \in 1..n /\ left[j] = list[From(i, j)]
      /\ \A j \in 1..n : j # i => \E k \in 1..(n - 1) : From(i, k) = j
      /\ \A j, k \in 1..(n - 1) : j < k <=> From(i, j) < From(i, k)
    BY Without, ZenonT(60)
<1> HIDE DEF n
<1> SUFFICES ASSUME NEW j \in 1..(n - 1)
             PROVE  Validated(left, j)
    BY <1>1 DEF Accepted
<1>2. Validated(list, From(i, j)) /\ left[j] = list[From(i, j)] /\ From(i, j) \in 1..n /\ j \in Nat
    BY <1>1 DEF Accepted, n
<1> DEFINE e == left[j]
<1>3. /\ Routes(e) \cap CoreRoutes = {}
      /\ Routes(e) \cap SeenBefore(list, From(i, j)) = {}
      /\ \A p, q \in e.routes : p # q => Normal(p) # Normal(q)
      /\ e.navigation # NoPath => Normal(e.navigation) \in SeenBefore(list, From(i, j) + 1)
      /\ e.entry # NoPath => Own(e.entry, e)
      /\ e.icon # NoPath => Own(e.icon, e)
    BY <1>2 DEF Validated
<1>4. ASSUME NEW r \in SeenBefore(left, j)
      PROVE  r \in SeenBefore(list, From(i, j))
    <2>1. PICK k \in 1..(j - 1) : r \in Routes(left[k])
        BY Seen
    <2>2. k \in 1..(n - 1) /\ k < j
        BY <1>1, <1>2
    <2>3. From(i, k) < From(i, j) /\ From(i, k) \in 1..n /\ left[k] = list[From(i, k)]
        BY <1>1, <2>2
    <2>4. From(i, k) \in 1..(From(i, j) - 1)
        BY <1>1, <1>2, <2>3
    <2>5. QED
        BY <2>1, <2>3, <2>4, Seen
<1>5. ASSUME e.navigation # NoPath
      PROVE  Normal(e.navigation) \in SeenBefore(left, j + 1)
    <2>1. PICK k \in 1..((From(i, j) + 1) - 1) : Normal(e.navigation) \in Routes(list[k])
        BY <1>3, <1>5, Seen
    <2>2. k \in 1..n /\ k <= From(i, j) /\ k # i
        BY <1>1, <1>2, <1>5, <2>1
    <2>3. PICK m \in 1..(n - 1) : From(i, m) = k
        BY <1>1, <2>2
    <2>4. ~(From(i, j) < From(i, m))
        BY <1>1, <1>2, <2>2, <2>3
    <2>5. ~(j < m)
        BY <1>1, <2>4
    <2>6. m \in 1..((j + 1) - 1)
        BY <1>1, <1>2, <2>5
    <2>7. QED
        BY <1>1, <2>1, <2>3, <2>6, Seen
<1>6. QED
    BY <1>3, <1>4, <1>5 DEF Validated

\* The first entry that is declared stays the first, unless it is the lost example's.
LEMMA LeftHasEntry ==
    ASSUME NEW list \in Seq(Contributions), NEW i \in 1..Len(list), Accepted(list),
           NEW left, left = Ext!RemoveAt(list, i),
           DefaultEntry(list) \notin Routes(list[i])
    PROVE  DefaultEntry(left) = DefaultEntry(list)
<1> DEFINE n == Len(list)
           before == Declared(list)
           after == Declared(left)
<1>1. /\ n \in Nat /\ Len(left) = n - 1 /\ n - 1 \in Nat
      /\ \A j \in 1..(n - 1) : From(i, j) \in 1..n /\ left[j] = list[From(i, j)]
      /\ \A j \in 1..n : j # i => \E k \in 1..(n - 1) : From(i, k) = j
      /\ \A j, k \in 1..(n - 1) : j < k <=> From(i, j) < From(i, k)
    BY Without, ZenonT(60)
<1> HIDE DEF n
<1>2. /\ \A j : j \in before <=> j \in 1..n /\ list[j].entry # NoPath
      /\ \A j : j \in after <=> j \in 1..(n - 1) /\ list[From(i, j)].entry # NoPath
    BY <1>1 DEF Declared, n
<1>3. before \subseteq Nat /\ after \subseteq Nat
    BY <1>1, <1>2
<1> HIDE DEF before, after
<1>4. CASE before = {}
    <2>1. after = {}
        BY <1>1, <1>2, <1>4
    <2>2. QED
        BY <1>4, <2>1 DEF DefaultEntry, before, after
<1>5. CASE before # {}
    <2> DEFINE f == First(before)
    <2>1. f \in before /\ \A j \in before : f <= j
        BY <1>3, <1>5, FirstIsLeast
    <2>2. f \in 1..n /\ list[f].entry # NoPath /\ DefaultEntry(list) = Normal(list[f].entry)
        BY <1>2, <1>5, <2>1 DEF DefaultEntry, before
    <2>3. Normal(list[f].entry) \in Routes(list[f])
        <3>1. Validated(list, f)
            BY <2>2 DEF Accepted, n
        <3>2. QED
            BY <2>2, <3>1 DEF Validated, Own
    <2>4. f # i
        BY <2>2, <2>3
    <2> HIDE DEF f
    <2>5. PICK k \in 1..(n - 1) : From(i, k) = f
        BY <1>1, <2>2, <2>4
    <2>6. k \in after
        BY <1>2, <2>2, <2>5
    <2>7. ASSUME NEW j \in after PROVE k <= j
        <3>1. j \in 1..(n - 1) /\ From(i, j) \in before
            BY <1>1, <1>2, <2>7
        <3>2. ~(From(i, j) < From(i, k))
            BY <1>1, <1>3, <2>1, <2>2, <2>5, <3>1
        <3>3. ~(j < k)
            BY <1>1, <3>1, <3>2
        <3>4. QED
            BY <3>1, <3>3
    <2>8. First(after) = k
        BY <1>3, <2>6, <2>7, FirstIs
    <2>9. DefaultEntry(left) = Normal(left[k].entry) /\ left[k] = list[f]
        BY <1>1, <2>5, <2>6, <2>8 DEF DefaultEntry, after
    <2>10. QED
        BY <2>2, <2>9
<1>6. QED
    BY <1>4, <1>5

LEMMA EntryIsSeen ==
    ASSUME NEW list \in Seq(Contributions), Accepted(list), DefaultEntry(list) # NoPath
    PROVE  DefaultEntry(list) \in SeenBefore(list, Len(list) + 1)
<1> DEFINE n == Len(list)
           f == First(Declared(list))
<1>1. n \in Nat /\ Declared(list) # {} /\ Declared(list) \subseteq Nat
    BY DEF DefaultEntry, Declared
<1>2. f \in Declared(list)
    BY <1>1, FirstIsLeast
<1>3. f \in 1..n /\ list[f].entry # NoPath /\ DefaultEntry(list) = Normal(list[f].entry)
    BY <1>1, <1>2 DEF DefaultEntry, Declared
<1>4. Validated(list, f)
    BY <1>3 DEF Accepted
<1>5. DefaultEntry(list) \in Routes(list[f])
    BY <1>3, <1>4 DEF Validated, Own
<1>6. f \in 1..((n + 1) - 1)
    BY <1>1, <1>3
<1> HIDE DEF n, f
<1>7. QED
    BY <1>5, <1>6, Seen DEF n

LEMMA AssemblyIsSound == AssemblyInv => AssemblyHolds
<1> SUFFICES ASSUME AssemblyInv, Accepted(registered) PROVE AssemblyHolds
    BY DEF AssemblyHolds
<1>1. registered \in Seq(Contributions)
    BY DEF AssemblyInv
<1>2. DefaultEntry(registered) # NoPath =>
        DefaultEntry(registered) \in SeenBefore(registered, Len(registered) + 1)
    BY <1>1, EntryIsSeen
<1>3. ASSUME NEW i \in 1..Len(registered), NEW left, left = Ext!RemoveAt(registered, i)
      PROVE  /\ (\A j \in 1..Len(left) : left[j].navigation = NoPath
                    \/ Normal(left[j].navigation) \notin Routes(registered[i])) => Accepted(left)
             /\ DefaultEntry(registered) \notin Routes(registered[i]) =>
                    DefaultEntry(left) = DefaultEntry(registered)
    BY <1>1, <1>3, LeftIsAccepted, LeftHasEntry
<1>4. QED
    BY <1>2, <1>3 DEF AssemblyHolds

-----------------------------------------------------------------------------
(* All parts.                                                              *)

OperationsInv ==
    /\ ProductionInv /\ LeaseInv /\ RateInv
    /\ AlertsInv /\ DevInv /\ CourseInv /\ CreatorInv /\ ExamplesInv /\ AssemblyInv

LEMMA OperationsInitInv == Init => OperationsInv
<1> SUFFICES ASSUME Init PROVE OperationsInv
    OBVIOUS
<1>1. /\ ProductionInit /\ AlertsInit /\ RateInit /\ LeaseInit
      /\ DevInit /\ CourseInit /\ CreatorInit /\ ExamplesInit /\ AssemblyInit
    BY DEF Init
<1>2. QED
    BY <1>1, ProductionInitInv, AlertsInitInv, RateInitInv, LeaseInitInv, DevInitInv,
       CourseInitInv, CreatorInitInv, ExamplesInitInv, AssemblyInitInv DEF OperationsInv

\* A step of one part is a stutter of every other.
LEMMA PartSteps ==
    ASSUME [Next]_vars
    PROVE  /\ [ProductionNext]_prodVars /\ [AlertsNext]_alertVars /\ [RateNext]_rateVars
           /\ [LeaseNext]_leaseVars /\ [DevNext]_devVars /\ [CourseNext]_courseVars
           /\ [CreatorNext]_creatorVars /\ [ExamplesNext]_exampleVars /\ [AssemblyNext]_registered
<1>1. CASE UNCHANGED vars
    BY <1>1 DEF vars
<1>2. CASE OnProduction
    BY <1>2 DEF OnProduction, limitVars, scriptVars
<1>3. CASE OnAlerts
    BY <1>3 DEF OnAlerts, scriptVars
<1>4. CASE OnLimits
    BY <1>4 DEF OnLimits, scriptVars
<1>5. CASE OnLease
    BY <1>5 DEF OnLease, scriptVars
<1>6. CASE OnRigs
    BY <1>6 DEF OnRigs, limitVars
<1>7. CASE OnDev
    BY <1>7 DEF OnDev, limitVars
<1>8. CASE OnCourse
    BY <1>8 DEF OnCourse, limitVars
<1>9. CASE OnCreator
    BY <1>9 DEF OnCreator, limitVars
<1>10. CASE OnExamples
    BY <1>10 DEF OnExamples, limitVars
<1>11. CASE OnAssembly
    BY <1>11 DEF OnAssembly, limitVars
<1>12. QED
    BY <1>1, <1>2, <1>3, <1>4, <1>5, <1>6, <1>7, <1>8, <1>9, <1>10, <1>11 DEF Next

LEMMA OperationsStepInv == OperationsInv /\ [Next]_vars => OperationsInv'
BY PartSteps, ProductionStepInv, AlertsStepInv, RateStepInv, LeaseStepInv, DevStepInv,
   CourseStepInv, CreatorStepInv, ExamplesStepInv, AssemblyStepInv DEF OperationsInv

LEMMA OperationsInvHolds == Spec => []OperationsInv
BY OperationsInitInv, OperationsStepInv, PTL DEF Spec

\* However the services and users of a deployment go on while a backup is taken and restored,
\* an archive that is reported whole has every object its rows call for, and a deployment that
\* was restored and found good has them too, but for objects whose archived bytes were exchanged
\* for others of the same size, which the restore does not compare.
THEOREM BackupsCorrect == Spec => []BackupsHold
<1>1. OperationsInv => BackupsHold
    BY BackupsAreSound DEF OperationsInv
<1>2. QED
    BY <1>1, OperationsInvHolds, PTL

\* Whatever the workers, scrapes, gaps and overtaking between them, an incident is open exactly
\* when the observations since the rule last changed end in a sustained breach with no good
\* sample after it.
THEOREM IncidentsCorrect == Spec => []IncidentIsSustained
<1>1. OperationsInv => IncidentIsSustained
    BY DEF OperationsInv, AlertsInv
<1>2. QED
    BY <1>1, OperationsInvHolds, PTL

\* Under every policy that from_env accepts, however long claims and heartbeats take, the
\* handler is gone when its lease runs out, up to what the claim took before the first renewal.
THEOREM DroppedCorrect == Spec => []DroppedInTime
<1>1. OperationsInv => DroppedInTime
    BY LeaseInvIsInTime DEF OperationsInv
<1>2. QED
    BY <1>1, OperationsInvHolds, PTL

\* However requests overtake each other and Redis fails, a client is let through no more often
\* in a window than the limit of Redis and that of the process allow.
THEOREM BudgetCorrect == Spec => []WithinBudget
<1>1. OperationsInv => WithinBudget
    BY RateInvIsInBudget DEF OperationsInv
<1>2. QED
    BY <1>1, OperationsInvHolds, PTL

\* For any containers, moves of other programs and changes of the sources, just dev migrates
\* only a database that is its own, launches only the latest api and worker, and leaves no
\* process of its own behind.
THEOREM DevCorrect == Spec => []DevKeepsToItself
<1>1. OperationsInv => DevKeepsToItself
    BY DevIsSound DEF OperationsInv
<1>2. QED
    BY <1>1, OperationsInvHolds, PTL

\* However setups of a copy of the course die, the repository moves on and the learner writes
\* in between, nothing of the learner's is lost, each migration is there once and in order, and
\* the receipt tells the truth while no setup has died.
THEOREM CourseCorrect == Spec => []CourseIsKept
<1>1. OperationsInv => CourseIsKept
    BY CourseIsSound DEF OperationsInv
<1>2. QED
    BY <1>1, OperationsInvHolds, PTL

\* Any number of creators, killed at any step, never report two projects that share a port.
THEOREM PortsCorrect == Spec => []PortsAreApart
<1>1. OperationsInv => PortsAreApart
    BY DEF OperationsInv, CreatorInv
<1>2. QED
    BY <1>1, OperationsInvHolds, PTL

\* However long the developer deletes, claims, restructures, commits and checks out between
\* removals and additions that may die at any write: removing one example takes nothing of
\* Core, and of another only what that one claims inside a directory of the example; what is
\* gone has left nothing.
THEOREM ExamplesCorrect == Spec => []ExamplesAreApart
<1>1. OperationsInv => ExamplesAreApart
    BY ExamplesInvIsApart DEF OperationsInv
<1>2. QED
    BY <1>1, OperationsInvHolds, PTL

\* Any number of examples: the default entry of an accepted app is a route of it, and without
\* an example nobody's navigation leads into the app is accepted still and keeps its entry.
THEOREM AssemblyCorrect == Spec => []AssemblyHolds
<1>1. OperationsInv => AssemblyHolds
    BY AssemblyIsSound DEF OperationsInv
<1>2. QED
    BY <1>1, OperationsInvHolds, PTL

\* What is made of the template stays apart: the three results above together.
THEOREM ProductsCorrect == Spec => []ProductsAreApart
<1>1. PortsAreApart /\ ExamplesAreApart /\ AssemblyHolds => ProductsAreApart
    BY DEF ProductsAreApart
<1>2. QED
    BY <1>1, PortsCorrect, ExamplesCorrect, AssemblyCorrect, PTL
=============================================================================
