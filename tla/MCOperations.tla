---------------------------- MODULE MCOperations ----------------------------
(* The instance of Operations for TLC.  A state is looked at without the   *)
(* parts that rest, and files are interchangeable.                         *)
EXTENDS Operations, TLC

Interchangeable == Permutations(Files)

BackupEnded == backup.at \in {"passed", "failed"}

\* A bound: once the backup has ended production bears on the restore only by what is sent
\* to it astray, and by being up or down.
ProductionRests ==
    restore' = restore =>
        /\ row'["production"] = row["production"]
        /\ object'["production"] = object["production"]
        /\ service'["production"] \in {service["production"], Down, [s \in Services |-> "running"]}

\* A bound: the deployment of a restore that fails is thrown away by the next one, so its
\* users leave it alone.
RestoredRests ==
    /\ restore' = restore /\ restore.at = "failed" =>
           row'["restored"] = row["restored"] /\ object'["restored"] = object["restored"]
    /\ restore' # restore /\ restore'.at = "failed" => row["restored"] \in {Nothing, archive.rows}

\* A bound: nothing is promised of a restore that has sent objects astray, so it fails.
AstrayFails == restore' # restore /\ restore'.astray => restore'.at \in {"put", "failed"}

\* The bounds of the parts; nothing is promised of an app that is refused.
Bounds ==
    CASE part = "production" -> BackupEnded => ProductionRests /\ RestoredRests /\ AstrayFails
      [] part = "assembly" -> Accepted(registered')
      [] OTHER -> TRUE

\* Production is out of reach once the backup has ended and the origin leads elsewhere.
Reached ==
    IF BackupEnded /\ entrance = "restored"
    THEN <<row["restored"], object["restored"], service["restored"], backup, archive, restore>>
    ELSE prodVars

\* What a state of the part at work is known by; the other parts stay as they start.
LookedAt ==
    <<part,
      CASE part = "production" -> Reached
        [] part = "alerts" -> alertVars
        [] part = "limits" -> rateVars
        [] part = "lease" -> leaseVars
        [] part = "rigs" -> rigVars
        [] part = "dev" -> devVars
        [] part = "course" -> courseVars
        [] part = "creator" -> creatorVars
        [] part = "examples" -> exampleVars
        [] part = "assembly" -> registered>>
=============================================================================
