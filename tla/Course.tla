------------------------------- MODULE Course -------------------------------
(***************************************************************************)
(* A copy of the course (scripts/tutorial-course.mjs).  Each checkpoint is *)
(* set up in the same copy, over what the learner has written there        *)
(* meanwhile; the script may die between any two files, and the repository *)
(* it installs from may move on.  A receipt in the copy says what was      *)
(* installed.  The learner does not write while the script does.           *)
(***************************************************************************)
EXTENDS Naturals, Sequences

CONSTANTS
    MaxEdits,       \* bounds what the learner writes
    MaxReleases     \* bounds how often the repository changes

ASSUME CourseAssumption == MaxEdits \in Nat /\ MaxReleases \in Nat \ {0}

VARIABLES
    code, schema,   \* the versions of the checkpoints and of their migrations
    file,           \* the content of every file of the copy the course manages
    ledger,         \* the migrations of the copy in order
    receipt,        \* what the copy says was installed
    setup,          \* the files a setup has still to write, and the receipt to follow
    edited,         \* the files whose content is the learner's
    original,       \* what was there before
    edits,
    died            \* a setup has died in this copy

courseVars == <<code, schema, file, ledger, receipt, setup, edited, original, edits, died>>

Checkpoints == <<"module", "crud", "files", "jobs">>
Migrations == <<"tickets.sql", "uploads.sql", "exports.sql">>
Names == {Migrations[i] : i \in 1..3}
Managed == {"tickets", "exports", "api", "worker", "fixture", "env"} \cup Names

\* A content is a kind and a version.
Absent == <<"absent", 0>>
Mine == <<"mine", 0>>
Contents == {Absent, Mine}
    \cup ({"module", "crud", "files", "jobs", "template", "disabled", "private", "sql"} \X (1..MaxReleases))

NoReceipt == [stage |-> 0, base |-> 0, files |-> [f \in Managed |-> Absent]]
Receipts == [stage : 0..4, base : 0..MaxReleases, files : [Managed -> Contents]]
Idle == [todo |-> {}, then |-> NoReceipt]

CourseTypeOK ==
    /\ code \in 1..MaxReleases /\ schema \in 1..MaxReleases
    /\ file \in [Managed -> Contents]
    /\ ledger \in Seq(Names \cup {"template", "mine"})
    /\ receipt \in Receipts
    /\ setup \in [todo : SUBSET Managed, then : Receipts]
    /\ edited \subseteq Managed /\ original \in [Managed -> Contents]
    /\ edits \in 0..MaxEdits
    /\ died \in BOOLEAN

CourseInit ==
    /\ code = 1 /\ schema = 1
    /\ file = [f \in Managed |-> Absent]
    /\ ledger = <<>>
    /\ receipt = NoReceipt
    /\ setup = Idle
    /\ edited = {} /\ original = file
    /\ edits = 0
    /\ died = FALSE

Copied == ledger # <<>>
AtRest == setup = Idle

-----------------------------------------------------------------------------
(* The learner and the repository.                                         *)

\* A file of the course, or one where the course has none yet.
Edit(f) ==
    /\ Copied /\ AtRest
    /\ edits < MaxEdits
    /\ f \notin edited
    /\ f \in Names => file[f] # Absent
    /\ edits' = edits + 1
    /\ file' = [file EXCEPT ![f] = Mine]
    /\ edited' = edited \cup {f}
    /\ original' = [original EXCEPT ![f] = file[f]]
    /\ UNCHANGED <<code, schema, ledger, receipt, setup, died>>

\* The learner puts back what was there.
Undo(f) ==
    /\ AtRest
    /\ f \in edited
    /\ file' = [file EXCEPT ![f] = original[f]]
    /\ edited' = edited \ {f}
    /\ UNCHANGED <<code, schema, ledger, receipt, setup, original, edits, died>>

AddMigration ==
    /\ Copied /\ AtRest
    /\ edits < MaxEdits
    /\ edits' = edits + 1
    /\ ledger' = Append(ledger, "mine")
    /\ UNCHANGED <<code, schema, file, receipt, setup, edited, original, died>>

NewRelease ==
    /\ AtRest
    /\ code < MaxReleases
    /\ code' = code + 1
    /\ schema' \in {schema, code + 1}
    /\ UNCHANGED <<file, ledger, receipt, setup, edited, original, edits, died>>

-----------------------------------------------------------------------------
(* setupCourse.                                                            *)

\* The migrations of a checkpoint, and those a setup adds.
MigrationsOf(n) == {Migrations[i] : i \in 1..(n - 1)}
Added(n) == {m \in MigrationsOf(n) : receipt.files[m] = Absent}

\* configuration: secrets and free addresses, which the developer's tools read from then on.
Addresses == <<"private", 1>>

\* checkpoint and composition: the source of the module comes from the repository, the
\* assembly is that of the copy with the blocks of the checkpoint.
Content(f, n, base) ==
    CASE f \in {"tickets", "exports"} -> <<Checkpoints[n], code>>
      [] f = "api" -> <<IF n = 1 THEN "module" ELSE "crud", base>>
      [] f = "worker" -> <<"jobs", base>>
      [] f = "fixture" -> <<"disabled", base>>
      [] f = "env" -> Addresses
      [] OTHER -> <<"sql", schema>>

\* The test of the finished course is disabled once; the addresses are chosen once.
Fixture == IF file["fixture"] \in {Absent, Mine} THEN {"fixture"} ELSE {}
Plan(n) ==
    {"tickets", "api"} \cup (IF n = 4 THEN {"exports", "worker"} ELSE {}) \cup Added(n)
    \cup Fixture \cup (IF Copied THEN {} ELSE {"env"})

\* Every plan is written in this order: the checkpoint, the assembly, the migrations by
\* their numbers, the test, and what the first setup alone writes.
Order == <<"tickets", "exports", "api", "worker", "tickets.sql", "uploads.sql", "exports.sql", "fixture", "env">>

\* The receipt to follow also protects the worker before a checkpoint touches it.
Receipt(n, base) ==
    [stage |-> n, base |-> base,
     files |-> [f \in Managed |->
        IF f \in Plan(n) THEN Content(f, n, base)
        ELSE IF f = "worker" /\ ~Copied THEN <<"template", base>> ELSE receipt.files[f]]]

\* Faulty: a file the receipt does not know is not compared.
FaultyExpected(f) == IF receipt.files[f] = Absent THEN file[f] ELSE receipt.files[f]

Expected(f) == receipt.files[f]

\* What the setup is about to write, the installed migrations and the addresses are as
\* installed; the numbers of new migrations are free.
Unmodified(n) ==
    LET installed == {m \in Names : receipt.files[m] # Absent}
    IN  \A f \in (Plan(n) \ Names) \cup installed \cup {"env"} : file[f] = Expected(f)

\* A new copy is cloned, and removed again when that fails.
SetUpNew(n) ==
    /\ ~Copied /\ AtRest
    /\ ledger' = <<"template">>
    /\ file' = [file EXCEPT !["worker"] = <<"template", code>>]
    /\ setup' = [todo |-> Plan(n), then |-> Receipt(n, code)]
    /\ UNCHANGED <<code, schema, receipt, edited, original, edits, died>>

\* An upgrade needs a valid receipt of no later checkpoint, whose migrations the repository
\* has not changed since.
Upgrade(n) ==
    /\ Copied /\ AtRest
    /\ receipt.stage \in 1..n
    /\ \A m \in MigrationsOf(n) : receipt.files[m] \in {Absent, <<"sql", schema>>}
    /\ Unmodified(n)
    /\ setup' = [todo |-> Plan(n), then |-> Receipt(n, receipt.base)]
    /\ UNCHANGED <<code, schema, file, ledger, receipt, edited, original, edits, died>>

WriteFile(f) ==
    /\ f \in setup.todo
    /\ \E i \in 1..9 : Order[i] = f /\ \A j \in 1..(i - 1) : Order[j] \notin setup.todo
    /\ file' = [file EXCEPT ![f] = setup.then.files[f]]
    /\ ledger' = IF f \in Names THEN Append(ledger, f) ELSE ledger
    /\ setup' = [setup EXCEPT !.todo = @ \ {f}]
    /\ UNCHANGED <<code, schema, receipt, edited, original, edits, died>>

WriteReceipt ==
    /\ ~AtRest
    /\ setup.todo = {}
    /\ receipt' = setup.then
    /\ setup' = Idle
    /\ UNCHANGED <<code, schema, file, ledger, edited, original, edits, died>>

\* The receipt stays the old one, or is cut short when it was being written.
Die ==
    /\ ~AtRest
    /\ setup' = Idle
    /\ died' = TRUE
    /\ receipt' \in {receipt} \cup (IF setup.todo = {} THEN {NoReceipt} ELSE {})
    /\ UNCHANGED <<code, schema, file, ledger, edited, original, edits>>

CourseNext ==
    \/ \E f \in Managed : Edit(f) \/ Undo(f) \/ WriteFile(f)
    \/ AddMigration \/ NewRelease
    \/ \E n \in 1..4 : SetUpNew(n) \/ Upgrade(n)
    \/ WriteReceipt \/ Die

-----------------------------------------------------------------------------
(* Properties.                                                             *)

\* What the learner has written is never overwritten, in a file of the course or where the
\* course only comes to have one, by whatever sequence of setups, some of which died.
EditsSurvive == \A f \in edited : file[f] = Mine

\* The migrations of the course come in order and once, also after a setup died between a
\* migration and the receipt: the database has seen them under their numbers.
InstalledOnce ==
    \A j \in DOMAIN ledger, k \in 1..3 : ledger[j] = Migrations[k] =>
        /\ \A i \in 1..(j - 1) : ledger[i] # Migrations[k]
        /\ \A l \in 1..(k - 1) : \E i \in 1..(j - 1) : ledger[i] = Migrations[l]

\* While no setup has died, what the learner has left alone is what the receipt says.
ReceiptTruthful ==
    AtRest /\ ~died => \A f \in Managed \ edited : file[f] = receipt.files[f]

\* The course is kept: it loses nothing of the learner's and keeps its own history.
CourseIsKept == EditsSurvive /\ InstalledOnce /\ ReceiptTruthful
=============================================================================
