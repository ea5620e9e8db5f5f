-------------------------------- MODULE Rigs --------------------------------
(***************************************************************************)
(* The scripts that build something, use it and take it down again: the    *)
(* rigs of the tests (scripts/e2e.mjs, desktop-stack.mjs, test-*.mjs), of  *)
(* the measurements (scripts/perf, perf-query-plans.mjs), of the smokes    *)
(* and drills (scaffold-, production- and knowledge-observability-smoke    *)
(* .mjs, production-restore-drill.mjs) and the checks of the course.       *)
(*                                                                         *)
(* A script is a sequence of lines, the scripts are the functions of the   *)
(* libraries put together.  A line may throw, and control goes on in the   *)
(* innermost `finally' around it, whose releases may fail as well.  What a *)
(* script holds are containers, processes, compose projects, directories.  *)
(* A script killed by a signal unwinds nothing and is left out.            *)
(***************************************************************************)
EXTENDS Naturals, Sequences, FiniteSets

VARIABLES
    script,     \* the script that runs
    line,       \* the line it is at
    turn,       \* in a `finally', the release to come
    failing,    \* an exception is on its way, or has ended the script
    noted,      \* a failure was caught, to be reported in the end
    held,       \* what the script has started or made and not released
    refused,    \* what it has tried to release in vain
    halted,     \* the services it has stopped on purpose
    unmet       \* a request did not end as the script says it must

rigVars == <<script, line, turn, failing, noted, held, refused, halted, unmet>>

-----------------------------------------------------------------------------
(* Lines.  `step' stands for commands and requests that hold nothing.      *)

Step == [do |-> "step"]
Attempt == [do |-> "attempt"]           \* a command whose failure is only noted
Take(r) == [do |-> "take", what |-> {r}]
Launch(rs) == [do |-> "launch", what |-> rs]
Return == [do |-> "return"]             \* startStack hands over its processes
Quit(rs) == [do |-> "quit", what |-> rs]
Halt(s) == [do |-> "halt", what |-> {s}]
Resume(s) == [do |-> "resume", what |-> {s}]
Expect(q, answer) == [do |-> "expect", request |-> q, answer |-> answer]

\* A `try' and its `finally': releases in order, each of several things at once.  A
\* release never fails (surely), throws (firmly), is noted (loudly), or is passed over
\* with the next ones (softly).
Try == [do |-> "try"]
Finally(rs) == [do |-> "finally", releases |-> rs]
Release(rs, how, n) == [what |-> rs, how |-> how, skips |-> n]
Surely(rs) == Release(rs, "surely", 1)
Firmly(rs) == Release(rs, "firmly", 0)
Loudly(rs) == Release(rs, "loudly", 1)
Softly(rs, n) == Release(rs, "softly", n)

-----------------------------------------------------------------------------
(* The libraries.                                                          *)

\* Faulty: readiness is awaited before the try.
FaultyWithPostgres(body) ==
    <<Step, Take("postgres"), Step, Try>> \o body \o <<Finally(<<Firmly({"postgres"})>>)>>

\* compose config; docker run; readiness and ports; the action; docker rm -f.
WithContainer(c, body) ==
    <<Step, Try, Take(c), Step>> \o body \o <<Finally(<<Firmly({c})>>)>>

WithPostgres(body) == WithContainer("postgres", body)
WithRustfs(body) == WithContainer("rustfs", body)
WithRedis(body) == WithContainer("redis", body)
WithMailpit(c, body) == WithContainer(c, body)

TestServices(body) == WithPostgres(WithRustfs(WithRedis(WithMailpit("mailpit", body))))

\* The probes stay bound until every one of them has its own port.
FreePorts == <<Try, Take("probes"), Finally(<<Surely({"probes"})>>)>>

ServeDocs == FreePorts \o <<Take("site")>>

StartObservability == <<Step, Take("stack"), Step>>

\* seed runs against the api, body against the whole stack.
DesktopStack(seed, body) ==
    <<Step>> \o TestServices(
        FreePorts \o <<Take("downloads"), Try, Step, Launch({"api"}), Step>> \o seed
        \o <<Launch({"web"}), Step>> \o body
        \o <<Finally(<<Firmly({"web", "api"}), Firmly({"downloads"})>>)>>)

\* A project that a crashed run left is taken down first.  The caller knows the
\* processes only when this returns.
StartStack ==
    <<Step>> \o FreePorts \o <<Quit({"stack"}), Take("stack"), Step,
      Launch({"nameless api", "nameless worker"}), Step, Return>>

StopStack == <<Firmly({"api"}), Firmly({"worker"}), Firmly({"stack"})>>

-----------------------------------------------------------------------------
(* The scripts of tests and measurements.                                  *)

TestStorage == WithRustfs(<<Step>>)
TestBackend == TestServices(WithMailpit("chaos", <<Step>>))

E2e ==
    <<Step>> \o TestServices(
        FreePorts \o <<Step, Launch({"api"}), Take("folder"), Launch({"worker"}), Try, Step,
                       Launch({"web"}), Step,
                       Finally(<<Firmly({"web", "api", "worker"}), Firmly({"folder"})>>)>>)

RunDesktopTests == Step
DesktopSmoke == DesktopStack(<<Step>>, <<RunDesktopTests>>)
DesktopSoak == DesktopStack(<<Step>>, <<Attempt, Step>>)

\* The site under its own base, then under another, which must not stay.
E2eDocs ==
    <<Step>> \o ServeDocs \o <<Try, Step, Finally(<<Surely({"site"})>>), Take("custom dist"), Step>>
    \o ServeDocs \o <<Try, Step, Finally(<<Surely({"site"}), Firmly({"custom dist"})>>), Step>>

StartSampler == Launch({"sampler"})
RunK6 == Attempt

\* keep is PERF_STACK_KEEP.
RunScenario(keep) ==
    <<StartSampler, Try>> \o StartStack \o <<Step, RunK6, Step,
      Finally(<<Surely({"sampler"})>> \o (IF keep THEN <<>> ELSE StopStack)), Step>>

QueryPlans == WithPostgres(<<Step>>) \o <<Step>>

\* The exercise writes a module into a copy and tests it.
NewBusiness == <<Step>> \o WithPostgres(<<Step>>)

\* The course, checkpoint by checkpoint, and the steps of its first chapter.
CourseCheck ==
    <<Take("scratch"), Step, Try>> \o WithPostgres(WithRustfs(<<Step>>)) \o <<Finally(<<Firmly({"scratch"})>>)>>
ModuleCheck == <<Take("scratch"), Try, Step, Finally(<<Firmly({"scratch"})>>)>>

\* The archives of the creator, and the site that goes to its branch.
BuildPackage == <<Step, Take("scratch"), Try, Step, Finally(<<Firmly({"scratch"})>>)>>
PublishDocs == <<Step, Take("scratch"), Try, Step, Finally(<<Firmly({"scratch"})>>), Step>>

-----------------------------------------------------------------------------
(* The smokes and the drill.                                               *)

\* Two generated projects side by side; `just dev' of each starts its compose project.
StartCopy(app, stack) == <<Step, Launch({app, stack}), Step>>
UseCopies == <<Launch({"first browser"}), Step, Launch({"second browser"}), Step>>

\* The directory stays for its logs when something has failed.
ScaffoldSmoke ==
    <<Take("directory"), Try>>
    \o StartCopy("first app", "first stack") \o StartCopy("second app", "second stack") \o UseCopies
    \o <<Finally(<<Softly({"first browser"}, 1), Firmly({"first app"}), Firmly({"first stack"}),
                   Softly({"second browser"}, 1), Firmly({"second app"}), Firmly({"second stack"})>>),
         Quit({"directory"})>>

Observed == <<Step, Quit({"worker"}), Step, Launch({"worker"}), Step>>

ObservabilitySmoke ==
    <<Step, Take("directory"), Try>>
    \o WithPostgres(WithRustfs(
        FreePorts \o <<Try>> \o StartObservability \o <<Step, Launch({"api", "worker"}), Step>>
        \o Observed \o <<Step, Quit({"api", "worker"}), Step,
                         Finally(<<Firmly({"api", "worker"}), Firmly({"stack"})>>)>>))
    \o <<Finally(<<Firmly({"directory"})>>)>>

\* The composition of production: images and secrets, dependencies, migration, services.
StartProduction == <<Step, Take("stack"), Step, Step>>
EntranceStage == <<Expect("live", TRUE)>>
JourneyStage == <<Expect("write", TRUE), Expect("transfer", TRUE), Expect("complete", TRUE), Expect("read", TRUE)>>
RestartStage == <<Step, Expect("ready", TRUE), Expect("read", TRUE)>>
RedisOutage == <<Halt("redis"), Expect("write", TRUE), Resume("redis")>>

StorageOutage ==
    <<Halt("rustfs"), Expect("read", TRUE), Expect("write", TRUE), Expect("transfer", FALSE),
      Expect("complete", FALSE), Resume("rustfs"), Expect("transfer", TRUE), Expect("complete", TRUE)>>

DatabaseOutage ==
    <<Halt("postgres"), Expect("ready", FALSE), Expect("read", FALSE), Resume("postgres"),
      Expect("ready", TRUE), Expect("read", TRUE)>>

\* An export is asked for while the worker is stopped and finished when it is back.
WorkerRecovery ==
    <<Halt("worker"), Step, Expect("write", TRUE), Resume("worker"), Expect("finish", TRUE),
      Expect("read", TRUE), Expect("transfer", TRUE)>>
GracefulDrain == <<Halt("api"), Step, Resume("api"), Expect("ready", TRUE)>>

ProductionSmoke ==
    <<Take("directory"), Try, Try>> \o StartProduction \o EntranceStage \o JourneyStage \o RestartStage
    \o RedisOutage \o StorageOutage \o DatabaseOutage \o WorkerRecovery \o GracefulDrain
    \o <<Finally(<<Firmly({"stack"})>>), Finally(<<Firmly({"directory"})>>)>>

DrillSeed == <<Step, Take("production"), Step, Step>> \o EntranceStage \o JourneyStage
DrillWindow == <<Halt("worker"), Step, Expect("write", TRUE)>>

\* The operator's commands are Production; they stop the api, and start all in a new project.
DrillRebuild == <<Halt("api"), Step, Quit({"production"}), Take("restored"), Step, Resume("api"), Resume("worker")>>
DrillVerify == <<Step, Expect("read", TRUE), Expect("transfer", TRUE), Expect("finish", TRUE), Step>>

\* The archive stays, the secrets do not, whatever becomes of the projects; but they are
\* read back before the `try' that removes them.
RestoreDrill ==
    <<Take("secrets"), Step, Try, Try>> \o DrillSeed \o DrillWindow \o DrillRebuild \o DrillVerify
    \o <<Step, Finally(<<Softly({"restored"}, 2), Softly({"production"}, 1)>>),
         Finally(<<Firmly({"secrets"})>>)>>

\* The drill of the course: recovery.mjs in a copy of the course, with an image of its own.
RecoverySeed ==
    <<Take("production"), Step, Expect("ready", TRUE), Expect("write", TRUE), Expect("transfer", TRUE),
      Expect("complete", TRUE)>>
RecoveryRebuild == DrillWindow \o DrillRebuild
RecoveryVerify ==
    <<Step, Expect("read", TRUE), Expect("transfer", TRUE), Expect("finish", TRUE), Expect("transfer", TRUE), Step>>
CourseRecovery ==
    <<Take("scratch"), Step, Try, Step, Take("image")>> \o RecoverySeed \o RecoveryRebuild \o RecoveryVerify
    \o <<Finally(<<Loudly({"restored"}), Loudly({"production"}), Loudly({"image"}), Firmly({"scratch"})>>)>>

Code == [
    storage |-> TestStorage, backend |-> TestBackend, e2e |-> E2e, docs |-> E2eDocs,
    desktop |-> DesktopSmoke, soak |-> DesktopSoak, scenario |-> RunScenario(FALSE),
    kept |-> RunScenario(TRUE), plans |-> QueryPlans, scaffold |-> ScaffoldSmoke,
    observability |-> ObservabilitySmoke, production |-> ProductionSmoke, drill |-> RestoreDrill,
    business |-> NewBusiness, course |-> CourseCheck, module |-> ModuleCheck, recovery |-> CourseRecovery,
    package |-> BuildPackage, publish |-> PublishDocs]

\* What a request needs of the deployment; redis is a cache and a counter it can do without.
Needs == [
    live |-> {"caddy", "api"},
    ready |-> {"caddy", "api", "postgres"},
    read |-> {"caddy", "api", "postgres"},
    write |-> {"caddy", "api", "postgres"},
    transfer |-> {"caddy", "rustfs"},
    complete |-> {"caddy", "api", "postgres", "rustfs"},
    finish |-> {"caddy", "api", "postgres", "rustfs", "worker"}]

Lines == Code[script]
Ended == line > Len(Lines)
On(kind) == ~Ended /\ Lines[line].do = kind
This == Lines[line]

Things(s) == UNION {Code[s][i].what : i \in {j \in 1..Len(Code[s]) : Code[s][j].do \in {"take", "launch"}}}
AllThings == UNION {Things(s) : s \in DOMAIN Code} \cup {"api", "worker"}

RigsTypeOK ==
    /\ script \in DOMAIN Code
    /\ line \in 1..(Len(Lines) + 1)
    /\ turn \in Nat \ {0}
    /\ failing \in BOOLEAN /\ noted \in BOOLEAN /\ unmet \in BOOLEAN
    /\ held \subseteq AllThings
    /\ refused \subseteq held
    /\ halted \subseteq {"redis", "rustfs", "postgres", "worker", "api"}

\* A crashed run of a scenario leaves its compose project, which has a fixed name.
RigsInit ==
    /\ script \in DOMAIN Code
    /\ line = 1 /\ turn = 1
    /\ failing = FALSE /\ noted = FALSE /\ unmet = FALSE
    /\ held \in IF script \in {"scenario", "kept"} THEN {{}, {"stack"}} ELSE {{}}
    /\ refused = {} /\ halted = {}

-----------------------------------------------------------------------------
(* How a script runs.                                                      *)

\* Between two lines, how many blocks open or close.
Between(do, i, j) == Cardinality({k \in (i + 1)..(j - 1) : Lines[k].do = do})

\* The `finally' of the innermost block around a line, or the end.
Around(i) ==
    LET around == {j \in (i + 1)..Len(Lines) :
                    Lines[j].do = "finally" /\ Between("try", i, j) = Between("finally", i, j)}
    IN  IF around = {} THEN Len(Lines) + 1 ELSE CHOOSE j \in around : \A k \in around : j <= k

Proceed == line' = line + 1 /\ turn' = 1 /\ UNCHANGED failing
Throw == line' = Around(line) /\ turn' = 1 /\ failing' = TRUE

Work ==
    /\ On("step") \/ On("try")
    /\ Proceed \/ (On("step") /\ Throw)
    /\ UNCHANGED <<script, noted, held, refused, halted, unmet>>

Watched ==
    /\ On("attempt")
    /\ noted' \in {noted, TRUE}
    /\ Proceed
    /\ UNCHANGED <<script, held, refused, halted, unmet>>

\* A container, a project or a directory; a process is there as soon as it is spawned.
Acquire ==
    /\ \/ On("take") \/ On("launch")
    /\ \/ Proceed /\ held' = held \cup This.what
       \/ On("take") /\ Throw /\ UNCHANGED held
    /\ UNCHANGED <<script, noted, refused, halted, unmet>>

HandOver ==
    /\ On("return")
    /\ held' = (held \ {"nameless api", "nameless worker"}) \cup {"api", "worker"}
    /\ Proceed
    /\ UNCHANGED <<script, noted, refused, halted, unmet>>

\* Of what is released some may stay.
LetGo(things, stay) ==
    /\ held' = held \ (things \ stay)
    /\ refused' = (refused \ things) \cup stay

Dismiss ==
    /\ On("quit")
    /\ \E stay \in SUBSET (This.what \cap held) :
        /\ LetGo(This.what, stay)
        /\ IF stay = {} THEN Proceed ELSE Throw
    /\ UNCHANGED <<script, noted, halted, unmet>>

Outage ==
    /\ \/ On("halt") /\ Proceed /\ halted' = halted \cup This.what
       \/ On("resume") /\ Proceed /\ halted' = halted \ This.what
       \/ (On("halt") \/ On("resume")) /\ Throw /\ UNCHANGED halted
    /\ UNCHANGED <<script, noted, held, refused, unmet>>

Served(q) == Needs[q] \cap halted = {}

\* A request that ends otherwise than expected throws, and any request may.
Demand ==
    /\ On("expect")
    /\ IF Served(This.request) = This.answer
       THEN (Proceed \/ Throw) /\ UNCHANGED unmet
       ELSE Throw /\ unmet' = TRUE
    /\ UNCHANGED <<script, noted, held, refused, halted>>

Onward == IF failing THEN Throw ELSE Proceed

\* The next release of a `finally', or its end.
Unwind ==
    /\ On("finally")
    /\ IF turn > Len(This.releases)
       THEN Onward /\ UNCHANGED <<held, refused, noted>>
       ELSE LET release == This.releases[turn]
            IN  \E stay \in (IF release.how = "surely" THEN {{}} ELSE SUBSET (release.what \cap held)) :
                    /\ LetGo(release.what, stay)
                    /\ noted' = (noted \/ (stay # {} /\ release.how = "loudly"))
                    /\ IF stay # {} /\ release.how = "firmly" THEN Throw
                       ELSE /\ turn' = turn + (IF stay = {} THEN 1 ELSE release.skips)
                            /\ UNCHANGED <<line, failing>>
    /\ UNCHANGED <<script, halted, unmet>>

RigsNext ==
    \/ Work \/ Watched \/ Acquire \/ HandOver \/ Dismiss \/ Outage \/ Demand \/ Unwind

-----------------------------------------------------------------------------
(* Properties.                                                             *)

\* What a failure may leave although nothing refused to go: e2e.mjs launches its api and
\* e2e-docs.mjs builds under the other base before the `try' that would undo it, startStack
\* fails before its caller knows the processes, the scaffold keeps its logs, two checks of
\* the course read files between their directory and its `try', and the restore drill reads
\* its secrets between their file and its `try', against its own comment (line 467).
Strays ==
    CASE script = "e2e" -> {"api"}
      [] script = "docs" -> {"custom dist"}
      [] script = "scenario" -> {"nameless api", "nameless worker"}
      [] script = "scaffold" -> {"directory"}
      [] script \in {"course", "recovery"} -> {"scratch"}
      [] script = "drill" -> {"secrets"}
      [] OTHER -> {}

\* What a `finally' releases only after something that refused.
Behind ==
    {r \in held : \E i \in 1..Len(Lines) :
        /\ Lines[i].do = "finally"
        /\ \E m, n \in 1..Len(Lines[i].releases) :
            /\ m < n
            /\ r \in Lines[i].releases[n].what
            /\ Lines[i].releases[m].what \cap refused # {}}

\* A script that has ended holds nothing but what refused to go or had to wait for it, and
\* strays if it failed; what refuses after a success is noted, but for the browsers and the
\* projects of the drill.
NothingStays ==
    (Ended /\ script # "kept") =>
        /\ held \subseteq refused \cup Behind \cup (IF failing THEN Strays ELSE {})
        /\ failing \/ noted \/ refused \subseteq {"first browser", "second browser", "restored", "production"}

\* What a process or a browser works with.
Dependencies(r) ==
    CASE r \in {"api", "worker", "nameless api", "nameless worker"} ->
            {"postgres", "rustfs", "redis", "mailpit", "stack"}
      [] r = "web" -> {"api"}
      [] r \in {"first app", "first browser"} -> {"first stack"}
      [] r \in {"second app", "second browser"} -> {"second stack"}
      [] OTHER -> {}

\* A process never outlives what it works with, unless it refused to go or strayed.
DependenciesOutlive ==
    \A r \in held \ (refused \cup Strays) : Dependencies(r) \cap Things(script) \subseteq held

\* The rigs are sound: they leave nothing, take things down in an order in which nothing
\* loses its ground, and expect of a deployment with an outage what it can do.
RigsAreSound == NothingStays /\ DependenciesOutlive /\ ~unmet
=============================================================================
