-------------------------------- MODULE Dev ---------------------------------
(***************************************************************************)
(* just dev (scripts/dev.mjs and lib/development-services.mjs): the ports  *)
(* are looked at, the containers of the project started and their bindings *)
(* verified, the database migrated, and then api, worker and web run until *)
(* the developer stops them; a change of the Rust sources restarts the     *)
(* first two.  Other projects and programs take and leave ports meanwhile. *)
(***************************************************************************)
EXTENDS Integers, FiniteSets

CONSTANTS
    Containers,     \* the services of the compose project
    MaxMoves,       \* bounds what others do with ports
    MaxChanges      \* bounds the changes of the sources

ASSUME DevAssumption ==
    /\ "postgres" \in Containers
    /\ MaxMoves \in Nat /\ MaxChanges \in Nat

VARIABLES
    listener,   \* per service, who listens on its port: "free", "own" or "foreign"
    moves,      \* how often others took or left a port
    stage,      \* "preflight", "up", "verify", "migrate", "running" or "failed"
    done,       \* the services this stage is through with
    bare,       \* the containers that run without their port
    migrated,   \* whose database was migrated, "none" before
    source,     \* the version of the Rust sources
    alive,      \* the processes that run
    child,      \* the latest api and worker
    restart,    \* restartRust: restarting, changed and the timer that calls it
    closing,    \* the flag of close
    closer      \* the processes close waits for

devVars == <<listener, moves, stage, done, bare, migrated, source, alive, child, restart, closing, closer>>
portVars == <<listener, moves, stage, done, bare, migrated>>
processVars == <<source, alive, child, restart, closing, closer>>

Rust == {"api", "worker"}
Bindings == Containers \cup Rust \cup {"web"}
Web == [name |-> "web", run |-> 1, built |-> 0]
Process == [name : Rust, run : 1..(MaxChanges + 1), built : 0..MaxChanges] \cup {Web}

\* The n-th run of api and worker, built from the sources of the moment.
Launched(n) == [s \in Rust |-> [name |-> s, run |-> n, built |-> source]]
Children == {child[s] : s \in Rust}

DevTypeOK ==
    /\ listener \in [Bindings -> {"free", "own", "foreign"}]
    /\ moves \in 0..MaxMoves
    /\ stage \in {"preflight", "up", "verify", "migrate", "running", "failed"}
    /\ done \subseteq Bindings /\ bare \subseteq Containers
    /\ migrated \in {"none", "own", "foreign", "free"}
    /\ source \in 0..MaxChanges
    /\ alive \subseteq Process
    /\ child \in [Rust -> Process]
    /\ restart \in [on : BOOLEAN, changed : BOOLEAN, timer : BOOLEAN]
    /\ closing \in BOOLEAN /\ closer \subseteq Process

\* Containers of the project may run already, on ports of their own.
DevInit ==
    /\ listener \in {l \in [Bindings -> {"free", "own", "foreign"}] :
                        \A p \in Bindings \ Containers : l[p] # "own"}
    /\ moves = 0
    /\ stage = "preflight"
    /\ done = {} /\ bare = {}
    /\ migrated = "none"
    /\ source = 0
    /\ alive = {}
    /\ child = Launched(1)
    /\ restart = [on |-> FALSE, changed |-> FALSE, timer |-> FALSE]
    /\ closing = FALSE /\ closer = {}

-----------------------------------------------------------------------------
(* Ports, containers and the migration.                                    *)

OthersMove(p) ==
    /\ moves < MaxMoves
    /\ moves' = moves + 1
    /\ \/ listener[p] = "free" /\ listener' = [listener EXCEPT ![p] = "foreign"]
       \/ listener[p] = "foreign" /\ listener' = [listener EXCEPT ![p] = "free"]
    /\ UNCHANGED <<stage, done, bare, migrated, processVars>>

Fail == stage' = "failed" /\ UNCHANGED <<done, bare, listener>>
Through(p, everything, next) ==
    IF done \cup {p} = everything THEN stage' = next /\ done' = {} ELSE done' = done \cup {p} /\ UNCHANGED stage

\* A port is fine when a container of this project has it, or when it can be bound.
PreflightPort(p) ==
    /\ stage = "preflight"
    /\ p \notin done
    /\ IF listener[p] \in {"own", "free"}
       THEN Through(p, Bindings, "up") /\ UNCHANGED <<bare, listener>>
       ELSE Fail
    /\ UNCHANGED <<moves, migrated, processVars>>

\* compose up starts what does not run.  A port that is taken fails it, or leaves a
\* container that runs without.
UpService(c) ==
    /\ stage = "up"
    /\ c \notin done
    /\ CASE listener[c] = "own" -> Through(c, Containers, "verify") /\ UNCHANGED <<bare, listener>>
         [] listener[c] = "free" ->
                /\ Through(c, Containers, "verify")
                /\ listener' = [listener EXCEPT ![c] = "own"]
                /\ UNCHANGED bare
         [] listener[c] = "foreign" ->
                \/ Fail
                \/ Through(c, Containers, "verify") /\ bare' = bare \cup {c} /\ UNCHANGED listener
    /\ UNCHANGED <<moves, migrated, processVars>>

\* Every container listens on the port it was given.
VerifyBindings ==
    /\ stage = "verify"
    /\ IF bare = {} THEN stage' = "migrate" /\ UNCHANGED <<done, bare, listener>> ELSE Fail
    /\ UNCHANGED <<moves, migrated, processVars>>

\* The migration goes to the port of DATABASE_URL, then the three processes start.
MigrateAndLaunch ==
    /\ stage = "migrate"
    /\ migrated' = listener["postgres"]
    /\ \/ Fail /\ UNCHANGED alive
       \/ /\ stage' = "running"
          /\ alive' = Children \cup {Web}
          /\ UNCHANGED <<done, bare, listener>>
    /\ UNCHANGED <<moves, source, child, restart, closing, closer>>

-----------------------------------------------------------------------------
(* The processes.                                                          *)

\* A process ends by itself, or because stop has signalled its group; stop waits for that
\* and kills what is left.
Exit(p) ==
    /\ stage = "running"
    /\ p \in alive
    /\ alive' = alive \ {p}
    /\ UNCHANGED <<portVars, source, child, restart, closing, closer>>

\* The watchers report it and the timer is set anew.
Change ==
    /\ stage = "running"
    /\ source < MaxChanges
    /\ source' = source + 1
    /\ restart' = IF closing THEN restart ELSE [restart EXCEPT !.timer = TRUE]
    /\ UNCHANGED <<portVars, alive, child, closing, closer>>

\* The timer calls restartRust, which goes on where it is when it is restarting already.
RestartRust ==
    /\ restart.timer
    /\ restart' = [on |-> TRUE, changed |-> restart.on, timer |-> FALSE]
    /\ UNCHANGED <<portVars, source, alive, child, closing, closer>>

\* Faulty: the flag is looked at before the stops only.
FaultyMayLaunch == TRUE

MayLaunch == ~closing

\* Both have stopped: launch them, and go round again if the sources changed meanwhile.
RestartGoesOn ==
    /\ restart.on
    /\ Children \cap alive = {}
    /\ IF MayLaunch
       THEN /\ child' = Launched(child["api"].run + 1)
            /\ alive' = alive \cup {child'[s] : s \in Rust}
       ELSE UNCHANGED <<child, alive>>
    /\ restart' = [restart EXCEPT !.on = restart.changed /\ ~closing, !.changed = closing /\ @]
    /\ UNCHANGED <<portVars, source, closing, closer>>

\* A signal, or web has exited.
Close ==
    /\ stage = "running"
    /\ ~closing
    /\ closing' = TRUE
    /\ restart' = [restart EXCEPT !.timer = FALSE]
    /\ closer' = Children \cup {Web}
    /\ UNCHANGED <<portVars, source, alive, child>>

DevNext ==
    \/ \E p \in Bindings : OthersMove(p) \/ PreflightPort(p)
    \/ \E c \in Containers : UpService(c)
    \/ VerifyBindings
    \/ MigrateAndLaunch
    \/ \E p \in Process : Exit(p)
    \/ Change
    \/ RestartRust
    \/ RestartGoesOn
    \/ Close

-----------------------------------------------------------------------------
(* Properties.                                                             *)

\* Whatever others do with ports while the containers start, only the project's own
\* database is migrated.
MigratesOwn == migrated \in {"none", "own"}

\* Never two runs of the api or of the worker, and none when close has waited for all it
\* knows and no restart is under way, whatever changed before, during or after.
NoneSurvives ==
    /\ \A p, q \in alive : p.name = q.name => p = q
    /\ closing /\ closer \cap alive = {} /\ ~restart.on => alive = {}

\* When nothing is to come, api and worker were built from the latest sources.
LatestRuns ==
    stage = "running" /\ ~closing /\ ~restart.on /\ ~restart.timer
        => \A s \in Rust : child[s].built = source

\* just dev keeps to itself: it migrates no one else's database, serves what the developer
\* has written and leaves nothing behind.
DevKeepsToItself == MigratesOwn /\ NoneSurvives /\ LatestRuns
=============================================================================
