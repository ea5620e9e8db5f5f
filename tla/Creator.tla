------------------------------ MODULE Creator ------------------------------
(***************************************************************************)
(* create-axum-saas (tools/create-axum-saas/project.mjs): several creators *)
(* give projects their directories and groups of development ports, kept   *)
(* apart by a registry under a lock.  A creator may fail or be killed at   *)
(* any step; projects run and stop, and are deleted, meanwhile.  A user    *)
(* removes the lock of a dead creator only, and leaves projects in place.  *)
(***************************************************************************)
EXTENDS FiniteSets

CONSTANTS
    Creators,       \* processes of the tool
    Places,         \* directories projects are created in
    PortGroups,     \* the groups of ports a project can get
    NoPlace         \* no directory

ASSUME CreatorAssumption == NoPlace \notin Places /\ {} \notin PortGroups /\ "none" \notin Creators

VARIABLES
    at,         \* per creator, its step
    target,     \* its directory
    known,      \* the registry as it has read it
    docker,     \* the ports docker publishes, as it was told
    allocated,  \* the ports it has found, {} before
    probes,     \* the ports it listens on
    lock,       \* ports.lock: a creator or "none"
    registry,   \* ports.json
    project,    \* per place, the ports of the project there and whether it runs
    finished    \* the places whose creator has ended well

creatorVars == <<at, target, known, docker, allocated, probes, lock, registry, project, finished>>

\* No ports: neither a project nor a reservation.
NoPorts == {}
Groups == PortGroups \cup {NoPorts}
Exists(p) == project[p].ports # NoPorts
Published == UNION {project[p].ports : p \in {q \in Places : project[q].runs}}

CreatorTypeOK ==
    /\ at \in [Creators -> {"idle", "waiting", "locked", "reserved", "renamed", "saved", "dead"}]
    /\ target \in [Creators -> Places \cup {NoPlace}]
    /\ known \in [Creators -> [Places -> Groups]]
    /\ docker \in [Creators -> SUBSET UNION PortGroups]
    /\ allocated \in [Creators -> Groups] /\ probes \in [Creators -> Groups]
    /\ lock \in Creators \cup {"none"}
    /\ registry \in [Places -> Groups]
    /\ project \in [Places -> [ports : Groups, runs : BOOLEAN]]
    /\ finished \subseteq Places

CreatorInit ==
    /\ at = [c \in Creators |-> "idle"]
    /\ target = [c \in Creators |-> NoPlace]
    /\ known = [c \in Creators |-> [p \in Places |-> NoPorts]]
    /\ docker = [c \in Creators |-> {}]
    /\ allocated = [c \in Creators |-> NoPorts]
    /\ probes = [c \in Creators |-> NoPorts]
    /\ lock = "none"
    /\ registry = [p \in Places |-> NoPorts]
    /\ project = [p \in Places |-> [ports |-> NoPorts, runs |-> FALSE]]
    /\ finished = {}

Goes(c, from, to) == at[c] = from /\ at' = [at EXCEPT ![c] = to]
ofCreator == <<target, known, docker, allocated>>

-----------------------------------------------------------------------------
(* createProject.                                                          *)

\* The directory must not exist; the template is unpacked beside it.
Begin(c, p) ==
    /\ Goes(c, "idle", "waiting")
    /\ ~Exists(p)
    /\ target' = [target EXCEPT ![c] = p]
    /\ UNCHANGED <<known, docker, allocated, probes, lock, registry, project, finished>>

\* Faulty: the lock is not heeded.
FaultyUnlocked == TRUE

Unlocked == lock = "none"

\* Under the lock the registry is read, without the projects that are gone, and docker
\* asked, which may not answer.
TakeLock(c) ==
    /\ Unlocked
    /\ Goes(c, "waiting", "locked")
    /\ lock' = c
    /\ known' = [known EXCEPT ![c] = [p \in Places |-> IF Exists(p) THEN registry[p] ELSE NoPorts]]
    /\ docker' = [docker EXCEPT ![c] = Published] \/ UNCHANGED docker
    /\ UNCHANGED <<target, allocated, probes, registry, project, finished>>

Reserved(c) == UNION {known[c][p] : p \in Places} \cup docker[c]

\* No port of the group is reserved, and every one can be listened on.
ReservePorts(c, g) ==
    /\ Goes(c, "locked", "reserved")
    /\ g \cap (Reserved(c) \cup Published \cup UNION {probes[d] : d \in Creators}) = {}
    /\ allocated' = [allocated EXCEPT ![c] = g]
    /\ probes' = [probes EXCEPT ![c] = g]
    /\ UNCHANGED <<target, known, docker, lock, registry, project, finished>>

\* The directory gets its name, then the ports are let go.
RenameStage(c) ==
    /\ Goes(c, "reserved", "renamed")
    /\ ~Exists(target[c])
    /\ project' = [project EXCEPT ![target[c]] = [ports |-> allocated[c], runs |-> FALSE]]
    /\ known' = [known EXCEPT ![c][target[c]] = allocated[c]]
    /\ probes' = [probes EXCEPT ![c] = NoPorts]
    /\ UNCHANGED <<target, docker, allocated, lock, registry, finished>>

\* The registry is replaced as a whole.
SaveRegistry(c) ==
    /\ Goes(c, "renamed", "saved")
    /\ registry' = known[c]
    /\ UNCHANGED <<ofCreator, probes, lock, project, finished>>

Forget(c) ==
    /\ target' = [target EXCEPT ![c] = NoPlace]
    /\ known' = [known EXCEPT ![c] = [p \in Places |-> NoPorts]]
    /\ docker' = [docker EXCEPT ![c] = {}]
    /\ allocated' = [allocated EXCEPT ![c] = NoPorts]
    /\ probes' = [probes EXCEPT ![c] = NoPorts]

\* The lock is removed and the project reported.
Reports(c) ==
    /\ Goes(c, "saved", "idle")
    /\ finished' = IF project[target[c]].ports = allocated[c] THEN finished \cup {target[c]} ELSE finished
    /\ Forget(c)
    /\ lock' = "none"
    /\ UNCHANGED <<registry, project>>

\* An error on the way, the directory that exists by now and the wait that was too long
\* among them: what was taken is let go, but a directory that has its name stays.
GiveUp(c) ==
    /\ at[c] \in {"waiting", "locked", "reserved", "renamed"}
    /\ at' = [at EXCEPT ![c] = "idle"]
    /\ Forget(c)
    /\ lock' = IF at[c] = "waiting" THEN lock ELSE "none"
    /\ UNCHANGED <<registry, project, finished>>

\* A creator that is killed leaves its lock, which a user removes some time.
Kill(c) ==
    /\ at[c] \notin {"idle", "dead"}
    /\ at' = [at EXCEPT ![c] = "dead"]
    /\ Forget(c)
    /\ UNCHANGED <<lock, registry, project, finished>>

RemoveLock(c) ==
    /\ Goes(c, "dead", "idle")
    /\ lock' = IF lock = c THEN "none" ELSE lock
    /\ UNCHANGED <<ofCreator, probes, registry, project, finished>>

-----------------------------------------------------------------------------
(* The projects.                                                           *)

\* just dev checks its ports first.
Run(p) ==
    /\ Exists(p)
    /\ ~project[p].runs
    /\ project[p].ports \cap (Published \cup UNION {probes[d] : d \in Creators}) = {}
    /\ project' = [project EXCEPT ![p].runs = TRUE]
    /\ UNCHANGED <<at, ofCreator, probes, lock, registry, finished>>

Halted(p) ==
    /\ project[p].runs
    /\ project' = [project EXCEPT ![p].runs = FALSE]
    /\ UNCHANGED <<at, ofCreator, probes, lock, registry, finished>>

Delete(p) ==
    /\ Exists(p)
    /\ ~project[p].runs
    /\ project' = [project EXCEPT ![p].ports = NoPorts]
    /\ finished' = finished \ {p}
    /\ UNCHANGED <<at, ofCreator, probes, lock, registry>>

CreatorNext ==
    \/ \E c \in Creators :
        \/ \E p \in Places : Begin(c, p)
        \/ \E g \in PortGroups : ReservePorts(c, g)
        \/ TakeLock(c) \/ RenameStage(c) \/ SaveRegistry(c) \/ Reports(c)
        \/ GiveUp(c) \/ Kill(c) \/ RemoveLock(c)
    \/ \E p \in Places : Run(p) \/ Halted(p) \/ Delete(p)

-----------------------------------------------------------------------------
(* Properties.                                                             *)

\* Two projects whose creation was reported never share a port, though neither may ever
\* have run: two creators at once, one that died with the lock or with the directory
\* renamed and the registry not yet saved, and projects that go do not lose a reservation.
PortsAreApart ==
    \A p, q \in finished : p # q => project[p].ports \cap project[q].ports = {}
=============================================================================
