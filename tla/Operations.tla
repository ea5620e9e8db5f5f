----------------------------- MODULE Operations -----------------------------
(***************************************************************************)
(* What keeps a deployment going besides its jobs and data: backup and     *)
(* restore (Production), the alert rule (Alerts), the rate limiter         *)
(* (RateLimit), the timing of a lease (LeaseClock), and the scripts that   *)
(* build on it: the rigs of tests and drills (Rigs), just dev (Dev), the   *)
(* copies of the course (Course), the creators of projects (Creator), the  *)
(* tools that take examples out and in (Examples), and the app that is     *)
(* assembled from what is left (Assembly).                                 *)
(* None of them reads or writes what another does, so they are behaviours  *)
(* of their own: a behaviour is one of the part chosen at its start.       *)
(***************************************************************************)
EXTENDS Production, Alerts, RateLimit, LeaseClock, Rigs, Dev, Course, Creator, Examples,
        Assembly

VARIABLE part

vars == <<part, prodVars, alertVars, rateVars, leaseVars, rigVars, devVars,
          courseVars, creatorVars, exampleVars, registered>>
limitVars == <<alertVars, rateVars, leaseVars>>
scriptVars == <<rigVars, devVars, courseVars, creatorVars, exampleVars, registered>>

\* A part that is not looked at stays at one of its initial states.
Init ==
    /\ part \in {"production", "alerts", "limits", "lease", "rigs", "dev",
                  "course", "creator", "examples", "assembly"}
    /\ ProductionInit
    /\ part # "production" => drained = {} /\ service["production"]["worker"] = "running"
    /\ AlertsInit
    /\ part # "alerts" => \A d \in Durations : rule.duration <= d
    /\ RateInit
    /\ LeaseInit
    /\ part # "lease" => policy = [lease |-> 2, heartbeat |-> 1]
    /\ RigsInit
    /\ part # "rigs" => script = "storage"
    /\ DevInit
    /\ part # "dev" => \A b \in Bindings : listener[b] = "free"
    /\ CourseInit /\ CreatorInit /\ ExamplesInit /\ AssemblyInit

OnProduction == part = "production" /\ ProductionNext /\ UNCHANGED <<part, limitVars, scriptVars>>
OnAlerts ==
    part = "alerts" /\ AlertsNext /\ UNCHANGED <<part, prodVars, rateVars, leaseVars, scriptVars>>
OnLimits ==
    part = "limits" /\ RateNext /\ UNCHANGED <<part, prodVars, alertVars, leaseVars, scriptVars>>
OnLease ==
    part = "lease" /\ LeaseNext /\ UNCHANGED <<part, prodVars, alertVars, rateVars, scriptVars>>

OnRigs ==
    /\ part = "rigs" /\ RigsNext
    /\ UNCHANGED <<part, prodVars, limitVars, devVars, courseVars, creatorVars, exampleVars, registered>>
OnDev ==
    /\ part = "dev" /\ DevNext
    /\ UNCHANGED <<part, prodVars, limitVars, rigVars, courseVars, creatorVars, exampleVars, registered>>
OnCourse ==
    /\ part = "course" /\ CourseNext
    /\ UNCHANGED <<part, prodVars, limitVars, rigVars, devVars, creatorVars, exampleVars, registered>>
OnCreator ==
    /\ part = "creator" /\ CreatorNext
    /\ UNCHANGED <<part, prodVars, limitVars, rigVars, devVars, courseVars, exampleVars, registered>>
OnExamples ==
    /\ part = "examples" /\ ExamplesNext
    /\ UNCHANGED <<part, prodVars, limitVars, rigVars, devVars, courseVars, creatorVars, registered>>
OnAssembly ==
    /\ part = "assembly" /\ AssemblyNext
    /\ UNCHANGED <<part, prodVars, limitVars, rigVars, devVars, courseVars, creatorVars, exampleVars>>

Next ==
    \/ OnProduction \/ OnAlerts \/ OnLimits \/ OnLease
    \/ OnRigs \/ OnDev \/ OnCourse \/ OnCreator \/ OnExamples \/ OnAssembly

Spec == Init /\ [][Next]_vars

\* What a developer makes of the template stays apart: two projects share no port,
\* removing one example takes nothing of Core or of what another claims outside its
\* directories, and the assembled app of the examples that are left is accepted and opens
\* on a route of its own.
ProductsAreApart == PortsAreApart /\ ExamplesAreApart /\ AssemblyHolds
=============================================================================
