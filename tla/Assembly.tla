------------------------------ MODULE Assembly ------------------------------
(***************************************************************************)
(* The assembly of the registered examples into one app (app-contract.ts): *)
(* the routes, navigation, module icons and default entry each contributes *)
(* are validated in the order of registration, and one fault refuses the   *)
(* whole app.  A path is a route and whether it is spelled with a slash at *)
(* its end.  Ids, messages and scenes, which an example cannot take from   *)
(* another because the keys carry its id, are left out, and so is an entry *)
(* pinned by the deployment.                                               *)
(***************************************************************************)
EXTENDS Naturals, Sequences
Ext == INSTANCE SequencesExt

CONSTANTS
    CoreRoutes,      \* CORE_RESERVED_ROUTES
    OwnRoutes,       \* the other routes
    NoPath,
    MaxExamples      \* a bound on the examples registered

VARIABLE registered  \* what the examples contribute, in order

Spelled == (CoreRoutes \X {FALSE}) \cup (OwnRoutes \X BOOLEAN)
Plain == OwnRoutes \X {FALSE}

\* normalizePath.
Normal(path) == path[1]

Contributions ==
    [routes : {paths \in SUBSET Spelled : \A p, q, r \in paths : p = q \/ q = r \/ p = r},
     navigation : Plain \cup {NoPath},
     icon : Plain \cup {NoPath},
     entry : Spelled \cup {NoPath}]

Routes(e) == {Normal(p) : p \in e.routes}
SeenBefore(list, i) == UNION {Routes(list[j]) : j \in 1..(i - 1)}

\* Faulty: an entry may be anywhere.
FaultyOwn(path, e) == TRUE

Own(path, e) == Normal(path) \in Routes(e)

\* validatedExample.  An entry and an icon must be for a route of the example; an item of its
\* navigation may lead to any route that has been seen.
Validated(list, i) ==
    LET e == list[i]
    IN  /\ Routes(e) \cap CoreRoutes = {}
        /\ Routes(e) \cap SeenBefore(list, i) = {}
        /\ \A p, q \in e.routes : p # q => Normal(p) # Normal(q)
        /\ e.navigation # NoPath => Normal(e.navigation) \in SeenBefore(list, i + 1)
        /\ e.entry # NoPath => Own(e.entry, e)
        /\ e.icon # NoPath => Own(e.icon, e)

Accepted(list) == \A i \in 1..Len(list) : Validated(list, i)

\* assembleApp: the first entry that is declared wins.
Declared(list) == {i \in 1..Len(list) : list[i].entry # NoPath}
First(indices) == CHOOSE i \in indices : \A j \in indices : i <= j
DefaultEntry(list) == IF Declared(list) = {} THEN NoPath ELSE Normal(list[First(Declared(list))].entry)

AssemblyInit == registered = <<>>

\* An example is registered; an app that is refused is not built upon.
RegisterExample(e) ==
    /\ Len(registered) < MaxExamples /\ Accepted(registered)
    /\ registered' = Append(registered, e)

AssemblyNext == \E e \in Contributions : RegisterExample(e)

\* The default entry of an app that is accepted is a route of it.  Without one of its examples
\* the app is accepted still and keeps its default entry, unless that was the lost example's
\* (app-contract.ts).  This is so only if no other example's navigation leads into the lost
\* one, which validatedExample lets pass in an example registered later.
AssemblyHolds ==
    Accepted(registered) =>
        /\ DefaultEntry(registered) # NoPath =>
               DefaultEntry(registered) \in SeenBefore(registered, Len(registered) + 1)
        /\ \A i \in 1..Len(registered) :
               LET left == Ext!RemoveAt(registered, i)
                   gone == Routes(registered[i])
               IN  (\A j \in 1..Len(left) : left[j].navigation = NoPath
                                                \/ Normal(left[j].navigation) \notin gone) =>
                       /\ Accepted(left)
                       /\ DefaultEntry(registered) \notin gone =>
                              DefaultEntry(left) = DefaultEntry(registered)
=============================================================================
