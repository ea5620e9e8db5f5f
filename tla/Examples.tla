------------------------------ MODULE Examples ------------------------------
(***************************************************************************)
(* Examples leave a working copy and come back (scripts/example-add.mjs,   *)
(* lib/example-remove.mjs): what a manifest claims is deleted, the blocks  *)
(* of its markers are cut out of files all examples share, while the       *)
(* developer goes on with code, markers and manifests.  A tool may die     *)
(* between any two writes; git tells the tools whether anything was        *)
(* written since the last commit.                                          *)
(***************************************************************************)
EXTENDS Naturals, Sequences, FiniteSets

CONSTANTS
    MaxTaken,   \* bounds what the developer deletes
    MaxClaims   \* bounds the claims the manifests get to

ASSUME ExamplesAssumption == MaxTaken \in Nat /\ MaxClaims \in Nat

VARIABLES
    present,    \* the paths and dependencies of the copy
    claims,     \* per example, those its manifest claims
    active,     \* the examples whose manifest says so
    block,      \* per shared file and example: "absent", "intact" or "broken"
    committed,  \* the copy as of the last commit
    todo,       \* the writes a tool has still to do
    example,     \* the example it works on
    taken,      \* what the developer has deleted
    removed     \* what an example claimed when a removal of it began, {} before

exampleVars == <<present, claims, active, block, committed, todo, example, taken, removed>>

Ids == {"knowledge", "notes"}
Shared == {"assembly", "views"}
Pieces == {"knowledge code", "extension", "notes code", "zip", "core code"}
Packages == {"zip"}

\* What goes with a path that is deleted, itself included: the extension lies in the directory
\* of the knowledge code.
Within(x) == {x} \cup (IF x = "knowledge code" THEN {"extension"} ELSE {})
AllWithin(paths) == UNION {Within(x) : x \in paths}
NoExample == "none"

\* As shipped, notes is not registered in the assembly.
Unregistered(e) == IF e = "notes" THEN {"assembly"} ELSE {}
Markers(e) == IF e \in active THEN Shared ELSE {}

Copy == [present |-> present, claims |-> claims, active |-> active, block |-> block, taken |-> taken]
Clean == committed = Copy
AtWork == example # NoExample

ExamplesTypeOK ==
    /\ present \subseteq Pieces
    /\ claims \in [Ids -> SUBSET Pieces]
    /\ active \subseteq Ids
    /\ block \in [Shared -> [Ids -> {"absent", "intact", "broken"}]]
    /\ example \in Ids \cup {NoExample}
    /\ taken \subseteq Pieces
    /\ removed \in [Ids -> SUBSET Pieces]

ExamplesInit ==
    /\ present = Pieces
    /\ claims = [e \in Ids |-> IF e = "notes" THEN {"notes code"} ELSE {"knowledge code", "zip"}]
    /\ active = Ids
    /\ block = [f \in Shared |-> [e \in Ids |-> IF f \in Unregistered(e) THEN "absent" ELSE "intact"]]
    /\ taken = {}
    /\ committed = Copy
    /\ todo = <<>> /\ example = NoExample
    /\ removed = [e \in Ids |-> {}]

-----------------------------------------------------------------------------
(* The developer.                                                          *)

DeleteThing(x) ==
    /\ ~AtWork
    /\ Cardinality(taken) < MaxTaken
    /\ present' = present \ Within(x)
    /\ taken' = taken \cup Within(x)
    /\ UNCHANGED <<claims, active, block, committed, todo, example, removed>>

\* A marker is moved, or half of a pair deleted.
Restructure(f, e) ==
    /\ ~AtWork
    /\ block[f][e] = "intact"
    /\ block' = [block EXCEPT ![f][e] = "broken"]
    /\ UNCHANGED <<present, claims, active, committed, todo, example, taken, removed>>

\* A feature is added to a manifest, maybe to that of two examples.
Claim(e, x) ==
    /\ ~AtWork
    /\ e \in active
    /\ x \in present \ {"core code"}
    /\ Cardinality(UNION {{d} \X claims[d] : d \in Ids}) < MaxClaims
    /\ claims' = [claims EXCEPT ![e] = @ \cup {x}]
    /\ UNCHANGED <<present, active, block, committed, todo, example, taken, removed>>

Commit ==
    /\ ~AtWork
    /\ committed' = Copy
    /\ UNCHANGED <<present, claims, active, block, todo, example, taken, removed>>

\* git checkout.
Reset ==
    /\ ~AtWork
    /\ present' = committed.present /\ claims' = committed.claims
    /\ active' = committed.active /\ block' = committed.block
    /\ taken' = committed.taken
    /\ UNCHANGED <<committed, todo, example, removed>>

-----------------------------------------------------------------------------
(* The removal.                                                            *)

\* Faulty: examples may claim the same.
FaultyExclusive == TRUE

\* Nothing is claimed twice; a directory and what lies in it are two things.
Exclusive == \A e, d \in Ids : e # d => claims[e] \cap claims[d] = {}

\* verifyExampleManifests: the claimed paths are there, and a marker is a pair or, if the
\* manifest allows it, absent.
Verified ==
    /\ Exclusive
    /\ \A e \in Ids :
        /\ claims[e] \subseteq present \cup Packages
        /\ \A f \in Markers(e) : block[f][e] = "intact" \/ (block[f][e] = "absent" /\ f \in Unregistered(e))

\* checkRemovalSafety: the removal also wants every marker of the example in its place.
Removable(e) ==
    /\ Verified
    /\ Clean
    /\ \A f \in Markers(e) : block[f][e] = "intact"

\* planExampleRemoval: what a removal writes, in order.
RemovalPlan == <<"paths", "assembly", "views", "dependencies", "manifest">>

BeginRemoval(e) ==
    /\ ~AtWork
    /\ e \in active
    /\ Removable(e)
    /\ example' = e
    /\ todo' = RemovalPlan
    /\ removed' = [removed EXCEPT ![e] = claims[e]]
    /\ UNCHANGED <<present, claims, active, block, committed, taken>>

\* applyExampleRemoval, write by write.
DeleteOwned ==
    /\ \/ Head(todo) = "paths" /\ present' = present \ AllWithin(claims[example] \ Packages)
       \/ Head(todo) = "dependencies" /\ present' = present \ (claims[example] \cap Packages)
    /\ UNCHANGED <<claims, active, block>>

CutBlock ==
    /\ Head(todo) \in Shared
    /\ block' = [block EXCEPT ![Head(todo)][example] = "absent"]
    /\ UNCHANGED <<present, claims, active>>

EmptyManifest ==
    /\ Head(todo) = "manifest"
    /\ claims' = [claims EXCEPT ![example] = {}]
    /\ active' = active \ {example}
    /\ UNCHANGED <<present, block>>

-----------------------------------------------------------------------------
(* The addition.                                                           *)

\* The example is active, the copy clean, the blocks not there, their anchors found.
BeginAddition(e) ==
    /\ ~AtWork
    /\ e \in active
    /\ Clean
    /\ Unregistered(e) # {}
    /\ \A f \in Unregistered(e) : block[f][e] = "absent"
    /\ example' = e
    /\ todo' = <<"splice">>
    /\ UNCHANGED <<present, claims, active, block, committed, taken, removed>>

Splice ==
    /\ Head(todo) = "splice"
    /\ block' = [f \in Shared |-> [e \in Ids |->
            IF e = example /\ f \in Unregistered(e) THEN "intact" ELSE block[f][e]]]
    /\ UNCHANGED <<present, claims, active>>

WriteNext ==
    /\ todo # <<>>
    /\ DeleteOwned \/ CutBlock \/ EmptyManifest \/ Splice
    /\ todo' = Tail(todo)
    /\ UNCHANGED <<committed, example, taken, removed>>

\* The tool is done, has failed to regenerate the derived artifacts, or was killed.
ToolEnds ==
    /\ AtWork
    /\ example' = NoExample
    /\ todo' = <<>>
    /\ UNCHANGED <<present, claims, active, block, committed, taken, removed>>

ExamplesNext ==
    \/ \E x \in Pieces : DeleteThing(x) \/ (\E e \in Ids : Claim(e, x))
    \/ \E f \in Shared, e \in Ids : Restructure(f, e)
    \/ \E e \in Ids : BeginRemoval(e) \/ BeginAddition(e)
    \/ Commit \/ Reset \/ WriteNext \/ ToolEnds

-----------------------------------------------------------------------------
(* Properties.                                                             *)

\* What lies in a directory of an example that a removal was begun for, and is not its own.
Swept == UNION {AllWithin(removed[d] \ Packages) \ removed[d] : d \in Ids}

\* What is missing of an example no removal was begun for, the developer took, or it lay in a
\* directory of an example that was removed: verifyExampleManifests compares claims as strings,
\* so a path inside a claimed directory may be another's, and goes with it, against the comments
\* at lib/example-remove.mjs:146-150 and 231-234.  Nothing else goes: not what a removal that died
\* and was committed, a later one of another example and manifests changed meanwhile would take.
OthersUntouched ==
    \A e \in Ids : removed[e] = {} => claims[e] \subseteq present \cup taken \cup Swept

\* An example that is gone has left nothing.
NothingLeftBehind ==
    \A e \in Ids \ active :
        /\ removed[e] \cap present = {}
        /\ \A f \in Shared : block[f][e] = "absent"

\* Examples are apart: removing one touches neither Core nor what another claims outside its
\* directories, and is complete.
ExamplesAreApart == "core code" \in present \cup taken /\ OthersUntouched /\ NothingLeftBehind
=============================================================================
