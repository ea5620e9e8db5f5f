------------------------------- MODULE Reads -------------------------------
(***************************************************************************)
(* Reading a document through the shared cache of bodies (application.rs): *)
(* a header read inside one transaction says which version the member may  *)
(* read; the body comes from the cache under that version, or from a       *)
(* second transaction that insists on it and then fills the cache.  Other  *)
(* members edit the document, the member's grant comes and goes, the       *)
(* document is deleted, and entries of the cache expire or are written     *)
(* late, by requests that gave up waiting for the write.                   *)
(*                                                                         *)
(* The body of version v is v itself; version 0 is a document nobody can   *)
(* read, because it or its base was deleted.                               *)
(***************************************************************************)
EXTENDS Integers

CONSTANTS
    Readers,        \* the reads of one member that run at once
    MaxVersion      \* bounds the edits

ASSUME ReadsAssumption == MaxVersion \in Nat \ {0}

VARIABLES
    version,    \* of the document, 0 once it is deleted
    allowed,    \* whether the member has a grant, or manages everything
    bodies,     \* the cache: per version the body stored, 0 when there is none
    writes,     \* writes to the cache on their way: [key, body]
    read        \* the reads

readVars == <<version, allowed, bodies, writes, read>>

Versions == 1..MaxVersion
Rounds == 2

\* at: "idle", "header" (a round begins), "lookup", "reread", "fresh", "answered" or "refused".
\* key: the version of the header.  seen (history): the versions that were the document's,
\* for this member, at some instant since the read began.
Unread == [at |-> "idle", round |-> 1, key |-> 0, version |-> 0, body |-> 0, seen |-> {}]

ReadsTypeOK ==
    /\ version \in 0..MaxVersion
    /\ allowed \in BOOLEAN
    /\ bodies \in [Versions -> 0..MaxVersion]
    /\ writes \subseteq [key : Versions, body : Versions]
    /\ read \in [Readers -> [at : {"idle", "header", "lookup", "reread", "fresh", "answered", "refused"},
                             round : 1..Rounds, key : 0..MaxVersion, version : 0..MaxVersion,
                             body : 0..MaxVersion, seen : SUBSET Versions]]

ReadsInit ==
    /\ version = 1
    /\ allowed \in BOOLEAN
    /\ bodies = [v \in Versions |-> 0]
    /\ writes = {}
    /\ read = [r \in Readers |-> Unread]

\* The document as a transaction of the member finds it.
Readable(v, may) == IF may THEN {v} \cap Versions ELSE {}
Current == Readable(version, allowed)

Finished == {"idle", "answered", "refused"}
Running(r) == read[r].at \notin Finished

-----------------------------------------------------------------------------
(* What others do to the document, to the grant and to the cache.          *)

\* Running reads witness the document v, readable or not.
Witness(v, may) ==
    read' = [r \in Readers |->
        IF Running(r) THEN [read[r] EXCEPT !.seen = @ \cup Readable(v, may)] ELSE read[r]]

Update ==
    /\ version \in 1..(MaxVersion - 1)
    /\ version' = version + 1
    /\ Witness(version + 1, allowed)
    /\ UNCHANGED <<allowed, bodies, writes>>

GrantChanges ==
    /\ version # 0
    /\ allowed' = ~allowed
    /\ Witness(version, ~allowed)
    /\ UNCHANGED <<version, bodies, writes>>

Remove ==
    /\ version # 0
    /\ version' = 0
    /\ UNCHANGED <<allowed, bodies, writes, read>>

Expire(v) ==
    /\ bodies[v] # 0
    /\ bodies' = [bodies EXCEPT ![v] = 0]
    /\ UNCHANGED <<version, allowed, writes, read>>

WriteArrives(w) ==
    /\ w \in writes
    /\ writes' = writes \ {w}
    /\ bodies' = [bodies EXCEPT ![w.key] = w.body]
    /\ UNCHANGED <<version, allowed, read>>

WriteLost(w) ==
    /\ w \in writes
    /\ writes' = writes \ {w}
    /\ UNCHANGED <<version, allowed, bodies, read>>

-----------------------------------------------------------------------------
(* A read.                                                                 *)

Goes(r, fields) == read' = [read EXCEPT ![r] = fields]
Answer(r, v, body) ==
    Goes(r, [read[r] EXCEPT !.at = "answered", !.version = v, !.body = body])
Refuse(r) == Goes(r, [read[r] EXCEPT !.at = "refused"])

\* Without a cache the body is read at once.
Start(r) ==
    /\ ~Running(r)
    /\ \E at \in {"header", "fresh"} : Goes(r, [Unread EXCEPT !.at = at, !.seen = Current])
    /\ UNCHANGED <<version, allowed, bodies, writes>>

ReadHeader(r) ==
    /\ read[r].at = "header"
    /\ \/ Current # {} /\ Goes(r, [read[r] EXCEPT !.at = "lookup", !.key = version])
       \/ Current = {} /\ Refuse(r)
    /\ UNCHANGED <<version, allowed, bodies, writes>>

\* A cache that does not answer in time is not asked again.
LookUp(r) ==
    /\ read[r].at = "lookup"
    /\ LET key == read[r].key IN
        \/ bodies[key] # 0 /\ Answer(r, key, bodies[key])
        \/ bodies[key] = 0 /\ Goes(r, [read[r] EXCEPT !.at = "reread"])
        \/ Goes(r, [read[r] EXCEPT !.at = "fresh"])
    /\ UNCHANGED <<version, allowed, bodies, writes>>

\* Faulty: the second transaction accepts any version.
FaultyAccepted(key) == Current

\* The versions a second transaction accepts after the header named key.
Accepted(key) == Current \cap {key}

\* The answer does not wait for its write to arrive; what changed meanwhile costs a round.
Reread(r) ==
    /\ read[r].at = "reread"
    /\ LET key == read[r].key IN
        \/ \E v \in Accepted(key) :
            /\ Answer(r, v, v)
            /\ writes' = writes \cup {[key |-> key, body |-> v]}
        \/ /\ Accepted(key) = {}
           /\ Goes(r, IF read[r].round < Rounds
                      THEN [read[r] EXCEPT !.at = "header", !.round = @ + 1]
                      ELSE [read[r] EXCEPT !.at = "fresh"])
           /\ UNCHANGED writes
    /\ UNCHANGED <<version, allowed, bodies>>

ReadFresh(r) ==
    /\ read[r].at = "fresh"
    /\ \/ Current # {} /\ Answer(r, version, version)
       \/ Current = {} /\ Refuse(r)
    /\ UNCHANGED <<version, allowed, bodies, writes>>

ReadsNext ==
    \/ Update
    \/ GrantChanges
    \/ Remove
    \/ \E v \in Versions : Expire(v)
    \/ \E w \in writes : WriteArrives(w) \/ WriteLost(w)
    \/ \E r \in Readers : Start(r) \/ ReadHeader(r) \/ LookUp(r) \/ Reread(r) \/ ReadFresh(r)

-----------------------------------------------------------------------------
(* Properties                                                              *)

\* An answer carries the body of the version it names, and at some instant of the read
\* the document had that version and the member was allowed to read it: neither a late
\* write, nor an entry another read stored, nor a grant revoked before the read began
\* shows through the cache.
BodyOfVersion ==
    \A r \in Readers : read[r].at = "answered" =>
        /\ read[r].body = read[r].version
        /\ read[r].version \in read[r].seen
=============================================================================
