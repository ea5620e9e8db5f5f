------------------------------- MODULE MCEditor -------------------------------
(* The instance of Editor for TLC: users are interchangeable.              *)
EXTENDS Editor, TLC

Interchangeable == Permutations(Users)

RolesRest == \A u \in Users : role[u] = NoRole
Lowered == {u \in Users : access[u] # "editor"}

\* A bound: three events in one session, or two over two; beside two saves only writes
\* elsewhere.
FewEvents ==
    /\ events + logins <= 4
    /\ submits = 2 => RolesRest /\ Lowered = {} /\ cookie \in live

\* And one story of four events over three sessions: a save that is refused late, after
\* another login, and what it has read when the first user may be back.
RefusedLate ==
    /\ page # "new" /\ ver = 1 /\ submits = 1 /\ RolesRest
    /\ Cardinality(Lowered) <= 1
    /\ events = logins + Cardinality(Lowered)
    /\ Lowered = {} => \A s \in saves : s.stage = "sent"
    /\ saves = {} => \E u \in Users \cup {Nobody} : late[u] # NoLate

Bounds == FewEvents \/ RefusedLate
=============================================================================
