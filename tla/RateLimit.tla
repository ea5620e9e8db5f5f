------------------------------ MODULE RateLimit ------------------------------
(***************************************************************************)
(* One policy of the rate limiter (rate_limit/mod.rs and the platform's    *)
(* WindowCounter) in one API process.  A request reads the clock, then     *)
(* takes a mutex to count itself in the local table, then asks Redis; when *)
(* Redis does not answer within the budget, the local count decides.       *)
(* Requests overtake each other between the three, the table is full,      *)
(* Redis loses its counters or its answers.                                *)
(***************************************************************************)
EXTENDS Integers, FiniteSets

CONSTANTS
    Requests,       \* the requests that may be under way at once
    Clients,        \* the peers, by the digest of their address
    Limit, FallbackLimit,   \* the policy
    Capacity,       \* max_local_entries
    MaxWindow,      \* bounds the windows
    MaxRequests,    \* bounds the requests
    MaxLosses       \* bounds the counters Redis loses before their window is over

ASSUME RateLimitAssumption ==
    /\ FallbackLimit \in Nat \ {0} /\ Limit \in Nat /\ FallbackLimit <= Limit
    /\ Capacity \in Nat \ {0}
    /\ MaxWindow \in Nat \ {0} /\ {MaxRequests, MaxLosses} \subseteq Nat
    /\ IsFiniteSet(Requests) /\ Clients # {}

VARIABLES
    window,         \* now / window_ms
    local,          \* the table: entries, the shared overflow and the window last pruned for
    counter,        \* in Redis, per window and client
    request,        \* the requests under way
    served,         \* history, per window and client: requests let through, and by whom
    jumps,          \* history: requests counted in an older window than one before them
    late,           \* history: requests that Redis counted after their window was over
    losses, arrived

rateVars == <<window, local, counter, request, served, jumps, late, losses, arrived>>

Windows == 1..MaxWindow
Entry == [id : 0..MaxWindow, count : 0..MaxRequests]
NoEntry == [id |-> 0, count |-> 0]
NoRequest == [at |-> "none", client |-> CHOOSE c \in Clients : TRUE, window |-> 0, used |-> 0]

RateTypeOK ==
    /\ window \in Windows
    /\ local \in [table : [Clients -> Entry], overflow : Entry, pruned : 0..MaxWindow]
    /\ counter \in [Windows -> [Clients -> Nat]]
    /\ request \in [Requests -> [at : {"none", "read", "counted"}, client : Clients,
                                 window : 0..MaxWindow, used : 0..MaxRequests]]
    /\ served \in [Windows -> [Clients -> [redis : 0..MaxRequests, local : 0..MaxRequests]]]
    /\ {jumps, late, arrived} \subseteq 0..MaxRequests
    /\ losses \in 0..MaxLosses

RateInit ==
    /\ window = 1
    /\ local = [table |-> [c \in Clients |-> NoEntry], overflow |-> NoEntry, pruned |-> 0]
    /\ counter = [w \in Windows |-> [c \in Clients |-> 0]]
    /\ request = [r \in Requests |-> NoRequest]
    /\ served = [w \in Windows |-> [c \in Clients |-> [redis |-> 0, local |-> 0]]]
    /\ jumps = 0 /\ late = 0 /\ losses = 0 /\ arrived = 0

-----------------------------------------------------------------------------
(* The local table.                                                        *)

\* Window::consume
Consumed(e, w) == [id |-> w, count |-> IF e.id = w THEN e.count + 1 ELSE 1]

\* entries.retain when the window is another one than last time.
Pruned(w) ==
    IF local.pruned = w THEN local.table
    ELSE [c \in Clients |-> IF local.table[c].id = w THEN local.table[c] ELSE NoEntry]

Used(table) == {c \in Clients : table[c] # NoEntry}

InTable(table, c) == c \in Used(table) \/ Cardinality(Used(table)) < Capacity

\* Local::consume
Consume(c, w) ==
    LET table == Pruned(w)
    IN  IF InTable(table, c)
        THEN [local EXCEPT !.pruned = w, !.table = [table EXCEPT ![c] = Consumed(@, w)]]
        ELSE [local EXCEPT !.pruned = w, !.table = table, !.overflow = Consumed(@, w)]

CountOf(c, w) ==
    IF InTable(Pruned(w), c) THEN Consumed(Pruned(w)[c], w).count ELSE Consumed(local.overflow, w).count

-----------------------------------------------------------------------------
(* A request through enforce.                                              *)

Arrive(r, c) ==
    /\ request[r].at = "none" /\ arrived < MaxRequests
    /\ request' = [request EXCEPT ![r] = [at |-> "read", client |-> c, window |-> window, used |-> 0]]
    /\ arrived' = arrived + 1
    /\ UNCHANGED <<window, local, counter, served, jumps, late, losses>>

CountLocally(r) ==
    LET q == request[r]
    IN  /\ q.at = "read"
        /\ local' = Consume(q.client, q.window)
        /\ request' = [request EXCEPT ![r].at = "counted", ![r].used = CountOf(q.client, q.window)]
        /\ jumps' = IF q.window < local.pruned THEN jumps + 1 ELSE jumps
        /\ UNCHANGED <<window, counter, served, late, losses, arrived>>

\* Faulty: the counter is allowed to reach the limit and pass it by one.
FaultyFull(q) == counter[q.window][q.client] > Limit

Full(q) == counter[q.window][q.client] >= Limit

\* The script CONSUME, whether or not its answer comes in time.
Counted(q) == IF Full(q) THEN counter ELSE [counter EXCEPT ![q.window][q.client] = @ + 1]

Let(r, who) ==
    served' = [served EXCEPT ![request[r].window][request[r].client][who] = @ + 1]

Leave(r) == request' = [request EXCEPT ![r] = NoRequest]

RedisAnswers(r) ==
    LET q == request[r]
    IN  /\ q.at = "counted"
        /\ counter' = Counted(q)
        /\ IF Full(q) THEN UNCHANGED served ELSE Let(r, "redis")
        /\ Leave(r)
        /\ late' = IF q.window < window THEN late + 1 ELSE late
        /\ UNCHANGED <<window, local, jumps, losses, arrived>>

\* CounterUnavailable, or no Redis is configured: Totals::local.
FallBack(r) ==
    LET q == request[r]
    IN  /\ q.at = "counted"
        /\ counter' \in {counter, Counted(q)}
        /\ IF q.used <= FallbackLimit THEN Let(r, "local") ELSE UNCHANGED served
        /\ Leave(r)
        /\ UNCHANGED <<window, local, jumps, late, losses, arrived>>

\* Counters of a window that is over expire.
NextWindow ==
    /\ window < MaxWindow
    /\ window' = window + 1
    /\ counter' = [counter EXCEPT ![window] = [c \in Clients |-> 0]]
    /\ UNCHANGED <<local, request, served, jumps, late, losses, arrived>>

\* Redis restarts or evicts: its counters are gone before their time.
LoseCounters ==
    /\ losses < MaxLosses
    /\ counter' = [w \in Windows |-> [c \in Clients |-> 0]]
    /\ losses' = losses + 1
    /\ UNCHANGED <<window, local, request, served, jumps, late, arrived>>

RateNext ==
    \/ \E r \in Requests :
        \/ \E c \in Clients : Arrive(r, c)
        \/ CountLocally(r) \/ RedisAnswers(r) \/ FallBack(r)
    \/ NextWindow
    \/ LoseCounters

-----------------------------------------------------------------------------
(* The property.                                                           *)

\* In one window a client is let through at most Limit times by Redis and FallbackLimit
\* times by the process, however many clients fill the table and however requests and
\* outages interleave.  Each counter that Redis loses early allows Limit more, each
\* request it counts after its window one more; and each request that is counted in an
\* older window than one before it lets the process start its count again, because it
\* prunes the table of the newer window.
WithinBudget ==
    \A w \in Windows, c \in Clients :
        /\ served[w][c].redis <= Limit * (1 + losses) + late
        /\ served[w][c].local <= FallbackLimit * (1 + jumps)
=============================================================================
