------------------------------- MODULE Lists -------------------------------
(***************************************************************************)
(* The paged lists of the web client (packages/views): jobs and the        *)
(* batches of one, exports, attachments, documents, knowledge bases,       *)
(* grants, members, API keys, notifications and audit events.  Each keeps  *)
(* the pages it has read in the query cache, reads them again from the     *)
(* first kept cursor on, reads one more at the end while it drops the      *)
(* first, and starts anew when it is reset; some poll while a row they show *)
(* is under way.  The pages about one thing only (an export, the monitoring *)
(* snapshot, the system status) are lists of one row here.                 *)
(*                                                                         *)
(* Rows that are numbered when they are created are taken to appear in that *)
(* order.  A row is a number, the newer the higher; a page is a sequence of rows as they *)
(* were when the server answered.  Cursor 0 is the start of the list.      *)
(***************************************************************************)
EXTENDS Integers, Sequences, SequencesExt

CONSTANTS
    MaxRow,             \* bounds the rows of the list
    Failing,            \* the rows whose end is a failure, which a retry reopens
    PageSize,           \* the limit of a page, 20 or 50 in the views
    FewPages, ManyPages \* the bounds on kept pages, 5 and 10 in the views

ASSUME ListsAssumption ==
    /\ MaxRow \in Nat \ {0}
    /\ Failing \subseteq 1..MaxRow
    /\ PageSize \in Nat \ {0}
    /\ FewPages \in Nat \ {0}
    /\ ManyPages \in Nat \ {0}

VARIABLES
    rows,       \* the server's rows: "unborn", "open", "ended" or "gone"
    panel,      \* the list on screen
    filter,     \* "all" rows, or only the "ended" ones
    book,       \* the cached pages per filter
    request     \* the request of the list on screen

listVars == <<rows, panel, filter, book, request>>

Id == 1..MaxRow
Filters == {"all", "ended"}

-----------------------------------------------------------------------------
(* The lists.  polls: whether it reads again while a row is open, as its    *)
(* "rows" or the "head" of its first page say, or "always", also after an   *)
(* error; first: the end of the list it starts from; most: how many pages   *)
(* it keeps; filters: whether a chosen filter shows what was cached for it  *)
(* ("kept"), starts anew ("fresh"), or there is none; stays: whether it     *)
(* stays on screen when a further page cannot be read; changes: what        *)
(* happens to its rows: they "end", end and "reopen", are "removed", come   *)
(* and go "scattered" over the order, or each comes as a "batch" of a job   *)
(* after the one before it failed; the "one" row there is ends, or "flips"  *)
(* between two states.                                                      *)

JobList ==
    [polls |-> "rows", first |-> "newest", most |-> FewPages, filters |-> "kept", stays |-> FALSE, changes |-> "reopen"]
JobRecord ==
    [polls |-> "head", first |-> "newest", most |-> FewPages, filters |-> "none", stays |-> FALSE, changes |-> "batch"]
ExportsPanel ==
    [polls |-> "rows", first |-> "newest", most |-> FewPages, filters |-> "none", stays |-> FALSE, changes |-> "end"]
AttachmentsPanel ==
    [polls |-> "no", first |-> "oldest", most |-> ManyPages, filters |-> "none", stays |-> FALSE, changes |-> "scattered"]
DocumentList ==
    [polls |-> "no", first |-> "newest", most |-> ManyPages, filters |-> "fresh", stays |-> TRUE, changes |-> "removed"]
BaseList ==
    [polls |-> "no", first |-> "oldest", most |-> ManyPages, filters |-> "none", stays |-> FALSE, changes |-> "removed"]
Grants ==
    [polls |-> "no", first |-> "oldest", most |-> ManyPages, filters |-> "none", stays |-> FALSE, changes |-> "scattered"]
MembersList ==
    [polls |-> "no", first |-> "oldest", most |-> ManyPages, filters |-> "none", stays |-> TRUE, changes |-> "end"]
KeyList ==
    [polls |-> "no", first |-> "newest", most |-> FewPages, filters |-> "none", stays |-> FALSE, changes |-> "end"]
Inbox ==
    [polls |-> "no", first |-> "newest", most |-> FewPages, filters |-> "kept", stays |-> FALSE, changes |-> "end"]
History ==
    [polls |-> "no", first |-> "newest", most |-> FewPages, filters |-> "fresh", stays |-> FALSE, changes |-> "end"]
ExportResult ==
    [polls |-> "rows", first |-> "newest", most |-> 1, filters |-> "none", stays |-> FALSE, changes |-> "one"]
Monitoring ==
    [polls |-> "always", first |-> "newest", most |-> 1, filters |-> "none", stays |-> FALSE, changes |-> "flips"]
SystemStatus ==
    [polls |-> "no", first |-> "newest", most |-> 1, filters |-> "none", stays |-> FALSE, changes |-> "flips"]

Panels == {JobList, JobRecord, ExportsPanel, AttachmentsPanel, DocumentList, BaseList, Grants,
           MembersList, KeyList, Inbox, History, ExportResult, Monitoring, SystemStatus}

-----------------------------------------------------------------------------
(* The server.                                                             *)

Exists(i) == rows[i] \in {"open", "ended"}
Matching(f) == {i \in Id : Exists(i) /\ (f = "ended" => rows[i] = "ended")}

\* The order of a list: by keys that grow with time, or of users and files.
Sooner(i, j) == IF panel.first = "newest" THEN i > j ELSE i < j

\* Faulty: the number of rows already read instead of a key.
FaultyBelow(c, f) == {i \in Matching(f) : c > 0 => Cardinality({j \in Matching(f) : Sooner(j, i)}) > Cardinality({j \in Id : Sooner(j, c)})}

\* The rows after a cursor, which is the key of the last row that was read.
Below(c, f) == {i \in Matching(f) : c > 0 => Sooner(c, i)}

Single == panel.changes \in {"one", "flips"}
AnyOpen == \E i \in Id : rows[i] = "open"

\* How many of some rows come before a row, and the row before which so many come.
Rank(i, some) == Cardinality({j \in some : Sooner(j, i)})
Nth(k, some) == CHOOSE i \in some : Rank(i, some) = k - 1

\* One page: the first PageSize rows at most, the cursor of the next if there is more,
\* and, for the batches of a job, whether the job was under way.
PageAt(c, f) ==
    LET below == Below(c, f)
        taken == {i \in below : Rank(i, below) < PageSize}
    IN  [rows |-> [k \in 1..Cardinality(taken) |-> [id |-> Nth(k, taken), status |-> rows[Nth(k, taken)]]],
         next |-> IF taken = below THEN 0 ELSE Nth(Cardinality(taken), taken),
         open |-> panel.polls = "head" /\ AnyOpen]

\* A row that is only ever removed has no status, unless a filter looks at it.
Ends == panel.changes \notin {"removed", "scattered"} \/ panel.filters # "none"

RowChanges ==
    /\ \E i \in Id :
        \/ /\ rows[i] = "unborn" \/ (panel = Grants /\ rows[i] = "gone")
           /\ panel.changes = "scattered" \/ \A j \in Id : j < i => rows[j] # "unborn"
           /\ Single => i = 1
           /\ panel.changes = "batch" => ~AnyOpen /\ (i = 1 \/ i - 1 \in Failing)
           /\ rows' = [rows EXCEPT ![i] = "open"]
        \/ rows[i] = "open" /\ Ends /\ rows' = [rows EXCEPT ![i] = "ended"]
        \/ /\ (panel.changes = "reopen" /\ i \in Failing) \/ panel.changes = "flips"
           /\ rows[i] = "ended"
           /\ rows' = [rows EXCEPT ![i] = "open"]
        \/ panel.changes \in {"removed", "scattered"} /\ Exists(i) /\ rows' = [rows EXCEPT ![i] = "gone"]
    /\ UNCHANGED <<panel, filter, book, request>>

-----------------------------------------------------------------------------
(* The cache.                                                              *)

\* Nothing is cached: what a reset leaves.
Empty == [read |-> FALSE, from |-> 0, pages |-> <<>>, error |-> "none"]
Quiet == [stage |-> "idle", kind |-> "all", cursor |-> 0, got |-> <<>>, page |-> [rows |-> <<>>, next |-> 0, open |-> FALSE]]

RowsOf(pages) == UNION {ToSet(pages[k].rows) : k \in DOMAIN pages}

\* What is on screen: an error hides the rows, but for the lists that only hide
\* them when the error is not about a further page.
Screen ==
    LET b == book[filter]
    IN  IF b.error = "none" \/ (b.error = "further" /\ panel.stays) THEN RowsOf(b.pages) ELSE {}

HasNext == book[filter].pages # <<>> /\ Last(book[filter].pages).next > 0

\* A read of everything that is kept starts at the first kept cursor.
Again(b) == [Quiet EXCEPT !.stage = "sent", !.cursor = b.from]

-----------------------------------------------------------------------------
(* The page.                                                               *)

ListsInit ==
    /\ rows \in [Id -> {"unborn", "open"}]
    /\ \A i, j \in Id : i < j /\ rows[j] = "open" => rows[i] = "open"
    /\ panel \in Panels
    /\ Single => \A i \in Id : rows[i] = "open" => i = 1
    /\ panel.changes = "batch" => Cardinality({i \in Id : rows[i] = "open"}) <= 1
    /\ filter = "all"
    /\ book = [f \in Filters |-> Empty]
    /\ request = Again(Empty)

Still == request.stage = "idle"

\* The window gets the focus, or the user presses a button that reads again.
Refresh ==
    /\ Still
    /\ request' = Again(book[filter])
    /\ UNCHANGED <<rows, panel, filter, book>>

\* Faulty: only the first page is looked at.
FaultyUnderWay ==
    LET b == book[filter]
    IN  b.pages # <<>> /\ \E k \in DOMAIN Head(b.pages).rows : Head(b.pages).rows[k].status = "open"

\* A row in some kept page is still under way, or the job was when the first of them
\* was read.
UnderWay ==
    LET b == book[filter]
    IN  \/ panel.polls = "rows" /\ \E row \in RowsOf(b.pages) : row.status = "open"
        \/ panel.polls = "head" /\ b.pages # <<>> /\ b.pages[1].open

\* The interval of a polling list: as long as it has no error and an open row.  The
\* monitoring page has one that nothing stops.
Poll ==
    /\ Still
    /\ panel.polls # "no"
    /\ panel.polls = "always" \/ (book[filter].error = "none" /\ UnderWay)
    /\ request' = Again(book[filter])
    /\ UNCHANGED <<rows, panel, filter, book>>

\* The reset of a list, by its button or after a mutation: what was cached is
\* dropped, a request under way cancelled, and the list read from the start.
Reload ==
    /\ book' = [book EXCEPT ![filter] = Empty]
    /\ request' = Again(Empty)
    /\ UNCHANGED <<rows, panel, filter>>

Further ==
    /\ Still
    /\ HasNext
    /\ request' = [Quiet EXCEPT !.stage = "sent", !.kind = "further",
                                !.cursor = Last(book[filter].pages).next]
    /\ UNCHANGED <<rows, panel, filter, book>>

\* What stays cached when a filter is left.
Remembered == IF panel.filters = "fresh" THEN [f \in Filters |-> Empty] ELSE book

\* Another filter is another query: the request of the old one is cancelled, what
\* is cached for the new one is shown while it is read again.
Choose(f) ==
    /\ panel.filters # "none"
    /\ f # filter
    /\ filter' = f
    /\ book' = Remembered
    /\ request' = Again(Remembered[f])
    /\ UNCHANGED <<rows, panel>>

Answer ==
    /\ request.stage = "sent"
    /\ request' = [request EXCEPT !.stage = "served", !.page = PageAt(request.cursor, filter)]
    /\ UNCHANGED <<rows, panel, filter, book>>

\* Faulty: the page at the end makes room.
FaultyKept(pages) == IF Len(pages) > panel.most THEN SubSeq(pages, 1, panel.most) ELSE pages

\* At most so many pages are kept; the first makes room.
Kept(pages) == IF Len(pages) > panel.most THEN Tail(pages) ELSE pages

\* One more page at the end of those kept.
FurtherArrives ==
    LET b == book[filter]
        longer == Append(b.pages, request.page)
    IN  /\ request.stage = "served"
        /\ request.kind = "further"
        /\ book' = [book EXCEPT ![filter] =
            [b EXCEPT !.pages = Kept(longer),
                      !.from = IF Len(longer) > panel.most THEN b.pages[1].next ELSE @,
                      !.error = "none"]]
        /\ request' = Quiet
        /\ UNCHANGED <<rows, panel, filter>>

\* A page of a list that is read again: the next one is asked for with its cursor
\* until as many pages are read as were kept; only then all are replaced.
PageArrives ==
    LET b == book[filter]
        got == Append(request.got, request.page)
        over == Len(got) >= Len(b.pages) \/ request.page.next = 0
    IN  /\ request.stage = "served"
        /\ request.kind = "all"
        /\ IF over
           THEN /\ book' = [book EXCEPT ![filter] = [b EXCEPT !.read = TRUE, !.pages = got, !.error = "none"]]
                /\ request' = Quiet
           ELSE /\ request' = [request EXCEPT !.stage = "sent", !.cursor = request.page.next, !.got = got]
                /\ UNCHANGED book
        /\ UNCHANGED <<rows, panel, filter>>

\* A failed read keeps the pages and is shown (retry: false); polling ends.
ReadFails ==
    /\ ~Still
    /\ book' = [book EXCEPT ![filter].error = IF request.kind = "all" THEN "all" ELSE "further"]
    /\ request' = Quiet
    /\ UNCHANGED <<rows, panel, filter>>

ListsNext ==
    \/ RowChanges
    \/ Refresh
    \/ Poll
    \/ Reload
    \/ Further
    \/ \E f \in Filters : Choose(f)
    \/ Answer
    \/ FurtherArrives
    \/ PageArrives
    \/ ReadFails

(***************************************************************************)
(* Properties.                                                             *)
(***************************************************************************)

\* Pages of one list, though read at different times while rows come, end, reopen
\* and go, repeat no row, keep the order, and leave no row out between two others
\* (but a user that was granted access, or a file that was completed, since then,
\* which may belong anywhere).
PagesContiguous ==
    \A f \in Filters :
        LET pages == book[f].pages
            ids == {row.id : row \in RowsOf(pages)}
        IN  /\ \A k, l \in DOMAIN pages : \A m \in DOMAIN pages[k].rows, n \in DOMAIN pages[l].rows :
                   k < l \/ (k = l /\ m < n) => Sooner(pages[k].rows[m].id, pages[l].rows[n].id)
            /\ f = "all" /\ panel.changes # "scattered" =>
                   \A i \in Id : Exists(i) /\ (\E u, v \in ids : Sooner(u, i) /\ Sooner(i, v)) => i \in ids

ShownOpen(i) == [id |-> i, status |-> "open"] \in Screen

\* In a list that polls, the end of a row that is shown as under way shows in time:
\* the row changes or the list says that it could not be read.
EndIsShown ==
    \A i \in Id : []<>~(panel.polls # "no" /\ ShownOpen(i) /\ rows[i] = "ended")
=============================================================================
