----------------------------- MODULE Documents -----------------------------
(***************************************************************************)
(* A knowledge base, its documents, their attachments and exports, and     *)
(* what deleting a document or the base leaves to the worker (application, *)
(* attachments, deletion and exports of modules/knowledge).  Every action  *)
(* that touches a document is one transaction, which holds the membership, *)
(* the base and the document until it commits; between the transactions of *)
(* a completion or of an export anything may happen.                       *)
(*                                                                         *)
(* A file is "none", "pending", "ready" or "dead" (expired, rejected or    *)
(* marked for deletion): what becomes of it and of its objects is Files.   *)
(* A cleanup job is "none", "open", "done" or "failed": its leases and     *)
(* attempts are Jobs.  A cleanup keeps nothing between two transactions,   *)
(* so a worker that dies or loses its lease only delays the next one.      *)
(***************************************************************************)
EXTENDS Integers, FiniteSets

CONSTANTS
    MaxDocs,        \* bounds the documents
    MaxFiles,       \* bounds the files: attachments and generated archives
    Exports,
    Batch           \* rows a cleanup takes in one transaction (100 in the code)

ASSUME DocumentsAssumption ==
    /\ MaxDocs \in Nat
    /\ MaxFiles \in Nat
    /\ Batch \in Nat \ {0}

\* Ids are UUIDs of version 7: they grow with time.
Docs == 1..MaxDocs
DocFiles == 1..MaxFiles
NoDoc == 0
NoFile == 0

VARIABLES
    base,       \* [live, job]
    doc,        \* per document: "none", "live", "deleted" (deleted_at is set) or "gone"
    job,        \* per document: its cleanup job
    file,       \* per file its state
    home,       \* per file the document it was made for (history)
    uploads,    \* attachment_uploads: the pairs <<file, document>>
    attached,   \* attachments: the pairs <<file, document>>
    grant,      \* the member's access: "none", "reader" or "editor"
    session,    \* whether the credential of the member's exports is current
    export      \* the exports, with the attempt that is running

docVars == <<base, doc, job, file, home, uploads, attached, grant, session, export>>

JobStates == {"none", "open", "done", "failed"}

\* kept: the snapshot is still there.  files: the attachments it names.  result: file_id.
\* at, candidate: the running attempt: "idle", "building" (authorized), "writing".
Unrequested == [doc |-> NoDoc, kept |-> FALSE, files |-> {}, result |-> NoFile, expired |-> FALSE,
                job |-> "none", at |-> "idle", candidate |-> NoFile]

ExportType ==
    [doc : Docs \cup {NoDoc}, kept : BOOLEAN, files : SUBSET DocFiles, result : DocFiles \cup {NoFile},
     expired : BOOLEAN, job : JobStates, at : {"idle", "building", "writing"},
     candidate : DocFiles \cup {NoFile}]

DocumentsTypeOK ==
    /\ base \in [live : BOOLEAN, job : JobStates]
    /\ doc \in [Docs -> {"none", "live", "deleted", "gone"}]
    /\ job \in [Docs -> JobStates]
    /\ file \in [DocFiles -> {"none", "pending", "ready", "dead"}]
    /\ home \in [DocFiles -> Docs \cup {NoDoc}]
    /\ uploads \subseteq DocFiles \X Docs
    /\ attached \subseteq DocFiles \X Docs
    /\ grant \in {"none", "reader", "editor"}
    /\ session \in BOOLEAN
    /\ export \in [Exports -> ExportType]

DocumentsInit ==
    /\ base = [live |-> TRUE, job |-> "none"]
    /\ doc = [d \in Docs |-> "none"]
    /\ job = [d \in Docs |-> "none"]
    /\ file = [f \in DocFiles |-> "none"]
    /\ home = [f \in DocFiles |-> NoDoc]
    /\ uploads = {}
    /\ attached = {}
    /\ grant \in {"none", "reader", "editor"}
    /\ session = TRUE
    /\ export = [e \in Exports |-> Unrequested]

rows == <<base, doc, job>>
links == <<uploads, attached>>
member == <<grant, session>>

-----------------------------------------------------------------------------
(* What the transactions share.                                            *)

\* lock_document: the base and the document are not deleted and the member has a grant.
MayRead(d) == base.live /\ doc[d] = "live" /\ grant # "none"
MayWrite(d) == base.live /\ doc[d] = "live" /\ grant = "editor"

\* mark_deleting, for each file of a set.
Dies(S) == [f \in DocFiles |-> IF f \in S THEN "dead" ELSE file[f]]

Pairs(d, S) == S \X {d}
FilesOf(d, rel) == {f \in DocFiles : <<f, d>> \in rel}
Set(e, fields) == export' = [export EXCEPT ![e] = fields]

\* A file row for document d, not yet stored.
NewFile(f, d) ==
    /\ file[f] = "none" /\ \A g \in 1..(f - 1) : file[g] # "none"
    /\ file' = [file EXCEPT ![f] = "pending"]
    /\ home' = [home EXCEPT ![f] = d]

\* files::publish adopts a candidate whose row is still pending.
Adopt(f) ==
    /\ file[f] = "pending"
    /\ file' = [file EXCEPT ![f] = "ready"]

-----------------------------------------------------------------------------
(* Documents, grants and sessions.                                         *)

CreateDocument(d) ==
    /\ base.live
    /\ doc[d] = "none" /\ \A c \in 1..(d - 1) : doc[c] # "none"
    /\ doc' = [doc EXCEPT ![d] = "live"]
    /\ UNCHANGED <<base, job, file, home, links, member, export>>

\* queue_document_cleanup, for the documents of a set.
QueueCleanup(S) ==
    /\ doc' = [d \in Docs |-> IF d \in S THEN "deleted" ELSE doc[d]]
    /\ job' = [d \in Docs |-> IF d \in S THEN "open" ELSE job[d]]

DeleteDocument(d) ==
    /\ MayWrite(d)
    /\ QueueCleanup({d})
    /\ UNCHANGED <<base, file, home, links, member, export>>

DeleteBase ==
    /\ base.live
    /\ base' = [live |-> FALSE, job |-> "open"]
    /\ UNCHANGED <<doc, job, file, home, links, member, export>>

\* A manager of the base assigns or revokes the grant.
ChangeGrant ==
    /\ base.live
    /\ \E g \in {"none", "reader", "editor"} \ {grant} : grant' = g
    /\ UNCHANGED <<rows, file, home, links, session, export>>

SessionEnds ==
    /\ session
    /\ session' = FALSE
    /\ UNCHANGED <<rows, file, home, links, grant, export>>

-----------------------------------------------------------------------------
(* Attachments.                                                            *)

StartUpload(f, d) ==
    /\ MayWrite(d)
    /\ NewFile(f, d)
    /\ uploads' = uploads \cup {<<f, d>>}
    /\ UNCHANGED <<rows, attached, member, export>>

\* The last transaction of a completion.  It takes the document again and checks again
\* what the plan had checked before the copy was verified, so no trace of the plan is kept.
CompleteUpload(f, d) ==
    /\ MayWrite(d)
    /\ <<f, d>> \in uploads
    /\ Adopt(f)
    /\ attached' = attached \cup {<<f, d>>}
    /\ UNCHANGED <<rows, home, uploads, member, export>>

\* A completion finds bad bytes, or the maintenance of files ends what nobody completed.
EndFile(f) ==
    /\ file[f] = "pending"
    /\ file' = [file EXCEPT ![f] = "dead"]
    /\ UNCHANGED <<rows, home, links, member, export>>

RemoveAttachment(f, d) ==
    /\ MayWrite(d)
    /\ <<f, d>> \in attached
    /\ attached' = attached \ {<<f, d>>}
    /\ uploads' = uploads \ {<<f, d>>}
    /\ file' = Dies({f})
    /\ UNCHANGED <<rows, home, member, export>>

-----------------------------------------------------------------------------
(* Exports.  An attempt authorizes itself three times: before it reads the *)
(* attachments, before it registers its archive and when it publishes.     *)

RequestExport(e, d) ==
    /\ MayRead(d) /\ session
    /\ export[e].job = "none"
    /\ \A f \in FilesOf(d, attached) : file[f] = "ready"
    /\ Set(e, [Unrequested EXCEPT !.doc = d, !.kept = TRUE, !.files = FilesOf(d, attached), !.job = "open"])
    /\ UNCHANGED <<rows, file, home, links, member>>

\* authorize: the requester may still read the document, the credential is current and
\* every attachment of the snapshot is as it was.
Authorized(e) ==
    /\ ~export[e].expired
    /\ MayRead(export[e].doc) /\ session
    /\ \A f \in export[e].files : file[f] = "ready"

Exists(e) == export[e].doc # NoDoc /\ doc[export[e].doc] # "gone"
Attempting(e, at) == Exists(e) /\ export[e].job = "open" /\ export[e].at = at

BeginExport(e) ==
    /\ Attempting(e, "idle")
    /\ export[e].kept
    /\ Authorized(e)
    /\ Set(e, [export[e] EXCEPT !.at = "building"])
    /\ UNCHANGED <<rows, file, home, links, member>>

PrepareArchive(e, f) ==
    /\ Attempting(e, "building")
    /\ Authorized(e)
    /\ NewFile(f, export[e].doc)
    /\ Set(e, [export[e] EXCEPT !.at = "writing", !.candidate = f])
    /\ UNCHANGED <<rows, links, member>>

\* Faulty: the authorization is not repeated when the archive is published.
FaultyMayPublish(e) == Exists(e)

\* What the last transaction asks for besides a result that is still missing.
MayPublish(e) == Authorized(e)

PublishExport(e) ==
    /\ Attempting(e, "writing")
    /\ MayPublish(e)
    /\ export[e].result = NoFile /\ ~export[e].expired
    /\ Adopt(export[e].candidate)
    /\ Set(e, [export[e] EXCEPT !.result = export[e].candidate, !.job = "done", !.at = "idle", !.candidate = NoFile])
    /\ UNCHANGED <<rows, home, links, member>>

\* The attempt is lost with its worker or its lease, or meets a transient error.
AttemptLost(e) ==
    /\ export[e].at # "idle"
    /\ Set(e, [export[e] EXCEPT !.at = "idle", !.candidate = NoFile])
    /\ UNCHANGED <<rows, file, home, links, member>>

\* A permanent error (the authorization, the snapshot or the candidate is gone), or the
\* last attempt.
ExportFails(e) ==
    /\ export[e].job = "open"
    /\ Set(e, [export[e] EXCEPT !.job = "failed", !.at = "idle", !.candidate = NoFile])
    /\ UNCHANGED <<rows, file, home, links, member>>

\* An administrator retries the job.
RetryExport(e) ==
    /\ export[e].job = "failed"
    /\ Set(e, [export[e] EXCEPT !.job = "open"])
    /\ UNCHANGED <<rows, file, home, links, member>>

RetentionEnds(e) ==
    /\ Exists(e) /\ ~export[e].expired
    /\ Set(e, [export[e] EXCEPT !.expired = TRUE])
    /\ UNCHANGED <<rows, file, home, links, member>>

\* The maintenance of exports.
ExpireExport(e) ==
    /\ Exists(e) /\ export[e].expired
    /\ export[e].kept \/ export[e].result # NoFile
    /\ file' = Dies({export[e].result})
    /\ Set(e, [export[e] EXCEPT !.kept = FALSE, !.result = NoFile])
    /\ UNCHANGED <<rows, home, links, member>>

-----------------------------------------------------------------------------
(* The cleanup jobs: one transaction per batch.                            *)

\* The ids of S a transaction takes: the first in their order.
FirstOf(S) == {x \in S : Cardinality({y \in S : y < x}) < Batch}

\* Faulty: the last batch, when it is not a full one, is taken for an empty one.
FaultyLiveDocs == {d \in Docs : doc[d] = "live" /\ \E c \in Docs \ {d} : doc[c] = "live"}

LiveDocs == {d \in Docs : doc[d] = "live"}

CleanupBase ==
    /\ base.job = "open"
    /\ \/ /\ LiveDocs # {}
          /\ QueueCleanup(FirstOf(LiveDocs))
          /\ UNCHANGED <<base, grant>>
       \/ /\ LiveDocs = {}
          /\ grant' = "none"
          /\ base' = [base EXCEPT !.job = "done"]
          /\ UNCHANGED <<doc, job>>
    /\ UNCHANGED <<file, home, links, session, export>>

ResultsOf(d) == {export[e].result : e \in {x \in Exports : export[x].doc = d}} \ {NoFile}
\* Faulty: a cleanup that knows nothing of exports.
FaultyLinkedTo(d) == FilesOf(d, uploads) \cup FilesOf(d, attached)

LinkedTo(d) == FilesOf(d, uploads) \cup FilesOf(d, attached) \cup ResultsOf(d)

\* The files of a batch die and their links go with them, the exports that have a file too.
CleanupFiles(d) ==
    LET S == FirstOf(LinkedTo(d)) IN
        /\ file' = Dies(S)
        /\ uploads' = uploads \ Pairs(d, S)
        /\ attached' = attached \ Pairs(d, S)
        /\ export' = [e \in Exports |->
            IF export[e].doc = d /\ export[e].result \in S
            THEN [export[e] EXCEPT !.doc = NoDoc, !.kept = FALSE, !.result = NoFile] ELSE export[e]]
        /\ UNCHANGED <<doc, job>>

\* The exports without a file go with the document.
RemoveDocument(d) ==
    /\ doc' = [doc EXCEPT ![d] = "gone"]
    /\ job' = [job EXCEPT ![d] = "done"]
    /\ export' = [e \in Exports |->
        IF export[e].doc = d THEN [export[e] EXCEPT !.doc = NoDoc, !.kept = FALSE, !.result = NoFile]
        ELSE export[e]]
    /\ UNCHANGED <<file, links>>

CleanupDocument(d) ==
    /\ job[d] = "open"
    /\ \/ LinkedTo(d) # {} /\ CleanupFiles(d)
       \/ LinkedTo(d) = {} /\ RemoveDocument(d)
    /\ UNCHANGED <<base, home, member>>

\* The last attempt of a cleanup fails, and an administrator may retry it.  Bound: one
\* cleanup at a time is given up.
GivenUp == base.job = "failed" \/ \E d \in Docs : job[d] = "failed"

CleanupFails ==
    /\ ~GivenUp
    /\ \/ base.job = "open" /\ base' = [base EXCEPT !.job = "failed"] /\ UNCHANGED job
       \/ \E d \in Docs : job[d] = "open" /\ job' = [job EXCEPT ![d] = "failed"] /\ UNCHANGED base
    /\ UNCHANGED <<doc, file, home, links, member, export>>

RetryCleanup ==
    /\ \/ base.job = "failed" /\ base' = [base EXCEPT !.job = "open"] /\ UNCHANGED job
       \/ \E d \in Docs : job[d] = "failed" /\ job' = [job EXCEPT ![d] = "open"] /\ UNCHANGED base
    /\ UNCHANGED <<doc, file, home, links, member, export>>

Cleanup == CleanupBase \/ \E d \in Docs : CleanupDocument(d)

DocumentsNext ==
    \/ \E d \in Docs : CreateDocument(d) \/ DeleteDocument(d)
    \/ DeleteBase \/ ChangeGrant \/ SessionEnds
    \/ \E f \in DocFiles, d \in Docs :
        StartUpload(f, d) \/ CompleteUpload(f, d) \/ RemoveAttachment(f, d)
    \/ \E f \in DocFiles : EndFile(f)
    \/ \E e \in Exports, d \in Docs : RequestExport(e, d)
    \/ \E e \in Exports, f \in DocFiles : PrepareArchive(e, f)
    \/ \E e \in Exports :
        \/ BeginExport(e) \/ PublishExport(e) \/ AttemptLost(e) \/ ExportFails(e)
        \/ RetryExport(e) \/ RetentionEnds(e) \/ ExpireExport(e)
    \/ Cleanup
    \/ CleanupFails \/ RetryCleanup

-----------------------------------------------------------------------------
(* Properties                                                              *)

\* What a document links to can be read: an attachment or the archive of an export is a
\* ready file, whatever removal, expiry, publication or batch of a cleanup came between.
LinksAlive ==
    /\ \A pair \in attached : file[pair[1]] = "ready"
    /\ \A e \in Exports : export[e].result # NoFile => file[export[e].result] = "ready"

\* A document goes last: when its row is removed, no file made for it is ready or can
\* become so, although uploads and exports of it may still be under way.
NothingLeft ==
    \A f \in DocFiles : home[f] # NoDoc /\ doc[home[f]] = "gone" =>
        /\ file[f] # "ready"
        /\ \A d \in Docs : <<f, d>> \notin uploads \cup attached

\* The files of documents are neither lost nor left over.
FilesAreAccounted == LinksAlive /\ NothingLeft

\* An archive is published for someone who may still read the document, before its
\* retention ends, and only while everything in it is still attached to the document:
\* what was revoked or removed while it was built does not leave in it.
ExportIsCurrent ==
    [][\A e \in Exports : export[e].result = NoFile /\ export'[e].result # NoFile =>
        /\ session /\ MayRead(export[e].doc) /\ ~export[e].expired
        /\ \A f \in export[e].files : <<f, export[e].doc>> \in attached]_docVars

\* A deleted base loses all its documents, unless one of the cleanup jobs was given up.
Emptied == \A d \in Docs : doc[d] \in {"none", "gone"}
DeletionEnds == []<>(base.live \/ Emptied \/ GivenUp)
=============================================================================
