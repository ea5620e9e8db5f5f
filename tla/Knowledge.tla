----------------------------- MODULE Knowledge -----------------------------
(***************************************************************************)
(* The knowledge module: documents with what hangs on them (Documents) and *)
(* the reads of a document through the cache (Reads).  A read changes      *)
(* nothing but entries of the cache, and nothing but reads looks at them;  *)
(* what a read depends on, the version, the grant and the deletion of the  *)
(* document, changes in Reads in any order, so the two are behaviours of   *)
(* their own.                                                              *)
(***************************************************************************)
EXTENDS Reads, Documents

VARIABLE part       \* "reads" or "documents"

vars == <<part, readVars, docVars>>

\* The part that is not looked at stays as it starts.
Init ==
    /\ part \in {"reads", "documents"}
    /\ ReadsInit /\ (part = "documents" => allowed)
    /\ DocumentsInit /\ (part = "reads" => grant = "none")

OnReads == part = "reads" /\ ReadsNext /\ UNCHANGED <<part, docVars>>
OnDocuments == part = "documents" /\ DocumentsNext /\ UNCHANGED <<part, readVars>>

Next == OnReads \/ OnDocuments

\* A cleanup job that is open is claimed in time and again after each lost attempt.
Spec ==
    /\ Init
    /\ [][Next]_vars
    /\ WF_vars(part = "documents" /\ Cleanup /\ UNCHANGED <<part, readVars>>)

-----------------------------------------------------------------------------
(* What the documents take for granted of the queue and of Files.          *)

BaseJob == <<"base", NoDoc>>
KnowledgeJobs == {BaseJob} \cup ({"document"} \X Docs) \cup ({"export"} \X Exports)

StatusOf(j) ==
    CASE j[1] = "base" -> base.job
      [] j[1] = "document" -> job[j[2]]
      [] j[1] = "export" -> export[j[2]].job
PhaseOf(j) == IF StatusOf(j) = "done" THEN "succeeded" ELSE StatusOf(j)

JobsOf == INSTANCE JobContract WITH
    Jobs <- KnowledgeJobs,
    phase <- [j \in KnowledgeJobs |-> PhaseOf(j)],
    wants <- [j \in KnowledgeJobs |-> FALSE],
    told <- [j \in KnowledgeJobs |-> {}],
    results <- [j \in KnowledgeJobs |-> IF PhaseOf(j) = "succeeded" THEN 1 ELSE 0]

FilesOfDocuments == INSTANCE FileContract WITH
    Files <- DocFiles,
    life <- file,
    served <- {f \in DocFiles : file[f] = "ready"}

\* The cleanups and exports use the queue as it allows: a job is enqueued once, settles once,
\* and is reopened only after it was given up, even when a base cleanup enqueues many at once.
JobsKeepContract == JobsOf!Spec

\* Documents do nothing to files that Files would not do: none is published twice, after it was
\* discarded or before it was there, and none comes back.
FilesKeepContract == FilesOfDocuments!Spec
=============================================================================
