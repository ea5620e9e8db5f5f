-------------------------- MODULE KnowledgeProofs --------------------------
(***************************************************************************)
(* Proofs about the knowledge module, for any number of reads, documents,  *)
(* files and exports and any batch: an answer is a version the member      *)
(* could read (ReadCorrect), files are neither lost nor left over          *)
(* (AccountedCorrect), an export leaves only while everything in it may    *)
(* still be read (CurrentCorrect), and files and jobs are used as Files    *)
(* and the queue allow (FilesContractKept, JobsContractKept).              *)
(***************************************************************************)
EXTENDS Knowledge, TLAPS

-----------------------------------------------------------------------------
(* Reads.                                                                  *)

\* What a cached body, a write on its way and a read that runs rest on.
CacheIsTrue ==
    /\ \A v \in Versions : bodies[v] \in {0, v}
    /\ \A w \in writes : w.body = w.key

KeyWasSeen(x) == x.at \in {"lookup", "reread"} => x.key \in Versions /\ x.key \in x.seen
SeesNow(x) == x.at \in {"header", "lookup", "reread", "fresh"} => Current \subseteq x.seen
AnswerIsSound(x) == x.at = "answered" => x.body = x.version /\ x.version \in x.seen

ReadOK(x) == KeyWasSeen(x) /\ SeesNow(x) /\ AnswerIsSound(x)

ReadsInv ==
    /\ ReadsTypeOK
    /\ CacheIsTrue
    /\ \A r \in Readers : ReadOK(read[r])

ReadType ==
    [at : {"idle", "header", "lookup", "reread", "fresh", "answered", "refused"},
     round : 1..Rounds, key : 0..MaxVersion, version : 0..MaxVersion,
     body : 0..MaxVersion, seen : SUBSET Versions]

\* The document as it is, is a version or nothing.
LEMMA CurrentIsVersion ==
    ASSUME ReadsTypeOK
    PROVE  /\ Current \in SUBSET Versions
           /\ \A v \in Current : v = version
           /\ Current # {} => version \in Versions /\ version \in Current
    BY DEF ReadsTypeOK, Current, Readable, Versions

\* No read has begun, and the cache is empty.
LEMMA ReadsStart == ReadsInit => ReadsInv
<1> SUFFICES ASSUME ReadsInit PROVE ReadsInv
    OBVIOUS
<1> USE ReadsAssumption
<1>1. ReadsTypeOK
    BY DEF ReadsInit, ReadsTypeOK, Unread, Versions, Rounds
<1>2. CacheIsTrue
    BY DEF ReadsInit, CacheIsTrue
<1>3. \A r \in Readers : ReadOK(read[r])
    BY DEF ReadsInit, ReadOK, KeyWasSeen, SeesNow, AnswerIsSound, Unread
<1>4. QED
    BY <1>1, <1>2, <1>3 DEF ReadsInv

\* A change of the document or of the grant is witnessed by the reads that run.
LEMMA WitnessKeeps ==
    ASSUME ReadsInv,
           NEW v \in 0..MaxVersion, NEW may \in BOOLEAN,
           Witness(v, may), version' = v, allowed' = may,
           UNCHANGED <<bodies, writes>>
    PROVE  ReadsInv'
<1> DEFINE now == Readable(v, may)
<1>1. now \in SUBSET Versions /\ Current' = now
    BY DEF Readable, Current
<1>2. \A r \in Readers : read'[r] =
        IF Running(r) THEN [read[r] EXCEPT !.seen = @ \cup now] ELSE read[r]
    BY DEF Witness
<1>3. read' \in [Readers -> ReadType]
    <2>1. \A r \in Readers : read'[r] \in ReadType
        <3> TAKE r \in Readers
        <3>1. read[r] \in ReadType
            BY DEF ReadsInv, ReadsTypeOK, ReadType
        <3> HIDE DEF now
        <3>2. QED
            BY <1>1, <1>2, <3>1, ZenonT(60) DEF ReadType
    <2>2. QED
        BY <2>1 DEF Witness
<1>4. ReadsTypeOK'
    BY <1>3 DEF ReadsInv, ReadsTypeOK, ReadType, Versions
<1>5. CacheIsTrue'
    BY DEF ReadsInv, CacheIsTrue
<1>6. \A r \in Readers : ReadOK(read[r])'
    <2> TAKE r \in Readers
    <2>1. read[r] \in ReadType /\ ReadOK(read[r])
        BY DEF ReadsInv, ReadsTypeOK, ReadType
    <2> HIDE DEF now
    <2>2. CASE Running(r)
        <3>1. read'[r] = [read[r] EXCEPT !.seen = @ \cup now]
            BY <1>2, <2>2
        <3>2. /\ read'[r].at = read[r].at /\ read'[r].key = read[r].key
              /\ read'[r].seen = read[r].seen \cup now
            BY <2>1, <3>1 DEF ReadType
        <3>3. read[r].at # "answered"
            BY <2>2 DEF Running, Finished
        <3>4. QED
            BY <1>1, <2>1, <3>2, <3>3 DEF ReadOK, KeyWasSeen, SeesNow, AnswerIsSound
    <2>3. CASE ~Running(r)
        <3>1. read'[r] = read[r]
            BY <1>2, <2>3
        <3>2. read[r].at \notin {"header", "lookup", "reread", "fresh"}
            BY <2>3 DEF Running, Finished
        <3>3. QED
            BY <2>1, <3>1, <3>2 DEF ReadOK, KeyWasSeen, SeesNow, AnswerIsSound
    <2>4. QED
        BY <2>2, <2>3
<1>7. QED
    BY <1>4, <1>5, <1>6 DEF ReadsInv

\* A step of one read that leaves the document as it is.
LEMMA GoesKeeps ==
    ASSUME ReadsInv,
           NEW r \in Readers, NEW x \in ReadType,
           Goes(r, x), ReadOK(x),
           UNCHANGED <<version, allowed, bodies>>,
           writes' \subseteq [key : Versions, body : Versions],
           \A w \in writes' : w.body = w.key
    PROVE  ReadsInv'
<1>1. Current' = Current
    BY DEF Current
<1>2. read' = [read EXCEPT ![r] = x] /\ read \in [Readers -> ReadType]
    BY DEF Goes, ReadsInv, ReadsTypeOK, ReadType
<1>3. read' \in [Readers -> ReadType]
    BY <1>2
<1>4. ReadsTypeOK'
    BY <1>3 DEF ReadsInv, ReadsTypeOK, ReadType, Versions
<1>5. CacheIsTrue'
    BY DEF ReadsInv, CacheIsTrue
<1>6. \A q \in Readers : ReadOK(read[q])'
    <2> TAKE q \in Readers
    <2>1. ReadOK(read'[q])
        BY <1>2 DEF ReadsInv
    <2>2. QED
        BY <1>1, <2>1 DEF ReadOK, KeyWasSeen, SeesNow, AnswerIsSound
<1>7. QED
    BY <1>4, <1>5, <1>6 DEF ReadsInv

\* Entries of the cache come and go.
LEMMA CacheKeeps ==
    ASSUME ReadsInv, UNCHANGED <<version, allowed, read>>,
           bodies' \in [Versions -> 0..MaxVersion], CacheIsTrue',
           writes' \subseteq [key : Versions, body : Versions]
    PROVE  ReadsInv'
<1>1. ReadsTypeOK'
    BY DEF ReadsInv, ReadsTypeOK, Versions
<1>2. \A r \in Readers : ReadOK(read[r])'
    BY DEF ReadsInv, ReadOK, KeyWasSeen, SeesNow, AnswerIsSound, Current
<1>3. QED
    BY <1>1, <1>2 DEF ReadsInv

\* Every step of the reads and of what happens around them keeps the invariant.
LEMMA ReadsStep == ReadsInv /\ [ReadsNext]_readVars => ReadsInv'
<1> SUFFICES ASSUME ReadsInv, [ReadsNext]_readVars PROVE ReadsInv'
    OBVIOUS
<1> USE ReadsAssumption
<1>t. /\ version \in 0..MaxVersion /\ allowed \in BOOLEAN /\ CacheIsTrue
      /\ bodies \in [Versions -> 0..MaxVersion]
      /\ writes \subseteq [key : Versions, body : Versions]
      /\ \A r \in Readers : read[r] \in ReadType /\ ReadOK(read[r])
    BY DEF ReadsInv, ReadsTypeOK, ReadType
<1>w. \A w \in writes : w.body = w.key
    BY <1>t DEF CacheIsTrue
<1>c. /\ Current \in SUBSET Versions
      /\ \A v \in Current : v = version
      /\ Current # {} => version \in Versions /\ version \in Current
    BY CurrentIsVersion DEF ReadsInv
<1>1. CASE Update
    <2>1. version + 1 \in 0..MaxVersion
        BY <1>1, <1>t DEF Update
    <2>2. QED
        BY <1>1, <1>t, <2>1, WitnessKeeps DEF Update
<1>2. CASE GrantChanges
    BY <1>2, <1>t, WitnessKeeps DEF GrantChanges
<1>3. CASE Remove
    <2>1. Current' = {}
        BY <1>3 DEF Remove, Current, Readable, Versions
    <2>2. ReadsTypeOK'
        BY <1>3 DEF ReadsInv, ReadsTypeOK, Remove, Versions
    <2>3. CacheIsTrue'
        BY <1>3, <1>t DEF CacheIsTrue, Remove
    <2>4. \A r \in Readers : ReadOK(read[r])'
        BY <1>3, <1>t, <2>1 DEF Remove, ReadOK, KeyWasSeen, SeesNow, AnswerIsSound
    <2>5. QED
        BY <2>2, <2>3, <2>4 DEF ReadsInv
<1>4. ASSUME NEW v \in Versions, Expire(v) PROVE ReadsInv'
    <2>1. bodies' = [bodies EXCEPT ![v] = 0] /\ UNCHANGED <<version, allowed, writes, read>>
        BY <1>4 DEF Expire
    <2>2. bodies' \in [Versions -> 0..MaxVersion]
        BY <2>1, <1>t
    <2>3. CacheIsTrue'
        BY <2>1, <1>t DEF CacheIsTrue
    <2>4. QED
        BY <1>t, <2>1, <2>2, <2>3, CacheKeeps
<1>5. ASSUME NEW w \in writes, WriteArrives(w) PROVE ReadsInv'
    <2>1. /\ bodies' = [bodies EXCEPT ![w.key] = w.body]
          /\ writes' = writes \ {w} /\ UNCHANGED <<version, allowed, read>>
        BY <1>5 DEF WriteArrives
    <2>2. w.key \in Versions /\ w.body = w.key
        BY <1>t, <1>w
    <2>3. Versions \subseteq 0..MaxVersion
        BY DEF Versions
    <2>4. bodies' \in [Versions -> 0..MaxVersion]
        BY <2>1, <2>2, <2>3, <1>t
    <2>5. CacheIsTrue'
        BY <2>1, <2>2, <1>t DEF CacheIsTrue
    <2>6. QED
        BY <1>t, <2>1, <2>4, <2>5, CacheKeeps
<1>6. ASSUME NEW w \in writes, WriteLost(w) PROVE ReadsInv'
    <2>1. writes' = writes \ {w} /\ UNCHANGED <<version, allowed, bodies, read>>
        BY <1>6 DEF WriteLost
    <2>2. CacheIsTrue'
        BY <2>1, <1>t DEF CacheIsTrue
    <2>3. QED
        BY <1>t, <2>1, <2>2, CacheKeeps
<1>7. ASSUME NEW r \in Readers, Start(r) PROVE ReadsInv'
    <2>1. PICK at \in {"header", "fresh"} : Goes(r, [Unread EXCEPT !.at = at, !.seen = Current])
        BY <1>7 DEF Start
    <2> DEFINE x == [Unread EXCEPT !.at = at, !.seen = Current]
    <2>u. Unread \in ReadType
        BY DEF Unread, ReadType, Rounds, Versions
    <2>2. x \in ReadType
        BY <1>c, <2>u DEF ReadType
    <2>3. ReadOK(x)
        BY DEF ReadOK, KeyWasSeen, SeesNow, AnswerIsSound, Unread
    <2>4. QED
        BY <1>7, <1>t, <1>w, <2>1, <2>2, <2>3, GoesKeeps DEF Start
<1>8. ASSUME NEW r \in Readers, ReadHeader(r) PROVE ReadsInv'
    <2>0. read[r].at = "header" /\ UNCHANGED <<version, allowed, bodies, writes>>
        BY <1>8 DEF ReadHeader
    <2>1. CASE Current # {} /\ Goes(r, [read[r] EXCEPT !.at = "lookup", !.key = version])
        <3> DEFINE x == [read[r] EXCEPT !.at = "lookup", !.key = version]
        <3>1. x \in ReadType
            BY <1>t DEF ReadType
        <3>2. x.at = "lookup" /\ x.key = version /\ x.seen = read[r].seen
            BY <1>t DEF ReadType
        <3>3. Current \subseteq x.seen
            BY <1>t, <2>0, <3>2 DEF ReadOK, SeesNow
        <3>4. ReadOK(x)
            BY <1>c, <2>1, <3>2, <3>3 DEF ReadOK, KeyWasSeen, SeesNow, AnswerIsSound
        <3>5. QED
            BY <1>t, <1>w, <2>0, <2>1, <3>1, <3>4, GoesKeeps
    <2>2. CASE Current = {} /\ Refuse(r)
        <3> DEFINE x == [read[r] EXCEPT !.at = "refused"]
        <3>1. x \in ReadType /\ x.at = "refused"
            BY <1>t DEF ReadType
        <3>2. ReadOK(x)
            BY <3>1 DEF ReadOK, KeyWasSeen, SeesNow, AnswerIsSound
        <3>3. QED
            BY <1>t, <1>w, <2>0, <2>2, <3>1, <3>2, GoesKeeps DEF Refuse
    <2>3. QED
        BY <1>8, <2>1, <2>2 DEF ReadHeader
<1>9. ASSUME NEW r \in Readers, LookUp(r) PROVE ReadsInv'
    <2> DEFINE key == read[r].key
    <2>0. read[r].at = "lookup" /\ UNCHANGED <<version, allowed, bodies, writes>>
        BY <1>9 DEF LookUp
    <2>k. /\ key \in Versions /\ key \in read[r].seen /\ Current \subseteq read[r].seen
          /\ bodies[key] \in {0, key} /\ bodies[key] \in 0..MaxVersion
        BY <1>t, <2>0 DEF ReadOK, KeyWasSeen, SeesNow, CacheIsTrue
    <2>1. CASE bodies[key] # 0 /\ Answer(r, key, bodies[key])
        <3> DEFINE x == [read[r] EXCEPT !.at = "answered", !.version = key, !.body = bodies[key]]
        <3>1. x \in ReadType
            BY <1>t, <2>k DEF ReadType
        <3>2. x.at = "answered" /\ x.version = key /\ x.body = key /\ x.seen = read[r].seen
            BY <1>t, <2>k, <2>1 DEF ReadType
        <3>3. ReadOK(x)
            BY <2>k, <3>2 DEF ReadOK, KeyWasSeen, SeesNow, AnswerIsSound
        <3>4. QED
            BY <1>t, <1>w, <2>0, <2>1, <3>1, <3>3, GoesKeeps DEF Answer
    <2>2. CASE \E at \in {"reread", "fresh"} : Goes(r, [read[r] EXCEPT !.at = at])
        <3>1. PICK at \in {"reread", "fresh"} : Goes(r, [read[r] EXCEPT !.at = at])
            BY <2>2
        <3> DEFINE x == [read[r] EXCEPT !.at = at]
        <3>2. x \in ReadType
            BY <1>t DEF ReadType
        <3>3. x.at = at /\ x.key = key /\ x.seen = read[r].seen
            BY <1>t DEF ReadType
        <3>4. ReadOK(x)
            BY <2>k, <3>3 DEF ReadOK, KeyWasSeen, SeesNow, AnswerIsSound
        <3>5. QED
            BY <1>t, <1>w, <2>0, <3>1, <3>2, <3>4, GoesKeeps
    <2>3. QED
        BY <1>9, <2>1, <2>2 DEF LookUp
<1>10. ASSUME NEW r \in Readers, Reread(r) PROVE ReadsInv'
    <2> DEFINE key == read[r].key
    <2>0. read[r].at = "reread" /\ UNCHANGED <<version, allowed, bodies>>
        BY <1>10 DEF Reread
    <2>k. key \in Versions /\ key \in read[r].seen /\ Current \subseteq read[r].seen
        BY <1>t, <2>0 DEF ReadOK, KeyWasSeen, SeesNow
    <2>1. ASSUME NEW v \in Accepted(key), Answer(r, v, v),
                 writes' = writes \cup {[key |-> key, body |-> v]}
          PROVE  ReadsInv'
        <3> DEFINE x == [read[r] EXCEPT !.at = "answered", !.version = v, !.body = v]
        <3>0. v = key /\ v \in 0..MaxVersion
            BY <2>1, <2>k DEF Accepted, Versions
        <3>1. x \in ReadType
            BY <1>t, <3>0 DEF ReadType
        <3>2. x.at = "answered" /\ x.version = v /\ x.body = v /\ x.seen = read[r].seen
            BY <1>t DEF ReadType
        <3>3. ReadOK(x)
            BY <2>k, <3>0, <3>2 DEF ReadOK, KeyWasSeen, SeesNow, AnswerIsSound
        <3>4. /\ writes' \subseteq [key : Versions, body : Versions]
              /\ \A w \in writes' : w.body = w.key
            BY <1>t, <1>w, <2>1, <2>k, <3>0
        <3>5. QED
            BY <2>0, <2>1, <3>1, <3>3, <3>4, GoesKeeps DEF Answer
    <2>2. ASSUME NEW x, x = [read[r] EXCEPT !.at = "header", !.round = @ + 1],
                 read[r].round < Rounds, Goes(r, x), UNCHANGED writes
          PROVE  ReadsInv'
        <3>0. read[r] \in ReadType /\ read[r].round + 1 \in 1..Rounds
            <4>1. read[r] \in ReadType /\ read[r].round \in 1..Rounds
                BY <1>t DEF ReadType
            <4>2. QED
                BY <2>2, <4>1 DEF Rounds
        <3>1. x \in ReadType
            BY <2>2, <3>0 DEF ReadType
        <3>2. x.at = "header" /\ x.seen = read[r].seen
            BY <1>t, <2>2 DEF ReadType
        <3>3. ReadOK(x)
            BY <2>k, <3>2 DEF ReadOK, KeyWasSeen, SeesNow, AnswerIsSound
        <3>4. QED
            BY <1>t, <1>w, <2>0, <2>2, <3>1, <3>3, GoesKeeps
    <2>3. ASSUME NEW x, x = [read[r] EXCEPT !.at = "fresh"], Goes(r, x), UNCHANGED writes
          PROVE  ReadsInv'
        <3>1. x \in ReadType
            BY <1>t, <2>3 DEF ReadType
        <3>2. x.at = "fresh" /\ x.seen = read[r].seen
            BY <1>t, <2>3 DEF ReadType
        <3>3. ReadOK(x)
            BY <2>k, <3>2 DEF ReadOK, KeyWasSeen, SeesNow, AnswerIsSound
        <3>4. QED
            BY <1>t, <1>w, <2>0, <2>3, <3>1, <3>3, GoesKeeps
    <2>4. QED
        BY <1>10, <2>1, <2>2, <2>3 DEF Reread
<1>11. ASSUME NEW r \in Readers, ReadFresh(r) PROVE ReadsInv'
    <2>0. read[r].at = "fresh" /\ UNCHANGED <<version, allowed, bodies, writes>>
        BY <1>11 DEF ReadFresh
    <2>1. CASE Current # {} /\ Answer(r, version, version)
        <3> DEFINE x == [read[r] EXCEPT !.at = "answered", !.version = version, !.body = version]
        <3>1. x \in ReadType
            BY <1>t DEF ReadType
        <3>2. x.at = "answered" /\ x.version = version /\ x.body = version /\ x.seen = read[r].seen
            BY <1>t DEF ReadType
        <3>3. version \in read[r].seen
            BY <1>t, <1>c, <2>0, <2>1 DEF ReadOK, SeesNow
        <3>4. ReadOK(x)
            BY <3>2, <3>3 DEF ReadOK, KeyWasSeen, SeesNow, AnswerIsSound
        <3>5. QED
            BY <1>t, <1>w, <2>0, <2>1, <3>1, <3>4, GoesKeeps DEF Answer
    <2>2. CASE Current = {} /\ Refuse(r)
        <3> DEFINE x == [read[r] EXCEPT !.at = "refused"]
        <3>1. x \in ReadType /\ x.at = "refused"
            BY <1>t DEF ReadType
        <3>2. ReadOK(x)
            BY <3>1 DEF ReadOK, KeyWasSeen, SeesNow, AnswerIsSound
        <3>3. QED
            BY <1>t, <1>w, <2>0, <2>2, <3>1, <3>2, GoesKeeps DEF Refuse
    <2>3. QED
        BY <1>11, <2>1, <2>2 DEF ReadFresh
<1>12. CASE UNCHANGED readVars
    BY <1>12 DEF readVars, ReadsInv, ReadsTypeOK, CacheIsTrue, ReadOK, KeyWasSeen, SeesNow,
        AnswerIsSound, Current
<1>13. QED
    BY <1>1, <1>2, <1>3, <1>4, <1>5, <1>6, <1>7, <1>8, <1>9, <1>10, <1>11, <1>12 DEF ReadsNext

-----------------------------------------------------------------------------
(* Documents and their files.  An upload and its attachment belong to the  *)
(* document the file was made for, so does the archive of an export, and   *)
(* no file is both: what one transaction ends, no other link needs.        *)

UploadsAreHome ==
    /\ attached \subseteq uploads
    /\ \A f \in DocFiles, d \in Docs : <<f, d>> \in uploads => home[f] = d /\ file[f] # "none"

\* The archive of an export, or the one its attempt writes.
Archive(x, f) == x.result = f \/ (x.at = "writing" /\ x.candidate = f)

ArchivesAreApart ==
    \A e \in Exports, f \in DocFiles : Archive(export[e], f) =>
        /\ file[f] # "none"
        /\ export[e].doc \in {NoDoc, home[f]}
        /\ \A d \in Docs : <<f, d>> \notin uploads
        /\ \A x \in Exports : f \notin export[x].files

ResultsAreOwn ==
    /\ \A e \in Exports : export[e].result # NoFile =>
        export[e].doc # NoDoc /\ export[e].job # "none"
    /\ \A e, x \in Exports : export[e].result = export[x].result /\ export[e].result # NoFile => e = x
    /\ \A e \in Exports : export[e].at = "writing" => export[e].candidate # NoFile

SnapshotsAreHome ==
    \A e \in Exports : \A f \in export[e].files :
        file[f] # "none" /\ export[e].doc \in {NoDoc, home[f]}

LinkedAreReady ==
    /\ \A f \in DocFiles, d \in Docs : <<f, d>> \in attached => file[f] = "ready"
    /\ \A e \in Exports : export[e].result # NoFile => file[export[e].result] = "ready"

ReadyAreLinked ==
    \A f \in DocFiles : file[f] = "ready" =>
        \/ \E d \in Docs : <<f, d>> \in attached
        \/ \E e \in Exports : export[e].result = f

GoneIsBare ==
    \A f \in DocFiles : home[f] # NoDoc /\ doc[home[f]] = "gone" =>
        file[f] # "ready" /\ \A d \in Docs : <<f, d>> \notin uploads

FilesInv ==
    /\ UploadsAreHome
    /\ ArchivesAreApart
    /\ ResultsAreOwn
    /\ SnapshotsAreHome
    /\ LinkedAreReady
    /\ ReadyAreLinked
    /\ GoneIsBare

\* A step that leaves files and links alone, starts no archive and removes no document.
LEMMA QuietKeeps ==
    ASSUME DocumentsTypeOK, FilesInv,
           UNCHANGED <<file, home, uploads, attached>>,
           \A d \in Docs : doc'[d] = "gone" => doc[d] = "gone",
           \A e \in Exports :
               /\ export'[e].doc = export[e].doc
               /\ export'[e].files = export[e].files
               /\ export'[e].result = export[e].result
               /\ export'[e].job = "none" => export[e].job = "none"
               /\ export'[e].at = "writing" =>
                      export[e].at = "writing" /\ export'[e].candidate = export[e].candidate
    PROVE  FilesInv'
<1>1. UploadsAreHome'
    BY DEF FilesInv, UploadsAreHome
<1>2. ArchivesAreApart'
    BY DEF FilesInv, ArchivesAreApart, Archive
<1>3. ResultsAreOwn'
    BY DEF FilesInv, ResultsAreOwn
<1>4. SnapshotsAreHome'
    BY DEF FilesInv, SnapshotsAreHome
<1>5. LinkedAreReady'
    BY DEF FilesInv, LinkedAreReady
<1>6. ReadyAreLinked'
    BY DEF FilesInv, ReadyAreLinked
<1>7. GoneIsBare'
    BY DEF FilesInv, GoneIsBare, DocumentsTypeOK
<1>8. QED
    BY <1>1, <1>2, <1>3, <1>4, <1>5, <1>6, <1>7 DEF FilesInv

\* The file of an upload is new, so nothing else is linked to it.
LEMMA StartUploadKeeps ==
    ASSUME DocumentsTypeOK, FilesInv, NEW f \in DocFiles, NEW d \in Docs, StartUpload(f, d)
    PROVE  FilesInv'
<1>1. /\ file[f] = "none" /\ file' = [file EXCEPT ![f] = "pending"]
      /\ home' = [home EXCEPT ![f] = d] /\ uploads' = uploads \cup {<<f, d>>}
      /\ doc[d] = "live" /\ UNCHANGED <<doc, attached, export>>
    BY DEF StartUpload, NewFile, MayWrite, rows
<1>2. /\ f # NoFile /\ d # NoDoc
      /\ \A g \in DocFiles : file'[g] = (IF g = f THEN "pending" ELSE file[g])
      /\ \A g \in DocFiles : home'[g] = (IF g = f THEN d ELSE home[g])
      /\ \A g \in DocFiles, c \in Docs :
            <<g, c>> \in uploads' <=> <<g, c>> \in uploads \/ (g = f /\ c = d)
    BY <1>1 DEF DocumentsTypeOK, DocFiles, Docs, NoFile, NoDoc
<1>3. \A c \in Docs : <<f, c>> \notin uploads
    BY <1>1 DEF FilesInv, UploadsAreHome
<1>4. \A e \in Exports : ~Archive(export[e], f) /\ f \notin export[e].files
    BY <1>1 DEF FilesInv, ArchivesAreApart, SnapshotsAreHome
<1>5. UploadsAreHome'
    BY <1>1, <1>2, <1>3 DEF FilesInv, UploadsAreHome
<1>6. ArchivesAreApart'
    BY <1>1, <1>2, <1>4 DEF FilesInv, ArchivesAreApart, Archive
<1>7. ResultsAreOwn'
    BY <1>1 DEF FilesInv, ResultsAreOwn
<1>8. SnapshotsAreHome'
    <2>1. \A e \in Exports : export[e].files \subseteq DocFiles
        BY DEF DocumentsTypeOK, ExportType
    <2>2. QED
        BY <1>1, <1>2, <1>4, <2>1 DEF FilesInv, SnapshotsAreHome
<1>9. LinkedAreReady'
    <2>1. \A e \in Exports : export[e].result # f
        BY <1>4 DEF Archive
    <2>2. \A e \in Exports : export[e].result \in DocFiles \cup {NoFile}
        BY DEF DocumentsTypeOK, ExportType
    <2>3. QED
        BY <1>1, <1>2, <2>1, <2>2 DEF FilesInv, LinkedAreReady
<1>10. ReadyAreLinked'
    BY <1>1, <1>2 DEF FilesInv, ReadyAreLinked
<1>11. GoneIsBare'
    BY <1>1, <1>2 DEF FilesInv, GoneIsBare
<1>12. QED
    BY <1>5, <1>6, <1>7, <1>8, <1>9, <1>10, <1>11 DEF FilesInv

\* An adopted upload is linked by its attachment, and is no archive.
LEMMA CompleteUploadKeeps ==
    ASSUME DocumentsTypeOK, FilesInv, NEW f \in DocFiles, NEW d \in Docs, CompleteUpload(f, d)
    PROVE  FilesInv'
<1>1. /\ file[f] = "pending" /\ file' = [file EXCEPT ![f] = "ready"]
      /\ attached' = attached \cup {<<f, d>>} /\ <<f, d>> \in uploads
      /\ doc[d] = "live" /\ UNCHANGED <<doc, home, uploads, export>>
    BY DEF CompleteUpload, Adopt, MayWrite, rows
<1>2. /\ \A g \in DocFiles : file'[g] = (IF g = f THEN "ready" ELSE file[g])
      /\ \A g \in DocFiles, c \in Docs :
            <<g, c>> \in attached' <=> <<g, c>> \in attached \/ (g = f /\ c = d)
      /\ home[f] = d
    BY <1>1 DEF DocumentsTypeOK, FilesInv, UploadsAreHome
<1>3. \A e \in Exports : ~Archive(export[e], f)
    BY <1>1 DEF FilesInv, ArchivesAreApart
<1>5. UploadsAreHome'
    BY <1>1, <1>2 DEF FilesInv, UploadsAreHome
<1>6. ArchivesAreApart'
    BY <1>1, <1>2 DEF FilesInv, ArchivesAreApart, Archive
<1>7. ResultsAreOwn'
    BY <1>1 DEF FilesInv, ResultsAreOwn
<1>8. SnapshotsAreHome'
    <2>1. \A e \in Exports : export[e].files \subseteq DocFiles
        BY DEF DocumentsTypeOK, ExportType
    <2>2. QED
        BY <1>1, <1>2, <2>1 DEF FilesInv, SnapshotsAreHome
<1>9. LinkedAreReady'
    <2>1. \A e \in Exports : export[e].result # f
        BY <1>3 DEF Archive
    <2>2. \A e \in Exports : export[e].result \in DocFiles \cup {NoFile}
        BY DEF DocumentsTypeOK, ExportType
    <2>3. QED
        BY <1>1, <1>2, <2>1, <2>2 DEF FilesInv, LinkedAreReady
<1>10. ReadyAreLinked'
    BY <1>1, <1>2 DEF FilesInv, ReadyAreLinked
<1>11. GoneIsBare'
    BY <1>1, <1>2 DEF FilesInv, GoneIsBare
<1>12. QED
    BY <1>5, <1>6, <1>7, <1>8, <1>9, <1>10, <1>11 DEF FilesInv

\* What ends is pending, and no link leads to a pending file.
LEMMA EndFileKeeps ==
    ASSUME DocumentsTypeOK, FilesInv, NEW f \in DocFiles, EndFile(f)
    PROVE  FilesInv'
<1>1. /\ file[f] = "pending" /\ file' = [file EXCEPT ![f] = "dead"]
      /\ UNCHANGED <<doc, home, uploads, attached, export>>
    BY DEF EndFile, rows, links
<1>2. \A g \in DocFiles : file'[g] = (IF g = f THEN "dead" ELSE file[g])
    BY <1>1 DEF DocumentsTypeOK
<1>3. \A e \in Exports :
        export[e].result \in DocFiles \cup {NoFile} /\ export[e].files \subseteq DocFiles
    BY DEF DocumentsTypeOK, ExportType
<1>5. UploadsAreHome'
    BY <1>1, <1>2 DEF FilesInv, UploadsAreHome
<1>6. ArchivesAreApart'
    BY <1>1, <1>2 DEF FilesInv, ArchivesAreApart, Archive
<1>7. ResultsAreOwn'
    BY <1>1 DEF FilesInv, ResultsAreOwn
<1>8. SnapshotsAreHome'
    BY <1>1, <1>2, <1>3 DEF FilesInv, SnapshotsAreHome
<1>9. LinkedAreReady'
    BY <1>1, <1>2, <1>3 DEF FilesInv, LinkedAreReady
<1>10. ReadyAreLinked'
    BY <1>1, <1>2 DEF FilesInv, ReadyAreLinked
<1>11. GoneIsBare'
    BY <1>1, <1>2 DEF FilesInv, GoneIsBare
<1>12. QED
    BY <1>5, <1>6, <1>7, <1>8, <1>9, <1>10, <1>11 DEF FilesInv

\* The file of an attachment has no other link: it belongs to one document and is no archive.
LEMMA RemoveAttachmentKeeps ==
    ASSUME DocumentsTypeOK, FilesInv, NEW f \in DocFiles, NEW d \in Docs, RemoveAttachment(f, d)
    PROVE  FilesInv'
<1>1. /\ <<f, d>> \in attached /\ file' = [g \in DocFiles |-> IF g \in {f} THEN "dead" ELSE file[g]]
      /\ attached' = attached \ {<<f, d>>} /\ uploads' = uploads \ {<<f, d>>}
      /\ UNCHANGED <<doc, home, export>>
    BY DEF RemoveAttachment, Dies, rows
<1>2. /\ \A g \in DocFiles : file'[g] = (IF g = f THEN "dead" ELSE file[g])
      /\ \A g \in DocFiles, c \in Docs :
            /\ <<g, c>> \in attached' <=> <<g, c>> \in attached /\ ~(g = f /\ c = d)
            /\ <<g, c>> \in uploads' <=> <<g, c>> \in uploads /\ ~(g = f /\ c = d)
      /\ \A c \in Docs : <<f, c>> \in uploads => c = d
    BY <1>1 DEF FilesInv, UploadsAreHome
<1>3. \A e \in Exports :
        export[e].result \in DocFiles \cup {NoFile} /\ export[e].files \subseteq DocFiles
    BY DEF DocumentsTypeOK, ExportType
<1>4. <<f, d>> \in uploads
    BY <1>1 DEF FilesInv, UploadsAreHome
<1>a. \A e \in Exports : ~Archive(export[e], f)
    BY <1>4 DEF FilesInv, ArchivesAreApart
<1>5. UploadsAreHome'
    BY <1>1, <1>2 DEF FilesInv, UploadsAreHome
<1>6. ArchivesAreApart'
    BY <1>1, <1>2 DEF FilesInv, ArchivesAreApart, Archive
<1>7. ResultsAreOwn'
    BY <1>1 DEF FilesInv, ResultsAreOwn
<1>8. SnapshotsAreHome'
    BY <1>1, <1>2, <1>3 DEF FilesInv, SnapshotsAreHome
<1>9. LinkedAreReady'
    <2>1. \A g \in DocFiles, c \in Docs : <<g, c>> \in attached' => file'[g] = "ready"
        <3>1. attached \subseteq uploads
            BY DEF FilesInv, UploadsAreHome
        <3>2. QED
            BY <1>2, <3>1 DEF FilesInv, LinkedAreReady
    <2>2. \A e \in Exports : export'[e].result # NoFile => file'[export'[e].result] = "ready"
        BY <1>1, <1>2, <1>3, <1>a DEF FilesInv, LinkedAreReady, Archive
    <2>3. QED
        BY <2>1, <2>2 DEF LinkedAreReady
<1>10. ReadyAreLinked'
    BY <1>1, <1>2 DEF FilesInv, ReadyAreLinked
<1>11. GoneIsBare'
    BY <1>1, <1>2 DEF FilesInv, GoneIsBare
<1>12. QED
    BY <1>5, <1>6, <1>7, <1>8, <1>9, <1>10, <1>11 DEF FilesInv

\* A new export names attachments only, which are no archives.
LEMMA RequestExportKeeps ==
    ASSUME DocumentsTypeOK, FilesInv, NEW e \in Exports, NEW d \in Docs, RequestExport(e, d)
    PROVE  FilesInv'
<1> DEFINE S == FilesOf(d, attached)
           new == [Unrequested EXCEPT !.doc = d, !.kept = TRUE, !.files = S, !.job = "open"]
<1>1. /\ export' = [export EXCEPT ![e] = new]
      /\ UNCHANGED <<doc, file, home, uploads, attached>>
    BY DEF RequestExport, Set, rows, links
<1>2. /\ new.doc = d /\ new.files = S /\ new.result = NoFile /\ new.at = "idle"
      /\ new.candidate = NoFile
    BY DEF Unrequested
<1> HIDE DEF new
<1>3. /\ export'[e] = new
      /\ \A x \in Exports : x # e => export'[x] = export[x]
    BY <1>1 DEF DocumentsTypeOK
<1>4. /\ S \subseteq DocFiles
      /\ \A f \in S : <<f, d>> \in uploads /\ home[f] = d /\ file[f] # "none"
    BY DEF FilesOf, FilesInv, UploadsAreHome
<1>5. d # NoDoc /\ \A f \in DocFiles : f # NoFile
    BY DEF Docs, NoDoc, DocFiles, NoFile
<1>6. \A f \in S, x \in Exports : ~Archive(export[x], f)
    BY <1>4 DEF FilesInv, ArchivesAreApart
<1>7. \A f \in DocFiles : ~Archive(new, f)
    BY <1>2, <1>5 DEF Archive
<1> HIDE DEF S
<1>8. UploadsAreHome'
    BY <1>1 DEF FilesInv, UploadsAreHome
<1>9. ArchivesAreApart'
    <2>1. \A x \in Exports, f \in DocFiles : Archive(export'[x], f) => x # e /\ Archive(export[x], f)
        BY <1>3, <1>7 DEF Archive
    <2>2. \A x, y \in Exports, f \in DocFiles : Archive(export[x], f) => f \notin export'[y].files
        BY <1>2, <1>3, <1>6 DEF FilesInv, ArchivesAreApart
    <2>3. \A x \in Exports, f \in DocFiles : Archive(export'[x], f) =>
            /\ file'[f] # "none"
            /\ export'[x].doc \in {NoDoc, home'[f]}
            /\ \A c \in Docs : <<f, c>> \notin uploads'
            /\ \A y \in Exports : f \notin export'[y].files
        BY <1>1, <1>3, <2>1, <2>2 DEF FilesInv, ArchivesAreApart
    <2>4. QED
        BY <2>3 DEF ArchivesAreApart, Archive
<1>10. ResultsAreOwn'
    BY <1>2, <1>3 DEF FilesInv, ResultsAreOwn
<1>11. SnapshotsAreHome'
    BY <1>1, <1>2, <1>3, <1>4, ZenonT(60) DEF FilesInv, SnapshotsAreHome
<1>12. LinkedAreReady'
    BY <1>1, <1>2, <1>3 DEF FilesInv, LinkedAreReady
<1>13. ReadyAreLinked'
    <2>1. \A f \in DocFiles : export[e].result # f
        BY DEF RequestExport, FilesInv, ResultsAreOwn, DocFiles, NoFile
    <2>2. QED
        BY <1>1, <1>3, <2>1 DEF FilesInv, ReadyAreLinked
<1>14. GoneIsBare'
    BY <1>1 DEF FilesInv, GoneIsBare
<1>15. QED
    BY <1>8, <1>9, <1>10, <1>11, <1>12, <1>13, <1>14 DEF FilesInv

\* The archive of an attempt is new, so it is no attachment and in no snapshot.
LEMMA PrepareArchiveKeeps ==
    ASSUME DocumentsTypeOK, FilesInv, NEW e \in Exports, NEW f \in DocFiles, PrepareArchive(e, f)
    PROVE  FilesInv'
<1> DEFINE d == export[e].doc
           new == [export[e] EXCEPT !.at = "writing", !.candidate = f]
<1>1. /\ export' = [export EXCEPT ![e] = new]
      /\ file[f] = "none" /\ file' = [file EXCEPT ![f] = "pending"]
      /\ home' = [home EXCEPT ![f] = d]
      /\ d # NoDoc /\ doc[d] = "live"
      /\ UNCHANGED <<doc, uploads, attached>>
    BY DEF PrepareArchive, Set, NewFile, Attempting, Exists, Authorized, MayRead, rows, links
<1>2. export[e] \in ExportType /\ f # NoFile
    BY DEF DocumentsTypeOK, DocFiles, NoFile
<1>3. /\ new.doc = d /\ new.files = export[e].files /\ new.result = export[e].result
      /\ new.at = "writing" /\ new.candidate = f /\ new.job = export[e].job
    BY <1>2 DEF ExportType
<1> HIDE DEF new
<1>4. /\ export'[e] = new
      /\ \A x \in Exports : x # e => export'[x] = export[x]
      /\ \A g \in DocFiles : file'[g] = (IF g = f THEN "pending" ELSE file[g])
      /\ \A g \in DocFiles : home'[g] = (IF g = f THEN d ELSE home[g])
    BY <1>1 DEF DocumentsTypeOK
<1>5. \A x \in Exports : /\ export'[x].doc = export[x].doc /\ export'[x].files = export[x].files
                         /\ export'[x].result = export[x].result
    BY <1>3, <1>4
<1>6. /\ \A c \in Docs : <<f, c>> \notin uploads
      /\ \A x \in Exports : ~Archive(export[x], f) /\ f \notin export[x].files
    BY <1>1 DEF FilesInv, UploadsAreHome, ArchivesAreApart, SnapshotsAreHome
<1>7. \A x \in Exports :
        export[x].result \in DocFiles \cup {NoFile} /\ export[x].files \subseteq DocFiles
    BY DEF DocumentsTypeOK, ExportType
<1> HIDE DEF d
<1>8. UploadsAreHome'
    BY <1>1, <1>4, <1>6 DEF FilesInv, UploadsAreHome
<1>9. ArchivesAreApart'
    <2>1. \A x \in Exports, g \in DocFiles : Archive(export'[x], g) =>
            (g # f /\ Archive(export[x], g)) \/ (g = f /\ x = e)
        BY <1>3, <1>4, <1>6 DEF Archive
    <2>2. \A x \in Exports, g \in DocFiles : Archive(export'[x], g) =>
            /\ file'[g] # "none"
            /\ \A c \in Docs : <<g, c>> \notin uploads'
            /\ \A y \in Exports : g \notin export'[y].files
        BY <1>1, <1>4, <1>5, <1>6, <2>1 DEF FilesInv, ArchivesAreApart
    <2>3. \A x \in Exports, g \in DocFiles : Archive(export'[x], g) =>
            export'[x].doc \in {NoDoc, home'[g]}
        BY <1>3, <1>4, <1>5, <2>1 DEF FilesInv, ArchivesAreApart, d
    <2>4. QED
        BY <2>2, <2>3 DEF ArchivesAreApart, Archive
<1>10. ResultsAreOwn'
    BY <1>2, <1>3, <1>4, <1>5 DEF FilesInv, ResultsAreOwn
<1>11. SnapshotsAreHome'
    BY <1>4, <1>5, <1>6, <1>7 DEF FilesInv, SnapshotsAreHome
<1>12. LinkedAreReady'
    BY <1>1, <1>4, <1>5, <1>6, <1>7 DEF FilesInv, LinkedAreReady, Archive
<1>13. ReadyAreLinked'
    BY <1>1, <1>4, <1>5 DEF FilesInv, ReadyAreLinked
<1>14. GoneIsBare'
    BY <1>1, <1>4, <1>6 DEF FilesInv, GoneIsBare
<1>15. QED
    BY <1>8, <1>9, <1>10, <1>11, <1>12, <1>13, <1>14 DEF FilesInv

\* The archive was still pending, so it is the result of no other export.
LEMMA PublishExportKeeps ==
    ASSUME DocumentsTypeOK, FilesInv, NEW e \in Exports, PublishExport(e)
    PROVE  FilesInv'
<1> DEFINE d == export[e].doc
           f == export[e].candidate
           new == [export[e] EXCEPT !.result = export[e].candidate, !.job = "done",
                                    !.at = "idle", !.candidate = NoFile]
<1>1. /\ export' = [export EXCEPT ![e] = new]
      /\ file[f] = "pending" /\ file' = [file EXCEPT ![f] = "ready"]
      /\ d # NoDoc /\ doc[d] = "live" /\ export[e].at = "writing" /\ export[e].result = NoFile
      /\ UNCHANGED <<doc, home, uploads, attached>>
    BY DEF PublishExport, Set, Adopt, Attempting, Exists, MayPublish, Authorized, MayRead, rows, links
<1>2. export[e] \in ExportType /\ f # NoFile /\ f \in DocFiles
    <2>1. export[e] \in ExportType
        BY DEF DocumentsTypeOK
    <2>2. f # NoFile
        BY <1>1 DEF FilesInv, ResultsAreOwn
    <2>3. QED
        BY <2>1, <2>2 DEF ExportType
<1>3. /\ new.doc = d /\ new.files = export[e].files /\ new.result = f
      /\ new.at = "idle" /\ new.candidate = NoFile /\ new.job = "done"
    BY <1>2 DEF ExportType
<1>a. Archive(export[e], f)
    BY <1>1 DEF Archive
<1> HIDE DEF new, f, d
<1>4. /\ export'[e] = new
      /\ \A x \in Exports : x # e => export'[x] = export[x]
      /\ \A g \in DocFiles : file'[g] = (IF g = f THEN "ready" ELSE file[g])
    BY <1>1, <1>2 DEF DocumentsTypeOK
<1>5. \A x \in Exports : /\ export'[x].doc = export[x].doc /\ export'[x].files = export[x].files
                         /\ (x # e => export'[x].result = export[x].result)
    BY <1>3, <1>4 DEF d
<1>6. /\ \A c \in Docs : <<f, c>> \notin uploads
      /\ \A x \in Exports : f \notin export[x].files
      /\ d = home[f]
    BY <1>1, <1>2, <1>a DEF FilesInv, ArchivesAreApart, d
<1>7. \A x \in Exports :
        export[x].result \in DocFiles \cup {NoFile} /\ export[x].files \subseteq DocFiles
    BY DEF DocumentsTypeOK, ExportType
<1>r. \A x \in Exports : export[x].result # f
    BY <1>1, <1>2 DEF FilesInv, LinkedAreReady
<1>8. UploadsAreHome'
    BY <1>1, <1>4 DEF FilesInv, UploadsAreHome
<1>9. ArchivesAreApart'
    <2>1. \A x \in Exports, g \in DocFiles : Archive(export'[x], g) => Archive(export[x], g)
        BY <1>2, <1>3, <1>4, <1>a DEF Archive
    <2>2. \A x \in Exports, g \in DocFiles : Archive(export'[x], g) =>
            /\ file'[g] # "none"
            /\ export'[x].doc \in {NoDoc, home'[g]}
            /\ \A c \in Docs : <<g, c>> \notin uploads'
            /\ \A y \in Exports : g \notin export'[y].files
        BY <1>1, <1>4, <1>5, <2>1 DEF FilesInv, ArchivesAreApart
    <2>3. QED
        BY <2>2 DEF ArchivesAreApart, Archive
<1>10. ResultsAreOwn'
    BY <1>1, <1>3, <1>4, <1>5, <1>r DEF FilesInv, ResultsAreOwn, d
<1>11. SnapshotsAreHome'
    BY <1>1, <1>4, <1>5, <1>7 DEF FilesInv, SnapshotsAreHome
<1>12. LinkedAreReady'
    BY <1>1, <1>2, <1>3, <1>4, <1>5, <1>7 DEF FilesInv, LinkedAreReady
<1>13. ReadyAreLinked'
    <2>1. \A x \in Exports, g \in DocFiles : export[x].result = g => export'[x].result = g
        BY <1>1, <1>5 DEF DocFiles, NoFile
    <2>2. export'[e].result = f
        BY <1>3, <1>4
    <2>3. QED
        BY <1>1, <1>4, <2>1, <2>2 DEF FilesInv, ReadyAreLinked
<1>14. GoneIsBare'
    BY <1>1, <1>4, <1>6 DEF FilesInv, GoneIsBare
<1>15. QED
    BY <1>8, <1>9, <1>10, <1>11, <1>12, <1>13, <1>14 DEF FilesInv

\* A file dies with every link it has: what a removal, an expiry or a batch takes.
LEMMA DeathKeeps ==
    ASSUME DocumentsTypeOK, FilesInv,
           NEW S \in SUBSET DocFiles,
           \A g \in DocFiles : file'[g] = (IF g \in S THEN "dead" ELSE file[g]),
           UNCHANGED <<doc, home>>,
           uploads' \subseteq uploads, attached' \subseteq uploads',
           \A f \in DocFiles, d \in Docs :
               /\ <<f, d>> \in attached' => <<f, d>> \in attached /\ f \notin S
               /\ <<f, d>> \in attached /\ f \notin S => <<f, d>> \in attached',
           \A e \in Exports :
               /\ export'[e].doc \in {NoDoc, export[e].doc}
               /\ export'[e].files = export[e].files
               /\ export'[e].at = export[e].at /\ export'[e].candidate = export[e].candidate
               /\ export'[e].job = export[e].job
               /\ IF export[e].result \in S THEN export'[e].result = NoFile
                  ELSE export'[e].result \in {export[e].result, NoFile}
               /\ export'[e].result # NoFile => export'[e].doc = export[e].doc
               /\ export[e].result # NoFile /\ export[e].result \notin S =>
                      export'[e].result = export[e].result
    PROVE  FilesInv'
<1>1. \A e \in Exports :
        export[e].result \in DocFiles \cup {NoFile} /\ export[e].files \subseteq DocFiles
    BY DEF DocumentsTypeOK, ExportType
<1>2. \A f \in DocFiles : f # NoFile
    BY DEF DocFiles, NoFile
<1>8. UploadsAreHome'
    BY DEF FilesInv, UploadsAreHome
<1>9. ArchivesAreApart'
    <2>1. \A x \in Exports, g \in DocFiles : Archive(export'[x], g) => Archive(export[x], g)
        BY <1>2 DEF Archive
    <2>2. \A x \in Exports, g \in DocFiles : Archive(export'[x], g) =>
            /\ file'[g] # "none"
            /\ export'[x].doc \in {NoDoc, home'[g]}
            /\ \A c \in Docs : <<g, c>> \notin uploads'
            /\ \A y \in Exports : g \notin export'[y].files
        BY <2>1 DEF FilesInv, ArchivesAreApart
    <2>3. QED
        BY <2>2 DEF ArchivesAreApart, Archive
<1>10. ResultsAreOwn'
    <2>1. \A e \in Exports : export'[e].result # NoFile => export'[e].result = export[e].result
        BY <1>1, <1>2
    <2>2. QED
        BY <2>1 DEF FilesInv, ResultsAreOwn
<1>11. SnapshotsAreHome'
    BY <1>1 DEF FilesInv, SnapshotsAreHome
<1>12. LinkedAreReady'
    <2>1. \A e \in Exports : export'[e].result # NoFile =>
            export'[e].result = export[e].result /\ export[e].result \notin S
        BY <1>1, <1>2
    <2>2. QED
        BY <1>1, <2>1 DEF FilesInv, LinkedAreReady
<1>13. ReadyAreLinked'
    <2>1. \A f \in DocFiles : file'[f] = "ready" => f \notin S /\ file[f] = "ready"
        OBVIOUS
    <2>2. \A e \in Exports, f \in DocFiles : export[e].result = f /\ f \notin S => export'[e].result = f
        BY <1>2
    <2>3. QED
        BY <2>1, <2>2 DEF FilesInv, ReadyAreLinked
<1>14. GoneIsBare'
    BY DEF FilesInv, GoneIsBare
<1>15. QED
    BY <1>8, <1>9, <1>10, <1>11, <1>12, <1>13, <1>14 DEF FilesInv

\* The maintenance of exports: the archive of this one is the archive of no other.
LEMMA ExpireExportKeeps ==
    ASSUME DocumentsTypeOK, FilesInv, NEW e \in Exports, ExpireExport(e)
    PROVE  FilesInv'
<1> DEFINE f == export[e].result
           S == {f} \cap DocFiles
           new == [export[e] EXCEPT !.kept = FALSE, !.result = NoFile]
<1>1. /\ export' = [export EXCEPT ![e] = new]
      /\ file' = [g \in DocFiles |-> IF g \in {f} THEN "dead" ELSE file[g]]
      /\ UNCHANGED <<doc, home, uploads, attached>>
    BY DEF ExpireExport, Set, Dies, rows, links
<1>2. export[e] \in ExportType
    BY DEF DocumentsTypeOK
<1>3. /\ new.doc = export[e].doc /\ new.files = export[e].files /\ new.result = NoFile
      /\ new.at = export[e].at /\ new.candidate = export[e].candidate /\ new.job = export[e].job
    BY <1>2 DEF ExportType
<1> HIDE DEF new
<1>4. /\ export'[e] = new
      /\ \A x \in Exports : x # e => export'[x] = export[x]
    BY <1>1 DEF DocumentsTypeOK
<1>5. \A x \in Exports : x # e /\ export[x].result # NoFile => export[x].result # f
    BY DEF FilesInv, ResultsAreOwn
<1>6. NoFile \notin DocFiles
    BY DEF DocFiles, NoFile
<1>7. \A g \in DocFiles, d \in Docs : <<g, d>> \in attached => g \notin S
    <2>1. \A g \in S, d \in Docs : <<g, d>> \notin uploads
        BY DEF FilesInv, ArchivesAreApart, Archive
    <2>2. QED
        BY <2>1 DEF FilesInv, UploadsAreHome
<1>8. \A g \in DocFiles : file'[g] = (IF g \in S THEN "dead" ELSE file[g])
    BY <1>1
<1>9. attached' \subseteq uploads'
    BY <1>1 DEF FilesInv, UploadsAreHome
<1>10. \A x \in Exports :
               /\ export'[x].doc \in {NoDoc, export[x].doc}
               /\ export'[x].files = export[x].files
               /\ export'[x].at = export[x].at /\ export'[x].candidate = export[x].candidate
               /\ export'[x].job = export[x].job
               /\ IF export[x].result \in S THEN export'[x].result = NoFile
                  ELSE export'[x].result \in {export[x].result, NoFile}
               /\ export'[x].result # NoFile => export'[x].doc = export[x].doc
               /\ export[x].result # NoFile /\ export[x].result \notin S =>
                      export'[x].result = export[x].result
    <2>1. f \in DocFiles \cup {NoFile}
        BY <1>2 DEF ExportType
    <2> HIDE DEF f
    <2>2. export[e].result = f
        BY DEF f
    <2>3. QED
        BY <1>3, <1>4, <1>5, <1>6, <2>1, <2>2
<1> HIDE DEF S
<1>11. S \in SUBSET DocFiles
    BY DEF S
<1>12. QED
    BY <1>1, <1>7, <1>8, <1>9, <1>10, <1>11, DeathKeeps

\* A batch of a cleanup takes files with their links.
LEMMA CleanupFilesKeeps ==
    ASSUME DocumentsTypeOK, FilesInv, NEW d \in Docs, CleanupFiles(d), UNCHANGED home
    PROVE  FilesInv'
<1> DEFINE S == FirstOf(LinkedTo(d))
<1>1. /\ \A g \in DocFiles : file'[g] = (IF g \in S THEN "dead" ELSE file[g])
      /\ uploads' = uploads \ Pairs(d, S) /\ attached' = attached \ Pairs(d, S)
      /\ export' = [e \in Exports |->
            IF export[e].doc = d /\ export[e].result \in S
            THEN [export[e] EXCEPT !.doc = NoDoc, !.kept = FALSE, !.result = NoFile] ELSE export[e]]
      /\ UNCHANGED <<doc, home>>
    BY DEF CleanupFiles, Dies
<1>2. \A e \in Exports : export[e] \in ExportType
    BY DEF DocumentsTypeOK
<1>3. /\ S \in SUBSET DocFiles
      /\ \A f \in S : \/ <<f, d>> \in uploads
                      \/ \E e \in Exports : export[e].doc = d /\ export[e].result = f
    <2>1. S \subseteq LinkedTo(d)
        BY DEF FirstOf
    <2>2. \A f \in LinkedTo(d) :
            f \in DocFiles /\ (\/ <<f, d>> \in uploads
                               \/ \E e \in Exports : export[e].doc = d /\ export[e].result = f)
        BY <1>2 DEF LinkedTo, FilesOf, ResultsOf, ExportType, FilesInv, UploadsAreHome
    <2>3. QED
        BY <2>1, <2>2
<1> HIDE DEF S
<1>4. NoFile \notin DocFiles
    BY DEF DocFiles, NoFile
<1>5. \A f \in DocFiles, c \in Docs : <<f, c>> \in uploads /\ f \in S => c = d
    <2>1. \A f \in DocFiles, c \in Docs, e \in Exports :
            <<f, c>> \in uploads => export[e].result # f
        BY DEF FilesInv, ArchivesAreApart, Archive
    <2>2. SUFFICES ASSUME NEW f \in S, NEW c \in Docs, <<f, c>> \in uploads PROVE c = d
        BY <1>3
    <2>3. <<f, d>> \in uploads
        BY <1>3, <2>1, <2>2
    <2>4. \A b \in Docs : <<f, b>> \in uploads => home[f] = b
        BY <1>3 DEF FilesInv, UploadsAreHome
    <2>5. QED
        BY <2>2, <2>3, <2>4
<1>6. \A e \in Exports : export[e].result \in S => export[e].doc = d
    <2>1. \A f \in DocFiles, e \in Exports : export[e].result = f => <<f, d>> \notin uploads
        BY DEF FilesInv, ArchivesAreApart, Archive
    <2>2. QED
        BY <1>3, <1>4, <2>1, ZenonT(60) DEF FilesInv, ResultsAreOwn
<1>7. /\ uploads' \subseteq uploads
      /\ attached' \subseteq uploads'
      /\ \A f \in DocFiles, c \in Docs :
            /\ <<f, c>> \in attached' => <<f, c>> \in attached /\ f \notin S
            /\ <<f, c>> \in attached /\ f \notin S => <<f, c>> \in attached'
    <2>1. attached \subseteq uploads
        BY DEF FilesInv, UploadsAreHome
    <2>2. QED
        BY <1>1, <1>5, <2>1 DEF Pairs
<1>8. \A e \in Exports :
        LET x == export[e]
            y == export'[e] IN
               /\ y.doc \in {NoDoc, x.doc} /\ y.files = x.files
               /\ y.at = x.at /\ y.candidate = x.candidate /\ y.job = x.job
               /\ x.result \in S => y.result = NoFile
               /\ x.result \notin S => y.result = x.result /\ y.doc = x.doc
    <2> TAKE e \in Exports
    <2>1. CASE export[e].result \in S
        <3>1. export'[e] = [export[e] EXCEPT !.doc = NoDoc, !.kept = FALSE, !.result = NoFile]
            BY <1>1, <1>6, <2>1
        <3>2. QED
            BY <1>2, <2>1, <3>1 DEF ExportType
    <2>2. CASE export[e].result \notin S
        BY <1>1, <2>2
    <2>3. QED
        BY <2>1, <2>2
<1>9. \A e \in Exports :
               /\ export'[e].doc \in {NoDoc, export[e].doc}
               /\ export'[e].files = export[e].files
               /\ export'[e].at = export[e].at /\ export'[e].candidate = export[e].candidate
               /\ export'[e].job = export[e].job
               /\ IF export[e].result \in S THEN export'[e].result = NoFile
                  ELSE export'[e].result \in {export[e].result, NoFile}
               /\ export'[e].result # NoFile => export'[e].doc = export[e].doc
               /\ export[e].result # NoFile /\ export[e].result \notin S =>
                      export'[e].result = export[e].result
    BY <1>8
<1>10. QED
    BY <1>1, <1>3, <1>7, <1>9, DeathKeeps

\* The row of a document goes when nothing is linked to it any more.
LEMMA RemoveDocumentKeeps ==
    ASSUME DocumentsTypeOK, FilesInv, NEW d \in Docs, LinkedTo(d) = {}, RemoveDocument(d),
           UNCHANGED home
    PROVE  FilesInv'
<1>1. /\ doc' = [doc EXCEPT ![d] = "gone"]
      /\ export' = [e \in Exports |->
            IF export[e].doc = d THEN [export[e] EXCEPT !.doc = NoDoc, !.kept = FALSE, !.result = NoFile]
            ELSE export[e]]
      /\ UNCHANGED <<file, home, uploads, attached>>
    BY DEF RemoveDocument, links
<1>2. \A e \in Exports : export[e] \in ExportType
    BY DEF DocumentsTypeOK
<1>3. /\ \A f \in DocFiles : <<f, d>> \notin uploads
      /\ \A e \in Exports : export[e].doc = d => export[e].result = NoFile
    BY DEF LinkedTo, FilesOf, ResultsOf
<1>4. \A e \in Exports :
        LET x == export[e]
            y == export'[e] IN
               /\ y.doc \in {NoDoc, x.doc} /\ y.files = x.files /\ y.result = x.result
               /\ y.at = x.at /\ y.candidate = x.candidate /\ y.job = x.job
               /\ x.doc # d => y.doc = x.doc
    <2> TAKE e \in Exports
    <2>1. CASE export[e].doc = d
        <3>1. export'[e] = [export[e] EXCEPT !.doc = NoDoc, !.kept = FALSE, !.result = NoFile]
            BY <1>1, <2>1
        <3>2. QED
            BY <1>2, <1>3, <2>1, <3>1 DEF ExportType
    <2>2. CASE export[e].doc # d
        BY <1>1, <2>2
    <2>3. QED
        BY <2>1, <2>2
<1>5. /\ \A f \in DocFiles : f # NoFile
      /\ d # NoDoc
    BY DEF DocFiles, NoFile, Docs, NoDoc
<1>6. UploadsAreHome'
    BY <1>1 DEF FilesInv, UploadsAreHome
<1>7. ArchivesAreApart'
    <2>1. \A x \in Exports, g \in DocFiles : Archive(export'[x], g) => Archive(export[x], g)
        BY <1>4 DEF Archive
    <2>2. \A x \in Exports, g \in DocFiles : Archive(export'[x], g) =>
            /\ file'[g] # "none"
            /\ export'[x].doc \in {NoDoc, home'[g]}
            /\ \A c \in Docs : <<g, c>> \notin uploads'
            /\ \A y \in Exports : g \notin export'[y].files
        BY <1>1, <1>4, <2>1 DEF FilesInv, ArchivesAreApart
    <2>3. QED
        BY <2>2 DEF ArchivesAreApart, Archive
<1>8. ResultsAreOwn'
    BY <1>3, <1>4 DEF FilesInv, ResultsAreOwn
<1>9. SnapshotsAreHome'
    <2>1. \A e \in Exports : export[e].files \subseteq DocFiles
        BY <1>2 DEF ExportType
    <2>2. QED
        BY <1>1, <1>4, <2>1 DEF FilesInv, SnapshotsAreHome
<1>10. LinkedAreReady'
    BY <1>1, <1>4 DEF FilesInv, LinkedAreReady
<1>11. ReadyAreLinked'
    BY <1>1, <1>4, ZenonT(60) DEF FilesInv, ReadyAreLinked
<1>12. GoneIsBare'
    <2> SUFFICES ASSUME NEW f \in DocFiles, home[f] # NoDoc, doc'[home[f]] = "gone"
                 PROVE  file[f] # "ready" /\ \A c \in Docs : <<f, c>> \notin uploads
        BY <1>1 DEF GoneIsBare
    <2>1. CASE home[f] # d
        BY <1>1, <2>1 DEF FilesInv, GoneIsBare, DocumentsTypeOK
    <2>2. CASE home[f] = d
        <3>1. \A c \in Docs : <<f, c>> \notin uploads
            BY <1>3, <2>2 DEF FilesInv, UploadsAreHome
        <3>2. \A e \in Exports : export[e].result # f
            <4> SUFFICES ASSUME NEW e \in Exports, export[e].result = f PROVE FALSE
                OBVIOUS
            <4>1. export[e].doc \in {NoDoc, d}
                BY <2>2 DEF FilesInv, ArchivesAreApart, Archive
            <4>2. export[e].doc # NoDoc
                BY <1>5 DEF FilesInv, ResultsAreOwn
            <4>3. QED
                BY <1>3, <1>5, <4>1, <4>2
        <3>3. QED
            BY <3>1, <3>2 DEF FilesInv, ReadyAreLinked, UploadsAreHome
    <2>3. QED
        BY <2>1, <2>2
<1>13. QED
    BY <1>6, <1>7, <1>8, <1>9, <1>10, <1>11, <1>12 DEF FilesInv

-----------------------------------------------------------------------------
(* Types of the documents.                                                 *)

\* There is nothing at first.
LEMMA DocumentsStart == DocumentsInit => DocumentsTypeOK /\ FilesInv
<1> SUFFICES ASSUME DocumentsInit PROVE DocumentsTypeOK /\ FilesInv
    OBVIOUS
<1>1. Unrequested \in ExportType
    BY DEF Unrequested, ExportType, NoDoc, NoFile, JobStates
<1>2. DocumentsTypeOK
    BY <1>1 DEF DocumentsInit, DocumentsTypeOK, JobStates, NoDoc
<1>3. \A e \in Exports : export[e].result = NoFile /\ export[e].at = "idle" /\ export[e].files = {}
    BY DEF DocumentsInit, Unrequested
<1>4. \A f \in DocFiles : f # NoFile
    BY DEF DocFiles, NoFile
<1>5. FilesInv
    BY <1>3, <1>4 DEF DocumentsInit, FilesInv, UploadsAreHome, ArchivesAreApart, Archive, ResultsAreOwn,
        SnapshotsAreHome, LinkedAreReady, ReadyAreLinked, GoneIsBare
<1>6. QED
    BY <1>2, <1>5

\* Where everything but one export stays in its type.
LEMMA SetTypes ==
    ASSUME DocumentsTypeOK, NEW e \in Exports, NEW x \in ExportType, Set(e, x),
           UNCHANGED <<rows, home, links, member>>,
           file' \in [DocFiles -> {"none", "pending", "ready", "dead"}]
    PROVE  DocumentsTypeOK'
<1>1. export' \in [Exports -> ExportType]
    BY DEF Set, DocumentsTypeOK
<1>2. QED
    BY <1>1 DEF DocumentsTypeOK, rows, links, member

\* Types are kept by the actions on documents, files and attachments.
LEMMA DocumentTypes ==
    ASSUME DocumentsTypeOK,
           \/ \E d \in Docs : CreateDocument(d) \/ DeleteDocument(d)
           \/ DeleteBase \/ ChangeGrant \/ SessionEnds
           \/ \E f \in DocFiles, d \in Docs :
                StartUpload(f, d) \/ CompleteUpload(f, d) \/ RemoveAttachment(f, d)
           \/ \E f \in DocFiles : EndFile(f)
    PROVE  DocumentsTypeOK'
<1>1. ASSUME NEW d \in Docs, CreateDocument(d) PROVE DocumentsTypeOK'
    BY <1>1 DEF CreateDocument, DocumentsTypeOK, links, member
<1>2. ASSUME NEW d \in Docs, DeleteDocument(d) PROVE DocumentsTypeOK'
    BY <1>2 DEF DeleteDocument, QueueCleanup, DocumentsTypeOK, JobStates, links, member
<1>3. CASE DeleteBase
    BY <1>3 DEF DeleteBase, DocumentsTypeOK, JobStates, links, member
<1>4. CASE ChangeGrant
    BY <1>4 DEF ChangeGrant, DocumentsTypeOK, rows, links
<1>5. CASE SessionEnds
    BY <1>5 DEF SessionEnds, DocumentsTypeOK, rows, links
<1>6. ASSUME NEW f \in DocFiles, NEW d \in Docs, StartUpload(f, d) PROVE DocumentsTypeOK'
    BY <1>6 DEF StartUpload, NewFile, DocumentsTypeOK, rows, member
<1>7. ASSUME NEW f \in DocFiles, NEW d \in Docs, CompleteUpload(f, d) PROVE DocumentsTypeOK'
    BY <1>7 DEF CompleteUpload, Adopt, DocumentsTypeOK, rows, member
<1>8. ASSUME NEW f \in DocFiles, NEW d \in Docs, RemoveAttachment(f, d) PROVE DocumentsTypeOK'
    BY <1>8 DEF RemoveAttachment, Dies, DocumentsTypeOK, rows, member
<1>9. ASSUME NEW f \in DocFiles, EndFile(f) PROVE DocumentsTypeOK'
    BY <1>9 DEF EndFile, DocumentsTypeOK, rows, links, member
<1>10. QED
    BY <1>1, <1>2, <1>3, <1>4, <1>5, <1>6, <1>7, <1>8, <1>9

\* Types are kept by the actions on exports.
LEMMA ExportTypes ==
    ASSUME DocumentsTypeOK, NEW e \in Exports,
           \/ \E d \in Docs : RequestExport(e, d)
           \/ \E f \in DocFiles : PrepareArchive(e, f)
           \/ BeginExport(e) \/ PublishExport(e) \/ AttemptLost(e) \/ ExportFails(e)
           \/ RetryExport(e) \/ RetentionEnds(e) \/ ExpireExport(e)
    PROVE  DocumentsTypeOK'
<1>t. /\ export[e] \in ExportType
      /\ file \in [DocFiles -> {"none", "pending", "ready", "dead"}]
    BY DEF DocumentsTypeOK
<1>1. ASSUME NEW d \in Docs, RequestExport(e, d) PROVE DocumentsTypeOK'
    <2> DEFINE x == [Unrequested EXCEPT !.doc = d, !.kept = TRUE, !.files = FilesOf(d, attached), !.job = "open"]
    <2>1. x \in ExportType
        BY DEF Unrequested, ExportType, FilesOf, NoFile, JobStates
    <2> HIDE DEF x
    <2>2. Set(e, x) /\ UNCHANGED <<rows, file, home, links, member>>
        BY <1>1 DEF RequestExport, x
    <2>3. QED
        BY <1>t, <2>1, <2>2, SetTypes
<1>2. ASSUME NEW f \in DocFiles, PrepareArchive(e, f) PROVE DocumentsTypeOK'
    <2> DEFINE x == [export[e] EXCEPT !.at = "writing", !.candidate = f]
    <2>1. x \in ExportType /\ export[e].doc \in Docs \cup {NoDoc}
        BY <1>t DEF ExportType
    <2>2. /\ export' = [export EXCEPT ![e] = x] /\ UNCHANGED <<rows, links, member>>
          /\ file' = [file EXCEPT ![f] = "pending"] /\ home' = [home EXCEPT ![f] = export[e].doc]
        BY <1>2 DEF PrepareArchive, NewFile, Set
    <2> HIDE DEF x
    <2>3. QED
        BY <2>1, <2>2 DEF DocumentsTypeOK, rows, links, member
<1>3. CASE BeginExport(e)
    <2> DEFINE x == [export[e] EXCEPT !.at = "building"]
    <2>1. x \in ExportType
        BY <1>t DEF ExportType
    <2>2. Set(e, x) /\ UNCHANGED <<rows, file, home, links, member>>
        BY <1>3 DEF BeginExport
    <2>3. QED
        BY <1>t, <2>1, <2>2, SetTypes
<1>4. CASE PublishExport(e)
    <2> DEFINE x == [export[e] EXCEPT !.result = export[e].candidate, !.job = "done",
                                      !.at = "idle", !.candidate = NoFile]
    <2>1. x \in ExportType
        BY <1>t DEF ExportType, NoFile, JobStates
    <2>2. Set(e, x) /\ Adopt(export[e].candidate) /\ UNCHANGED <<rows, home, links, member>>
        BY <1>4 DEF PublishExport
    <2>3. file' \in [DocFiles -> {"none", "pending", "ready", "dead"}]
        BY <1>t, <2>2 DEF Adopt
    <2>4. QED
        BY <2>1, <2>2, <2>3, SetTypes
<1>5. CASE AttemptLost(e)
    <2> DEFINE x == [export[e] EXCEPT !.at = "idle", !.candidate = NoFile]
    <2>1. x \in ExportType
        BY <1>t DEF ExportType, NoFile
    <2>2. Set(e, x) /\ UNCHANGED <<rows, file, home, links, member>>
        BY <1>5 DEF AttemptLost
    <2>3. QED
        BY <1>t, <2>1, <2>2, SetTypes
<1>6. CASE ExportFails(e)
    <2> DEFINE x == [export[e] EXCEPT !.job = "failed", !.at = "idle", !.candidate = NoFile]
    <2>1. x \in ExportType
        BY <1>t DEF ExportType, NoFile, JobStates
    <2>2. Set(e, x) /\ UNCHANGED <<rows, file, home, links, member>>
        BY <1>6 DEF ExportFails
    <2>3. QED
        BY <1>t, <2>1, <2>2, SetTypes
<1>7. CASE RetryExport(e)
    <2> DEFINE x == [export[e] EXCEPT !.job = "open"]
    <2>1. x \in ExportType
        BY <1>t DEF ExportType, JobStates
    <2>2. Set(e, x) /\ UNCHANGED <<rows, file, home, links, member>>
        BY <1>7 DEF RetryExport
    <2>3. QED
        BY <1>t, <2>1, <2>2, SetTypes
<1>8. CASE RetentionEnds(e)
    <2> DEFINE x == [export[e] EXCEPT !.expired = TRUE]
    <2>1. x \in ExportType
        BY <1>t DEF ExportType
    <2>2. Set(e, x) /\ UNCHANGED <<rows, file, home, links, member>>
        BY <1>8 DEF RetentionEnds
    <2>3. QED
        BY <1>t, <2>1, <2>2, SetTypes
<1>9. CASE ExpireExport(e)
    <2> DEFINE x == [export[e] EXCEPT !.kept = FALSE, !.result = NoFile]
    <2>1. x \in ExportType
        BY <1>t DEF ExportType, NoFile
    <2>2. Set(e, x) /\ UNCHANGED <<rows, home, links, member>>
        BY <1>9 DEF ExpireExport
    <2>3. file' \in [DocFiles -> {"none", "pending", "ready", "dead"}]
        BY <1>9, <1>t DEF ExpireExport, Dies
    <2>4. QED
        BY <2>1, <2>2, <2>3, SetTypes
<1>10. QED
    BY <1>1, <1>2, <1>3, <1>4, <1>5, <1>6, <1>7, <1>8, <1>9

\* A cleanup leaves exports of their type.
LEMMA DroppedTypes ==
    ASSUME DocumentsTypeOK, NEW T \in SUBSET Exports,
           export' = [e \in Exports |->
               IF e \in T THEN [export[e] EXCEPT !.doc = NoDoc, !.kept = FALSE, !.result = NoFile]
               ELSE export[e]]
    PROVE  export' \in [Exports -> ExportType]
<1>1. ASSUME NEW e \in Exports
      PROVE  [export[e] EXCEPT !.doc = NoDoc, !.kept = FALSE, !.result = NoFile] \in ExportType
    <2>1. export[e] \in ExportType
        BY DEF DocumentsTypeOK
    <2>2. QED
        BY <2>1 DEF ExportType, NoDoc, NoFile
<1>2. QED
    BY <1>1 DEF DocumentsTypeOK

\* Types are kept by the cleanups.
LEMMA CleanupTypes ==
    ASSUME DocumentsTypeOK, Cleanup \/ CleanupFails \/ RetryCleanup
    PROVE  DocumentsTypeOK'
<1>1. CASE CleanupBase
    <2>1. CASE LiveDocs # {}
        BY <1>1, <2>1 DEF CleanupBase, QueueCleanup, DocumentsTypeOK, JobStates, links
    <2>2. CASE LiveDocs = {}
        BY <1>1, <2>2 DEF CleanupBase, DocumentsTypeOK, JobStates, links
    <2>3. QED
        BY <2>1, <2>2
<1>2. ASSUME NEW d \in Docs, CleanupDocument(d) PROVE DocumentsTypeOK'
    <2>0. UNCHANGED <<base, home, member>>
        BY <1>2 DEF CleanupDocument
    <2>1. CASE CleanupFiles(d)
        <3> DEFINE S == FirstOf(LinkedTo(d))
                   T == {e \in Exports : export[e].doc = d /\ export[e].result \in S}
        <3>1. export' \in [Exports -> ExportType]
            <4>1. export' = [e \in Exports |->
                    IF e \in T THEN [export[e] EXCEPT !.doc = NoDoc, !.kept = FALSE, !.result = NoFile]
                    ELSE export[e]]
                BY <2>1 DEF CleanupFiles
            <4> HIDE DEF T
            <4>2. T \in SUBSET Exports
                BY DEF T
            <4>3. QED
                BY <4>1, <4>2, DroppedTypes
        <3>2. /\ file' \in [DocFiles -> {"none", "pending", "ready", "dead"}]
              /\ uploads' \subseteq uploads /\ attached' \subseteq attached
              /\ UNCHANGED <<doc, job>>
            BY <2>1 DEF CleanupFiles, Dies, DocumentsTypeOK
        <3>3. QED
            BY <2>0, <3>1, <3>2 DEF DocumentsTypeOK, member
    <2>2. CASE RemoveDocument(d)
        <3> DEFINE T == {e \in Exports : export[e].doc = d}
        <3>1. export' \in [Exports -> ExportType]
            <4>1. export' = [e \in Exports |->
                    IF e \in T THEN [export[e] EXCEPT !.doc = NoDoc, !.kept = FALSE, !.result = NoFile]
                    ELSE export[e]]
                BY <2>2 DEF RemoveDocument
            <4> HIDE DEF T
            <4>2. T \in SUBSET Exports
                BY DEF T
            <4>3. QED
                BY <4>1, <4>2, DroppedTypes
        <3>2. QED
            BY <2>0, <2>2, <3>1 DEF RemoveDocument, DocumentsTypeOK, JobStates, links, member
    <2>3. QED
        BY <1>2, <2>1, <2>2 DEF CleanupDocument
<1>3. CASE CleanupFails
    BY <1>3 DEF CleanupFails, DocumentsTypeOK, JobStates, links, member
<1>4. CASE RetryCleanup
    BY <1>4 DEF RetryCleanup, DocumentsTypeOK, JobStates, links, member
<1>5. QED
    BY <1>1, <1>2, <1>3, <1>4 DEF Cleanup

-----------------------------------------------------------------------------
(* The steps of the documents.                                             *)

\* An export whose document, snapshot and result stay, and that starts no archive.
LEMMA QuietSetKeeps ==
    ASSUME DocumentsTypeOK, FilesInv, NEW e \in Exports, NEW x, Set(e, x),
           UNCHANGED <<rows, file, home, links>>,
           x.doc = export[e].doc, x.files = export[e].files, x.result = export[e].result,
           x.at = "writing" => export[e].at = "writing" /\ x.candidate = export[e].candidate,
           x.job = "none" => export[e].job = "none"
    PROVE  FilesInv'
<1>1. \A y \in Exports : export'[y] = (IF y = e THEN x ELSE export[y])
    BY DEF Set, DocumentsTypeOK
<1>2. \A y \in Exports :
               /\ export'[y].doc = export[y].doc
               /\ export'[y].files = export[y].files
               /\ export'[y].result = export[y].result
               /\ export'[y].job = "none" => export[y].job = "none"
               /\ export'[y].at = "writing" =>
                      export[y].at = "writing" /\ export'[y].candidate = export[y].candidate
    BY <1>1
<1>3. UNCHANGED <<doc, file, home, uploads, attached>>
    BY DEF rows, links
<1>4. \A d \in Docs : doc'[d] = "gone" => doc[d] = "gone"
    BY <1>3
<1>5. QED
    BY <1>2, <1>3, <1>4, QuietKeeps

\* The actions on documents, files and attachments keep the files accounted for.
LEMMA DocumentFiles ==
    ASSUME DocumentsTypeOK, FilesInv,
           \/ \E d \in Docs : CreateDocument(d) \/ DeleteDocument(d)
           \/ DeleteBase \/ ChangeGrant \/ SessionEnds
           \/ \E f \in DocFiles, d \in Docs :
                StartUpload(f, d) \/ CompleteUpload(f, d) \/ RemoveAttachment(f, d)
           \/ \E f \in DocFiles : EndFile(f)
    PROVE  FilesInv'
<1>1. ASSUME UNCHANGED <<file, home, uploads, attached, export>>,
             \A d \in Docs : doc'[d] = "gone" => doc[d] = "gone"
      PROVE  FilesInv'
    BY <1>1, QuietKeeps
<1>2. ASSUME NEW d \in Docs, CreateDocument(d) PROVE FilesInv'
    BY <1>1, <1>2 DEF CreateDocument, DocumentsTypeOK, links
<1>3. ASSUME NEW d \in Docs, DeleteDocument(d) PROVE FilesInv'
    BY <1>1, <1>3 DEF DeleteDocument, QueueCleanup, DocumentsTypeOK, links
<1>4. CASE DeleteBase
    BY <1>1, <1>4 DEF DeleteBase, links
<1>5. CASE ChangeGrant
    BY <1>1, <1>5 DEF ChangeGrant, rows, links
<1>6. CASE SessionEnds
    BY <1>1, <1>6 DEF SessionEnds, rows, links
<1>7. QED
    BY <1>2, <1>3, <1>4, <1>5, <1>6, StartUploadKeeps, CompleteUploadKeeps, RemoveAttachmentKeeps,
        EndFileKeeps

\* So do the actions on exports.
LEMMA ExportFiles ==
    ASSUME DocumentsTypeOK, FilesInv, NEW e \in Exports,
           \/ \E d \in Docs : RequestExport(e, d)
           \/ \E f \in DocFiles : PrepareArchive(e, f)
           \/ BeginExport(e) \/ PublishExport(e) \/ AttemptLost(e) \/ ExportFails(e)
           \/ RetryExport(e) \/ RetentionEnds(e) \/ ExpireExport(e)
    PROVE  FilesInv'
<1>t. export[e] \in ExportType
    BY DEF DocumentsTypeOK
<1>1. CASE BeginExport(e)
    <2> DEFINE x == [export[e] EXCEPT !.at = "building"]
    <2>1. /\ x.doc = export[e].doc /\ x.files = export[e].files /\ x.result = export[e].result
          /\ x.at = "building" /\ x.job = export[e].job
        BY <1>t DEF ExportType
    <2> HIDE DEF x
    <2>2. Set(e, x) /\ UNCHANGED <<rows, file, home, links>>
        BY <1>1 DEF BeginExport, x
    <2>3. QED
        BY <2>1, <2>2, QuietSetKeeps
<1>2. CASE AttemptLost(e)
    <2> DEFINE x == [export[e] EXCEPT !.at = "idle", !.candidate = NoFile]
    <2>1. /\ x.doc = export[e].doc /\ x.files = export[e].files /\ x.result = export[e].result
          /\ x.at = "idle" /\ x.job = export[e].job
        BY <1>t DEF ExportType
    <2> HIDE DEF x
    <2>2. Set(e, x) /\ UNCHANGED <<rows, file, home, links>>
        BY <1>2 DEF AttemptLost, x
    <2>3. QED
        BY <2>1, <2>2, QuietSetKeeps
<1>3. CASE ExportFails(e)
    <2> DEFINE x == [export[e] EXCEPT !.job = "failed", !.at = "idle", !.candidate = NoFile]
    <2>1. /\ x.doc = export[e].doc /\ x.files = export[e].files /\ x.result = export[e].result
          /\ x.at = "idle" /\ x.job = "failed"
        BY <1>t DEF ExportType
    <2> HIDE DEF x
    <2>2. Set(e, x) /\ UNCHANGED <<rows, file, home, links>>
        BY <1>3 DEF ExportFails, x
    <2>3. QED
        BY <2>1, <2>2, QuietSetKeeps
<1>4. CASE RetryExport(e)
    <2> DEFINE x == [export[e] EXCEPT !.job = "open"]
    <2>1. /\ x.doc = export[e].doc /\ x.files = export[e].files /\ x.result = export[e].result
          /\ x.at = export[e].at /\ x.candidate = export[e].candidate /\ x.job = "open"
        BY <1>t DEF ExportType
    <2> HIDE DEF x
    <2>2. Set(e, x) /\ UNCHANGED <<rows, file, home, links>>
        BY <1>4 DEF RetryExport, x
    <2>3. QED
        BY <2>1, <2>2, QuietSetKeeps
<1>5. CASE RetentionEnds(e)
    <2> DEFINE x == [export[e] EXCEPT !.expired = TRUE]
    <2>1. /\ x.doc = export[e].doc /\ x.files = export[e].files /\ x.result = export[e].result
          /\ x.at = export[e].at /\ x.candidate = export[e].candidate /\ x.job = export[e].job
        BY <1>t DEF ExportType
    <2> HIDE DEF x
    <2>2. Set(e, x) /\ UNCHANGED <<rows, file, home, links>>
        BY <1>5 DEF RetentionEnds, x
    <2>3. QED
        BY <2>1, <2>2, QuietSetKeeps
<1>6. QED
    BY <1>1, <1>2, <1>3, <1>4, <1>5, RequestExportKeeps, PrepareArchiveKeeps, PublishExportKeeps,
        ExpireExportKeeps

\* So do the cleanups, whether they go on, fail or are retried.
LEMMA CleanupKeeps ==
    ASSUME DocumentsTypeOK, FilesInv, Cleanup \/ CleanupFails \/ RetryCleanup
    PROVE  FilesInv'
<1>1. ASSUME UNCHANGED <<file, home, uploads, attached, export>>,
             \A d \in Docs : doc'[d] = "gone" => doc[d] = "gone"
      PROVE  FilesInv'
    BY <1>1, QuietKeeps
<1>2. CASE CleanupBase
    <2>1. CASE LiveDocs # {}
        BY <1>1, <1>2, <2>1 DEF CleanupBase, QueueCleanup, DocumentsTypeOK, links
    <2>2. CASE LiveDocs = {}
        BY <1>1, <1>2, <2>2 DEF CleanupBase, links
    <2>3. QED
        BY <2>1, <2>2
<1>3. ASSUME NEW d \in Docs, CleanupDocument(d) PROVE FilesInv'
    BY <1>3, CleanupFilesKeeps, RemoveDocumentKeeps DEF CleanupDocument
<1>4. CASE CleanupFails
    BY <1>1, <1>4 DEF CleanupFails, links
<1>5. CASE RetryCleanup
    BY <1>1, <1>5 DEF RetryCleanup, links
<1>6. QED
    BY <1>2, <1>3, <1>4, <1>5 DEF Cleanup

\* Every step of the documents keeps types and files.
LEMMA DocumentsStep ==
    DocumentsTypeOK /\ FilesInv /\ [DocumentsNext]_docVars => DocumentsTypeOK' /\ FilesInv'
<1> SUFFICES ASSUME DocumentsTypeOK, FilesInv, [DocumentsNext]_docVars
             PROVE  DocumentsTypeOK' /\ FilesInv'
    OBVIOUS
<1>1. CASE \/ \E d \in Docs : CreateDocument(d) \/ DeleteDocument(d)
           \/ DeleteBase \/ ChangeGrant \/ SessionEnds
           \/ \E f \in DocFiles, d \in Docs :
                StartUpload(f, d) \/ CompleteUpload(f, d) \/ RemoveAttachment(f, d)
           \/ \E f \in DocFiles : EndFile(f)
    BY <1>1, DocumentTypes, DocumentFiles
<1>2. ASSUME NEW e \in Exports,
             \/ \E d \in Docs : RequestExport(e, d)
             \/ \E f \in DocFiles : PrepareArchive(e, f)
             \/ BeginExport(e) \/ PublishExport(e) \/ AttemptLost(e) \/ ExportFails(e)
             \/ RetryExport(e) \/ RetentionEnds(e) \/ ExpireExport(e)
      PROVE  DocumentsTypeOK' /\ FilesInv'
    BY <1>2, ExportTypes, ExportFiles
<1>3. CASE Cleanup \/ CleanupFails \/ RetryCleanup
    BY <1>3, CleanupTypes, CleanupKeeps
<1>4. CASE UNCHANGED docVars
    <2>1. UNCHANGED <<base, doc, job, file, home, uploads, attached, grant, session, export>>
        BY <1>4 DEF docVars
    <2>2. DocumentsTypeOK'
        BY <2>1 DEF DocumentsTypeOK
    <2>3. FilesInv'
        BY <2>1, QuietKeeps
    <2>4. QED
        BY <2>2, <2>3
<1>5. QED
    BY <1>1, <1>2, <1>3, <1>4 DEF DocumentsNext

\* A result appears only when an attempt publishes, right after it was authorized again.
LEMMA ResultIsPublished ==
    ASSUME DocumentsTypeOK, FilesInv, DocumentsNext, NEW e \in Exports,
           export[e].result = NoFile, export'[e].result # NoFile
    PROVE  PublishExport(e)
<1>t. \A x \in Exports : export[x] \in ExportType
    BY DEF DocumentsTypeOK
<1>1. ASSUME NEW x \in Exports, NEW y, Set(x, y), y.result \in {NoFile, export[x].result}
      PROVE  FALSE
    <2>1. export'[e] = IF e = x THEN y ELSE export[e]
        BY <1>1 DEF Set, DocumentsTypeOK
    <2>2. QED
        BY <1>1, <2>1
<1>2. CASE UNCHANGED export
    BY <1>2
<1>3. ASSUME NEW x \in Exports, NEW d \in Docs, RequestExport(x, d) PROVE FALSE
    BY <1>1, <1>3 DEF RequestExport, Unrequested
<1>4. ASSUME NEW x \in Exports, NEW f \in DocFiles, PrepareArchive(x, f) PROVE FALSE
    BY <1>1, <1>4, <1>t DEF PrepareArchive, ExportType
<1>5. ASSUME NEW x \in Exports, BeginExport(x) PROVE FALSE
    BY <1>1, <1>5, <1>t DEF BeginExport, ExportType
<1>6. ASSUME NEW x \in Exports, AttemptLost(x) PROVE FALSE
    BY <1>1, <1>6, <1>t DEF AttemptLost, ExportType
<1>7. ASSUME NEW x \in Exports, ExportFails(x) PROVE FALSE
    BY <1>1, <1>7, <1>t DEF ExportFails, ExportType
<1>8. ASSUME NEW x \in Exports, RetryExport(x) PROVE FALSE
    BY <1>1, <1>8, <1>t DEF RetryExport, ExportType
<1>9. ASSUME NEW x \in Exports, RetentionEnds(x) PROVE FALSE
    BY <1>1, <1>9, <1>t DEF RetentionEnds, ExportType
<1>10. ASSUME NEW x \in Exports, ExpireExport(x) PROVE FALSE
    BY <1>1, <1>10, <1>t DEF ExpireExport, ExportType
<1>11. ASSUME NEW x \in Exports, PublishExport(x) PROVE PublishExport(e)
    <2>1. CASE x = e
        BY <1>11, <2>1
    <2>2. CASE x # e
        BY <1>11, <2>2 DEF PublishExport, Set, DocumentsTypeOK
    <2>3. QED
        BY <2>1, <2>2
<1>12. ASSUME NEW d \in Docs, CleanupDocument(d) PROVE FALSE
    <2>1. [export[e] EXCEPT !.doc = NoDoc, !.kept = FALSE, !.result = NoFile].result = NoFile
        BY <1>t DEF ExportType
    <2>2. QED
        BY <1>12, <2>1 DEF CleanupDocument, CleanupFiles, RemoveDocument
<1>13. CASE CleanupBase \/ CleanupFails \/ RetryCleanup
    BY <1>2, <1>13 DEF CleanupBase, CleanupFails, RetryCleanup
<1>14. CASE \/ \E d \in Docs : CreateDocument(d) \/ DeleteDocument(d)
            \/ DeleteBase \/ ChangeGrant \/ SessionEnds
            \/ \E f \in DocFiles, d \in Docs :
                 StartUpload(f, d) \/ CompleteUpload(f, d) \/ RemoveAttachment(f, d)
            \/ \E f \in DocFiles : EndFile(f)
    BY <1>2, <1>14 DEF CreateDocument, DeleteDocument, DeleteBase, ChangeGrant, SessionEnds,
        StartUpload, CompleteUpload, RemoveAttachment, EndFile
<1>15. QED
    BY <1>3, <1>4, <1>5, <1>6, <1>7, <1>8, <1>9, <1>10, <1>11, <1>12, <1>13, <1>14
        DEF DocumentsNext, Cleanup

\* What is ready and in a snapshot is attached: it was never an archive.
LEMMA SnapshotIsAttached ==
    ASSUME DocumentsTypeOK, FilesInv, NEW e \in Exports, NEW f \in export[e].files,
           export[e].doc # NoDoc, file[f] = "ready"
    PROVE  <<f, export[e].doc>> \in attached
<1>1. f \in DocFiles
    BY DEF DocumentsTypeOK, ExportType
<1>2. \A x \in Exports : export[x].result # f
    BY <1>1 DEF FilesInv, ArchivesAreApart, Archive
<1>3. PICK d \in Docs : <<f, d>> \in attached
    BY <1>1, <1>2 DEF FilesInv, ReadyAreLinked
<1>4. home[f] = d
    BY <1>1, <1>3 DEF FilesInv, UploadsAreHome
<1>5. home[f] = export[e].doc
    BY DEF FilesInv, SnapshotsAreHome
<1>6. QED
    BY <1>3, <1>4, <1>5

-----------------------------------------------------------------------------
(* What documents do to files is what Files lets its owners do.            *)

\* The three ways in which one step changes a file.
Begins(f) == file[f] = "none" /\ file'[f] = "pending"
IsPublished(f) == file[f] = "pending" /\ file'[f] = "ready"
IsDiscarded(f) == file[f] \in {"pending", "ready"} /\ file'[f] = "dead"
Stays(f) == file'[f] = file[f]

\* What is linked to a document is a file that was made.
LEMMA LinkedWereMade ==
    ASSUME DocumentsTypeOK, FilesInv, NEW d \in Docs, NEW f \in LinkedTo(d) \cap DocFiles
    PROVE  file[f] \in {"pending", "ready", "dead"}
<1>1. file[f] # "none"
    <2>1. CASE f \in FilesOf(d, uploads) \cup FilesOf(d, attached)
        BY <2>1 DEF FilesOf, FilesInv, UploadsAreHome
    <2>2. CASE f \in ResultsOf(d)
        BY <2>2 DEF ResultsOf, FilesInv, ArchivesAreApart, Archive
    <2>3. QED
        BY <2>1, <2>2 DEF LinkedTo
<1>2. QED
    BY <1>1 DEF DocumentsTypeOK

\* A file begins alone, is published alone, or is discarded, alone or with a batch; what is
\* dead stays so when a cleanup meets it again.
LEMMA FileSteps ==
    ASSUME DocumentsTypeOK, FilesInv, [DocumentsNext]_docVars
    PROVE  \/ \E f \in DocFiles :
              /\ Begins(f) \/ IsPublished(f)
              /\ \A g \in DocFiles \ {f} : Stays(g)
           \/ \A f \in DocFiles : Stays(f) \/ IsDiscarded(f)
<1>0. file \in [DocFiles -> {"none", "pending", "ready", "dead"}]
    BY DEF DocumentsTypeOK
<1>1. CASE UNCHANGED file
    BY <1>1 DEF Stays
<1>2. ASSUME NEW f \in DocFiles, NEW d, NewFile(f, d)
      PROVE  Begins(f) /\ \A g \in DocFiles \ {f} : Stays(g)
    BY <1>0, <1>2 DEF NewFile, Begins, Stays
<1>3. ASSUME NEW f \in DocFiles, Adopt(f)
      PROVE  IsPublished(f) /\ \A g \in DocFiles \ {f} : Stays(g)
    BY <1>0, <1>3 DEF Adopt, IsPublished, Stays
<1>4. ASSUME NEW S, file' = Dies(S),
             \A f \in S \cap DocFiles : file[f] \in {"pending", "ready", "dead"}
      PROVE  \A f \in DocFiles : Stays(f) \/ IsDiscarded(f)
    BY <1>4 DEF Dies, Stays, IsDiscarded
<1>5. CASE \/ \E f \in DocFiles, d \in Docs : StartUpload(f, d)
           \/ \E e \in Exports, f \in DocFiles : PrepareArchive(e, f)
    BY <1>2, <1>5 DEF StartUpload, PrepareArchive
<1>6. CASE \E f \in DocFiles, d \in Docs : CompleteUpload(f, d)
    BY <1>3, <1>6 DEF CompleteUpload
<1>7. CASE \E e \in Exports : PublishExport(e)
    <2>1. PICK e \in Exports : PublishExport(e)
        BY <1>7
    <2>2. PICK f \in DocFiles : f = export[e].candidate
        BY <2>1 DEF PublishExport, Attempting, FilesInv, ResultsAreOwn, DocumentsTypeOK, ExportType
    <2>3. Adopt(f)
        BY <2>1, <2>2 DEF PublishExport
    <2>4. QED
        BY <1>3, <2>3
<1>8. CASE \E f \in DocFiles : EndFile(f)
    BY <1>0, <1>8 DEF EndFile, Stays, IsDiscarded
<1>9. CASE \E f \in DocFiles, d \in Docs : RemoveAttachment(f, d)
    <2>1. PICK f \in DocFiles, d \in Docs : RemoveAttachment(f, d)
        BY <1>9
    <2>2. file' = Dies({f}) /\ file[f] = "ready"
        BY <2>1 DEF RemoveAttachment, FilesInv, LinkedAreReady
    <2>3. QED
        BY <1>4, <2>2
<1>10. CASE \E e \in Exports : ExpireExport(e)
    <2>1. PICK e \in Exports : ExpireExport(e)
        BY <1>10
    <2>2. file' = Dies({export[e].result})
        BY <2>1 DEF ExpireExport
    <2>3. \A f \in {export[e].result} \cap DocFiles : file[f] = "ready"
        BY DEF FilesInv, LinkedAreReady, DocFiles, NoFile
    <2>4. QED
        BY <1>4, <2>2, <2>3
<1>11. CASE \E d \in Docs : CleanupDocument(d)
    <2>1. PICK d \in Docs : CleanupDocument(d)
        BY <1>11
    <2>2. CASE RemoveDocument(d)
        BY <1>1, <2>2 DEF RemoveDocument
    <2>3. CASE CleanupFiles(d)
        <3>1. file' = Dies(FirstOf(LinkedTo(d)))
            BY <2>3 DEF CleanupFiles
        <3>2. FirstOf(LinkedTo(d)) \subseteq LinkedTo(d)
            BY DEF FirstOf
        <3>3. QED
            BY <1>4, <3>1, <3>2, LinkedWereMade
    <2>4. QED
        BY <2>1, <2>2, <2>3 DEF CleanupDocument
<1>12. CASE \/ \E d \in Docs : CreateDocument(d) \/ DeleteDocument(d)
            \/ DeleteBase \/ ChangeGrant \/ SessionEnds
            \/ \E e \in Exports, d \in Docs : RequestExport(e, d)
            \/ \E e \in Exports :
                \/ BeginExport(e) \/ AttemptLost(e) \/ ExportFails(e)
                \/ RetryExport(e) \/ RetentionEnds(e)
            \/ CleanupBase \/ CleanupFails \/ RetryCleanup
            \/ UNCHANGED docVars
    <2>1. UNCHANGED file
        BY <1>12 DEF CreateDocument, DeleteDocument, DeleteBase, ChangeGrant, SessionEnds,
            RequestExport, BeginExport, AttemptLost, ExportFails, RetryExport, RetentionEnds,
            CleanupBase, CleanupFails, RetryCleanup, docVars
    <2>2. QED
        BY <1>1, <2>1
<1>13. QED
    BY <1>5, <1>6, <1>7, <1>8, <1>9, <1>10, <1>11, <1>12 DEF DocumentsNext, Cleanup

-----------------------------------------------------------------------------
(* The jobs of the knowledge module move as the queue allows.              *)

\* Nothing is queued for what is not deleted: a cleanup is enqueued where it was none.
JobsBegin ==
    /\ base.live => base.job = "none"
    /\ \A d \in Docs : doc[d] \in {"none", "live"} => job[d] = "none"

Seen(status) == IF status = "done" THEN "succeeded" ELSE status

\* The jobs of S go from one phase to another, all others stay.
Move(S, from, to) ==
    \A j \in KnowledgeJobs :
        IF j \in S THEN PhaseOf(j) = from /\ PhaseOf(j)' = to ELSE PhaseOf(j)' = PhaseOf(j)

\* What several jobs, and what one job, may do in a step.
Together == {<<"none", "open">>, <<"open", "failed">>}
Alone == {<<"open", "succeeded">>, <<"failed", "open">>}
Allowed(S, from, to) ==
    \/ S = {}
    \/ <<from, to>> \in Together
    \/ <<from, to>> \in Alone /\ \E j \in KnowledgeJobs : S = {j}

JobsMove ==
    \E S \in SUBSET KnowledgeJobs, from, to \in {"none", "open", "succeeded", "failed"} :
        Move(S, from, to) /\ Allowed(S, from, to)

\* A job is the one of the base, of a document or of an export.
LEMMA KindsOfJobs ==
    /\ BaseJob \in KnowledgeJobs
    /\ \A d \in Docs : <<"document", d>> \in KnowledgeJobs
    /\ \A e \in Exports : <<"export", e>> \in KnowledgeJobs
    /\ \A j \in KnowledgeJobs :
        \/ j = BaseJob
        \/ \E d \in Docs : j = <<"document", d>>
        \/ \E e \in Exports : j = <<"export", e>>
    BY DEF KnowledgeJobs, BaseJob

\* Its phase is read from that row, before and after a step.
LEMMA PhasesOfJobs ==
    /\ PhaseOf(BaseJob) = Seen(base.job) /\ PhaseOf(BaseJob)' = Seen(base'.job)
    /\ \A d \in Docs : /\ PhaseOf(<<"document", d>>) = Seen(job[d])
                       /\ PhaseOf(<<"document", d>>)' = Seen(job'[d])
    /\ \A e \in Exports : /\ PhaseOf(<<"export", e>>) = Seen(export[e].job)
                          /\ PhaseOf(<<"export", e>>)' = Seen(export'[e].job)
    BY DEF PhaseOf, StatusOf, BaseJob, Seen

\* A step that leaves every job alone.
LEMMA NoneMoves ==
    ASSUME base'.job = base.job, \A d \in Docs : job'[d] = job[d],
           \A e \in Exports : export'[e].job = export[e].job
    PROVE  JobsMove
<1>1. \A j \in KnowledgeJobs : PhaseOf(j)' = PhaseOf(j)
    <2> SUFFICES ASSUME NEW j \in KnowledgeJobs PROVE PhaseOf(j)' = PhaseOf(j)
        OBVIOUS
    <2>1. CASE j = BaseJob
        BY <2>1, PhasesOfJobs
    <2>2. ASSUME NEW d \in Docs, j = <<"document", d>> PROVE PhaseOf(j)' = PhaseOf(j)
        BY <2>2, PhasesOfJobs
    <2>3. ASSUME NEW e \in Exports, j = <<"export", e>> PROVE PhaseOf(j)' = PhaseOf(j)
        BY <2>3, PhasesOfJobs
    <2>4. QED
        BY <2>1, <2>2, <2>3, KindsOfJobs
<1>2. Move({}, "none", "open") /\ Allowed({}, "none", "open")
    BY <1>1 DEF Move, Allowed
<1>3. QED
    BY <1>2 DEF JobsMove

\* A step that moves the job of the base.
LEMMA BaseMoves ==
    ASSUME \A d \in Docs : job'[d] = job[d], \A e \in Exports : export'[e].job = export[e].job,
           <<Seen(base.job), Seen(base'.job)>> \in Together \cup Alone
    PROVE  JobsMove
<1>1. PICK from, to \in {"none", "open", "succeeded", "failed"} :
        from = Seen(base.job) /\ to = Seen(base'.job)
    BY DEF Together, Alone
<1>2. Move({BaseJob}, from, to)
    <2> SUFFICES ASSUME NEW j \in KnowledgeJobs
                 PROVE  IF j = BaseJob THEN PhaseOf(j) = from /\ PhaseOf(j)' = to
                        ELSE PhaseOf(j)' = PhaseOf(j)
        BY DEF Move
    <2>1. CASE j = BaseJob
        BY <1>1, <2>1, PhasesOfJobs
    <2>2. ASSUME NEW d \in Docs, j = <<"document", d>> PROVE j # BaseJob /\ PhaseOf(j)' = PhaseOf(j)
        BY <2>2, PhasesOfJobs DEF BaseJob
    <2>3. ASSUME NEW e \in Exports, j = <<"export", e>> PROVE j # BaseJob /\ PhaseOf(j)' = PhaseOf(j)
        BY <2>3, PhasesOfJobs DEF BaseJob
    <2>4. QED
        BY <2>1, <2>2, <2>3, KindsOfJobs
<1>3. Allowed({BaseJob}, from, to)
    BY <1>1, KindsOfJobs DEF Allowed
<1>4. QED
    BY <1>2, <1>3, KindsOfJobs DEF JobsMove

\* A step that moves the cleanup jobs of documents: several at most when it enqueues them.
LEMMA DocumentsMove ==
    ASSUME base'.job = base.job, \A e \in Exports : export'[e].job = export[e].job,
           NEW D \in SUBSET Docs, NEW from \in {"none", "open", "failed"},
           NEW to \in {"open", "succeeded", "failed"},
           \A d \in Docs : IF d \in D THEN Seen(job[d]) = from /\ Seen(job'[d]) = to
                           ELSE job'[d] = job[d],
           \/ <<from, to>> \in Together
           \/ <<from, to>> \in Alone /\ \E d \in Docs : D = {d}
    PROVE  JobsMove
<1> DEFINE S == {"document"} \X D
<1>1. S \in SUBSET KnowledgeJobs
    BY DEF KnowledgeJobs
<1>2. Move(S, from, to)
    <2> SUFFICES ASSUME NEW j \in KnowledgeJobs
                 PROVE  IF j \in S THEN PhaseOf(j) = from /\ PhaseOf(j)' = to
                        ELSE PhaseOf(j)' = PhaseOf(j)
        BY DEF Move
    <2>1. CASE j = BaseJob
        BY <2>1, PhasesOfJobs DEF BaseJob
    <2>2. ASSUME NEW d \in Docs, j = <<"document", d>>
          PROVE  IF j \in S THEN PhaseOf(j) = from /\ PhaseOf(j)' = to ELSE PhaseOf(j)' = PhaseOf(j)
        <3>1. j \in S <=> d \in D
            BY <2>2
        <3> HIDE DEF S
        <3>2. PhaseOf(j) = Seen(job[d]) /\ PhaseOf(j)' = Seen(job'[d])
            BY <2>2, PhasesOfJobs
        <3>3. QED
            BY <3>1, <3>2
    <2>3. ASSUME NEW e \in Exports, j = <<"export", e>> PROVE j \notin S /\ PhaseOf(j)' = PhaseOf(j)
        BY <2>3, PhasesOfJobs
    <2>4. QED
        BY <2>1, <2>2, <2>3, KindsOfJobs
<1>3. Allowed(S, from, to)
    <2>1. ASSUME NEW d \in Docs, D = {d} PROVE \E j \in KnowledgeJobs : S = {j}
        <3>1. S = {<<"document", d>>}
            BY <2>1
        <3>2. QED
            BY <3>1, KindsOfJobs
    <2>2. QED
        BY <2>1 DEF Allowed
<1>4. QED
    BY <1>1, <1>2, <1>3 DEF JobsMove

\* A step that moves the job of an export.
LEMMA ExportMoves ==
    ASSUME NEW e \in Exports, \A y \in Exports \ {e} : export'[y] = export[y],
           UNCHANGED rows,
           <<Seen(export[e].job), Seen(export'[e].job)>> \in Together \cup Alone
    PROVE  JobsMove
<1>1. PICK from, to \in {"none", "open", "succeeded", "failed"} :
        from = Seen(export[e].job) /\ to = Seen(export'[e].job)
    BY DEF Together, Alone
<1>2. base' = base /\ job' = job
    BY DEF rows
<1>3. Move({<<"export", e>>}, from, to)
    <2> SUFFICES ASSUME NEW j \in KnowledgeJobs
                 PROVE  IF j = <<"export", e>> THEN PhaseOf(j) = from /\ PhaseOf(j)' = to
                        ELSE PhaseOf(j)' = PhaseOf(j)
        BY DEF Move
    <2>1. CASE j = BaseJob
        BY <1>2, <2>1, PhasesOfJobs DEF BaseJob
    <2>2. ASSUME NEW d \in Docs, j = <<"document", d>>
          PROVE  j # <<"export", e>> /\ PhaseOf(j)' = PhaseOf(j)
        BY <1>2, <2>2, PhasesOfJobs
    <2>3. ASSUME NEW y \in Exports, j = <<"export", y>>
          PROVE  IF j = <<"export", e>> THEN PhaseOf(j) = from /\ PhaseOf(j)' = to
                 ELSE PhaseOf(j)' = PhaseOf(j)
        <3>1. PhaseOf(j) = Seen(export[y].job) /\ PhaseOf(j)' = Seen(export'[y].job)
            BY <2>3, PhasesOfJobs
        <3>2. j = <<"export", e>> <=> y = e
            BY <2>3
        <3>3. QED
            BY <1>1, <1>2, <3>1, <3>2
    <2>4. QED
        BY <2>1, <2>2, <2>3, KindsOfJobs
<1>4. Allowed({<<"export", e>>}, from, to)
    BY <1>1, KindsOfJobs DEF Allowed
<1>5. QED
    BY <1>3, <1>4, KindsOfJobs DEF JobsMove

\* The actions on exports move the job of one export.
LEMMA ExportJobs ==
    ASSUME DocumentsTypeOK, NEW e \in Exports,
           \/ \E d \in Docs : RequestExport(e, d)
           \/ \E f \in DocFiles : PrepareArchive(e, f)
           \/ BeginExport(e) \/ PublishExport(e) \/ AttemptLost(e) \/ ExportFails(e)
           \/ RetryExport(e) \/ RetentionEnds(e) \/ ExpireExport(e)
    PROVE  JobsMove
<1>t. export[e] \in ExportType
    BY DEF DocumentsTypeOK
<1>s. export \in [Exports -> ExportType]
    BY DEF DocumentsTypeOK
<1>1. ASSUME NEW x, Set(e, x) PROVE \A y \in Exports \ {e} : export'[y] = export[y]
    BY <1>1, <1>s DEF Set
<1>2. UNCHANGED rows /\ \A y \in Exports \ {e} : export'[y] = export[y]
    BY <1>1 DEF RequestExport, PrepareArchive, BeginExport, PublishExport, AttemptLost, ExportFails,
        RetryExport, RetentionEnds, ExpireExport
<1>3. CASE \E d \in Docs : RequestExport(e, d)
    <2>1. export[e].job = "none" /\ export'[e].job = "open"
        BY <1>3, <1>s DEF RequestExport, Set, Unrequested
    <2>2. QED
        BY <1>2, <2>1, ExportMoves DEF Seen, Together
<1>4. CASE PublishExport(e)
    <2>1. export[e].job = "open" /\ export'[e].job = "done"
        BY <1>4, <1>s, <1>t DEF PublishExport, Attempting, Set, ExportType
    <2>2. QED
        BY <1>2, <2>1, ExportMoves DEF Seen, Alone
<1>5. CASE ExportFails(e)
    <2>1. export[e].job = "open" /\ export'[e].job = "failed"
        BY <1>5, <1>s, <1>t DEF ExportFails, Set, ExportType
    <2>2. QED
        BY <1>2, <2>1, ExportMoves DEF Seen, Together
<1>6. CASE RetryExport(e)
    <2>1. export[e].job = "failed" /\ export'[e].job = "open"
        BY <1>6, <1>s, <1>t DEF RetryExport, Set, ExportType
    <2>2. QED
        BY <1>2, <2>1, ExportMoves DEF Seen, Alone
<1>7. CASE \/ \E f \in DocFiles : PrepareArchive(e, f)
           \/ BeginExport(e) \/ AttemptLost(e) \/ RetentionEnds(e) \/ ExpireExport(e)
    <2>1. ASSUME NEW f \in DocFiles, PrepareArchive(e, f) PROVE export'[e].job = export[e].job
        BY <2>1, <1>s, <1>t DEF PrepareArchive, Set, ExportType
    <2>2. ASSUME BeginExport(e) \/ AttemptLost(e) PROVE export'[e].job = export[e].job
        BY <2>2, <1>s, <1>t DEF BeginExport, AttemptLost, Set, ExportType
    <2>3. ASSUME RetentionEnds(e) \/ ExpireExport(e) PROVE export'[e].job = export[e].job
        BY <2>3, <1>s, <1>t DEF RetentionEnds, ExpireExport, Set, ExportType
    <2>4. export'[e].job = export[e].job
        BY <1>7, <2>1, <2>2, <2>3
    <2>5. QED
        BY <1>2, <2>4, NoneMoves DEF rows
<1>8. QED
    BY <1>3, <1>4, <1>5, <1>6, <1>7

\* The transactions of the cleanups: a base cleanup enqueues a batch of jobs, or it is done.
LEMMA CleanupJobs ==
    ASSUME DocumentsTypeOK, JobsBegin, Cleanup
    PROVE  JobsMove
<1>1. CASE CleanupBase /\ LiveDocs # {}
    <2>1. PICK D \in SUBSET Docs : D = FirstOf(LiveDocs)
        BY DEF FirstOf, LiveDocs
    <2>2. \A d \in D : job[d] = "none"
        BY <2>1 DEF FirstOf, LiveDocs, JobsBegin
    <2>3. /\ job' = [d \in Docs |-> IF d \in D THEN "open" ELSE job[d]]
          /\ base' = base /\ export' = export
        BY <1>1, <2>1 DEF CleanupBase, QueueCleanup
    <2>4. \A d \in Docs : IF d \in D THEN Seen(job[d]) = "none" /\ Seen(job'[d]) = "open"
                          ELSE job'[d] = job[d]
        BY <2>2, <2>3 DEF Seen
    <2>5. QED
        BY <2>3, <2>4, DocumentsMove DEF Together
<1>2. CASE CleanupBase /\ LiveDocs = {}
    <2>1. base.job = "open" /\ base'.job = "done" /\ job' = job /\ export' = export
        BY <1>2 DEF CleanupBase, DocumentsTypeOK
    <2>2. QED
        BY <2>1, BaseMoves DEF Seen, Alone
<1>3. ASSUME NEW d \in Docs, CleanupDocument(d) PROVE JobsMove
    <2>0. /\ base' = base
          /\ \A e \in Exports : export'[e].job = export[e].job
        <3>1. \A e \in Exports :
                [export[e] EXCEPT !.doc = NoDoc, !.kept = FALSE, !.result = NoFile].job = export[e].job
            BY DEF DocumentsTypeOK, ExportType
        <3>2. QED
            BY <1>3, <3>1 DEF CleanupDocument, CleanupFiles, RemoveDocument
    <2>1. CASE CleanupFiles(d)
        BY <2>0, <2>1, NoneMoves DEF CleanupFiles
    <2>2. CASE RemoveDocument(d)
        <3>1. job[d] = "open" /\ job' = [job EXCEPT ![d] = "done"]
            BY <1>3, <2>2 DEF CleanupDocument, RemoveDocument
        <3>2. \A c \in Docs : IF c \in {d} THEN Seen(job[c]) = "open" /\ Seen(job'[c]) = "succeeded"
                              ELSE job'[c] = job[c]
            BY <3>1 DEF Seen, DocumentsTypeOK
        <3>3. QED
            BY <2>0, <3>2, DocumentsMove DEF Alone
    <2>3. QED
        BY <1>3, <2>1, <2>2 DEF CleanupDocument
<1>4. QED
    BY <1>1, <1>2, <1>3 DEF Cleanup, CleanupBase

\* The failure of a cleanup and its retry.
LEMMA FailedJobs ==
    ASSUME DocumentsTypeOK, CleanupFails \/ RetryCleanup
    PROVE  JobsMove
<1>1. export' = export
    BY DEF CleanupFails, RetryCleanup
<1>2. ASSUME NEW from \in {"open", "failed"}, NEW to \in {"open", "failed"}, from # to,
             base.job = from, base' = [base EXCEPT !.job = to], UNCHANGED job
      PROVE  JobsMove
    <2>1. base'.job = to
        BY <1>2 DEF DocumentsTypeOK
    <2>2. QED
        BY <1>1, <1>2, <2>1, BaseMoves DEF Seen, Together, Alone
<1>3. ASSUME NEW from \in {"open", "failed"}, NEW to \in {"open", "failed"}, from # to,
             NEW d \in Docs, job[d] = from, job' = [job EXCEPT ![d] = to], UNCHANGED base
      PROVE  JobsMove
    <2>1. \A c \in Docs : IF c \in {d} THEN Seen(job[c]) = from /\ Seen(job'[c]) = to
                          ELSE job'[c] = job[c]
        BY <1>3 DEF Seen, DocumentsTypeOK
    <2>2. \/ <<from, to>> \in Together
          \/ <<from, to>> \in Alone /\ \E c \in Docs : {d} = {c}
        BY <1>3 DEF Together, Alone
    <2>3. /\ base'.job = base.job /\ {d} \in SUBSET Docs
          /\ \A e \in Exports : export'[e].job = export[e].job
          /\ from \in {"none", "open", "failed"} /\ to \in {"open", "succeeded", "failed"}
        BY <1>1, <1>3
    <2>4. QED
        BY <2>1, <2>2, <2>3, DocumentsMove, ZenonT(60)
<1>4. CASE CleanupFails
    BY <1>2, <1>3, <1>4 DEF CleanupFails
<1>5. CASE RetryCleanup
    BY <1>2, <1>3, <1>5 DEF RetryCleanup
<1>6. QED
    BY <1>4, <1>5

\* Every step of the documents moves jobs as the queue allows.
LEMMA JobSteps ==
    ASSUME DocumentsTypeOK, JobsBegin, [DocumentsNext]_docVars
    PROVE  JobsMove
<1>1. ASSUME NEW d \in Docs, DeleteDocument(d) PROVE JobsMove
    <2>1. /\ job[d] = "none" /\ base' = base /\ export' = export
          /\ job' = [c \in Docs |-> IF c \in {d} THEN "open" ELSE job[c]]
        BY <1>1 DEF DeleteDocument, QueueCleanup, MayWrite, JobsBegin
    <2>2. \A c \in Docs : IF c \in {d} THEN Seen(job[c]) = "none" /\ Seen(job'[c]) = "open"
                          ELSE job'[c] = job[c]
        BY <2>1 DEF Seen
    <2>3. QED
        BY <2>1, <2>2, DocumentsMove, ZenonT(60) DEF Together
<1>2. CASE DeleteBase
    <2>1. base.job = "none" /\ base'.job = "open" /\ job' = job /\ export' = export
        BY <1>2 DEF DeleteBase, JobsBegin
    <2>2. QED
        BY <2>1, BaseMoves DEF Seen, Together
<1>3. CASE \/ \E d \in Docs : CreateDocument(d)
           \/ ChangeGrant \/ SessionEnds
           \/ \E f \in DocFiles, d \in Docs :
                StartUpload(f, d) \/ CompleteUpload(f, d) \/ RemoveAttachment(f, d)
           \/ \E f \in DocFiles : EndFile(f)
           \/ UNCHANGED docVars
    <2>1. UNCHANGED <<base, job, export>>
        BY <1>3 DEF CreateDocument, ChangeGrant, SessionEnds, StartUpload, CompleteUpload,
            RemoveAttachment, EndFile, docVars, rows
    <2>2. QED
        BY <2>1, NoneMoves
<1>4. QED
    BY <1>1, <1>2, <1>3, ExportJobs, CleanupJobs, FailedJobs DEF DocumentsNext

\* No step queues a cleanup for what is not deleted.
LEMMA BeginKeeps ==
    ASSUME DocumentsTypeOK, JobsBegin, [DocumentsNext]_docVars
    PROVE  JobsBegin'
<1>1. CASE UNCHANGED rows
    BY <1>1 DEF rows, JobsBegin
<1>2. ASSUME UNCHANGED base, NEW D \in SUBSET Docs, QueueCleanup(D) PROVE JobsBegin'
    BY <1>2 DEF QueueCleanup, JobsBegin
<1>3. ASSUME NEW d \in Docs, CreateDocument(d) PROVE JobsBegin'
    BY <1>3 DEF CreateDocument, JobsBegin, DocumentsTypeOK
<1>4. ASSUME NEW d \in Docs, DeleteDocument(d) PROVE JobsBegin'
    BY <1>2, <1>4 DEF DeleteDocument
<1>5. CASE DeleteBase
    BY <1>5 DEF DeleteBase, JobsBegin
<1>6. CASE CleanupBase
    <2>1. CASE LiveDocs # {}
        <3>1. FirstOf(LiveDocs) \in SUBSET Docs
            BY DEF FirstOf, LiveDocs
        <3>2. QED
            BY <1>2, <1>6, <2>1, <3>1 DEF CleanupBase
    <2>2. CASE LiveDocs = {}
        BY <1>6, <2>2 DEF CleanupBase, JobsBegin, DocumentsTypeOK
    <2>3. QED
        BY <2>1, <2>2
<1>7. ASSUME NEW d \in Docs, CleanupDocument(d) PROVE JobsBegin'
    BY <1>1, <1>7 DEF CleanupDocument, CleanupFiles, RemoveDocument, JobsBegin, DocumentsTypeOK, rows
<1>8. CASE CleanupFails \/ RetryCleanup
    BY <1>8 DEF CleanupFails, RetryCleanup, JobsBegin, DocumentsTypeOK
<1>9. CASE \/ ChangeGrant \/ SessionEnds
           \/ \E f \in DocFiles, d \in Docs :
                StartUpload(f, d) \/ CompleteUpload(f, d) \/ RemoveAttachment(f, d)
           \/ \E f \in DocFiles : EndFile(f)
           \/ \E e \in Exports, d \in Docs : RequestExport(e, d)
           \/ \E e \in Exports, f \in DocFiles : PrepareArchive(e, f)
           \/ \E e \in Exports :
                \/ BeginExport(e) \/ PublishExport(e) \/ AttemptLost(e) \/ ExportFails(e)
                \/ RetryExport(e) \/ RetentionEnds(e) \/ ExpireExport(e)
           \/ UNCHANGED docVars
    <2>1. UNCHANGED rows
        BY <1>9 DEF ChangeGrant, SessionEnds, StartUpload, CompleteUpload, RemoveAttachment, EndFile,
            RequestExport, PrepareArchive, BeginExport, PublishExport, AttemptLost, ExportFails,
            RetryExport, RetentionEnds, ExpireExport, docVars, rows
    <2>2. QED
        BY <1>1, <2>1
<1>10. QED
    BY <1>3, <1>4, <1>5, <1>6, <1>7, <1>8, <1>9 DEF DocumentsNext, Cleanup

\* Such a move is a step of the contract of the queue.
LEMMA MoveIsContract ==
    ASSUME JobsMove
    PROVE  [JobsOf!Next]_(JobsOf!vars)
<1> DEFINE phase == [j \in KnowledgeJobs |-> PhaseOf(j)]
           results == [j \in KnowledgeJobs |-> IF PhaseOf(j) = "succeeded" THEN 1 ELSE 0]
           nobody == [j \in KnowledgeJobs |-> FALSE]
<1>0. PICK S \in SUBSET KnowledgeJobs, from, to \in {"none", "open", "succeeded", "failed"} :
        Move(S, from, to) /\ Allowed(S, from, to)
    BY DEF JobsMove
<1>1. /\ phase' = [j \in KnowledgeJobs |-> IF j \in S THEN to ELSE phase[j]]
      /\ \A j \in S : phase[j] = from
    BY <1>0 DEF Move
<1>2. CASE S = {}
    <2>1. UNCHANGED phase /\ UNCHANGED results
        BY <1>0, <1>2 DEF Move
    <2>2. QED
        BY <2>1 DEF JobsOf!vars
<1>3. CASE from = "none" /\ to = "open"
    <2>1. UNCHANGED results
        BY <1>0, <1>3 DEF Move
    <2>2. nobody = [j \in KnowledgeJobs |-> IF j \in S THEN j \in {} ELSE nobody[j]]
        <3>1. \A j \in KnowledgeJobs : (IF j \in S THEN j \in {} ELSE nobody[j]) = FALSE
            OBVIOUS
        <3>2. QED
            BY <3>1, Zenon
    <2>3. \E telling \in SUBSET S :
            nobody = [j \in KnowledgeJobs |-> IF j \in S THEN j \in telling ELSE nobody[j]]
        BY <2>2
    <2>4. JobsOf!Submit(S)
        BY <1>1, <1>3, <2>1, <2>3 DEF JobsOf!Submit
    <2>5. QED
        BY <2>4 DEF JobsOf!Next
<1>4. CASE from = "open" /\ to = "failed"
    <2>1. UNCHANGED results
        BY <1>0, <1>4 DEF Move
    <2>2. JobsOf!GiveUp(S)
        BY <1>1, <1>4, <2>1 DEF JobsOf!GiveUp, JobsOf!Tell
    <2>3. QED
        BY <2>2 DEF JobsOf!Next
<1>5. CASE from = "open" /\ to = "succeeded" /\ \E j \in KnowledgeJobs : S = {j}
    <2>1. PICK j \in KnowledgeJobs : S = {j}
        BY <1>5
    <2>2. phase[j] = "open" /\ phase' = [phase EXCEPT ![j] = "succeeded"]
        BY <1>1, <1>5, <2>1
    <2>3. results[j] = 0 /\ results' = [results EXCEPT ![j] = 1]
        BY <1>0, <1>5, <2>1 DEF Move
    <2>4. JobsOf!Succeed(j)
        BY <2>2, <2>3 DEF JobsOf!Succeed, JobsOf!Tell
    <2>5. QED
        BY <2>4 DEF JobsOf!Next
<1>6. CASE from = "failed" /\ to = "open" /\ \E j \in KnowledgeJobs : S = {j}
    <2>1. PICK j \in KnowledgeJobs : S = {j}
        BY <1>6
    <2>2. phase[j] = "failed" /\ phase' = [phase EXCEPT ![j] = "open"]
        BY <1>1, <1>6, <2>1
    <2>3. UNCHANGED results
        BY <1>0, <1>6, <2>1 DEF Move
    <2>4. JobsOf!Reopen(j)
        BY <2>2, <2>3 DEF JobsOf!Reopen
    <2>5. QED
        BY <2>4 DEF JobsOf!Next
<1>7. QED
    BY <1>0, <1>2, <1>3, <1>4, <1>5, <1>6 DEF Allowed, Together, Alone

-----------------------------------------------------------------------------
(* The theorems.                                                           *)

IInv ==
    /\ ReadsInv
    /\ DocumentsTypeOK
    /\ FilesInv

\* The invariant of the composition holds at first.
LEMMA InitInv == Init => IInv
    BY ReadsStart, DocumentsStart DEF Init, IInv

\* Every step of the composition keeps it.
LEMMA NextInv == IInv /\ [Next]_vars => IInv'
<1> SUFFICES ASSUME IInv, [Next]_vars PROVE IInv'
    OBVIOUS
<1>1. [ReadsNext]_readVars /\ [DocumentsNext]_docVars
    BY DEF Next, OnReads, OnDocuments, vars
<1>2. QED
    BY <1>1, ReadsStep, DocumentsStep DEF IInv

\* Whatever is edited, revoked, deleted, stored late or expired while members read, each is
\* answered with a version the document had, and the member could read, while it was asked for.
THEOREM ReadCorrect == Spec => []BodyOfVersion
<1>1. IInv => BodyOfVersion
    BY DEF IInv, ReadsInv, BodyOfVersion, ReadOK, AnswerIsSound
<1>2. QED
    BY <1>1, InitInv, NextInv, PTL DEF Spec

\* However uploads, removals, exports, expiry and the batches of cleanups interleave, a link
\* leads to a ready file and a document that is gone leaves none.
THEOREM AccountedCorrect == Spec => []FilesAreAccounted
<1>1. IInv => FilesAreAccounted
    <2> SUFFICES ASSUME IInv PROVE LinksAlive /\ NothingLeft
        BY DEF FilesAreAccounted
    <2>1. LinksAlive
        <3>1. \A pair \in attached : file[pair[1]] = "ready"
            <4> TAKE pair \in attached
            <4>1. PICK f \in DocFiles, d \in Docs : pair = <<f, d>>
                BY DEF IInv, DocumentsTypeOK
            <4>2. QED
                BY <4>1 DEF IInv, FilesInv, LinkedAreReady
        <3>2. QED
            BY <3>1 DEF IInv, FilesInv, LinkedAreReady, LinksAlive
    <2>2. NothingLeft
        BY DEF IInv, FilesInv, GoneIsBare, UploadsAreHome, NothingLeft
    <2>3. QED
        BY <2>1, <2>2
<1>2. QED
    BY <1>1, InitInv, NextInv, PTL DEF Spec

\* However slow an export, its archive is published only for a current credential that may
\* still read the document, and only while all that is in it is attached.
THEOREM CurrentCorrect == Spec => ExportIsCurrent
<1> DEFINE Published(e) ==
        export[e].result = NoFile /\ export'[e].result # NoFile =>
            /\ session /\ MayRead(export[e].doc) /\ ~export[e].expired
            /\ \A f \in export[e].files : <<f, export[e].doc>> \in attached
<1>1. IInv /\ [Next]_vars => [\A e \in Exports : Published(e)]_docVars
    <2> SUFFICES ASSUME IInv, [Next]_vars, ~UNCHANGED docVars, NEW e \in Exports PROVE Published(e)
        OBVIOUS
    <2>1. DocumentsTypeOK /\ FilesInv /\ DocumentsNext
        BY DEF IInv, Next, OnReads, OnDocuments, vars
    <2>2. SUFFICES ASSUME export[e].result = NoFile, export'[e].result # NoFile
                   PROVE  /\ session /\ MayRead(export[e].doc) /\ ~export[e].expired
                          /\ \A f \in export[e].files : <<f, export[e].doc>> \in attached
        OBVIOUS
    <2>3. PublishExport(e)
        BY <2>1, <2>2, ResultIsPublished
    <2>4. /\ export[e].doc # NoDoc /\ MayRead(export[e].doc) /\ session /\ ~export[e].expired
          /\ \A f \in export[e].files : file[f] = "ready"
        BY <2>3 DEF PublishExport, Attempting, Exists, MayPublish, Authorized
    <2>5. QED
        BY <2>1, <2>4, SnapshotIsAttached
<1>2. QED
    BY <1>1, InitInv, NextInv, PTL DEF Spec, ExportIsCurrent

\* However uploads, removals, exports, expiry and the batches of cleanups interleave
\* (attachments.rs, exports.rs, deletion.rs), documents do to files only what Files offers:
\* none is published twice or after it was discarded, and none is taken that was not made.
THEOREM FilesContractKept == Spec => FilesKeepContract
<1>1. Init => FilesOfDocuments!Init
    BY DEF Init, DocumentsInit, FilesOfDocuments!Init
<1>2. IInv /\ [Next]_vars => [FilesOfDocuments!Next]_(FilesOfDocuments!vars)
    <2> SUFFICES ASSUME IInv, [Next]_vars
                 PROVE  [FilesOfDocuments!Next]_(FilesOfDocuments!vars)
        OBVIOUS
    <2> DEFINE served == {f \in DocFiles : file[f] = "ready"}
    <2>0. /\ DocumentsTypeOK /\ DocumentsTypeOK' /\ FilesInv
          /\ [DocumentsNext]_docVars
        BY NextInv DEF IInv, Next, OnReads, OnDocuments, vars
    <2>t. /\ file = [f \in DocFiles |-> file[f]]
          /\ file' = [f \in DocFiles |-> file'[f]]
        BY <2>0 DEF DocumentsTypeOK
    <2>3. CASE \E f \in DocFiles : Begins(f) /\ \A g \in DocFiles \ {f} : Stays(g)
        <3>1. PICK f \in DocFiles : Begins(f) /\ \A g \in DocFiles \ {f} : Stays(g)
            BY <2>3
        <3>2. file' = [file EXCEPT ![f] = "pending"] /\ file[f] = "none"
            BY <2>t, <3>1 DEF Begins, Stays
        <3>3. UNCHANGED served
            BY <3>1 DEF Begins, Stays
        <3>4. FilesOfDocuments!Start(f)
            BY <3>2, <3>3 DEF FilesOfDocuments!Start
        <3>5. QED
            BY <3>4 DEF FilesOfDocuments!Next
    <2>4. CASE \E f \in DocFiles : IsPublished(f) /\ \A g \in DocFiles \ {f} : Stays(g)
        <3>1. PICK f \in DocFiles : IsPublished(f) /\ \A g \in DocFiles \ {f} : Stays(g)
            BY <2>4
        <3>2. file' = [file EXCEPT ![f] = "ready"] /\ file[f] = "pending"
            BY <2>t, <3>1 DEF IsPublished, Stays
        <3>3. served' = served \cup {f}
            BY <3>1 DEF IsPublished, Stays
        <3>4. FilesOfDocuments!Publish(f)
            BY <3>2, <3>3 DEF FilesOfDocuments!Publish
        <3>5. QED
            BY <3>4 DEF FilesOfDocuments!Next
    <2>5. CASE \A f \in DocFiles : Stays(f) \/ IsDiscarded(f)
        <3>0. PICK gone \in SUBSET DocFiles : gone = {f \in DocFiles : IsDiscarded(f)}
            OBVIOUS
        <3>1. file' = [f \in DocFiles |-> IF f \in gone THEN "dead" ELSE file[f]]
            BY <2>t, <2>5, <3>0 DEF IsDiscarded, Stays
        <3>2. \A f \in gone : file[f] \in {"pending", "ready"}
            BY <3>0 DEF IsDiscarded
        <3>3. served' = served \ gone
            BY <2>5, <3>0 DEF IsDiscarded, Stays
        <3>4. FilesOfDocuments!Discard(gone)
            BY <3>1, <3>2, <3>3 DEF FilesOfDocuments!Discard
        <3>5. QED
            BY <3>4 DEF FilesOfDocuments!Next
    <2>6. QED
        BY <2>0, <2>3, <2>4, <2>5, FileSteps
<1>3. QED
    BY <1>1, <1>2, InitInv, NextInv, PTL DEF Spec, FilesKeepContract, FilesOfDocuments!Spec

\* However deletions of documents and of the base, batches, failures, retries and exports
\* interleave (deletion.rs, exports.rs), the jobs they enqueue do what the queue promises of
\* any job: each is enqueued once, done at most once, given up, or reopened after it failed.
THEOREM JobsContractKept == Spec => JobsKeepContract
<1>1. Init => JobsOf!Init /\ JobsBegin
    <2> SUFFICES ASSUME Init PROVE JobsOf!Init /\ JobsBegin
        OBVIOUS
    <2>1. base.job = "none" /\ (\A d \in Docs : job[d] = "none") /\ \A e \in Exports : export[e].job = "none"
        BY DEF Init, DocumentsInit, Unrequested
    <2>2. \A j \in KnowledgeJobs : PhaseOf(j) = "none"
        BY <2>1, KindsOfJobs, PhasesOfJobs DEF Seen
    <2>3. QED
        BY <2>1, <2>2 DEF JobsOf!Init, JobsBegin
<1>2. IInv /\ JobsBegin /\ [Next]_vars => JobsBegin' /\ [JobsOf!Next]_(JobsOf!vars)
    <2> SUFFICES ASSUME IInv, JobsBegin, [Next]_vars
                 PROVE  JobsBegin' /\ [JobsOf!Next]_(JobsOf!vars)
        OBVIOUS
    <2>1. DocumentsTypeOK /\ [DocumentsNext]_docVars
        BY DEF IInv, Next, OnReads, OnDocuments, vars
    <2>2. QED
        BY <2>1, BeginKeeps, JobSteps, MoveIsContract
<1>3. QED
    BY <1>1, <1>2, InitInv, NextInv, PTL DEF Spec, JobsKeepContract, JobsOf!Spec
=============================================================================
