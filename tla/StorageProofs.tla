----------------------------- MODULE StorageProofs -----------------------------
(***************************************************************************)
(* Theorems about the services whose state is stored: PgProjects,          *)
(* FileStore, ApiToken, VectorMemory, MandateGenerator and WebhookSecrets, *)
(* for all sets of projects, requests, keys, calls, processes, terms,      *)
(* mandates, registrations and repositories.                               *)
(***************************************************************************)
EXTENDS PgProjects, FileStore, ApiToken, VectorMemory, MandateGenerator,
        WebhookSecrets, FiniteSetTheorems, SequenceTheorems, TLAPS

-----------------------------------------------------------------------------
(* PgProjects.                                                             *)

\* What the unique index grants, without counting.
AtMostOneDefault == \A p, q \in default : p = q

\* Nobody deletes the default project, unless it was promoted after the check.
DefaultIsKept ==
    raced = {} => \A r \in ProjectRequests :
       reqStage[r] \in {"checkedDelete", "deleting"} => target[r] \notin default

\* Before the first default there is none to lose, nor one to insert again.
UnseededIsEmpty ==
    ~seeded =>
       /\ default = {} /\ DefaultProject \notin rows
       /\ \A r \in ProjectRequests :
             reqStage[r] \in {"checkedDelete", "deleting"} => target[r] # DefaultProject

\* What the requests keep together.
ProjectsInv ==
    /\ default \subseteq rows
    /\ reqStage \in [ProjectRequests -> ReqStages]
    /\ target \in [ProjectRequests -> Projects \union {None}]
    /\ seeded \in BOOLEAN
    /\ AtMostOneDefault /\ DefaultIsKept /\ UnseededIsEmpty
    /\ seeded /\ raced = {} => default # {}

\* Reads, checks and failures mark nothing; a deletion is decided for a project that
\* is there and not the default.
LEMMA UnmarkedStep ==
    ASSUME ProjectsInv, NEW r \in ProjectRequests, UNCHANGED <<rows, default, seeded, raced>>,
           reqStage' \in [ProjectRequests -> ReqStages],
           target' \in [ProjectRequests -> Projects \union {None}],
           \A q \in ProjectRequests \ {r} : reqStage'[q] = reqStage[q] /\ target'[q] = target[q],
           reqStage'[r] \in {"checkedDelete", "deleting"} =>
              \/ reqStage[r] \in {"checkedDelete", "deleting"} /\ target'[r] = target[r]
              \/ target'[r] \in rows /\ target'[r] \notin default
    PROVE  ProjectsInv'
<1>1. AtMostOneDefault'
  BY DEF ProjectsInv, AtMostOneDefault
<1>2. DefaultIsKept'
  BY DEF ProjectsInv, DefaultIsKept
<1>3. UnseededIsEmpty'
  BY DEF ProjectsInv, UnseededIsEmpty
<1> QED BY <1>1, <1>2, <1>3 DEF ProjectsInv

\* Every step keeps the invariant.
LEMMA ProjectsStep ==
    ProjectsInv /\ [ProjectsNext]_projectVars => ProjectsInv'
<1> SUFFICES ASSUME ProjectsInv, [ProjectsNext]_projectVars PROVE ProjectsInv'
  OBVIOUS
<1> USE ProjectsAssumption DEF To, Of, NoTransaction
<1>1. CASE UNCHANGED projectVars
  BY <1>1 DEF projectVars, ProjectsInv, AtMostOneDefault, DefaultIsKept, UnseededIsEmpty
<1>2. ASSUME NEW r \in ProjectRequests, NEW p \in Projects,
             \/ List(r) \/ Reread(r) \/ CountProjects(r)
             \/ Patch(r, p) \/ Delete(r, p)
             \/ BeginPromotion(r) \/ Clear(r) \/ Abort(r)
      PROVE  ProjectsInv'
  <2>1. UNCHANGED <<rows, default, seeded, raced>>
    BY <1>2 DEF List, Reread, CountProjects, Patch, Delete, BeginPromotion, Clear, Abort, RolledBack
  <2>2. reqStage' \in [ProjectRequests -> ReqStages]
    BY <1>2 DEF List, Reread, CountProjects, Patch, Delete, BeginPromotion, Clear, Abort,
                ProjectsInv, ReqStages
  <2>3. target' \in [ProjectRequests -> Projects \union {None}]
    BY <1>2 DEF List, Reread, CountProjects, Patch, Delete, BeginPromotion, Clear, Abort, ProjectsInv
  <2>4. \A q \in ProjectRequests \ {r} : reqStage'[q] = reqStage[q] /\ target'[q] = target[q]
    BY <1>2 DEF List, Reread, CountProjects, Patch, Delete, BeginPromotion, Clear, Abort, ProjectsInv
  <2>5. reqStage'[r] \in {"checkedDelete", "deleting"} =>
           \/ reqStage[r] \in {"checkedDelete", "deleting"} /\ target'[r] = target[r]
           \/ target'[r] \in rows /\ target'[r] \notin default
    BY <1>2 DEF List, Reread, CountProjects, Patch, Delete, BeginPromotion, Clear, Abort,
                Deletable, ProjectsInv
  <2> QED BY <2>1, <2>2, <2>3, <2>4, <2>5, UnmarkedStep
<1>3. ASSUME NEW r \in ProjectRequests, InsertDefault(r)
      PROVE  ProjectsInv'
  <2>1. CASE UNCHANGED <<rows, default, seeded>>
    BY <1>3, <2>1, UnmarkedStep DEF InsertDefault, ProjectsInv, ReqStages
  <2>2. CASE default = {} /\ DefaultProject \notin rows /\ default' = {DefaultProject}
             /\ rows' = rows \union {DefaultProject} /\ seeded' = TRUE
    <3>1. AtMostOneDefault' /\ UnseededIsEmpty'
      BY <2>2 DEF AtMostOneDefault, UnseededIsEmpty
    <3>2. raced = {} => ~seeded
      BY <2>2 DEF ProjectsInv
    <3>3. DefaultIsKept'
      BY <1>3, <2>2, <3>2 DEF InsertDefault, ProjectsInv, DefaultIsKept, UnseededIsEmpty
    <3> QED BY <1>3, <2>2, <3>1, <3>3 DEF InsertDefault, ProjectsInv, ReqStages
  <2> QED BY <1>3, <2>1, <2>2 DEF InsertDefault
<1>4. ASSUME NEW r \in ProjectRequests, NEW p \in Projects, NEW asDefault \in BOOLEAN,
             Create(r, p, asDefault)
      PROVE  ProjectsInv'
  <2>1. /\ reqStage' \in [ProjectRequests -> ReqStages]
        /\ target' \in [ProjectRequests -> Projects \union {None}]
        /\ reqStage'[r] \notin {"checkedDelete", "deleting"}
        /\ \A q \in ProjectRequests \ {r} :
              reqStage'[q] = reqStage[q] /\ target'[q] = target[q] /\ target[q] # p
        /\ p \notin rows /\ p # DefaultProject /\ raced' = raced
    BY <1>4 DEF Create, ProjectsInv, ReqStages
  <2>2. CASE UNCHANGED <<rows, default, seeded>>
    BY <2>1, <2>2, UnmarkedStep
  <2>3. CASE /\ rows' = rows \union {p}
             /\ default' = IF asDefault THEN {p} ELSE default
             /\ seeded' = (seeded \/ asDefault)
    <3>1. AtMostOneDefault'
      BY <2>3 DEF ProjectsInv, AtMostOneDefault
    <3>2. DefaultIsKept'
      BY <2>1, <2>3 DEF ProjectsInv, DefaultIsKept
    <3>3. UnseededIsEmpty'
      BY <2>1, <2>3 DEF ProjectsInv, UnseededIsEmpty
    <3> QED BY <2>1, <2>3, <3>1, <3>2, <3>3 DEF ProjectsInv
  <2> QED BY <1>4, <2>2, <2>3 DEF Create
<1>5. ASSUME NEW r \in ProjectRequests, SetDefault(r)
      PROVE  ProjectsInv'
  <2>1. /\ reqStage' \in [ProjectRequests -> ReqStages] /\ UNCHANGED <<rows, target>>
        /\ reqStage'[r] \notin {"checkedDelete", "deleting"}
        /\ \A q \in ProjectRequests \ {r} : reqStage'[q] = reqStage[q]
    BY <1>5 DEF SetDefault, ProjectsInv, ReqStages
  <2>2. CASE UNCHANGED <<default, seeded, raced>>
    BY <2>1, <2>2, UnmarkedStep DEF ProjectsInv
  <2>3. CASE /\ target[r] \in rows /\ default' = {target[r]} /\ seeded' = TRUE
             /\ raced' = raced \union Deciding(target[r])
    <3>1. AtMostOneDefault' /\ UnseededIsEmpty'
      BY <2>3 DEF AtMostOneDefault, UnseededIsEmpty
    <3>2. DefaultIsKept'
      BY <2>1, <2>3 DEF DefaultIsKept, Deciding
    <3> QED BY <2>1, <2>3, <3>1, <3>2 DEF ProjectsInv
  <2> QED BY <1>5, <2>2, <2>3 DEF SetDefault, RolledBack
<1>6. ASSUME NEW r \in ProjectRequests, DeleteRow(r)
      PROVE  ProjectsInv'
  <2>1. /\ reqStage' = [reqStage EXCEPT ![r] = "ok"] /\ UNCHANGED <<target, seeded, raced>>
        /\ rows' = rows \ {target[r]} /\ default' = default \ {target[r]} /\ reqStage[r] = "deleting"
    BY <1>6 DEF DeleteRow
  <2>2. reqStage' \in [ProjectRequests -> ReqStages]
    BY <2>1 DEF ProjectsInv, ReqStages
  <2>3. AtMostOneDefault'
    BY <2>1 DEF ProjectsInv, AtMostOneDefault
  <2>4. DefaultIsKept' /\ UnseededIsEmpty'
    BY <2>1 DEF ProjectsInv, DefaultIsKept, UnseededIsEmpty
  <2>5. raced = {} => default' = default
    BY <2>1 DEF ProjectsInv, DefaultIsKept
  <2> QED BY <2>1, <2>2, <2>3, <2>4, <2>5 DEF ProjectsInv
<1> QED BY <1>1, <1>2, <1>3, <1>4, <1>5, <1>6 DEF ProjectsNext

\* ProjectsInv holds in every state.
LEMMA ProjectsInvariant == ProjectsSpec => []ProjectsInv
<1>1. ProjectsInit => ProjectsInv
  BY ProjectsAssumption
  DEF ProjectsInit, ProjectsInv, ReqStages, AtMostOneDefault, DefaultIsKept, UnseededIsEmpty
<1> QED BY <1>1, ProjectsStep, PTL DEF ProjectsSpec

\* An organization that has had a default project keeps exactly one, however its
\* requests overlap, unless a project was promoted after its deletion was decided.
THEOREM OneDefaultIsKept == ProjectsSpec => []KeepsOneDefault
<1>1. ProjectsInv => KeepsOneDefault
  <2> SUFFICES ASSUME ProjectsInv PROVE KeepsOneDefault
    OBVIOUS
  <2>1. default = {} \/ \E p \in default : default = {p}
    BY DEF ProjectsInv, AtMostOneDefault
  <2>2. CASE default = {}
    <3>1. Cardinality(default) = 0
      BY <2>2, FS_EmptySet
    <3> QED BY <2>2, <3>1 DEF ProjectsInv, KeepsOneDefault
  <2>3. CASE \E p \in default : default = {p}
    <3>1. Cardinality(default) = 1
      BY <2>3, FS_Singleton
    <3> QED BY <3>1 DEF KeepsOneDefault, OneDefault
  <2> QED BY <2>1, <2>2, <2>3
<1> QED BY <1>1, ProjectsInvariant, PTL

-----------------------------------------------------------------------------
(* FileStore.                                                              *)

\* Calls under way at once have overlapped.
OverlapIsSeen ==
    \A c, d \in In(Ongoing) : c # d => c \in crossed

\* Writes under way at once are mixed.
MixIsSeen ==
    \A c, d \in In({"writing"}) : c # d => c \in mixed

\* Without a fault the file is torn only while it is written.
TornIsWritten == torn /\ ~spoiled => In({"writing"}) # {}

\* What a call is about to write has every answered change no overlap has touched.
DataIsCurrent ==
    ~spoiled => \A c \in In({"changed", "writing"}) :
       /\ data[c][callKey[c]] = IF Removes(c) THEN None ELSE c
       /\ \A k \in FileKeys \ crossed : k # callKey[c] => data[c][k] = answered[k]

\* So does a file that is not being written.
FileIsCurrent ==
    ~spoiled /\ ~torn => \A k \in FileKeys \ crossed : file[k] = answered[k]

\* What the calls keep together.
FileInv ==
    /\ FileTypeOK
    /\ \A c \in In(Ongoing) : callKey[c] \in FileKeys
    /\ OverlapIsSeen /\ MixIsSeen /\ TornIsWritten /\ DataIsCurrent /\ FileIsCurrent

\* A file without entries has them for no key.
LEMMA EmptyFileType == EmptyFile \in FileContents
BY DEF EmptyFile, FileContents

\* Calls that end leave the others where they were.
LEMMA EndsCalls ==
    ASSUME FileTypeOK, NEW calls \in SUBSET FileCalls, NEW stage \in {"done", "failed", "unsaved", "lost"},
           Ends(calls, stage)
    PROVE  /\ callStage' \in [FileCalls -> {"none", "done", "failed", "unsaved", "lost"} \union Ongoing]
           /\ callKind' \in [FileCalls -> CallKinds \union {None}]
           /\ callKey' \in [FileCalls -> FileKeys \union {None}]
           /\ data' \in [FileCalls -> FileContents]
           /\ \A c \in FileCalls \ calls : /\ callStage'[c] = callStage[c] /\ callKind'[c] = callKind[c]
                                          /\ callKey'[c] = callKey[c] /\ data'[c] = data[c]
           /\ \A c \in calls : callStage'[c] = stage
BY EmptyFileType DEF Ends, FileTypeOK

\* A call that begins overlaps every other under way.
LEMMA BeginsStep ==
    ASSUME FileInv, NEW c \in FileCalls, NEW kind \in CallKinds, NEW k \in FileKeys, Begins(c, kind, k)
    PROVE  FileInv'
<1> USE DEF FileInv
<1>1. /\ callStage[c] = "none" /\ callStage' = [callStage EXCEPT ![c] = "reading"]
      /\ callKind' = [callKind EXCEPT ![c] = kind] /\ callKey' = [callKey EXCEPT ![c] = k]
      /\ crossed' = IF In(Ongoing) = {} THEN crossed ELSE crossed \union In(Ongoing) \union {c}
      /\ UNCHANGED <<file, torn, data, mixed, answered, spoiled>>
  BY DEF Begins, ToStage
<1>2. FileTypeOK'
  BY <1>1 DEF FileTypeOK, Ongoing, In
<1>3. \A d \in FileCalls \ {c} : callStage'[d] = callStage[d] /\ callKind'[d] = callKind[d]
                                 /\ callKey'[d] = callKey[d]
  BY <1>1 DEF FileTypeOK
<1>4. callStage'[c] = "reading" /\ callKey'[c] = k /\ c \notin In(Ongoing) /\ crossed \subseteq crossed'
  BY <1>1 DEF FileTypeOK, In, Ongoing
<1>5. \A d \in In(Ongoing)' : callKey'[d] \in FileKeys
  BY <1>3, <1>4 DEF In
<1>6. OverlapIsSeen'
  BY <1>1, <1>3, <1>4 DEF OverlapIsSeen, In
<1>7. In({"writing"})' = In({"writing"}) /\ In({"changed", "writing"})' = In({"changed", "writing"})
  BY <1>1, <1>3, <1>4 DEF In
<1>8. MixIsSeen' /\ TornIsWritten' /\ FileIsCurrent'
  BY <1>1, <1>4, <1>7 DEF MixIsSeen, TornIsWritten, FileIsCurrent
<1>9. DataIsCurrent'
  BY <1>1, <1>3, <1>4, <1>7 DEF DataIsCurrent, Removes, In
<1> QED BY <1>2, <1>5, <1>6, <1>8, <1>9

\* A call that reads either ends or takes a current file for its change.
LEMMA ReadWholeStep ==
    ASSUME FileInv, NEW c \in FileCalls, ReadWhole(c)
    PROVE  FileInv'
<1> USE DEF FileInv
<1> DEFINE read == IF torn THEN EmptyFile ELSE file
<1>1. callStage[c] = "reading" /\ UNCHANGED <<file, torn, mixed, answered, crossed>>
  BY DEF ReadWhole
<1>2. c \in In(Ongoing) /\ callKey[c] \in FileKeys /\ read \in FileContents
  BY <1>1, EmptyFileType DEF In, Ongoing, FileTypeOK
<1>3. CASE Ends({c}, "done") /\ UNCHANGED spoiled
  <2>1. /\ callStage' \in [FileCalls -> {"none", "done", "failed", "unsaved", "lost"} \union Ongoing]
        /\ callKind' \in [FileCalls -> CallKinds \union {None}]
        /\ callKey' \in [FileCalls -> FileKeys \union {None}]
        /\ data' \in [FileCalls -> FileContents]
        /\ \A d \in FileCalls \ {c} : /\ callStage'[d] = callStage[d] /\ callKind'[d] = callKind[d]
                                      /\ callKey'[d] = callKey[d] /\ data'[d] = data[d]
        /\ callStage'[c] = "done"
    BY <1>3, EndsCalls
  <2>2. FileTypeOK'
    BY <1>1, <1>3, <2>1 DEF FileTypeOK
  <2>3. In(Ongoing)' = In(Ongoing) \ {c} /\ In({"writing"})' = In({"writing"})
        /\ In({"changed", "writing"})' = In({"changed", "writing"}) /\ c \notin In({"changed", "writing"})
    BY <1>1, <2>1 DEF In, Ongoing
  <2>4. \A d \in In(Ongoing)' : callKey'[d] \in FileKeys
    BY <2>1, <2>3 DEF In
  <2>5. OverlapIsSeen' /\ MixIsSeen' /\ TornIsWritten' /\ FileIsCurrent'
    BY <1>1, <1>3, <2>3 DEF OverlapIsSeen, MixIsSeen, TornIsWritten, FileIsCurrent
  <2>6. DataIsCurrent'
    BY <1>1, <1>3, <2>1, <2>3 DEF DataIsCurrent, Removes, In
  <2> QED BY <2>2, <2>4, <2>5, <2>6
<1>4. CASE /\ callStage' = [callStage EXCEPT ![c] = "changed"]
           /\ data' = [data EXCEPT ![c] = Changed(c, read)]
           /\ spoiled' = (spoiled \/ torn)
           /\ UNCHANGED <<callKind, callKey>>
  <2>1. Changed(c, read) \in FileContents
        /\ Changed(c, read)[callKey[c]] = (IF Removes(c) THEN None ELSE c)
        /\ \A k \in FileKeys : k # callKey[c] => Changed(c, read)[k] = read[k]
    BY <1>2 DEF Changed, FileContents
  <2>2. FileTypeOK'
    BY <1>1, <1>4, <2>1 DEF FileTypeOK, Ongoing
  <2>3. In(Ongoing)' = In(Ongoing) /\ In({"writing"})' = In({"writing"})
        /\ In({"changed", "writing"})' = In({"changed", "writing"}) \union {c}
    BY <1>1, <1>4 DEF In, Ongoing, FileTypeOK
  <2>4. OverlapIsSeen' /\ MixIsSeen' /\ TornIsWritten' /\ FileIsCurrent'
        /\ \A d \in In(Ongoing)' : callKey'[d] \in FileKeys
    BY <1>1, <1>4, <2>3 DEF OverlapIsSeen, MixIsSeen, TornIsWritten, FileIsCurrent, FileTypeOK
  <2>5. data'[c] = Changed(c, read) /\ \A d \in FileCalls \ {c} : data'[d] = data[d]
    BY <1>4 DEF FileTypeOK
  <2>6. ~spoiled' => ~spoiled /\ ~torn /\ read = file
    BY <1>4 DEF FileTypeOK
  <2> HIDE DEF read
  <2>7. ASSUME ~spoiled', NEW d \in In({"changed", "writing"})'
        PROVE  /\ data'[d][callKey'[d]] = IF Removes(d)' THEN None ELSE d
               /\ \A k \in FileKeys \ crossed' : k # callKey'[d] => data'[d][k] = answered'[k]
    <3>1. CASE d = c
      BY <1>1, <1>4, <2>1, <2>5, <2>6, <2>7, <3>1 DEF FileIsCurrent, Removes
    <3>2. CASE d # c
      BY <1>1, <1>4, <2>3, <2>5, <2>6, <2>7, <3>2 DEF DataIsCurrent, Removes, In
    <3> QED BY <3>1, <3>2
  <2>8. DataIsCurrent'
    BY <2>7 DEF DataIsCurrent
  <2> QED BY <2>2, <2>4, <2>8
<1> QED BY <1>3, <1>4 DEF ReadWhole, ToStage

\* A write tears the file, and is mixed with every other under way.
LEMMA StartWriteStep ==
    ASSUME FileInv, NEW c \in FileCalls, StartWrite(c)
    PROVE  FileInv'
<1> USE DEF FileInv
<1>1. /\ callStage[c] = "changed" /\ callStage' = [callStage EXCEPT ![c] = "writing"] /\ torn' = TRUE
      /\ mixed' = IF In({"writing"}) = {} THEN mixed ELSE mixed \union In({"writing"}) \union {c}
      /\ UNCHANGED <<file, callKind, callKey, data, answered, crossed, spoiled>>
  BY DEF StartWrite, ToStage
<1>2. FileTypeOK'
  BY <1>1 DEF FileTypeOK, Ongoing, In
<1>3. In(Ongoing)' = In(Ongoing) /\ In({"writing"})' = In({"writing"}) \union {c}
      /\ In({"changed", "writing"})' = In({"changed", "writing"})
  BY <1>1 DEF In, Ongoing, FileTypeOK
<1>4. OverlapIsSeen' /\ MixIsSeen' /\ TornIsWritten' /\ FileIsCurrent'
      /\ \A d \in In(Ongoing)' : callKey'[d] \in FileKeys
  BY <1>1, <1>3 DEF OverlapIsSeen, MixIsSeen, TornIsWritten, FileIsCurrent
<1>5. DataIsCurrent'
  BY <1>1, <1>3 DEF DataIsCurrent, Removes
<1> QED BY <1>2, <1>4, <1>5

\* A write that ends leaves a current file, or was mixed with another.
LEMMA EndWriteStep ==
    ASSUME FileInv, NEW c \in FileCalls, EndWrite(c)
    PROVE  FileInv'
<1> USE DEF FileInv
<1>1. /\ callStage[c] = "writing" /\ Ends({c}, "done")
      /\ \/ file' = data[c] /\ torn' = FALSE
         \/ c \in mixed /\ UNCHANGED file
      /\ torn' \in BOOLEAN
      /\ mixed' = mixed \ {c}
      /\ answered' = [answered EXCEPT ![callKey[c]] = IF Removes(c) THEN None ELSE c]
      /\ crossed' = IF c \in crossed THEN crossed \union {callKey[c]} ELSE crossed \ {callKey[c]}
      /\ spoiled' = (spoiled \/ c \in mixed)
  BY DEF EndWrite, FileTypeOK
<1>2. /\ callStage' \in [FileCalls -> {"none", "done", "failed", "unsaved", "lost"} \union Ongoing]
      /\ callKind' \in [FileCalls -> CallKinds \union {None}]
      /\ callKey' \in [FileCalls -> FileKeys \union {None}]
      /\ data' \in [FileCalls -> FileContents]
      /\ \A d \in FileCalls \ {c} : /\ callStage'[d] = callStage[d] /\ callKind'[d] = callKind[d]
                                    /\ callKey'[d] = callKey[d] /\ data'[d] = data[d]
      /\ callStage'[c] = "done"
  BY <1>1, EndsCalls
<1>3. c \in In(Ongoing) /\ c \in In({"writing"}) /\ c \in In({"changed", "writing"}) /\ callKey[c] \in FileKeys
  BY <1>1 DEF In, Ongoing
<1>4. In(Ongoing)' = In(Ongoing) \ {c} /\ In({"writing"})' = In({"writing"}) \ {c}
      /\ In({"changed", "writing"})' = In({"changed", "writing"}) \ {c}
  BY <1>2 DEF In, Ongoing
<1>5. \A d \in In(Ongoing) : d \in FileCalls /\ (d \in crossed' <=> d \in crossed)
  BY <1>1, <1>3, FileCallsAssumption DEF In
<1>6. FileTypeOK'
  <2>1. file' \in FileContents /\ answered' \in FileContents
    BY <1>1, <1>3 DEF FileTypeOK, FileContents
  <2> QED BY <1>1, <1>2, <1>3, <2>1 DEF FileTypeOK
<1>7. \A d \in In(Ongoing)' : callKey'[d] \in FileKeys
  BY <1>2, <1>4 DEF In
<1>8. OverlapIsSeen'
  BY <1>4, <1>5 DEF OverlapIsSeen
<1>9. MixIsSeen'
  BY <1>1, <1>4 DEF MixIsSeen
<1>10. ~spoiled' => ~spoiled /\ c \notin mixed /\ file' = data[c] /\ torn' = FALSE
  BY <1>1 DEF FileTypeOK
<1>11. TornIsWritten'
  BY <1>10 DEF TornIsWritten
<1>12. FileIsCurrent'
  <2> SUFFICES ASSUME ~spoiled', NEW k \in FileKeys \ crossed'
      PROVE  file'[k] = answered'[k]
    BY DEF FileIsCurrent
  <2>1. data[c][callKey[c]] = (IF Removes(c) THEN None ELSE c)
        /\ \A j \in FileKeys \ crossed : j # callKey[c] => data[c][j] = answered[j]
    BY <1>3, <1>10 DEF DataIsCurrent
  <2>2. CASE k = callKey[c]
    BY <1>1, <1>3, <1>10, <2>1, <2>2 DEF FileTypeOK, FileContents
  <2>3. CASE k # callKey[c]
    BY <1>1, <1>3, <1>10, <2>1, <2>3 DEF FileTypeOK, FileContents
  <2> QED BY <2>2, <2>3
<1>13. DataIsCurrent'
  <2> SUFFICES ASSUME ~spoiled', NEW d \in In({"changed", "writing"})'
      PROVE  /\ data'[d][callKey'[d]] = IF Removes(d)' THEN None ELSE d
             /\ \A k \in FileKeys \ crossed' : k # callKey'[d] => data'[d][k] = answered'[k]
    BY DEF DataIsCurrent
  <2>1. d \in FileCalls \ {c} /\ d \in In({"changed", "writing"}) /\ d \in In(Ongoing)
    BY <1>4 DEF In, Ongoing
  <2>2. c \in crossed
    BY <1>3, <2>1 DEF OverlapIsSeen
  <2>3. data[d][callKey[d]] = (IF Removes(d) THEN None ELSE d)
        /\ \A k \in FileKeys \ crossed : k # callKey[d] => data[d][k] = answered[k]
    BY <1>10, <2>1 DEF DataIsCurrent
  <2>4. Removes(d)' = Removes(d) /\ data'[d] = data[d] /\ callKey'[d] = callKey[d]
    BY <1>2, <2>1 DEF Removes
  <2>5. \A k \in FileKeys \ crossed' : k \notin crossed /\ answered'[k] = answered[k]
    BY <1>1, <2>2 DEF FileTypeOK, FileContents
  <2> QED BY <2>3, <2>4, <2>5
<1> QED BY <1>6, <1>7, <1>8, <1>9, <1>11, <1>12, <1>13

\* A write that fails or is interrupted spoils the file; a call that has not written
\* yet leaves it alone.
LEMMA EndsUnwritten ==
    ASSUME FileInv, NEW calls \in SUBSET FileCalls, NEW stage \in {"failed", "unsaved", "lost"},
           Ends(calls, stage), mixed' \subseteq FileCalls,
           (mixed \intersect In({"writing"})) \ calls \subseteq mixed', UNCHANGED <<answered, crossed>>,
           spoiled' = (spoiled \/ calls \intersect In({"writing"}) # {}),
           file' \in FileContents, torn' \in BOOLEAN,
           ~spoiled' => UNCHANGED <<file, torn>>
    PROVE  FileInv'
<1> USE DEF FileInv
<1>1. /\ callStage' \in [FileCalls -> {"none", "done", "failed", "unsaved", "lost"} \union Ongoing]
      /\ callKind' \in [FileCalls -> CallKinds \union {None}]
      /\ callKey' \in [FileCalls -> FileKeys \union {None}]
      /\ data' \in [FileCalls -> FileContents]
      /\ \A d \in FileCalls \ calls : /\ callStage'[d] = callStage[d] /\ callKind'[d] = callKind[d]
                                      /\ callKey'[d] = callKey[d] /\ data'[d] = data[d]
      /\ \A d \in calls : callStage'[d] = stage
  BY EndsCalls
<1>2. FileTypeOK'
  BY <1>1 DEF FileTypeOK
<1>3. In(Ongoing)' = In(Ongoing) \ calls /\ In({"writing"})' = In({"writing"}) \ calls
      /\ In({"changed", "writing"})' = In({"changed", "writing"}) \ calls
  BY <1>1 DEF In, Ongoing
<1>4. \A d \in In(Ongoing)' : callKey'[d] \in FileKeys
  BY <1>1, <1>3 DEF In
<1>5. OverlapIsSeen' /\ MixIsSeen'
  BY <1>3 DEF OverlapIsSeen, MixIsSeen
<1>6. ~spoiled' => ~spoiled /\ In({"writing"})' = In({"writing"})
  BY <1>3 DEF FileTypeOK
<1>7. TornIsWritten' /\ FileIsCurrent'
  BY <1>6 DEF TornIsWritten, FileIsCurrent
<1>8. DataIsCurrent'
  BY <1>1, <1>3, <1>6 DEF DataIsCurrent, Removes, In
<1> QED BY <1>2, <1>4, <1>5, <1>7, <1>8

\* Every step keeps the invariant.
LEMMA FileStep ==
    FileInv /\ [FileNext]_fileVars => FileInv'
<1> SUFFICES ASSUME FileInv, [FileNext]_fileVars PROVE FileInv'
  OBVIOUS
<1>1. ASSUME NEW c \in FileCalls, WriteThrows(c)
      PROVE  FileInv'
  <2> DEFINE stage == IF callKind[c] = "append" THEN "unsaved" ELSE "failed"
  <2>1. {c} \in SUBSET FileCalls /\ stage \in {"failed", "unsaved", "lost"}
    OBVIOUS
  <2>2. /\ Ends({c}, stage) /\ mixed' = mixed \ {c} /\ UNCHANGED <<file, torn, answered, crossed>>
        /\ spoiled' = (spoiled \/ {c} \intersect In({"writing"}) # {})
    BY <1>1 DEF WriteThrows, In
  <2>3. mixed' \subseteq FileCalls /\ (mixed \intersect In({"writing"})) \ {c} \subseteq mixed' /\ file' \in FileContents /\ torn' \in BOOLEAN
    BY <2>2 DEF FileInv, FileTypeOK
  <2> HIDE DEF stage
  <2> QED BY <2>1, <2>2, <2>3, EndsUnwritten
<1>2. CASE FileCrash
  <2>1. In(Ongoing) \in SUBSET FileCalls /\ In({"writing"}) \subseteq In(Ongoing) /\ mixed \subseteq FileCalls
    BY DEF In, Ongoing, FileInv, FileTypeOK
  <2>2. /\ Ends(In(Ongoing), "lost") /\ mixed' = {} /\ UNCHANGED <<answered, crossed>>
        /\ spoiled' = (spoiled \/ In(Ongoing) \intersect In({"writing"}) # {})
        /\ file' \in FileContents /\ torn' \in BOOLEAN /\ (~spoiled' => UNCHANGED <<file, torn>>)
        /\ (mixed \intersect In({"writing"})) \ In(Ongoing) \subseteq mixed' /\ mixed' \subseteq FileCalls
    BY <1>2, <2>1 DEF FileCrash, FileInv, FileTypeOK, In
  <2> QED BY <2>1, <2>2, EndsUnwritten
<1>3. CASE UNCHANGED fileVars
  BY <1>3 DEF fileVars, callVars, FileInv, FileTypeOK, OverlapIsSeen, MixIsSeen, TornIsWritten,
              DataIsCurrent, FileIsCurrent, In, Removes
<1> QED BY <1>1, <1>2, <1>3, BeginsStep, ReadWholeStep, StartWriteStep, EndWriteStep DEF FileNext

\* FileInv holds in every state.
LEMMA FileInvariant == FileSpec => []FileInv
<1>1. FileInit => FileInv
  BY EmptyFileType
  DEF FileInit, FileInv, FileTypeOK, OverlapIsSeen, MixIsSeen, TornIsWritten, DataIsCurrent,
      FileIsCurrent, In, Ongoing, EmptyFile
<1> QED BY <1>1, FileStep, PTL DEF FileSpec

\* An answered change is lost only when another call overlapped it, or the file was
\* torn by writes at once, by a crash or by a failure within one.
THEOREM LossNeedsOverlap == FileSpec => []LostOnlyByOverlap
<1>1. FileInv => LostOnlyByOverlap
  BY DEF FileInv, TornIsWritten, FileIsCurrent, LostOnlyByOverlap, Quiet, In, Ongoing, FileTypeOK
<1> QED BY <1>1, FileInvariant, PTL

-----------------------------------------------------------------------------
(* ApiToken.                                                               *)

\* What is written is the writer's own token.
WritersOwnToken ==
    \A p \in Replicas : tokenStage[p] \in {"writing", "checking"} => token[p] = <<p, starts[p]>>

\* A file holds no token of a start to come, nor one of a process that had no need to
\* make one.
FilesHoldOldTokens ==
    \A d \in Dirs, p \in Replicas :
       /\ \A n \in 1..MaxStarts : tokenFile[d] = <<p, n>> => n <= starts[p]
       /\ p \in welcomed => tokenFile[d] # <<p, starts[p]>>

\* A readable file that others could read too was there from the beginning: nobody
\* has passed it.
SharedFileIsRead ==
    \A d \in adoptable \ private, p \in Replicas :
       /\ tokenStage[p] \notin {"writing", "checking"}
       /\ tokenStage[p] = "reading" => candidate[p] <= d

\* A process that can find a token has one before it.
WelcomedFindsToken ==
    \A p \in welcomed : tokenStage[p] = "reading" => \E d \in adoptable : candidate[p] <= d

RunningIsStarted == \A p \in Replicas : tokenStage[p] # "off" => starts[p] > 0

\* What the processes keep together.
TokenInv ==
    /\ TokenTypeOK
    /\ \A d \in adoptable : tokenFile[d] # None
    /\ WritersOwnToken /\ FilesHoldOldTokens /\ SharedFileIsRead /\ WelcomedFindsToken
    /\ RunningIsStarted /\ ServesItsFile

\* A start forgets what the process served before.
LEMMA StartReplicaStep ==
    ASSUME TokenInv, NEW p \in Replicas, StartReplica(p)
    PROVE  TokenInv'
<1> USE CandidatesAssumption DEF TokenInv, TokenTypeOK, Dirs
<1>1. TokenTypeOK'
  BY DEF StartReplica, Go, dirVars
<1>2. WritersOwnToken'
  BY DEF StartReplica, Go, dirVars, WritersOwnToken
<1>3. FilesHoldOldTokens'
  <2> SUFFICES ASSUME NEW d \in Dirs, NEW q \in Replicas
               PROVE  /\ \A n \in 1..MaxStarts : tokenFile[d] = <<q, n>> => n <= starts'[q]
                      /\ q \in welcomed' => tokenFile[d] # <<q, starts'[q]>>
    BY DEF StartReplica, dirVars, FilesHoldOldTokens
  <2>1. /\ \A n \in 1..MaxStarts : tokenFile[d] = <<q, n>> => n <= starts[q]
        /\ q \in welcomed => tokenFile[d] # <<q, starts[q]>>
    BY DEF FilesHoldOldTokens
  <2>2. starts[q] \in Nat /\ starts'[q] = (IF q = p THEN starts[q] + 1 ELSE starts[q])
    BY DEF StartReplica
  <2>3. CASE q = p
    <3> HIDE DEF TokenInv, TokenTypeOK
    <3>1. starts'[q] \in 1..MaxStarts /\ starts[q] < starts'[q]
      BY <1>1, <2>2, <2>3 DEF TokenTypeOK
    <3>2. tokenFile[d] # <<q, starts'[q]>>
      BY <2>1, <2>2, <3>1
    <3>3. \A n \in 1..MaxStarts : tokenFile[d] = <<q, n>> => n <= starts'[q]
      BY <2>1, <2>2, <3>1
    <3> QED BY <3>2, <3>3
  <2>4. CASE q # p
    <3>1. q \in welcomed' => q \in welcomed
      BY <2>4 DEF StartReplica
    <3> QED BY <2>1, <2>2, <2>4, <3>1
  <2> QED BY <2>3, <2>4
<1>4. SharedFileIsRead'
  BY DEF StartReplica, Go, dirVars, SharedFileIsRead
<1>5. WelcomedFindsToken'
  BY DEF StartReplica, Go, dirVars, WelcomedFindsToken
<1>6. ServesItsFile'
  BY DEF StartReplica, Go, dirVars, ServesItsFile
<1>7. RunningIsStarted'
  BY DEF StartReplica, Go, dirVars, RunningIsStarted
<1> QED BY <1>1, <1>2, <1>3, <1>4, <1>5, <1>6, <1>7 DEF StartReplica, dirVars

\* What a call that returns changes, process by process.
LEMMA Serves ==
    ASSUME TokenTypeOK, NEW p \in Replicas, NEW value, NEW path, Serve(p, value, path)
    PROVE  \A q \in Replicas :
              /\ tokenStage'[q] = IF q = p THEN "serving" ELSE tokenStage[q]
              /\ token'[q] = IF q = p THEN value ELSE token[q]
              /\ tokenPath'[q] = IF q = p THEN path ELSE tokenPath[q]
              /\ candidate'[q] = candidate[q]
              /\ q \in overtaken' <=> q \in overtaken /\ q # p
BY DEF Serve, TokenTypeOK

\* What a call that goes on changes.
LEMMA GoesTo ==
    ASSUME TokenTypeOK, NEW p \in Replicas, NEW stage, NEW dir, Go(p, stage, dir)
    PROVE  \A q \in Replicas :
              /\ tokenStage'[q] = IF q = p THEN stage ELSE tokenStage[q]
              /\ candidate'[q] = IF q = p THEN dir ELSE candidate[q]
BY DEF Go, TokenTypeOK

\* The token that is read is served with its file; who is welcome finds one.
LEMMA ReadCandidateStep ==
    ASSUME TokenInv, NEW p \in Replicas, ReadCandidate(p)
    PROVE  TokenInv'
<1> DEFINE dir == candidate[p]
<1> USE CandidatesAssumption, TokensAssumption
<1>0. /\ dir \in 1..Candidates
      /\ starts[p] \in Nat
      /\ UNCHANGED <<writable, private, adoptable, tokenFile, starts, welcomed>>
      /\ tokenStage[p] = "reading"
      /\ \A q \in welcomed : q \in Replicas
      /\ adoptable \subseteq 1..Candidates
  BY DEF TokenInv, TokenTypeOK, ReadCandidate, dirVars, Dirs
<1>1. CASE Readable(dir) # None
  <2>1. dir \in adoptable
    BY <1>1 DEF Readable
  <2>2. Serve(p, tokenFile[dir], dir)
    BY <1>1 DEF ReadCandidate
  <2>3. TokenTypeOK'
    BY <1>0, <2>2 DEF Serve, TokenInv, TokenTypeOK, Dirs
  <2>4. WritersOwnToken' /\ FilesHoldOldTokens'
    BY <1>0, <2>2, Serves DEF TokenInv, WritersOwnToken, FilesHoldOldTokens
  <2>5. SharedFileIsRead' /\ WelcomedFindsToken'
    BY <1>0, <2>2, Serves DEF TokenInv, SharedFileIsRead, WelcomedFindsToken
  <2>6. ServesItsFile'
    <3> SUFFICES ASSUME NEW q \in Replicas
                 PROVE  /\ tokenStage'[q] = "serving" /\ tokenPath'[q] # None =>
                              token'[q] = tokenFile[tokenPath'[q]] \/ q \in overtaken'
                        /\ q \in welcomed =>
                              /\ tokenStage'[q] \notin {"writing", "checking"}
                              /\ tokenStage'[q] = "serving" =>
                                    tokenPath'[q] # None /\ token'[q] # <<q, starts[q]>>
      BY <1>0 DEF ServesItsFile
    <3>1. CASE q = p
      <4>1. dir \in Dirs /\ dir # None
        BY <1>0 DEF Dirs
      <4>2. p \in welcomed => tokenFile[dir] # <<p, starts[p]>>
        BY <4>1 DEF TokenInv, FilesHoldOldTokens
      <4> QED BY <2>2, <3>1, <4>1, <4>2, Serves DEF TokenInv
    <3>2. CASE q # p
      BY <2>2, <3>2, Serves DEF TokenInv, ServesItsFile
    <3> QED BY <3>1, <3>2
  <2>7. RunningIsStarted'
    BY <1>0, <2>2, Serves DEF TokenInv, RunningIsStarted
  <2> QED BY <1>0, <2>3, <2>4, <2>5, <2>6, <2>7 DEF TokenInv
<1>2. CASE Readable(dir) = None
  <2>1. dir \notin adoptable
    BY <1>2 DEF Readable, TokenInv
  <2>2. /\ UNCHANGED <<tokenPath, overtaken>>
        /\ \/ dir < Candidates /\ Go(p, "reading", dir + 1) /\ UNCHANGED token
           \/ /\ dir = Candidates /\ Go(p, "writing", 1)
              /\ token' = [token EXCEPT ![p] = <<p, starts[p]>>]
    BY <1>0, <1>2 DEF ReadCandidate
  <2>3. dir = Candidates => p \notin welcomed
    BY <1>0, <2>1 DEF TokenInv, WelcomedFindsToken
  <2>4. PICK stage \in {"reading", "writing"}, next \in 1..Candidates :
           /\ Go(p, stage, next)
           /\ stage = "reading" => next = dir + 1 /\ dir < Candidates
           /\ stage = "writing" => dir = Candidates
           /\ token' = IF stage = "reading" THEN token ELSE [token EXCEPT ![p] = <<p, starts[p]>>]
    BY <1>0, <2>2
  <2>5. TokenTypeOK'
    <3>1. stage = "writing" => <<p, starts[p]>> \in Tokens
      BY <1>0, <2>3 DEF TokenInv, TokenTypeOK, Tokens, RunningIsStarted
    <3> QED BY <1>0, <2>2, <2>4, <3>1 DEF Go, TokenInv, TokenTypeOK, Dirs
  <2>6. WritersOwnToken'
    BY <1>0, <2>4, GoesTo DEF TokenInv, TokenTypeOK, WritersOwnToken
  <2>7. FilesHoldOldTokens'
    BY <1>0 DEF TokenInv, FilesHoldOldTokens
  <2>8. SharedFileIsRead'
    <3> SUFFICES ASSUME NEW d \in adoptable \ private, NEW q \in Replicas
                 PROVE  /\ tokenStage'[q] \notin {"writing", "checking"}
                        /\ tokenStage'[q] = "reading" => candidate'[q] <= d
      BY <1>0 DEF SharedFileIsRead
    <3>1. dir < d
      BY <1>0, <2>1 DEF TokenInv, SharedFileIsRead
    <3>2. CASE q = p
      <4>1. d \in 1..Candidates
        BY <1>0
      <4>2. stage = "reading" /\ next <= d
        BY <1>0, <2>4, <3>1, <4>1
      <4>3. tokenStage'[q] = stage /\ candidate'[q] = next
        BY <2>4, <3>2, GoesTo DEF TokenInv
      <4> QED BY <4>2, <4>3
    <3>3. CASE q # p
      BY <2>4, <3>3, GoesTo DEF TokenInv, SharedFileIsRead
    <3> QED BY <3>2, <3>3
  <2>9. WelcomedFindsToken'
    <3> SUFFICES ASSUME NEW q \in welcomed, tokenStage'[q] = "reading"
                 PROVE  \E d \in adoptable : candidate'[q] <= d
      BY <1>0 DEF WelcomedFindsToken
    <3>1. CASE q = p
      <4>1. tokenStage'[q] = stage /\ candidate'[q] = next
        BY <2>4, <3>1, GoesTo DEF TokenInv
      <4>2. PICK d \in adoptable : dir <= d
        BY <1>0, <3>1 DEF TokenInv, WelcomedFindsToken
      <4>3. d \in 1..Candidates /\ d # dir
        BY <1>0, <2>1
      <4>4. next = dir + 1
        BY <2>4, <4>1
      <4>5. next <= d
        BY <1>0, <4>2, <4>3, <4>4
      <4> QED BY <4>1, <4>2, <4>5
    <3>2. CASE q # p
      <4>1. tokenStage'[q] = tokenStage[q] /\ candidate'[q] = candidate[q]
        BY <1>0, <2>4, <3>2, GoesTo DEF TokenInv
      <4> QED BY <4>1 DEF TokenInv, WelcomedFindsToken
    <3> QED BY <3>1, <3>2
  <2>10. ServesItsFile'
    BY <1>0, <2>2, <2>3, <2>4, GoesTo DEF TokenInv, TokenTypeOK, ServesItsFile
  <2>11. RunningIsStarted'
    BY <1>0, <2>4, GoesTo DEF TokenInv, RunningIsStarted
  <2> QED BY <1>0, <2>5, <2>6, <2>7, <2>8, <2>9, <2>10, <2>11 DEF TokenInv
<1> QED BY <1>1, <1>2

\* What is written over is noted by those that serve it.
LEMMA WriteCandidateStep ==
    ASSUME TokenInv, NEW p \in Replicas, WriteCandidate(p)
    PROVE  TokenInv'
<1> DEFINE dir == candidate[p]
<1> USE CandidatesAssumption, TokensAssumption
<1>0. /\ dir \in 1..Candidates /\ starts[p] \in Nat
      /\ tokenStage[p] = "writing"
      /\ UNCHANGED <<writable, private, starts, welcomed>>
      /\ tokenFile \in [Dirs -> Tokens \union {None}]
      /\ \A q \in welcomed : q \in Replicas
      /\ adoptable \subseteq 1..Candidates
  BY DEF TokenInv, TokenTypeOK, WriteCandidate, Dirs
<1>1. p \notin welcomed /\ adoptable \subseteq private /\ token[p] = <<p, starts[p]>>
  BY <1>0 DEF TokenInv, ServesItsFile, SharedFileIsRead, WritersOwnToken
<1>2. CASE dir \in writable
  <2>1. /\ tokenFile' = [tokenFile EXCEPT ![dir] = token[p]]
        /\ adoptable' = IF dir \in private THEN adoptable \union {dir} ELSE adoptable \ {dir}
        /\ overtaken' = overtaken \union
              {q \in Replicas \ {p} : tokenStage[q] = "serving" /\ tokenPath[q] = dir}
        /\ Go(p, "checking", dir)
        /\ UNCHANGED <<token, tokenPath>>
    BY <1>2 DEF WriteCandidate
  <2>2. adoptable \subseteq adoptable' /\ adoptable' \subseteq private
    BY <1>1, <2>1
  <2>3. token[p] # None
    BY <1>0, <1>1 DEF TokenInv, TokenTypeOK, Tokens, RunningIsStarted
  <2>4. \A d \in Dirs : tokenFile'[d] = IF d = dir THEN token[p] ELSE tokenFile[d]
    BY <1>0, <2>1
  <2>5. TokenTypeOK'
    BY <1>0, <2>1 DEF Go, TokenInv, TokenTypeOK, Dirs
  <2>6. WritersOwnToken'
    BY <1>0, <2>1, GoesTo DEF TokenInv, WritersOwnToken
  <2>7. FilesHoldOldTokens'
    <3> SUFFICES ASSUME NEW d \in Dirs, NEW q \in Replicas
                 PROVE  /\ \A n \in 1..MaxStarts : tokenFile'[d] = <<q, n>> => n <= starts[q]
                        /\ q \in welcomed => tokenFile'[d] # <<q, starts[q]>>
      BY <1>0 DEF FilesHoldOldTokens
    <3>1. CASE d = dir
      BY <1>0, <1>1, <2>4, <3>1
    <3>2. CASE d # dir
      BY <2>4, <3>2 DEF TokenInv, FilesHoldOldTokens
    <3> QED BY <3>1, <3>2
  <2>8. SharedFileIsRead'
    BY <1>0, <2>2 DEF SharedFileIsRead
  <2>9. WelcomedFindsToken'
    <3> SUFFICES ASSUME NEW q \in welcomed, tokenStage'[q] = "reading"
                 PROVE  \E d \in adoptable' : candidate'[q] <= d
      BY <1>0 DEF WelcomedFindsToken
    <3>1. q \in Replicas /\ q # p
      BY <1>0, <1>1
    <3>2. tokenStage'[q] = tokenStage[q] /\ candidate'[q] = candidate[q]
      BY <2>1, <3>1, GoesTo DEF TokenInv
    <3> QED BY <2>2, <3>2 DEF TokenInv, WelcomedFindsToken
  <2>10. ServesItsFile'
    <3> SUFFICES ASSUME NEW q \in Replicas
                 PROVE  /\ tokenStage'[q] = "serving" /\ tokenPath'[q] # None =>
                              token'[q] = tokenFile'[tokenPath'[q]] \/ q \in overtaken'
                        /\ q \in welcomed =>
                              /\ tokenStage'[q] \notin {"writing", "checking"}
                              /\ tokenStage'[q] = "serving" =>
                                    tokenPath'[q] # None /\ token'[q] # <<q, starts[q]>>
      BY <1>0 DEF ServesItsFile
    <3>1. CASE q = p
      BY <1>1, <2>1, <3>1, GoesTo DEF TokenInv
    <3>2. CASE q # p
      <4>1. tokenStage'[q] = tokenStage[q] /\ tokenPath'[q] = tokenPath[q] /\ token'[q] = token[q]
        BY <2>1, <3>2, GoesTo DEF TokenInv
      <4>2. tokenPath[q] \in Dirs \union {None}
        BY DEF TokenInv, TokenTypeOK
      <4> QED BY <2>1, <2>4, <3>2, <4>1, <4>2 DEF TokenInv, ServesItsFile
    <3> QED BY <3>1, <3>2
  <2>11. \A d \in adoptable' : tokenFile'[d] # None
    <3>1. adoptable' \subseteq Dirs
      BY <1>0, <2>1 DEF Dirs
    <3> QED BY <2>1, <2>3, <2>4, <3>1 DEF TokenInv
  <2>12. RunningIsStarted'
    BY <1>0, <2>1, GoesTo DEF TokenInv, RunningIsStarted
  <2> QED BY <2>5, <2>6, <2>7, <2>8, <2>9, <2>10, <2>11, <2>12, <1>0 DEF TokenInv
<1>3. CASE dir \notin writable
  <2>1. /\ UNCHANGED <<tokenFile, adoptable, token>>
        /\ \/ /\ dir < Candidates /\ Go(p, "writing", dir + 1)
              /\ UNCHANGED <<tokenPath, overtaken>>
           \/ Serve(p, token[p], None)
    <3>1. UNCHANGED token \/ Serve(p, token[p], None)
      BY <1>3 DEF WriteCandidate
    <3>2. [token EXCEPT ![p] = token[p]] = token
      BY DEF TokenInv, TokenTypeOK
    <3> QED BY <1>3, <3>1, <3>2 DEF WriteCandidate, Serve
  <2>2. TokenTypeOK'
    <3>1. CASE Serve(p, token[p], None)
      BY <1>0, <2>1, <3>1 DEF Serve, TokenInv, TokenTypeOK
    <3>2. CASE dir < Candidates /\ Go(p, "writing", dir + 1) /\ UNCHANGED <<tokenPath, overtaken>>
      BY <1>0, <2>1, <3>2 DEF Go, TokenInv, TokenTypeOK, Dirs
    <3> QED BY <2>1, <3>1, <3>2
  <2>3. FilesHoldOldTokens'
    BY <1>0, <2>1 DEF TokenInv, FilesHoldOldTokens
  <2>4. \A q \in Replicas :
           \/ tokenStage'[q] = tokenStage[q] /\ tokenPath'[q] = tokenPath[q] /\ token'[q] = token[q]
              /\ (q \in overtaken => q \in overtaken' \/ q = p)
              /\ (q # p => candidate'[q] = candidate[q])
           \/ q = p /\ tokenStage'[q] = "serving" /\ tokenPath'[q] = None
    BY <1>0, <2>1, GoesTo, Serves DEF TokenInv
  <2>5. WritersOwnToken'
    BY <1>0, <2>1, <2>4 DEF TokenInv, WritersOwnToken
  <2>6. SharedFileIsRead'
    BY <1>0, <1>1, <2>1 DEF SharedFileIsRead
  <2>7. WelcomedFindsToken'
    BY <1>0, <1>1, <2>1, <2>4 DEF TokenInv, WelcomedFindsToken
  <2>8. ServesItsFile'
    BY <1>0, <1>1, <2>1, <2>4 DEF TokenInv, ServesItsFile
  <2>9. RunningIsStarted'
    BY <1>0, <2>1, <2>4 DEF TokenInv, RunningIsStarted
  <2> QED BY <1>0, <2>1, <2>2, <2>3, <2>5, <2>6, <2>7, <2>8, <2>9 DEF TokenInv
<1> QED BY <1>2, <1>3

\* The token on disk is served, or none is found there.
LEMMA CheckCandidateStep ==
    ASSUME TokenInv, NEW p \in Replicas, CheckCandidate(p)
    PROVE  TokenInv'
<1> DEFINE dir == candidate[p]
<1>1. PICK value \in Tokens \union {None}, path \in Dirs \union {None} :
         /\ Serve(p, value, path)
         /\ path # None => path = dir /\ value = tokenFile[dir]
  BY DEF CheckCandidate, Readable, TokenOnDisk, TokenInv, TokenTypeOK
<1>2. /\ UNCHANGED <<writable, private, adoptable, tokenFile, starts, welcomed>>
      /\ tokenStage[p] = "checking"
      /\ \A q \in welcomed : q \in Replicas
  BY DEF CheckCandidate, dirVars, TokenInv, TokenTypeOK
<1>3. p \notin welcomed
  BY <1>2 DEF TokenInv, ServesItsFile
<1>4. TokenTypeOK'
  BY <1>1, <1>2 DEF Serve, TokenInv, TokenTypeOK
<1>5. WritersOwnToken' /\ FilesHoldOldTokens'
  BY <1>1, <1>2, Serves DEF TokenInv, WritersOwnToken, FilesHoldOldTokens
<1>6. SharedFileIsRead' /\ WelcomedFindsToken'
  BY <1>1, <1>2, Serves DEF TokenInv, SharedFileIsRead, WelcomedFindsToken
<1>7. ServesItsFile'
  BY <1>1, <1>2, <1>3, Serves DEF TokenInv, ServesItsFile
<1>8. RunningIsStarted'
  BY <1>1, <1>2, Serves DEF TokenInv, RunningIsStarted
<1> QED BY <1>2, <1>4, <1>5, <1>6, <1>7, <1>8 DEF TokenInv

\* TokenInv holds in every state.
LEMMA TokenInvariant == TokenSpec => []TokenInv
<1>1. TokenInit => TokenInv
  <2> SUFFICES ASSUME TokenInit PROVE TokenInv
    OBVIOUS
  <2> USE CandidatesAssumption, TokensAssumption DEF TokenInit
  <2>1. TokenTypeOK
    BY DEF TokenTypeOK, Dirs, Tokens
  <2>2. FilesHoldOldTokens
    <3> SUFFICES ASSUME NEW d \in Dirs, NEW p \in Replicas, NEW n \in 1..MaxStarts
                 PROVE  tokenFile[d] # <<p, n>>
      BY DEF FilesHoldOldTokens
    <3>1. tokenFile[d] \in {None, Given} /\ <<p, n>> \in Tokens
      BY DEF Tokens
    <3>2. <<p, n>> # Given
      BY DEF Given
    <3> QED BY <3>1, <3>2
  <2>3. WritersOwnToken /\ SharedFileIsRead /\ WelcomedFindsToken /\ RunningIsStarted /\ ServesItsFile
    BY DEF WritersOwnToken, SharedFileIsRead, WelcomedFindsToken, RunningIsStarted, ServesItsFile
  <2> QED BY <2>1, <2>2, <2>3 DEF TokenInv
<1>2. TokenInv /\ [TokenNext]_tokenVars => TokenInv'
  <2> SUFFICES ASSUME TokenInv, [TokenNext]_tokenVars PROVE TokenInv'
    OBVIOUS
  <2>1. CASE UNCHANGED tokenVars
    BY <2>1 DEF tokenVars, dirVars, resolverVars, TokenInv, TokenTypeOK, WritersOwnToken,
       FilesHoldOldTokens, SharedFileIsRead, WelcomedFindsToken, RunningIsStarted, ServesItsFile
  <2> QED
    BY <2>1, StartReplicaStep, ReadCandidateStep, WriteCandidateStep, CheckCandidateStep DEF TokenNext
<1> QED BY <1>1, <1>2, PTL DEF TokenSpec

\* A process serves the token in the file that it names, unless another one wrote that
\* file since its last look; and one that starts when a token can be read makes none.
THEOREM ServedTokenIsInFile == TokenSpec => []ServesItsFile
<1>1. TokenInv => ServesItsFile
  BY DEF TokenInv
<1> QED BY <1>1, TokenInvariant, PTL

-----------------------------------------------------------------------------
(* VectorMemory.                                                           *)

\* After all vectors were computed anew, each has the weight the cache gives its term.
VectorsAreCurrent ==
    sinceLastReindex = 0 => \A i \in DOMAIN memories : memories[i].tfidf = idfCache[memories[i].term]

VectorInv ==
    /\ memories \in Seq(MemoryEntry)
    /\ idfCache \in [Terms -> Sign]
    /\ sinceLastReindex \in Nat
    /\ VectorsAreCurrent

\* An entry is added, and every ReindexThreshold entries all vectors are computed anew.
LEMMA AddMemoryStep ==
    ASSUME VectorInv, NEW t \in Terms, AddMemory(t)
    PROVE  VectorInv'
<1> DEFINE entries == Append(memories, Tfidf(t, idfCache'))
<1>1. idfCache' \in [Terms -> Sign]
  BY DEF AddMemory, Idf, Sign
<1>2. entries \in Seq(MemoryEntry)
  <2>1. Tfidf(t, idfCache') \in MemoryEntry
    <3>1. idfCache'[t] \in Sign
      BY <1>1
    <3> QED BY <3>1 DEF Tfidf, MemoryEntry
  <2> QED BY <2>1 DEF VectorInv
<1>3. CASE sinceLastReindex + 1 >= ReindexThreshold
  <2>1. memories' = Reindexed(entries, idfCache') /\ sinceLastReindex' = 0
    BY <1>3 DEF AddMemory
  <2> HIDE DEF entries
  <2>2. /\ DOMAIN entries = 1..Len(entries) /\ Len(entries) \in Nat
        /\ \A i \in DOMAIN entries : entries[i].term \in Terms
    <3>1. DOMAIN entries = 1..Len(entries) /\ \A i \in DOMAIN entries : entries[i] \in MemoryEntry
      BY <1>2
    <3>2. \A entry \in MemoryEntry : entry.term \in Terms
      BY DEF MemoryEntry
    <3> QED BY <1>2, <3>1, <3>2
  <2>3. /\ DOMAIN memories' = DOMAIN entries
        /\ \A i \in DOMAIN entries :
              memories'[i] = [term |-> entries[i].term, tfidf |-> idfCache'[entries[i].term]]
    BY <2>1 DEF Reindexed, Tfidf
  <2>4. memories' = [i \in 1..Len(entries) |->
                       [term |-> entries[i].term, tfidf |-> idfCache'[entries[i].term]]]
    BY <2>1, <2>2 DEF Reindexed, Tfidf
  <2>5. \A i \in 1..Len(entries) :
           [term |-> entries[i].term, tfidf |-> idfCache'[entries[i].term]] \in MemoryEntry
    BY <1>1, <2>2 DEF MemoryEntry
  <2>6. memories' \in Seq(MemoryEntry)
    BY <2>2, <2>4, <2>5
  <2>7. VectorsAreCurrent'
    BY <2>3 DEF VectorsAreCurrent
  <2> QED BY <1>1, <2>1, <2>6, <2>7 DEF VectorInv
<1>4. CASE ~(sinceLastReindex + 1 >= ReindexThreshold)
  BY <1>1, <1>2, <1>4 DEF AddMemory, VectorInv, VectorsAreCurrent
<1> QED BY <1>3, <1>4

\* VectorInv holds in every state.
LEMMA VectorInvariant == MemorySpec => []VectorInv
<1>1. MemoryInit => VectorInv
  BY DEF MemoryInit, VectorInv, VectorsAreCurrent, Sign
<1>2. VectorInv /\ [MemoryNext]_vectorVars => VectorInv'
  <2>1. VectorInv /\ UNCHANGED vectorVars => VectorInv'
    BY DEF vectorVars, VectorInv, VectorsAreCurrent
  <2> QED BY <2>1, AddMemoryStep DEF MemoryNext
<1> QED BY <1>1, <1>2, PTL DEF MemorySpec

\* Right after all vectors were computed anew, no entry is ranked above one that has
\* the very words of the query.
THEOREM MatchesRankFirst == MemorySpec => []ReindexedRanksMatches
<1>1. VectorInv => ReindexedRanksMatches
  <2> SUFFICES ASSUME VectorInv, sinceLastReindex = 0,
                      NEW i \in DOMAIN memories, NEW j \in DOMAIN memories
               PROVE  Score(memories[i].term, i) >= Score(memories[i].term, j)
    BY DEF ReindexedRanksMatches
  <2> DEFINE weight == idfCache[memories[i].term]
  <2>1. memories[i].term \in Terms /\ memories[j].term \in Terms
    <3>1. memories[i] \in MemoryEntry /\ memories[j] \in MemoryEntry
      BY DEF VectorInv
    <3> QED BY <3>1 DEF MemoryEntry
  <2>2. weight \in {-1, 0, 1}
    BY <2>1 DEF VectorInv, Sign
  <2>3. memories[i].tfidf = weight /\ memories[j].tfidf = idfCache[memories[j].term]
    BY DEF VectorInv, VectorsAreCurrent
  <2>4. Score(memories[i].term, i) = weight * weight
    BY <2>3 DEF Score, Similarity, Tfidf
  <2>5. Score(memories[i].term, j) \in {0, weight * weight}
    BY <2>3 DEF Score, Similarity, Tfidf
  <2>6. weight * weight \in {0, 1}
    BY <2>2
  <2> QED BY <2>4, <2>5, <2>6
<1> QED BY <1>1, VectorInvariant, PTL

-----------------------------------------------------------------------------
(* MandateGenerator: the backend and the generator.                        *)

PermitKinds == {"create", "use", "charge", "revoke"}

\* A call under way says what it is about, and has not been answered.
CallsAreKnown ==
    \A c \in PermitCalls :
       /\ permitStage[c] # "none" => permitKind[c] \in PermitKinds /\ ofPermit[c] \in Permits
       /\ permitStage[c] \in {"getting", "checked"} => permitKind[c] = "charge"
       /\ permitStage[c] # "settled" => permitAnswer[c] # "ok"

\* What the callers were told is what the backend has.
UsesAreSpent ==
    \A c \in PermitCalls, m \in Permits : UseOf(c, m) => issued[m] # None /\ issued[m].used

RevocationsAreStored ==
    \A m \in Permits : RevocationAnswered(m) => issued[m] # None /\ issued[m].revoked

\* ChargedOnce without counting.
OneUse ==
    \A c, d \in PermitCalls, m \in Permits : UseOf(c, m) /\ UseOf(d, m) => c = d

\* Who asked after a revocation was answered is refused.
LateOnesAreRefused ==
    \A c \in tooLate :
       /\ permitStage[c] \in {"sent", "settled"}
       /\ issued[ofPermit[c]] # None /\ issued[ofPermit[c]].revoked
       /\ \A m \in Permits : ~UseOf(c, m)

\* The variables of the generator and its backend have their types.
CallTypes ==
    /\ issued \in [Permits -> Permit \union {None}]
    /\ permitKind \in [PermitCalls -> PermitKinds \union {None}]
    /\ ofPermit \in [PermitCalls -> Permits \union {None}]
    /\ tooLate \subseteq PermitCalls
    /\ permitStage \in [PermitCalls -> {"none", "getting", "checked", "sent", "settled"}]
    /\ permitAnswer \in [PermitCalls -> {"none", "ok", "threw", "invalid"}]

ChargeInv ==
    /\ CallTypes /\ CallsAreKnown
    /\ UsesAreSpent /\ RevocationsAreStored /\ OneUse /\ LateOnesAreRefused

\* A call that the backend accepts takes nothing back.
LEMMA AppliedKeeps ==
    ASSUME issued \in [Permits -> Permit \union {None}], NEW kind \in PermitKinds, NEW m \in Permits,
           Accepts(kind, m), ApplyTo(kind, m)
    PROVE  /\ issued' \in [Permits -> Permit \union {None}]
           /\ \A n \in Permits : issued[n] # None =>
                 /\ issued'[n] # None
                 /\ issued[n].used => issued'[n].used
                 /\ issued[n].revoked => issued'[n].revoked
           /\ kind \in {"use", "charge"} => Usable(m) /\ issued'[m] # None /\ issued'[m].used
           /\ kind = "revoke" => issued'[m] # None /\ issued'[m].revoked
<1> USE PermitAssumption
<1> DEFINE after == Applied(kind, issued[m])
<1>1. \A n \in Permits : issued'[n] = IF n = m THEN after ELSE issued[n]
  BY DEF ApplyTo
<1>2. CASE kind = "create"
  <2>1. issued[m] = None /\ after = Unspent
    BY <1>2 DEF Accepts, Applied
  <2>2. Unspent \in Permit
    BY DEF Unspent, Permit
  <2> QED BY <1>1, <1>2, <2>1, <2>2 DEF ApplyTo
<1>3. CASE kind \in {"use", "charge"}
  <2>1. Usable(m) /\ issued[m] \in Permit /\ after = [issued[m] EXCEPT !.used = TRUE]
    BY <1>3 DEF Accepts, Applied, Usable
  <2>2. after \in Permit /\ after.used /\ after.revoked = issued[m].revoked
    BY <2>1 DEF Permit
  <2> QED BY <1>1, <1>3, <2>1, <2>2 DEF ApplyTo
<1>4. CASE kind = "revoke"
  <2>1. issued[m] \in Permit /\ after = [issued[m] EXCEPT !.revoked = TRUE]
    BY <1>4 DEF Accepts, Applied
  <2>2. after \in Permit /\ after.revoked /\ after.used = issued[m].used
    BY <2>1 DEF Permit
  <2> QED BY <1>1, <1>4, <2>1, <2>2 DEF ApplyTo
<1> QED BY <1>2, <1>3, <1>4 DEF PermitKinds

\* A step of one call keeps the invariant when it tells its caller of a success only
\* with what the backend accepts, and knows of the revocations before it.
LEMMA ChargeStep ==
    ASSUME ChargeInv, CallTypes',
           NEW c \in PermitCalls, NEW kind \in PermitKinds, NEW m \in Permits,
           permitKind'[c] = kind, ofPermit'[c] = m,
           permitStage[c] # "settled",
           permitStage[c] # "none" => permitKind[c] = kind /\ ofPermit[c] = m,
           permitStage'[c] # "none",
           permitStage'[c] \in {"getting", "checked"} => kind = "charge" /\ c \notin tooLate',
           permitAnswer'[c] = "ok" => permitStage'[c] = "settled" /\ Accepts(kind, m) /\ ApplyTo(kind, m),
           UNCHANGED issued \/ (Accepts(kind, m) /\ ApplyTo(kind, m)),
           \A d \in PermitCalls \ {c} :
              /\ permitKind'[d] = permitKind[d] /\ ofPermit'[d] = ofPermit[d]
              /\ permitStage'[d] = permitStage[d] /\ permitAnswer'[d] = permitAnswer[d]
              /\ d \in tooLate' <=> d \in tooLate,
           c \in tooLate' => issued[m] # None /\ issued[m].revoked
    PROVE  ChargeInv'
<1>1. permitAnswer[c] # "ok"
  BY DEF ChargeInv, CallsAreKnown
<1>2. /\ \A n \in Permits : issued[n] # None =>
            /\ issued'[n] # None
            /\ issued[n].used => issued'[n].used
            /\ issued[n].revoked => issued'[n].revoked
      /\ permitAnswer'[c] = "ok" /\ kind \in {"use", "charge"} =>
            Usable(m) /\ issued'[m] # None /\ issued'[m].used
      /\ permitAnswer'[c] = "ok" /\ kind = "revoke" => issued'[m] # None /\ issued'[m].revoked
  <2>1. CASE UNCHANGED issued /\ permitAnswer'[c] # "ok"
    BY <2>1
  <2>2. CASE Accepts(kind, m) /\ ApplyTo(kind, m)
    BY <2>2, AppliedKeeps DEF ChargeInv, CallTypes
  <2> QED BY <2>1, <2>2
<1>3. /\ \A d \in PermitCalls \ {c}, n \in Permits : UseOf(d, n)' <=> UseOf(d, n)
      /\ \A n \in Permits : UseOf(c, n)' => n = m /\ kind \in {"use", "charge"} /\ permitAnswer'[c] = "ok"
  BY DEF UseOf
<1>4. CallsAreKnown'
  BY DEF ChargeInv, CallsAreKnown
<1>5. UsesAreSpent'
  BY <1>2, <1>3 DEF ChargeInv, UsesAreSpent
<1>6. OneUse'
  <2>1. \A d \in PermitCalls : UseOf(c, m)' => ~UseOf(d, m)
    BY <1>2, <1>3 DEF ChargeInv, UsesAreSpent, Usable
  <2> QED BY <1>3, <2>1 DEF ChargeInv, OneUse
<1>7. RevocationsAreStored'
  <2> SUFFICES ASSUME NEW n \in Permits, NEW d \in PermitCalls,
                      permitKind'[d] = "revoke", ofPermit'[d] = n, permitAnswer'[d] = "ok"
               PROVE  issued'[n] # None /\ issued'[n].revoked
    BY DEF RevocationsAreStored, RevocationAnswered
  <2>1. CASE d = c
    BY <1>2, <2>1
  <2>2. CASE d # c
    <3>1. RevocationAnswered(n)
      BY <2>2 DEF RevocationAnswered
    <3> QED BY <1>2, <3>1 DEF ChargeInv, RevocationsAreStored
  <2> QED BY <2>1, <2>2
<1>8. LateOnesAreRefused'
  <2> SUFFICES ASSUME NEW d \in tooLate'
               PROVE  /\ permitStage'[d] \in {"sent", "settled"}
                      /\ issued'[ofPermit'[d]] # None /\ issued'[ofPermit'[d]].revoked
                      /\ \A n \in Permits : ~UseOf(d, n)'
    BY DEF LateOnesAreRefused
  <2>0. d \in PermitCalls
    BY DEF CallTypes
  <2>1. CASE d = c
    <3>1. permitStage'[c] \in {"sent", "settled"}
      BY <2>1 DEF CallTypes
    <3>2. ~Usable(m)
      BY <2>1 DEF Usable
    <3> QED BY <1>2, <1>3, <2>1, <3>1, <3>2
  <2>2. CASE d # c
    <3>1. d \in tooLate
      BY <2>0, <2>2
    <3>2. ofPermit[d] \in Permits
      BY <2>0, <3>1 DEF ChargeInv, LateOnesAreRefused, CallsAreKnown
    <3> QED BY <1>2, <1>3, <2>0, <2>2, <3>1, <3>2 DEF ChargeInv, LateOnesAreRefused
  <2> QED BY <2>1, <2>2
<1> QED BY <1>4, <1>5, <1>6, <1>7, <1>8 DEF ChargeInv

\* The call handed to the backend is the one that was begun, or checked.
LEMMA HandOverStep ==
    ASSUME ChargeInv,
           NEW c \in PermitCalls, NEW kind \in PermitKinds, NEW m \in Permits, NEW sync \in BOOLEAN,
           HandOver(c, kind, m, sync),
           permitStage[c] \in {"none", "checked"},
           permitStage[c] # "none" => permitKind[c] = kind /\ ofPermit[c] = m,
           permitKind' = [permitKind EXCEPT ![c] = kind], ofPermit' = [ofPermit EXCEPT ![c] = m]
    PROVE  ChargeInv'
<1>1. /\ permitKind'[c] = kind /\ ofPermit'[c] = m
      /\ \A d \in PermitCalls \ {c} : permitKind'[d] = permitKind[d] /\ ofPermit'[d] = ofPermit[d]
      /\ permitKind' \in [PermitCalls -> PermitKinds \union {None}]
      /\ ofPermit' \in [PermitCalls -> Permits \union {None}]
  BY DEF ChargeInv, CallTypes
<1>2. c \notin tooLate
  BY DEF ChargeInv, LateOnesAreRefused
<1>3. /\ tooLate' \subseteq PermitCalls
      /\ \A d \in PermitCalls \ {c} : d \in tooLate' <=> d \in tooLate
      /\ c \in tooLate' => issued[m] # None /\ issued[m].revoked
  BY <1>2 DEF HandOver, ChargeInv, CallTypes, RevocationsAreStored
<1>4. PICK stage \in {"sent", "settled"}, told \in {"none", "ok", "threw"} :
         /\ permitStage' = [permitStage EXCEPT ![c] = stage]
         /\ permitAnswer' = [permitAnswer EXCEPT ![c] = told]
         /\ told = "ok" => stage = "settled" /\ Accepts(kind, m) /\ ApplyTo(kind, m)
         /\ told # "ok" => UNCHANGED issued
  BY DEF HandOver, Settle
<1>5. /\ permitStage'[c] = stage /\ permitAnswer'[c] = told
      /\ \A d \in PermitCalls \ {c} : permitStage'[d] = permitStage[d] /\ permitAnswer'[d] = permitAnswer[d]
      /\ permitStage' \in [PermitCalls -> {"none", "getting", "checked", "sent", "settled"}]
      /\ permitAnswer' \in [PermitCalls -> {"none", "ok", "threw", "invalid"}]
  BY <1>4 DEF ChargeInv, CallTypes
<1>6. issued' \in [Permits -> Permit \union {None}]
  BY <1>4, AppliedKeeps DEF ChargeInv, CallTypes
<1>7. CallTypes'
  BY <1>1, <1>3, <1>5, <1>6 DEF CallTypes
<1> QED BY <1>1, <1>3, <1>4, <1>5, <1>7, ChargeStep

\* A check of validity changes nothing but what its caller knows.
LEMMA BeginChargeStep ==
    ASSUME ChargeInv, NEW c \in PermitCalls, NEW m \in Permits, NEW sync \in BOOLEAN,
           BeginCharge(c, m, sync)
    PROVE  ChargeInv'
<1>1. /\ permitStage[c] = "none"
      /\ permitKind' = [permitKind EXCEPT ![c] = "charge"]
      /\ ofPermit' = [ofPermit EXCEPT ![c] = m]
      /\ UNCHANGED <<issued, tooLate>>
  BY DEF BeginCharge, BeginCall, storeVars
<1>2. PICK stage \in {"getting", "checked", "settled"}, told \in {"none", "threw", "invalid", permitAnswer[c]} :
         /\ permitStage' = [permitStage EXCEPT ![c] = stage]
         /\ permitAnswer' = [permitAnswer EXCEPT ![c] = told]
  <2>1. permitAnswer = [permitAnswer EXCEPT ![c] = permitAnswer[c]]
    BY DEF ChargeInv, CallTypes
  <2>2. \/ \E told \in {"threw", "invalid"} : Settle(c, told)
        \/ \E stage \in {"getting", "checked"} :
              permitStage' = [permitStage EXCEPT ![c] = stage] /\ UNCHANGED permitAnswer
    BY DEF BeginCharge
  <2> QED BY <2>1, <2>2 DEF Settle
<1>3. permitAnswer[c] \in {"none", "threw", "invalid"} /\ c \notin tooLate
  BY <1>1 DEF ChargeInv, CallTypes, CallsAreKnown, LateOnesAreRefused
<1>4. /\ permitKind'[c] = "charge" /\ ofPermit'[c] = m
      /\ permitStage'[c] = stage /\ permitAnswer'[c] = told /\ told # "ok"
      /\ \A d \in PermitCalls \ {c} :
            /\ permitKind'[d] = permitKind[d] /\ ofPermit'[d] = ofPermit[d]
            /\ permitStage'[d] = permitStage[d] /\ permitAnswer'[d] = permitAnswer[d]
  BY <1>1, <1>2, <1>3 DEF ChargeInv, CallTypes
<1>5. CallTypes'
  BY <1>1, <1>2, <1>3 DEF ChargeInv, CallTypes, PermitKinds
<1> QED BY <1>1, <1>3, <1>4, <1>5, ChargeStep DEF PermitKinds

\* Nor does the answer of the backend's get.
LEMMA GotPermitStep ==
    ASSUME ChargeInv, NEW c \in PermitCalls, GotPermit(c)
    PROVE  ChargeInv'
<1>1. permitStage[c] = "getting" /\ UNCHANGED <<issued, tooLate, permitKind, ofPermit>>
  BY DEF GotPermit, storeVars
<1>2. permitKind[c] = "charge" /\ ofPermit[c] \in Permits /\ permitAnswer[c] # "ok" /\ c \notin tooLate
  BY <1>1 DEF ChargeInv, CallsAreKnown, LateOnesAreRefused
<1>3. PICK stage \in {"checked", "settled"}, told \in {"threw", "invalid", permitAnswer[c]} :
         /\ permitStage' = [permitStage EXCEPT ![c] = stage]
         /\ permitAnswer' = [permitAnswer EXCEPT ![c] = told]
  <2>1. permitAnswer = [permitAnswer EXCEPT ![c] = permitAnswer[c]]
    BY DEF ChargeInv, CallTypes
  <2> QED BY <2>1 DEF GotPermit, Settle
<1>4. /\ permitStage'[c] = stage /\ permitAnswer'[c] = told /\ told # "ok"
      /\ \A d \in PermitCalls \ {c} : permitStage'[d] = permitStage[d] /\ permitAnswer'[d] = permitAnswer[d]
      /\ CallTypes'
  BY <1>1, <1>2, <1>3 DEF ChargeInv, CallTypes
<1> QED BY <1>1, <1>2, <1>4, ChargeStep DEF PermitKinds

\* The backend settles what was handed to it.
LEMMA BackendSettlesStep ==
    ASSUME ChargeInv, NEW c \in PermitCalls, NEW fails \in BOOLEAN, BackendSettles(c, fails)
    PROVE  ChargeInv'
<1> DEFINE kind == permitKind[c]
<1> DEFINE m == ofPermit[c]
<1>1. permitStage[c] = "sent" /\ UNCHANGED <<tooLate, permitKind, ofPermit>>
  BY DEF BackendSettles
<1>2. kind \in PermitKinds /\ m \in Permits
  BY <1>1 DEF ChargeInv, CallsAreKnown
<1>3. PICK told \in {"ok", "threw"} :
         /\ permitStage' = [permitStage EXCEPT ![c] = "settled"]
         /\ permitAnswer' = [permitAnswer EXCEPT ![c] = told]
         /\ told = "ok" => Accepts(kind, m) /\ ~fails
         /\ \/ Accepts(kind, m) /\ ApplyTo(kind, m)
            \/ ~(Accepts(kind, m) /\ ~fails) /\ UNCHANGED issued
  BY DEF BackendSettles, Settle
<1>4. /\ permitStage'[c] = "settled" /\ permitAnswer'[c] = told
      /\ \A d \in PermitCalls \ {c} : permitStage'[d] = permitStage[d] /\ permitAnswer'[d] = permitAnswer[d]
  BY <1>3 DEF ChargeInv, CallTypes
<1>5. issued' \in [Permits -> Permit \union {None}]
  BY <1>2, <1>3, AppliedKeeps DEF ChargeInv, CallTypes
<1>6. CallTypes'
  BY <1>1, <1>3, <1>5 DEF ChargeInv, CallTypes
<1>7. c \in tooLate => issued[m] # None /\ issued[m].revoked
  BY DEF ChargeInv, LateOnesAreRefused
<1> QED BY <1>1, <1>2, <1>3, <1>4, <1>6, <1>7, ChargeStep

\* Every step keeps what the callers were told true.
LEMMA ChargeInvStep ==
    ChargeInv /\ [PermitsNext]_permitVars => ChargeInv'
<1> SUFFICES ASSUME ChargeInv, [PermitsNext]_permitVars PROVE ChargeInv'
  OBVIOUS
<1>1. ASSUME NEW c \in PermitCalls, NEW m \in Permits, NEW sync \in BOOLEAN,
             NEW kind \in {"create", "use", "revoke"}, CallBackend(c, kind, m, sync)
      PROVE  ChargeInv'
  BY <1>1, HandOverStep DEF CallBackend, BeginCall, PermitKinds
<1>2. ASSUME NEW c \in PermitCalls, UseChecked(c)
      PROVE  ChargeInv'
  <2>1. permitKind[c] = "charge" /\ ofPermit[c] \in Permits
    BY <1>2 DEF UseChecked, ChargeInv, CallsAreKnown
  <2>2. /\ permitKind' = [permitKind EXCEPT ![c] = "charge"]
        /\ ofPermit' = [ofPermit EXCEPT ![c] = ofPermit[c]]
    BY <1>2, <2>1 DEF UseChecked, ChargeInv, CallTypes
  <2>3. permitStage[c] = "checked" /\ (c \in inSync) \in BOOLEAN
    BY <1>2 DEF UseChecked
  <2>4. HandOver(c, "charge", ofPermit[c], c \in inSync)
    BY <1>2 DEF UseChecked
  <2>5. ASSUME NEW sync \in BOOLEAN, HandOver(c, "charge", ofPermit[c], sync)
        PROVE  ChargeInv'
    BY <2>1, <2>2, <2>3, <2>5, HandOverStep DEF PermitKinds
  <2> QED BY <2>3, <2>4, <2>5
<1>3. CASE UNCHANGED <<issued, permitCallVars>>
  BY <1>3 DEF permitCallVars, ChargeInv, CallTypes, CallsAreKnown, UsesAreSpent, UseOf,
     RevocationsAreStored, RevocationAnswered, OneUse, LateOnesAreRefused
<1>4. CASE \E m \in Permits : ExpirePermit(m) \/ Deny(m)
  BY <1>3, <1>4 DEF ExpirePermit, Deny, storeVars
<1>5. CASE UNCHANGED permitVars
  BY <1>3, <1>5 DEF permitVars, storeVars
<1> QED
  BY <1>1, <1>2, <1>4, <1>5, BeginChargeStep, GotPermitStep, BackendSettlesStep DEF PermitsNext

-----------------------------------------------------------------------------
(* MandateGenerator: the deny list.                                        *)

\* Of each id that the list has, those that came after it are counted.
NewerAreCounted ==
    \A i, j \in 1..Len(denyOrder) : i < j => denyOrder[j] \in since[denyOrder[i]]

\* The list and its queue have the same ids, each once and never more than maxSize.
DenyInv ==
    /\ denyOrder \in Seq(Permits)
    /\ Len(denyOrder) <= MaxDenied
    /\ \A i, j \in 1..Len(denyOrder) : denyOrder[i] = denyOrder[j] => i = j
    /\ revoked = {denyOrder[i] : i \in 1..Len(denyOrder)}
    /\ \A m \in revoked : since[m] # None
    /\ DOMAIN since = Permits
    /\ \A m \in Permits : since[m] # None => IsFiniteSet(since[m]) /\ since[m] \subseteq Permits
    /\ NewerAreCounted
    /\ DeniedUntilPushedOut

\* A set that has n different elements has no fewer.
LEMMA DistinctCount ==
    ASSUME NEW n \in Nat, NEW T, IsFiniteSet(T), NEW f,
           \A i \in 1..n : f[i] \in T,
           \A i, j \in 1..n : f[i] = f[j] => i = j
    PROVE  n <= Cardinality(T)
<1> DEFINE image == {f[i] : i \in 1..n}
<1> DEFINE g == [i \in 1..n |-> f[i]]
<1>1. g \in Bijection(1..n, image)
  <2>1. g \in [1..n -> image]
    OBVIOUS
  <2>2. IsInjective(g)
    BY DEF IsInjective
  <2>3. \A t \in image : \E i \in 1..n : g[i] = t
    OBVIOUS
  <2> QED BY <2>1, <2>2, <2>3 DEF Bijection, Injection, Surjection
<1>2. ExistsBijection(1..n, image)
  BY <1>1 DEF ExistsBijection
<1>3. IsFiniteSet(1..n) /\ Cardinality(1..n) = n
  BY FS_Interval
<1>4. Cardinality(image) = n
  BY <1>2, <1>3, FS_Bijection
<1>5. image \in SUBSET T
  OBVIOUS
<1> HIDE DEF image
<1> QED BY <1>4, <1>5, FS_Subset

\* The oldest id leaves when as many as the list may have came after it.
LEMMA DenyStep ==
    ASSUME DenyInv, NEW m \in Permits, Deny(m)
    PROVE  DenyInv'
<1> USE PermitsAssumption
<1> DEFINE order == Append(denyOrder, m)
<1> DEFINE extra == IF Len(order) > MaxDenied THEN Len(order) - MaxDenied ELSE 0
<1> DEFINE evicted == {order[i] : i \in 1..extra}
<1> DEFINE n == Len(order)
<1>1. /\ m \notin revoked
      /\ denyOrder' = SubSeq(order, extra + 1, n)
      /\ revoked' = (revoked \union {m}) \ evicted
      /\ since' = [p \in Permits |-> IF p = m THEN {} ELSE IF since[p] = None THEN None ELSE since[p] \union {m}]
  BY DEF Deny, KnownDenied
<1>2. /\ order \in Seq(Permits) /\ n = Len(denyOrder) + 1 /\ order[n] = m /\ n \in Nat
      /\ \A i \in 1..Len(denyOrder) : order[i] = denyOrder[i]
      /\ Len(denyOrder) \in Nat /\ Len(denyOrder) <= MaxDenied
      /\ \A i \in 1..n : order[i] \in Permits
  BY AppendProperties DEF DenyInv
<1> HIDE DEF order
<1>3. extra = (IF n > MaxDenied THEN 1 ELSE 0) /\ n - extra \in 0..MaxDenied
  BY <1>2
<1>4. \A i, j \in 1..n : order[i] = order[j] => i = j
  <2>1. \A i \in 1..Len(denyOrder) : order[i] # m
    BY <1>1, <1>2 DEF DenyInv
  <2> SUFFICES ASSUME NEW i \in 1..n, NEW j \in 1..n, order[i] = order[j]
               PROVE  i = j
    OBVIOUS
  <2>2. CASE i \in 1..Len(denyOrder) /\ j \in 1..Len(denyOrder)
    BY <1>2, <2>2 DEF DenyInv
  <2>3. CASE i = n \/ j = n
    BY <1>2, <2>1, <2>3
  <2> QED BY <1>2, <2>2, <2>3
<1>5. revoked \union {m} = {order[i] : i \in 1..n}
  <2>1. revoked = {order[i] : i \in 1..Len(denyOrder)}
    BY <1>2 DEF DenyInv
  <2>2. 1..n = (1..Len(denyOrder)) \union {n}
    BY <1>2
  <2> QED BY <1>2, <2>1, <2>2
<1>6. \A i, j \in 1..n : i < j => order[j] \in since'[order[i]]
  <2> SUFFICES ASSUME NEW i \in 1..n, NEW j \in 1..n, i < j
               PROVE  order[j] \in since'[order[i]]
    OBVIOUS
  <2>1. i \in 1..Len(denyOrder) /\ order[i] = denyOrder[i] /\ order[i] \in Permits /\ order[i] # m
    BY <1>1, <1>2 DEF DenyInv
  <2>2. since[order[i]] # None
    BY <1>2, <2>1 DEF DenyInv
  <2>3. since'[order[i]] = since[order[i]] \union {m}
    BY <1>1, <2>1, <2>2
  <2>4. CASE j = n
    BY <1>2, <2>3, <2>4
  <2>5. CASE j \in 1..Len(denyOrder)
    BY <1>2, <2>1, <2>3, <2>5 DEF DenyInv, NewerAreCounted
  <2> QED BY <1>2, <2>4, <2>5
<1>7. /\ denyOrder' \in Seq(Permits)
      /\ Len(denyOrder') = n - extra
      /\ \A i \in 1..(n - extra) : denyOrder'[i] = order[i + extra]
  <2>1. extra + 1 \in Int /\ n \in Int /\ \A i \in (extra + 1)..n : order[i] \in Permits
    BY <1>2, <1>3
  <2>4. extra \in {0, 1} /\ n \in Nat /\ extra <= n
    BY <1>2, <1>3
  <2> HIDE DEF extra
  <2>2. /\ SubSeq(order, extra + 1, n) \in Seq(Permits)
        /\ Len(SubSeq(order, extra + 1, n)) = IF extra + 1 <= n THEN n - (extra + 1) + 1 ELSE 0
        /\ \A i \in 1..(n - (extra + 1) + 1) : SubSeq(order, extra + 1, n)[i] = order[(extra + 1) + i - 1]
    BY <2>1, SubSeqProperties
  <2> HIDE DEF n
  <2>3. /\ \A i \in 1..(n - extra) : (extra + 1) + i - 1 = i + extra
        /\ n - (extra + 1) + 1 = n - extra
        /\ (IF extra + 1 <= n THEN n - (extra + 1) + 1 ELSE 0) = n - extra
    BY <2>4
  <2> QED BY <1>1, <2>2, <2>3
<1>b. evicted = {order[i] : i \in 1..extra} /\ revoked' = (revoked \union {m}) \ evicted
  BY <1>1
<1> HIDE DEF extra, evicted, n
<1>8. revoked' = {order[i] : i \in (extra + 1)..n}
  <2>1. ASSUME NEW i \in 1..n, order[i] \notin evicted
        PROVE  i \in (extra + 1)..n
    BY <1>2, <1>3, <1>b, <2>1
  <2>2. ASSUME NEW i \in (extra + 1)..n
        PROVE  i \in 1..n /\ order[i] \notin evicted
    <3>1. i \in 1..n /\ 1..extra \subseteq 1..n /\ i \notin 1..extra
      BY <1>2, <1>3, <2>2
    <3> QED BY <1>4, <1>b, <3>1
  <2> QED BY <1>5, <1>b, <2>1, <2>2
<1>9. revoked' = {denyOrder'[i] : i \in 1..Len(denyOrder')}
  <2>1. ASSUME NEW i \in (extra + 1)..n
        PROVE  \E j \in 1..(n - extra) : denyOrder'[j] = order[i]
    <3>1. i - extra \in 1..(n - extra) /\ (i - extra) + extra = i
      BY <1>2, <1>3, <2>1
    <3> QED BY <1>7, <3>1
  <2>2. ASSUME NEW j \in 1..(n - extra)
        PROVE  j + extra \in (extra + 1)..n /\ denyOrder'[j] = order[j + extra]
    BY <1>2, <1>3, <1>7, <2>2
  <2>3. Len(denyOrder') = n - extra
    BY <1>7
  <2>4. ASSUME NEW p
        PROVE  p \in revoked' <=> p \in {denyOrder'[i] : i \in 1..Len(denyOrder')}
    BY <1>8, <2>1, <2>2, <2>3
  <2> QED BY <2>4
<1>10. \A i, j \in 1..Len(denyOrder') : denyOrder'[i] = denyOrder'[j] => i = j
  <2> SUFFICES ASSUME NEW i \in 1..(n - extra), NEW j \in 1..(n - extra), denyOrder'[i] = denyOrder'[j]
               PROVE  i = j
    BY <1>7
  <2>1. i + extra \in 1..n /\ j + extra \in 1..n /\ (i + extra = j + extra => i = j)
    BY <1>2, <1>3
  <2> QED BY <1>4, <1>7, <2>1
<1>11. NewerAreCounted'
  <2> SUFFICES ASSUME NEW i \in 1..(n - extra), NEW j \in 1..(n - extra), i < j
               PROVE  denyOrder'[j] \in since'[denyOrder'[i]]
    BY <1>7 DEF NewerAreCounted
  <2>1. i + extra \in 1..n /\ j + extra \in 1..n /\ i + extra < j + extra
    BY <1>2, <1>3
  <2> QED BY <1>6, <1>7, <2>1
<1>12. /\ \A p \in Permits : since'[p] # None => IsFiniteSet(since'[p]) /\ since'[p] \subseteq Permits
       /\ DOMAIN since' = Permits
  <2>1. \A p \in Permits : since[p] # None => IsFiniteSet(since[p] \union {m})
    BY FS_AddElement DEF DenyInv
  <2>2. IsFiniteSet({})
    BY FS_EmptySet
  <2>3. DOMAIN since' = Permits
    BY <1>1
  <2>4. ASSUME NEW p \in Permits, since'[p] # None
        PROVE  IsFiniteSet(since'[p]) /\ since'[p] \subseteq Permits
    <3>1. CASE p = m
      BY <1>1, <2>2, <3>1
    <3>2. CASE p # m
      <4>1. since[p] # None /\ since'[p] = since[p] \union {m}
        BY <1>1, <2>4, <3>2
      <4> QED BY <2>1, <4>1 DEF DenyInv
    <3> QED BY <3>1, <3>2
  <2> QED BY <2>3, <2>4
<1>13. \A p \in revoked' : since'[p] # None
  <2> SUFFICES ASSUME NEW p \in revoked' PROVE since'[p] # None
    OBVIOUS
  <2>1. p \in Permits /\ p \in revoked \union {m}
    BY <1>2, <1>5, <1>b
  <2>2. p # m => since[p] # None /\ since[p] \union {m} \subseteq Permits
    BY <2>1 DEF DenyInv
  <2> QED BY <1>1, <2>1, <2>2, PermitAssumption
<1>14. DeniedUntilPushedOut'
  <2> SUFFICES ASSUME NEW p \in Permits, since'[p] # None, Cardinality(since'[p]) < MaxDenied,
                      p \notin revoked'
               PROVE  FALSE
    BY DEF DeniedUntilPushedOut
  <2>0. IsFiniteSet(since'[p])
    BY <1>12
  <2>1. CASE p \in revoked \union {m}
    <3>1. extra = 1 /\ n = MaxDenied + 1
      <4>1. p \in evicted
        BY <1>b, <2>1
      <4>2. extra # 0
        BY <1>b, <4>1
      <4> QED BY <1>2, <1>3, <4>2
    <3>2. p = order[1]
      BY <1>b, <2>1, <3>1
    <3> DEFINE later == [i \in 1..MaxDenied |-> order[i + 1]]
    <3>3. \A i, j \in 1..MaxDenied : later[i] = later[j] => i = j
      <4>1. \A i \in 1..MaxDenied : i + 1 \in 1..n /\ later[i] = order[i + 1]
        BY <3>1
      <4> HIDE DEF later
      <4> QED BY <1>4, <4>1
    <3>4. \A i \in 1..MaxDenied : later[i] \in since'[p]
      <4>1. \A i \in 1..MaxDenied : 1 \in 1..n /\ i + 1 \in 1..n /\ 1 < i + 1
        BY <3>1
      <4> QED BY <1>6, <3>2, <4>1
    <3> HIDE DEF later
    <3>5. MaxDenied <= Cardinality(since'[p])
      BY <2>0, <3>3, <3>4, DistinctCount
    <3> QED BY <2>0, <3>5, FS_CardinalityType
  <2>2. CASE p \notin revoked \union {m}
    <3>1. since[p] # None /\ since'[p] = since[p] \union {m}
      BY <1>1, <2>2
    <3>2. IsFiniteSet(since[p])
      BY <3>1 DEF DenyInv
    <3>3. Cardinality(since[p]) \in Nat
      BY <3>2, FS_CardinalityType
    <3>4. Cardinality(since[p]) <= Cardinality(since'[p])
      <4>1. Cardinality(since[p] \union {m}) =
               IF m \in since[p] THEN Cardinality(since[p]) ELSE Cardinality(since[p]) + 1
        BY <3>2, FS_AddElement, Zenon
      <4> QED BY <3>1, <3>3, <4>1
    <3>5. Cardinality(since[p]) < MaxDenied
      BY <2>0, <3>3, <3>4, FS_CardinalityType
    <3> QED BY <2>2, <3>1, <3>5 DEF DenyInv, DeniedUntilPushedOut
  <2> QED BY <2>1, <2>2
<1> QED
  BY <1>3, <1>7, <1>9, <1>10, <1>11, <1>12, <1>13, <1>14 DEF DenyInv

\* ChargeInv and DenyInv hold in every state.
LEMMA PermitsInvariant == PermitsSpec => [](ChargeInv /\ DenyInv)
<1>1. PermitsInit => ChargeInv /\ DenyInv
  <2> SUFFICES ASSUME PermitsInit PROVE ChargeInv /\ DenyInv
    OBVIOUS
  <2> USE PermitAssumption, PermitsAssumption DEF PermitsInit
  <2>1. Unspent \in Permit
    BY DEF Unspent, Permit
  <2>2. CallTypes
    BY <2>1 DEF CallTypes
  <2>3. /\ CallsAreKnown
        /\ \A c \in PermitCalls, m \in Permits : ~UseOf(c, m)
        /\ \A m \in Permits : ~RevocationAnswered(m)
    BY DEF CallsAreKnown, UseOf, RevocationAnswered
  <2>4. UsesAreSpent /\ RevocationsAreStored /\ OneUse /\ LateOnesAreRefused
    BY <2>3 DEF UsesAreSpent, RevocationsAreStored, OneUse, LateOnesAreRefused
  <2>5. denyOrder \in Seq(Permits) /\ Len(denyOrder) = 0 /\ 1..Len(denyOrder) = {}
    OBVIOUS
  <2>6. (\A m \in Permits : since[m] = None) /\ DOMAIN since = Permits
    OBVIOUS
  <2>7. revoked = {denyOrder[i] : i \in 1..Len(denyOrder)}
    BY <2>5
  <2>8. DenyInv
    BY <2>5, <2>6, <2>7 DEF DenyInv, NewerAreCounted, DeniedUntilPushedOut
  <2> QED BY <2>2, <2>3, <2>4, <2>8 DEF ChargeInv
<1>2. DenyInv /\ [PermitsNext]_permitVars => DenyInv'
  <2>1. DenyInv /\ UNCHANGED denyVars => DenyInv'
    BY DEF denyVars, DenyInv, NewerAreCounted, DeniedUntilPushedOut
  <2>2. [PermitsNext]_permitVars => UNCHANGED denyVars \/ \E m \in Permits : Deny(m)
    BY DEF PermitsNext, permitVars, CallBackend, BeginCharge, GotPermit, UseChecked, BackendSettles, ExpirePermit
  <2> QED BY <2>1, <2>2, DenyStep
<1> QED BY <1>1, <1>2, ChargeInvStep, PTL DEF PermitsSpec

\* A mandate is good for one use and for none after its revocation was answered,
\* whatever fails and however the calls overlap; and the deny list has an id until it
\* has taken in maxSize others.
THEOREM PermitsAreKept == PermitsSpec => []PermitsHold
<1>1. ChargeInv /\ DenyInv => PermitsHold
  <2> SUFFICES ASSUME ChargeInv, DenyInv, NEW m \in Permits
               PROVE  /\ Cardinality({c \in PermitCalls : UseOf(c, m)}) <= 1
                      /\ \A c \in tooLate : ~UseOf(c, m)
    BY DEF PermitsHold, ChargedOnce, DenyInv
  <2> DEFINE uses == {c \in PermitCalls : UseOf(c, m)}
  <2>1. uses = {} \/ \E c \in uses : uses = {c}
    BY DEF ChargeInv, OneUse
  <2>2. Cardinality(uses) \in {0, 1}
    <3> HIDE DEF uses
    <3> QED BY <2>1, FS_EmptySet, FS_Singleton
  <2> QED BY <2>2 DEF ChargeInv, LateOnesAreRefused
<1> QED BY <1>1, PermitsInvariant, PTL

-----------------------------------------------------------------------------
(* WebhookSecrets.                                                         *)

\* A registration under way is a link, which knows the config it stores, or a pass,
\* which knows the one it marks.
RegistrationsAreKnown ==
    \A r \in Registrations :
       /\ regStage[r] \notin {"none", "done"} => regKind[r] \in {"link", "pass"}
       /\ regStage[r] \notin {"none", "done"} /\ regKind[r] = "link" => known[r] # None
       /\ regStage[r] = "storing" => known[r] # None
       /\ regStage[r] = "picking" => regKind[r] = "pass"

\* A secret that is handed out is the one deliveries are verified with; one is
\* generated when there is none; and a pass signs a hook before it marks a project.
HandsOutResolved(r) ==
    /\ secret[r] # None => secret[r] = Resolved(channel)
    /\ regStage[r] \in {"generating", "saving"} => Resolved(channel) = None
    /\ regStage[r] = "saving" => base[r].operator = None
    /\ regStage[r] \in {"picking", "hooking", "storing"} /\ regKind[r] = "pass" => secret[r] # None
    /\ regStage[r] = "storing" /\ regKind[r] = "pass" => hook[known[r].repo] = Resolved(channel)

MarkedAreSigned ==
    \A p \in LinkedProjects :
       links[p] # None /\ links[p].marked =>
          Resolved(channel) # None /\ hook[links[p].repo] = Resolved(channel)

SecretsInv ==
    /\ SecretsTypeOK /\ RegistrationsAreKnown
    /\ ~unsure =>
          /\ channel.operator = None
          /\ \A r, s \in Generating : r = s
          /\ \A r \in Registrations : HandsOutResolved(r)
          /\ MarkedAreSigned

\* What a registration leaves as it was.
OthersGoOn(r) ==
    \A s \in Registrations \ {r} :
       /\ regKind'[s] = regKind[s] /\ regStage'[s] = regStage[s] /\ project'[s] = project[s]
       /\ known'[s] = known[s] /\ base'[s] = base[s] /\ secret'[s] = secret[s]

\* A step of a registration that touches neither the channel nor the hooks nor the
\* links.
LEMMA RegistrationStep ==
    ASSUME SecretsInv, SecretsTypeOK', NEW r \in Registrations, OthersGoOn(r),
           UNCHANGED <<inEnv, channel, links, hook>>, unsure => unsure',
           regStage'[r] \notin {"none", "done"} => regKind'[r] \in {"link", "pass"},
           regStage'[r] \notin {"none", "done"} /\ regKind'[r] = "link" => known'[r] # None,
           regStage'[r] = "storing" => known'[r] # None,
           regStage'[r] = "picking" => regKind'[r] = "pass",
           ~unsure' => HandsOutResolved(r)',
           ~unsure' /\ regStage'[r] \in {"generating", "saving"} => r \in Generating \/ Generating = {}
    PROVE  SecretsInv'
<1>1. RegistrationsAreKnown'
  BY DEF OthersGoOn, SecretsInv, RegistrationsAreKnown
<1>2. ASSUME ~unsure'
      PROVE  /\ channel'.operator = None
             /\ \A q, s \in Generating' : q = s
             /\ \A s \in Registrations : HandsOutResolved(s)'
             /\ MarkedAreSigned'
  <2>1. channel.operator = None /\ MarkedAreSigned /\ \A q, s \in Generating : q = s
    BY <1>2 DEF SecretsInv
  <2>2. \A s \in Registrations \ {r} : HandsOutResolved(s)'
    BY <1>2 DEF SecretsInv, HandsOutResolved, OthersGoOn, Resolved
  <2>3. \A q, s \in Generating' : q = s
    BY <1>2, <2>1 DEF Generating, OthersGoOn
  <2>4. MarkedAreSigned'
    BY <2>1 DEF MarkedAreSigned, Resolved
  <2> QED BY <1>2, <2>1, <2>2, <2>3, <2>4
<1> QED BY <1>1, <1>2 DEF SecretsInv

\* A registration that is over.
LEMMA OverStep ==
    ASSUME SecretsInv, NEW r \in Registrations, Over(r), UNCHANGED <<inEnv, channel, links, hook, unsure>>
    PROVE  SecretsInv'
<1>1. SecretsTypeOK'
  BY DEF Over, GoesOn, SecretsInv, SecretsTypeOK, RegStages, NoConfig, ChannelConfigs
<1>2. OthersGoOn(r)
  BY DEF Over, GoesOn, OthersGoOn, SecretsInv, SecretsTypeOK
<1>3. regStage'[r] = "done" /\ secret'[r] = None
  BY DEF Over, GoesOn, SecretsInv, SecretsTypeOK
<1>4. HandsOutResolved(r)'
  BY <1>3 DEF HandsOutResolved
<1> QED BY <1>1, <1>2, <1>3, <1>4, RegistrationStep

\* What provisionWebhookSecret returns.
LEMMA ProvisionedStep ==
    ASSUME SecretsInv, NEW r \in Registrations, NEW value \in Secrets \union {None}, Provisioned(r, value),
           regStage[r] \notin {"none", "done"},
           UNCHANGED <<inEnv, channel, links, hook>>,
           unsure => unsure', unsure' \in BOOLEAN,
           ~unsure' /\ value # None => value = Resolved(channel)
    PROVE  SecretsInv'
<1>1. CASE regKind[r] = "pass" /\ value = None
  <2>1. Over(r)
    BY <1>1 DEF Provisioned
  <2>2. SecretsTypeOK'
    BY <2>1 DEF Over, GoesOn, SecretsInv, SecretsTypeOK, RegStages, NoConfig, ChannelConfigs
  <2>3. OthersGoOn(r)
    BY <2>1 DEF Over, GoesOn, OthersGoOn, SecretsInv, SecretsTypeOK
  <2>4. regStage'[r] = "done" /\ secret'[r] = None
    BY <2>1 DEF Over, GoesOn, SecretsInv, SecretsTypeOK
  <2>5. HandsOutResolved(r)'
    BY <2>4 DEF HandsOutResolved
  <2> QED BY <2>2, <2>3, <2>4, <2>5, RegistrationStep
<1>2. CASE ~(regKind[r] = "pass" /\ value = None)
  <2>1. /\ secret' = [secret EXCEPT ![r] = value]
        /\ GoesOn(r, IF regKind[r] = "link" THEN "hooking" ELSE "picking")
        /\ base' = [base EXCEPT ![r] = NoConfig]
        /\ UNCHANGED <<regKind, project, left, known>>
    BY <1>2 DEF Provisioned
  <2>2. SecretsTypeOK'
    BY <2>1 DEF GoesOn, SecretsInv, SecretsTypeOK, RegStages, NoConfig, ChannelConfigs
  <2>3. /\ OthersGoOn(r)
        /\ secret'[r] = value
        /\ regStage'[r] = IF regKind[r] = "link" THEN "hooking" ELSE "picking"
        /\ regKind'[r] = regKind[r] /\ known'[r] = known[r]
    BY <2>1 DEF GoesOn, OthersGoOn, SecretsInv, SecretsTypeOK
  <2>4. regKind[r] \in {"link", "pass"} /\ (regKind[r] = "link" => known[r] # None)
    BY DEF SecretsInv, RegistrationsAreKnown
  <2>5. Resolved(channel)' = Resolved(channel)
    BY DEF Resolved
  <2>6. ~unsure' => HandsOutResolved(r)'
    BY <1>2, <2>3, <2>4, <2>5 DEF HandsOutResolved
  <2> QED BY <2>2, <2>3, <2>4, <2>6, RegistrationStep
<1> QED BY <1>1, <1>2

\* A secret, or none, is resolved.
LEMMA ResolvedType ==
    ASSUME NEW config \in ChannelConfigs
    PROVE  Resolved(config) \in Secrets \union {None}
<1>1. config.operator \in {"operator", None} /\ config.generated \in Registrations \union {None}
  BY DEF ChannelConfigs
<1> QED BY <1>1 DEF Resolved, Secrets

\* A link stores the project's config without the mark.
LEMMA LinkProjectStep ==
    ASSUME SecretsInv, NEW r \in Registrations, NEW p \in LinkedProjects, NEW repo \in Repos,
           LinkProject(r, p, repo)
    PROVE  SecretsInv'
<1> DEFINE config == [repo |-> repo, marked |-> FALSE]
<1>1. config \in Links /\ config # None
  <2>1. config \in Links
    BY DEF Links
  <2> HIDE DEF config
  <2> QED BY <2>1, LinksAssumption
<1>2. /\ regStage[r] = "none" /\ regStage' = [regStage EXCEPT ![r] = "resolving"]
      /\ regKind' = [regKind EXCEPT ![r] = "link"]
      /\ project' = [project EXCEPT ![r] = p]
      /\ known' = [known EXCEPT ![r] = config]
      /\ links' = [links EXCEPT ![p] = known'[r]]
      /\ UNCHANGED <<inEnv, channel, hook, left, base, secret, unsure>>
  BY DEF LinkProject, Registers, GoesOn
<1> HIDE DEF config
<1>3. known'[r] = config
  BY <1>2 DEF SecretsInv, SecretsTypeOK
<1>4. SecretsTypeOK'
  BY <1>1, <1>2, <1>3 DEF SecretsInv, SecretsTypeOK, RegStages
<1>5. /\ \A s \in Registrations \ {r} :
            /\ regKind'[s] = regKind[s] /\ regStage'[s] = regStage[s] /\ known'[s] = known[s]
      /\ regStage'[r] = "resolving" /\ regKind'[r] = "link"
      /\ \A q \in LinkedProjects : links'[q] = IF q = p THEN config ELSE links[q]
  BY <1>2, <1>3 DEF SecretsInv, SecretsTypeOK
<1>6. RegistrationsAreKnown'
  BY <1>1, <1>3, <1>5 DEF SecretsInv, RegistrationsAreKnown
<1>7. ~unsure => \A s \in Registrations : HandsOutResolved(s)'
  BY <1>2, <1>5 DEF SecretsInv, HandsOutResolved, Resolved
<1>8. ~unsure => MarkedAreSigned'
  BY <1>2, <1>5 DEF SecretsInv, MarkedAreSigned, Resolved, config
<1>9. Generating' = Generating
  BY <1>2, <1>5 DEF Generating
<1> QED BY <1>2, <1>4, <1>6, <1>7, <1>8, <1>9 DEF SecretsInv

\* Unlinking takes a mark away, the operator's config ends what is claimed.
LEMMA UnlinkStep ==
    ASSUME SecretsInv, NEW p \in LinkedProjects, Unlink(p)
    PROVE  SecretsInv'
<1>1. SecretsTypeOK'
  BY DEF Unlink, regVars, SecretsInv, SecretsTypeOK
<1>2. RegistrationsAreKnown' /\ Generating' = Generating
  BY DEF Unlink, regVars, SecretsInv, RegistrationsAreKnown, Generating
<1>3. ~unsure => \A s \in Registrations : HandsOutResolved(s)'
  BY DEF Unlink, regVars, SecretsInv, HandsOutResolved, Resolved
<1>4. ~unsure => MarkedAreSigned'
  BY DEF Unlink, regVars, SecretsInv, SecretsTypeOK, MarkedAreSigned, Resolved
<1> QED BY <1>1, <1>2, <1>3, <1>4 DEF Unlink, SecretsInv

\* The operator configures the channel.
LEMMA ConfigureStep ==
    ASSUME SecretsInv, NEW own \in {"operator", None}, Configure(own)
    PROVE  SecretsInv'
BY DEF Configure, regVars, SecretsInv, SecretsTypeOK, ChannelConfigs, RegistrationsAreKnown

\* A pass over the links starts.
LEMMA StartPassStep ==
    ASSUME SecretsInv, NEW r \in Registrations, StartPass(r)
    PROVE  SecretsInv'
<1>1. /\ regStage[r] = "none" /\ regStage' = [regStage EXCEPT ![r] = "resolving"]
      /\ regKind' = [regKind EXCEPT ![r] = "pass"]
      /\ left' = [left EXCEPT ![r] = LinkedProjects]
      /\ UNCHANGED <<inEnv, channel, links, hook, project, known, base, secret, unsure>>
  BY DEF StartPass, Registers, GoesOn
<1>2. SecretsTypeOK'
  BY <1>1 DEF SecretsInv, SecretsTypeOK, RegStages
<1>3. OthersGoOn(r) /\ regStage'[r] = "resolving" /\ regKind'[r] = "pass"
  BY <1>1 DEF OthersGoOn, SecretsInv, SecretsTypeOK
<1>4. ~unsure => HandsOutResolved(r)'
  BY <1>1, <1>3 DEF SecretsInv, HandsOutResolved, Resolved
<1> QED BY <1>1, <1>2, <1>3, <1>4, RegistrationStep

\* Whoever finds another secret than the channel's, or none beside another that did,
\* makes the two ends unsure.
LEMMA ResolveStep ==
    ASSUME SecretsInv, NEW r \in Registrations, Resolve(r)
    PROVE  SecretsInv'
<1>1. PICK config \in {channel, NoConfig} :
         /\ IF Resolved(config) # None
               THEN Provisioned(r, Resolved(config))
               ELSE GoesOn(r, "generating") /\ UNCHANGED <<regKind, project, left, known, base, secret>>
         /\ unsure' = (\/ unsure
                       \/ Resolved(config) # Resolved(channel)
                       \/ Resolved(config) = None /\ Generating # {})
  BY DEF Resolve
<1>2. regStage[r] = "resolving" /\ UNCHANGED <<inEnv, channel, links, hook>>
  BY DEF Resolve
<1>3. config \in ChannelConfigs
  <2>1. channel \in ChannelConfigs
    BY DEF SecretsInv, SecretsTypeOK
  <2>2. NoConfig \in ChannelConfigs
    BY DEF ChannelConfigs, NoConfig
  <2> QED BY <2>1, <2>2
<1>4. Resolved(config) \in Secrets \union {None} /\ unsure' \in BOOLEAN /\ (unsure => unsure')
  BY <1>1, <1>3, ResolvedType DEF SecretsInv, SecretsTypeOK
<1>5. CASE Resolved(config) # None
  BY <1>1, <1>2, <1>4, <1>5, ProvisionedStep
<1>6. CASE Resolved(config) = None
  <2>1. regStage' = [regStage EXCEPT ![r] = "generating"] /\ UNCHANGED <<regKind, project, left, known, base, secret>>
    BY <1>1, <1>6 DEF GoesOn
  <2>2. SecretsTypeOK'
    BY <1>2, <1>4, <2>1 DEF SecretsInv, SecretsTypeOK, RegStages
  <2>3. OthersGoOn(r) /\ regStage'[r] = "generating"
    BY <2>1 DEF OthersGoOn, SecretsInv, SecretsTypeOK
  <2>4. ~unsure' => HandsOutResolved(r)' /\ Generating = {}
    BY <1>1, <1>2, <1>6, <2>1, <2>3 DEF SecretsInv, HandsOutResolved, Resolved
  <2>5. regKind'[r] \in {"link", "pass"} /\ (regKind'[r] = "link" => known'[r] # None)
    BY <1>2, <2>1 DEF SecretsInv, RegistrationsAreKnown
  <2> QED BY <1>2, <1>4, <2>2, <2>3, <2>4, <2>5, RegistrationStep
<1> QED BY <1>5, <1>6

\* A registration that is to generate a secret reads the channel it will save it to.
LEMMA ReadAgainStep ==
    ASSUME SecretsInv, NEW r \in Registrations, ReadAgain(r)
    PROVE  SecretsInv'
<1>1. regStage[r] = "generating" /\ UNCHANGED <<inEnv, channel, links, hook, unsure>>
  BY DEF ReadAgain
<1>2. CASE Provisioned(r, None)
  BY <1>1, <1>2, ProvisionedStep DEF SecretsInv, SecretsTypeOK
<1>3. CASE /\ GoesOn(r, "saving")
           /\ base' = [base EXCEPT ![r] = channel]
           /\ UNCHANGED <<regKind, project, left, known, secret>>
  <2>1. SecretsTypeOK'
    BY <1>1, <1>3 DEF GoesOn, SecretsInv, SecretsTypeOK, RegStages
  <2>2. OthersGoOn(r) /\ regStage'[r] = "saving" /\ base'[r] = channel
    BY <1>3 DEF GoesOn, OthersGoOn, SecretsInv, SecretsTypeOK
  <2>3. r \in Generating
    BY <1>1 DEF Generating
  <2>4. ~unsure => HandsOutResolved(r)'
    BY <1>1, <1>3, <2>2 DEF SecretsInv, HandsOutResolved, Resolved
  <2>5. regKind'[r] \in {"link", "pass"} /\ (regKind'[r] = "link" => known'[r] # None)
    BY <1>1, <1>3 DEF SecretsInv, RegistrationsAreKnown
  <2> QED BY <1>1, <2>1, <2>2, <2>3, <2>4, <2>5, RegistrationStep
<1> QED BY <1>2, <1>3 DEF ReadAgain

\* The one secret that is generated becomes the channel's; or it cannot be stored, and
\* none is handed out.
LEMMA SaveStep ==
    ASSUME SecretsInv, NEW r \in Registrations, Save(r)
    PROVE  SecretsInv'
<1>1. regStage[r] = "saving" /\ UNCHANGED <<inEnv, links, hook, unsure>>
  BY DEF Save
<1>2. CASE UNCHANGED channel /\ Provisioned(r, None)
  BY <1>1, <1>2, ProvisionedStep DEF SecretsInv, SecretsTypeOK
<1>3. CASE channel' = [base[r] EXCEPT !.generated = r] /\ Provisioned(r, r)
  <2>1. /\ secret' = [secret EXCEPT ![r] = r]
        /\ regStage' = [regStage EXCEPT ![r] = IF regKind[r] = "link" THEN "hooking" ELSE "picking"]
        /\ base' = [base EXCEPT ![r] = NoConfig]
        /\ UNCHANGED <<regKind, project, left, known>>
    BY <1>3, RegistrationsAssumption DEF Provisioned, GoesOn
  <2>2. channel' \in ChannelConfigs /\ channel'.generated = r /\ channel'.operator = base[r].operator
    <3>1. base[r] \in ChannelConfigs
      BY DEF SecretsInv, SecretsTypeOK
    <3> QED BY <1>3, <3>1 DEF ChannelConfigs
  <2>3. r \in Secrets /\ NoConfig \in ChannelConfigs
    BY DEF Secrets, NoConfig, ChannelConfigs
  <2>4. SecretsTypeOK'
    BY <1>1, <2>1, <2>2, <2>3 DEF SecretsInv, SecretsTypeOK, RegStages
  <2>5. /\ OthersGoOn(r)
        /\ secret'[r] = r /\ regKind'[r] = regKind[r] /\ known'[r] = known[r]
        /\ regStage'[r] = IF regKind[r] = "link" THEN "hooking" ELSE "picking"
    BY <2>1 DEF OthersGoOn, SecretsInv, SecretsTypeOK
  <2>6. RegistrationsAreKnown'
    BY <1>1, <2>5 DEF SecretsInv, RegistrationsAreKnown, OthersGoOn
  <2>7. ASSUME ~unsure
        PROVE  /\ channel'.operator = None
               /\ \A q, s \in Generating' : q = s
               /\ \A s \in Registrations : HandsOutResolved(s)'
               /\ MarkedAreSigned'
    <3>1. /\ Resolved(channel) = None /\ base[r].operator = None
          /\ \A s \in Registrations : HandsOutResolved(s) /\ (s \in Generating => s = r)
          /\ r \in Generating /\ channel.operator = None
      BY <1>1, <2>7 DEF SecretsInv, HandsOutResolved, Generating
    <3>2. Resolved(channel)' = r
      BY <1>1, <2>2, <3>1, RegistrationsAssumption DEF Resolved
    <3>3. Generating' = {}
      BY <1>1, <2>5, <3>1 DEF Generating, OthersGoOn
    <3>4. HandsOutResolved(r)'
      BY <2>5, <3>2, RegistrationsAssumption DEF HandsOutResolved
    <3>5. ASSUME NEW s \in Registrations, s # r
          PROVE  HandsOutResolved(s)'
      <4>1. secret[s] = None /\ s \notin Generating
        BY <3>1, <3>5 DEF HandsOutResolved
      <4>2. ~(regStage[s] \in {"picking", "hooking", "storing"} /\ regKind[s] = "pass")
        BY <3>1, <4>1 DEF HandsOutResolved
      <4>4. regStage'[s] = regStage[s] /\ secret'[s] = None /\ regKind'[s] = regKind[s]
        BY <2>5, <3>5, <4>1 DEF OthersGoOn
      <4> QED BY <4>1, <4>2, <4>4 DEF HandsOutResolved, Generating
    <3>6. MarkedAreSigned'
      BY <1>1, <2>7, <3>1 DEF SecretsInv, MarkedAreSigned
    <3> QED BY <2>2, <3>1, <3>3, <3>4, <3>5, <3>6
  <2> QED BY <1>1, <2>4, <2>6, <2>7 DEF SecretsInv
<1> QED BY <1>2, <1>3 DEF Save, Unsaved

\* A pass takes up its next project.
LEMMA PickStep ==
    ASSUME SecretsInv, NEW r \in Registrations, Pick(r)
    PROVE  SecretsInv'
<1>1. regStage[r] = "picking" /\ UNCHANGED <<inEnv, channel, links, hook, unsure>>
  BY DEF Pick
<1>2. CASE left[r] = {}
  BY <1>1, <1>2, OverStep DEF Pick
<1>3. CASE left[r] # {}
  <2>1. PICK p \in left[r] :
           /\ left' = [left EXCEPT ![r] = @ \ {p}]
           /\ \/ UNCHANGED <<regStage, project, known>>
              \/ /\ GoesOn(r, "hooking")
                 /\ project' = [project EXCEPT ![r] = p]
                 /\ known' = [known EXCEPT ![r] = links[p]]
           /\ UNCHANGED <<regKind, base, secret>>
    BY <1>3 DEF Pick
  <2>2. p \in LinkedProjects
    BY <2>1 DEF SecretsInv, SecretsTypeOK
  <2>3. SecretsTypeOK'
    <3>1. CASE UNCHANGED <<regStage, project, known>>
      BY <1>1, <2>1, <3>1 DEF SecretsInv, SecretsTypeOK
    <3>2. CASE /\ GoesOn(r, "hooking")
               /\ project' = [project EXCEPT ![r] = p]
               /\ known' = [known EXCEPT ![r] = links[p]]
      BY <1>1, <2>1, <2>2, <3>2 DEF GoesOn, SecretsInv, SecretsTypeOK, RegStages
    <3> QED BY <2>1, <3>1, <3>2
  <2>4. OthersGoOn(r) /\ regStage'[r] \in {"picking", "hooking"} /\ UNCHANGED <<regKind, secret, base>>
    BY <1>1, <2>1 DEF GoesOn, OthersGoOn, SecretsInv, SecretsTypeOK
  <2>5. ~unsure => HandsOutResolved(r)'
    BY <1>1, <2>4 DEF SecretsInv, RegistrationsAreKnown, HandsOutResolved, Resolved
  <2>6. regKind[r] = "pass"
    BY <1>1 DEF SecretsInv, RegistrationsAreKnown
  <2> QED BY <1>1, <2>3, <2>4, <2>5, <2>6, RegistrationStep
<1> QED BY <1>2, <1>3

\* GitHub is given the secret that deliveries are verified with, or keeps the one it has.
LEMMA HookStep ==
    ASSUME SecretsInv, NEW r \in Registrations, Hook(r)
    PROVE  SecretsInv'
<1> DEFINE signed == IF secret[r] # None THEN secret[r]
                     ELSE IF hook[RepoOf(r)] = "no hook" THEN "unsigned" ELSE hook[RepoOf(r)]
<1>1. PICK answers \in BOOLEAN :
         /\ hook' = Signed(r) \/ (~answers /\ UNCHANGED hook)
         /\ regStage' = [regStage EXCEPT ![r] = AfterHook(r, answers)]
  BY DEF Hook, GoesOn
<1>2. /\ regStage[r] = "hooking"
      /\ UNCHANGED <<inEnv, channel, links, regKind, project, left, known, base, secret, unsure>>
  BY DEF Hook
<1>3. hook' = [hook EXCEPT ![RepoOf(r)] = signed] \/ (~answers /\ UNCHANGED hook)
  BY <1>1 DEF Signed
<1>4. hook' \in [Repos -> Secrets \union {"no hook", "unsigned"}]
  <2>1. RepoOf(r) \in Repos => signed \in Secrets \union {"no hook", "unsigned"}
    BY DEF SecretsInv, SecretsTypeOK
  <2>2. hook \in [Repos -> Secrets \union {"no hook", "unsigned"}]
    BY DEF SecretsInv, SecretsTypeOK
  <2> HIDE DEF signed
  <2> QED BY <1>3, <2>1, <2>2
<1>5. AfterHook(r, answers) \in {"storing", "picking"}
  BY DEF AfterHook
<1>6. SecretsTypeOK'
  BY <1>1, <1>2, <1>4, <1>5 DEF SecretsInv, SecretsTypeOK, RegStages
<1>7. /\ regStage'[r] = AfterHook(r, answers)
      /\ \A s \in Registrations \ {r} : regStage'[s] = regStage[s]
  BY <1>1 DEF SecretsInv, SecretsTypeOK
<1>8. RegistrationsAreKnown'
  BY <1>2, <1>7 DEF SecretsInv, RegistrationsAreKnown, AfterHook
<1>9. ASSUME ~unsure
      PROVE  /\ \A q, s \in Generating' : q = s
             /\ \A s \in Registrations : HandsOutResolved(s)'
             /\ MarkedAreSigned'
  <2>1. Resolved(channel)' = Resolved(channel)
    BY <1>2 DEF Resolved
  <2>2. Generating' \subseteq Generating
    BY <1>5, <1>7 DEF Generating
  <2>3. Resolved(channel) # None => Resolved(channel) # "no hook"
    BY RegistrationsAssumption, <1>9 DEF SecretsInv, SecretsTypeOK, ChannelConfigs, Resolved
  <2>4. secret[r] # None => secret[r] = Resolved(channel)
    BY <1>9 DEF SecretsInv, HandsOutResolved
  <2>5. \A q \in Repos : Resolved(channel) # None /\ hook[q] = Resolved(channel) => hook'[q] = Resolved(channel)
    <3>1. \A q \in Repos : \/ hook'[q] = hook[q]
                           \/ q = RepoOf(r) /\ hook'[q] = signed
      BY <1>3 DEF SecretsInv, SecretsTypeOK
    <3> QED BY <2>3, <2>4, <3>1
  <2>6. MarkedAreSigned'
    <3> SUFFICES ASSUME NEW p \in LinkedProjects, links[p] # None, links[p].marked
                 PROVE  Resolved(channel) # None /\ hook'[links[p].repo] = Resolved(channel)
      BY <1>2, <2>1 DEF MarkedAreSigned
    <3>1. links[p].repo \in Repos
      BY DEF SecretsInv, SecretsTypeOK, Links
    <3> QED BY <1>9, <2>5, <3>1 DEF SecretsInv, MarkedAreSigned
  <2>7. ASSUME NEW s \in Registrations \ {r} PROVE HandsOutResolved(s)'
    <3>1. HandsOutResolved(s)
      BY <1>9 DEF SecretsInv
    <3>2. regStage[s] = "storing" => known[s] # None /\ known[s].repo \in Repos
      BY DEF SecretsInv, SecretsTypeOK, RegistrationsAreKnown, Links
    <3> QED BY <1>2, <1>7, <2>1, <2>5, <3>1, <3>2 DEF HandsOutResolved
  <2>8. HandsOutResolved(r)'
    <3>1. HandsOutResolved(r)
      BY <1>9 DEF SecretsInv
    <3>2. CASE regStage'[r] = "storing" /\ regKind[r] = "pass"
      <4>1. answers /\ known[r] # None
        BY <1>7, <3>2 DEF AfterHook
      <4>2. RepoOf(r) = known[r].repo /\ RepoOf(r) \in Repos
        BY <4>1 DEF RepoOf, SecretsInv, SecretsTypeOK, Links
      <4>3. secret[r] # None /\ secret[r] = Resolved(channel)
        BY <1>2, <3>1, <3>2 DEF HandsOutResolved
      <4>4. hook'[RepoOf(r)] = secret[r]
        BY <1>3, <4>1, <4>2, <4>3 DEF SecretsInv, SecretsTypeOK
      <4> QED BY <1>2, <1>7, <2>1, <3>1, <3>2, <4>2, <4>3, <4>4 DEF HandsOutResolved
    <3>3. CASE ~(regStage'[r] = "storing" /\ regKind[r] = "pass")
      BY <1>2, <1>5, <1>7, <2>1, <3>1, <3>3 DEF HandsOutResolved
    <3> QED BY <3>2, <3>3
  <2> QED BY <1>9, <2>2, <2>6, <2>7, <2>8 DEF SecretsInv
<1> QED BY <1>2, <1>6, <1>8, <1>9 DEF SecretsInv

\* A pass marks what it signed.
LEMMA StoreStep ==
    ASSUME SecretsInv, NEW r \in Registrations, Store(r)
    PROVE  SecretsInv'
<1> DEFINE config == [known[r] EXCEPT !.marked = regKind[r] = "pass"]
<1>1. /\ regStage[r] = "storing" /\ UNCHANGED <<inEnv, channel, hook, unsure>>
      /\ links' = [links EXCEPT ![project[r]] = config] \/ UNCHANGED links
  BY DEF Store
<1>2. known[r] \in Links
  BY <1>1 DEF SecretsInv, SecretsTypeOK, RegistrationsAreKnown
<1>3. config \in Links /\ config.repo = known[r].repo /\ config.marked = (regKind[r] = "pass")
  BY <1>2 DEF Links
<1> HIDE DEF config
<1>4. links' \in [LinkedProjects -> Links \union {None}]
  BY <1>1, <1>3 DEF SecretsInv, SecretsTypeOK
<1>5. \A p \in LinkedProjects : links'[p] = links[p] \/ links'[p] = config
  BY <1>1 DEF SecretsInv, SecretsTypeOK
<1>6. ~unsure => MarkedAreSigned'
  <2> SUFFICES ASSUME ~unsure, NEW p \in LinkedProjects, links'[p] # None, links'[p].marked
               PROVE  Resolved(channel) # None /\ hook[links'[p].repo] = Resolved(channel)
    BY <1>1 DEF MarkedAreSigned, Resolved
  <2>1. CASE links'[p] = links[p]
    BY <2>1 DEF SecretsInv, MarkedAreSigned
  <2>2. CASE links'[p] = config
    <3>1. regKind[r] = "pass" /\ HandsOutResolved(r)
      BY <1>3, <2>2 DEF SecretsInv
    <3> QED BY <1>1, <1>3, <2>2, <3>1 DEF HandsOutResolved
  <2> QED BY <1>5, <2>1, <2>2
<1>7. CASE regKind[r] = "link"
  <2>1. Over(r)
    BY <1>7 DEF Store
  <2>2. SecretsTypeOK'
    BY <1>1, <1>4, <2>1 DEF Over, GoesOn, SecretsInv, SecretsTypeOK, RegStages, NoConfig, ChannelConfigs
  <2>3. OthersGoOn(r) /\ regStage'[r] = "done" /\ secret'[r] = None
    BY <2>1 DEF Over, GoesOn, OthersGoOn, SecretsInv, SecretsTypeOK
  <2>4. RegistrationsAreKnown'
    BY <2>3 DEF OthersGoOn, SecretsInv, RegistrationsAreKnown
  <2>5. ~unsure => \A s \in Registrations : HandsOutResolved(s)'
    BY <1>1, <2>3 DEF OthersGoOn, SecretsInv, HandsOutResolved, Resolved
  <2>6. Generating' \subseteq Generating
    BY <2>3 DEF OthersGoOn, Generating
  <2> QED BY <1>1, <1>6, <2>2, <2>4, <2>5, <2>6 DEF SecretsInv
<1>8. CASE regKind[r] # "link"
  <2>1. regStage' = [regStage EXCEPT ![r] = "picking"] /\ UNCHANGED <<regKind, project, left, known, base, secret>>
    BY <1>8 DEF Store, GoesOn
  <2>2. SecretsTypeOK'
    BY <1>1, <1>4, <2>1 DEF SecretsInv, SecretsTypeOK, RegStages
  <2>3. regStage'[r] = "picking" /\ \A s \in Registrations \ {r} : regStage'[s] = regStage[s]
    BY <2>1 DEF SecretsInv, SecretsTypeOK
  <2>4. RegistrationsAreKnown'
    BY <1>1, <1>8, <2>1, <2>3 DEF SecretsInv, RegistrationsAreKnown
  <2>5. ~unsure => \A s \in Registrations : HandsOutResolved(s)'
    BY <1>1, <2>1, <2>3 DEF SecretsInv, HandsOutResolved, Resolved
  <2>6. Generating' \subseteq Generating
    BY <2>3 DEF Generating
  <2> QED BY <1>1, <1>6, <2>2, <2>4, <2>5, <2>6 DEF SecretsInv
<1> QED BY <1>7, <1>8

\* SecretsInv holds in every state.
LEMMA SecretsInvariant == SecretsSpec => []SecretsInv
<1>1. SecretsInit => SecretsInv
  <2> SUFFICES ASSUME SecretsInit PROVE SecretsInv
    OBVIOUS
  <2> USE RegistrationsAssumption, LinksAssumption DEF SecretsInit
  <2>1. SecretsTypeOK
    BY DEF SecretsTypeOK, NoConfig, ChannelConfigs, RegStages, Links
  <2>2. RegistrationsAreKnown /\ Generating = {}
    BY DEF RegistrationsAreKnown, Generating
  <2>3. channel.operator = None /\ \A r \in Registrations : HandsOutResolved(r)
    BY DEF NoConfig, HandsOutResolved
  <2>4. MarkedAreSigned
    BY DEF MarkedAreSigned
  <2> QED BY <2>1, <2>2, <2>3, <2>4 DEF SecretsInv
<1>2. SecretsInv /\ [SecretsNext]_secretVars => SecretsInv'
  <2> SUFFICES ASSUME SecretsInv, [SecretsNext]_secretVars PROVE SecretsInv'
    OBVIOUS
  <2>1. CASE UNCHANGED secretVars
    BY <2>1 DEF secretVars, regVars, SecretsInv, SecretsTypeOK, RegistrationsAreKnown, Generating,
       HandsOutResolved, MarkedAreSigned, Resolved
  <2>2. ASSUME NEW r \in Registrations, GivesUp(r) PROVE SecretsInv'
    BY <2>2, OverStep DEF GivesUp
  <2> QED
    BY <2>1, <2>2, LinkProjectStep, StartPassStep, ResolveStep, ReadAgainStep, SaveStep, PickStep,
       HookStep, StoreStep, UnlinkStep, ConfigureStep DEF SecretsNext
<1> QED BY <1>1, <1>2, PTL DEF SecretsSpec

\* GitHub signs the deliveries of a marked project with the secret they are verified
\* with, whatever fails, overlaps or ends early, while nothing made the two unsure.
THEOREM MarkedDeliveriesVerify == SecretsSpec => []MarkedHooksVerify
<1>1. SecretsInv => MarkedHooksVerify
  BY DEF SecretsInv, MarkedAreSigned, MarkedHooksVerify
<1> QED BY <1>1, SecretsInvariant, PTL

-----------------------------------------------------------------------------
(* Types.                                                                  *)

\* Every variable of the projects keeps its type: what a transaction locks are rows that
\* there are.
LEMMA ProjectsTypeCorrect == ProjectsSpec => []ProjectsTypeOK
<1>1. ProjectsInit => ProjectsTypeOK
  BY ProjectsAssumption DEF ProjectsInit, ProjectsTypeOK, ReqStages
<1>2. ProjectsTypeOK /\ [ProjectsNext]_projectVars => ProjectsTypeOK'
  <2> SUFFICES ASSUME ProjectsTypeOK, [ProjectsNext]_projectVars PROVE ProjectsTypeOK'
    OBVIOUS
  <2> USE DEF ProjectsTypeOK, To, Of, NoTransaction, ReqStages
  <2>1. ASSUME NEW r \in ProjectRequests, List(r) \/ Reread(r) \/ InsertDefault(r) PROVE ProjectsTypeOK'
    <3>1. CASE List(r)
      BY <3>1 DEF List
    <3>2. CASE Reread(r)
      BY <3>2 DEF Reread
    <3>3. CASE InsertDefault(r)
      BY <3>3, ProjectsAssumption DEF InsertDefault
    <3> QED BY <2>1, <3>1, <3>2, <3>3
  <2>2. ASSUME NEW r \in ProjectRequests, NEW p \in Projects, Patch(r, p) \/ Delete(r, p) PROVE ProjectsTypeOK'
    BY <2>2 DEF Patch, Delete
  <2>3. ASSUME NEW r \in ProjectRequests, NEW p \in Projects, NEW asDefault \in BOOLEAN, Create(r, p, asDefault)
        PROVE  ProjectsTypeOK'
    BY <2>3 DEF Create
  <2>4. ASSUME NEW r \in ProjectRequests, BeginPromotion(r) PROVE ProjectsTypeOK'
    BY <2>4 DEF BeginPromotion
  <2>5. ASSUME NEW r \in ProjectRequests, Clear(r) PROVE ProjectsTypeOK'
    BY <2>5 DEF Clear
  <2>6. ASSUME NEW r \in ProjectRequests, SetDefault(r) PROVE ProjectsTypeOK'
    <3>1. Deciding(target[r]) \subseteq ProjectRequests
      BY DEF Deciding
    <3> QED BY <2>6, <3>1 DEF SetDefault, RolledBack
  <2>7. ASSUME NEW r \in ProjectRequests, Abort(r) PROVE ProjectsTypeOK'
    BY <2>7 DEF Abort, RolledBack
  <2>8. ASSUME NEW r \in ProjectRequests, CountProjects(r) PROVE ProjectsTypeOK'
    BY <2>8 DEF CountProjects
  <2>9. ASSUME NEW r \in ProjectRequests, DeleteRow(r) PROVE ProjectsTypeOK'
    <3>1. \A q \in ProjectRequests : target[r] \notin cleared[q]
      BY <2>9 DEF DeleteRow, Locked
    <3>2. rows' = rows \ {target[r]} /\ UNCHANGED cleared
      BY <2>9 DEF DeleteRow
    <3>3. cleared' \in [ProjectRequests -> SUBSET rows']
      BY <3>1, <3>2
    <3> QED BY <2>9, <3>3 DEF DeleteRow
  <2>10. CASE UNCHANGED projectVars
    BY <2>10 DEF projectVars
  <2> QED BY <2>1, <2>2, <2>3, <2>4, <2>5, <2>6, <2>7, <2>8, <2>9, <2>10 DEF ProjectsNext
<1> QED BY <1>1, <1>2, PTL DEF ProjectsSpec

\* Every variable of the vector memory keeps its type: a term is in no more entries than
\* there are.
LEMMA MemoryTypeCorrect == MemorySpec => []MemoryTypeOK
<1> DEFINE Counted ==
      /\ Len(memories) <= MaxMemories
      /\ df \in [Terms -> Nat] /\ \A t \in Terms : df[t] <= Len(memories)
      /\ sinceLastReindex \in 0..ReindexThreshold
<1>1. MemoryInit => Counted
  BY MemoryAssumption DEF MemoryInit
<1>2. VectorInv /\ Counted /\ [MemoryNext]_vectorVars => Counted'
  <2> SUFFICES ASSUME VectorInv, Counted, [MemoryNext]_vectorVars PROVE Counted'
    OBVIOUS
  <2>1. ASSUME NEW t \in Terms, AddMemory(t) PROVE Counted'
    <3> DEFINE entries == Append(memories, Tfidf(t, idfCache'))
    <3>1. Len(entries) = Len(memories) + 1 /\ DOMAIN entries = 1..(Len(memories) + 1) /\ Len(memories) \in Nat
      BY DEF VectorInv
    <3>2. Len(Reindexed(entries, idfCache')) = Len(entries)
      BY <3>1 DEF Reindexed
    <3>3. Len(memories') = Len(memories) + 1
      BY <2>1, <3>1, <3>2 DEF AddMemory
    <3>4. df' = [df EXCEPT ![t] = @ + 1] /\ Len(memories) < MaxMemories
      BY <2>1 DEF AddMemory
    <3>5. df' \in [Terms -> Nat] /\ \A u \in Terms : df'[u] <= Len(memories')
      BY <3>1, <3>3, <3>4
    <3>6. sinceLastReindex' \in 0..ReindexThreshold
      BY <2>1, MemoryAssumption DEF AddMemory
    <3>7. Len(memories') <= MaxMemories
      BY <3>1, <3>3, <3>4, MemoryAssumption
    <3> QED BY <3>5, <3>6, <3>7
  <2>2. CASE UNCHANGED vectorVars
    BY <2>2 DEF vectorVars
  <2> QED BY <2>1, <2>2 DEF MemoryNext
<1>3. VectorInv /\ Counted => MemoryTypeOK
  <2> SUFFICES ASSUME VectorInv, Counted PROVE MemoryTypeOK
    OBVIOUS
  <2>1. \A i \in DOMAIN memories : memories[i] \in MemoryEntry
    BY DEF VectorInv
  <2>2. Len(memories) \in Nat
    BY DEF VectorInv
  <2>3. df \in [Terms -> 0..MaxMemories]
    BY <2>2, MemoryAssumption
  <2> QED BY <2>1, <2>3 DEF VectorInv, MemoryTypeOK
<1> QED BY <1>1, <1>2, <1>3, VectorInvariant, PTL DEF MemorySpec

\* Every variable of the mandate generator and its deny list keeps its type.
LEMMA PermitsTypeCorrect == PermitsSpec => []PermitsTypeOK
<1> DEFINE Rest ==
      /\ promises \in BOOLEAN /\ expiredOnes \subseteq Permits /\ inSync \subseteq PermitCalls
      /\ since \in [Permits -> (SUBSET Permits) \union {None}]
<1>1. PermitsInit => Rest
  BY DEF PermitsInit
<1>2. Rest /\ [PermitsNext]_permitVars => Rest'
  <2> SUFFICES ASSUME Rest, [PermitsNext]_permitVars PROVE Rest'
    OBVIOUS
  <2>1. ASSUME NEW m \in Permits, Deny(m) PROVE Rest'
    <3>1. since' = [n \in Permits |-> IF n = m THEN {} ELSE IF since[n] = None THEN None ELSE since[n] \union {m}]
      BY <2>1 DEF Deny
    <3>2. \A n \in Permits : since'[n] \in (SUBSET Permits) \union {None}
      BY <3>1
    <3>3. since' \in [Permits -> (SUBSET Permits) \union {None}]
      BY <3>1, <3>2
    <3> QED BY <2>1, <3>3 DEF Deny, storeVars, permitCallVars
  <2>2. ASSUME NEW m \in Permits, ExpirePermit(m) PROVE Rest'
    BY <2>2 DEF ExpirePermit, permitCallVars, denyVars
  <2>3. CASE UNCHANGED permitVars
    BY <2>3 DEF permitVars, storeVars, permitCallVars, denyVars
  <2>4. ASSUME NEW c \in PermitCalls, NEW m \in Permits, NEW sync \in BOOLEAN, NEW kind, CallBackend(c, kind, m, sync)
        PROVE  Rest'
    BY <2>4 DEF CallBackend, BeginCall, denyVars
  <2>5. ASSUME NEW c \in PermitCalls, NEW m \in Permits, NEW sync \in BOOLEAN, BeginCharge(c, m, sync)
        PROVE  Rest'
    BY <2>5 DEF BeginCharge, BeginCall, storeVars, denyVars
  <2>6. ASSUME NEW c \in PermitCalls, GotPermit(c) \/ UseChecked(c) \/ \E fails \in BOOLEAN : BackendSettles(c, fails)
        PROVE  Rest'
    BY <2>6 DEF GotPermit, UseChecked, BackendSettles, storeVars, denyVars
  <2> QED BY <2>1, <2>2, <2>3, <2>4, <2>5, <2>6 DEF PermitsNext
<1>3. ChargeInv /\ DenyInv /\ Rest => PermitsTypeOK
  <2> SUFFICES ASSUME ChargeInv, DenyInv, Rest PROVE PermitsTypeOK
    OBVIOUS
  <2>1. DOMAIN denyOrder = 1..Len(denyOrder) /\ \A i \in DOMAIN denyOrder : denyOrder[i] \in Permits
    BY DEF DenyInv
  <2>2. revoked \subseteq Permits
    BY <2>1 DEF DenyInv
  <2>3. permitKind \in [PermitCalls -> {"create", "use", "charge", "revoke", None}]
    BY DEF ChargeInv, CallTypes, PermitKinds
  <2> QED BY <2>1, <2>2, <2>3 DEF ChargeInv, CallTypes, PermitsTypeOK
<1> QED BY <1>1, <1>2, <1>3, PermitsInvariant, PTL DEF PermitsSpec
=============================================================================
