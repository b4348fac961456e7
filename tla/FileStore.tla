------------------------------- MODULE FileStore -------------------------------
(***************************************************************************)
(* One JSON file of the file storage, any of them:                         *)
(* packages/core/src/storage/file-storage.ts.                              *)
(*                                                                         *)
(* Every operation reads the whole file, and a change writes all of it     *)
(* back in place, without a lock or a temporary file.  What does not parse *)
(* counts as empty.  A key's value is the call that gave it.               *)
(***************************************************************************)
EXTENDS Undefined

CONSTANTS
    FileCalls, \* calls of the storage provider, each made once
    FileKeys   \* agents, projects, subscribers, sessions... in the file

ASSUME FileCallsAssumption == None \notin FileCalls /\ FileKeys \intersect FileCalls = {}

VARIABLES
    file,      \* what the file holds
    torn,      \* it is truncated, or written by two calls at once
    callStage, \* where each call stands
    callKind,  \* what it does, and
    callKey,   \* to which key, until it has ended
    data,      \* what it read, and changed
    mixed,     \* calls whose write overlaps another's
    answered,  \* history: each key's value by the last answered change
    crossed,   \* history: calls another one overlaps; keys last changed by one
    spoiled    \* history: a torn file was read or left behind

callVars == <<callStage, callKind, callKey, data>>
fileVars == <<file, torn, callVars, mixed, answered, crossed, spoiled>>

FileContents == [FileKeys -> FileCalls \union {None}]
EmptyFile == [k \in FileKeys |-> None]

\* get: the queries; put: what sets an entry; add: addProject, addSubscriber,
\* createProject; remove: what writes although nothing is there; drop: what does
\* not; append: appendAudit.
CallKinds == {"get", "put", "add", "remove", "drop", "append"}
Ongoing == {"reading", "changed", "writing"}

FileTypeOK ==
    /\ file \in FileContents
    /\ torn \in BOOLEAN
    /\ callStage \in [FileCalls -> {"none", "done", "failed", "unsaved", "lost"} \union Ongoing]
    /\ callKind \in [FileCalls -> CallKinds \union {None}]
    /\ callKey \in [FileCalls -> FileKeys \union {None}]
    /\ data \in [FileCalls -> FileContents]
    /\ mixed \subseteq FileCalls
    /\ answered \in FileContents
    /\ crossed \subseteq FileCalls \union FileKeys
    /\ spoiled \in BOOLEAN

FileInit ==
    /\ file = EmptyFile
    /\ torn = FALSE
    /\ callStage = [c \in FileCalls |-> "none"]
    /\ callKind = [c \in FileCalls |-> None]
    /\ callKey = [c \in FileCalls |-> None]
    /\ data = [c \in FileCalls |-> EmptyFile]
    /\ mixed = {}
    /\ answered = EmptyFile
    /\ crossed = {}
    /\ spoiled = FALSE

-----------------------------------------------------------------------------
In(stages) == {c \in FileCalls : callStage[c] \in stages}

ToStage(c, stage) == callStage' = [callStage EXCEPT ![c] = stage]

\* The ends of calls: nothing of them is used again.
Ends(calls, stage) ==
    /\ callStage' = [c \in FileCalls |-> IF c \in calls THEN stage ELSE callStage[c]]
    /\ callKind' = [c \in FileCalls |-> IF c \in calls THEN None ELSE callKind[c]]
    /\ callKey' = [c \in FileCalls |-> IF c \in calls THEN None ELSE callKey[c]]
    /\ data' = [c \in FileCalls |-> IF c \in calls THEN EmptyFile ELSE data[c]]

Begins(c, kind, k) ==
    /\ callStage[c] = "none"
    /\ ToStage(c, "reading")
    /\ callKind' = [callKind EXCEPT ![c] = kind]
    /\ callKey' = [callKey EXCEPT ![c] = k]
    /\ crossed' = IF In(Ongoing) = {} THEN crossed ELSE crossed \union In(Ongoing) \union {c}
    /\ UNCHANGED <<file, torn, data, mixed, answered, spoiled>>

\* An entry that is there already is not added; one that is not is not dropped.
NothingToDo(c, read) ==
    \/ callKind[c] = "get"
    \/ callKind[c] = "add" /\ read[callKey[c]] # None
    \/ callKind[c] = "drop" /\ read[callKey[c]] = None

Removes(c) == callKind[c] \in {"remove", "drop"}

\* Mutant: the entry is written without the others.
ChangedAlone(c, read) == [EmptyFile EXCEPT ![callKey[c]] = IF Removes(c) THEN None ELSE c]

\* Mutant: what is removed stays in the file, without a value.
ChangedToNull(c, read) == [read EXCEPT ![callKey[c]] = IF Removes(c) THEN "null" ELSE c]

Changed(c, read) == [read EXCEPT ![callKey[c]] = IF Removes(c) THEN None ELSE c]

\* readFile and JSON.parse; what the latter throws is caught.
ReadWhole(c) ==
    /\ callStage[c] = "reading"
    /\ LET read == IF torn THEN EmptyFile ELSE file IN
       IF NothingToDo(c, read)
          THEN Ends({c}, "done") /\ UNCHANGED spoiled
          ELSE /\ ToStage(c, "changed")
               /\ data' = [data EXCEPT ![c] = Changed(c, read)]
               /\ spoiled' = (spoiled \/ torn)
               /\ UNCHANGED <<callKind, callKey>>
    /\ UNCHANGED <<file, torn, mixed, answered, crossed>>

\* writeFile opens the file, which truncates it.
StartWrite(c) ==
    /\ callStage[c] = "changed"
    /\ ToStage(c, "writing")
    /\ torn' = TRUE
    /\ mixed' = IF In({"writing"}) = {} THEN mixed ELSE mixed \union In({"writing"}) \union {c}
    /\ UNCHANGED <<file, callKind, callKey, data, answered, crossed, spoiled>>

\* Two writes at once may leave either content, or the longer one's end behind
\* the shorter one.
EndWrite(c) ==
    /\ callStage[c] = "writing"
    /\ Ends({c}, "done")
    /\ \/ file' = data[c] /\ torn' = FALSE
       \/ c \in mixed /\ UNCHANGED <<file, torn>>
       \/ c \in mixed /\ torn' = TRUE /\ UNCHANGED file
    /\ mixed' = mixed \ {c}
    /\ answered' = [answered EXCEPT ![callKey[c]] = IF Removes(c) THEN None ELSE c]
    /\ crossed' = IF c \in crossed THEN crossed \union {callKey[c]} ELSE crossed \ {callKey[c]}
    /\ spoiled' = (spoiled \/ c \in mixed)

\* mkdir, the opening or the write fails.  appendAudit logs that and answers.
WriteThrows(c) ==
    /\ callStage[c] \in {"changed", "writing"}
    /\ Ends({c}, IF callKind[c] = "append" THEN "unsaved" ELSE "failed")
    /\ mixed' = mixed \ {c}
    /\ spoiled' = (spoiled \/ callStage[c] = "writing")
    /\ UNCHANGED <<file, torn, answered, crossed>>

\* The process ends, with a write done or not.
FileCrash ==
    /\ In(Ongoing) # {}
    /\ Ends(In(Ongoing), "lost")
    /\ \/ \E c \in In({"writing"}) : file' = data[c] /\ torn' = FALSE
       \/ UNCHANGED <<file, torn>>
    /\ mixed' = {}
    /\ spoiled' = (spoiled \/ In({"writing"}) # {})
    /\ UNCHANGED <<answered, crossed>>

FileNext ==
    \/ \E c \in FileCalls :
          \/ \E kind \in CallKinds, k \in FileKeys : Begins(c, kind, k)
          \/ ReadWhole(c) \/ StartWrite(c) \/ EndWrite(c) \/ WriteThrows(c)
    \/ FileCrash

FileSpec == FileInit /\ [][FileNext]_fileVars

-----------------------------------------------------------------------------
(* Properties.                                                             *)

Quiet == In(Ongoing) = {}

\* A change that was answered is lost only when another call overlapped it, or
\* when the file was torn by two writes, or by a crash or a failure within one,
\* and when a change was made to what was read of a file being written.
LostOnlyByOverlap ==
    Quiet /\ ~spoiled => ~torn /\ \A k \in FileKeys \ crossed : file[k] = answered[k]
=============================================================================
