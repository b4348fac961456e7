----------------------------- MODULE MandateFile -----------------------------
(***************************************************************************)
(* The file-backed mandate store:                                          *)
(* packages/core/src/mandate/file-backend.ts.                              *)
(*                                                                         *)
(* put, markUsed and markRevoked check and change an in-memory cache, then *)
(* flush: jobs on a write queue each write the whole cache to a temporary  *)
(* file and rename it over the data file.  The cache is read from the file *)
(* by open(), or by the first calls of a backend built with `new'.         *)
(*                                                                         *)
(* Every await is a step of its own.  A crash loses everything but the     *)
(* file; the process may restart.                                          *)
(***************************************************************************)
EXTENDS Sequences

CONSTANTS
    Mandates,    \* mandate ids
    Calls,       \* invocations of the backend, each made once
    None         \* undefined

VARIABLES
    disk,    \* the mandates in the data file
    cache,   \* the mandates in memory
    loaded,  \* the `loaded' flag
    request, \* what each call asks for
    phase,   \* where the call stands
    readOf,  \* what the readFile of a call returned
    queue,   \* calls whose flush jobs have not settled; the head's runs
    payload, \* what the running job writes, None until it has looked
    renamed, \* the running job's rename is done, its promise not settled
    expired, \* mandates past their expiresAt
    openedFirst \* the backends come from open(), otherwise from `new'

mandateVars == <<disk, cache, loaded, request, phase, readOf, queue, payload,
                 renamed, expired, openedFirst>>

\* The calls that set usedAt and revokedAt stand for these time stamps.
Entries == [usedBy : Calls \union {None}, revokedBy : Calls \union {None}]
Fresh == [usedBy |-> None, revokedBy |-> None]
Stores == [Mandates -> Entries \union {None}]

ASSUME UndefinedAssumption == None \notin Calls \union Entries \union Stores

\* The file is absent exactly while no mandate was ever flushed.
Empty == [m \in Mandates |-> None]

Kinds == {"put", "use", "revoke", "get"}
Requests == [kind : Kinds, id : Mandates]
Pending == {"called", "reading", "read", "flushing"}
Phases == {"none", "ok", "refused", "failed", "lost"} \union Pending

\* A mandate an earlier process left in the file may be there.
Init ==
    /\ disk \in [Mandates -> {None, Fresh}]
    /\ cache = Empty
    /\ loaded = FALSE
    /\ request = [c \in Calls |-> None]
    /\ phase = [c \in Calls |-> "none"]
    /\ readOf = [c \in Calls |-> Empty]
    /\ queue = <<>>
    /\ payload = None
    /\ renamed = FALSE
    /\ expired = {}
    /\ openedFirst \in BOOLEAN

-----------------------------------------------------------------------------
(* Loading.                                                                *)

\* open(): load() has run before anyone has the backend.
Open ==
    /\ openedFirst
    /\ ~loaded
    /\ cache' = disk
    /\ loaded' = TRUE
    /\ UNCHANGED <<disk, request, phase, readOf, queue, payload, renamed, expired>>

\* The call itself, up to its first await: ensureLoaded looks at `loaded', and
\* load() at whether the file is there.
Invoke(c, kind, m) ==
    /\ phase[c] = "none"
    /\ openedFirst => loaded
    /\ request' = [request EXCEPT ![c] = [kind |-> kind, id |-> m]]
    /\ loaded' = (loaded \/ disk = Empty)
    /\ phase' = [phase EXCEPT ![c] = IF loaded' THEN "called" ELSE "reading"]
    /\ UNCHANGED <<disk, cache, readOf, queue, payload, renamed, expired>>

\* readFile reads whichever version of the file is in place.
ReadFile(c) ==
    /\ phase[c] = "reading"
    /\ phase' = [phase EXCEPT ![c] = "read"]
    /\ readOf' = [readOf EXCEPT ![c] = disk]
    /\ UNCHANGED <<disk, cache, loaded, request, queue, payload, renamed, expired>>

ReadFails(c) ==
    /\ phase[c] = "reading"
    /\ phase' = [phase EXCEPT ![c] = "failed"]
    /\ UNCHANGED <<disk, cache, loaded, request, readOf, queue, payload, renamed, expired>>

Merge(old, new) == [m \in Mandates |-> IF new[m] # None THEN new[m] ELSE old[m]]

\* What readFile returned goes into the cache entry by entry, whether or not
\* another load has been there first.
FinishLoad(c) ==
    /\ phase[c] = "read"
    /\ cache' = Merge(cache, readOf[c])
    /\ loaded' = TRUE
    /\ phase' = [phase EXCEPT ![c] = "called"]
    /\ readOf' = [readOf EXCEPT ![c] = Empty]
    /\ UNCHANGED <<disk, request, queue, payload, renamed, expired>>

-----------------------------------------------------------------------------
(* The bodies of put, markUsed, markRevoked, and of the reads.             *)

\* Mutant: markUsed does not look at usedAt.
AllowedAgain(kind, m) ==
    CASE kind = "put" -> cache[m] = None
      [] kind = "use" -> cache[m] # None /\ cache[m].revokedBy = None /\ m \notin expired
      [] kind = "revoke" -> cache[m] # None /\ cache[m].revokedBy = None
      [] kind = "get" -> TRUE

\* The checks that do not throw.
Allowed(kind, m) ==
    CASE kind = "put" -> cache[m] = None
      [] kind = "use" -> /\ cache[m] # None
                         /\ cache[m].usedBy = None
                         /\ cache[m].revokedBy = None
                         /\ m \notin expired
      [] kind = "revoke" -> cache[m] # None /\ cache[m].revokedBy = None
      [] kind = "get" -> TRUE

\* Mutant: the stamp replaces the mandate.
ChangedToStamp(c, kind, entry) ==
    CASE kind = "put" -> Fresh
      [] kind = "use" -> c
      [] kind = "revoke" -> [entry EXCEPT !.revokedBy = c]

\* Mutant: markRevoked clears usedAt.
ChangedForgetsUse(c, kind, entry) ==
    CASE kind = "put" -> Fresh
      [] kind = "use" -> [entry EXCEPT !.usedBy = c]
      [] kind = "revoke" -> [Fresh EXCEPT !.revokedBy = c]

Changed(c, kind, entry) ==
    CASE kind = "put" -> Fresh
      [] kind = "use" -> [entry EXCEPT !.usedBy = c]
      [] kind = "revoke" -> [entry EXCEPT !.revokedBy = c]

\* The body after ensureLoaded: refuse, read, or change the cache and queue a
\* flush.
Run(c) ==
    /\ phase[c] = "called"
    /\ LET kind == request[c].kind
           m == request[c].id
       IN \/ /\ ~Allowed(kind, m)
             /\ phase' = [phase EXCEPT ![c] = "refused"]
             /\ UNCHANGED <<cache, queue>>
          \/ /\ kind = "get"
             /\ phase' = [phase EXCEPT ![c] = "ok"]
             /\ UNCHANGED <<cache, queue>>
          \/ /\ Allowed(kind, m) /\ kind # "get"
             /\ cache' = [cache EXCEPT ![m] = Changed(c, kind, @)]
             /\ phase' = [phase EXCEPT ![c] = "flushing"]
             /\ queue' = Append(queue, c)
    /\ UNCHANGED <<disk, loaded, request, readOf, payload, renamed, expired>>

-----------------------------------------------------------------------------
(* flush.                                                                  *)

\* The job at the head of the queue makes the directory if it must, then
\* serialises the cache as it is by then.
StartWrite ==
    /\ queue # <<>>
    /\ payload = None
    /\ payload' = cache
    /\ UNCHANGED <<disk, cache, loaded, request, phase, readOf, queue, renamed, expired>>

\* The temporary file is complete and takes the data file's place.
Rename ==
    /\ payload # None
    /\ ~renamed
    /\ disk' = payload
    /\ renamed' = TRUE
    /\ UNCHANGED <<cache, loaded, request, phase, readOf, queue, payload, expired>>

\* Mutant: the jobs behind one that ends are never started.
EndJobDropsRest(result) ==
    /\ phase' = [phase EXCEPT ![Head(queue)] = result]
    /\ queue' = <<>>
    /\ payload' = None
    /\ renamed' = FALSE

EndJob(result) ==
    /\ phase' = [phase EXCEPT ![Head(queue)] = result]
    /\ queue' = Tail(queue)
    /\ payload' = None
    /\ renamed' = FALSE

\* Mutant: the call returns once the temporary file is written.
WriteDoneUnrenamed ==
    /\ payload # None
    /\ EndJob("ok")
    /\ UNCHANGED <<disk, cache, loaded, request, readOf, expired>>

\* The rename's promise settles and so does the call's.
WriteDone ==
    /\ renamed
    /\ EndJob("ok")
    /\ UNCHANGED <<disk, cache, loaded, request, readOf, expired>>

\* mkdir, writeFile or rename fails.  The caller gets the error; the cache
\* keeps the change and the queue goes on.
WriteFails ==
    /\ queue # <<>>
    /\ ~renamed
    /\ EndJob("failed")
    /\ UNCHANGED <<disk, cache, loaded, request, readOf, expired>>

-----------------------------------------------------------------------------
(* The world.                                                              *)

Expire(m) ==
    /\ m \notin expired
    /\ expired' = expired \union {m}
    /\ UNCHANGED <<disk, cache, loaded, request, phase, readOf, queue, payload, renamed>>

\* The process ends and a new one starts on the same file.
Crash ==
    /\ loaded \/ \E c \in Calls : phase[c] \in Pending
    /\ cache' = Empty
    /\ loaded' = FALSE
    /\ phase' = [c \in Calls |-> IF phase[c] \in Pending THEN "lost" ELSE phase[c]]
    /\ readOf' = [c \in Calls |-> Empty]
    /\ queue' = <<>>
    /\ payload' = None
    /\ renamed' = FALSE
    /\ UNCHANGED <<disk, request, expired>>

-----------------------------------------------------------------------------

Next ==
    /\ \/ Open
       \/ \E c \in Calls, kind \in Kinds, m \in Mandates : Invoke(c, kind, m)
       \/ \E c \in Calls : ReadFile(c) \/ ReadFails(c) \/ FinishLoad(c) \/ Run(c)
       \/ StartWrite \/ Rename \/ WriteDone \/ WriteFails
       \/ \E m \in Mandates : Expire(m)
       \/ Crash
    /\ UNCHANGED openedFirst

Spec == Init /\ [][Next]_mandateVars

\* File operations end and continuations run.
Fairness ==
    /\ \A c \in Calls : WF_mandateVars((ReadFile(c) \/ FinishLoad(c) \/ Run(c)) /\ UNCHANGED openedFirst)
    /\ WF_mandateVars((StartWrite \/ Rename \/ WriteDone) /\ UNCHANGED openedFirst)

FairSpec == Spec /\ Fairness

-----------------------------------------------------------------------------
(* Properties.  Concurrent first calls of a backend built with `new' each    *)
(* load the file, and a later load undoes a change an earlier one has made,  *)
(* so what depends on the cache is claimed for backends from open() only.    *)

\* Every variable has its type.
TypeOK ==
    /\ disk \in Stores
    /\ cache \in Stores
    /\ loaded \in BOOLEAN
    /\ request \in [Calls -> Requests \union {None}]
    /\ phase \in [Calls -> Phases]
    /\ readOf \in [Calls -> Stores]
    /\ queue \in Seq(Calls)
    /\ payload \in Stores \union {None}
    /\ renamed \in BOOLEAN
    /\ expired \in SUBSET Mandates
    /\ openedFirst \in BOOLEAN

Asks(c, kind, m) == request[c] = [kind |-> kind, id |-> m]

\* A call that returned is on disk and stays there: through later flushes of
\* other calls, failed writes, crashes and restarts.
AcknowledgedIsDurable ==
    openedFirst =>
       \A c \in Calls, m \in Mandates : phase[c] = "ok" =>
          /\ Asks(c, "put", m) => disk[m] # None
          /\ Asks(c, "use", m) => disk[m] # None /\ disk[m].usedBy = c
          /\ Asks(c, "revoke", m) => disk[m] # None /\ disk[m].revokedBy = c

\* markUsed is a compare-and-swap (types.ts): no two calls succeed in using one
\* mandate, not even on either side of a crash.
UsedOnce ==
    openedFirst =>
       \A c, d \in Calls, m \in Mandates :
          Asks(c, "use", m) /\ Asks(d, "use", m) /\ phase[c] = "ok" /\ phase[d] = "ok" => c = d

Answer == [c \in Calls |-> IF phase[c] \in Pending THEN "pending" ELSE phase[c]]

\* A backend built with `new' is mapped to a ledger nobody calls.
Ledger == INSTANCE MandateLedger WITH
             ledger <- IF openedFirst THEN disk ELSE Empty,
             asked <- IF openedFirst THEN request ELSE [c \in Calls |-> None],
             answer <- IF openedFirst THEN Answer ELSE [c \in Calls |-> "none"]

\* The data file of a backend from open() behaves like the ledger the backend
\* promises.
ImplementsLedger == Ledger!LedgerSpec

\* A call is answered, also behind writes that fail, unless the process ends.
CallIsAnswered == \A c \in Calls : phase[c] # "none" ~> phase[c] \notin Pending
=============================================================================
