------------------------------ MODULE PgProjects ------------------------------
(***************************************************************************)
(* An organization's projects in Postgres:                                 *)
(* packages/core/src/server/routes/projects.ts, the project operations of  *)
(* packages/core/src/storage/pg-storage.ts and the unique index of         *)
(* packages/core/drizzle/0002_projects.sql.                                *)
(*                                                                         *)
(* A request awaits one statement after the other; a promotion's updates   *)
(* share a transaction (read committed), which locks the rows it updates.  *)
(***************************************************************************)
EXTENDS Naturals, FiniteSets, Undefined

CONSTANTS
    Projects,       \* project ids, those created later included
    DefaultProject, \* the id derived from the organization's, or the one with slug "default"
    ProjectRequests \* requests to the projects routes

ASSUME ProjectsAssumption == DefaultProject \in Projects /\ None \notin Projects

VARIABLES
    rows,     \* committed: the projects there are
    default,  \* committed: those marked is_default
    cleared,  \* projects an open transaction has unmarked, and locked
    reqStage, \* where each request stands
    target,   \* the project it is about
    seen,     \* whether it saw its project as default; the default it waits for
    seeded,   \* history: the organization has had a default project
    raced     \* history: a project was promoted while its deletion was decided

projectVars == <<rows, default, cleared, reqStage, target, seen, seeded, raced>>

ReqStages == {"none", "listing", "inserting", "rereading", "checkedPatch", "clearing", "setting",
              "checkedDelete", "deleting", "ok", "refused", "notFound", "error"}

ProjectsTypeOK ==
    /\ rows \subseteq Projects
    /\ default \subseteq rows
    /\ cleared \in [ProjectRequests -> SUBSET rows]
    /\ reqStage \in [ProjectRequests -> ReqStages]
    /\ target \in [ProjectRequests -> Projects \union {None}]
    /\ seen \in [ProjectRequests -> Projects \union {None}]
    /\ seeded \in BOOLEAN
    /\ raced \subseteq ProjectRequests

\* A new organization has no project; the migration gave the older ones one.
ProjectsInit ==
    /\ rows \in {{}, {DefaultProject}}
    /\ default = rows
    /\ cleared = [r \in ProjectRequests |-> {}]
    /\ reqStage = [r \in ProjectRequests |-> "none"]
    /\ target = [r \in ProjectRequests |-> None]
    /\ seen = [r \in ProjectRequests |-> None]
    /\ seeded = (rows # {})
    /\ raced = {}

Locked == UNION {cleared[r] : r \in ProjectRequests}

To(r, stage) == reqStage' = [reqStage EXCEPT ![r] = stage]
Of(r, p) == target' = [target EXCEPT ![r] = p]
NoTransaction == UNCHANGED <<cleared, seen, raced>>

-----------------------------------------------------------------------------
(* GET: getOrCreateDefaultProject, then the list.                          *)

List(r) ==
    /\ reqStage[r] = "none"
    /\ To(r, IF default # {} THEN "ok" ELSE "inserting")
    /\ UNCHANGED <<rows, default, target, seeded>> /\ NoTransaction

\* ON CONFLICT DO NOTHING, on the id, the slug and the index of defaults.
InsertDefault(r) ==
    /\ reqStage[r] = "inserting"
    /\ Locked = {}
    /\ To(r, "rereading")
    /\ IF DefaultProject \in rows \/ default # {}
          THEN UNCHANGED <<rows, default, seeded>>
          ELSE /\ rows' = rows \union {DefaultProject}
               /\ default' = {DefaultProject}
               /\ seeded' = TRUE
    /\ UNCHANGED target /\ NoTransaction

Reread(r) ==
    /\ reqStage[r] = "rereading"
    /\ To(r, IF default # {} THEN "ok" ELSE "error")
    /\ UNCHANGED <<rows, default, target, seeded>> /\ NoTransaction

-----------------------------------------------------------------------------
(* POST: createProject.  Slugs that are in use are left out.               *)

Create(r, p, asDefault) ==
    /\ reqStage[r] = "none"
    /\ p \notin rows \union {DefaultProject}
    /\ \A q \in ProjectRequests : target[q] # p
    /\ asDefault => Locked = {}
    /\ Of(r, p)
    /\ IF asDefault /\ default # {}
          THEN To(r, "refused") /\ UNCHANGED <<rows, default, seeded>>
          ELSE /\ To(r, "ok")
               /\ rows' = rows \union {p}
               /\ default' = IF asDefault THEN {p} ELSE default
               /\ seeded' = (seeded \/ asDefault)
    /\ NoTransaction

-----------------------------------------------------------------------------
(* PATCH with is_default: updateProject.                                   *)

\* getProject.  A rename only comes to the same without the promotion.
Patch(r, p) ==
    /\ reqStage[r] = "none"
    /\ Of(r, p)
    /\ To(r, IF p \in rows THEN "checkedPatch" ELSE "notFound")
    /\ seen' = [seen EXCEPT ![r] = IF p \in default THEN p ELSE None]
    /\ UNCHANGED <<rows, default, cleared, seeded, raced>>

\* The transaction starts.  Its first update finds the default project and may
\* have to wait for the row; a project that was seen as default skips it.
BeginPromotion(r) ==
    /\ reqStage[r] = "checkedPatch"
    /\ IF seen[r] # None \/ default = {}
          THEN To(r, "setting") /\ UNCHANGED seen
          ELSE /\ To(r, "clearing")
               /\ \E p \in default : seen' = [seen EXCEPT ![r] = p]
    /\ UNCHANGED <<rows, default, cleared, target, seeded, raced>>

\* The row is free, and unmarked if it still is the default.
Clear(r) ==
    /\ reqStage[r] = "clearing"
    /\ seen[r] \notin Locked
    /\ cleared' = [cleared EXCEPT ![r] = {seen[r]} \intersect default]
    /\ To(r, "setting")
    /\ UNCHANGED <<rows, default, target, seen, seeded, raced>>

\* Deletions of the project that have been decided and not been made.
Deciding(p) == {q \in ProjectRequests : target[q] = p /\ reqStage[q] \in {"checkedDelete", "deleting"}}

\* Mutant: the updates do not share a transaction.
RolledBackHalf(r) == default \ cleared[r]

\* What a transaction that fails leaves of its updates.
RolledBack(r) == default

\* The second update and the commit, or the unique index or the missing row ends
\* the transaction.
SetDefault(r) ==
    /\ reqStage[r] = "setting"
    /\ \A q \in ProjectRequests \ {r} : cleared[q] = {}
    /\ cleared' = [cleared EXCEPT ![r] = {}]
    /\ IF target[r] \in rows /\ default \subseteq cleared[r] \union {target[r]}
          THEN /\ To(r, "ok")
               /\ default' = {target[r]}
               /\ seeded' = TRUE
               /\ raced' = raced \union Deciding(target[r])
          ELSE /\ To(r, IF target[r] \in rows THEN "refused" ELSE "error")
               /\ default' = RolledBack(r)
               /\ UNCHANGED <<seeded, raced>>
    /\ UNCHANGED <<rows, target, seen>>

\* The connection fails, or the process ends.
Abort(r) ==
    /\ reqStage[r] \in {"clearing", "setting"}
    /\ cleared' = [cleared EXCEPT ![r] = {}]
    /\ default' = RolledBack(r)
    /\ To(r, "error")
    /\ UNCHANGED <<rows, target, seen, seeded, raced>>

-----------------------------------------------------------------------------
(* DELETE: two checks and the deletion.                                    *)

Deletable(p) == p \notin default

Delete(r, p) ==
    /\ reqStage[r] = "none"
    /\ Of(r, p)
    /\ To(r, IF p \notin rows THEN "notFound" ELSE IF Deletable(p) THEN "checkedDelete" ELSE "refused")
    /\ UNCHANGED <<rows, default, seeded>> /\ NoTransaction

CountProjects(r) ==
    /\ reqStage[r] = "checkedDelete"
    /\ To(r, IF Cardinality(rows) > 1 THEN "deleting" ELSE "refused")
    /\ UNCHANGED <<rows, default, target, seeded>> /\ NoTransaction

DeleteRow(r) ==
    /\ reqStage[r] = "deleting"
    /\ target[r] \notin Locked
    /\ rows' = rows \ {target[r]}
    /\ default' = default \ {target[r]}
    /\ To(r, "ok")
    /\ UNCHANGED <<target, seeded>> /\ NoTransaction

ProjectsNext ==
    \E r \in ProjectRequests :
       \/ List(r) \/ InsertDefault(r) \/ Reread(r)
       \/ \E p \in Projects : Patch(r, p) \/ Delete(r, p)
       \/ \E p \in Projects, asDefault \in BOOLEAN : Create(r, p, asDefault)
       \/ BeginPromotion(r) \/ Clear(r) \/ SetDefault(r) \/ Abort(r)
       \/ CountProjects(r) \/ DeleteRow(r)

ProjectsSpec == ProjectsInit /\ [][ProjectsNext]_projectVars

-----------------------------------------------------------------------------
(* Properties.                                                             *)

OneDefault == Cardinality(default) = 1

\* An organization that has had a default project has exactly one in every
\* committed state, however creations, promotions, deletions and failures
\* overlap, unless a project was promoted after its deletion was decided.
KeepsOneDefault ==
    /\ Cardinality(default) <= 1
    /\ seeded /\ raced = {} => OneDefault
=============================================================================
