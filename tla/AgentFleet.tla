------------------------------- MODULE AgentFleet -------------------------------
(***************************************************************************)
(* Which agents run, and for which projects:                               *)
(* packages/agents/supervisor/src/supervisor.ts, the maps of               *)
(* packages/core/src/router/message-router.ts, the project and agent       *)
(* routes of server/routes/agents.ts, and the restore at start-up and the  *)
(* agent factory of src/server/start.mjs.                                  *)
(*                                                                         *)
(* The supervisor's and the router's map of agents change together.  An    *)
(* agent's shutdown awaits nothing; its initialization and every storage   *)
(* call do.  The organizations use file storage.  The default project's    *)
(* agent and the coordinator are left out.                                 *)
(***************************************************************************)
EXTENDS Undefined

CONSTANTS
    FleetProjects, \* project ids
    Orgs,          \* organizations, each with its storage
    FleetRequests  \* requests to the routes, each made once

ASSUME FleetAssumption == None \notin FleetRequests \union FleetProjects

\* An agent is named after the request that creates it, or what it is restored from.
Agents == FleetRequests \union (Orgs \X FleetProjects)

\* No agent is taken for another, or for none.
ASSUME AgentsAssumption ==
    /\ None \notin Agents
    /\ FleetRequests \intersect (Orgs \X FleetProjects) = {}

VARIABLES
    listed,     \* the projects list of each organization's storage
    agentFor,   \* the agent the supervisor and the router have for each project
    running,    \* agents initialized and not shut down
    fleetKind,  \* what each request does
    fleetStage, \* where it stands
    about,      \* the organization and the project it is about
    initializes,\* the agent whose initialization it awaits
    bare,       \* history: projects whose agent was removed, or not restored
    unclear     \* history: projects whose requests overlapped, clashed or failed halfway

fleetReqVars == <<fleetKind, fleetStage, about, initializes>>
fleetVars == <<listed, agentFor, running, fleetReqVars, bare, unclear>>

FleetTypeOK ==
    /\ listed \in [Orgs -> SUBSET FleetProjects]
    /\ agentFor \in [FleetProjects -> Agents \union {None}]
    /\ running \subseteq Agents
    /\ fleetKind \in [FleetRequests -> {"create", "delete", "spawn", "restart", None}]
    /\ fleetStage \in [FleetRequests -> {"none", "initializing", "adding", "unlisting", "done"}]
    /\ about \in [FleetRequests -> (Orgs \X FleetProjects) \union {None}]
    /\ initializes \in [FleetRequests -> Agents \union {None}]
    /\ bare \subseteq FleetProjects
    /\ unclear \subseteq FleetProjects

FleetInit ==
    /\ listed = [o \in Orgs |-> {}]
    /\ agentFor = [p \in FleetProjects |-> None]
    /\ running = {}
    /\ fleetKind = [r \in FleetRequests |-> None]
    /\ fleetStage = [r \in FleetRequests |-> "none"]
    /\ about = [r \in FleetRequests |-> None]
    /\ initializes = [r \in FleetRequests |-> None]
    /\ bare = {}
    /\ unclear = {}

-----------------------------------------------------------------------------
ListedSomewhere(p) == \E o \in Orgs : p \in listed[o]

UnderWay == {r \in FleetRequests : fleetStage[r] \notin {"none", "done"}}
AboutProject(p) == {r \in FleetRequests : about[r] # None /\ about[r][2] = p}
Busy == {p \in FleetProjects : AboutProject(p) \intersect UnderWay # {}}

\* A request begins; unless it clashes, nothing else is going on about its project.
BeginRequest(r, kind, o, p, stage, clashes) ==
    /\ fleetStage[r] = "none"
    /\ fleetKind' = [fleetKind EXCEPT ![r] = kind]
    /\ fleetStage' = [fleetStage EXCEPT ![r] = stage]
    /\ about' = [about EXCEPT ![r] = <<o, p>>]
    /\ unclear' = IF clashes \/ p \in Busy THEN unclear \union {p} ELSE unclear

Proceed(r, stage) ==
    /\ fleetStage' = [fleetStage EXCEPT ![r] = stage]
    /\ UNCHANGED <<fleetKind, about>>

FailsHalfway(r) ==
    /\ Proceed(r, "done")
    /\ unclear' = unclear \union {about[r][2]}

\* POST /api/projects: not yet in the organization's list.  The agents' map has one
\* agent for a project id, whichever organization it is of.
CreateProject(r, o, p) ==
    /\ p \notin listed[o]
    /\ BeginRequest(r, "create", o, p, "initializing", agentFor[p] # None \/ ListedSomewhere(p))
    /\ initializes' = [initializes EXCEPT ![r] = r]
    /\ UNCHANGED <<listed, agentFor, running, bare>>

\* POST /api/agents: looks for an agent of its name, not for the project's.
SpawnAgent(r, o, p) ==
    /\ BeginRequest(r, "spawn", o, p, "initializing", TRUE)
    /\ initializes' = [initializes EXCEPT ![r] = r]
    /\ UNCHANGED <<listed, agentFor, running, bare>>

\* restartAgent, up to its await.
RestartAgent(r, o, p) ==
    /\ agentFor[p] # None
    /\ BeginRequest(r, "restart", o, p, "initializing", FALSE)
    /\ initializes' = [initializes EXCEPT ![r] = agentFor[p]]
    /\ running' = running \ {agentFor[p]}
    /\ UNCHANGED <<listed, agentFor, bare>>

\* initialize() returns: spawnAgent registers the agent; restartAgent ends.
Initialized(r) ==
    /\ fleetStage[r] = "initializing"
    /\ initializes' = [initializes EXCEPT ![r] = None]
    /\ running' = running \union {initializes[r]}
    /\ IF fleetKind[r] = "restart"
          THEN UNCHANGED <<agentFor, bare>>
          ELSE /\ agentFor' = [agentFor EXCEPT ![about[r][2]] = r]
               /\ bare' = bare \ {about[r][2]}
    /\ Proceed(r, IF fleetKind[r] = "create" THEN "adding" ELSE "done")
    /\ UNCHANGED <<listed, unclear>>

\* It throws.
NotInitialized(r) ==
    /\ fleetStage[r] = "initializing"
    /\ initializes' = [initializes EXCEPT ![r] = None]
    /\ IF fleetKind[r] = "restart" THEN FailsHalfway(r) ELSE Proceed(r, "done") /\ UNCHANGED unclear
    /\ UNCHANGED <<listed, agentFor, running, bare>>

\* The project's config is stored, and the project added to the list.
AddProject(r) ==
    /\ fleetStage[r] = "adding"
    /\ \/ /\ listed' = [listed EXCEPT ![about[r][1]] = @ \union {about[r][2]}]
          /\ Proceed(r, "done") /\ UNCHANGED unclear
       \/ FailsHalfway(r) /\ UNCHANGED listed
    /\ UNCHANGED <<agentFor, running, initializes, bare>>

\* Mutant: the agent is taken from the map and goes on running.
StoppedNone(p) == {}

\* The agents removeAgent shuts down.
Stopped(p) == {agentFor[p]}

RemoveAgent(p) ==
    /\ running' = running \ Stopped(p)
    /\ agentFor' = [agentFor EXCEPT ![p] = None]

\* DELETE /api/projects/:id has found it in the list.
DeleteProject(r, o, p) ==
    /\ p \in listed[o]
    /\ BeginRequest(r, "delete", o, p, "unlisting", FALSE)
    /\ RemoveAgent(p)
    /\ UNCHANGED <<listed, initializes, bare>>

\* The project's config is deleted, and the project removed from the list.
RemoveProject(r) ==
    /\ fleetStage[r] = "unlisting"
    /\ \/ /\ listed' = [listed EXCEPT ![about[r][1]] = @ \ {about[r][2]}]
          /\ Proceed(r, "done") /\ UNCHANGED unclear
       \/ FailsHalfway(r) /\ UNCHANGED listed
    /\ UNCHANGED <<agentFor, running, initializes, bare>>

\* DELETE /api/agents/:id.
DeleteAgent(p) ==
    /\ agentFor[p] # None
    /\ RemoveAgent(p)
    /\ bare' = bare \union {p}
    /\ unclear' = unclear \union ({p} \intersect Busy)
    /\ UNCHANGED <<listed, fleetReqVars>>

\* The process ends and another one starts: before it serves requests, every listed
\* project gets an agent, one for its id, unless that fails.
RestartProcess ==
    /\ fleetStage' = [r \in FleetRequests |-> IF r \in UnderWay THEN "done" ELSE fleetStage[r]]
    /\ initializes' = [r \in FleetRequests |-> None]
    /\ bare' \in SUBSET {p \in FleetProjects : ListedSomewhere(p)}
    /\ agentFor' \in [FleetProjects -> (Orgs \X FleetProjects) \union {None}]
    /\ \A p \in FleetProjects :
          IF ListedSomewhere(p) /\ p \notin bare'
             THEN \E o \in Orgs : p \in listed[o] /\ agentFor'[p] = <<o, p>>
             ELSE agentFor'[p] = None
    /\ running' = {agentFor'[p] : p \in FleetProjects} \ {None}
    /\ unclear' = {p \in FleetProjects : \E o, q \in Orgs : o # q /\ p \in listed[o] \intersect listed[q]}
    /\ UNCHANGED <<listed, fleetKind, about>>

FleetNext ==
    \/ \E r \in FleetRequests, o \in Orgs, p \in FleetProjects :
          CreateProject(r, o, p) \/ SpawnAgent(r, o, p) \/ RestartAgent(r, o, p) \/ DeleteProject(r, o, p)
    \/ \E r \in FleetRequests : Initialized(r) \/ NotInitialized(r) \/ AddProject(r) \/ RemoveProject(r)
    \/ \E p \in FleetProjects : DeleteAgent(p)
    \/ RestartProcess

FleetSpec == FleetInit /\ [][FleetNext]_fleetVars

-----------------------------------------------------------------------------
(* Properties.                                                             *)

RunningFor(p) == {i \in running : IF i \in FleetRequests THEN i \in AboutProject(p) ELSE i[2] = p}

\* Between requests, exactly the listed projects have an agent that answers for
\* them, and no other agent of theirs runs, also after a restart in the middle of a
\* request; unless requests about the project overlapped or one failed halfway since,
\* two organizations use its id, or an agent was created under it.
AgentsFollowLists ==
    \A p \in FleetProjects \ (unclear \union Busy) :
       /\ agentFor[p] # None <=> ListedSomewhere(p) /\ p \notin bare
       /\ RunningFor(p) = {agentFor[p]} \ {None}
=============================================================================
