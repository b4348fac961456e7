------------------------------- MODULE Coordinator -------------------------------
(***************************************************************************)
(* The coordinator: packages/agents/coordinator/src/coordinator-agent.ts,  *)
(* the agents it is told of by src/server/start.mjs beside those that the  *)
(* message router has (packages/core/src/router/message-router.ts), and    *)
(* its cascading deploys.                                                  *)
(*                                                                         *)
(* The router hands the coordinator what begins with "all"; a program that *)
(* embeds it may call handleMessage, advanceCascade and unregisterProject  *)
(* itself, and nothing else does.  The agent of the default project and    *)
(* the restore at start-up, which register each agent at once, are left    *)
(* out, and so are roles and organizations.                                *)
(***************************************************************************)
EXTENDS Naturals, Sequences, Undefined

CONSTANTS
    Aliases,       \* project ids: the keys of the maps, and the aliases
    CoordRequests, \* requests and messages, each made once
    MaxCascades,   \* bounds the cascades
    MaxSteps       \* bounds the steps of a cascade

ASSUME CoordinatorAssumption ==
    None \notin CoordRequests \union Aliases /\ MaxCascades \in Nat /\ MaxSteps \in Nat

VARIABLES
    routed,      \* the router's agent for each project, named after the request that made it
    coordinated, \* the coordinator's: its maps `projects' and `projectAgents'
    registering, \* agents the router has, in the order in which the coordinator gets them
    coordState,  \* _state
    coordKind,   \* what each request or message is
    coordStage,  \* where it stands
    ofAlias,     \* the project it is about
    cascades,    \* the cascades, each a sequence of steps
    apart        \* history: projects whose agent the factory did not make, or unregistered

mapVars == <<routed, coordinated, registering, apart>>
messageVars == <<coordState, coordKind, coordStage, ofAlias>>
coordVars == <<mapVars, messageVars, cascades>>

CascadeStep == [alias : Aliases, status : {"pending", "deploying", "deployed", "failed"}]

CoordTypeOK ==
    /\ routed \in [Aliases -> CoordRequests \union {None}]
    /\ coordinated \in [Aliases -> CoordRequests \union {None}]
    /\ \A i \in DOMAIN registering : registering[i] \in CoordRequests
    /\ coordState \in {"IDLE", "ACTIVE"}
    /\ coordKind \in [CoordRequests -> {"create", "spawn", "all", "route", None}]
    /\ coordStage \in [CoordRequests -> {"none", "initializing", "handling", "parsing", "done"}]
    /\ ofAlias \in [CoordRequests -> Aliases \union {None}]
    /\ Len(cascades) <= MaxCascades
    /\ \A i \in DOMAIN cascades : \A j \in DOMAIN cascades[i] : cascades[i][j] \in CascadeStep
    /\ apart \subseteq Aliases

CoordInit ==
    /\ routed = [p \in Aliases |-> None]
    /\ coordinated = [p \in Aliases |-> None]
    /\ registering = <<>>
    /\ coordState = "IDLE"
    /\ coordKind = [r \in CoordRequests |-> None]
    /\ coordStage = [r \in CoordRequests |-> "none"]
    /\ ofAlias = [r \in CoordRequests |-> None]
    /\ cascades = <<>>
    /\ apart = {}

BeginRequestTo(r, kind, p, stage) ==
    /\ coordStage[r] = "none"
    /\ coordKind' = [coordKind EXCEPT ![r] = kind]
    /\ coordStage' = [coordStage EXCEPT ![r] = stage]
    /\ ofAlias' = [ofAlias EXCEPT ![r] = p]

EndRequest(r) ==
    /\ coordStage' = [coordStage EXCEPT ![r] = "done"]
    /\ UNCHANGED <<coordKind, ofAlias>>

-----------------------------------------------------------------------------
(* Agents come and go.                                                     *)

\* Mutant: a project that is registered keeps its agent.
ToldOnce(r) == IF coordinated[ofAlias[r]] = None THEN [coordinated EXCEPT ![ofAlias[r]] = r] ELSE coordinated

\* The coordinator is told of the agent of r.
ToldCoordinator(r) == [coordinated EXCEPT ![ofAlias[r]] = r]

\* createAgent of start.mjs, up to the await of the agent's initialization.
CreateAgent(r, p) ==
    /\ BeginRequestTo(r, "create", p, "initializing")
    /\ UNCHANGED <<mapVars, coordState, cascades>>

\* POST /api/agents spawns an agent and tells the coordinator nothing.
SpawnAgentOnly(r, p) ==
    /\ BeginRequestTo(r, "spawn", p, "initializing")
    /\ UNCHANGED <<mapVars, coordState, cascades>>

\* spawnAgent: initialized, the agent takes its place in the router's map.
AgentSpawned(r) ==
    /\ coordStage[r] = "initializing"
    /\ routed' = [routed EXCEPT ![ofAlias[r]] = r]
    /\ IF coordKind[r] = "create"
          THEN /\ registering' = Append(registering, r)
               /\ apart' = apart \ {ofAlias[r]}
          ELSE /\ apart' = apart \union {ofAlias[r]}
               /\ UNCHANGED registering
    /\ EndRequest(r)
    /\ UNCHANGED <<coordinated, coordState, cascades>>

AgentNotSpawned(r) ==
    /\ coordStage[r] = "initializing"
    /\ EndRequest(r)
    /\ UNCHANGED <<mapVars, coordState, cascades>>

\* createAgent goes on, in the order in which the spawns ended: registerProject and
\* setProjectAgent.
RegisterProject ==
    /\ registering # <<>>
    /\ coordinated' = ToldCoordinator(Head(registering))
    /\ registering' = Tail(registering)
    /\ UNCHANGED <<routed, apart, messageVars, cascades>>

\* removeAgent: the coordinator keeps the agent, which says TERMINATED from then on.
RemoveAgentOf(p) ==
    /\ routed[p] # None
    /\ routed' = [routed EXCEPT ![p] = None]
    /\ UNCHANGED <<coordinated, registering, apart, messageVars, cascades>>

UnregisterProject(p) ==
    /\ coordinated[p] # None
    /\ coordinated' = [coordinated EXCEPT ![p] = None]
    /\ apart' = apart \union {p}
    /\ UNCHANGED <<routed, registering, messageVars, cascades>>

-----------------------------------------------------------------------------
(* Messages.                                                               *)

\* handleMessage of "all status" and of other texts that wait for nothing but
\* promises that are settled.
AllStatus(r) ==
    /\ BeginRequestTo(r, "all", None, "handling")
    /\ coordState' = "ACTIVE"
    /\ UNCHANGED <<mapVars, cascades>>

\* "<alias> <command>", from an embedding program: the command is parsed, which may ask
\* a model, and handled by the agent looked up before.
RouteToProject(r, p) ==
    /\ coordinated[p] # None
    /\ BeginRequestTo(r, "route", p, "parsing")
    /\ coordState' = "ACTIVE"
    /\ UNCHANGED <<mapVars, cascades>>

\* It is answered; or the agent throws and the coordinator stays ACTIVE.
MessageEnds(r, throws) ==
    /\ coordStage[r] \in {"handling", "parsing"}
    /\ throws => coordKind[r] = "route"
    /\ EndRequest(r)
    /\ coordState' = IF throws THEN coordState ELSE "IDLE"
    /\ UNCHANGED <<mapVars, cascades>>

\* "deploy <alias> then <alias> ...", all of them registered.  (It is answered at once.)
HandleCascadeDeploy(aliases) ==
    /\ Len(cascades) < MaxCascades
    /\ \A i \in DOMAIN aliases : coordinated[aliases[i]] # None
    /\ cascades' = Append(cascades, [i \in DOMAIN aliases |->
                      [alias |-> aliases[i], status |-> IF i = 1 THEN "deploying" ELSE "pending"]])
    /\ coordState' = "IDLE"
    /\ UNCHANGED <<mapVars, coordKind, coordStage, ofAlias>>

\* Mutant: the step is looked up by its project.
CurrentOfAlias(steps) ==
    LET deploying == CHOOSE i \in DOMAIN steps : steps[i].status = "deploying"
    IN  CHOOSE i \in DOMAIN steps :
           steps[i].alias = steps[deploying].alias /\ \A j \in 1..(i - 1) : steps[j].alias # steps[i].alias

Current(steps) == CHOOSE i \in DOMAIN steps : steps[i].status = "deploying"

\* advanceCascade.  (When a project it names is not registered any more, it throws
\* after these changes.)
AdvanceCascade(n, success) ==
    /\ \E i \in DOMAIN cascades[n] : cascades[n][i].status = "deploying"
    /\ LET current == Current(cascades[n])
           Status(i) == IF i = current THEN IF success THEN "deployed" ELSE "failed"
                        ELSE IF i = current + 1 /\ success THEN "deploying"
                        ELSE cascades[n][i].status
       IN  cascades' = [cascades EXCEPT ![n] = [i \in DOMAIN @ |-> [@[i] EXCEPT !.status = Status(i)]]]
    /\ UNCHANGED <<mapVars, messageVars>>

CascadeAliases == UNION {[1..n -> Aliases] : n \in 2..MaxSteps}

CoordNext ==
    \/ \E r \in CoordRequests :
          \/ \E p \in Aliases : CreateAgent(r, p) \/ SpawnAgentOnly(r, p) \/ RouteToProject(r, p)
          \/ AgentSpawned(r) \/ AgentNotSpawned(r) \/ AllStatus(r)
          \/ \E throws \in BOOLEAN : MessageEnds(r, throws)
    \/ RegisterProject
    \/ \E p \in Aliases : RemoveAgentOf(p) \/ UnregisterProject(p)
    \/ \E aliases \in CascadeAliases : HandleCascadeDeploy(aliases)
    \/ \E n \in DOMAIN cascades, success \in BOOLEAN : AdvanceCascade(n, success)

CoordSpec == CoordInit /\ [][CoordNext]_coordVars

-----------------------------------------------------------------------------
(* Properties.                                                             *)

\* The agent that the coordinator reports and forwards to is the one the router has for
\* the project, whatever creations of it overlapped, unless the router's was spawned
\* past the factory or the project was unregistered.  (A removed one stays with it.)
CoordinatorFollowsRouter ==
    registering = <<>> =>
       \A p \in Aliases \ apart : routed[p] # None => coordinated[p] = routed[p]

\* A cascade goes through its steps in their order, also when it names a project twice:
\* the steps before the current one are deployed, those after it pending, and after a
\* failure nothing deploys.
CascadeInOrder ==
    \A n \in DOMAIN cascades : \E k \in DOMAIN cascades[n] :
       \A i \in DOMAIN cascades[n] :
          /\ i < k => cascades[n][i].status = "deployed"
          /\ i > k => cascades[n][i].status = "pending"
          /\ i = k => \/ cascades[n][i].status \in {"deploying", "failed"}
                      \/ k = Len(cascades[n]) /\ cascades[n][i].status = "deployed"

\* The coordinator keeps up with the router, and its cascades keep their order.
CoordinatorKeepsUp == CoordinatorFollowsRouter /\ CascadeInOrder
=============================================================================
