------------------------------ MODULE MCServices ------------------------------
(* Services that keep their state to themselves, checked in one run: a     *)
(* behaviour is one of the service `part' names, the others stay as they   *)
(* are initially.                                                          *)
EXTENDS Scheduler, ContainerPool, DockerSandbox, PgProjects, FileStore, ChannelSessions,
        WebhookSecrets, AgentFleet, ChatSession, AgentDesk, A2ATasks, ApiToken, Plugins,
        LiveEvents, TaskQueues, MandateGenerator, Coordinator, VectorMemory,
        OutboundPolicy, RateLimiter, SlackTeams, ChannelRoutes, TLC

CONSTANTS v1, v2, v3, v4, v5, v6, v7

ThreeCallers == {v1, v2, v3}
FourCallers == {v1, v2, v3, v4}
OneThing == {v5}
AnotherThing == {v7}
TwoThings == {v5, v6}
ThreeThings == {v5, v6, v7}
NoThing == {}
TwoLevels == {1, 4}
TwoBudgets == {2, 3}
TwoLimits == [k \in TwoThings |-> IF k = v5 THEN 1 ELSE 2]
ItsOwn == [p \in OneThing |-> p]
OneAdapter == [t \in TwoThings |-> IF t = v5 THEN v7 ELSE None]

\* Nothing tells the calls, requests and deliveries apart.
Symmetric == Permutations(ThreeCallers)

VARIABLE part

Parts == {"scheduler", "pool", "sandbox", "projects", "file", "hooks", "secrets", "fleet",
          "chat", "desk", "a2a", "token", "plugins", "events", "queues", "permits",
          "coordinator", "vectors", "policy", "rates",
          "slack", "routes"}

servicesVars ==
    <<part, schedulerVars, poolVars, sandboxVars, projectVars, fileVars, hookVars, secretVars,
      fleetVars, chatVars, deskVars, a2aVars, tokenVars, pluginVars, eventVars, queueVars,
      permitVars, coordVars, vectorVars, policyVars, rateVars, slackVars,
      routeVars>>

\* Every variable of the part that runs has its type.
ServicesTypeOK ==
    CASE part = "scheduler" -> SchedulerTypeOK
      [] part = "pool" -> PoolTypeOK
      [] part = "sandbox" -> SandboxTypeOK
      [] part = "projects" -> ProjectsTypeOK
      [] part = "file" -> FileTypeOK
      [] part = "hooks" -> HooksTypeOK
      [] part = "secrets" -> SecretsTypeOK
      [] part = "fleet" -> FleetTypeOK
      [] part = "chat" -> ChatTypeOK
      [] part = "desk" -> DeskTypeOK
      [] part = "a2a" -> A2ATypeOK
      [] part = "token" -> TokenTypeOK
      [] part = "plugins" -> PluginsTypeOK
      [] part = "events" -> EventsTypeOK
      [] part = "queues" -> QueuesTypeOK
      [] part = "permits" -> PermitsTypeOK
      [] part = "coordinator" -> CoordTypeOK
      [] part = "vectors" -> MemoryTypeOK
      [] part = "policy" -> PolicyTypeOK
      [] part = "rates" -> RateTypeOK
      [] part = "slack" -> SlackTypeOK
      [] part = "routes" -> RoutesTypeOK

\* Of the parts with several initial states, those that do not run start in one.  One
\* mandate may have been issued before.
ServicesInit ==
    /\ part \in Parts
    /\ SchedulerInit /\ PoolInit /\ SandboxInit /\ FileInit /\ HooksInit /\ FleetInit
    /\ ChatInit /\ DeskInit /\ A2AInit /\ CoordInit /\ MemoryInit /\ RateInit /\ SlackInit
    /\ RoutesInit
    /\ ProjectsInit /\ (part # "projects" => rows = {})
    /\ SecretsInit /\ (part # "secrets" => ~inEnv /\ links = [p \in LinkedProjects |-> None])
    /\ TokenInit /\ (part # "token" =>
                        writable = {} /\ private = {} /\ \A n \in DOMAIN tokenFile : tokenFile[n] = None)
    /\ PluginsInit /\ (part # "plugins" => specs = <<>>)
    /\ EventsInit /\ (part # "events" => ~overRedis)
    /\ QueuesInit /\ (part # "queues" => ~withRedis)
    /\ PolicyInit /\ (part # "policy" => \A max \in HourMaxes : perHourMax <= max)
    /\ PermitsInit /\ issued[v6] = None /\ (part # "permits" => ~promises /\ issued[v5] = None)

ServicesNext ==
    /\ UNCHANGED part
    /\ IF part = "scheduler" THEN SchedulerNext ELSE UNCHANGED schedulerVars
    /\ IF part = "pool" THEN PoolNext ELSE UNCHANGED poolVars
    /\ IF part = "sandbox" THEN SandboxNext ELSE UNCHANGED sandboxVars
    /\ IF part = "projects" THEN ProjectsNext ELSE UNCHANGED projectVars
    /\ IF part = "file" THEN FileNext ELSE UNCHANGED fileVars
    /\ IF part = "hooks" THEN HooksNext ELSE UNCHANGED hookVars
    /\ IF part = "secrets" THEN SecretsNext ELSE UNCHANGED secretVars
    /\ IF part = "fleet" THEN FleetNext ELSE UNCHANGED fleetVars
    /\ IF part = "chat" THEN ChatNext ELSE UNCHANGED chatVars
    /\ IF part = "desk" THEN DeskNext ELSE UNCHANGED deskVars
    /\ IF part = "a2a" THEN A2ANext ELSE UNCHANGED a2aVars
    /\ IF part = "token" THEN TokenNext ELSE UNCHANGED tokenVars
    /\ IF part = "plugins" THEN PluginsNext ELSE UNCHANGED pluginVars
    /\ IF part = "events" THEN EventsNext ELSE UNCHANGED eventVars
    /\ IF part = "queues" THEN QueuesNext ELSE UNCHANGED queueVars
    /\ IF part = "permits" THEN PermitsNext ELSE UNCHANGED permitVars
    /\ IF part = "coordinator" THEN CoordNext ELSE UNCHANGED coordVars
    /\ IF part = "vectors" THEN MemoryNext ELSE UNCHANGED vectorVars
    /\ IF part = "policy" THEN PolicyNext ELSE UNCHANGED policyVars
    /\ IF part = "rates" THEN RateNext ELSE UNCHANGED rateVars
    /\ IF part = "slack" THEN SlackNext ELSE UNCHANGED slackVars
    /\ IF part = "routes" THEN RoutesNext ELSE UNCHANGED routeVars

\* Once `unsure', MarkedHooksVerify claims nothing more.
WhileSure == ~unsure

ServicesSpec == ServicesInit /\ [][ServicesNext]_servicesVars

-----------------------------------------------------------------------------
(* Properties that two modules share.                                      *)

\* A container runs one execution at most, and each is destroyed in the end by someone,
\* whether it came from the pool or was made for one command.
ContainersHold == ExclusiveUse /\ NoneForgotten /\ NothingRunsOn

\* A call to another runtime that is retried makes no second task there, calls that
\* overlap overspend by no more than each may cost, and calls to the server pass for two
\* windows' worth at most.
CallsKeepLimits == RetriesMakeNoTask /\ OverspentByOverlap /\ AtMostTwoWindows

\* A message reaches a session once, what answers it goes where it came from, and an
\* alert where the dashboard's routes send it.
MessagesFindTheirWay ==
    MessagesReachSessions /\ RepliesWithOwnToken /\ ConnectedIsInstalled /\ RoutesAreKept /\ AlertsFollowRoutes

\* Tasks reach the consumers, and events each handler, in their order; events come again
\* only after a connection was lost or a channel subscribed to again in memory.
DeliveredInOrder == EventsInOrder /\ HandedOutInOrder
=============================================================================
