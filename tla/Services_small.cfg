\* Three schedules under two names; two executions and three containers in a pool
\* of two; two sandboxes; four requests about three projects; three calls on two keys
\* of a file; three deliveries of two messages; three links or passes of one project
\* over two repositories; three requests about two projects of two organizations; two
\* requests to a session; three requests to an agent; two calls of a client; three
\* replicas that start twice; two plugins; two events on a channel; two processes and three tasks;
\* two calls on two mandates; three requests about two projects; six memories; two calls
\* out that share a budget; two keys with different limits; two workspaces of Slack, with
\* two installations and two events; two requests about the routes of two channels, one of
\* them of no connected adapter, and an alert.
SPECIFICATION ServicesSpec
CONSTANTS
    v1 = v1  v2 = v2  v3 = v3  v4 = v4  v5 = v5  v6 = v6  v7 = v7  None = None
    Schedules <- ThreeCallers
    TaskNames <- TwoThings
    MaxRuns = 2
    Containers <- ThreeThings
    Executions <- TwoThings
    MaxSize = 2
    SandboxRuns <- TwoThings
    Projects <- ThreeThings
    DefaultProject = v5
    ProjectRequests <- FourCallers
    FileCalls <- ThreeCallers
    FileKeys <- TwoThings
    Hooks <- ThreeCallers
    Messages <- TwoThings
    Registrations <- ThreeCallers
    LinkedProjects <- OneThing
    Repos <- TwoThings
    ListedRepo <- ItsOwn
    FleetProjects <- TwoThings
    Orgs <- TwoThings
    FleetRequests <- ThreeCallers
    Turns <- TwoThings
    RawTools <- OneThing
    ForeignTools <- NoThing
    MetaTools <- NoThing
    BareNames <- AnotherThing
    MaxLoopIterations = 2
    MaxEntries = 2
    MaxUses = 2
    DeskRequests <- ThreeCallers
    Levels <- TwoLevels
    MaxCrashes = 1
    A2ACalls <- TwoThings
    TaskIds <- AnotherThing
    Retries = 1
    MaxRestarts = 1
    Replicas <- ThreeCallers
    Candidates = 2
    MaxStarts = 2
    Specs <- TwoThings
    MetaToolNames <- ThreeThings
    BadNames <- OneThing
    MaxSpecs = 2
    MaxHooks = 3
    Channels <- OneThing
    Forwarded <- OneThing
    Subscribers <- OneThing
    Clients <- OneThing
    ClientOrgs <- AnotherThing
    SmallTeam = 0
    MaxListeners = 3
    MaxEvents = 2
    MaxSends = 2
    QueueProcesses <- TwoThings
    MaxTasks = 3
    MaxFlushes = 1
    Permits <- TwoThings
    PermitCalls <- TwoThings
    MaxDenied = 1
    Aliases <- TwoThings
    CoordRequests <- ThreeCallers
    MaxCascades = 1
    MaxSteps = 3
    Terms <- ThreeThings
    ReindexThreshold = 4
    MaxMemories = 6
    PolicyCalls <- TwoThings
    HourTicks = 2
    DayTicks = 3
    PerCallMax = 2
    HourMaxes <- TwoBudgets
    DayMax = 4
    CostAbove = 1
    MaxSpend = 7
    RateKeys <- TwoThings
    RateLimit <- TwoLimits
    WindowTicks = 2
    Teams <- TwoThings
    Installs <- TwoThings
    SlackEvents <- TwoThings
    Targets <- TwoThings
    Kinds <- OneThing
    Adapters <- AnotherThing
    AdapterOf <- OneAdapter
    RouteRequests <- TwoThings
    Alerts <- OneThing
SYMMETRY Symmetric
CONSTRAINT WhileSure
INVARIANTS
    ServicesTypeOK TicksAreRegistered ContainersHold KeepsOneDefault LostOnlyByOverlap
    MessagesFindTheirWay MarkedHooksVerify AgentsFollowLists SessionAnswers ChoiceSurvives
    CallsKeepLimits ServesItsFile NamesKeepTheirPlugin DeliveredInOrder PermitsHold
    CoordinatorKeepsUp ReindexedRanksMatches
CHECK_DEADLOCK FALSE
