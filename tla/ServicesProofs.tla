----------------------------- MODULE ServicesProofs -----------------------------
(***************************************************************************)
(* Theorems about the services that MCServices checks in one run, for all  *)
(* values of their constants, and about that run's specification.  Those   *)
(* whose state is stored are in StorageProofs.                             *)
(***************************************************************************)
EXTENDS MCServices, StorageProofs

-----------------------------------------------------------------------------
(* Scheduler.                                                              *)

\* A task whose first run is awaited has that run in flight and no interval yet,
\* and its name stands for it unless a cancel or another schedule() came in between.
FirstRunsAwaited ==
    \A s \in first :
       /\ nameOf[s] # None
       /\ runs[s] > 0
       /\ s \notin ticking
       /\ nameOf[s] \notin interrupted => scheduled[nameOf[s]] = s

TicksAreNamed == \A s \in ticking : nameOf[s] # None

\* What the steps keep together.
SchedulerInv == SchedulerTypeOK /\ FirstRunsAwaited /\ TicksAreNamed /\ TicksAreRegistered

\* A new schedule takes over its name, with or without a first run.
LEMMA ScheduleStep ==
    ASSUME SchedulerInv, NEW s \in Schedules, NEW n \in TaskNames, NEW now \in BOOLEAN,
           Schedule(s, n, now)
    PROVE  SchedulerInv'
<1> USE MaxRunsAssumption, SchedulesAssumption DEF SchedulerInv, SchedulerTypeOK
<1>1. SchedulerTypeOK'
  BY DEF Schedule, Interrupts, ClearedTimer, Arm
<1>2. s \notin first /\ s \notin ticking
  BY DEF Schedule, FirstRunsAwaited, TicksAreNamed
<1>3. FirstRunsAwaited'
  BY <1>2 DEF Schedule, Interrupts, ClearedTimer, Arm, FirstRunsAwaited
<1>4. TicksAreNamed'
  BY <1>2 DEF Schedule, ClearedTimer, Arm, TicksAreNamed
<1>5. TicksAreRegistered'
  BY <1>2 DEF Schedule, Interrupts, ClearedTimer, Arm, TicksAreNamed, TicksAreRegistered
<1> QED BY <1>1, <1>3, <1>4, <1>5

\* The interval set after a first run is the only one of its name, unless interrupted.
LEMMA FinishFirstStep ==
    ASSUME SchedulerInv, NEW s \in Schedules, FinishFirst(s)
    PROVE  SchedulerInv'
<1> USE MaxRunsAssumption, SchedulesAssumption DEF SchedulerInv, SchedulerTypeOK
<1>1. SchedulerTypeOK'
  BY DEF FinishFirst, Arm, FirstRunsAwaited
<1>2. FirstRunsAwaited'
  BY DEF FinishFirst, Arm, FirstRunsAwaited
<1>3. TicksAreNamed' /\ TicksAreRegistered'
  BY DEF FinishFirst, Arm, FirstRunsAwaited, TicksAreNamed, TicksAreRegistered
<1> QED BY <1>1, <1>2, <1>3

\* Cancelling a name clears the interval it stands for.
LEMMA CancelStep ==
    ASSUME SchedulerInv, NEW n \in TaskNames, Cancel(n)
    PROVE  SchedulerInv'
<1> USE SchedulesAssumption DEF SchedulerInv, SchedulerTypeOK
<1>1. SchedulerTypeOK'
  BY DEF Cancel, Interrupts, ClearedTimer
<1>2. FirstRunsAwaited'
  BY DEF Cancel, Interrupts, ClearedTimer, FirstRunsAwaited
<1>3. TicksAreNamed' /\ TicksAreRegistered'
  BY DEF Cancel, Interrupts, ClearedTimer, TicksAreNamed, TicksAreRegistered
<1> QED BY <1>1, <1>2, <1>3

\* A shutdown clears every interval that a name stands for.
LEMMA ShutdownStep ==
    ASSUME SchedulerInv, Shutdown
    PROVE  SchedulerInv'
<1> USE SchedulesAssumption DEF SchedulerInv, SchedulerTypeOK
<1>1. SchedulerTypeOK'
  BY DEF Shutdown
<1>2. FirstRunsAwaited'
  BY DEF Shutdown, FirstRunsAwaited
<1>3. TicksAreNamed' /\ TicksAreRegistered'
  BY DEF Shutdown, TicksAreNamed, TicksAreRegistered
<1> QED BY <1>1, <1>2, <1>3

\* Runs that begin and end move no interval.
LEMMA RunStep ==
    ASSUME SchedulerInv, NEW s \in Schedules, Fire(s) \/ EndRun(s)
    PROVE  SchedulerInv'
<1> USE MaxRunsAssumption DEF SchedulerInv, SchedulerTypeOK
<1>1. SchedulerTypeOK'
  BY DEF Fire, EndRun
<1>2. FirstRunsAwaited'
  BY DEF Fire, EndRun, FirstRunsAwaited
<1>3. TicksAreNamed' /\ TicksAreRegistered'
  BY DEF Fire, EndRun, TicksAreNamed, TicksAreRegistered
<1> QED BY <1>1, <1>2, <1>3

\* Nor do pauses and resumptions.
LEMMA PauseStep ==
    ASSUME SchedulerInv, NEW n \in TaskNames, Pause(n) \/ Resume(n)
    PROVE  SchedulerInv'
<1> USE DEF SchedulerInv, SchedulerTypeOK
<1>1. SchedulerTypeOK'
  BY DEF Pause, Resume
<1>2. FirstRunsAwaited'
  BY DEF Pause, Resume, FirstRunsAwaited
<1>3. TicksAreNamed' /\ TicksAreRegistered'
  BY DEF Pause, Resume, TicksAreNamed, TicksAreRegistered
<1> QED BY <1>1, <1>2, <1>3

\* SchedulerInv holds in every state.
THEOREM SchedulerInvariant == SchedulerSpec => []SchedulerInv
<1>1. SchedulerInit => SchedulerInv
  BY MaxRunsAssumption
  DEF SchedulerInit, SchedulerInv, SchedulerTypeOK, FirstRunsAwaited, TicksAreNamed, TicksAreRegistered
<1>2. SchedulerInv /\ [SchedulerNext]_schedulerVars => SchedulerInv'
  <2> SUFFICES ASSUME SchedulerInv, [SchedulerNext]_schedulerVars
               PROVE  SchedulerInv'
    OBVIOUS
  <2>1. ASSUME NEW s \in Schedules, NEW n \in TaskNames, NEW now \in BOOLEAN, Schedule(s, n, now)
        PROVE  SchedulerInv'
    BY <2>1, ScheduleStep
  <2>2. ASSUME NEW s \in Schedules, FinishFirst(s)
        PROVE  SchedulerInv'
    BY <2>2, FinishFirstStep
  <2>3. ASSUME NEW s \in Schedules, Fire(s) \/ EndRun(s)
        PROVE  SchedulerInv'
    BY <2>3, RunStep
  <2>4. ASSUME NEW n \in TaskNames, Cancel(n)
        PROVE  SchedulerInv'
    BY <2>4, CancelStep
  <2>5. ASSUME NEW n \in TaskNames, Pause(n) \/ Resume(n)
        PROVE  SchedulerInv'
    BY <2>5, PauseStep
  <2>6. CASE Shutdown
    BY <2>6, ShutdownStep
  <2>7. CASE UNCHANGED schedulerVars
    BY <2>7
    DEF schedulerVars, SchedulerInv, SchedulerTypeOK, FirstRunsAwaited, TicksAreNamed, TicksAreRegistered
  <2> QED
    BY <2>1, <2>2, <2>3, <2>4, <2>5, <2>6, <2>7 DEF SchedulerNext
<1> QED
  BY <1>1, <1>2, PTL DEF SchedulerSpec

\* Every variable of the scheduler keeps its type.
THEOREM SchedulerTypeCorrect == SchedulerSpec => []SchedulerTypeOK
<1>1. SchedulerInv => SchedulerTypeOK
  BY DEF SchedulerInv
<1> QED BY <1>1, SchedulerInvariant, PTL

\* An interval that ticks is the one its name stands for, and that cancel() would
\* clear, unless a first run of that name was interrupted.
THEOREM TicksStayRegistered == SchedulerSpec => []TicksAreRegistered
<1>1. SchedulerInv => TicksAreRegistered
  BY DEF SchedulerInv
<1> QED BY <1>1, SchedulerInvariant, PTL

-----------------------------------------------------------------------------
(* ContainerPool.                                                          *)

\* An execution has a container exactly as long as it runs in it or releases it.
HoldsWhileUsed ==
    \A x \in Executions : holds[x] # None <=> exec[x] \in {"running", "replacing", "dropping"}

\* A container is had by one execution.
HeldByOne ==
    \A x, y \in Executions : holds[x] = holds[y] /\ holds[x] # None => x = y

\* What the pool offers is in use nowhere, not destroyed and not the drain's.
AvailableIsUnused ==
    /\ available \intersect (destroyed \union active) = {}
    /\ \A x \in Executions : holds[x] \notin available
    /\ drained # None => available \intersect drained = {}

\* What the steps keep together.
PoolInv == PoolTypeOK /\ HoldsWhileUsed /\ HeldByOne /\ AvailableIsUnused /\ NoneForgotten

\* Only the warm-up counts, before there is any container.
LEMMA WarmUpStep ==
    ASSUME PoolInv, NEW made \in 1..MaxSize, WarmUp(made)
    PROVE  PoolInv'
<1>1. available = {} /\ active = {}
  BY DEF WarmUp, PoolInv, PoolTypeOK
<1>2. Cardinality(available) = 0 /\ Cardinality(active) = 0
  BY <1>1, FS_EmptySet
<1>3. warming' \in 0..MaxSize
  BY <1>2, PoolAssumption DEF WarmUp
<1>4. PoolTypeOK'
  BY <1>3 DEF WarmUp, PoolInv, PoolTypeOK
<1> QED
  BY <1>4
  DEF WarmUp, PoolInv, HoldsWhileUsed, HeldByOne, AvailableIsUnused, NoneForgotten, HeldBy

\* A container that is created is nobody's yet.
LEMMA WarmedStep ==
    ASSUME PoolInv, NEW c \in Containers, Warmed(c)
    PROVE  PoolInv'
<1> USE PoolAssumption DEF PoolInv, Warmed, Created, PoolTypeOK
<1>1. PoolTypeOK'
  OBVIOUS
<1>2. HoldsWhileUsed' /\ HeldByOne'
  BY DEF HoldsWhileUsed, HeldByOne
<1>3. AvailableIsUnused'
  BY DEF AvailableIsUnused
<1>4. NoneForgotten'
  BY DEF NoneForgotten, HeldBy
<1> QED BY <1>1, <1>2, <1>3, <1>4

\* An execution takes a container out of the pool, or asks for one.
LEMMA AcquireStep ==
    ASSUME PoolInv, NEW x \in Executions, Acquire(x)
    PROVE  PoolInv'
<1> USE PoolAssumption DEF PoolInv, Acquire, PoolTypeOK, ExecStages
<1>1. PoolTypeOK'
  OBVIOUS
<1>2. HoldsWhileUsed'
  BY DEF HoldsWhileUsed
<1>3. HeldByOne'
  BY DEF HeldByOne, AvailableIsUnused
<1>4. AvailableIsUnused'
  BY DEF AvailableIsUnused
<1>5. NoneForgotten'
  BY DEF NoneForgotten, HeldBy, HoldsWhileUsed
<1> QED BY <1>1, <1>2, <1>3, <1>4, <1>5

\* A container created for an execution is that execution's alone.
LEMMA AcquiredStep ==
    ASSUME PoolInv, NEW x \in Executions, NEW c \in Containers, Acquired(x, c)
    PROVE  PoolInv'
<1> USE PoolAssumption DEF PoolInv, Acquired, Created, PoolTypeOK, ExecStages
<1>1. PoolTypeOK'
  OBVIOUS
<1>2. HoldsWhileUsed'
  BY DEF HoldsWhileUsed
<1>3. HeldByOne'
  BY DEF HeldByOne
<1>4. AvailableIsUnused'
  BY DEF AvailableIsUnused
<1>5. NoneForgotten'
  BY DEF NoneForgotten, HeldBy, HoldsWhileUsed
<1> QED BY <1>1, <1>2, <1>3, <1>4, <1>5

\* What leaves the list of active containers is the release's to destroy.
LEMMA ReleaseStep ==
    ASSUME PoolInv, NEW x \in Executions, Release(x)
    PROVE  PoolInv'
<1> USE PoolAssumption DEF PoolInv, Release, PoolTypeOK, ExecStages
<1>1. PoolTypeOK'
  OBVIOUS
<1>2. HoldsWhileUsed'
  BY DEF HoldsWhileUsed
<1>3. HeldByOne' /\ AvailableIsUnused'
  BY DEF HeldByOne, AvailableIsUnused
<1>4. NoneForgotten'
  BY DEF NoneForgotten, HeldBy
<1> QED BY <1>1, <1>2, <1>3, <1>4

\* A container an execution gave up is gone when the destroy ends.
LEMMA DestroyedStep ==
    ASSUME PoolInv, NEW x \in Executions, Destroyed(x)
    PROVE  PoolInv'
<1> USE PoolAssumption DEF PoolInv, Destroyed, PoolTypeOK, ExecStages
<1>1. holds[x] \in created
  BY DEF HoldsWhileUsed
<1>2. PoolTypeOK'
  BY <1>1
<1>3. HoldsWhileUsed'
  BY DEF HoldsWhileUsed
<1>4. HeldByOne' /\ AvailableIsUnused'
  BY <1>1 DEF HeldByOne, AvailableIsUnused
<1>5. NoneForgotten'
  BY <1>1 DEF NoneForgotten, HeldBy
<1> QED BY <1>2, <1>3, <1>4, <1>5

\* The container that replaces one given up goes to the pool unused.
LEMMA RefilledStep ==
    ASSUME PoolInv, NEW x \in Executions, NEW c \in Containers, Refilled(x, c)
    PROVE  PoolInv'
<1> USE PoolAssumption DEF PoolInv, Refilled, Created, PoolTypeOK, ExecStages
<1>1. PoolTypeOK'
  OBVIOUS
<1>2. HoldsWhileUsed' /\ HeldByOne'
  BY DEF HoldsWhileUsed, HeldByOne
<1>3. AvailableIsUnused'
  BY DEF AvailableIsUnused
<1>4. NoneForgotten'
  BY DEF NoneForgotten, HeldBy
<1> QED BY <1>1, <1>2, <1>3, <1>4

\* The drain takes both lists, and destroys what it took.
LEMMA DrainStep ==
    ASSUME PoolInv, Drain \/ \E c \in Containers : DrainDestroys(c)
    PROVE  PoolInv'
<1> USE PoolAssumption DEF PoolInv, Drain, DrainDestroys, Known, PoolTypeOK
<1>1. PoolTypeOK'
  OBVIOUS
<1>2. HoldsWhileUsed' /\ HeldByOne'
  BY DEF HoldsWhileUsed, HeldByOne
<1>3. AvailableIsUnused'
  BY DEF AvailableIsUnused
<1>4. NoneForgotten'
  <2>1. CASE Drain
    BY <2>1 DEF NoneForgotten, HeldBy
  <2>2. ASSUME NEW c \in Containers, DrainDestroys(c)
        PROVE  NoneForgotten'
    BY <2>2 DEF NoneForgotten, HeldBy
  <2> QED BY <2>1, <2>2
<1> QED BY <1>1, <1>2, <1>3, <1>4

\* PoolInv holds in every state.
THEOREM PoolInvariant == PoolSpec => []PoolInv
<1>1. PoolInit => PoolInv
  BY PoolAssumption
  DEF PoolInit, PoolInv, PoolTypeOK, ExecStages, HoldsWhileUsed, HeldByOne, AvailableIsUnused, NoneForgotten
<1>2. PoolInv /\ [PoolNext]_poolVars => PoolInv'
  <2> SUFFICES ASSUME PoolInv, [PoolNext]_poolVars
               PROVE  PoolInv'
    OBVIOUS
  <2>1. CASE \E made \in 1..MaxSize : WarmUp(made)
    BY <2>1, WarmUpStep
  <2>2. CASE \E c \in Containers : Warmed(c)
    BY <2>2, WarmedStep
  <2>3. CASE Drain \/ \E c \in Containers : DrainDestroys(c)
    BY <2>3, DrainStep
  <2>4. ASSUME NEW x \in Executions, Acquire(x) \/ Release(x) \/ Destroyed(x)
        PROVE  PoolInv'
    BY <2>4, AcquireStep, ReleaseStep, DestroyedStep
  <2>5. ASSUME NEW x \in Executions, NEW c \in Containers, Acquired(x, c) \/ Refilled(x, c)
        PROVE  PoolInv'
    BY <2>5, AcquiredStep, RefilledStep
  <2>6. CASE UNCHANGED poolVars
    BY <2>6
    DEF poolVars, PoolInv, PoolTypeOK, HoldsWhileUsed, HeldByOne, AvailableIsUnused, NoneForgotten, HeldBy
  <2> QED
    BY <2>1, <2>2, <2>3, <2>4, <2>5, <2>6 DEF PoolNext
<1> QED
  BY <1>1, <1>2, PTL DEF PoolSpec

\* Two executions never share a container, and the pool offers none that is in use or
\* destroyed, however acquiring, releasing, refilling and draining interleave.
THEOREM UseIsExclusive == PoolSpec => []ExclusiveUse
<1>1. PoolInv => ExclusiveUse
  BY DEF PoolInv, HoldsWhileUsed, HeldByOne, AvailableIsUnused, ExclusiveUse, HeldBy
<1> QED BY <1>1, PoolInvariant, PTL

\* Every container ever created is in a list, being destroyed or destroyed.
THEOREM NoneIsForgotten == PoolSpec => []NoneForgotten
<1>1. PoolInv => NoneForgotten
  BY DEF PoolInv
<1> QED BY <1>1, PoolInvariant, PTL

-----------------------------------------------------------------------------
(* DockerSandbox.                                                          *)

\* Before the daemon is asked there is no container, and cleanup() has found none that
\* was not created.
BoxesAreCreated ==
    \A r \in SandboxRuns :
       /\ runStage[r] \in {"none", "creating"} => box[r] = "none"
       /\ sweep[r] # "no" => box[r] # "none"

\* What the steps keep together.
SandboxInv == SandboxTypeOK /\ BoxesAreCreated /\ NothingRunsOn

\* Every step keeps the invariant.
LEMMA SandboxStep ==
    ASSUME SandboxInv, [SandboxNext]_sandboxVars
    PROVE  SandboxInv'
<1> USE DEF SandboxInv, SandboxTypeOK, BoxStates, RunStages, GoTo, Box, Finally, FailBeforeRace
<1>1. ASSUME NEW r \in SandboxRuns, Execute(r) \/ TimerFires(r)
      PROVE  SandboxInv'
  BY <1>1 DEF Execute, TimerFires, BoxesAreCreated, NothingRunsOn
<1>2. ASSUME NEW r \in SandboxRuns, NEW fails \in BOOLEAN, CreateBox(r, fails)
      PROVE  SandboxInv'
  <2>1. PICK there \in {"none", "created"} :
           /\ box' = [box EXCEPT ![r] = there]
           /\ fails /\ there = "created" => r \in refused'
           /\ ~fails => there = "created"
    BY <1>2 DEF CreateBox, BoxesAreCreated
  <2>2. SandboxTypeOK'
    BY <1>2, <2>1 DEF CreateBox
  <2>3. BoxesAreCreated'
    BY <1>2, <2>1 DEF CreateBox, BoxesAreCreated
  <2>4. NothingRunsOn'
    BY <1>2, <2>1 DEF CreateBox, NothingRunsOn
  <2> QED BY <2>2, <2>3, <2>4
<1>3. ASSUME NEW r \in SandboxRuns, NEW fails \in BOOLEAN,
             Attach(r, fails) \/ StartBox(r, fails) \/ WaitAnswers(r, fails) \/ KillAnswers(r, fails)
      PROVE  SandboxInv'
  <2>1. SandboxTypeOK'
    BY <1>3 DEF Attach, StartBox, WaitAnswers, KillAnswers
  <2>2. BoxesAreCreated'
    BY <1>3 DEF Attach, StartBox, WaitAnswers, KillAnswers, BoxesAreCreated
  <2>3. NothingRunsOn'
    BY <1>3 DEF Attach, StartBox, WaitAnswers, KillAnswers, NothingRunsOn
  <2> QED BY <2>1, <2>2, <2>3
<1>4. ASSUME NEW r \in SandboxRuns, NEW fails \in BOOLEAN, RemoveBox(r, fails)
      PROVE  SandboxInv'
  BY <1>4 DEF RemoveBox, BoxesAreCreated, NothingRunsOn
<1>5. ASSUME NEW r \in SandboxRuns, NEW fails \in BOOLEAN, StopSwept(r, fails) \/ RemoveSwept(r, fails)
      PROVE  SandboxInv'
  <2>1. SandboxTypeOK'
    BY <1>5 DEF StopSwept, RemoveSwept
  <2>2. BoxesAreCreated'
    BY <1>5 DEF StopSwept, RemoveSwept, BoxesAreCreated
  <2>3. NothingRunsOn'
    BY <1>5 DEF StopSwept, RemoveSwept, NothingRunsOn
  <2> QED BY <2>1, <2>2, <2>3
<1>6. ASSUME NEW r \in SandboxRuns, NEW zero \in BOOLEAN, CommandEnds(r, zero)
      PROVE  SandboxInv'
  BY <1>6 DEF CommandEnds, BoxesAreCreated, NothingRunsOn
<1>7. CASE Sweep \/ \E fails \in BOOLEAN : Listed(fails)
  BY <1>7 DEF Sweep, Listed, BoxesAreCreated, NothingRunsOn
<1>8. CASE UNCHANGED sandboxVars
  BY <1>8 DEF sandboxVars, BoxesAreCreated, NothingRunsOn
<1> QED
  BY <1>1, <1>2, <1>3, <1>4, <1>5, <1>6, <1>7, <1>8 DEF SandboxNext

\* SandboxInv holds in every state.
LEMMA SandboxInvariant == SandboxSpec => []SandboxInv
<1>1. SandboxInit => SandboxInv
  BY DEF SandboxInit, SandboxInv, SandboxTypeOK, BoxStates, RunStages, BoxesAreCreated, NothingRunsOn
<1>2. SandboxInv /\ [SandboxNext]_sandboxVars => SandboxInv'
  BY SandboxStep
<1> QED BY <1>1, <1>2, PTL DEF SandboxSpec

\* Whichever call to Docker failed, the timer fired or cleanup() came between, an
\* execution that has answered leaves no container, but for what Docker refused.
THEOREM NothingIsLeftRunning == SandboxSpec => []NothingRunsOn
<1>1. SandboxInv => NothingRunsOn
  BY DEF SandboxInv
<1> QED BY <1>1, SandboxInvariant, PTL

-----------------------------------------------------------------------------
(* AgentFleet.                                                             *)

\* An agent is of one project: the one its request is about, or it was restored for.
BelongsTo(i, p) == IF i \in FleetRequests THEN i \in AboutProject(p) ELSE i[2] = p

\* Requests under way know their project, and the agent they initialize.
IsKnown(r) ==
    /\ fleetStage[r] = "none" <=> about[r] = None
    /\ fleetStage[r] = "initializing" =>
          /\ fleetKind[r] \in {"create", "spawn", "restart"}
          /\ initializes[r] \in Agents
          /\ \A i \in Agents, p \in FleetProjects :
                initializes[r] = i /\ about[r][2] = p => BelongsTo(i, p)
          /\ fleetKind[r] # "restart" => initializes[r] = r
    /\ fleetStage[r] = "adding" => fleetKind[r] = "create"
    /\ fleetStage[r] = "unlisting" => fleetKind[r] = "delete"

\* A project's agent is its own, and one that runs is some project's.
AgentsAreOwn ==
    /\ \A p \in FleetProjects, i \in Agents : agentFor[p] = i => BelongsTo(i, p)
    /\ \A r \in FleetRequests : r \in running => about[r] # None

\* What AgentsFollowLists says of one project.
Follows(p) ==
    /\ agentFor[p] # None <=> ListedSomewhere(p) /\ p \notin bare
    /\ RunningFor(p) = {agentFor[p]} \ {None}

\* What the one request under way about a project leaves of it at each await.
Halfway(r, p) ==
    /\ fleetKind[r] = "create" =>
          /\ ~ListedSomewhere(p)
          /\ fleetStage[r] = "initializing" => agentFor[p] = None /\ RunningFor(p) = {}
          /\ fleetStage[r] = "adding" => agentFor[p] = r /\ p \notin bare /\ RunningFor(p) = {r}
    /\ fleetKind[r] = "restart" =>
          /\ ListedSomewhere(p) /\ p \notin bare /\ RunningFor(p) = {}
          /\ agentFor[p] # None /\ initializes[r] = agentFor[p]
    /\ fleetKind[r] = "delete" =>
          p \in listed[about[r][1]] /\ agentFor[p] = None /\ RunningFor(p) = {}
    /\ fleetKind[r] # "spawn"

\* A project that nothing made unclear is in one list at most and has one request under
\* way at most, and what is between its steps or requests is as it should be.
IsClear(p) ==
    /\ \A o, q \in Orgs : p \in listed[o] /\ p \in listed[q] => o = q
    /\ \A r, s \in AboutProject(p) \intersect UnderWay : r = s
    /\ \A r \in AboutProject(p) \intersect UnderWay : Halfway(r, p)
    /\ p \notin Busy => Follows(p)

FleetInv ==
    /\ FleetTypeOK /\ AgentsAreOwn
    /\ \A r \in FleetRequests : IsKnown(r)
    /\ \A p \in FleetProjects \ unclear : IsClear(p)

\* What a step about project p, of request r if any, leaves alone.
OnlyAbout(r, p) ==
    /\ \A q \in FleetProjects \ {p} :
          /\ agentFor'[q] = agentFor[q]
          /\ \A o \in Orgs : q \in listed'[o] <=> q \in listed[o]
          /\ q \in bare' <=> q \in bare
          /\ q \in unclear => q \in unclear'
    /\ \A s \in FleetRequests :
          IF s = r THEN /\ about'[s] # None /\ about'[s][2] = p
                        /\ about[s] # None => about[s] = about'[s]
          ELSE /\ about'[s] = about[s] /\ fleetKind'[s] = fleetKind[s]
               /\ fleetStage'[s] = fleetStage[s] /\ initializes'[s] = initializes[s]
    /\ \A i \in Agents : (i \in running' <=> i \in running) \/ BelongsTo(i, p)'

\* Such a step keeps the other projects clear.
LEMMA OtherProjects ==
    ASSUME FleetTypeOK, FleetTypeOK', NEW r, NEW p \in FleetProjects, OnlyAbout(r, p),
           NEW q \in FleetProjects, q # p, IsClear(q)
    PROVE  IsClear(q)'
<1>1. \A s \in FleetRequests : s \in AboutProject(q)' <=> s \in AboutProject(q)
  BY DEF OnlyAbout, AboutProject
<1>2. \A s \in AboutProject(q) :
         /\ s \in FleetRequests /\ s # r
         /\ about'[s] = about[s] /\ fleetKind'[s] = fleetKind[s]
         /\ fleetStage'[s] = fleetStage[s] /\ initializes'[s] = initializes[s]
  BY DEF OnlyAbout, AboutProject
<1>3. AboutProject(q)' = AboutProject(q)
  BY <1>1 DEF AboutProject
<1>4. (AboutProject(q) \intersect UnderWay)' = AboutProject(q) \intersect UnderWay
  BY <1>2, <1>3 DEF UnderWay
<1>5. (q \in Busy)' <=> q \in Busy
  BY <1>4 DEF Busy
<1>6. ListedSomewhere(q)' <=> ListedSomewhere(q)
  BY DEF ListedSomewhere, OnlyAbout
<1>7. RunningFor(q)' = RunningFor(q)
  <2>1. \A i \in Agents : BelongsTo(i, p)' => ~BelongsTo(i, q)'
    BY DEF BelongsTo, AboutProject
  <2>2. \A i \in Agents : BelongsTo(i, q)' <=> BelongsTo(i, q)
    BY <1>3 DEF BelongsTo
  <2>3. \A i \in Agents : i \in RunningFor(q) <=> i \in running /\ BelongsTo(i, q)
    BY DEF RunningFor, BelongsTo
  <2>4. \A i \in Agents : i \in RunningFor(q)' <=> i \in running' /\ BelongsTo(i, q)'
    BY DEF RunningFor, BelongsTo
  <2>5. RunningFor(q) \subseteq Agents /\ RunningFor(q)' \subseteq Agents
    BY DEF RunningFor, FleetTypeOK
  <2>6. \A i \in Agents : i \in RunningFor(q)' <=> i \in RunningFor(q)
    BY <2>1, <2>2, <2>3, <2>4 DEF OnlyAbout
  <2> QED BY <2>5, <2>6
<1>8. /\ agentFor'[q] = agentFor[q] /\ (q \in bare' <=> q \in bare)
      /\ \A o \in Orgs : q \in listed'[o] <=> q \in listed[o]
  BY DEF OnlyAbout
<1>9. Follows(q)' <=> Follows(q)
  BY <1>6, <1>7, <1>8 DEF Follows
<1>10. ASSUME NEW s \in AboutProject(q) \intersect UnderWay PROVE Halfway(s, q)'
  <2>1. Halfway(s, q) /\ s \in AboutProject(q)
    BY <1>10 DEF IsClear
  <2>2. about[s] \in Orgs \X FleetProjects
    BY <2>1 DEF AboutProject, FleetTypeOK
  <2> QED BY <1>2, <1>6, <1>7, <1>8, <2>1, <2>2 DEF Halfway
<1> QED BY <1>4, <1>5, <1>8, <1>9, <1>10 DEF IsClear

\* So it is enough to look at the request and the project of a step.
LEMMA AboutStep ==
    ASSUME FleetInv, FleetTypeOK', NEW r, NEW p \in FleetProjects, OnlyAbout(r, p),
           \A i \in Agents : agentFor'[p] = i => BelongsTo(i, p)',
           r \in FleetRequests => IsKnown(r)',
           p \notin unclear' => IsClear(p)'
    PROVE  FleetInv'
<1>1. \A i \in Agents, q \in FleetProjects : BelongsTo(i, q) => BelongsTo(i, q)'
  BY AgentsAssumption DEF OnlyAbout, BelongsTo, AboutProject, Agents
<1>2. AgentsAreOwn'
  <2>1. \A q \in FleetProjects, i \in Agents : agentFor'[q] = i => BelongsTo(i, q)'
    <3> SUFFICES ASSUME NEW q \in FleetProjects, q # p, NEW i \in Agents, agentFor'[q] = i
                 PROVE  BelongsTo(i, q)'
      OBVIOUS
    <3>1. agentFor[q] = i
      BY DEF OnlyAbout
    <3>2. BelongsTo(i, q)
      BY <3>1 DEF FleetInv, AgentsAreOwn
    <3> QED BY <1>1, <3>2
  <2>2. ASSUME NEW s \in FleetRequests, s \in running' PROVE about'[s] # None
    <3>1. CASE s = r
      BY <3>1 DEF OnlyAbout
    <3>2. CASE s # r
      <4>1. s \in Agents
        BY DEF Agents
      <4>2. s \in running \/ BelongsTo(s, p)'
        BY <2>2, <4>1 DEF OnlyAbout
      <4> QED BY <2>2, <3>2, <4>2 DEF OnlyAbout, BelongsTo, AboutProject, FleetInv, AgentsAreOwn
    <3> QED BY <3>1, <3>2
  <2> QED BY <2>1, <2>2 DEF AgentsAreOwn
<1>3. ASSUME NEW s \in FleetRequests PROVE IsKnown(s)'
  <2>1. CASE s = r
    BY <2>1
  <2>2. CASE s # r
    <3>1. /\ about'[s] = about[s] /\ fleetKind'[s] = fleetKind[s]
          /\ fleetStage'[s] = fleetStage[s] /\ initializes'[s] = initializes[s]
      BY <2>2 DEF OnlyAbout
    <3>2. IsKnown(s)
      BY DEF FleetInv
    <3>3. fleetStage[s] = "initializing" =>
             \A i \in Agents, q \in FleetProjects :
                initializes[s] = i /\ about[s][2] = q => BelongsTo(i, q)'
      BY <1>1, <3>2 DEF IsKnown
    <3> QED BY <3>1, <3>2, <3>3 DEF IsKnown
  <2> QED BY <2>1, <2>2
<1>4. ASSUME NEW q \in FleetProjects, q \notin unclear' PROVE IsClear(q)'
  <2>1. CASE q = p
    BY <1>4, <2>1
  <2>2. CASE q # p
    <3>1. q \notin unclear
      BY <1>4, <2>2 DEF OnlyAbout
    <3> QED BY <2>2, <3>1, OtherProjects DEF FleetInv
  <2> QED BY <2>1, <2>2
<1> QED BY <1>2, <1>3, <1>4 DEF FleetInv

\* The agents that run for a project.
LEMMA RunningForIs ==
    ASSUME NEW p
    PROVE  /\ RunningFor(p) = {i \in running : BelongsTo(i, p)}
           /\ RunningFor(p)' = {i \in running' : BelongsTo(i, p)'}
BY DEF RunningFor, BelongsTo

\* What is so of a request that begins.
LEMMA BeginsRequest ==
    ASSUME FleetInv, NEW r \in FleetRequests, NEW kind, NEW o \in Orgs, NEW p \in FleetProjects,
           NEW stage \in {"initializing", "unlisting"}, NEW clashes \in BOOLEAN,
           BeginRequest(r, kind, o, p, stage, clashes)
    PROVE  /\ fleetStage[r] = "none" /\ about[r] = None /\ r \notin running
           /\ about'[r] = <<o, p>> /\ about'[r] # None
           /\ fleetKind'[r] = kind /\ fleetStage'[r] = stage
           /\ \A s \in FleetRequests \ {r} :
                 about'[s] = about[s] /\ fleetKind'[s] = fleetKind[s] /\ fleetStage'[s] = fleetStage[s]
           /\ unclear \subseteq unclear' /\ unclear' \subseteq unclear \union {p}
           /\ \A i \in Agents \ {r} : BelongsTo(i, p)' <=> BelongsTo(i, p)
           /\ BelongsTo(r, p)'
           /\ p \notin unclear' =>
                 /\ p \notin unclear /\ ~clashes /\ IsClear(p) /\ Follows(p)
                 /\ (AboutProject(p) \intersect UnderWay)' = {r}
                 /\ p \in Busy'
<1>1. /\ fleetStage[r] = "none" /\ about'[r] = <<o, p>>
      /\ fleetKind'[r] = kind /\ fleetStage'[r] = stage
      /\ \A s \in FleetRequests \ {r} :
            about'[s] = about[s] /\ fleetKind'[s] = fleetKind[s] /\ fleetStage'[s] = fleetStage[s]
      /\ unclear' = IF clashes \/ p \in Busy THEN unclear \union {p} ELSE unclear
  BY DEF BeginRequest, FleetInv, FleetTypeOK
<1>2. about[r] = None /\ r \notin running
  BY <1>1 DEF FleetInv, IsKnown, AgentsAreOwn
<1>3. about'[r] # None
  BY <1>1, AgentsAssumption DEF Agents
<1>4. AboutProject(p)' = AboutProject(p) \union {r}
  BY <1>1, <1>3 DEF AboutProject
<1>5. BelongsTo(r, p)' /\ \A i \in Agents \ {r} : BelongsTo(i, p)' <=> BelongsTo(i, p)
  BY <1>4 DEF BelongsTo
<1>6. ASSUME p \notin unclear'
      PROVE  /\ p \notin unclear /\ ~clashes /\ IsClear(p) /\ Follows(p)
             /\ (AboutProject(p) \intersect UnderWay)' = {r}
             /\ p \in Busy'
  <2>1. p \notin unclear /\ ~clashes /\ p \notin Busy
    BY <1>1, <1>6
  <2>2. IsClear(p)
    BY <2>1 DEF FleetInv
  <2>3. AboutProject(p) \intersect UnderWay = {}
    BY <2>1 DEF Busy
  <2>4. (AboutProject(p) \intersect UnderWay)' = {r}
    BY <1>1, <1>4, <2>3 DEF UnderWay
  <2>5. p \in Busy'
    BY <2>4 DEF Busy
  <2> QED BY <2>1, <2>2, <2>4, <2>5 DEF IsClear
<1> QED BY <1>1, <1>2, <1>3, <1>5, <1>6

\* POST /api/projects begins.
LEMMA CreateStep ==
    ASSUME FleetInv, FleetTypeOK', NEW r \in FleetRequests, NEW o \in Orgs, NEW p \in FleetProjects,
           CreateProject(r, o, p)
    PROVE  FleetInv'
<1>1. /\ UNCHANGED <<listed, agentFor, running, bare>>
      /\ initializes' = [initializes EXCEPT ![r] = r]
  BY DEF CreateProject
<1>a. \/ BeginRequest(r, "create", o, p, "initializing", TRUE)
      \/ /\ BeginRequest(r, "create", o, p, "initializing", FALSE)
         /\ agentFor[p] = None /\ ~ListedSomewhere(p)
  <2>1. CASE agentFor[p] # None \/ ListedSomewhere(p)
    BY <2>1 DEF CreateProject, BeginRequest
  <2>2. CASE ~(agentFor[p] # None \/ ListedSomewhere(p))
    BY <2>2 DEF CreateProject, BeginRequest
  <2> QED BY <2>1, <2>2
<1>2. /\ fleetStage[r] = "none" /\ about[r] = None /\ r \notin running
      /\ about'[r] = <<o, p>> /\ about'[r] # None
      /\ fleetKind'[r] = "create" /\ fleetStage'[r] = "initializing"
      /\ \A s \in FleetRequests \ {r} :
            about'[s] = about[s] /\ fleetKind'[s] = fleetKind[s] /\ fleetStage'[s] = fleetStage[s]
      /\ unclear \subseteq unclear' /\ unclear' \subseteq unclear \union {p}
      /\ \A i \in Agents \ {r} : BelongsTo(i, p)' <=> BelongsTo(i, p)
      /\ BelongsTo(r, p)'
      /\ p \notin unclear' =>
            /\ p \notin unclear /\ IsClear(p) /\ Follows(p)
            /\ agentFor[p] = None /\ ~ListedSomewhere(p)
            /\ (AboutProject(p) \intersect UnderWay)' = {r}
            /\ p \in Busy'
  BY <1>a, BeginsRequest
<1>3. /\ r \in Agents /\ initializes'[r] = r
      /\ \A s \in FleetRequests \ {r} : initializes'[s] = initializes[s]
  BY <1>1 DEF FleetInv, FleetTypeOK, Agents
<1>4. OnlyAbout(r, p)
  <2>1. \A q \in FleetProjects \ {p} :
           /\ agentFor'[q] = agentFor[q]
           /\ \A w \in Orgs : q \in listed'[w] <=> q \in listed[w]
           /\ q \in bare' <=> q \in bare
           /\ q \in unclear => q \in unclear'
    BY <1>1, <1>2, <1>3
  <2>2. \A s \in FleetRequests :
           IF s = r THEN /\ about'[s] # None /\ about'[s][2] = p
                         /\ about[s] # None => about[s] = about'[s]
           ELSE /\ about'[s] = about[s] /\ fleetKind'[s] = fleetKind[s]
                /\ fleetStage'[s] = fleetStage[s] /\ initializes'[s] = initializes[s]
    BY <1>1, <1>2, <1>3
  <2>3. \A i \in Agents : (i \in running' <=> i \in running) \/ BelongsTo(i, p)'
    BY <1>1, <1>2, <1>3
  <2> QED BY <2>1, <2>2, <2>3 DEF OnlyAbout
<1>5. ASSUME NEW i \in Agents, agentFor'[p] = i PROVE BelongsTo(i, p)'
  BY <1>1, <1>2, <1>5 DEF FleetInv, AgentsAreOwn
<1>6. IsKnown(r)'
  BY <1>2, <1>3 DEF IsKnown
<1>7. ASSUME p \notin unclear' PROVE IsClear(p)'
  <2>1. RunningFor(p)' = RunningFor(p)
    <3>1. running' = running /\ \A i \in running : BelongsTo(i, p)' <=> BelongsTo(i, p)
      BY <1>1, <1>2 DEF FleetInv, FleetTypeOK
    <3> QED BY <3>1, RunningForIs
  <2>2. agentFor[p] = None /\ ~ListedSomewhere(p)
    BY <1>2, <1>7
  <2>3. RunningFor(p) = {}
    BY <1>2, <1>7, <2>2 DEF Follows
  <2>4. Halfway(r, p)'
    BY <1>1, <1>2, <2>1, <2>2, <2>3 DEF Halfway, ListedSomewhere
  <2> QED BY <1>1, <1>2, <1>7, <2>4 DEF IsClear
<1> QED BY <1>4, <1>5, <1>6, <1>7, AboutStep

\* POST /api/agents begins.
LEMMA SpawnStep ==
    ASSUME FleetInv, FleetTypeOK', NEW r \in FleetRequests, NEW o \in Orgs, NEW p \in FleetProjects,
           SpawnAgent(r, o, p)
    PROVE  FleetInv'
<1>1. /\ BeginRequest(r, "spawn", o, p, "initializing", TRUE)
      /\ UNCHANGED <<listed, agentFor, running, bare>>
      /\ initializes' = [initializes EXCEPT ![r] = r]
  BY DEF SpawnAgent
<1>2. /\ fleetStage[r] = "none" /\ about[r] = None /\ r \notin running
      /\ about'[r] = <<o, p>> /\ about'[r] # None
      /\ fleetKind'[r] = "spawn" /\ fleetStage'[r] = "initializing"
      /\ \A s \in FleetRequests \ {r} :
            about'[s] = about[s] /\ fleetKind'[s] = fleetKind[s] /\ fleetStage'[s] = fleetStage[s]
      /\ unclear \subseteq unclear' /\ unclear' \subseteq unclear \union {p}
      /\ \A i \in Agents \ {r} : BelongsTo(i, p)' <=> BelongsTo(i, p)
      /\ BelongsTo(r, p)'
      /\ p \in unclear'
  BY <1>1, BeginsRequest
<1>3. /\ r \in Agents /\ initializes'[r] = r
      /\ \A s \in FleetRequests \ {r} : initializes'[s] = initializes[s]
  BY <1>1 DEF FleetInv, FleetTypeOK, Agents
<1>4. OnlyAbout(r, p)
  <2>1. \A q \in FleetProjects \ {p} :
           /\ agentFor'[q] = agentFor[q]
           /\ \A w \in Orgs : q \in listed'[w] <=> q \in listed[w]
           /\ q \in bare' <=> q \in bare
           /\ q \in unclear => q \in unclear'
    BY <1>1, <1>2, <1>3
  <2>2. \A s \in FleetRequests :
           IF s = r THEN /\ about'[s] # None /\ about'[s][2] = p
                         /\ about[s] # None => about[s] = about'[s]
           ELSE /\ about'[s] = about[s] /\ fleetKind'[s] = fleetKind[s]
                /\ fleetStage'[s] = fleetStage[s] /\ initializes'[s] = initializes[s]
    BY <1>1, <1>2, <1>3
  <2>3. \A i \in Agents : (i \in running' <=> i \in running) \/ BelongsTo(i, p)'
    BY <1>1, <1>2, <1>3
  <2> QED BY <2>1, <2>2, <2>3 DEF OnlyAbout
<1>5. ASSUME NEW i \in Agents, agentFor'[p] = i PROVE BelongsTo(i, p)'
  BY <1>1, <1>2, <1>5 DEF FleetInv, AgentsAreOwn
<1>6. IsKnown(r)'
  BY <1>2, <1>3 DEF IsKnown
<1> QED BY <1>2, <1>4, <1>5, <1>6, AboutStep

\* POST /api/agents/:id/restart begins: the agent is shut down.
LEMMA RestartStep ==
    ASSUME FleetInv, FleetTypeOK', NEW r \in FleetRequests, NEW o \in Orgs, NEW p \in FleetProjects,
           RestartAgent(r, o, p)
    PROVE  FleetInv'
<1>1. /\ BeginRequest(r, "restart", o, p, "initializing", FALSE)
      /\ UNCHANGED <<listed, agentFor, bare>>
      /\ initializes' = [initializes EXCEPT ![r] = agentFor[p]]
      /\ running' = running \ {agentFor[p]}
      /\ agentFor[p] # None
  BY DEF RestartAgent
<1>2. /\ fleetStage[r] = "none" /\ about[r] = None /\ r \notin running
      /\ about'[r] = <<o, p>> /\ about'[r] # None
      /\ fleetKind'[r] = "restart" /\ fleetStage'[r] = "initializing"
      /\ \A s \in FleetRequests \ {r} :
            about'[s] = about[s] /\ fleetKind'[s] = fleetKind[s] /\ fleetStage'[s] = fleetStage[s]
      /\ unclear \subseteq unclear' /\ unclear' \subseteq unclear \union {p}
      /\ \A i \in Agents \ {r} : BelongsTo(i, p)' <=> BelongsTo(i, p)
      /\ BelongsTo(r, p)'
      /\ p \notin unclear' =>
            /\ p \notin unclear /\ IsClear(p) /\ Follows(p)
            /\ (AboutProject(p) \intersect UnderWay)' = {r}
            /\ p \in Busy'
  BY <1>1, BeginsRequest
<1>3. /\ r \in Agents /\ initializes'[r] = agentFor[p] /\ agentFor[p] \in Agents
      /\ \A s \in FleetRequests \ {r} : initializes'[s] = initializes[s]
  BY <1>1 DEF FleetInv, FleetTypeOK, Agents
<1>4. \A i \in Agents : agentFor[p] = i => BelongsTo(i, p)'
  BY <1>2 DEF FleetInv, AgentsAreOwn
<1>5. OnlyAbout(r, p)
  <2>1. \A q \in FleetProjects \ {p} :
           /\ agentFor'[q] = agentFor[q]
           /\ \A w \in Orgs : q \in listed'[w] <=> q \in listed[w]
           /\ q \in bare' <=> q \in bare
           /\ q \in unclear => q \in unclear'
    BY <1>1, <1>2, <1>3, <1>4
  <2>2. \A s \in FleetRequests :
           IF s = r THEN /\ about'[s] # None /\ about'[s][2] = p
                         /\ about[s] # None => about[s] = about'[s]
           ELSE /\ about'[s] = about[s] /\ fleetKind'[s] = fleetKind[s]
                /\ fleetStage'[s] = fleetStage[s] /\ initializes'[s] = initializes[s]
    <3>1. about'[r] # None /\ about'[r][2] = p /\ about[r] = None
      BY <1>2
    <3>2. \A s \in FleetRequests \ {r} :
             /\ about'[s] = about[s] /\ fleetKind'[s] = fleetKind[s]
             /\ fleetStage'[s] = fleetStage[s] /\ initializes'[s] = initializes[s]
      BY <1>2, <1>3
    <3> QED BY <3>1, <3>2
  <2>3. \A i \in Agents : (i \in running' <=> i \in running) \/ BelongsTo(i, p)'
    BY <1>1, <1>2, <1>3, <1>4
  <2> QED BY <2>1, <2>2, <2>3 DEF OnlyAbout
<1>6. IsKnown(r)'
  BY <1>2, <1>3, <1>4 DEF IsKnown
<1>7. ASSUME p \notin unclear' PROVE IsClear(p)'
  <2>1. RunningFor(p) = {agentFor[p]}
    BY <1>1, <1>2, <1>7 DEF Follows
  <2>2. RunningFor(p)' = {}
    BY <1>1, <1>2, <2>1, RunningForIs DEF FleetInv, FleetTypeOK
  <2>3. ListedSomewhere(p) /\ p \notin bare
    BY <1>1, <1>2, <1>7 DEF Follows
  <2>4. Halfway(r, p)'
    BY <1>1, <1>2, <1>3, <2>2, <2>3 DEF Halfway, ListedSomewhere
  <2> QED BY <1>1, <1>2, <1>7, <2>4 DEF IsClear
<1>8. \A i \in Agents : agentFor'[p] = i => BelongsTo(i, p)'
  BY <1>1, <1>4
<1> QED BY <1>5, <1>6, <1>7, <1>8, AboutStep

\* DELETE /api/projects/:id begins: the agent is removed.
LEMMA DeleteStep ==
    ASSUME FleetInv, FleetTypeOK', NEW r \in FleetRequests, NEW o \in Orgs, NEW p \in FleetProjects,
           DeleteProject(r, o, p)
    PROVE  FleetInv'
<1>1. /\ BeginRequest(r, "delete", o, p, "unlisting", FALSE)
      /\ UNCHANGED <<listed, initializes, bare>>
      /\ running' = running \ {agentFor[p]}
      /\ agentFor' = [agentFor EXCEPT ![p] = None]
      /\ p \in listed[o]
  BY DEF DeleteProject, RemoveAgent, Stopped
<1>2. /\ fleetStage[r] = "none" /\ about[r] = None /\ r \notin running
      /\ about'[r] = <<o, p>> /\ about'[r] # None
      /\ fleetKind'[r] = "delete" /\ fleetStage'[r] = "unlisting"
      /\ \A s \in FleetRequests \ {r} :
            about'[s] = about[s] /\ fleetKind'[s] = fleetKind[s] /\ fleetStage'[s] = fleetStage[s]
      /\ unclear \subseteq unclear' /\ unclear' \subseteq unclear \union {p}
      /\ \A i \in Agents \ {r} : BelongsTo(i, p)' <=> BelongsTo(i, p)
      /\ BelongsTo(r, p)'
      /\ p \notin unclear' =>
            /\ p \notin unclear /\ IsClear(p) /\ Follows(p)
            /\ (AboutProject(p) \intersect UnderWay)' = {r}
            /\ p \in Busy'
  BY <1>1, BeginsRequest
<1>3. /\ agentFor'[p] = None
      /\ \A q \in FleetProjects \ {p} : agentFor'[q] = agentFor[q]
  BY <1>1 DEF FleetInv, FleetTypeOK
<1>4. \A i \in Agents : agentFor[p] = i => BelongsTo(i, p)'
  BY <1>2 DEF FleetInv, AgentsAreOwn
<1>5. OnlyAbout(r, p)
  <2>1. \A q \in FleetProjects \ {p} :
           /\ agentFor'[q] = agentFor[q]
           /\ \A w \in Orgs : q \in listed'[w] <=> q \in listed[w]
           /\ q \in bare' <=> q \in bare
           /\ q \in unclear => q \in unclear'
    BY <1>1, <1>2, <1>3, <1>4
  <2>2. \A s \in FleetRequests :
           IF s = r THEN /\ about'[s] # None /\ about'[s][2] = p
                         /\ about[s] # None => about[s] = about'[s]
           ELSE /\ about'[s] = about[s] /\ fleetKind'[s] = fleetKind[s]
                /\ fleetStage'[s] = fleetStage[s] /\ initializes'[s] = initializes[s]
    <3>1. about'[r] # None /\ about'[r][2] = p /\ about[r] = None
      BY <1>2
    <3>2. \A s \in FleetRequests \ {r} :
             /\ about'[s] = about[s] /\ fleetKind'[s] = fleetKind[s]
             /\ fleetStage'[s] = fleetStage[s] /\ initializes'[s] = initializes[s]
      BY <1>2, <1>1
    <3> QED BY <3>1, <3>2
  <2>3. \A i \in Agents : (i \in running' <=> i \in running) \/ BelongsTo(i, p)'
    BY <1>1, <1>2, <1>3, <1>4
  <2> QED BY <2>1, <2>2, <2>3 DEF OnlyAbout
<1>6. IsKnown(r)'
  BY <1>2 DEF IsKnown
<1>7. ASSUME p \notin unclear' PROVE IsClear(p)'
  <2>1. RunningFor(p) \subseteq {agentFor[p]}
    BY <1>1, <1>2, <1>7 DEF Follows
  <2>2. RunningFor(p)' = {}
    BY <1>1, <1>2, <2>1, RunningForIs DEF FleetInv, FleetTypeOK
  <2>3. Halfway(r, p)'
    BY <1>1, <1>2, <1>3, <2>2 DEF Halfway
  <2> QED BY <1>1, <1>2, <1>7, <2>3 DEF IsClear
<1>8. \A i \in Agents : agentFor'[p] = i => BelongsTo(i, p)'
  BY <1>3, AgentsAssumption
<1> QED BY <1>5, <1>6, <1>7, <1>8, AboutStep

\* What is so of a request that goes on.
LEMMA FleetRequestGoesOn ==
    ASSUME FleetInv, NEW r \in FleetRequests, NEW stage \in {"adding", "done"},
           fleetStage[r] \notin {"none", "done"}, Proceed(r, stage)
    PROVE  /\ about[r] # None /\ about[r][1] \in Orgs /\ about[r][2] \in FleetProjects
           /\ about' = about /\ fleetKind' = fleetKind /\ fleetStage'[r] = stage
           /\ \A s \in FleetRequests \ {r} : fleetStage'[s] = fleetStage[s]
           /\ \A i \in Agents, q \in FleetProjects : BelongsTo(i, q)' <=> BelongsTo(i, q)
           /\ BelongsTo(r, about[r][2])
           /\ about[r][2] \notin unclear =>
                 /\ IsClear(about[r][2]) /\ Halfway(r, about[r][2])
                 /\ AboutProject(about[r][2]) \intersect UnderWay = {r}
                 /\ (AboutProject(about[r][2]) \intersect UnderWay)' = IF stage = "done" THEN {} ELSE {r}
                 /\ about[r][2] \in Busy' <=> stage # "done"
<1>1. /\ about' = about /\ fleetKind' = fleetKind /\ fleetStage'[r] = stage
      /\ \A s \in FleetRequests \ {r} : fleetStage'[s] = fleetStage[s]
  BY DEF Proceed, FleetInv, FleetTypeOK
<1>2. about[r] # None
  BY DEF FleetInv, IsKnown
<1>3. about[r] \in Orgs \X FleetProjects
  BY <1>2 DEF FleetInv, FleetTypeOK
<1>4. about[r][1] \in Orgs /\ about[r][2] \in FleetProjects
  BY <1>3
<1>5. \A i \in Agents, q \in FleetProjects : BelongsTo(i, q)' <=> BelongsTo(i, q)
  BY <1>1 DEF BelongsTo, AboutProject
<1>6. BelongsTo(r, about[r][2]) /\ r \in AboutProject(about[r][2]) /\ r \in UnderWay
  BY <1>2 DEF BelongsTo, AboutProject, UnderWay
<1>7. PICK p \in FleetProjects : about[r][2] = p
  BY <1>4
<1>8. AboutProject(p)' = AboutProject(p)
  BY <1>1 DEF AboutProject
<1>9. ASSUME p \notin unclear
      PROVE  /\ IsClear(p) /\ Halfway(r, p)
             /\ AboutProject(p) \intersect UnderWay = {r}
             /\ (AboutProject(p) \intersect UnderWay)' = IF stage = "done" THEN {} ELSE {r}
             /\ p \in Busy' <=> stage # "done"
  <2>1. IsClear(p)
    BY <1>9 DEF FleetInv
  <2>2. r \in AboutProject(p) \intersect UnderWay
    BY <1>6, <1>7
  <2>3. AboutProject(p) \intersect UnderWay = {r} /\ Halfway(r, p)
    BY <2>1, <2>2 DEF IsClear
  <2>4. \A s \in FleetRequests : s \in UnderWay' <=> IF s = r THEN stage # "done" ELSE s \in UnderWay
    BY <1>1 DEF UnderWay
  <2>5. AboutProject(p) \subseteq FleetRequests
    BY DEF AboutProject
  <2>6. (AboutProject(p) \intersect UnderWay)' = IF stage = "done" THEN {} ELSE {r}
    BY <1>8, <2>2, <2>3, <2>4, <2>5
  <2>7. p \in Busy' <=> stage # "done"
    BY <2>6 DEF Busy
  <2> QED BY <2>1, <2>3, <2>6, <2>7
<1> QED BY <1>1, <1>2, <1>4, <1>5, <1>6, <1>7, <1>9

\* The initialization a request awaits returns.
LEMMA InitializedStep ==
    ASSUME FleetInv, FleetTypeOK', NEW r \in FleetRequests, Initialized(r)
    PROVE  FleetInv'
<1> DEFINE stage == IF fleetKind[r] = "create" THEN "adding" ELSE "done"
<1>1. /\ fleetStage[r] = "initializing" /\ Proceed(r, stage)
      /\ UNCHANGED <<listed, unclear>>
      /\ initializes' = [initializes EXCEPT ![r] = None]
      /\ running' = running \union {initializes[r]}
  BY DEF Initialized
<1>2. PICK p : p = about[r][2]
  OBVIOUS
<1>3. /\ about[r] # None /\ about[r][1] \in Orgs /\ p \in FleetProjects
      /\ about' = about /\ fleetKind' = fleetKind /\ fleetStage'[r] = stage
      /\ \A s \in FleetRequests \ {r} : fleetStage'[s] = fleetStage[s]
      /\ \A i \in Agents, q \in FleetProjects : BelongsTo(i, q)' <=> BelongsTo(i, q)
      /\ BelongsTo(r, p)
      /\ p \notin unclear =>
            /\ IsClear(p) /\ Halfway(r, p)
            /\ AboutProject(p) \intersect UnderWay = {r}
            /\ (AboutProject(p) \intersect UnderWay)' = IF stage = "done" THEN {} ELSE {r}
            /\ p \in Busy' <=> stage # "done"
  BY <1>1, <1>2, FleetRequestGoesOn
<1>4. /\ fleetKind[r] \in {"create", "spawn", "restart"} /\ initializes[r] \in Agents
      /\ BelongsTo(initializes[r], p)
      /\ fleetKind[r] # "restart" => initializes[r] = r
  BY <1>1, <1>2, <1>3 DEF FleetInv, IsKnown
<1>5. /\ r \in Agents
      /\ \A s \in FleetRequests \ {r} : initializes'[s] = initializes[s]
      /\ \A q \in FleetProjects \ {p} : agentFor'[q] = agentFor[q] /\ (q \in bare' <=> q \in bare)
      /\ fleetKind[r] = "restart" => agentFor' = agentFor /\ bare' = bare
      /\ fleetKind[r] # "restart" => agentFor'[p] = r /\ p \notin bare'
  BY <1>1, <1>2, <1>3 DEF Initialized, FleetInv, FleetTypeOK, Agents
<1>6. \A i \in Agents : (i \in running' <=> i \in running) \/ BelongsTo(i, p)'
  <2>1. \A i \in Agents : i = initializes[r] => BelongsTo(i, p)'
    BY <1>3, <1>4
  <2> QED BY <1>1, <2>1
<1>7. OnlyAbout(r, p)
  <2>1. \A s \in FleetRequests :
           IF s = r THEN /\ about'[s] # None /\ about'[s][2] = p
                         /\ about[s] # None => about[s] = about'[s]
           ELSE /\ about'[s] = about[s] /\ fleetKind'[s] = fleetKind[s]
                /\ fleetStage'[s] = fleetStage[s] /\ initializes'[s] = initializes[s]
    BY <1>2, <1>3, <1>5
  <2> QED BY <1>1, <1>5, <1>6, <2>1 DEF OnlyAbout
<1>8. \A i \in Agents : agentFor'[p] = i => BelongsTo(i, p)'
  BY <1>3, <1>5 DEF FleetInv, AgentsAreOwn
<1>9. IsKnown(r)'
  BY <1>3 DEF IsKnown
<1>10. ASSUME p \notin unclear' PROVE IsClear(p)'
  <2>1. /\ IsClear(p) /\ Halfway(r, p)
        /\ (AboutProject(p) \intersect UnderWay)' = IF stage = "done" THEN {} ELSE {r}
        /\ p \in Busy' <=> stage # "done"
    BY <1>1, <1>3, <1>10
  <2>2. RunningFor(p) = {} /\ RunningFor(p)' = {initializes[r]}
    <3>1. RunningFor(p) = {}
      BY <1>1, <1>4, <2>1 DEF Halfway
    <3>2. \A i \in running : BelongsTo(i, p)' <=> BelongsTo(i, p)
      BY <1>3 DEF FleetInv, FleetTypeOK
    <3>3. \A i \in running : ~BelongsTo(i, p)
      BY <3>1, RunningForIs
    <3>4. \A i : i \in RunningFor(p)' <=> i \in running' /\ BelongsTo(i, p)'
      BY RunningForIs
    <3>5. \A i \in Agents : i = initializes[r] => BelongsTo(i, p)'
      BY <1>3, <1>4
    <3>6. \A i : i \in RunningFor(p)' <=> i = initializes[r]
      BY <1>1, <1>4, <3>2, <3>3, <3>4, <3>5
    <3> QED BY <3>1, <3>6
  <2>3. ListedSomewhere(p)' <=> ListedSomewhere(p)
    BY <1>1 DEF ListedSomewhere
  <2>4. CASE fleetKind[r] = "create"
    <3>1. Halfway(r, p)'
      BY <1>3, <1>4, <1>5, <2>1, <2>2, <2>3, <2>4 DEF Halfway
    <3> QED BY <1>1, <2>1, <2>4, <3>1 DEF IsClear
  <2>5. CASE fleetKind[r] = "restart"
    <3>1. Follows(p)'
      BY <1>3, <1>4, <1>5, <2>1, <2>2, <2>3, <2>5 DEF Halfway, Follows
    <3> QED BY <1>1, <2>1, <2>5, <3>1 DEF IsClear
  <2> QED BY <1>4, <2>1, <2>4, <2>5 DEF Halfway
<1> QED BY <1>3, <1>7, <1>8, <1>9, <1>10, AboutStep

\* It throws.
LEMMA NotInitializedStep ==
    ASSUME FleetInv, FleetTypeOK', NEW r \in FleetRequests, NotInitialized(r)
    PROVE  FleetInv'
<1>1. /\ fleetStage[r] = "initializing" /\ Proceed(r, "done")
      /\ UNCHANGED <<listed, agentFor, running, bare>>
      /\ initializes' = [initializes EXCEPT ![r] = None]
  BY DEF NotInitialized, FailsHalfway
<1>2. PICK p : p = about[r][2]
  OBVIOUS
<1>3. /\ about[r] # None /\ about[r][1] \in Orgs /\ p \in FleetProjects
      /\ about' = about /\ fleetKind' = fleetKind /\ fleetStage'[r] = "done"
      /\ \A s \in FleetRequests \ {r} : fleetStage'[s] = fleetStage[s]
      /\ \A i \in Agents, q \in FleetProjects : BelongsTo(i, q)' <=> BelongsTo(i, q)
      /\ BelongsTo(r, p)
      /\ p \notin unclear =>
            /\ IsClear(p) /\ Halfway(r, p)
            /\ AboutProject(p) \intersect UnderWay = {r}
            /\ (AboutProject(p) \intersect UnderWay)' = {}
            /\ p \notin Busy'
  BY <1>1, <1>2, FleetRequestGoesOn
<1>4. /\ fleetKind[r] = "restart" => p \in unclear'
      /\ unclear \subseteq unclear' /\ unclear' \subseteq unclear \union {p}
  BY <1>2 DEF NotInitialized, FailsHalfway
<1>5. \A s \in FleetRequests \ {r} : initializes'[s] = initializes[s]
  BY <1>1 DEF FleetInv, FleetTypeOK
<1>7. OnlyAbout(r, p)
  <2>1. \A s \in FleetRequests :
           IF s = r THEN /\ about'[s] # None /\ about'[s][2] = p
                         /\ about[s] # None => about[s] = about'[s]
           ELSE /\ about'[s] = about[s] /\ fleetKind'[s] = fleetKind[s]
                /\ fleetStage'[s] = fleetStage[s] /\ initializes'[s] = initializes[s]
    BY <1>2, <1>3, <1>5
  <2> QED BY <1>1, <1>4, <2>1 DEF OnlyAbout
<1>8. \A i \in Agents : agentFor'[p] = i => BelongsTo(i, p)'
  BY <1>1, <1>3 DEF FleetInv, AgentsAreOwn
<1>9. IsKnown(r)'
  BY <1>3 DEF IsKnown
<1>10. ASSUME p \notin unclear' PROVE IsClear(p)'
  <2>1. /\ IsClear(p) /\ Halfway(r, p) /\ fleetKind[r] = "create"
        /\ (AboutProject(p) \intersect UnderWay)' = {}
    BY <1>1, <1>3, <1>4, <1>10 DEF Halfway, FleetInv, IsKnown
  <2>2. RunningFor(p) = {} /\ RunningFor(p)' = RunningFor(p)
    <3>1. RunningFor(p) = {}
      BY <1>1, <2>1 DEF Halfway
    <3>2. running' = running /\ \A i \in running : BelongsTo(i, p)' <=> BelongsTo(i, p)
      BY <1>1, <1>3 DEF FleetInv, FleetTypeOK
    <3> QED BY <3>1, <3>2, RunningForIs
  <2>3. Follows(p)'
    BY <1>1, <2>1, <2>2 DEF Halfway, Follows, ListedSomewhere
  <2> QED BY <1>1, <2>1, <2>3 DEF IsClear
<1> QED BY <1>3, <1>7, <1>8, <1>9, <1>10, AboutStep

\* The list's write, of a project created or deleted, succeeds or fails.
LEMMA ListStep ==
    ASSUME FleetInv, FleetTypeOK', NEW r \in FleetRequests, AddProject(r) \/ RemoveProject(r)
    PROVE  FleetInv'
<1>1. /\ fleetStage[r] \in {"adding", "unlisting"} /\ Proceed(r, "done")
      /\ UNCHANGED <<agentFor, running, initializes, bare>>
  BY DEF AddProject, RemoveProject, FailsHalfway
<1>2. PICK p : p = about[r][2]
  OBVIOUS
<1>3. /\ about[r] # None /\ about[r][1] \in Orgs /\ p \in FleetProjects
      /\ about' = about /\ fleetKind' = fleetKind /\ fleetStage'[r] = "done"
      /\ \A s \in FleetRequests \ {r} : fleetStage'[s] = fleetStage[s]
      /\ \A i \in Agents, q \in FleetProjects : BelongsTo(i, q)' <=> BelongsTo(i, q)
      /\ BelongsTo(r, p)
      /\ p \notin unclear =>
            /\ IsClear(p) /\ Halfway(r, p)
            /\ AboutProject(p) \intersect UnderWay = {r}
            /\ (AboutProject(p) \intersect UnderWay)' = {}
            /\ p \notin Busy'
  BY <1>1, <1>2, FleetRequestGoesOn
<1>4. /\ unclear \subseteq unclear' /\ unclear' \subseteq unclear \union {p}
      /\ \A o \in Orgs, q \in FleetProjects \ {p} : q \in listed'[o] <=> q \in listed[o]
  BY <1>2, <1>3 DEF AddProject, RemoveProject, FailsHalfway, FleetInv, FleetTypeOK
<1>5. OnlyAbout(r, p)
  <2>1. \A s \in FleetRequests :
           IF s = r THEN /\ about'[s] # None /\ about'[s][2] = p
                         /\ about[s] # None => about[s] = about'[s]
           ELSE /\ about'[s] = about[s] /\ fleetKind'[s] = fleetKind[s]
                /\ fleetStage'[s] = fleetStage[s] /\ initializes'[s] = initializes[s]
    BY <1>1, <1>2, <1>3
  <2> QED BY <1>1, <1>4, <2>1 DEF OnlyAbout
<1>6. \A i \in Agents : agentFor'[p] = i => BelongsTo(i, p)'
  BY <1>1, <1>3 DEF FleetInv, AgentsAreOwn
<1>7. IsKnown(r)'
  BY <1>3 DEF IsKnown
<1>8. ASSUME p \notin unclear' PROVE IsClear(p)'
  <2>1. /\ p \notin unclear /\ IsClear(p) /\ Halfway(r, p)
        /\ (AboutProject(p) \intersect UnderWay)' = {}
    BY <1>3, <1>4, <1>8
  <2>2. RunningFor(p)' = RunningFor(p)
    <3>1. running' = running /\ \A i \in running : BelongsTo(i, p)' <=> BelongsTo(i, p)
      BY <1>1, <1>3 DEF FleetInv, FleetTypeOK
    <3> QED BY <3>1, RunningForIs
  <2>3. CASE AddProject(r)
    <3>1. fleetStage[r] = "adding" /\ fleetKind[r] = "create"
      BY <2>3 DEF AddProject, FleetInv, IsKnown
    <3>2. \A o \in Orgs : p \in listed'[o] <=> p \in listed[o] \/ o = about[r][1]
      BY <1>2, <1>3, <1>8, <2>3 DEF AddProject, FailsHalfway, FleetInv, FleetTypeOK
    <3>3. /\ ~ListedSomewhere(p) /\ agentFor[p] = r /\ p \notin bare /\ RunningFor(p) = {r}
      BY <2>1, <3>1 DEF Halfway
    <3>4. \A o \in Orgs : p \in listed'[o] <=> o = about[r][1]
      BY <3>2, <3>3 DEF ListedSomewhere
    <3>5. ListedSomewhere(p)'
      BY <1>3, <3>4 DEF ListedSomewhere
    <3>6. Follows(p)'
      BY <1>1, <2>2, <3>3, <3>5, FleetAssumption DEF Follows
    <3> QED BY <2>1, <3>4, <3>6 DEF IsClear
  <2>4. CASE RemoveProject(r)
    <3>1. fleetStage[r] = "unlisting" /\ fleetKind[r] = "delete"
      BY <2>4 DEF RemoveProject, FleetInv, IsKnown
    <3>2. \A o \in Orgs : p \in listed'[o] <=> p \in listed[o] /\ o # about[r][1]
      BY <1>2, <1>3, <1>8, <2>4 DEF RemoveProject, FailsHalfway, FleetInv, FleetTypeOK
    <3>3. p \in listed[about[r][1]] /\ agentFor[p] = None /\ RunningFor(p) = {}
      BY <2>1, <3>1 DEF Halfway
    <3>4. \A o \in Orgs : p \notin listed'[o]
      BY <1>3, <2>1, <3>2, <3>3 DEF IsClear
    <3>5. Follows(p)'
      BY <1>1, <2>2, <3>3, <3>4 DEF Follows, ListedSomewhere
    <3> QED BY <2>1, <3>4, <3>5 DEF IsClear
  <2> QED BY <2>3, <2>4
<1> QED BY <1>3, <1>5, <1>6, <1>7, <1>8, AboutStep

\* DELETE /api/agents/:id.
LEMMA DeleteAgentStep ==
    ASSUME FleetInv, FleetTypeOK', NEW p \in FleetProjects, DeleteAgent(p)
    PROVE  FleetInv'
<1>1. /\ UNCHANGED <<listed, fleetKind, fleetStage, about, initializes>>
      /\ running' = running \ {agentFor[p]}
      /\ agentFor'[p] = None /\ \A q \in FleetProjects \ {p} : agentFor'[q] = agentFor[q]
      /\ agentFor[p] # None
      /\ bare' = bare \union {p} /\ unclear' = unclear \union ({p} \intersect Busy)
  BY DEF DeleteAgent, RemoveAgent, Stopped, fleetReqVars, FleetInv, FleetTypeOK
<1>2. \A i \in Agents, q \in FleetProjects : BelongsTo(i, q)' <=> BelongsTo(i, q)
  BY <1>1 DEF BelongsTo, AboutProject
<1>3. \A i \in Agents : agentFor[p] = i => BelongsTo(i, p)'
  BY <1>2 DEF FleetInv, AgentsAreOwn
<1>4. \A i \in Agents : (i \in running' <=> i \in running) \/ BelongsTo(i, p)'
  BY <1>1, <1>3
<1>5. OnlyAbout(None, p)
  BY <1>1, <1>4, FleetAssumption DEF OnlyAbout
<1>6. \A i \in Agents : agentFor'[p] = i => BelongsTo(i, p)'
  BY <1>1, AgentsAssumption
<1>7. ASSUME p \notin unclear' PROVE IsClear(p)'
  <2>1. IsClear(p) /\ p \notin Busy /\ AboutProject(p)' = AboutProject(p) /\ UnderWay' = UnderWay
    BY <1>1, <1>7 DEF FleetInv, AboutProject, UnderWay
  <2>2. Follows(p) /\ AboutProject(p) \intersect UnderWay = {}
    BY <2>1 DEF IsClear, Busy
  <2>3. RunningFor(p)' = {}
    <3>1. RunningFor(p) = {agentFor[p]}
      BY <1>1, <2>2 DEF Follows
    <3>2. \A i \in running : BelongsTo(i, p)' <=> BelongsTo(i, p)
      BY <1>2 DEF FleetInv, FleetTypeOK
    <3> QED BY <1>1, <3>1, <3>2, RunningForIs
  <2>4. Follows(p)'
    BY <1>1, <2>3 DEF Follows
  <2> QED BY <1>1, <2>1, <2>2, <2>4 DEF IsClear
<1>8. None \notin FleetRequests
  BY FleetAssumption
<1> QED BY <1>5, <1>6, <1>7, <1>8, AboutStep

\* A restart forgets the requests under way and follows the lists.
LEMMA RestoreStep ==
    ASSUME FleetInv, FleetTypeOK', RestartProcess
    PROVE  FleetInv'
<1>1. /\ UNCHANGED <<listed, fleetKind, about>>
      /\ \A r \in FleetRequests : fleetStage'[r] \in {"none", "done"}
      /\ \A r \in FleetRequests : fleetStage'[r] = "none" <=> fleetStage[r] = "none"
  BY DEF RestartProcess, UnderWay
<1>2. \A p \in FleetProjects :
         IF ListedSomewhere(p) /\ p \notin bare'
            THEN \E o \in Orgs : p \in listed[o] /\ agentFor'[p] = <<o, p>>
            ELSE agentFor'[p] = None
  BY DEF RestartProcess
<1>3. \A o \in Orgs, p \in FleetProjects :
         /\ <<o, p>> \in Agents /\ <<o, p>> \notin FleetRequests /\ <<o, p>> # None
         /\ \A q \in FleetProjects : BelongsTo(<<o, p>>, q)' <=> p = q
  BY AgentsAssumption DEF Agents, BelongsTo
<1>4. /\ \A i \in running' : \E p \in FleetProjects, o \in Orgs : i = <<o, p>> /\ agentFor'[p] = i
      /\ \A p \in FleetProjects : agentFor'[p] # None => agentFor'[p] \in running'
  BY <1>2 DEF RestartProcess
<1>5. AgentsAreOwn'
  <2>1. \A p \in FleetProjects, i \in Agents : agentFor'[p] = i => BelongsTo(i, p)'
    <3>1. ASSUME NEW p \in FleetProjects, NEW i \in Agents, agentFor'[p] = i PROVE BelongsTo(i, p)'
      <4>1. agentFor'[p] # None
        BY <3>1, AgentsAssumption
      <4>2. PICK o \in Orgs : i = <<o, p>>
        BY <1>2, <3>1, <4>1
      <4> QED BY <1>3, <4>2
    <3> QED BY <3>1
  <2>2. \A r \in FleetRequests : r \notin running'
    BY <1>3, <1>4
  <2> QED BY <2>1, <2>2 DEF AgentsAreOwn
<1>6. \A r \in FleetRequests : IsKnown(r)'
  BY <1>1 DEF IsKnown, FleetInv
<1>7. ASSUME NEW p \in FleetProjects, p \notin unclear' PROVE IsClear(p)'
  <2>1. \A o, q \in Orgs : p \in listed'[o] /\ p \in listed'[q] => o = q
    BY <1>1, <1>7 DEF RestartProcess
  <2>2. (AboutProject(p) \intersect UnderWay)' = {}
    BY <1>1 DEF UnderWay
  <2>3. agentFor'[p] # None <=> ListedSomewhere(p)' /\ p \notin bare'
    BY <1>1, <1>2, <1>3 DEF ListedSomewhere
  <2>4. \A i : i \in running' /\ BelongsTo(i, p)' <=> i = agentFor'[p] /\ i # None
    BY <1>2, <1>3, <1>4
  <2>5. RunningFor(p)' = {agentFor'[p]} \ {None}
    <3>1. \A i : i \in RunningFor(p)' <=> i \in running' /\ BelongsTo(i, p)'
      BY RunningForIs
    <3> QED BY <2>4, <3>1
  <2> QED BY <2>1, <2>2, <2>3, <2>5 DEF IsClear, Follows
<1> QED BY <1>5, <1>6, <1>7 DEF FleetInv

\* Every step keeps the types.
LEMMA FleetTypeStep ==
    ASSUME FleetInv, FleetNext PROVE FleetTypeOK'
<1> USE DEF FleetTypeOK
<1>1. ASSUME NEW r \in FleetRequests, NEW o \in Orgs, NEW p \in FleetProjects,
             CreateProject(r, o, p) \/ SpawnAgent(r, o, p)
      PROVE  FleetTypeOK'
  BY <1>1 DEF FleetInv, CreateProject, SpawnAgent, BeginRequest, Agents
<1>2. ASSUME NEW r \in FleetRequests, NEW o \in Orgs, NEW p \in FleetProjects,
             RestartAgent(r, o, p) \/ DeleteProject(r, o, p)
      PROVE  FleetTypeOK'
  BY <1>2 DEF FleetInv, RestartAgent, DeleteProject, BeginRequest, RemoveAgent
<1>3. ASSUME NEW r \in FleetRequests, Initialized(r) PROVE FleetTypeOK'
  <2>1. initializes[r] \in Agents
    BY <1>3 DEF Initialized, FleetInv, IsKnown
  <2> QED BY <1>3, <2>1 DEF FleetInv, Initialized, Proceed, Agents
<1>4. ASSUME NEW r \in FleetRequests, NotInitialized(r) \/ AddProject(r) \/ RemoveProject(r)
      PROVE  FleetTypeOK'
  <2>1. about[r][1] \in Orgs /\ about[r][2] \in FleetProjects
    BY <1>4 DEF NotInitialized, AddProject, RemoveProject, FleetInv, IsKnown
  <2>2. /\ Proceed(r, "done") /\ agentFor' = agentFor /\ running' = running /\ bare' = bare
        /\ initializes' \in [FleetRequests -> Agents \union {None}]
        /\ unclear' \subseteq unclear \union {about[r][2]}
        /\ listed' = listed \/ \E p \in FleetProjects :
              \/ listed' = [listed EXCEPT ![about[r][1]] = @ \union {p}]
              \/ listed' = [listed EXCEPT ![about[r][1]] = @ \ {p}]
    BY <1>4, <2>1 DEF FleetInv, NotInitialized, AddProject, RemoveProject, FailsHalfway
  <2> QED BY <2>1, <2>2 DEF FleetInv, Proceed
<1>5. ASSUME NEW p \in FleetProjects, DeleteAgent(p) PROVE FleetTypeOK'
  BY <1>5 DEF FleetInv, DeleteAgent, RemoveAgent, fleetReqVars
<1>6. CASE RestartProcess
  <2>1. running' \subseteq Agents /\ agentFor' \in [FleetProjects -> Agents \union {None}]
    BY <1>6 DEF RestartProcess, Agents
  <2> QED BY <1>6, <2>1 DEF FleetInv, RestartProcess, UnderWay
<1> QED BY <1>1, <1>2, <1>3, <1>4, <1>5, <1>6 DEF FleetNext

\* FleetInv holds in every state.
LEMMA FleetInvariant == FleetSpec => []FleetInv
<1>1. FleetInit => FleetInv
  <2> SUFFICES ASSUME FleetInit PROVE FleetInv
    OBVIOUS
  <2>1. FleetTypeOK
    BY DEF FleetInit, FleetTypeOK
  <2>2. AgentsAreOwn /\ \A r \in FleetRequests : IsKnown(r)
    BY AgentsAssumption DEF FleetInit, AgentsAreOwn, IsKnown
  <2>3. ASSUME NEW p \in FleetProjects PROVE IsClear(p)
    <3>1. AboutProject(p) = {} /\ RunningFor(p) = {} /\ ~ListedSomewhere(p) /\ agentFor[p] = None
      BY DEF FleetInit, AboutProject, RunningFor, ListedSomewhere
    <3>2. Follows(p)
      BY <3>1 DEF Follows
    <3> QED BY <3>1, <3>2 DEF IsClear, FleetInit
  <2> QED BY <2>1, <2>2, <2>3 DEF FleetInv
<1>2. FleetInv /\ [FleetNext]_fleetVars => FleetInv'
  <2> SUFFICES ASSUME FleetInv, [FleetNext]_fleetVars PROVE FleetInv'
    OBVIOUS
  <2>1. CASE FleetNext
    <3>1. FleetTypeOK'
      BY <2>1, FleetTypeStep
    <3> QED BY <2>1, <3>1, CreateStep, SpawnStep, RestartStep, DeleteStep, InitializedStep,
               NotInitializedStep, ListStep, DeleteAgentStep, RestoreStep DEF FleetNext
  <2>2. CASE UNCHANGED fleetVars
    <3>1. UNCHANGED <<listed, agentFor, running, fleetKind, fleetStage, about, initializes, bare, unclear>>
      BY <2>2 DEF fleetVars, fleetReqVars
    <3>2. AgentsAreOwn' /\ FleetTypeOK' /\ \A r \in FleetRequests : IsKnown(r)'
      BY <3>1 DEF FleetInv, AgentsAreOwn, FleetTypeOK, IsKnown, BelongsTo, AboutProject
    <3>3. \A p \in FleetProjects : IsClear(p)' <=> IsClear(p)
      BY <3>1 DEF IsClear, Follows, Halfway, RunningFor, AboutProject, UnderWay, Busy, ListedSomewhere
    <3> QED BY <3>1, <3>2, <3>3 DEF FleetInv
  <2> QED BY <2>1, <2>2
<1> QED BY <1>1, <1>2, PTL DEF FleetSpec

\* Between requests, exactly the listed projects have an agent that answers for them, and
\* no other agent of theirs runs, whatever the number of projects, organizations and
\* requests.
THEOREM AgentsAreFollowed == FleetSpec => []AgentsFollowLists
<1>1. FleetInv => AgentsFollowLists
  BY DEF FleetInv, IsClear, Follows, AgentsFollowLists
<1> QED BY <1>1, FleetInvariant, PTL

-----------------------------------------------------------------------------
(* Plugins.                                                                *)

\* Where the loader stands in the list.
LoaderIsInList ==
    /\ loading = "host" => at = 0 /\ taken = {}
    /\ loading \in {"importing", "registering"} => at \in 1..Len(specs)
    /\ loading = "serving" => at > Len(specs)

\* A name that a plugin registered while it was loaded is claimed for it, and the hook
\* for it is one of that plugin.
TakenAreClaimed ==
    ~late => \A t \in taken : claimedBy[t[2]] = t[1] /\ metaTools[t[2]].of = t[1]

PluginsInv == PluginsTypeOK /\ LoaderIsInList /\ TakenAreClaimed

\* The list is a sequence of specifiers.
LEMMA SpecsAreListed ==
    ASSUME PluginsTypeOK
    PROVE  /\ Len(specs) \in 0..MaxSpecs /\ DOMAIN specs = 1..Len(specs)
           /\ \A i \in 1..Len(specs) : specs[i] \in Specs
<1>1. PICK n \in 0..MaxSpecs : specs \in [1..n -> Specs]
  BY DEF PluginsTypeOK
<1>2. n \in Nat /\ n <= MaxSpecs
  BY PluginsAssumption
<1>3. specs \in Seq(Specs) /\ Len(specs) = n
  BY <1>1, <1>2
<1> QED BY <1>1, <1>2, <1>3

\* The guard takes its caller for one of the list.
LEMMA ActiveIsListed ==
    ASSUME PluginsInv, loading \in {"importing", "registering", "serving"}, Len(specs) >= 1
    PROVE  ActiveSpec \in Specs
<1>1. Len(specs) \in Nat /\ at \in Nat
  BY PluginsAssumption, SpecsAreListed DEF PluginsInv, PluginsTypeOK
<1>2. at > Len(specs) \/ at \in 1..Len(specs)
  BY <1>1 DEF PluginsInv, LoaderIsInList
<1>3. \A i \in 1..Len(specs) : specs[i] \in Specs
  BY SpecsAreListed DEF PluginsInv
<1> QED BY <1>1, <1>2, <1>3 DEF ActiveSpec

\* A hook takes the names it handles.
LEMMA RegisterStep ==
    ASSUME PluginsInv, NEW s \in Specs \union {None}, NEW handles \in Handled,
           RegisterMetaTool(s, handles)
    PROVE  /\ hooks' \in 0..MaxHooks
           /\ \A n \in MetaToolNames :
                 /\ metaTools'[n] \in MetaToolHooks \union {None}
                 /\ n \in handles => metaTools'[n].of = s
                 /\ n \notin handles => metaTools'[n] = metaTools[n]
           /\ handles \subseteq MetaToolNames
<1>1. hooks' \in 1..MaxHooks /\ hooks' \in 0..MaxHooks
  BY PluginsAssumption DEF RegisterMetaTool, PluginsInv, PluginsTypeOK
<1> DEFINE new == [of |-> s, nr |-> hooks', handles |-> handles]
<1>2. new \in MetaToolHooks /\ new.of = s
  BY <1>1 DEF MetaToolHooks
<1>3. \A n \in MetaToolNames : metaTools'[n] = IF n \in handles THEN new ELSE metaTools[n]
  BY DEF RegisterMetaTool
<1> HIDE DEF new
<1> QED BY <1>1, <1>2, <1>3 DEF PluginsInv, PluginsTypeOK, Handled

\* A step that leaves the hooks alone goes on in the list, or fails.
LEMMA LoaderStep ==
    ASSUME PluginsInv, UNCHANGED <<specs, claimedBy, metaTools, hooks, taken, late>>,
           \/ loading \in {"host", "registering"} /\ NextSpec
           \/ /\ loading \in {"importing", "registering"} /\ at' = at
              /\ loading' = "registering" \/ loading' = "failed"
    PROVE  PluginsInv'
<1>1. /\ at' \in 0..(MaxSpecs + 1) /\ loading' \in {"importing", "registering", "serving", "failed"}
      /\ loading' \in {"importing", "registering"} => at' \in 1..Len(specs)
      /\ loading' = "serving" => at' > Len(specs)
  <2>1. Len(specs) \in 0..MaxSpecs /\ at \in Nat /\ at <= Len(specs)
    BY SpecsAreListed, PluginsAssumption DEF PluginsInv, LoaderIsInList, PluginsTypeOK
  <2> QED BY <2>1, PluginsAssumption DEF NextSpec, PluginsInv, PluginsTypeOK, LoaderIsInList
<1>2. PluginsTypeOK'
  BY <1>1 DEF PluginsInv, PluginsTypeOK
<1> QED BY <1>1, <1>2 DEF PluginsInv, LoaderIsInList, TakenAreClaimed

\* Every step keeps the claims.
LEMMA PluginsStep ==
    ASSUME PluginsInv, [PluginsNext]_pluginVars
    PROVE  PluginsInv'
<1>1. CASE StartServer \/ PluginFails \/ PluginLoaded \/ \E succeeds \in BOOLEAN : ImportSpec(succeeds)
  BY <1>1, LoaderStep DEF StartServer, PluginFails, PluginLoaded, ImportSpec
<1>2. ASSUME NEW handles \in Handled, HostRegisters(handles) PROVE PluginsInv'
  <2>1. RegisterMetaTool(None, handles) /\ loading = "host"
        /\ UNCHANGED <<specs, loading, at, claimedBy, taken, late>>
    BY <1>2 DEF HostRegisters
  <2>2. /\ hooks' \in 0..MaxHooks
        /\ \A n \in MetaToolNames : metaTools'[n] \in MetaToolHooks \union {None}
    BY <2>1, RegisterStep
  <2>3. PluginsTypeOK'
    BY <2>1, <2>2 DEF PluginsInv, PluginsTypeOK
  <2> QED BY <2>1, <2>3 DEF PluginsInv, LoaderIsInList, TakenAreClaimed
<1>3. ASSUME NEW handles \in Handled, PluginRegisters(handles) PROVE PluginsInv'
  <2>1. /\ GuardRegisters(ActiveSpec, handles) /\ loading = "registering" /\ late' = late
        /\ taken' = taken \union ({ActiveSpec} \X handles)
    BY <1>3 DEF PluginRegisters
  <2>2. Len(specs) >= 1
    BY <2>1, SpecsAreListed, PluginsAssumption DEF PluginsInv, LoaderIsInList
  <2>3. PICK s \in Specs : s = ActiveSpec
    BY <2>1, <2>2, ActiveIsListed
  <2>4. RegisterMetaTool(s, handles)
    BY <2>1, <2>3 DEF GuardRegisters
  <2>5. /\ hooks' \in 0..MaxHooks
        /\ \A n \in MetaToolNames :
              /\ metaTools'[n] \in MetaToolHooks \union {None}
              /\ n \in handles => metaTools'[n].of = s
              /\ n \notin handles => metaTools'[n] = metaTools[n]
        /\ handles \subseteq MetaToolNames
    BY <2>4, RegisterStep
  <2>6. /\ UNCHANGED <<specs, loading, at>>
        /\ \A n \in handles : claimedBy[n] \in {None, s}
        /\ claimedBy' = [n \in MetaToolNames |-> IF n \in handles THEN s ELSE claimedBy[n]]
    BY <2>1, <2>3 DEF GuardRegisters, Refuses
  <2>7. PluginsTypeOK'
    BY <2>1, <2>3, <2>5, <2>6 DEF PluginsInv, PluginsTypeOK
  <2>8. LoaderIsInList'
    BY <2>1, <2>6 DEF PluginsInv, LoaderIsInList
  <2>9. TakenAreClaimed'
    <3> SUFFICES ASSUME ~late, NEW t \in taken'
                 PROVE  claimedBy'[t[2]] = t[1] /\ metaTools'[t[2]].of = t[1]
      BY <2>1 DEF TakenAreClaimed
    <3>1. CASE t \in {s} \X handles
      BY <2>5, <2>6, <3>1
    <3>2. CASE t \in taken /\ t[2] \in handles
      <4>1. claimedBy[t[2]] = t[1] /\ t[1] \in Specs /\ t[2] \in MetaToolNames
        BY <3>2 DEF PluginsInv, TakenAreClaimed, PluginsTypeOK
      <4>2. t[1] = s
        BY <2>6, <3>2, <4>1, PluginsAssumption
      <4> QED BY <2>5, <2>6, <3>2, <4>1, <4>2
    <3>3. CASE t \in taken /\ t[2] \notin handles
      <4>1. claimedBy[t[2]] = t[1] /\ metaTools[t[2]].of = t[1] /\ t[2] \in MetaToolNames
        BY <3>3 DEF PluginsInv, TakenAreClaimed, PluginsTypeOK
      <4> QED BY <2>5, <2>6, <3>3, <4>1
    <3> QED BY <2>1, <2>3, <3>1, <3>2, <3>3
  <2> QED BY <2>7, <2>8, <2>9 DEF PluginsInv
<1>4. ASSUME NEW handles \in Handled, NEW i \in 1..Len(specs), LateRegistration(i, handles)
      PROVE  PluginsInv'
  <2>1. /\ GuardRegisters(specs[i], handles) /\ loading \in {"importing", "registering", "serving"}
        /\ late' = TRUE /\ UNCHANGED <<taken, specs, loading, at>>
    BY <1>4 DEF LateRegistration, GuardRegisters
  <2>2. specs[i] \in Specs /\ Len(specs) >= 1
    BY SpecsAreListed, PluginsAssumption DEF PluginsInv
  <2>3. PICK s \in Specs : s = ActiveSpec
    BY <2>1, <2>2, ActiveIsListed
  <2>4. RegisterMetaTool(specs[i], handles)
    BY <2>1 DEF GuardRegisters
  <2>5. /\ hooks' \in 0..MaxHooks
        /\ \A n \in MetaToolNames : metaTools'[n] \in MetaToolHooks \union {None}
    BY <2>2, <2>4, RegisterStep
  <2>6. claimedBy' = [n \in MetaToolNames |-> IF n \in handles THEN s ELSE claimedBy[n]]
    BY <2>1, <2>3 DEF GuardRegisters
  <2>7. PluginsTypeOK'
    BY <2>1, <2>3, <2>5, <2>6 DEF PluginsInv, PluginsTypeOK
  <2> QED BY <2>1, <2>7 DEF PluginsInv, LoaderIsInList, TakenAreClaimed
<1>5. CASE UNCHANGED pluginVars
  BY <1>5 DEF pluginVars, PluginsInv, PluginsTypeOK, LoaderIsInList, TakenAreClaimed
<1> QED BY <1>1, <1>2, <1>3, <1>4, <1>5 DEF PluginsNext

\* PluginsInv holds in every state.
LEMMA PluginsInvariant == PluginsSpec => []PluginsInv
<1>1. PluginsInit => PluginsInv
  <2> SUFFICES ASSUME PluginsInit PROVE PluginsInv
    OBVIOUS
  <2>1. specs \in UNION {[1..n -> Specs] : n \in 0..MaxSpecs}
    BY DEF PluginsInit
  <2>2. /\ loading = "host" /\ at = 0 /\ hooks = 0 /\ taken = {} /\ late = FALSE
        /\ claimedBy \in [MetaToolNames -> Specs \union {None}]
        /\ \A n \in MetaToolNames : metaTools[n] = None
    BY DEF PluginsInit
  <2>3. PluginsTypeOK
    <3>1. hooks \in 0..MaxHooks /\ at \in 0..(MaxSpecs + 1)
      BY <2>2, PluginsAssumption
    <3>2. \A n \in MetaToolNames : metaTools[n] \in MetaToolHooks \union {None}
      BY <2>2
    <3>3. /\ loading \in {"host", "importing", "registering", "serving", "failed"}
          /\ taken \subseteq Specs \X MetaToolNames /\ late \in BOOLEAN
      BY <2>2
    <3> QED BY <2>1, <2>2, <3>1, <3>2, <3>3, Zenon DEF PluginsTypeOK
  <2> QED BY <2>2, <2>3 DEF PluginsInv, LoaderIsInList, TakenAreClaimed
<1>2. PluginsInv /\ [PluginsNext]_pluginVars => PluginsInv'
  BY PluginsStep
<1> QED BY <1>1, <1>2, PTL DEF PluginsSpec

\* Where the server listens, every name that a plugin registered is handled by a hook of
\* that plugin, whatever the others and the program around it registered.
THEOREM NamesAreKept == PluginsSpec => []NamesKeepTheirPlugin
<1>1. PluginsInv => NamesKeepTheirPlugin
  BY DEF PluginsInv, TakenAreClaimed, NamesKeepTheirPlugin
<1> QED BY <1>1, PluginsInvariant, PTL

-----------------------------------------------------------------------------
(* SlackTeams.                                                             *)

\* What a callback has saved: for the organization first, then for the bot.
CallbacksSave ==
    \A n \in Installs :
       /\ connected[n] # None => install[n] # None /\ install[n].team = connected[n]
       /\ install[n] # None /\ install[n].stage = "connected" => installed[install[n].team] # None

\* An event nobody displaced has the token of its team within reach at each await.
IsNear(v) ==
    /\ slackEvent[v].stage \in {"lookups", "handled"} =>
          lastTeam = slackEvent[v].team /\ installed[slackEvent[v].team] # None
    /\ slackEvent[v].stage = "token" =>
          slackEvent[v].asked = slackEvent[v].team /\ installed[slackEvent[v].team] # None
    /\ slackEvent[v].stage = "replied" => sentWith[v] = slackEvent[v].team

TokenIsNear == \A v \in SlackEvents \ displaced : slackEvent[v] # None => IsNear(v)

SlackInv == SlackTypeOK /\ CallbacksSave /\ TokenIsNear

\* A step of a callback leaves the events alone, and no team without its token.
LEMMA CallbackStep ==
    ASSUME SlackInv, NEW n \in Installs, NEW fails \in BOOLEAN,
           \/ \E t \in Teams : Exchanged(n, t, fails)
           \/ SavedForOrg(n, fails) \/ SavedForBot(n, fails)
    PROVE  SlackInv'
<1>1. UNCHANGED <<lastTeam, slackEvent, sentWith, displaced>>
  BY DEF Exchanged, SavedForOrg, SavedForBot, eventParts
<1>2. /\ install'[n] \in InstallRecord
      /\ \A k \in Installs \ {n} : install'[k] = install[k]
      /\ install[n] # None => install'[n].team = install[n].team /\ install[n].stage # "connected"
      /\ install' \in [Installs -> InstallRecord \union {None}]
  <2>1. CASE \E t \in Teams : Exchanged(n, t, fails)
    BY <2>1 DEF Exchanged, SlackInv, SlackTypeOK, InstallRecord, InstallStages
  <2>2. CASE SavedForOrg(n, fails) \/ SavedForBot(n, fails)
    <3>1. install[n] \in InstallRecord /\ install[n].stage # "connected"
      BY <2>2 DEF SavedForOrg, SavedForBot, SlackInv, SlackTypeOK
    <3>2. PICK stage \in InstallStages : install' = [install EXCEPT ![n].stage = stage]
      BY <2>2 DEF SavedForOrg, SavedForBot, InstallGoes, NextSave, InstallStages
    <3>3. install'[n] = [install[n] EXCEPT !.stage = stage]
      BY <3>2 DEF SlackInv, SlackTypeOK
    <3>4. install'[n] \in InstallRecord /\ install'[n].team = install[n].team
      BY <3>1, <3>3 DEF InstallRecord
    <3> QED BY <3>1, <3>2, <3>4 DEF SlackInv, SlackTypeOK
  <2> QED BY <2>1, <2>2
<1>3. install'[n] # None
  BY <1>2, TeamsAssumption
<1>4. /\ installed' \in [Teams -> Installs \union {None}]
      /\ \A t \in Teams : installed[t] # None => installed'[t] # None
      /\ install'[n].stage = "connected" => installed'[install'[n].team] # None
  <2>1. CASE \E t \in Teams : Exchanged(n, t, fails)
    BY <2>1 DEF Exchanged, SlackInv, SlackTypeOK
  <2>2. CASE SavedForOrg(n, fails)
    BY <2>2 DEF SavedForOrg, InstallGoes, NextSave, SlackInv, SlackTypeOK, InstallRecord
  <2>3. CASE SavedForBot(n, fails)
    <3>1. install[n] \in InstallRecord /\ install[n].team \in Teams
      BY <2>3 DEF SavedForBot, SlackInv, SlackTypeOK, InstallRecord
    <3>2. install'[n].stage = "connected" => ~fails
      BY <2>3, <3>1 DEF SavedForBot, InstallGoes, SlackInv, SlackTypeOK, InstallRecord
    <3>3. installed' = IF fails THEN installed ELSE [installed EXCEPT ![install[n].team] = n]
      BY <2>3 DEF SavedForBot
    <3> QED BY <1>2, <3>1, <3>2, <3>3, TeamsAssumption DEF SlackInv, SlackTypeOK
  <2> QED BY <2>1, <2>2, <2>3
<1>5. /\ connected' \in [Installs -> TeamOrNone]
      /\ \A k \in Installs \ {n} : connected'[k] = connected[k]
      /\ connected'[n] # None => install'[n].team = connected'[n]
  <2>1. CASE \E t \in Teams : Exchanged(n, t, fails)
    BY <2>1 DEF Exchanged, SlackInv, SlackTypeOK, CallbacksSave
  <2>2. CASE SavedForOrg(n, fails) \/ SavedForBot(n, fails)
    <3>1. install[n] # None /\ install[n] \in InstallRecord /\ install[n].team \in Teams
      BY <2>2 DEF SavedForOrg, SavedForBot, SlackInv, SlackTypeOK, InstallRecord
    <3>2. connected' = connected \/ connected' = [connected EXCEPT ![n] = install[n].team]
      BY <2>2 DEF SavedForOrg, SavedForBot
    <3> QED BY <1>2, <3>1, <3>2 DEF SlackInv, SlackTypeOK, CallbacksSave, TeamOrNone
  <2> QED BY <2>1, <2>2
<1>6. SlackTypeOK'
  BY <1>1, <1>2, <1>4, <1>5 DEF SlackInv, SlackTypeOK
<1>7. CallbacksSave'
  <2> SUFFICES ASSUME NEW k \in Installs
               PROVE  /\ connected'[k] # None => install'[k] # None /\ install'[k].team = connected'[k]
                      /\ install'[k] # None /\ install'[k].stage = "connected" => installed'[install'[k].team] # None
    BY DEF CallbacksSave
  <2>1. CASE k = n
    BY <1>3, <1>4, <1>5, <2>1
  <2>2. CASE k # n
    <3>1. install'[k] = install[k] /\ connected'[k] = connected[k]
      BY <1>2, <1>5, <2>2
    <3>2. install[k] # None => install[k].team \in Teams
      BY DEF SlackInv, SlackTypeOK, InstallRecord
    <3> QED BY <1>4, <3>1, <3>2 DEF SlackInv, CallbacksSave
  <2> QED BY <2>1, <2>2
<1>8. TokenIsNear'
  <2>1. \A v \in SlackEvents : slackEvent[v] # None => slackEvent[v].team \in Teams
    BY DEF SlackInv, SlackTypeOK, EventRecord
  <2> QED BY <1>1, <1>4, <2>1 DEF SlackInv, TokenIsNear, IsNear
<1> QED BY <1>6, <1>7, <1>8 DEF SlackInv

\* A step of one event: it is enough to look at that one, and whether the others that
\* wait for the last team still have theirs.
LEMMA OneEventStep ==
    ASSUME SlackInv, NEW v \in SlackEvents,
           UNCHANGED <<install, installed, connected>>,
           lastTeam' \in TeamOrNone, displaced' \subseteq SlackEvents, displaced \subseteq displaced',
           slackEvent' \in [SlackEvents -> EventRecord \union {None}],
           \A w \in SlackEvents \ {v} : slackEvent'[w] = slackEvent[w] /\ sentWith'[w] = sentWith[w],
           sentWith' \in [SlackEvents -> TeamOrNone],
           \A w \in SlackEvents \ {v} :
              slackEvent[w] # None /\ slackEvent[w].stage \in {"lookups", "handled"}
                 => w \in displaced' \/ lastTeam' = lastTeam \/ lastTeam' = slackEvent[w].team,
           v \notin displaced' => IsNear(v)'
    PROVE  SlackInv'
<1>1. SlackTypeOK'
  BY DEF SlackInv, SlackTypeOK
<1>2. CallbacksSave'
  BY DEF SlackInv, CallbacksSave
<1>3. ASSUME NEW w \in SlackEvents, w \notin displaced', slackEvent'[w] # None
      PROVE  IsNear(w)'
  <2>1. CASE w = v
    BY <1>3, <2>1
  <2>2. CASE w # v
    <3>1. slackEvent'[w] = slackEvent[w] /\ sentWith'[w] = sentWith[w] /\ installed' = installed
      BY <2>2
    <3>2. IsNear(w) /\ slackEvent[w] # None
      BY <1>3, <3>1 DEF SlackInv, TokenIsNear
    <3>3. slackEvent[w].stage \in {"lookups", "handled"} => lastTeam' = slackEvent[w].team
      BY <1>3, <2>2, <3>2 DEF IsNear
    <3> QED BY <3>1, <3>2, <3>3 DEF IsNear
  <2> QED BY <2>1, <2>2
<1>4. TokenIsNear'
  BY <1>3 DEF TokenIsNear
<1> QED BY <1>1, <1>2, <1>4 DEF SlackInv

\* An event that goes on keeps its kind and its team.
LEMMA EventGoesOn ==
    ASSUME SlackInv, NEW v \in SlackEvents, slackEvent[v] # None, NEW stage \in EventStages,
           EventGoes(v, stage)
    PROVE  /\ slackEvent'[v].stage = stage /\ slackEvent'[v].team = slackEvent[v].team
           /\ slackEvent'[v].asked = slackEvent[v].asked
           /\ slackEvent' \in [SlackEvents -> EventRecord \union {None}]
           /\ \A w \in SlackEvents \ {v} : slackEvent'[w] = slackEvent[w]
<1>1. slackEvent[v] \in EventRecord
  BY DEF SlackInv, SlackTypeOK
<1>2. slackEvent'[v] = [slackEvent[v] EXCEPT !.stage = stage]
  BY DEF EventGoes, SlackInv, SlackTypeOK
<1>3. /\ slackEvent'[v] \in EventRecord /\ slackEvent'[v].stage = stage
      /\ slackEvent'[v].team = slackEvent[v].team /\ slackEvent'[v].asked = slackEvent[v].asked
  BY <1>1, <1>2 DEF EventRecord
<1> QED BY <1>3 DEF EventGoes, SlackInv, SlackTypeOK

\* An event comes, is handed on, or asks for a token.
LEMMA EventComesStep ==
    ASSUME SlackInv, NEW v \in SlackEvents,
           \/ \E kind \in {"mention", "other"}, t \in Teams : EventComes(v, kind, t)
           \/ HandOn(v) \/ AskToken(v)
    PROVE  SlackInv'
<1>1. UNCHANGED <<install, installed, connected, lastTeam, sentWith, displaced>>
  BY DEF EventComes, HandOn, AskToken
<1>2. /\ lastTeam \in TeamOrNone /\ displaced \subseteq SlackEvents
      /\ sentWith \in [SlackEvents -> TeamOrNone]
  BY DEF SlackInv, SlackTypeOK
<1>3. /\ slackEvent' \in [SlackEvents -> EventRecord \union {None}]
      /\ \A w \in SlackEvents \ {v} : slackEvent'[w] = slackEvent[w]
      /\ v \notin displaced => IsNear(v)'
  <2>1. CASE \E kind \in {"mention", "other"}, t \in Teams : EventComes(v, kind, t)
    <3>1. PICK kind \in {"mention", "other"}, t \in Teams : EventComes(v, kind, t)
      BY <2>1
    <3> DEFINE new == [kind |-> kind, team |-> t, stage |-> "authorizing", asked |-> None]
    <3>2. new \in EventRecord /\ new.stage = "authorizing"
      BY DEF EventRecord, EventStages, TeamOrNone
    <3>3. slackEvent' = [slackEvent EXCEPT ![v] = new]
      BY <3>1 DEF EventComes
    <3> HIDE DEF new
    <3>4. slackEvent'[v] = new
      BY <3>3 DEF SlackInv, SlackTypeOK
    <3> QED BY <3>2, <3>3, <3>4 DEF SlackInv, SlackTypeOK, IsNear
  <2>2. CASE HandOn(v)
    <3>1. slackEvent[v] # None /\ slackEvent[v].stage = "lookups" /\ EventGoes(v, "handled")
      BY <2>2 DEF HandOn, EventAwaits
    <3>2. /\ slackEvent'[v].stage = "handled" /\ slackEvent'[v].team = slackEvent[v].team
          /\ slackEvent' \in [SlackEvents -> EventRecord \union {None}]
          /\ \A w \in SlackEvents \ {v} : slackEvent'[w] = slackEvent[w]
      BY <3>1, EventGoesOn DEF EventStages
    <3> QED BY <1>1, <3>1, <3>2 DEF SlackInv, TokenIsNear, IsNear
  <2>3. CASE AskToken(v)
    <3>1. slackEvent[v] # None /\ slackEvent[v].stage = "handled" /\ slackEvent[v] \in EventRecord
      BY <2>3 DEF AskToken, EventAwaits, SlackInv, SlackTypeOK
    <3>2. slackEvent'[v] = [slackEvent[v] EXCEPT !.stage = "token", !.asked = lastTeam]
      BY <2>3 DEF AskToken, SlackInv, SlackTypeOK
    <3>3. /\ slackEvent'[v] \in EventRecord /\ slackEvent'[v].stage = "token"
          /\ slackEvent'[v].team = slackEvent[v].team /\ slackEvent'[v].asked = lastTeam
      BY <1>2, <3>1, <3>2 DEF EventRecord, EventStages
    <3>4. /\ slackEvent' \in [SlackEvents -> EventRecord \union {None}]
          /\ \A w \in SlackEvents \ {v} : slackEvent'[w] = slackEvent[w]
      BY <2>3, <3>3 DEF AskToken, SlackInv, SlackTypeOK
    <3> QED BY <1>1, <3>1, <3>3, <3>4 DEF SlackInv, TokenIsNear, IsNear
  <2> QED BY <2>1, <2>2, <2>3
<1> QED BY <1>1, <1>2, <1>3, OneEventStep

\* The listener runs: a mention displaces the open events of other teams.
LEMMA AuthorizedStep ==
    ASSUME SlackInv, NEW v \in SlackEvents, Authorized(v)
    PROVE  SlackInv'
<1>1. /\ UNCHANGED <<install, installed, connected, sentWith>>
      /\ slackEvent[v] # None /\ slackEvent[v].stage = "authorizing" /\ slackEvent[v].team \in Teams
  BY DEF Authorized, EventAwaits, SlackInv, SlackTypeOK, EventRecord
<1>2. PICK t \in Teams : t = slackEvent[v].team
  BY <1>1
<1>3. \/ EventGoes(v, "dropped") /\ UNCHANGED <<lastTeam, displaced>>
      \/ /\ EventGoes(v, "lookups") /\ installed[t] # None /\ lastTeam' = t
         /\ displaced' = displaced \union {w \in OpenEvents : slackEvent[w].team # t}
      \/ /\ EventGoes(v, "handled") /\ installed[t] # None /\ lastTeam' = lastTeam
         /\ displaced' = IF lastTeam = t THEN displaced ELSE displaced \union {v}
  BY <1>2 DEF Authorized, MentioningTeam
<1>4. PICK stage \in {"dropped", "lookups", "handled"} : EventGoes(v, stage)
  BY <1>3
<1>5. /\ slackEvent'[v].stage = stage /\ slackEvent'[v].team = t
      /\ slackEvent' \in [SlackEvents -> EventRecord \union {None}]
      /\ \A w \in SlackEvents \ {v} : slackEvent'[w] = slackEvent[w]
  BY <1>1, <1>2, <1>4, EventGoesOn DEF EventStages
<1>6. /\ lastTeam' \in TeamOrNone /\ displaced' \subseteq SlackEvents /\ displaced \subseteq displaced'
      /\ sentWith' \in [SlackEvents -> TeamOrNone]
  BY <1>1, <1>3 DEF SlackInv, SlackTypeOK, TeamOrNone, OpenEvents
<1>7. \A w \in SlackEvents \ {v} :
         slackEvent[w] # None /\ slackEvent[w].stage \in {"lookups", "handled"}
            => w \in displaced' \/ lastTeam' = lastTeam \/ lastTeam' = slackEvent[w].team
  BY <1>3 DEF OpenEvents
<1>8. v \notin displaced' => IsNear(v)'
  <2>1. stage = "dropped" \/ (installed[t] # None /\ (lastTeam' = t \/ v \in displaced'))
    <3>1. CASE EventGoes(v, "dropped")
      <4>1. slackEvent'[v].stage = "dropped"
        BY <1>1, <3>1, EventGoesOn DEF EventStages
      <4> QED BY <1>5, <4>1
    <3>2. CASE ~EventGoes(v, "dropped")
      BY <1>3, <3>2
    <3> QED BY <3>1, <3>2
  <2> QED BY <1>1, <1>5, <2>1 DEF IsNear
<1> QED BY <1>1, <1>5, <1>6, <1>7, <1>8, OneEventStep

\* The reply is posted.
LEMMA PostReplyStep ==
    ASSUME SlackInv, NEW v \in SlackEvents, PostReply(v)
    PROVE  SlackInv'
<1>1. /\ UNCHANGED <<install, installed, connected, lastTeam, displaced>>
      /\ slackEvent[v] # None /\ slackEvent[v].stage = "token" /\ slackEvent[v] \in EventRecord
      /\ EventGoes(v, "replied")
  BY DEF PostReply, EventAwaits, SlackInv, SlackTypeOK
<1>2. slackEvent[v].team \in Teams /\ slackEvent[v].asked \in TeamOrNone
  BY <1>1 DEF EventRecord
<1>3. PICK t \in TeamOrNone : t = slackEvent[v].asked
  BY <1>2
<1>4. sentWith' = [sentWith EXCEPT ![v] = IF t # None /\ installed[t] # None THEN t ELSE None]
  BY <1>3 DEF PostReply
<1>5. /\ sentWith' \in [SlackEvents -> TeamOrNone]
      /\ \A w \in SlackEvents \ {v} : sentWith'[w] = sentWith[w]
      /\ t # None /\ installed[t] # None => sentWith'[v] = t
  BY <1>4 DEF SlackInv, SlackTypeOK, TeamOrNone
<1>6. /\ slackEvent'[v].stage = "replied" /\ slackEvent'[v].team = slackEvent[v].team
      /\ slackEvent' \in [SlackEvents -> EventRecord \union {None}]
      /\ \A w \in SlackEvents \ {v} : slackEvent'[w] = slackEvent[w]
  BY <1>1, EventGoesOn DEF EventStages
<1>7. v \notin displaced => IsNear(v)'
  BY <1>1, <1>2, <1>3, <1>5, <1>6, TeamsAssumption DEF SlackInv, TokenIsNear, IsNear
<1>8. lastTeam \in TeamOrNone /\ displaced \subseteq SlackEvents
  BY DEF SlackInv, SlackTypeOK
<1> QED BY <1>1, <1>5, <1>6, <1>7, <1>8, OneEventStep

\* SlackInv holds in every state.
LEMMA SlackInvariant == SlackSpec => []SlackInv
<1>1. SlackInit => SlackInv
  BY TeamsAssumption DEF SlackInit, SlackInv, SlackTypeOK, TeamOrNone, CallbacksSave, TokenIsNear
<1>2. SlackInv /\ [SlackNext]_slackVars => SlackInv'
  <2> SUFFICES ASSUME SlackInv, [SlackNext]_slackVars PROVE SlackInv'
    OBVIOUS
  <2>1. CASE SlackNext
    BY <2>1, CallbackStep, EventComesStep, AuthorizedStep, PostReplyStep DEF SlackNext
  <2>2. CASE UNCHANGED slackVars
    BY <2>2 DEF slackVars, SlackInv, SlackTypeOK, CallbacksSave, TokenIsNear, IsNear
  <2> QED BY <2>1, <2>2
<1> QED BY <1>1, <1>2, PTL DEF SlackSpec

\* A reply is sent with the token of the team that asked, and a team that is shown as
\* connected is one the bot has a token for.
THEOREM TeamsHaveTheirTokens == SlackSpec => [](RepliesWithOwnToken /\ ConnectedIsInstalled)
<1>1. SlackInv => RepliesWithOwnToken /\ ConnectedIsInstalled
  BY TeamsAssumption DEF SlackInv, SlackTypeOK, CallbacksSave, TokenIsNear, IsNear, RepliesWithOwnToken, ConnectedIsInstalled, TeamOrNone
<1> QED BY <1>1, SlackInvariant, PTL

-----------------------------------------------------------------------------
(* ChannelSessions.                                                        *)

\* A delivery whose message was handed on.
HandledStages == Handling \union {"answered", "noSession", "failed"}

\* The cache remembers what was handled until it forgets it.
HandledAreRemembered ==
    \A h \in Hooks : hookStage[h] \in HandledStages => message[h] \in lru \union forgotten

OneActive == \A s, w \in Active : s = w

\* A handler that nothing came between is alone and has the user's session at each await.
HasItsSession(h) ==
    /\ hookStage[h] \in {"closing", "touching", "answering"} => found[h] \in Hooks
    /\ h \notin together =>
          /\ hookStage[h] \in {"closing", "touching", "answering"} => found[h] \in Active
          /\ hookStage[h] = "creating" => Active = {}
          /\ hookStage[h] # "noSession"

OverlapsAreNoted == \A g, h \in InHand : g # h => g \in together /\ h \in together

HooksInv ==
    /\ HooksTypeOK /\ HandledAreRemembered /\ HandledOnce /\ OneActive /\ OverlapsAreNoted
    /\ \A h \in Hooks : HasItsSession(h)

\* A handler that goes on without a delivery keeps what was handled, remembered.
LEMMA HandlerGoesOn ==
    ASSUME HooksInv, NEW h \in Hooks, NEW next \in HandledStages, hookStage[h] \in Handling,
           ToHook(h, next), UNCHANGED <<message, lru, forgotten>>
    PROVE  /\ hookStage' \in [Hooks -> {"none", "ignored", "answered", "noSession", "failed"} \union Handling]
           /\ hookStage'[h] = next /\ \A g \in Hooks \ {h} : hookStage'[g] = hookStage[g]
           /\ HandledAreRemembered' /\ HandledOnce'
           /\ InHand' \subseteq InHand
<1>1. /\ hookStage' \in [Hooks -> {"none", "ignored", "answered", "noSession", "failed"} \union Handling]
      /\ hookStage'[h] = next /\ \A g \in Hooks \ {h} : hookStage'[g] = hookStage[g]
  BY DEF ToHook, HooksInv, HooksTypeOK, HandledStages
<1>2. \A g \in Hooks : hookStage'[g] \in HandledStages => hookStage[g] \in HandledStages
  BY <1>1 DEF HandledStages
<1>3. HandledAreRemembered'
  BY <1>2 DEF HooksInv, HandledAreRemembered
<1>4. HandledOnce'
  <2>1. \A g, k \in Hooks :
           {hookStage'[g], hookStage'[k]} \subseteq HandledStages => {hookStage[g], hookStage[k]} \subseteq HandledStages
    BY <1>2
  <2> QED BY <2>1 DEF HooksInv, HandledOnce, HandledStages
<1>5. InHand' \subseteq InHand
  BY <1>1 DEF InHand
<1> QED BY <1>1, <1>3, <1>4, <1>5

\* A delivery: an event that is handled again was forgotten in between.
LEMMA ReceiveStep ==
    ASSUME HooksInv, NEW h \in Hooks, NEW e \in Messages, Receive(h, e)
    PROVE  HooksInv'
<1>1. PICK next \in {"linking", "ignored"} :
         /\ next = "linking" => e \notin lru
         /\ ToHook(h, next)
         /\ together' = IF next = "linking" /\ InHand # {} THEN together \union InHand \union {h}
                         ELSE together
  BY DEF Receive
<1>2. /\ hookStage[h] = "none" /\ lru' = lru \union {e}
      /\ message' = [message EXCEPT ![h] = e]
      /\ UNCHANGED <<status, stale, found, forgotten>>
  BY DEF Receive, Remembered
<1>3. /\ hookStage'[h] = next /\ \A g \in Hooks \ {h} : hookStage'[g] = hookStage[g]
      /\ message'[h] = e /\ \A g \in Hooks \ {h} : message'[g] = message[g]
  BY <1>1, <1>2 DEF ToHook, HooksInv, HooksTypeOK
<1>4. HooksTypeOK'
  BY <1>1, <1>2 DEF ToHook, HooksInv, HooksTypeOK, Handling, InHand
<1>5. HandledAreRemembered'
  BY <1>2, <1>3 DEF HooksInv, HandledAreRemembered
<1>6. HandledOnce'
  <2> SUFFICES ASSUME NEW g \in Hooks, NEW k \in Hooks, g # k, message'[g] = message'[k],
                      message'[g] # None, hookStage'[g] \in HandledStages, hookStage'[k] \in HandledStages
               PROVE  message'[g] \in forgotten
    BY <1>2 DEF HandledOnce, HandledStages
  <2>1. CASE g # h /\ k # h
    <3>1. /\ message'[g] = message[g] /\ message'[k] = message[k]
          /\ {hookStage[g], hookStage[k]} \subseteq HandledStages
      BY <1>3, <2>1
    <3> QED BY <3>1 DEF HooksInv, HandledOnce, HandledStages
  <2>2. ASSUME NEW w \in Hooks \ {h}, message'[w] = e, hookStage'[w] \in HandledStages,
               hookStage'[h] \in HandledStages
        PROVE  e \in forgotten
    <3>1. next = "linking"
      BY <1>3, <2>2 DEF HandledStages, Handling
    <3>2. message[w] = e /\ hookStage[w] \in HandledStages
      BY <1>3, <2>2
    <3> QED BY <1>1, <3>1, <3>2 DEF HooksInv, HandledAreRemembered
  <2>3. CASE g = h
    BY <1>3, <2>2, <2>3
  <2>4. CASE k = h
    BY <1>3, <2>2, <2>4
  <2> QED BY <2>1, <2>3, <2>4
<1>7. Active' = Active
  BY <1>2 DEF Active
<1>8. OverlapsAreNoted'
  <2>1. InHand' \subseteq InHand \union {h} /\ (h \in InHand' => next = "linking")
    BY <1>1, <1>3 DEF InHand, Handling
  <2> QED BY <1>1, <2>1 DEF HooksInv, OverlapsAreNoted
<1>9. \A g \in Hooks : HasItsSession(g)'
  BY <1>1, <1>2, <1>3, <1>7 DEF HooksInv, HasItsSession
<1> QED BY <1>4, <1>5, <1>6, <1>7, <1>8, <1>9 DEF HooksInv, OneActive

\* The look-ups, the answer and the failure of a handler.
LEMMA HandlerStep ==
    ASSUME HooksInv, NEW h \in Hooks, Link(h) \/ Find(h) \/ SendAnswer(h) \/ HookFails(h)
    PROVE  HooksInv'
<1>1. /\ UNCHANGED <<message, lru, status, stale, forgotten, together>>
      /\ hookStage[h] \in Handling
  BY DEF Link, Find, SendAnswer, HookFails, Handling, InHand
<1>2. PICK next \in HandledStages :
         /\ ToHook(h, next) /\ next # "noSession" /\ next # "answering"
         /\ next = "creating" => Active = {}
         /\ next \in {"closing", "touching"} =>
               \E s \in Active : found' = [found EXCEPT ![h] = s]
         /\ next \notin {"closing", "touching"} =>
               found' = found \/ found' = [found EXCEPT ![h] = None]
  <2>1. CASE Link(h)
    BY <2>1 DEF Link, HandledStages, Handling
  <2>2. CASE Find(h)
    BY <2>2 DEF Find, HandledStages, Handling
  <2>3. CASE SendAnswer(h)
    BY <2>3 DEF SendAnswer, HandledStages, Handling
  <2>4. CASE HookFails(h)
    BY <2>4 DEF HookFails, HandledStages, Handling
  <2> QED BY <2>1, <2>2, <2>3, <2>4
<1>3. Active' = Active /\ Active \subseteq Hooks
  BY <1>1 DEF Active
<1>4. /\ found' \in [Hooks -> Hooks \union {None}]
      /\ \A g \in Hooks \ {h} : found'[g] = found[g]
      /\ next \in {"closing", "touching"} => found'[h] \in Active
  BY <1>2, <1>3 DEF HooksInv, HooksTypeOK
<1>5. /\ hookStage' \in [Hooks -> {"none", "ignored", "answered", "noSession", "failed"} \union Handling]
      /\ hookStage'[h] = next /\ \A g \in Hooks \ {h} : hookStage'[g] = hookStage[g]
      /\ HandledAreRemembered' /\ HandledOnce'
      /\ InHand' \subseteq InHand
  BY <1>1, <1>2, HandlerGoesOn
<1>6. HooksTypeOK'
  BY <1>1, <1>4, <1>5 DEF HooksInv, HooksTypeOK
<1>7. \A g \in Hooks : HasItsSession(g)'
  BY <1>1, <1>2, <1>3, <1>4, <1>5 DEF HooksInv, HasItsSession
<1>8. OneActive' /\ OverlapsAreNoted'
  BY <1>1, <1>3, <1>5 DEF HooksInv, OneActive, OverlapsAreNoted
<1> QED BY <1>5, <1>6, <1>7, <1>8 DEF HooksInv

\* Closing a session leaves the others active.
LEMMA ClosedIs ==
    ASSUME HooksInv, NEW s \in Hooks, status' = Closed(s)
    PROVE  Active' = Active \ {s} /\ status' \in [Hooks -> {"active", "closed", None}]
BY DEF Closed, Active, HooksInv, HooksTypeOK

\* The stale session of a handler is closed.
LEMMA CloseStaleStep ==
    ASSUME HooksInv, NEW h \in Hooks, CloseStale(h)
    PROVE  HooksInv'
<1>1. /\ UNCHANGED <<message, lru, stale, found, forgotten, together>>
      /\ hookStage[h] = "closing" /\ ToHook(h, "creating") /\ status' = Closed(found[h])
  BY DEF CloseStale
<1>2. /\ hookStage' \in [Hooks -> {"none", "ignored", "answered", "noSession", "failed"} \union Handling]
      /\ hookStage'[h] = "creating" /\ \A g \in Hooks \ {h} : hookStage'[g] = hookStage[g]
      /\ HandledAreRemembered' /\ HandledOnce'
      /\ InHand' \subseteq InHand
  <2>1. "creating" \in HandledStages /\ hookStage[h] \in Handling
    BY <1>1 DEF HandledStages, Handling
  <2> QED BY <1>1, <2>1, HandlerGoesOn
<1>3. PICK s \in Hooks : s = found[h]
  BY <1>1 DEF HooksInv, HasItsSession
<1>4. Active' = Active \ {s} /\ status' \in [Hooks -> {"active", "closed", None}]
  BY <1>1, <1>3, ClosedIs
<1>5. HooksTypeOK'
  BY <1>1, <1>2, <1>4 DEF HooksInv, HooksTypeOK
<1>6. OneActive' /\ OverlapsAreNoted'
  BY <1>1, <1>2, <1>4 DEF HooksInv, OneActive, OverlapsAreNoted
<1>7. ASSUME NEW g \in Hooks PROVE HasItsSession(g)'
  <2>1. CASE g = h
    <3>1. h \notin together => Active \ {s} = {}
      BY <1>1, <1>3 DEF HooksInv, HasItsSession, OneActive
    <3> QED BY <1>1, <1>2, <1>4, <2>1, <3>1 DEF HasItsSession
  <2>2. CASE g # h
    <3>1. hookStage[g] \in Handling => g \in together
      BY <1>1, <2>2 DEF HooksInv, OverlapsAreNoted, InHand, Handling
    <3> QED BY <1>1, <1>2, <2>2, <3>1 DEF HooksInv, HasItsSession, Handling
  <2> QED BY <2>1, <2>2
<1> QED BY <1>2, <1>5, <1>6, <1>7 DEF HooksInv

\* A handler's session is saved, or refused by the unique index.
LEMMA SetSessionStep ==
    ASSUME HooksInv, NEW h \in Hooks, Touch(h) \/ CreateSession(h)
    PROVE  HooksInv'
<1>1. PICK s \in Hooks :
         /\ SetSession(h, s)
         /\ h \notin together => Active \subseteq {s}
  <2>1. CASE Touch(h)
    BY <2>1 DEF Touch, HooksInv, HasItsSession, OneActive
  <2>2. CASE CreateSession(h)
    BY <2>2 DEF CreateSession, HooksInv, HasItsSession
  <2> QED BY <2>1, <2>2
<1>2. UNCHANGED <<message, lru, forgotten, together>> /\ hookStage[h] \in Handling
  BY DEF Touch, CreateSession, Handling
<1>3. CASE Active \ {s} = {}
  <2>1. /\ status' = [status EXCEPT ![s] = "active"] /\ stale' = stale \ {s}
        /\ found' = [found EXCEPT ![h] = s] /\ ToHook(h, "answering")
    BY <1>1, <1>3 DEF SetSession
  <2>2. /\ hookStage' \in [Hooks -> {"none", "ignored", "answered", "noSession", "failed"} \union Handling]
        /\ hookStage'[h] = "answering" /\ \A g \in Hooks \ {h} : hookStage'[g] = hookStage[g]
        /\ HandledAreRemembered' /\ HandledOnce'
        /\ InHand' \subseteq InHand
    <3>1. "answering" \in HandledStages
      BY DEF HandledStages, Handling
    <3> QED BY <1>2, <2>1, <3>1, HandlerGoesOn
  <2>3. Active' = {s}
    BY <1>3, <2>1 DEF Active, HooksInv, HooksTypeOK
  <2>4. /\ found' \in [Hooks -> Hooks \union {None}] /\ found'[h] = s
        /\ \A g \in Hooks \ {h} : found'[g] = found[g]
    BY <2>1 DEF HooksInv, HooksTypeOK
  <2>5. HooksTypeOK'
    BY <1>2, <2>1, <2>2, <2>4 DEF HooksInv, HooksTypeOK
  <2>6. OneActive' /\ OverlapsAreNoted'
    BY <1>2, <2>2, <2>3 DEF HooksInv, OneActive, OverlapsAreNoted
  <2>7. ASSUME NEW g \in Hooks PROVE HasItsSession(g)'
    <3>1. CASE g = h
      BY <2>2, <2>3, <2>4, <3>1 DEF HasItsSession
    <3>2. CASE g # h
      <4>1. hookStage[g] \in Handling => g \in together
        BY <1>2, <3>2 DEF HooksInv, OverlapsAreNoted, InHand
      <4> QED BY <1>2, <2>2, <2>4, <3>2, <4>1 DEF HooksInv, HasItsSession, Handling
    <3> QED BY <3>1, <3>2
  <2> QED BY <2>2, <2>5, <2>6, <2>7 DEF HooksInv
<1>4. CASE Active \ {s} # {}
  <2>1. /\ UNCHANGED <<status, stale>> /\ h \in together
        /\ found' = [found EXCEPT ![h] = None] /\ ToHook(h, "noSession")
    BY <1>1, <1>4 DEF SetSession
  <2>2. /\ hookStage' \in [Hooks -> {"none", "ignored", "answered", "noSession", "failed"} \union Handling]
        /\ hookStage'[h] = "noSession" /\ \A g \in Hooks \ {h} : hookStage'[g] = hookStage[g]
        /\ HandledAreRemembered' /\ HandledOnce'
        /\ InHand' \subseteq InHand
    <3>1. "noSession" \in HandledStages
      BY DEF HandledStages
    <3> QED BY <1>2, <2>1, <3>1, HandlerGoesOn
  <2>3. Active' = Active
    BY <2>1 DEF Active
  <2>4. /\ found' \in [Hooks -> Hooks \union {None}]
        /\ \A g \in Hooks \ {h} : found'[g] = found[g]
    BY <2>1 DEF HooksInv, HooksTypeOK
  <2>5. HooksTypeOK'
    BY <1>2, <2>1, <2>2, <2>4 DEF HooksInv, HooksTypeOK
  <2>6. OneActive' /\ OverlapsAreNoted'
    BY <1>2, <2>2, <2>3 DEF HooksInv, OneActive, OverlapsAreNoted
  <2>7. \A g \in Hooks : HasItsSession(g)'
    BY <1>2, <2>1, <2>2, <2>3, <2>4 DEF HooksInv, HasItsSession
  <2> QED BY <2>2, <2>5, <2>6, <2>7 DEF HooksInv
<1> QED BY <1>3, <1>4

\* Time, the cache and DELETE.
LEMMA AroundStep ==
    ASSUME HooksInv,
           \/ \E s \in Hooks : GoStale(s) \/ DeleteSession(s)
           \/ \E e \in Messages : Evict(e)
    PROVE  HooksInv'
<1>1. UNCHANGED <<message, hookStage, found>> /\ lru \union forgotten \subseteq lru' \union forgotten'
      /\ forgotten \subseteq forgotten'
  BY DEF GoStale, DeleteSession, Evict
<1>2. InHand' = InHand
  BY <1>1 DEF InHand
<1>3. /\ status' \in [Hooks -> {"active", "closed", None}] /\ Active' \subseteq Active
      /\ together \subseteq together' /\ (Active' = Active \/ InHand \subseteq together')
  <2>1. CASE \E s \in Hooks : DeleteSession(s)
    BY <2>1, ClosedIs DEF DeleteSession
  <2>2. CASE status' = status /\ together' = together
    BY <2>2 DEF Active, HooksInv, HooksTypeOK
  <2> QED BY <2>1, <2>2 DEF GoStale, Evict
<1>4. HooksTypeOK'
  <2>1. stale' \subseteq Hooks /\ together' \subseteq Hooks /\ lru' \subseteq Messages /\ forgotten' \subseteq Messages
    BY DEF GoStale, DeleteSession, Evict, HooksInv, HooksTypeOK, Active, InHand
  <2> QED BY <1>1, <1>3, <2>1 DEF HooksInv, HooksTypeOK
<1>5. HandledAreRemembered' /\ HandledOnce'
  BY <1>1 DEF HooksInv, HandledAreRemembered, HandledOnce
<1>6. OneActive' /\ OverlapsAreNoted'
  BY <1>2, <1>3 DEF HooksInv, OneActive, OverlapsAreNoted
<1>7. \A h \in Hooks : HasItsSession(h)'
  BY <1>1, <1>3 DEF HooksInv, HasItsSession, InHand, Handling
<1> QED BY <1>4, <1>5, <1>6, <1>7 DEF HooksInv

\* A crash forgets the cache, and ends every handler.
LEMMA HookCrashStep ==
    ASSUME HooksInv, HookCrash
    PROVE  HooksInv'
<1>1. /\ hookStage' = [h \in Hooks |-> IF h \in InHand THEN "failed" ELSE hookStage[h]]
      /\ lru' = {} /\ forgotten' = forgotten \union lru /\ found' = [h \in Hooks |-> None]
      /\ UNCHANGED <<message, status, stale, together>>
  BY DEF HookCrash
<1>2. /\ \A h \in Hooks : hookStage'[h] \notin Handling
      /\ \A h \in Hooks : hookStage'[h] = hookStage[h] \/ (hookStage'[h] = "failed" /\ hookStage[h] \in Handling)
  BY <1>1 DEF InHand, Handling
<1>3. HooksTypeOK'
  BY <1>1 DEF HooksInv, HooksTypeOK
<1>4. \A h \in Hooks : hookStage'[h] \in HandledStages => hookStage[h] \in HandledStages
  BY <1>2 DEF HandledStages
<1>5. HandledAreRemembered'
  BY <1>1, <1>4 DEF HooksInv, HandledAreRemembered
<1>6. HandledOnce'
  <2>1. \A g, k \in Hooks :
           {hookStage'[g], hookStage'[k]} \subseteq HandledStages => {hookStage[g], hookStage[k]} \subseteq HandledStages
    BY <1>4
  <2> QED BY <1>1, <2>1 DEF HooksInv, HandledOnce, HandledStages
<1>7. OneActive' /\ OverlapsAreNoted'
  BY <1>1, <1>2 DEF HooksInv, OneActive, OverlapsAreNoted, Active, InHand
<1>8. \A h \in Hooks : HasItsSession(h)'
  <2>1. \A h \in Hooks : hookStage'[h] = "noSession" => hookStage[h] = "noSession"
    BY <1>2
  <2> QED BY <1>1, <1>2, <2>1 DEF HooksInv, HasItsSession, Handling
<1> QED BY <1>3, <1>5, <1>6, <1>7, <1>8 DEF HooksInv

\* HooksInv holds in every state.
LEMMA HooksInvariant == HooksSpec => []HooksInv
<1>1. HooksInit => HooksInv
  <2> SUFFICES ASSUME HooksInit PROVE HooksInv
    OBVIOUS
  <2>1. HooksTypeOK
    BY DEF HooksInit, HooksTypeOK
  <2>2. Active = {} /\ InHand = {} /\ \A h \in Hooks : hookStage[h] = "none"
    BY HooksAssumption DEF HooksInit, Active, InHand, Handling
  <2> QED BY <2>1, <2>2
          DEF HooksInv, HandledAreRemembered, HandledOnce, OneActive, OverlapsAreNoted, HasItsSession,
              HandledStages, Handling
<1>2. HooksInv /\ [HooksNext]_hookVars => HooksInv'
  <2> SUFFICES ASSUME HooksInv, [HooksNext]_hookVars PROVE HooksInv'
    OBVIOUS
  <2>1. CASE HooksNext
    BY <2>1, ReceiveStep, HandlerStep, CloseStaleStep, SetSessionStep, AroundStep, HookCrashStep DEF HooksNext
  <2>2. CASE UNCHANGED hookVars
    BY <2>2 DEF hookVars, HooksInv, HooksTypeOK, HandledAreRemembered, HandledOnce, OneActive,
                OverlapsAreNoted, HasItsSession, Active, InHand
  <2> QED BY <2>1, <2>2
<1> QED BY <1>1, <1>2, PTL DEF HooksSpec

\* A message is handled once while the cache remembers it, and in the user's one active
\* session, unless another handler or a DELETE came between.
THEOREM MessagesAreHandledOnce == HooksSpec => []MessagesReachSessions
<1>1. HooksInv => MessagesReachSessions
  <2> SUFFICES ASSUME HooksInv PROVE MessagesReachSessions
    OBVIOUS
  <2>1. Cardinality(Active) <= 1
    <3>1. CASE Active = {}
      BY <3>1, FS_EmptySet
    <3>2. CASE Active # {}
      <4>1. PICK s \in Active : TRUE
        BY <3>2
      <4>2. Active = {s}
        BY <4>1 DEF HooksInv, OneActive
      <4>3. Cardinality({s}) = 1
        BY FS_Singleton
      <4> QED BY <4>2, <4>3
    <3> QED BY <3>1, <3>2
  <2> QED BY <2>1 DEF HooksInv, MessagesReachSessions, SessionRefusedByRace, HasItsSession
<1> QED BY <1>1, HooksInvariant, PTL

-----------------------------------------------------------------------------
(* ChannelRoutes.                                                          *)

\* A save that is under way knows what it saves.
SavesAreCounted ==
    \A q \in RouteRequests : routeStage[q] = "saving" =>
       snapshot[q] \in RouteSnapshot /\ snapshot[q].at <= changes

\* The request that saves the last change, before or after its save.
SavesLast(q) == snapshot[q] # None /\ snapshot[q].at = changes

\* The router in use has all changes, and the last one is stored or being saved; while
\* an earlier one is being saved, the last one still is or has overtaken it.
ListsAgree ==
    ~uncertain =>
       /\ cachedIn # None =>
             table[cachedIn] = asListed /\ \A q \in RouteRequests : routeStage[q] # "loading"
       /\ cachedIn = None => \A q \in RouteRequests : routeStage[q] \notin {"saving", "auditing"}
       /\ savedRoutes = asListed \/ \E q \in RouteRequests : routeStage[q] = "saving" /\ SavesLast(q)
       /\ \A q \in RouteRequests :
             routeStage[q] = "saving" /\ SavesLast(q) => snapshot[q].routes = asListed
       /\ \A q \in RouteRequests : routeStage[q] = "saving" =>
             \E w \in RouteRequests : routeStage[w] \in {"saving", "auditing", "done"} /\ SavesLast(w)

\* Where an alert is still to go, and has gone, is where the routes sent it at the start.
IsRouted(l) ==
    /\ alert[l] = None => reached[l] = {}
    /\ alert[l] # None =>
          /\ alert[l].to = "targets" => \A x \in alert[l].left : x \in Targets /\ alert[l].kind \in asStarted[x]
          /\ alert[l].to = "adapters" =>
                /\ alert[l].left \subseteq Adapters
                /\ alert[l].left # {} => \A w \in Targets : alert[l].kind \notin asStarted[w]
          /\ \A t \in reached[l] : \/ alert[l].kind \in asStarted[t]
                                   \/ \A w \in Targets : alert[l].kind \notin asStarted[w]

AlertsAreRouted == ~uncertain => alertRoutes = asStarted /\ \A l \in Alerts : IsRouted(l)

\* An alert goes to targets, or to adapters.
LeftIsTyped ==
    \A l \in Alerts : alert[l] # None =>
       /\ alert[l].to = "targets" => alert[l].left \subseteq Targets
       /\ alert[l].to = "adapters" => alert[l].left \subseteq Adapters

RoutesInv == RoutesTypeOK /\ LeftIsTyped /\ SavesAreCounted /\ ListsAgree /\ AlertsAreRouted

\* A change of a route makes a list of routes.
LEMMA WithChangeIsTable ==
    ASSUME NEW routes \in RouteTables, NEW t \in Targets, NEW kinds \in SUBSET Kinds,
           NEW ch, ch = [target |-> t, kinds |-> kinds]
    PROVE  WithChange(routes, ch) \in RouteTables
BY DEF WithChange, RouteTables

\* Requests leave alerts alone.
LEMMA AlertsStay ==
    ASSUME AlertsAreRouted, UNCHANGED <<alertRoutes, alert, reached, asStarted>>,
           uncertain => uncertain'
    PROVE  AlertsAreRouted'
BY DEF AlertsAreRouted, IsRouted

\* A request goes on with router r.
LEMMA ChangeStep ==
    ASSUME RoutesInv, RoutesTypeOK', LeftIsTyped', NEW q \in RouteRequests, NEW r \in RouteRequests, NEW routes \in RouteTables,
           NEW ch, ch = None \/ ch \in [target : Targets, kinds : SUBSET Kinds],
           routeStage[q] \in {"none", "loading"}, ChangeWith(q, r, routes, ch),
           UNCHANGED <<savedRoutes, alertVars, asStarted>>, cachedIn' = r,
           ~uncertain' => /\ ~uncertain /\ routes = asListed
                          /\ \A w \in RouteRequests \ {q} : routeStage[w] # "loading"
    PROVE  RoutesInv'
<1>1. r # None
  BY RoutesAssumption
<1>2. CASE /\ routeStage' = [routeStage EXCEPT ![q] = "done"] \/ routeStage' = [routeStage EXCEPT ![q] = "notFound"]
           /\ table' = [table EXCEPT ![r] = routes] /\ UNCHANGED <<snapshot, asListed, changes>>
  <2>1. /\ table'[r] = routes
        /\ routeStage'[q] \in {"done", "notFound"} /\ \A w \in RouteRequests \ {q} : routeStage'[w] = routeStage[w]
    BY <1>2 DEF RoutesInv, RoutesTypeOK
  <2>2. \A w \in RouteRequests : SavesLast(w)' <=> SavesLast(w)
    BY <1>2 DEF SavesLast
  <2>3. \A w \in RouteRequests : routeStage'[w] = "saving" <=> routeStage[w] = "saving"
    BY <2>1
  <2>4. SavesAreCounted'
    BY <1>2, <2>3 DEF RoutesInv, SavesAreCounted
  <2>5. ListsAgree'
    <3> SUFFICES ASSUME ~uncertain' PROVE ListsAgree'
      BY DEF ListsAgree
    <3>1. ~uncertain /\ routes = asListed /\ \A w \in RouteRequests \ {q} : routeStage[w] # "loading"
      OBVIOUS
    <3>2. table'[cachedIn'] = asListed' /\ \A w \in RouteRequests : routeStage'[w] # "loading"
      BY <1>2, <2>1, <3>1
    <3>3. savedRoutes = asListed \/ \E w \in RouteRequests : routeStage[w] = "saving" /\ SavesLast(w)
      BY <3>1 DEF RoutesInv, ListsAgree
    <3>4. \A w \in RouteRequests :
             routeStage[w] = "saving" /\ SavesLast(w) => snapshot[w].routes = asListed
      BY <3>1 DEF RoutesInv, ListsAgree
    <3>5. \A w \in RouteRequests : routeStage[w] = "saving" =>
             \E k \in RouteRequests : routeStage'[k] \in {"saving", "auditing", "done"} /\ SavesLast(k)
      BY <2>1, <3>1 DEF RoutesInv, ListsAgree
    <3> QED BY <1>1, <1>2, <2>2, <2>3, <3>2, <3>3, <3>4, <3>5 DEF ListsAgree
  <2> QED BY <2>4, <2>5, AlertsStay DEF RoutesInv, alertVars
<1>3. CASE /\ ch # None
           /\ routeStage' = [routeStage EXCEPT ![q] = "saving"]
           /\ table' = [table EXCEPT ![r] = WithChange(routes, ch)]
           /\ snapshot' = [snapshot EXCEPT ![q] = [routes |-> WithChange(routes, ch), at |-> changes + 1]]
           /\ asListed' = WithChange(asListed, ch)
           /\ changes' = changes + 1
  <2>1. WithChange(routes, ch) \in RouteTables
    BY <1>3, WithChangeIsTable
  <2> DEFINE new == [routes |-> WithChange(routes, ch), at |-> changes + 1]
  <2>2. changes \in Nat /\ new.routes = WithChange(routes, ch) /\ new.at = changes + 1 /\ new \in RouteSnapshot
    BY <2>1 DEF RouteSnapshot, RoutesInv, RoutesTypeOK
  <2>3. snapshot' = [snapshot EXCEPT ![q] = new]
    BY <1>3
  <2> HIDE DEF new
  <2>4. /\ table'[r] = WithChange(routes, ch)
        /\ routeStage'[q] = "saving" /\ \A w \in RouteRequests \ {q} : routeStage'[w] = routeStage[w]
    BY <1>3 DEF RoutesInv, RoutesTypeOK
  <2>5. snapshot'[q] = new /\ \A w \in RouteRequests \ {q} : snapshot'[w] = snapshot[w]
    BY <2>3 DEF RoutesInv, RoutesTypeOK
  <2>6. SavesAreCounted'
    <3> SUFFICES ASSUME NEW w \in RouteRequests, routeStage'[w] = "saving"
                 PROVE  snapshot'[w] \in RouteSnapshot /\ snapshot'[w].at <= changes'
      BY DEF SavesAreCounted
    <3>1. CASE w = q
      BY <1>3, <2>2, <2>5, <3>1
    <3>2. CASE w # q
      <4>1. snapshot[w] \in RouteSnapshot /\ snapshot[w].at <= changes /\ snapshot'[w] = snapshot[w]
        BY <2>4, <2>5, <3>2 DEF RoutesInv, SavesAreCounted
      <4>2. snapshot[w].at \in Nat
        BY <4>1 DEF RouteSnapshot
      <4> QED BY <1>3, <2>2, <4>1, <4>2
    <3> QED BY <3>1, <3>2
  <2>7. SavesLast(q)' /\ \A w \in RouteRequests : routeStage'[w] = "saving" /\ SavesLast(w)' => w = q
    <3>1. SavesLast(q)'
      BY <1>3, <2>2, <2>5, RecordsAssumption DEF SavesLast
    <3>2. ASSUME NEW w \in RouteRequests, routeStage'[w] = "saving", SavesLast(w)', w # q PROVE FALSE
      <4>1. snapshot[w] \in RouteSnapshot /\ snapshot[w].at <= changes /\ snapshot'[w] = snapshot[w]
        BY <2>4, <2>5, <3>2 DEF RoutesInv, SavesAreCounted
      <4>2. snapshot[w].at \in Nat /\ snapshot[w].at = changes + 1
        BY <1>3, <3>2, <4>1 DEF RouteSnapshot, SavesLast
      <4> QED BY <2>2, <4>1, <4>2
    <3> QED BY <3>1, <3>2
  <2>8. ListsAgree'
    <3> SUFFICES ASSUME ~uncertain' PROVE ListsAgree'
      BY DEF ListsAgree
    <3>1. ~uncertain /\ routes = asListed /\ \A w \in RouteRequests \ {q} : routeStage[w] # "loading"
      OBVIOUS
    <3>2. table'[cachedIn'] = asListed' /\ \A w \in RouteRequests : routeStage'[w] # "loading"
      BY <1>3, <2>4, <3>1
    <3>3. snapshot'[q].routes = asListed'
      BY <1>3, <2>2, <2>5, <3>1
    <3>4. \A w \in RouteRequests :
             routeStage'[w] = "saving" /\ SavesLast(w)' => snapshot'[w].routes = asListed'
      BY <2>7, <3>3
    <3> QED BY <1>1, <2>4, <2>7, <3>2, <3>4 DEF ListsAgree
  <2> QED BY <2>6, <2>8, AlertsStay DEF RoutesInv, alertVars
<1> QED BY <1>2, <1>3 DEF ChangeWith, RequestGoes

\* A request comes, and goes on when there is a router.
LEMMA RequestRoutesStep ==
    ASSUME RoutesInv, RoutesTypeOK', LeftIsTyped', NEW q \in RouteRequests, NEW ch \in Changes, RequestRoutes(q, ch)
    PROVE  RoutesInv'
<1>1. /\ routeStage[q] = "none"
      /\ UNCHANGED <<cachedIn, savedRoutes, alertVars, asStarted, uncertain>>
  BY DEF RequestRoutes
<1>2. CASE cachedIn = None
  <2>1. RequestGoes(q, "loading") /\ UNCHANGED <<table, snapshot, asListed, changes>>
    BY <1>2 DEF RequestRoutes, CachedRouter
  <2>2. routeStage'[q] = "loading" /\ \A w \in RouteRequests \ {q} : routeStage'[w] = routeStage[w]
    BY <2>1 DEF RequestGoes, RoutesInv, RoutesTypeOK
  <2>3. \A w \in RouteRequests : SavesLast(w)' <=> SavesLast(w)
    BY <2>1 DEF SavesLast
  <2>4. SavesAreCounted'
    BY <2>1, <2>2 DEF RoutesInv, SavesAreCounted
  <2>5. ListsAgree'
    BY <1>1, <1>2, <2>1, <2>2, <2>3 DEF RoutesInv, ListsAgree
  <2> QED BY <1>1, <2>4, <2>5, AlertsStay DEF RoutesInv, alertVars
<1>3. CASE cachedIn # None
  <2>1. cachedIn \in RouteRequests /\ table[cachedIn] \in RouteTables
    BY <1>3 DEF RoutesInv, RoutesTypeOK
  <2>2. PICK r \in RouteRequests, routes \in RouteTables : r = cachedIn /\ routes = table[cachedIn]
    BY <2>1
  <2>3. ChangeWith(q, r, routes, ch)
    BY <1>3, <2>2 DEF RequestRoutes, CachedRouter
  <2>4. ~uncertain' => /\ ~uncertain /\ routes = asListed
                       /\ \A w \in RouteRequests \ {q} : routeStage[w] # "loading"
    BY <1>1, <1>3, <2>2 DEF RoutesInv, ListsAgree
  <2>5. ch = None \/ ch \in [target : Targets, kinds : SUBSET Kinds]
    BY DEF Changes
  <2> QED BY <1>1, <2>2, <2>3, <2>4, <2>5, ChangeStep
<1> QED BY <1>2, <1>3

\* The routes are loaded.
LEMMA RoutesLoadedStep ==
    ASSUME RoutesInv, RoutesTypeOK', LeftIsTyped', NEW q \in RouteRequests, NEW fails \in BOOLEAN, RoutesLoaded(q, fails)
    PROVE  RoutesInv'
<1>1. /\ routeStage[q] = "loading" /\ cachedIn' = q
      /\ UNCHANGED <<savedRoutes, change, alertVars, asStarted>>
      /\ ChangeWith(q, q, IF fails THEN NoRoutes ELSE savedRoutes, change[q])
  BY DEF RoutesLoaded
<1>2. ~uncertain' => ~uncertain /\ ~fails /\ \A w \in RouteRequests \ {q} : routeStage[w] # "loading"
  BY DEF RoutesLoaded
<1>3. PICK routes \in RouteTables : routes = IF fails THEN NoRoutes ELSE savedRoutes
  <2>1. NoRoutes \in RouteTables
    BY DEF NoRoutes, RouteTables
  <2> QED BY <2>1 DEF RoutesInv, RoutesTypeOK
<1>4. PICK ch : ch = change[q]
  OBVIOUS
<1>5. ch = None \/ ch \in [target : Targets, kinds : SUBSET Kinds]
  BY <1>4 DEF RoutesInv, RoutesTypeOK
<1>6. ~uncertain' => routes = asListed
  <2> SUFFICES ASSUME ~uncertain' PROVE routes = asListed
    OBVIOUS
  <2>1. cachedIn = None
    BY <1>1, <1>2 DEF RoutesInv, ListsAgree
  <2>2. savedRoutes = asListed
    BY <1>2, <2>1 DEF RoutesInv, ListsAgree
  <2> QED BY <1>2, <1>3, <2>2
<1>7. ChangeWith(q, q, routes, ch)
  BY <1>1, <1>3, <1>4
<1> QED BY <1>1, <1>2, <1>5, <1>6, <1>7, ChangeStep

\* A save ends, before or after a later one.
LEMMA RoutesSavedStep ==
    ASSUME RoutesInv, RoutesTypeOK', LeftIsTyped', NEW q \in RouteRequests, NEW fails \in BOOLEAN, RoutesSaved(q, fails)
    PROVE  RoutesInv'
<1>1. /\ routeStage[q] = "saving"
      /\ routeStage'[q] = (IF fails THEN "failed" ELSE "auditing")
      /\ \A w \in RouteRequests \ {q} : routeStage'[w] = routeStage[w]
      /\ savedRoutes' = IF fails THEN savedRoutes ELSE snapshot[q].routes
      /\ UNCHANGED <<table, cachedIn, change, snapshot, alertVars, asListed, changes, asStarted>>
  BY DEF RoutesSaved, RequestGoes, RoutesInv, RoutesTypeOK
<1>2. /\ uncertain => uncertain'
      /\ ~uncertain' => ~uncertain /\ ~fails /\ OvertakenBy(q) = {}
  BY DEF RoutesSaved
<1>3. \A w \in RouteRequests : SavesLast(w)' <=> SavesLast(w)
  BY <1>1 DEF SavesLast
<1>4. SavesAreCounted'
  BY <1>1 DEF RoutesInv, SavesAreCounted
<1>5. ListsAgree'
  <2> SUFFICES ASSUME ~uncertain' PROVE ListsAgree'
    BY DEF ListsAgree
  <2>1. ~uncertain /\ savedRoutes' = snapshot[q].routes /\ routeStage'[q] = "auditing" /\ OvertakenBy(q) = {}
    BY <1>1, <1>2
  <2>2. /\ cachedIn # None => table[cachedIn] = asListed /\ \A w \in RouteRequests : routeStage[w] # "loading"
        /\ cachedIn # None
        /\ \A w \in RouteRequests : routeStage[w] = "saving" /\ SavesLast(w) => snapshot[w].routes = asListed
    BY <1>1, <2>1 DEF RoutesInv, ListsAgree
  <2>3. PICK w \in RouteRequests : routeStage[w] \in {"saving", "auditing", "done"} /\ SavesLast(w)
    BY <1>1, <2>1 DEF RoutesInv, ListsAgree
  <2>4. snapshot[q] \in RouteSnapshot /\ snapshot[q].at <= changes /\ snapshot[q].at \in Nat /\ changes \in Nat
    BY <1>1 DEF RoutesInv, RoutesTypeOK, SavesAreCounted, RouteSnapshot
  <2>5. savedRoutes' = asListed' \/ \E k \in RouteRequests : routeStage'[k] = "saving" /\ SavesLast(k)'
    <3>1. CASE snapshot[q].at = changes
      <4>1. SavesLast(q)
        BY <2>4, <3>1, RecordsAssumption DEF SavesLast
      <4> QED BY <1>1, <2>1, <2>2, <4>1
    <3>2. CASE snapshot[q].at # changes
      <4>1. snapshot[w] # None /\ snapshot[w].at > snapshot[q].at /\ w # q
        BY <2>3, <2>4, <3>2 DEF SavesLast
      <4>2. routeStage[w] = "saving"
        BY <2>1, <2>3, <4>1 DEF OvertakenBy
      <4> QED BY <1>1, <1>3, <2>3, <4>1, <4>2
    <3> QED BY <3>1, <3>2
  <2>6. routeStage'[w] \in {"saving", "auditing", "done"} /\ SavesLast(w)'
    BY <1>1, <1>3, <2>1, <2>3
  <2> QED BY <1>1, <1>3, <2>1, <2>2, <2>5, <2>6 DEF ListsAgree
<1> QED BY <1>1, <1>2, <1>4, <1>5, AlertsStay DEF RoutesInv, alertVars

\* The audit write ends.
LEMMA RouteAuditedStep ==
    ASSUME RoutesInv, RoutesTypeOK', LeftIsTyped', NEW q \in RouteRequests, RouteAudited(q)
    PROVE  RoutesInv'
<1>1. /\ routeStage[q] = "auditing" /\ routeStage'[q] = "done"
      /\ \A w \in RouteRequests \ {q} : routeStage'[w] = routeStage[w]
      /\ UNCHANGED <<table, cachedIn, savedRoutes, change, snapshot, alertRoutes, lastChannel, alert, reached,
                     asListed, changes, asStarted, uncertain>>
  BY DEF RouteAudited, RequestGoes, RoutesInv, RoutesTypeOK, alertVars, listVars
<1>2. \A w \in RouteRequests : SavesLast(w)' <=> SavesLast(w)
  BY <1>1 DEF SavesLast
<1>3. SavesAreCounted'
  BY <1>1 DEF RoutesInv, SavesAreCounted
<1>4. \A w \in RouteRequests :
         /\ routeStage'[w] = "saving" <=> routeStage[w] = "saving"
         /\ routeStage'[w] = "loading" <=> routeStage[w] = "loading"
         /\ routeStage[w] \in {"saving", "auditing", "done"} => routeStage'[w] \in {"saving", "auditing", "done"}
         /\ routeStage'[w] = "auditing" => routeStage[w] = "auditing"
  BY <1>1
<1>5. ListsAgree'
  BY <1>1, <1>2, <1>4 DEF RoutesInv, ListsAgree
<1> QED BY <1>1, <1>3, <1>5, AlertsStay DEF RoutesInv

\* A step of the alerts leaves the requests alone.
LEMMA RequestsStay ==
    ASSUME RoutesInv, RoutesTypeOK', LeftIsTyped', UNCHANGED <<requestVars, listVars>>, AlertsAreRouted'
    PROVE  RoutesInv'
<1>1. UNCHANGED <<table, cachedIn, savedRoutes, change, routeStage, snapshot, asListed, changes, asStarted, uncertain>>
  BY DEF requestVars, listVars
<1>2. SavesAreCounted' /\ ListsAgree'
  BY <1>1 DEF RoutesInv, SavesAreCounted, ListsAgree, SavesLast
<1> QED BY <1>2 DEF RoutesInv

\* An alert is addressed to what matches it.
LEMMA RaiseAlertStep ==
    ASSUME RoutesInv, RoutesTypeOK', LeftIsTyped', NEW l \in Alerts, NEW kind \in Kinds, RaiseAlert(l, kind)
    PROVE  RoutesInv'
<1>1. /\ alert[l] = None /\ alert' = [alert EXCEPT ![l] = Addressed(kind)]
      /\ UNCHANGED <<requestVars, alertRoutes, lastChannel, reached, listVars>>
  BY DEF RaiseAlert
<1>2. PICK new : new = Addressed(kind)
  OBVIOUS
<1>3. /\ new.kind = kind /\ new.to \in {"adapters", "targets"}
      /\ new.to = "targets" => \A x \in new.left : x \in MatchingTargets(kind)
      /\ new.to = "adapters" => new.left = Adapters /\ MatchingTargets(kind) = {}
  BY <1>2 DEF Addressed
<1>4. alert'[l] = new /\ \A k \in Alerts \ {l} : alert'[k] = alert[k]
  BY <1>1, <1>2 DEF RoutesInv, RoutesTypeOK
<1>5. ASSUME ~uncertain', NEW k \in Alerts PROVE IsRouted(k)'
  <2>1. ~uncertain /\ alertRoutes = asStarted /\ IsRouted(k) /\ IsRouted(l) /\ UNCHANGED <<reached, asStarted>>
    BY <1>1, <1>5 DEF RoutesInv, AlertsAreRouted, listVars
  <2>2. CASE k = l
    <3>1. reached'[l] = {}
      BY <1>1, <2>1 DEF IsRouted
    <3> QED BY <1>3, <1>4, <2>1, <2>2, <3>1 DEF IsRouted, MatchingTargets
  <2>3. CASE k # l
    BY <1>4, <2>1, <2>3 DEF IsRouted
  <2> QED BY <2>2, <2>3
<1>6. AlertsAreRouted'
  BY <1>1, <1>5 DEF RoutesInv, AlertsAreRouted, listVars
<1> QED BY <1>1, <1>6, RequestsStay

\* It is sent to one of them.
LEMMA SendAlertStep ==
    ASSUME RoutesInv, RoutesTypeOK', LeftIsTyped', NEW l \in Alerts, NEW x \in Targets \union Adapters, NEW fails \in BOOLEAN,
           SendAlert(l, x, fails)
    PROVE  RoutesInv'
<1> DEFINE t == IF alert[l].to = "targets" THEN x ELSE lastChannel[x]
<1>1. /\ alert[l] # None /\ x \in alert[l].left
      /\ reached' = reached \/ (t # None /\ reached' = [reached EXCEPT ![l] = @ \union {t}])
      /\ alert' = [alert EXCEPT ![l].left = @ \ {x}]
      /\ UNCHANGED <<requestVars, alertRoutes, lastChannel, listVars>>
  BY DEF SendAlert
<1> HIDE DEF t
<1>2. alert[l] \in AlertRecord
  BY <1>1 DEF RoutesInv, RoutesTypeOK
<1>3. alert'[l] = [alert[l] EXCEPT !.left = @ \ {x}] /\ \A k \in Alerts \ {l} : alert'[k] = alert[k]
  BY <1>1 DEF RoutesInv, RoutesTypeOK
<1>4. /\ alert'[l].kind = alert[l].kind /\ alert'[l].to = alert[l].to
      /\ alert'[l].left = alert[l].left \ {x} /\ alert'[l] \in AlertRecord
  BY <1>2, <1>3 DEF AlertRecord
<1>5. /\ \A k \in Alerts \ {l} : reached'[k] = reached[k]
      /\ reached'[l] = reached[l] \/ (t # None /\ reached'[l] = reached[l] \union {t})
  BY <1>1 DEF RoutesInv, RoutesTypeOK
<1>6. ASSUME ~uncertain', NEW k \in Alerts PROVE IsRouted(k)'
  <2>1. ~uncertain /\ IsRouted(k) /\ IsRouted(l) /\ UNCHANGED asStarted
    BY <1>1, <1>6 DEF RoutesInv, AlertsAreRouted, listVars
  <2>2. CASE k = l
    <3>1. alert[l].to = "targets" => t = x /\ alert[l].kind \in asStarted[x]
      BY <1>1, <2>1 DEF IsRouted, t
    <3>2. alert[l].to = "adapters" => \A w \in Targets : alert[l].kind \notin asStarted[w]
      BY <1>1, <2>1 DEF IsRouted
    <3>3. alert[l].to \in {"adapters", "targets"}
      BY <1>2 DEF AlertRecord
    <3>4. \A w \in reached'[l] : \/ alert[l].kind \in asStarted[w]
                                 \/ \A z \in Targets : alert[l].kind \notin asStarted[z]
      BY <1>1, <1>5, <2>1, <3>1, <3>2, <3>3 DEF IsRouted
    <3>5. alert'[l] # None
      BY <1>4, RecordsAssumption
    <3> QED BY <1>1, <1>4, <2>1, <2>2, <3>4, <3>5 DEF IsRouted
  <2>3. CASE k # l
    BY <1>3, <1>5, <2>1, <2>3 DEF IsRouted
  <2> QED BY <2>2, <2>3
<1>7. AlertsAreRouted'
  BY <1>1, <1>6 DEF RoutesInv, AlertsAreRouted, listVars
<1> QED BY <1>1, <1>7, RequestsStay

\* The process starts again with the routes that are stored.
LEMMA RestartRoutesStep ==
    ASSUME RoutesInv, RoutesTypeOK', LeftIsTyped', NEW fails \in BOOLEAN, RestartRoutes(fails)
    PROVE  RoutesInv'
<1>1. /\ cachedIn' = None
      /\ alertRoutes' = IF fails THEN NoRoutes ELSE savedRoutes
      /\ \A q \in RouteRequests : routeStage'[q] \notin {"loading", "saving", "auditing"}
      /\ alert' = [l \in Alerts |-> IF alert[l] = None THEN None ELSE [alert[l] EXCEPT !.left = {}]]
      /\ reached' = [l \in Alerts |-> {}]
      /\ asStarted' = asListed
      /\ UNCHANGED <<savedRoutes, change, snapshot, asListed, changes>>
  BY DEF RestartRoutes, RequestsAtWork
<1>2. ~uncertain' => ~uncertain /\ ~fails /\ RequestsAtWork = {}
  BY DEF RestartRoutes
<1>3. SavesAreCounted'
  BY <1>1 DEF SavesAreCounted
<1>4. ~uncertain' => savedRoutes = asListed
  <2> SUFFICES ASSUME ~uncertain' PROVE savedRoutes = asListed
    OBVIOUS
  <2>1. \A q \in RouteRequests : routeStage[q] # "saving"
    BY <1>2 DEF RequestsAtWork
  <2> QED BY <1>2, <2>1 DEF RoutesInv, ListsAgree
<1>5. ListsAgree'
  BY <1>1, <1>4 DEF ListsAgree
<1>6. \A l \in Alerts : IsRouted(l)'
  <2> SUFFICES ASSUME NEW l \in Alerts PROVE IsRouted(l)'
    OBVIOUS
  <2>1. CASE alert[l] = None
    BY <1>1, <2>1 DEF IsRouted
  <2>2. CASE alert[l] # None
    <3>1. alert[l] \in AlertRecord /\ alert'[l] = [alert[l] EXCEPT !.left = {}] /\ reached'[l] = {}
      BY <1>1, <2>2 DEF RoutesInv, RoutesTypeOK
    <3>2. alert'[l].left = {}
      BY <3>1 DEF AlertRecord
    <3> QED BY <3>1, <3>2 DEF IsRouted
  <2> QED BY <2>1, <2>2
<1>7. AlertsAreRouted'
  BY <1>1, <1>2, <1>4, <1>6 DEF AlertsAreRouted
<1> QED BY <1>3, <1>5, <1>7 DEF RoutesInv

\* What a change makes of the types.
LEMMA ChangeTypes ==
    ASSUME RoutesTypeOK, NEW q \in RouteRequests, NEW r \in RouteRequests, NEW routes \in RouteTables,
           NEW ch, ch = None \/ ch \in [target : Targets, kinds : SUBSET Kinds],
           ChangeWith(q, r, routes, ch)
    PROVE  /\ table' \in [RouteRequests -> RouteTables]
           /\ routeStage' \in [RouteRequests -> {"none", "loading", "saving", "auditing", "done", "failed", "notFound"}]
           /\ snapshot' \in [RouteRequests -> RouteSnapshot \union {None}]
           /\ asListed' \in RouteTables /\ changes' \in Nat
<1>1. CASE /\ routeStage' = [routeStage EXCEPT ![q] = "done"] \/ routeStage' = [routeStage EXCEPT ![q] = "notFound"]
           /\ table' = [table EXCEPT ![r] = routes] /\ UNCHANGED <<snapshot, asListed, changes>>
  BY <1>1 DEF RoutesTypeOK
<1>2. CASE /\ ch # None
           /\ routeStage' = [routeStage EXCEPT ![q] = "saving"]
           /\ table' = [table EXCEPT ![r] = WithChange(routes, ch)]
           /\ snapshot' = [snapshot EXCEPT ![q] = [routes |-> WithChange(routes, ch), at |-> changes + 1]]
           /\ asListed' = WithChange(asListed, ch)
           /\ changes' = changes + 1
  <2>1. WithChange(routes, ch) \in RouteTables /\ asListed' \in RouteTables
    <3>1. PICK listedNow \in RouteTables : listedNow = asListed
      BY DEF RoutesTypeOK
    <3>2. asListed' = WithChange(listedNow, ch)
      BY <1>2, <3>1
    <3> QED BY <1>2, <3>2, WithChangeIsTable
  <2>2. changes + 1 \in Nat
    BY DEF RoutesTypeOK
  <2>3. [routes |-> WithChange(routes, ch), at |-> changes + 1] \in RouteSnapshot
    BY <2>1, <2>2 DEF RouteSnapshot
  <2>4. snapshot' \in [RouteRequests -> RouteSnapshot \union {None}]
    BY <1>2, <2>3 DEF RoutesTypeOK
  <2>5. table' \in [RouteRequests -> RouteTables]
    BY <1>2, <2>1 DEF RoutesTypeOK
  <2> QED BY <1>2, <2>1, <2>2, <2>4, <2>5 DEF RoutesTypeOK
<1> QED BY <1>1, <1>2 DEF ChangeWith, RequestGoes

\* Every step keeps the types.
LEMMA RoutesTypeStep ==
    ASSUME RoutesInv, RoutesNext PROVE RoutesTypeOK' /\ LeftIsTyped'
<1>1. ASSUME NEW q \in RouteRequests, NEW ch \in Changes, RequestRoutes(q, ch)
      PROVE  RoutesTypeOK' /\ LeftIsTyped'
  <2>1. /\ UNCHANGED <<cachedIn, savedRoutes, alertRoutes, lastChannel, alert, reached, asStarted, uncertain>>
        /\ change' = [change EXCEPT ![q] = ch]
    BY <1>1 DEF RequestRoutes, alertVars
  <2>2. /\ table' \in [RouteRequests -> RouteTables]
        /\ routeStage' \in [RouteRequests -> {"none", "loading", "saving", "auditing", "done", "failed", "notFound"}]
        /\ snapshot' \in [RouteRequests -> RouteSnapshot \union {None}]
        /\ asListed' \in RouteTables /\ changes' \in Nat
    <3>1. CASE cachedIn = None
      BY <1>1, <3>1 DEF RequestRoutes, CachedRouter, RequestGoes, RoutesInv, RoutesTypeOK
    <3>2. CASE cachedIn # None
      <4>1. PICK r \in RouteRequests, routes \in RouteTables : r = cachedIn /\ routes = table[cachedIn]
        BY <3>2 DEF RoutesInv, RoutesTypeOK
      <4>2. ChangeWith(q, r, routes, ch)
        BY <1>1, <3>2, <4>1 DEF RequestRoutes, CachedRouter
      <4>3. ch = None \/ ch \in [target : Targets, kinds : SUBSET Kinds]
        BY DEF Changes
      <4> QED BY <4>2, <4>3, ChangeTypes DEF RoutesInv
    <3> QED BY <3>1, <3>2
  <2>3. change' \in [RouteRequests -> [target : Targets, kinds : SUBSET Kinds] \union {None}]
    BY <2>1 DEF Changes, RoutesInv, RoutesTypeOK
  <2>4. LeftIsTyped'
    BY <2>1 DEF RoutesInv, LeftIsTyped
  <2> QED BY <2>1, <2>2, <2>3, <2>4 DEF RoutesInv, RoutesTypeOK
<1>2. ASSUME NEW q \in RouteRequests, NEW fails \in BOOLEAN, RoutesLoaded(q, fails)
      PROVE  RoutesTypeOK' /\ LeftIsTyped'
  <2>1. /\ UNCHANGED <<savedRoutes, change, alertRoutes, lastChannel, alert, reached, asStarted>>
        /\ cachedIn' = q /\ uncertain' \in BOOLEAN
    BY <1>2 DEF RoutesLoaded, alertVars
  <2>2. PICK routes \in RouteTables : routes = IF fails THEN NoRoutes ELSE savedRoutes
    <3>1. NoRoutes \in RouteTables
      BY DEF NoRoutes, RouteTables
    <3> QED BY <3>1 DEF RoutesInv, RoutesTypeOK
  <2>3. PICK ch : ch = change[q]
    OBVIOUS
  <2>4. ch \in Changes /\ (ch = None \/ ch \in [target : Targets, kinds : SUBSET Kinds])
    BY <2>3 DEF RoutesInv, RoutesTypeOK, Changes
  <2>5. ChangeWith(q, q, routes, ch)
    BY <1>2, <2>2, <2>3 DEF RoutesLoaded
  <2>6. /\ table' \in [RouteRequests -> RouteTables]
        /\ routeStage' \in [RouteRequests -> {"none", "loading", "saving", "auditing", "done", "failed", "notFound"}]
        /\ snapshot' \in [RouteRequests -> RouteSnapshot \union {None}]
        /\ asListed' \in RouteTables /\ changes' \in Nat
    BY <2>4, <2>5, ChangeTypes DEF RoutesInv
  <2>7. LeftIsTyped'
    BY <2>1 DEF RoutesInv, LeftIsTyped
  <2> QED BY <2>1, <2>6, <2>7 DEF RoutesInv, RoutesTypeOK
<1>3. ASSUME NEW q \in RouteRequests, NEW fails \in BOOLEAN, RoutesSaved(q, fails)
      PROVE  RoutesTypeOK' /\ LeftIsTyped'
  <2>1. snapshot[q].routes \in RouteTables
    BY <1>3 DEF RoutesSaved, RoutesInv, SavesAreCounted, RouteSnapshot
  <2>2. UNCHANGED <<table, cachedIn, change, snapshot, alertRoutes, lastChannel, alert, reached,
                    asListed, changes, asStarted>>
    BY <1>3 DEF RoutesSaved, alertVars
  <2>3. LeftIsTyped'
    BY <2>2 DEF RoutesInv, LeftIsTyped
  <2>4. savedRoutes' \in RouteTables /\ uncertain' \in BOOLEAN
    BY <1>3, <2>1 DEF RoutesSaved, RoutesInv, RoutesTypeOK
  <2>5. routeStage' \in [RouteRequests -> {"none", "loading", "saving", "auditing", "done", "failed", "notFound"}]
    BY <1>3 DEF RoutesSaved, RequestGoes, RoutesInv, RoutesTypeOK
  <2> QED BY <2>2, <2>3, <2>4, <2>5 DEF RoutesInv, RoutesTypeOK
<1>4. ASSUME NEW q \in RouteRequests, RouteAudited(q) PROVE RoutesTypeOK' /\ LeftIsTyped'
  <2>1. UNCHANGED <<table, cachedIn, savedRoutes, change, snapshot, alertRoutes, lastChannel, alert, reached,
                    asListed, changes, asStarted, uncertain>>
    BY <1>4 DEF RouteAudited, alertVars, listVars
  <2>2. LeftIsTyped'
    BY <2>1 DEF RoutesInv, LeftIsTyped
  <2> QED BY <1>4, <2>1, <2>2 DEF RouteAudited, RequestGoes, RoutesInv, RoutesTypeOK
<1>5. ASSUME NEW t \in Targets, ChannelSpeaks(t) PROVE RoutesTypeOK' /\ LeftIsTyped'
  <2>1. /\ UNCHANGED <<table, cachedIn, savedRoutes, change, routeStage, snapshot, alertRoutes, alert, reached,
                       asListed, changes, asStarted, uncertain>>
        /\ lastChannel' = [lastChannel EXCEPT ![AdapterOf[t]] = t]
    BY <1>5 DEF ChannelSpeaks, requestVars, listVars
  <2>2. LeftIsTyped'
    BY <2>1 DEF RoutesInv, LeftIsTyped
  <2>3. lastChannel' \in [Adapters -> Targets \union {None}]
    BY <2>1 DEF RoutesInv, RoutesTypeOK
  <2> QED BY <2>1, <2>2, <2>3 DEF RoutesInv, RoutesTypeOK
<1>6. ASSUME NEW l \in Alerts, NEW kind \in Kinds, RaiseAlert(l, kind) PROVE RoutesTypeOK' /\ LeftIsTyped'
  <2>1. /\ UNCHANGED <<table, cachedIn, savedRoutes, change, routeStage, snapshot, alertRoutes, lastChannel, reached,
                       asListed, changes, asStarted, uncertain>>
        /\ alert' = [alert EXCEPT ![l] = Addressed(kind)]
    BY <1>6 DEF RaiseAlert, requestVars, listVars
  <2>2. PICK new : new = Addressed(kind)
    OBVIOUS
  <2>3. /\ new \in AlertRecord
        /\ new.to = "targets" => new.left \subseteq Targets
        /\ new.to = "adapters" => new.left \subseteq Adapters
    BY <2>2 DEF Addressed, AlertRecord, MatchingTargets
  <2>4. alert' \in [Alerts -> AlertRecord \union {None}] /\ alert'[l] = new
        /\ \A k \in Alerts \ {l} : alert'[k] = alert[k]
    BY <2>1, <2>2, <2>3 DEF RoutesInv, RoutesTypeOK
  <2>5. LeftIsTyped'
    BY <2>3, <2>4 DEF RoutesInv, LeftIsTyped
  <2> QED BY <2>1, <2>4, <2>5 DEF RoutesInv, RoutesTypeOK
<1>7. ASSUME NEW l \in Alerts, NEW x \in Targets \union Adapters, NEW fails \in BOOLEAN, SendAlert(l, x, fails)
      PROVE  RoutesTypeOK' /\ LeftIsTyped'
  <2> DEFINE t == IF alert[l].to = "targets" THEN x ELSE lastChannel[x]
  <2>1. /\ alert[l] # None /\ x \in alert[l].left
        /\ reached' = reached \/ (t # None /\ reached' = [reached EXCEPT ![l] = @ \union {t}])
        /\ alert' = [alert EXCEPT ![l].left = @ \ {x}]
        /\ UNCHANGED <<table, cachedIn, savedRoutes, change, routeStage, snapshot, alertRoutes, lastChannel,
                       asListed, changes, asStarted, uncertain>>
    BY <1>7 DEF SendAlert, requestVars, listVars
  <2>2. alert[l] \in AlertRecord
    BY <2>1 DEF RoutesInv, RoutesTypeOK
  <2>3. t \in Targets \union {None}
    <3>1. CASE alert[l].to = "targets"
      BY <2>1, <3>1 DEF RoutesInv, LeftIsTyped
    <3>2. CASE alert[l].to # "targets"
      <4>1. x \in Adapters
        BY <2>1, <2>2, <3>2 DEF RoutesInv, LeftIsTyped, AlertRecord
      <4> QED BY <3>2, <4>1 DEF RoutesInv, RoutesTypeOK
    <3> QED BY <3>1, <3>2
  <2> HIDE DEF t
  <2>4. alert'[l] = [alert[l] EXCEPT !.left = @ \ {x}] /\ \A k \in Alerts \ {l} : alert'[k] = alert[k]
    BY <2>1 DEF RoutesInv, RoutesTypeOK
  <2>5. /\ alert'[l] \in AlertRecord /\ alert'[l].to = alert[l].to
        /\ alert'[l].left = alert[l].left \ {x}
    BY <2>2, <2>4 DEF AlertRecord
  <2>6. alert' \in [Alerts -> AlertRecord \union {None}]
    BY <2>1, <2>5 DEF RoutesInv, RoutesTypeOK
  <2>7. LeftIsTyped'
    BY <2>1, <2>4, <2>5 DEF RoutesInv, LeftIsTyped
  <2>8. reached' \in [Alerts -> SUBSET Targets]
    BY <2>1, <2>3 DEF RoutesInv, RoutesTypeOK
  <2> QED BY <2>1, <2>6, <2>7, <2>8 DEF RoutesInv, RoutesTypeOK
<1>8. ASSUME NEW fails \in BOOLEAN, RestartRoutes(fails) PROVE RoutesTypeOK' /\ LeftIsTyped'
  <2>1. NoRoutes \in RouteTables
    BY DEF NoRoutes, RouteTables
  <2>2. /\ alert' = [l \in Alerts |-> IF alert[l] = None THEN None ELSE [alert[l] EXCEPT !.left = {}]]
        /\ UNCHANGED <<savedRoutes, change, snapshot, asListed, changes>>
    BY <1>8 DEF RestartRoutes
  <2>3. ASSUME NEW l \in Alerts
        PROVE  alert'[l] = None \/ (alert'[l] \in AlertRecord /\ alert'[l].left = {})
    <3>1. CASE alert[l] # None
      <4>1. alert[l] \in AlertRecord /\ alert'[l] = [alert[l] EXCEPT !.left = {}]
        BY <2>2, <3>1 DEF RoutesInv, RoutesTypeOK
      <4> QED BY <4>1 DEF AlertRecord
    <3> QED BY <2>2, <3>1
  <2>4. alert' \in [Alerts -> AlertRecord \union {None}] /\ LeftIsTyped'
    BY <2>2, <2>3 DEF LeftIsTyped
  <2>5. /\ table' \in [RouteRequests -> RouteTables] /\ cachedIn' = None
        /\ alertRoutes' \in RouteTables /\ asStarted' \in RouteTables /\ uncertain' \in BOOLEAN
        /\ lastChannel' \in [Adapters -> Targets \union {None}]
        /\ reached' \in [Alerts -> SUBSET Targets]
        /\ routeStage' \in [RouteRequests -> {"none", "loading", "saving", "auditing", "done", "failed", "notFound"}]
    BY <1>8, <2>1 DEF RestartRoutes, RoutesInv, RoutesTypeOK
  <2> QED BY <2>2, <2>4, <2>5 DEF RoutesInv, RoutesTypeOK
<1> QED BY <1>1, <1>2, <1>3, <1>4, <1>5, <1>6, <1>7, <1>8 DEF RoutesNext

\* RoutesInv holds in every state.
LEMMA RoutesInvariant == RoutesSpec => []RoutesInv
<1>1. RoutesInit => RoutesInv
  <2> SUFFICES ASSUME RoutesInit PROVE RoutesInv
    OBVIOUS
  <2>1. NoRoutes \in RouteTables
    BY DEF NoRoutes, RouteTables
  <2>2. RoutesTypeOK
    BY <2>1 DEF RoutesInit, RoutesTypeOK
  <2>3. LeftIsTyped /\ SavesAreCounted /\ ListsAgree /\ AlertsAreRouted
    BY DEF RoutesInit, LeftIsTyped, SavesAreCounted, ListsAgree, AlertsAreRouted, IsRouted
  <2> QED BY <2>2, <2>3 DEF RoutesInv
<1>2. RoutesInv /\ [RoutesNext]_routeVars => RoutesInv'
  <2> SUFFICES ASSUME RoutesInv, [RoutesNext]_routeVars PROVE RoutesInv'
    OBVIOUS
  <2>1. CASE RoutesNext
    <3>1. RoutesTypeOK' /\ LeftIsTyped'
      BY <2>1, RoutesTypeStep
    <3>2. ASSUME NEW t \in Targets, ChannelSpeaks(t) PROVE RoutesInv'
      <4>1. UNCHANGED <<requestVars, alertRoutes, alert, reached, asListed, changes, asStarted, uncertain>>
            /\ UNCHANGED listVars
        BY <3>2 DEF ChannelSpeaks, listVars
      <4>2. AlertsAreRouted'
        BY <4>1, AlertsStay DEF RoutesInv
      <4> QED BY <3>1, <4>1, <4>2, RequestsStay
    <3> QED BY <2>1, <3>1, <3>2, RequestRoutesStep, RoutesLoadedStep, RoutesSavedStep, RouteAuditedStep,
               RaiseAlertStep, SendAlertStep, RestartRoutesStep DEF RoutesNext
  <2>2. CASE UNCHANGED routeVars
    <3>1. UNCHANGED <<requestVars, listVars, alertRoutes, lastChannel, alert, reached>>
      BY <2>2 DEF routeVars, alertVars
    <3>2. UNCHANGED <<table, cachedIn, savedRoutes, change, routeStage, snapshot, asListed, changes, asStarted, uncertain>>
      BY <3>1 DEF requestVars, listVars
    <3>3. RoutesTypeOK' /\ LeftIsTyped' /\ AlertsAreRouted'
      BY <3>1, <3>2 DEF RoutesInv, RoutesTypeOK, LeftIsTyped, AlertsAreRouted, IsRouted
    <3> QED BY <3>1, <3>3, RequestsStay
  <2> QED BY <2>1, <2>2
<1> QED BY <1>1, <1>2, PTL DEF RoutesSpec

\* The routes in use and those in storage are what all changes made, and an alert is sent
\* only where they say, unless a load or save failed, overlapped or was cut short.
THEOREM AlertsKeepTheirRoutes == RoutesSpec => [](RoutesAreKept /\ AlertsFollowRoutes)
<1>1. RoutesInv => RoutesAreKept /\ AlertsFollowRoutes
  <2> SUFFICES ASSUME RoutesInv PROVE RoutesAreKept /\ AlertsFollowRoutes
    OBVIOUS
  <2>1. RoutesAreKept
    BY DEF RoutesInv, ListsAgree, RoutesAreKept, RequestsAtWork
  <2>2. AlertsFollowRoutes
    BY DEF RoutesInv, RoutesTypeOK, AlertsAreRouted, IsRouted, AlertsFollowRoutes
  <2> QED BY <2>1, <2>2
<1> QED BY <1>1, RoutesInvariant, PTL

-----------------------------------------------------------------------------
(* Coordinator.                                                            *)

\* Requests know their project, and those the coordinator is still to be told of are done.
RequestsAreAbout ==
    /\ \A r \in CoordRequests :
          coordStage[r] = "initializing" => ofAlias[r] \in Aliases /\ coordKind[r] \in {"create", "spawn"}
    /\ registering \in Seq(CoordRequests)
    /\ \A i \in 1..Len(registering) :
          coordStage[registering[i]] = "done" /\ ofAlias[registering[i]] \in Aliases

\* Of a project's agents that the coordinator is still to be told of, the last is the
\* router's; when there is none, it has that one already.
LastIsRouted(p) ==
    /\ (\A i \in 1..Len(registering) : ofAlias[registering[i]] # p) => coordinated[p] = routed[p]
    /\ \A i \in 1..Len(registering) :
          /\ ofAlias[registering[i]] = p
          /\ \A j \in 1..Len(registering) : j > i => ofAlias[registering[j]] # p
          => registering[i] = routed[p]

\* The order of a cascade's steps.
InOrder(steps) ==
    \E k \in DOMAIN steps : \A i \in DOMAIN steps :
       /\ i < k => steps[i].status = "deployed"
       /\ i > k => steps[i].status = "pending"
       /\ i = k => \/ steps[i].status \in {"deploying", "failed"}
                   \/ k = Len(steps) /\ steps[i].status = "deployed"

CascadesAreInOrder ==
    cascades \in Seq(Seq(CascadeStep)) /\ \A n \in 1..Len(cascades) : InOrder(cascades[n])

CoordInv ==
    /\ CoordTypeOK /\ RequestsAreAbout /\ CascadesAreInOrder
    /\ \A p \in Aliases \ apart : routed[p] # None => LastIsRouted(p)

\* advanceCascade goes on to the next step, or stops.
LEMMA AdvanceKeepsOrder ==
    ASSUME NEW steps \in Seq(CascadeStep), InOrder(steps), NEW success \in BOOLEAN,
           NEW current \in DOMAIN steps, steps[current].status = "deploying", NEW next,
           next = [i \in DOMAIN steps |-> [steps[i] EXCEPT !.status =
                     IF i = current THEN IF success THEN "deployed" ELSE "failed"
                     ELSE IF i = current + 1 /\ success THEN "deploying"
                     ELSE steps[i].status]]
    PROVE  next \in Seq(CascadeStep) /\ InOrder(next)
<1>1. PICK k \in DOMAIN steps : \A i \in DOMAIN steps :
         /\ i < k => steps[i].status = "deployed"
         /\ i > k => steps[i].status = "pending"
         /\ i = k => \/ steps[i].status \in {"deploying", "failed"}
                     \/ k = Len(steps) /\ steps[i].status = "deployed"
  BY DEF InOrder
<1>2. DOMAIN steps = 1..Len(steps) /\ Len(steps) \in Nat
  OBVIOUS
<1>3. current = k
  BY <1>1, <1>2
<1>4. \A i \in DOMAIN steps : steps[i] \in CascadeStep
  BY <1>2
<1>5. ASSUME NEW i \in DOMAIN steps
      PROVE  /\ next[i] \in CascadeStep
             /\ next[i].status = IF i = k THEN IF success THEN "deployed" ELSE "failed"
                                 ELSE IF i = k + 1 /\ success THEN "deploying"
                                 ELSE steps[i].status
  <2> DEFINE st == IF i = k THEN IF success THEN "deployed" ELSE "failed"
                   ELSE IF i = k + 1 /\ success THEN "deploying"
                   ELSE steps[i].status
  <2>1. st \in {"pending", "deploying", "deployed", "failed"}
    BY <1>4 DEF CascadeStep
  <2>2. next[i] = [steps[i] EXCEPT !.status = st]
    BY <1>3
  <2> HIDE DEF st
  <2>3. next[i] \in CascadeStep /\ next[i].status = st
    BY <1>4, <2>1, <2>2 DEF CascadeStep
  <2> QED BY <2>3 DEF st
<1>6. DOMAIN next = 1..Len(steps)
  BY <1>2
<1>7. next \in Seq(CascadeStep) /\ Len(next) = Len(steps)
  <2>1. next \in [1..Len(steps) -> CascadeStep]
    BY <1>2, <1>5, <1>6
  <2> QED BY <1>2, <2>1
<1>8. CASE success /\ k < Len(steps)
  <2>1. PICK m \in DOMAIN next : m = k + 1
    BY <1>2, <1>6, <1>8
  <2>2. \A i \in DOMAIN next :
           /\ i < m => next[i].status = "deployed"
           /\ i > m => next[i].status = "pending"
           /\ i = m => next[i].status \in {"deploying", "failed"}
    BY <1>1, <1>2, <1>5, <1>6, <1>8, <2>1
  <2>3. \A i \in DOMAIN next :
           /\ i < m => next[i].status = "deployed"
           /\ i > m => next[i].status = "pending"
           /\ i = m => \/ next[i].status \in {"deploying", "failed"}
                       \/ m = Len(next) /\ next[i].status = "deployed"
    BY <2>2
  <2>4. InOrder(next)
    BY ONLY <2>1, <2>3 DEF InOrder
  <2> QED BY <1>7, <2>4
<1>9. CASE ~(success /\ k < Len(steps))
  <2>1. \A i \in DOMAIN next :
           /\ i < k => next[i].status = "deployed"
           /\ i > k => next[i].status = "pending"
           /\ i = k => \/ next[i].status \in {"deploying", "failed"}
                       \/ k = Len(next) /\ next[i].status = "deployed"
    <3>1. CASE success
      BY <1>1, <1>2, <1>5, <1>6, <1>7, <1>9, <3>1
    <3>2. CASE ~success
      BY <1>1, <1>2, <1>5, <1>6, <3>2
    <3> QED BY <3>1, <3>2
  <2> QED BY <1>2, <1>6, <1>7, <2>1 DEF InOrder
<1> QED BY <1>8, <1>9

\* A cascade begins with its first step.
LEMMA CascadeBegins ==
    ASSUME NEW aliases \in CascadeAliases, NEW steps,
           steps = [i \in DOMAIN aliases |->
                      [alias |-> aliases[i], status |-> IF i = 1 THEN "deploying" ELSE "pending"]]
    PROVE  steps \in Seq(CascadeStep) /\ InOrder(steps)
<1>1. PICK n \in 2..MaxSteps : aliases \in [1..n -> Aliases]
  BY DEF CascadeAliases
<1>2. n \in Nat /\ n >= 2
  BY CoordinatorAssumption
<1>3. steps \in [1..n -> CascadeStep] /\ DOMAIN steps = 1..n
  BY <1>1 DEF CascadeStep
<1>4. \A i \in 1..n : steps[i].status = IF i = 1 THEN "deploying" ELSE "pending"
  BY <1>1
<1>5. 1 \in DOMAIN steps
  BY <1>2, <1>3
<1>6. \A i \in DOMAIN steps :
         /\ i < 1 => steps[i].status = "deployed"
         /\ i > 1 => steps[i].status = "pending"
         /\ i = 1 => steps[i].status \in {"deploying", "failed"}
  BY <1>2, <1>3, <1>4
<1> QED BY <1>2, <1>3, <1>5, <1>6 DEF InOrder

\* Requests that come or end leave agents and cascades alone.
LEMMA RequestStep ==
    ASSUME CoordInv, NEW r \in CoordRequests, UNCHANGED <<routed, coordinated, registering, cascades, apart>>,
           coordState' \in {"IDLE", "ACTIVE"},
           \/ \E kind \in {"create", "spawn", "all", "route"}, p \in Aliases \union {None},
                 stage \in {"initializing", "handling", "parsing"} :
                 /\ BeginRequestTo(r, kind, p, stage)
                 /\ stage = "initializing" => kind \in {"create", "spawn"} /\ p \in Aliases
           \/ EndRequest(r)
    PROVE  CoordInv'
<1>1. /\ coordKind' \in [CoordRequests -> {"create", "spawn", "all", "route", None}]
      /\ coordStage' \in [CoordRequests -> {"none", "initializing", "handling", "parsing", "done"}]
      /\ ofAlias' \in [CoordRequests -> Aliases \union {None}]
  BY DEF BeginRequestTo, EndRequest, CoordInv, CoordTypeOK
<1>2. /\ \A w \in CoordRequests \ {r} : /\ coordStage'[w] = coordStage[w] /\ ofAlias'[w] = ofAlias[w]
                                        /\ coordKind'[w] = coordKind[w]
      /\ coordStage'[r] = "initializing" => ofAlias'[r] \in Aliases /\ coordKind'[r] \in {"create", "spawn"}
      /\ coordStage[r] = "done" => coordStage'[r] = "done" /\ ofAlias'[r] = ofAlias[r]
  BY DEF BeginRequestTo, EndRequest, CoordInv, CoordTypeOK
<1>3. CoordTypeOK'
  BY <1>1 DEF CoordInv, CoordTypeOK
<1>4. \A i \in 1..Len(registering) :
         /\ registering[i] \in CoordRequests
         /\ coordStage'[registering[i]] = "done" /\ ofAlias'[registering[i]] = ofAlias[registering[i]]
  <2> SUFFICES ASSUME NEW i \in 1..Len(registering)
               PROVE  /\ registering[i] \in CoordRequests
                      /\ coordStage'[registering[i]] = "done" /\ ofAlias'[registering[i]] = ofAlias[registering[i]]
    OBVIOUS
  <2>1. registering[i] \in CoordRequests /\ coordStage[registering[i]] = "done"
    BY DEF CoordInv, RequestsAreAbout
  <2> QED BY <1>2, <2>1
<1>5. RequestsAreAbout'
  BY <1>2, <1>4 DEF CoordInv, RequestsAreAbout
<1>6. \A p \in Aliases : LastIsRouted(p) => LastIsRouted(p)'
  BY <1>4 DEF LastIsRouted
<1> QED BY <1>3, <1>5, <1>6 DEF CoordInv, CascadesAreInOrder

\* An agent that was spawned by the factory is the last that the coordinator will get.
LEMMA AgentSpawnedStep ==
    ASSUME CoordInv, NEW r \in CoordRequests, AgentSpawned(r)
    PROVE  CoordInv'
<1>1. /\ coordStage[r] = "initializing" /\ ofAlias[r] \in Aliases /\ coordKind[r] \in {"create", "spawn"}
      /\ registering \in Seq(CoordRequests)
  BY DEF AgentSpawned, CoordInv, RequestsAreAbout
<1>2. PICK p \in Aliases : p = ofAlias[r]
  BY <1>1
<1>3. /\ routed' = [routed EXCEPT ![p] = r]
      /\ coordStage' = [coordStage EXCEPT ![r] = "done"]
      /\ UNCHANGED <<coordinated, coordState, cascades, coordKind, ofAlias>>
      /\ coordKind[r] = "create" => registering' = Append(registering, r) /\ apart' = apart \ {p}
      /\ coordKind[r] # "create" => registering' = registering /\ apart' = apart \union {p}
  BY <1>2 DEF AgentSpawned, EndRequest
<1>4. /\ routed'[p] = r /\ \A q \in Aliases \ {p} : routed'[q] = routed[q]
      /\ coordStage'[r] = "done" /\ \A w \in CoordRequests \ {r} : coordStage'[w] = coordStage[w]
  BY <1>3 DEF CoordInv, CoordTypeOK
<1>5. registering' \in Seq(CoordRequests)
  BY <1>1, <1>3, AppendProperties
<1>6. CoordTypeOK'
  <2>1. \A i \in DOMAIN registering' : registering'[i] \in CoordRequests
    BY <1>5, ElementOfSeq, LenProperties
  <2> QED BY <1>2, <1>3, <2>1 DEF CoordInv, CoordTypeOK
<1>7. \A i \in 1..Len(registering) :
         /\ registering[i] \in CoordRequests /\ coordStage'[registering[i]] = "done"
         /\ ofAlias[registering[i]] \in Aliases
  <2> SUFFICES ASSUME NEW i \in 1..Len(registering)
               PROVE  registering[i] \in CoordRequests /\ coordStage'[registering[i]] = "done"
                      /\ ofAlias[registering[i]] \in Aliases
    OBVIOUS
  <2>1. registering[i] \in CoordRequests /\ coordStage[registering[i]] = "done" /\ ofAlias[registering[i]] \in Aliases
    BY DEF CoordInv, RequestsAreAbout
  <2> QED BY <1>4, <2>1
<1>8. CASE coordKind[r] = "create"
  <2>1. /\ Len(registering) \in Nat /\ Len(registering') = Len(registering) + 1
        /\ registering'[Len(registering) + 1] = r
        /\ \A i \in 1..Len(registering) : registering'[i] = registering[i]
    BY <1>1, <1>3, <1>8, AppendProperties
  <2>2. \A i \in 1..Len(registering') :
           \/ i \in 1..Len(registering) /\ registering'[i] = registering[i]
           \/ i = Len(registering) + 1 /\ registering'[i] = r
    BY <2>1
  <2>3. RequestsAreAbout'
    <3>1. \A i \in 1..Len(registering') : coordStage'[registering'[i]] = "done" /\ ofAlias'[registering'[i]] \in Aliases
      BY <1>2, <1>3, <1>4, <1>7, <2>2
    <3>2. \A w \in CoordRequests :
             coordStage'[w] = "initializing" => ofAlias'[w] \in Aliases /\ coordKind'[w] \in {"create", "spawn"}
      BY <1>3, <1>4 DEF CoordInv, RequestsAreAbout
    <3> QED BY <1>5, <3>1, <3>2 DEF RequestsAreAbout
  <2>4. ASSUME NEW q \in Aliases \ apart', routed'[q] # None PROVE LastIsRouted(q)'
    <3>1. CASE q = p
      <4>1. Len(registering) + 1 \in 1..Len(registering') /\ ofAlias'[registering'[Len(registering) + 1]] = p
        BY <1>2, <1>3, <2>1
      <4>2. ASSUME NEW i \in 1..Len(registering'),
                   \A j \in 1..Len(registering') : j > i => ofAlias'[registering'[j]] # p
            PROVE  registering'[i] = r
        BY <2>1, <2>2, <4>1, <4>2
      <4> QED BY <1>4, <3>1, <4>1, <4>2 DEF LastIsRouted
    <3>2. CASE q # p
      <4>1. LastIsRouted(q)
        BY <1>3, <1>4, <1>8, <2>4, <3>2 DEF CoordInv
      <4>2. ofAlias'[r] # q
        BY <1>2, <1>3, <3>2
      <4>3. ASSUME \A i \in 1..Len(registering') : ofAlias'[registering'[i]] # q
            PROVE  coordinated'[q] = routed'[q]
        <5>1. \A i \in 1..Len(registering) : ofAlias[registering[i]] # q
          BY <1>3, <2>1, <4>3
        <5> QED BY <1>3, <1>4, <3>2, <4>1, <5>1 DEF LastIsRouted
      <4>4. ASSUME NEW i \in 1..Len(registering'), ofAlias'[registering'[i]] = q,
                   \A j \in 1..Len(registering') : j > i => ofAlias'[registering'[j]] # q
            PROVE  registering'[i] = routed'[q]
        <5>1. i \in 1..Len(registering) /\ registering'[i] = registering[i]
          BY <2>2, <4>2, <4>4
        <5>2. \A j \in 1..Len(registering) : j > i => ofAlias[registering[j]] # q
          BY <1>3, <2>1, <4>4
        <5> QED BY <1>3, <1>4, <3>2, <4>1, <4>4, <5>1, <5>2 DEF LastIsRouted
      <4> QED BY <4>3, <4>4 DEF LastIsRouted
    <3> QED BY <3>1, <3>2
  <2> QED BY <1>3, <1>6, <2>3, <2>4 DEF CoordInv, CascadesAreInOrder
<1>9. CASE coordKind[r] # "create"
  <2>1. UNCHANGED <<registering, coordinated, ofAlias>> /\ apart' = apart \union {p}
    BY <1>3, <1>9
  <2>2. RequestsAreAbout'
    BY <1>3, <1>4, <1>5, <1>7, <2>1 DEF CoordInv, RequestsAreAbout
  <2>3. ASSUME NEW q \in Aliases \ apart', routed'[q] # None PROVE LastIsRouted(q)'
    <3>1. q # p /\ LastIsRouted(q) /\ routed'[q] = routed[q]
      BY <1>4, <2>1, <2>3 DEF CoordInv
    <3> QED BY <2>1, <3>1 DEF LastIsRouted
  <2> QED BY <1>3, <1>6, <2>2, <2>3 DEF CoordInv, CascadesAreInOrder
<1> QED BY <1>8, <1>9

\* The coordinator is told of the first that it is still to be told of.
LEMMA RegisterProjectStep ==
    ASSUME CoordInv, RegisterProject
    PROVE  CoordInv'
<1>1. /\ registering # <<>> /\ registering \in Seq(CoordRequests)
      /\ \A i \in 1..Len(registering) :
            coordStage[registering[i]] = "done" /\ ofAlias[registering[i]] \in Aliases
  BY DEF RegisterProject, CoordInv, RequestsAreAbout
<1>2. Len(registering) \in Nat /\ Len(registering) >= 1 /\ Head(registering) = registering[1]
      /\ registering[1] \in CoordRequests
  BY <1>1, EmptySeq, HeadTailProperties, LenProperties, ElementOfSeq
<1>3. PICK r \in CoordRequests, p \in Aliases : r = registering[1] /\ p = ofAlias[r]
  BY <1>1, <1>2
<1>4. /\ coordinated' = [coordinated EXCEPT ![p] = r]
      /\ registering' = Tail(registering)
      /\ UNCHANGED <<routed, apart, coordState, coordKind, coordStage, ofAlias, cascades>>
  BY <1>2, <1>3 DEF RegisterProject, ToldCoordinator, messageVars
<1>5. /\ registering' \in Seq(CoordRequests) /\ Len(registering') = Len(registering) - 1
      /\ \A i \in 1..Len(registering') : i + 1 \in 1..Len(registering) /\ registering'[i] = registering[i + 1]
  BY <1>1, <1>2, <1>4, HeadTailProperties
<1>6. coordinated'[p] = r /\ \A q \in Aliases \ {p} : coordinated'[q] = coordinated[q]
  BY <1>4 DEF CoordInv, CoordTypeOK
<1>7. CoordTypeOK'
  <2>1. \A i \in DOMAIN registering' : registering'[i] \in CoordRequests
    BY <1>5, ElementOfSeq, LenProperties
  <2> QED BY <1>4, <2>1 DEF CoordInv, CoordTypeOK
<1>8. RequestsAreAbout'
  <2>1. \A i \in 1..Len(registering') : coordStage[registering'[i]] = "done" /\ ofAlias[registering'[i]] \in Aliases
    BY <1>1, <1>5
  <2> QED BY <1>4, <1>5, <2>1 DEF CoordInv, RequestsAreAbout
<1>9. \A i \in 1..Len(registering) : i > 1 =>
         i - 1 \in 1..Len(registering') /\ registering'[i - 1] = registering[i]
  <2> SUFFICES ASSUME NEW i \in 1..Len(registering), i > 1
               PROVE  i - 1 \in 1..Len(registering') /\ registering'[i - 1] = registering[i]
    OBVIOUS
  <2>1. i - 1 \in 1..Len(registering') /\ (i - 1) + 1 = i
    BY <1>2, <1>5
  <2> QED BY <1>5, <2>1
<1>10. ASSUME NEW q \in Aliases \ apart, routed[q] # None PROVE LastIsRouted(q)'
  <2>1. LastIsRouted(q)
    BY <1>10 DEF CoordInv
  <2>2. ASSUME \A i \in 1..Len(registering') : ofAlias[registering'[i]] # q
        PROVE  coordinated'[q] = routed[q]
    <3>1. \A i \in 1..Len(registering) : i > 1 => ofAlias[registering[i]] # q
      BY <1>9, <2>2
    <3>2. CASE q = p
      <4>1. 1 \in 1..Len(registering) /\ ofAlias[registering[1]] = q
        BY <1>2, <1>3, <3>2
      <4>2. registering[1] = routed[q]
        BY <2>1, <3>1, <4>1 DEF LastIsRouted
      <4> QED BY <1>3, <1>6, <3>2, <4>2
    <3>3. CASE q # p
      <4>1. \A i \in 1..Len(registering) : ofAlias[registering[i]] # q
        BY <1>2, <1>3, <3>1, <3>3
      <4> QED BY <1>6, <2>1, <3>3, <4>1 DEF LastIsRouted
    <3> QED BY <3>2, <3>3
  <2>3. ASSUME NEW i \in 1..Len(registering'), ofAlias[registering'[i]] = q,
               \A j \in 1..Len(registering') : j > i => ofAlias[registering'[j]] # q
        PROVE  registering'[i] = routed[q]
    <3>1. i + 1 \in 1..Len(registering) /\ registering'[i] = registering[i + 1]
      BY <1>5
    <3>2. ASSUME NEW j \in 1..Len(registering), j > i + 1 PROVE ofAlias[registering[j]] # q
      <4>1. j > 1 /\ j - 1 > i
        BY <3>2
      <4>2. j - 1 \in 1..Len(registering') /\ registering'[j - 1] = registering[j]
        BY <1>9, <4>1
      <4> QED BY <2>3, <4>1, <4>2
    <3> QED BY <2>1, <2>3, <3>1, <3>2 DEF LastIsRouted
  <2> QED BY <1>4, <2>2, <2>3 DEF LastIsRouted
<1> QED BY <1>4, <1>7, <1>8, <1>10 DEF CoordInv, CascadesAreInOrder

\* The router's agent is removed, or the coordinator's.
LEMMA RemoveStep ==
    ASSUME CoordInv, NEW p \in Aliases, RemoveAgentOf(p) \/ UnregisterProject(p)
    PROVE  CoordInv'
<1>1. /\ UNCHANGED <<registering, coordState, coordKind, coordStage, ofAlias, cascades>>
      /\ \/ /\ routed' = [routed EXCEPT ![p] = None] /\ UNCHANGED <<coordinated, apart>>
         \/ /\ coordinated' = [coordinated EXCEPT ![p] = None] /\ apart' = apart \union {p} /\ UNCHANGED routed
  BY DEF RemoveAgentOf, UnregisterProject, messageVars
<1>2. CoordTypeOK'
  BY <1>1 DEF CoordInv, CoordTypeOK
<1>3. RequestsAreAbout'
  BY <1>1 DEF CoordInv, RequestsAreAbout
<1>4. ASSUME NEW q \in Aliases \ apart', routed'[q] # None PROVE LastIsRouted(q)'
  <2>1. q # p /\ q \notin apart /\ routed'[q] = routed[q] /\ coordinated'[q] = coordinated[q]
    BY <1>1, <1>4 DEF CoordInv, CoordTypeOK
  <2>2. LastIsRouted(q)
    BY <1>4, <2>1 DEF CoordInv
  <2> QED BY <1>1, <2>1, <2>2 DEF LastIsRouted
<1> QED BY <1>1, <1>2, <1>3, <1>4 DEF CoordInv, CascadesAreInOrder

\* Cascades leave the agents alone.
LEMMA CascadeStepKeeps ==
    ASSUME CoordInv,
           \/ \E aliases \in CascadeAliases : HandleCascadeDeploy(aliases)
           \/ \E n \in DOMAIN cascades, success \in BOOLEAN : AdvanceCascade(n, success)
    PROVE  CoordInv'
<1>1. /\ UNCHANGED <<routed, coordinated, registering, apart, coordKind, coordStage, ofAlias>>
      /\ coordState' \in {"IDLE", "ACTIVE"}
  BY DEF HandleCascadeDeploy, AdvanceCascade, mapVars, messageVars, CoordInv, CoordTypeOK
<1>2. cascades \in Seq(Seq(CascadeStep)) /\ \A n \in 1..Len(cascades) : InOrder(cascades[n])
  BY DEF CoordInv, CascadesAreInOrder
<1>3. CascadesAreInOrder' /\ Len(cascades') <= MaxCascades
  <2>1. ASSUME NEW aliases \in CascadeAliases, HandleCascadeDeploy(aliases)
        PROVE  CascadesAreInOrder' /\ Len(cascades') <= MaxCascades
    <3>1. PICK steps : steps = [i \in DOMAIN aliases |->
                          [alias |-> aliases[i], status |-> IF i = 1 THEN "deploying" ELSE "pending"]]
      OBVIOUS
    <3>2. cascades' = Append(cascades, steps) /\ Len(cascades) < MaxCascades
      BY <2>1, <3>1 DEF HandleCascadeDeploy
    <3>3. steps \in Seq(CascadeStep) /\ InOrder(steps)
      BY <3>1, CascadeBegins
    <3>4. /\ cascades' \in Seq(Seq(CascadeStep)) /\ Len(cascades') = Len(cascades) + 1 /\ Len(cascades) \in Nat
          /\ cascades'[Len(cascades) + 1] = steps
          /\ \A n \in 1..Len(cascades) : cascades'[n] = cascades[n]
      BY <1>2, <3>2, <3>3, AppendProperties
    <3>5. \A n \in 1..Len(cascades') : n \in 1..Len(cascades) \/ n = Len(cascades) + 1
      BY <3>4
    <3>7. ASSUME NEW n \in 1..Len(cascades') PROVE InOrder(cascades'[n])
      <4>1. CASE n = Len(cascades) + 1
        <5>1. cascades'[n] = steps
          BY <3>4, <4>1
        <5> QED BY <3>3, <5>1
      <4>2. CASE n \in 1..Len(cascades)
        <5>1. cascades'[n] = cascades[n]
          BY <3>4, <4>2
        <5> QED BY <1>2, <4>2, <5>1
      <4> QED BY <3>5, <4>1, <4>2
    <3>8. CascadesAreInOrder'
      BY <3>4, <3>7 DEF CascadesAreInOrder, InOrder
    <3> QED BY <3>2, <3>4, <3>8, CoordinatorAssumption
  <2>2. ASSUME NEW n \in DOMAIN cascades, NEW success \in BOOLEAN, AdvanceCascade(n, success)
        PROVE  CascadesAreInOrder' /\ Len(cascades') <= MaxCascades
    <3>1. n \in 1..Len(cascades)
      BY <1>2
    <3>2. PICK steps \in Seq(CascadeStep) : steps = cascades[n]
      BY <1>2, <3>1, ElementOfSeq
    <3>3. InOrder(steps) /\ \E i \in DOMAIN steps : steps[i].status = "deploying"
      BY <1>2, <2>2, <3>1, <3>2 DEF AdvanceCascade
    <3>4. PICK current \in DOMAIN steps : current = Current(steps) /\ steps[current].status = "deploying"
      BY <3>3 DEF Current
    <3>5. PICK next : next = [i \in DOMAIN steps |-> [steps[i] EXCEPT !.status =
                     IF i = current THEN IF success THEN "deployed" ELSE "failed"
                     ELSE IF i = current + 1 /\ success THEN "deploying"
                     ELSE steps[i].status]]
      OBVIOUS
    <3>6. next \in Seq(CascadeStep) /\ InOrder(next)
      BY <3>3, <3>4, <3>5, AdvanceKeepsOrder
    <3>7. cascades' = [cascades EXCEPT ![n] = next]
      BY <2>2, <3>2, <3>4, <3>5 DEF AdvanceCascade
    <3>8. cascades' \in Seq(Seq(CascadeStep)) /\ Len(cascades') = Len(cascades)
      BY <1>2, <3>1, <3>6, <3>7, ExceptSeq
    <3>9. \A m \in 1..Len(cascades) : cascades'[m] = IF m = n THEN next ELSE cascades[m]
      BY <1>2, <3>7
    <3>10. \A m \in 1..Len(cascades') : InOrder(cascades'[m])
      BY <1>2, <3>6, <3>8, <3>9
    <3>11. CascadesAreInOrder'
      BY <3>8, <3>10 DEF CascadesAreInOrder, InOrder
    <3> QED BY <3>8, <3>11 DEF CoordInv, CoordTypeOK
  <2> QED BY <2>1, <2>2
<1>4. \A i \in DOMAIN cascades' : \A j \in DOMAIN cascades'[i] : cascades'[i][j] \in CascadeStep
  <2> SUFFICES ASSUME NEW i \in DOMAIN cascades', NEW j \in DOMAIN cascades'[i]
               PROVE  cascades'[i][j] \in CascadeStep
    OBVIOUS
  <2>1. cascades' \in Seq(Seq(CascadeStep))
    BY <1>3 DEF CascadesAreInOrder
  <2>2. cascades'[i] \in Seq(CascadeStep)
    BY <2>1, ElementOfSeq, LenProperties
  <2> QED BY <2>2, ElementOfSeq, LenProperties
<1>5. CoordTypeOK'
  BY <1>1, <1>3, <1>4 DEF CoordInv, CoordTypeOK
<1>6. RequestsAreAbout' /\ \A p \in Aliases : LastIsRouted(p) => LastIsRouted(p)'
  BY <1>1 DEF CoordInv, RequestsAreAbout, LastIsRouted
<1> QED BY <1>1, <1>3, <1>5, <1>6 DEF CoordInv

\* Every step keeps the invariant.
LEMMA CoordStep ==
    ASSUME CoordInv, [CoordNext]_coordVars
    PROVE  CoordInv'
<1>1. ASSUME NEW r \in CoordRequests, NEW p \in Aliases,
             CreateAgent(r, p) \/ SpawnAgentOnly(r, p) \/ RouteToProject(r, p)
      PROVE  CoordInv'
  <2>1. CASE CreateAgent(r, p)
    BY <2>1, RequestStep DEF CreateAgent, mapVars, CoordInv, CoordTypeOK
  <2>2. CASE SpawnAgentOnly(r, p)
    BY <2>2, RequestStep DEF SpawnAgentOnly, mapVars, CoordInv, CoordTypeOK
  <2>3. CASE RouteToProject(r, p)
    BY <2>3, RequestStep DEF RouteToProject, mapVars
  <2> QED BY <1>1, <2>1, <2>2, <2>3
<1>2. ASSUME NEW r \in CoordRequests, AgentNotSpawned(r) PROVE CoordInv'
  BY <1>2, RequestStep DEF AgentNotSpawned, mapVars, CoordInv, CoordTypeOK
<1>3. ASSUME NEW r \in CoordRequests, AllStatus(r) PROVE CoordInv'
  BY <1>3, RequestStep DEF AllStatus, mapVars
<1>4. ASSUME NEW r \in CoordRequests, NEW throws \in BOOLEAN, MessageEnds(r, throws) PROVE CoordInv'
  BY <1>4, RequestStep DEF MessageEnds, mapVars, CoordInv, CoordTypeOK
<1>5. CASE UNCHANGED coordVars
  BY <1>5 DEF coordVars, mapVars, messageVars, CoordInv, CoordTypeOK, RequestsAreAbout,
              CascadesAreInOrder, LastIsRouted
<1>6. ASSUME NEW p \in Aliases, RemoveAgentOf(p) \/ UnregisterProject(p) PROVE CoordInv'
  BY <1>6, RemoveStep
<1> QED BY <1>1, <1>2, <1>3, <1>4, <1>5, <1>6, AgentSpawnedStep, RegisterProjectStep,
           CascadeStepKeeps DEF CoordNext

\* CoordInv holds in every state.
LEMMA CoordInvariant == CoordSpec => []CoordInv
<1>1. CoordInit => CoordInv
  <2> SUFFICES ASSUME CoordInit PROVE CoordInv
    OBVIOUS
  <2>1. CoordTypeOK
    BY CoordinatorAssumption DEF CoordInit, CoordTypeOK
  <2>2. RequestsAreAbout
    BY DEF CoordInit, RequestsAreAbout
  <2>3. CascadesAreInOrder
    BY DEF CoordInit, CascadesAreInOrder
  <2> QED BY <2>1, <2>2, <2>3 DEF CoordInit, CoordInv
<1> QED BY <1>1, CoordStep, PTL DEF CoordSpec

\* The agent that the coordinator forwards to is the router's when no registration is
\* under way, and cascades keep their order: coordinator-agent.ts and start.mjs.
THEOREM CoordinatorIsUpToDate == CoordSpec => []CoordinatorKeepsUp
<1>1. CoordInv => CoordinatorKeepsUp
  <2> SUFFICES ASSUME CoordInv PROVE CoordinatorKeepsUp
    OBVIOUS
  <2>1. CoordinatorFollowsRouter
    <3> SUFFICES ASSUME registering = <<>>, NEW p \in Aliases \ apart, routed[p] # None
                 PROVE  coordinated[p] = routed[p]
      BY DEF CoordinatorFollowsRouter
    <3>1. LastIsRouted(p)
      BY DEF CoordInv
    <3>2. \A i \in 1..Len(registering) : ofAlias[registering[i]] # p
      OBVIOUS
    <3> QED BY <3>1, <3>2 DEF LastIsRouted
  <2>2. CascadeInOrder
    <3> SUFFICES ASSUME NEW n \in DOMAIN cascades
                 PROVE  \E k \in DOMAIN cascades[n] : \A i \in DOMAIN cascades[n] :
                           /\ i < k => cascades[n][i].status = "deployed"
                           /\ i > k => cascades[n][i].status = "pending"
                           /\ i = k => \/ cascades[n][i].status \in {"deploying", "failed"}
                                       \/ k = Len(cascades[n]) /\ cascades[n][i].status = "deployed"
      BY DEF CascadeInOrder
    <3>1. cascades \in Seq(Seq(CascadeStep)) /\ \A m \in 1..Len(cascades) : InOrder(cascades[m])
      BY DEF CoordInv, CascadesAreInOrder
    <3>2. n \in 1..Len(cascades)
      BY <3>1, LenProperties
    <3>3. InOrder(cascades[n])
      BY <3>1, <3>2
    <3> QED BY ONLY <3>3 DEF InOrder
  <2> QED BY <2>1, <2>2 DEF CoordinatorKeepsUp
<1> QED BY <1>1, CoordInvariant, PTL

-----------------------------------------------------------------------------
(* AgentDesk.                                                              *)

IsAtWork(r) == deskStage[r] \notin {"none", "ended"}
IsChoosing(r) == IsAtWork(r) /\ deskKind[r] \in {"level", "set"}

\* What each stage of a request says of its kind.
Fits(stage, kind) ==
    /\ stage \in {"reading", "writing"} => kind \in {"level", "command", "question"}
    /\ stage = "saving" => kind \in {"level", "set"}
    /\ stage = "savingState" => kind \in {"set", "suspend"}
    /\ stage = "closing" => kind \in {"level", "command", "event"}
    /\ stage = "progress" => kind \in {"command", "question"}
    /\ stage = "thinking" => kind = "question"
    /\ stage = "leaving" => kind = "question"
    /\ stage = "initializing" => kind = "restart"

StageFits(r) ==
    /\ Fits(deskStage[r], deskKind[r])
    /\ deskKind[r] \in {"level", "set", "suspend"} => choice[r] \in Levels

\* A choice that is not muddled is alone, but for events and restarts, and it has written
\* its level when it is about to be confirmed.
ChoicesAreAlone ==
    ~muddled => \A c \in DeskRequests : IsChoosing(c) =>
       /\ \A q \in DeskRequests : IsAtWork(q) => q = c \/ deskKind[q] \in {"event", "restart"}
       /\ deskStage[c] = "closing" \/ deskStage[c] = "savingState" => memory = choice[c]

\* After it was confirmed, what is read, written and saved is that level, or the 1 of an
\* agent that was started with it.
ConfirmedIsKept ==
    (~muddled /\ confirmed # None /\ \A c \in DeskRequests : ~IsChoosing(c)) =>
       /\ memory = confirmed
       /\ savedState \in {None, 1, confirmed}
       /\ \A r \in DeskRequests :
             /\ deskStage[r] = "writing" => copy[r] = confirmed
             /\ deskStage[r] = "savingState" => choice[r] \in {1, confirmed}

DeskInv ==
    /\ DeskTypeOK
    /\ \A r \in DeskRequests : StageFits(r)
    /\ ChoicesAreAlone /\ ConfirmedIsKept

\* A request comes.
LEMMA RequestComes ==
    ASSUME DeskInv, NEW r \in DeskRequests, UNCHANGED <<copy, memory, savedState, confirmed, crashes, threw, process>>,
           level' \in Levels, agentState' \in {"INITIALIZING", "IDLE", "ACTIVE"}, muddled' \in BOOLEAN,
           NEW kind \in {"level", "command", "question", "event", "set", "suspend", "restart"},
           NEW stage, NEW wanted \in LevelOrNone, Come(r, kind, stage, wanted),
           \/ kind \in {"level", "command", "question"} /\ stage = "reading"
           \/ kind = "question" /\ stage = "thinking"
           \/ kind \in {"command", "question"} /\ stage = "progress"
           \/ kind = "event" /\ stage = "closing"
           \/ kind = "set" /\ stage = "saving"
           \/ kind = "suspend" /\ stage = "savingState"
           \/ kind = "restart" /\ stage = "initializing",
           kind \in {"level", "set", "suspend"} => wanted \in Levels,
           kind = "suspend" /\ ~muddled' => wanted \in {1, confirmed},
           ~muddled' => ~Muddled(kind) \/ (kind \in {"event", "restart"} /\ ~muddled)
    PROVE  DeskInv'
<1>1. /\ deskStage[r] = "none"
      /\ \A q \in DeskRequests : /\ deskStage'[q] = IF q = r THEN stage ELSE deskStage[q]
                                 /\ deskKind'[q] = IF q = r THEN kind ELSE deskKind[q]
                                 /\ choice'[q] = IF q = r THEN wanted ELSE choice[q]
  BY DEF Come, DeskInv, DeskTypeOK
<1>2. DeskTypeOK'
  BY DEF Come, DeskInv, DeskTypeOK
<1>3. \A q \in DeskRequests : StageFits(q)'
  BY <1>1 DEF StageFits, Fits, DeskInv
<1>4. \A q \in DeskRequests : q # r => /\ IsAtWork(q)' = IsAtWork(q)
                                       /\ IsChoosing(q)' = IsChoosing(q)
  BY <1>1 DEF IsAtWork, IsChoosing
<1>5. CASE kind \in {"level", "set"}
  <2>1. ~muddled' => \A q \in DeskRequests : ~IsAtWork(q)
    BY <1>5 DEF Muddled, OpenRequests, IsAtWork
  <2>2. ChoicesAreAlone'
    BY <1>1, <1>4, <1>5, <2>1 DEF ChoicesAreAlone, IsChoosing
  <2>3. IsChoosing(r)'
    BY <1>1, <1>5 DEF IsChoosing, IsAtWork
  <2>4. ConfirmedIsKept'
    BY <2>3 DEF ConfirmedIsKept
  <2> QED BY <1>2, <1>3, <2>2, <2>4 DEF DeskInv
<1>6. CASE kind \notin {"level", "set"} /\ (~muddled' => ~Muddled(kind))
  <2>1. ~muddled' => ~muddled /\ \A q \in DeskRequests : ~IsChoosing(q)
    BY <1>6 DEF Muddled, Choosing, OpenRequests, IsAtWork, IsChoosing, DeskInv, DeskTypeOK
  <2>2. ~IsChoosing(r)'
    BY <1>1, <1>6 DEF IsChoosing
  <2>3. ChoicesAreAlone'
    BY <1>4, <2>1, <2>2 DEF ChoicesAreAlone
  <2>4. ConfirmedIsKept'
    BY <1>1, <2>1 DEF ConfirmedIsKept, DeskInv
  <2> QED BY <1>2, <1>3, <2>3, <2>4 DEF DeskInv
<1>7. CASE kind \in {"event", "restart"} /\ (~muddled' => ~muddled)
  <2>1. ~IsChoosing(r)' /\ ~IsChoosing(r)
    BY <1>1, <1>7 DEF IsChoosing, IsAtWork
  <2>2. ChoicesAreAlone'
    BY <1>1, <1>4, <1>7, <2>1 DEF ChoicesAreAlone, DeskInv
  <2>3. ConfirmedIsKept'
    BY <1>1, <1>4, <1>7, <2>1 DEF ConfirmedIsKept, DeskInv
  <2> QED BY <1>2, <1>3, <2>2, <2>3 DEF DeskInv
<1> QED BY <1>5, <1>6, <1>7

\* Move changes the stage of one request.
LEMMA MoveIsLocal ==
    ASSUME DeskInv, NEW r \in DeskRequests, NEW stage, Move(r, stage)
    PROVE  /\ \A q \in DeskRequests : /\ deskStage'[q] = IF q = r THEN stage ELSE deskStage[q]
                                      /\ deskKind'[q] = deskKind[q]
           /\ deskKind' = deskKind
BY DEF Move, DeskInv, DeskTypeOK

\* A request moves to another stage.
MovesOn(r, stage, kind) ==
    /\ IsAtWork(r) /\ UNCHANGED <<choice, crashes, process>>
    /\ DeskTypeOK'
    /\ \A q \in DeskRequests : /\ deskStage'[q] = IF q = r THEN stage ELSE deskStage[q]
                               /\ deskKind'[q] = IF q = r THEN kind ELSE deskKind[q]
                               /\ q # r => copy'[q] = copy[q]
    /\ kind = deskKind[r] \/ (kind = "command" /\ deskKind[r] = "question")
    /\ stage # "none" /\ Fits(stage, kind)

\* A request goes on: a choice ends confirmed or goes on, and anything else keeps what
\* was confirmed.
Proceeds(r, stage) ==
    /\ ~muddled' => ~muddled
    /\ IsChoosing(r) /\ ~muddled' =>
          \/ stage # "ended" /\ (stage \in {"closing", "savingState"} => memory' = choice[r])
          \/ /\ stage = "ended" /\ confirmed' = choice[r] /\ memory' = choice[r]
             /\ savedState' \in {None, 1, choice[r]}
    /\ ~IsChoosing(r) => /\ confirmed' = confirmed
                         /\ memory' \in {memory, copy[r]} /\ (memory' # memory => deskStage[r] = "writing")
                         /\ savedState' \in {savedState, choice[r]}
                         /\ savedState' # savedState => deskStage[r] = "savingState"
                         /\ stage = "writing" => copy'[r] = memory
                         /\ stage # "savingState"

\* A request that goes on keeps the invariant.
LEMMA DeskGoesOn ==
    ASSUME DeskInv, NEW r \in DeskRequests, NEW stage, NEW kind, MovesOn(r, stage, kind), Proceeds(r, stage)
    PROVE  DeskInv'
<1>1. \A q \in DeskRequests : /\ deskStage'[q] = IF q = r THEN stage ELSE deskStage[q]
                              /\ deskKind'[q] = IF q = r THEN kind ELSE deskKind[q]
                              /\ q # r => copy'[q] = copy[q]
  BY DEF MovesOn, Proceeds
<1>2. DeskTypeOK'
  BY DEF MovesOn, Proceeds
<1>3. \A q \in DeskRequests : StageFits(q)'
  BY <1>1 DEF StageFits, DeskInv, MovesOn, Proceeds
<1>4. /\ \A q \in DeskRequests : q # r => /\ IsAtWork(q)' = IsAtWork(q)
                                          /\ IsChoosing(q)' = IsChoosing(q)
      /\ IsChoosing(r)' <=> IsChoosing(r) /\ stage # "ended"
      /\ IsAtWork(r) /\ (IsAtWork(r)' <=> stage # "ended")
  BY <1>1 DEF IsAtWork, IsChoosing, MovesOn, Proceeds
<1>5. CASE IsChoosing(r)
  <2>1. ~muddled' => \A q \in DeskRequests : IsAtWork(q) => q = r \/ deskKind[q] \in {"event", "restart"}
    BY <1>5 DEF ChoicesAreAlone, DeskInv, MovesOn, Proceeds
  <2>2. ChoicesAreAlone'
    BY <1>1, <1>4, <1>5, <2>1 DEF ChoicesAreAlone, IsChoosing, MovesOn, Proceeds
  <2>3. ConfirmedIsKept'
    <3>1. CASE stage # "ended"
      BY <1>4, <1>5, <3>1 DEF ConfirmedIsKept, MovesOn, Proceeds
    <3>2. CASE stage = "ended"
      BY <1>1, <1>3, <1>4, <1>5, <2>1, <3>2 DEF ConfirmedIsKept, StageFits, Fits, DeskInv, IsAtWork, MovesOn, Proceeds
    <3> QED BY <3>1, <3>2
  <2> QED BY <1>2, <1>3, <2>2, <2>3 DEF DeskInv
<1>6. CASE ~IsChoosing(r)
  <2>1. ChoicesAreAlone'
    BY <1>1, <1>4, <1>6 DEF ChoicesAreAlone, DeskInv, StageFits, Fits, IsAtWork, IsChoosing, MovesOn, Proceeds
  <2>2. ConfirmedIsKept'
    BY <1>1, <1>4, <1>6 DEF ConfirmedIsKept, DeskInv, MovesOn, Proceeds
  <2> QED BY <1>2, <1>3, <2>1, <2>2 DEF DeskInv
<1> QED BY <1>5, <1>6

\* Every step keeps the invariant.
LEMMA DeskStep ==
    ASSUME DeskInv, [DeskNext]_deskVars
    PROVE  DeskInv'
<1> USE DEF deskVars, agentVars, savedVars, askVars, deskHistory
<1>1. ASSUME NEW r \in DeskRequests, NEW wanted \in Levels, Message(r, "level", wanted) PROVE DeskInv'
  <2>1. Come(r, "level", "reading", wanted) /\ muddled' = Muddled("level")
    BY <1>1 DEF Message, FirstStage
  <2>2. UNCHANGED <<copy, memory, savedState, confirmed, crashes, threw, process, level>> /\ agentState' = "ACTIVE"
    BY <1>1 DEF Message
  <2> QED BY <2>1, <2>2, RequestComes DEF DeskInv, DeskTypeOK, LevelOrNone, Muddled
<1>15. ASSUME NEW r \in DeskRequests, NEW wanted \in Levels, SetAutonomyAction(r, wanted) PROVE DeskInv'
  <2>1. Come(r, "set", "saving", wanted) /\ muddled' = Muddled("set")
    BY <1>15 DEF SetAutonomyAction
  <2>2. UNCHANGED <<copy, memory, savedState, confirmed, crashes, threw, process, level, agentState>>
    BY <1>15 DEF SetAutonomyAction
  <2> QED BY <2>1, <2>2, RequestComes DEF DeskInv, DeskTypeOK, LevelOrNone, Muddled
<1>16. ASSUME NEW r \in DeskRequests, NEW kind \in {"command", "question"}, Message(r, kind, None) \/ LongMessage(r, kind)
       PROVE  DeskInv'
  <2>1. CASE kind = "command"
    BY <1>16, <2>1, RequestComes DEF Message, LongMessage, FirstStage, DeskInv, DeskTypeOK, LevelOrNone, Muddled
  <2>2. CASE kind = "question"
    BY <1>16, <2>2, RequestComes DEF Message, LongMessage, FirstStage, DeskInv, DeskTypeOK, LevelOrNone, Muddled
  <2> QED BY <2>1, <2>2
<1>17. ASSUME NEW r \in DeskRequests, CIEvent(r) PROVE DeskInv'
  BY <1>17, RequestComes DEF CIEvent, DeskInv, DeskTypeOK, LevelOrNone
<1>18. ASSUME NEW r \in DeskRequests, SuspendAction(r) PROVE DeskInv'
  BY <1>18, RequestComes DEF SuspendAction, DeskInv, DeskTypeOK, LevelOrNone, Muddled
<1>19. ASSUME NEW r \in DeskRequests, RestartAction(r) PROVE DeskInv'
  BY <1>19, RequestComes DEF RestartAction, DeskInv, DeskTypeOK, LevelOrNone
<1>2. ASSUME NEW r \in DeskRequests, NEW good \in BOOLEAN, ProgressSent(r, good) PROVE DeskInv'
  <2> PICK stage : stage = IF good THEN FirstStage(deskKind[r]) ELSE "ended"
    OBVIOUS
  <2>1. Move(r, stage) /\ IsAtWork(r) /\ UNCHANGED <<choice, crashes, process>>
    BY <1>2 DEF ProgressSent, FirstStage, IsAtWork
  <2>2. Fits(stage, deskKind[r]) /\ stage # "none" /\ DeskTypeOK'
    BY <1>2 DEF ProgressSent, FirstStage, Move, DeskInv, DeskTypeOK, StageFits, Fits, LevelOrNone
  <2>3. \A q \in DeskRequests : q # r => copy'[q] = copy[q]
    BY <1>2 DEF ProgressSent, DeskInv, DeskTypeOK
  <2>4. MovesOn(r, stage, deskKind[r])
    BY <2>1, <2>2, <2>3, MoveIsLocal DEF MovesOn
  <2>5. Proceeds(r, stage)
    BY <1>2 DEF ProgressSent, FirstStage, Proceeds, DeskInv, DeskTypeOK, StageFits, Fits, IsChoosing, IsAtWork, ChoicesAreAlone
  <2> QED BY <2>4, <2>5, DeskGoesOn
<1>3. ASSUME NEW r \in DeskRequests, NEW good \in BOOLEAN, SmartResponse(r, good) PROVE DeskInv'
  <2>1. DeskTypeOK'
    BY <1>3 DEF SmartResponse, DeskInv, DeskTypeOK, StageFits, Fits, LevelOrNone
  <2>2. MovesOn(r, "reading", IF good THEN deskKind[r] ELSE "command")
    BY <1>3, <2>1 DEF SmartResponse, MovesOn, IsAtWork, DeskInv, DeskTypeOK, StageFits, Fits
  <2>3. Proceeds(r, "reading")
    BY <1>3 DEF SmartResponse, Proceeds, DeskInv, DeskTypeOK, StageFits, Fits, IsChoosing, ChoicesAreAlone
  <2> QED BY <2>2, <2>3, DeskGoesOn
<1>4. ASSUME NEW r \in DeskRequests, ReadMemory(r) PROVE DeskInv'
  <2>1. Move(r, "writing") /\ IsAtWork(r) /\ UNCHANGED <<choice, crashes, process>>
    BY <1>4 DEF ReadMemory, IsAtWork
  <2>2. Fits("writing", deskKind[r]) /\ "writing" # "none" /\ DeskTypeOK'
    BY <1>4 DEF ReadMemory, Move, DeskInv, DeskTypeOK, StageFits, Fits, LevelOrNone
  <2>3. \A q \in DeskRequests : q # r => copy'[q] = copy[q]
    BY <1>4 DEF ReadMemory, DeskInv, DeskTypeOK
  <2>4. MovesOn(r, "writing", deskKind[r])
    BY <2>1, <2>2, <2>3, MoveIsLocal DEF MovesOn
  <2>5. Proceeds(r, "writing")
    BY <1>4 DEF ReadMemory, Proceeds, DeskInv, DeskTypeOK, StageFits, Fits, IsChoosing, IsAtWork, ChoicesAreAlone
  <2> QED BY <2>4, <2>5, DeskGoesOn
<1>5. ASSUME NEW r \in DeskRequests, WriteMemory(r) PROVE DeskInv'
  <2> PICK stage : stage = CASE deskKind[r] = "level" -> "saving"
                       [] deskKind[r] = "question" -> "leaving"
                       [] deskKind[r] = "command" -> "closing"
    OBVIOUS
  <2>1. Move(r, stage) /\ IsAtWork(r) /\ UNCHANGED <<choice, crashes, process>>
    BY <1>5 DEF WriteMemory, IsAtWork
  <2>2. Fits(stage, deskKind[r]) /\ stage # "none" /\ DeskTypeOK'
    BY <1>5 DEF WriteMemory, Move, DeskInv, DeskTypeOK, StageFits, Fits, LevelOrNone
  <2>3. \A q \in DeskRequests : q # r => copy'[q] = copy[q]
    BY <1>5 DEF WriteMemory, DeskInv, DeskTypeOK
  <2>4. MovesOn(r, stage, deskKind[r])
    BY <2>1, <2>2, <2>3, MoveIsLocal DEF MovesOn
  <2>5. Proceeds(r, stage)
    BY <1>5 DEF WriteMemory, Proceeds, DeskInv, DeskTypeOK, StageFits, Fits, IsChoosing, IsAtWork, ChoicesAreAlone
  <2> QED BY <2>4, <2>5, DeskGoesOn
<1>6. ASSUME NEW r \in DeskRequests, SaveLevel(r) PROVE DeskInv'
  <2> PICK stage : stage = IF deskKind[r] = "set" THEN "savingState" ELSE "closing"
    OBVIOUS
  <2>1. Move(r, stage) /\ IsAtWork(r) /\ UNCHANGED <<choice, crashes, process>>
    BY <1>6 DEF SaveLevel, SavedLevel, IsAtWork
  <2>2. Fits(stage, deskKind[r]) /\ stage # "none" /\ DeskTypeOK'
    BY <1>6 DEF SaveLevel, SavedLevel, Move, DeskInv, DeskTypeOK, StageFits, Fits, LevelOrNone
  <2>3. \A q \in DeskRequests : q # r => copy'[q] = copy[q]
    BY <1>6 DEF SaveLevel, DeskInv, DeskTypeOK
  <2>4. MovesOn(r, stage, deskKind[r])
    BY <2>1, <2>2, <2>3, MoveIsLocal DEF MovesOn
  <2>5. Proceeds(r, stage)
    BY <1>6 DEF SaveLevel, SavedLevel, Proceeds, DeskInv, DeskTypeOK, StageFits, Fits, IsChoosing, IsAtWork, ChoicesAreAlone
  <2> QED BY <2>4, <2>5, DeskGoesOn
<1>7. ASSUME NEW r \in DeskRequests, Finish(r) PROVE DeskInv'
  <2>1. Move(r, "ended") /\ IsAtWork(r) /\ UNCHANGED <<choice, crashes, process>>
    BY <1>7 DEF Finish, IsAtWork
  <2>2. Fits("ended", deskKind[r]) /\ "ended" # "none" /\ DeskTypeOK'
    BY <1>7 DEF Finish, Move, DeskInv, DeskTypeOK, StageFits, Fits, LevelOrNone
  <2>3. \A q \in DeskRequests : q # r => copy'[q] = copy[q]
    BY <1>7 DEF Finish, DeskInv, DeskTypeOK
  <2>4. MovesOn(r, "ended", deskKind[r])
    BY <2>1, <2>2, <2>3, MoveIsLocal DEF MovesOn
  <2>5. Proceeds(r, "ended")
    BY <1>7 DEF Finish, Proceeds, DeskInv, DeskTypeOK, StageFits, Fits, IsChoosing, IsAtWork, ChoicesAreAlone
  <2> QED BY <2>4, <2>5, DeskGoesOn
<1>8. ASSUME NEW r \in DeskRequests, FinishEarly(r) PROVE DeskInv'
  <2>1. Move(r, "ended") /\ IsAtWork(r) /\ UNCHANGED <<choice, crashes, process>>
    BY <1>8 DEF FinishEarly, StateReset, IsAtWork
  <2>2. Fits("ended", deskKind[r]) /\ "ended" # "none" /\ DeskTypeOK'
    BY <1>8 DEF FinishEarly, StateReset, Move, DeskInv, DeskTypeOK, StageFits, Fits, LevelOrNone
  <2>3. \A q \in DeskRequests : q # r => copy'[q] = copy[q]
    BY <1>8 DEF FinishEarly, DeskInv, DeskTypeOK
  <2>4. MovesOn(r, "ended", deskKind[r])
    BY <2>1, <2>2, <2>3, MoveIsLocal DEF MovesOn
  <2>5. Proceeds(r, "ended")
    BY <1>8 DEF FinishEarly, StateReset, Proceeds, DeskInv, DeskTypeOK, StageFits, Fits, IsChoosing, IsAtWork, ChoicesAreAlone
  <2> QED BY <2>4, <2>5, DeskGoesOn
<1>9. ASSUME NEW r \in DeskRequests, MessageThrows(r) PROVE DeskInv'
  <2>1. Move(r, "ended") /\ IsAtWork(r) /\ UNCHANGED <<choice, crashes, process>>
    BY <1>9 DEF MessageThrows, IsAtWork
  <2>2. Fits("ended", deskKind[r]) /\ "ended" # "none" /\ DeskTypeOK'
    BY <1>9 DEF MessageThrows, Move, DeskInv, DeskTypeOK, StageFits, Fits, LevelOrNone
  <2>3. \A q \in DeskRequests : q # r => copy'[q] = copy[q]
    BY <1>9 DEF MessageThrows, DeskInv, DeskTypeOK
  <2>4. MovesOn(r, "ended", deskKind[r])
    BY <2>1, <2>2, <2>3, MoveIsLocal DEF MovesOn
  <2>5. Proceeds(r, "ended")
    BY <1>9 DEF MessageThrows, Proceeds, DeskInv, DeskTypeOK, StageFits, Fits, IsChoosing, IsAtWork, ChoicesAreAlone
  <2> QED BY <2>4, <2>5, DeskGoesOn
<1>10. ASSUME NEW r \in DeskRequests, SaveState(r) PROVE DeskInv'
  <2>1. Move(r, "ended") /\ IsAtWork(r) /\ UNCHANGED <<choice, crashes, process>>
    BY <1>10 DEF SaveState, IsAtWork
  <2>2. Fits("ended", deskKind[r]) /\ "ended" # "none" /\ DeskTypeOK'
    BY <1>10 DEF SaveState, Move, DeskInv, DeskTypeOK, StageFits, Fits, LevelOrNone
  <2>3. \A q \in DeskRequests : q # r => copy'[q] = copy[q]
    BY <1>10 DEF SaveState, DeskInv, DeskTypeOK
  <2>4. MovesOn(r, "ended", deskKind[r])
    BY <2>1, <2>2, <2>3, MoveIsLocal DEF MovesOn
  <2>5. Proceeds(r, "ended")
    BY <1>10 DEF SaveState, Proceeds, DeskInv, DeskTypeOK, StageFits, Fits, IsChoosing, IsAtWork, ChoicesAreAlone
  <2> QED BY <2>4, <2>5, DeskGoesOn
<1>11. ASSUME NEW r \in DeskRequests, ActionThrows(r) PROVE DeskInv'
  <2>1. Move(r, "ended") /\ IsAtWork(r) /\ UNCHANGED <<choice, crashes, process>>
    BY <1>11 DEF ActionThrows, IsAtWork
  <2>2. Fits("ended", deskKind[r]) /\ "ended" # "none" /\ DeskTypeOK'
    BY <1>11 DEF ActionThrows, Move, DeskInv, DeskTypeOK, StageFits, Fits, LevelOrNone
  <2>3. \A q \in DeskRequests : q # r => copy'[q] = copy[q]
    BY <1>11 DEF ActionThrows, DeskInv, DeskTypeOK
  <2>4. MovesOn(r, "ended", deskKind[r])
    BY <2>1, <2>2, <2>3, MoveIsLocal DEF MovesOn
  <2>5. Proceeds(r, "ended")
    BY <1>11 DEF ActionThrows, Proceeds, DeskInv, DeskTypeOK, StageFits, Fits, IsChoosing, IsAtWork, ChoicesAreAlone
  <2> QED BY <2>4, <2>5, DeskGoesOn
<1>12. ASSUME NEW r \in DeskRequests, InitializeAgent(r) PROVE DeskInv'
  <2>1. Move(r, "ended") /\ IsAtWork(r) /\ UNCHANGED <<choice, crashes, process>>
    BY <1>12 DEF InitializeAgent, IsAtWork
  <2>2. Fits("ended", deskKind[r]) /\ "ended" # "none" /\ DeskTypeOK'
    BY <1>12 DEF InitializeAgent, Move, DeskInv, DeskTypeOK, StageFits, Fits, LevelOrNone
  <2>3. \A q \in DeskRequests : q # r => copy'[q] = copy[q]
    BY <1>12 DEF InitializeAgent, DeskInv, DeskTypeOK
  <2>4. MovesOn(r, "ended", deskKind[r])
    BY <2>1, <2>2, <2>3, MoveIsLocal DEF MovesOn
  <2>5. Proceeds(r, "ended")
    BY <1>12 DEF InitializeAgent, Proceeds, DeskInv, DeskTypeOK, StageFits, Fits, IsChoosing, IsAtWork, ChoicesAreAlone
  <2> QED BY <2>4, <2>5, DeskGoesOn
<1>13. CASE CrashProcess
  <2>1. \A q \in DeskRequests : deskStage'[q] = IF IsAtWork(q) THEN "ended" ELSE deskStage[q]
    BY <1>13 DEF CrashProcess, OpenRequests, IsAtWork
  <2>2. DeskTypeOK'
    BY <1>13, LevelsAssumption DEF CrashProcess, DeskInv, DeskTypeOK
  <2>3. \A q \in DeskRequests : ~IsAtWork(q)'
    BY <2>1 DEF IsAtWork
  <2>4. ~muddled' => ~muddled /\ \A q \in DeskRequests : ~IsChoosing(q)
    BY <1>13 DEF CrashProcess, Choosing, OpenRequests, IsChoosing, IsAtWork
  <2>5. \A q \in DeskRequests : StageFits(q)'
    BY <1>13, <2>1 DEF CrashProcess, StageFits, Fits, DeskInv
  <2>6. ChoicesAreAlone' /\ ConfirmedIsKept'
    BY <1>13, <2>1, <2>3, <2>4 DEF CrashProcess, ChoicesAreAlone, ConfirmedIsKept, IsChoosing, DeskInv
  <2> QED BY <2>2, <2>5, <2>6 DEF DeskInv
<1>14. CASE StartProcess \/ RestoreStates \/ UNCHANGED deskVars
  <2>1. /\ UNCHANGED <<savedVars, askVars, confirmed, muddled>>
        /\ DeskTypeOK'
    BY <1>14, LevelsAssumption DEF StartProcess, RestoreStates, DeskInv, DeskTypeOK, LevelOrNone
  <2> QED BY <2>1 DEF DeskInv, StageFits, ChoicesAreAlone, ConfirmedIsKept, IsChoosing, IsAtWork
<1> QED
  BY <1>1, <1>2, <1>3, <1>4, <1>5, <1>6, <1>7, <1>8, <1>9, <1>10, <1>11, <1>12, <1>13, <1>14,
     <1>15, <1>16, <1>17, <1>18, <1>19
     DEF DeskNext

\* DeskInv holds in every state.
LEMMA DeskInvariant == DeskSpec => []DeskInv
<1>1. DeskInit => DeskInv
  <2> SUFFICES ASSUME DeskInit PROVE DeskInv
    OBVIOUS
  <2>1. DeskTypeOK
    <3>1. level \in Levels /\ crashes \in 0..MaxCrashes
      BY LevelsAssumption DEF DeskInit
    <3> QED BY <3>1 DEF DeskInit, DeskTypeOK, LevelOrNone
  <2>2. \A r \in DeskRequests : StageFits(r) /\ ~IsChoosing(r)
    BY DEF DeskInit, StageFits, Fits, IsChoosing, IsAtWork
  <2> QED BY <2>1, <2>2 DEF DeskInit, DeskInv, ChoicesAreAlone, ConfirmedIsKept
<1> QED BY <1>1, DeskStep, PTL DEF DeskSpec

\* The level that was last chosen and confirmed is the one that a start gives the
\* agent: setMemory and saveAgentState, whatever other messages read and write between.
THEOREM ChoicesSurvive == DeskSpec => []ChoiceSurvives
<1>1. DeskInv => ChoiceSurvives
  BY DEF DeskInv, ConfirmedIsKept, ChoiceSurvives, StartLevel, Choosing, OpenRequests, IsChoosing, IsAtWork
<1> QED BY <1>1, DeskInvariant, PTL

-----------------------------------------------------------------------------
(* ChatSession.                                                            *)

\* What one reply of the model used, and the results returned for it.
TurnRecord == [uses : Nat, results : Seq(Nat)]

CountTo(k) == [n \in 1..k |-> n]

\* The first k replies have all their results.
AreFull(sent, k) == \A i \in 1..k : sent[i].results = CountTo(sent[i].uses)

\* The last reply has the results of those of its tools that are not in `rest'.
LastGoesOn(sent, rest) ==
    LET last == sent[Len(sent)] IN
    /\ Len(sent) > 0 /\ AreFull(sent, Len(sent) - 1)
    /\ Len(rest) > 0 /\ Len(rest) <= last.uses
    /\ last.results = CountTo(last.uses - Len(rest))

\* A request to the loop is at its place in the replies.
TurnGoesRight(r) ==
    /\ turnKind[r] = "execute" => turnStage[r] \in {"calling", "ended"}
    /\ turnStage[r] \in {"none", "settled", "ended"} \/ turnKind[r] = "execute" => turns[r] = <<>>
    /\ turnStage[r] # "none" => turnKind[r] # "none"
    /\ turnStage[r] = "asking" => AreFull(turns[r], Len(turns[r]))
    /\ turnStage[r] \in {"using", "calling"} /\ turnKind[r] # "execute" => LastGoesOn(turns[r], todo[r])

\* A stream's consumer sleeps without an event, and ends after its loop.
StreamGoesRight(r) ==
    /\ consumer[r] = "asleep" => ~buffer[r] /\ ~loopDone[r]
    /\ consumer[r] = "ended" => ~buffer[r] /\ loopDone[r]
    /\ loopDone[r] => turnStage[r] = "ended"

\* The counters are the mocks handed out.
MocksGoRight ==
    /\ session = None => /\ \A t \in ToolNames : count[t] = 0
                         /\ exhausted = {}
                         /\ \A r \in Turns : turnStage[r] = "none"
    /\ \A t \in ToolNames : served[t] = CountTo(count[t])
    /\ session # None => \A t \in ToolNames : count[t] <= session.mocks[t].length
    /\ \A t \in exhausted : count[t] = session.mocks[t].length
    /\ \A r \in Turns : turnStage[r] = "calling" => ~session.mocked

ChatTyped ==
    /\ session # None => session \in [mocked : BOOLEAN, mocks : [ToolNames -> Mock]]
    /\ count \in [ToolNames -> Nat]
    /\ turnKind \in [Turns -> {"none", "execute", "send", "stream"}]
    /\ turnStage \in [Turns -> {"none", "asking", "using", "calling", "settled", "ended"}]
    /\ todo \in [Turns -> Seq(ToolNames)]
    /\ turns \in [Turns -> Seq(TurnRecord)]
    /\ buffer \in [Turns -> BOOLEAN]
    /\ consumer \in [Turns -> {"none", "awake", "asleep", "ended"}]
    /\ loopDone \in [Turns -> BOOLEAN]
    /\ served \in [ToolNames -> Seq(Nat)]
    /\ exhausted \subseteq ToolNames

ChatInv ==
    /\ ChatTyped /\ MocksGoRight
    /\ \A r \in Turns : TurnGoesRight(r) /\ StreamGoesRight(r)

\* Counting goes on by one.
LEMMA CountGoesOn ==
    ASSUME NEW k \in Nat
    PROVE  /\ CountTo(k) \in Seq(Nat) /\ Len(CountTo(k)) = k
           /\ Append(CountTo(k), k + 1) = CountTo(k + 1)
<1>1. CountTo(k) \in [1..k -> Nat] /\ CountTo(k + 1) \in [1..(k + 1) -> Nat]
  BY DEF CountTo
<1>2. CountTo(k) \in Seq(Nat) /\ Len(CountTo(k)) = k
  BY <1>1
<1>3. CountTo(k + 1) \in Seq(Nat) /\ Len(CountTo(k + 1)) = k + 1
  BY <1>1
<1>4. /\ Append(CountTo(k), k + 1) \in Seq(Nat) /\ Len(Append(CountTo(k), k + 1)) = k + 1
      /\ \A i \in 1..(k + 1) : Append(CountTo(k), k + 1)[i] = IF i = k + 1 THEN k + 1 ELSE CountTo(k)[i]
  BY <1>2, AppendProperties
<1>5. \A i \in 1..(k + 1) : Append(CountTo(k), k + 1)[i] = CountTo(k + 1)[i]
  BY <1>4 DEF CountTo
<1>6. Append(CountTo(k), k + 1) = CountTo(k + 1)
  BY <1>3, <1>4, <1>5, SeqEqual
<1> QED BY <1>2, <1>6

\* A loop goes on with what remains of a reply, asks again, or ends.
LEMMA GoOnGoesRight ==
    ASSUME ChatInv, NEW r \in Turns, turnKind[r] \in {"send", "stream"}, UNCHANGED turnKind,
           NEW replies, NEW sent \in Seq(TurnRecord), NEW rest \in Seq(ToolNames), GoOn(r, replies, sent, rest),
           rest # <<>> => LastGoesOn(sent, rest),
           rest = <<>> /\ turnStage[r] # "asking" => AreFull(sent, Len(sent))
    PROVE  /\ TurnGoesRight(r)' /\ turnStage'[r] # "calling"
           /\ turnStage' \in [Turns -> {"none", "asking", "using", "calling", "settled", "ended"}]
           /\ todo' \in [Turns -> Seq(ToolNames)] /\ turns' \in [Turns -> Seq(TurnRecord)]
           /\ \A q \in Turns \ {r} : turnStage'[q] = turnStage[q] /\ todo'[q] = todo[q] /\ turns'[q] = turns[q]
<1>1. PICK stage : stage = IF rest # <<>> THEN "using"
                           ELSE IF replies < MaxLoopIterations /\ turnStage[r] # "asking" THEN "asking"
                           ELSE IF turnKind[r] = "stream" THEN "settled" ELSE "ended"
  OBVIOUS
<1>2. PICK over : over = (stage \in {"settled", "ended"})
  OBVIOUS
<1>3. /\ turnStage' = [turnStage EXCEPT ![r] = stage]
      /\ turns' = [turns EXCEPT ![r] = IF over THEN <<>> ELSE sent]
      /\ todo' = [todo EXCEPT ![r] = rest]
  BY <1>1, <1>2 DEF GoOn
<1>4. stage \in {"using", "asking", "settled", "ended"}
  BY <1>1
<1>5. (IF over THEN <<>> ELSE sent) \in Seq(TurnRecord)
  OBVIOUS
<1>6. /\ turnStage' \in [Turns -> {"none", "asking", "using", "calling", "settled", "ended"}]
      /\ todo' \in [Turns -> Seq(ToolNames)] /\ turns' \in [Turns -> Seq(TurnRecord)]
      /\ \A q \in Turns \ {r} : turnStage'[q] = turnStage[q] /\ todo'[q] = todo[q] /\ turns'[q] = turns[q]
      /\ turnStage'[r] = stage /\ todo'[r] = rest /\ turns'[r] = IF over THEN <<>> ELSE sent
  BY <1>3, <1>4, <1>5 DEF ChatInv, ChatTyped
<1>7. TurnGoesRight(r)'
  BY <1>1, <1>2, <1>6 DEF TurnGoesRight
<1> QED BY <1>4, <1>6, <1>7

\* Events of a stream wake its consumer.
LEMMA EmitGoesRight ==
    ASSUME ChatInv, NEW r \in Turns, turnStage[r] # "ended", UNCHANGED loopDone,
           NEW pushed \in BOOLEAN, NEW ends, Emit(r, pushed, ends)
    PROVE  /\ StreamGoesRight(r)'
           /\ buffer' \in [Turns -> BOOLEAN] /\ consumer' \in [Turns -> {"none", "awake", "asleep", "ended"}]
           /\ \A q \in Turns \ {r} : buffer'[q] = buffer[q] /\ consumer'[q] = consumer[q]
<1>1. ~loopDone[r] /\ StreamGoesRight(r)
  BY DEF ChatInv, StreamGoesRight
<1>2. /\ buffer' \in [Turns -> BOOLEAN] /\ consumer' \in [Turns -> {"none", "awake", "asleep", "ended"}]
      /\ \A q \in Turns \ {r} : buffer'[q] = buffer[q] /\ consumer'[q] = consumer[q]
      /\ buffer'[r] = (buffer[r] \/ (pushed /\ turnKind[r] = "stream"))
      /\ consumer'[r] = IF (pushed \/ ends) /\ consumer[r] = "asleep" THEN "awake" ELSE consumer[r]
  BY DEF Emit, Woken, ChatInv, ChatTyped
<1>3. StreamGoesRight(r)'
  BY <1>1, <1>2 DEF StreamGoesRight
<1> QED BY <1>2, <1>3

\* The next entry of a mock is handed out, once.
LEMMA MocksAnswerRight ==
    ASSUME ChatInv, NEW t \in ToolNames, session # None, UNCHANGED session, AnswerByMock(t) \/ UNCHANGED mockVars,
           \A r \in Turns : turnStage'[r] = "calling" => ~session.mocked
    PROVE  /\ MocksGoRight'
           /\ count' \in [ToolNames -> Nat] /\ served' \in [ToolNames -> Seq(Nat)] /\ exhausted' \subseteq ToolNames
<1>1. session.mocks[t] \in Mock
  BY DEF ChatInv, ChatTyped
<1>2. CASE UNCHANGED mockVars
  BY <1>2 DEF mockVars, ChatInv, ChatTyped, MocksGoRight
<1>3. CASE ~UNCHANGED mockVars /\ ~Spent(t)
  <2>1. PICK k \in Nat : k = count[t]
    BY DEF ChatInv, ChatTyped
  <2>2. session.mocks[t].length \in Nat /\ k < session.mocks[t].length
    BY <1>1, <1>3, <2>1, LoopAssumption DEF Spent, Mock
  <2>3. /\ count' = [count EXCEPT ![t] = k + 1]
        /\ exhausted' = exhausted
        /\ served' = [served EXCEPT ![t] = Append(served[t], k + 1)]
    BY <1>3, <2>1 DEF AnswerByMock, mockVars, ChatInv, ChatTyped
  <2>4. /\ served[t] = CountTo(k)
        /\ Append(CountTo(k), k + 1) = CountTo(k + 1)
        /\ CountTo(k + 1) \in Seq(Nat)
    <3>1. k + 1 \in Nat
      OBVIOUS
    <3>2. served[t] = CountTo(k)
      BY <2>1 DEF ChatInv, MocksGoRight
    <3> QED BY <3>1, <3>2, CountGoesOn
  <2>5. /\ count' \in [ToolNames -> Nat] /\ served' \in [ToolNames -> Seq(Nat)]
        /\ \A u \in ToolNames : /\ count'[u] = IF u = t THEN k + 1 ELSE count[u]
                               /\ served'[u] = IF u = t THEN CountTo(k + 1) ELSE served[u]
    <3>1. PICK more : more = CountTo(k + 1)
      OBVIOUS
    <3>2. served' = [served EXCEPT ![t] = more] /\ more \in Seq(Nat)
      BY <2>3, <2>4, <3>1
    <3>3. count \in [ToolNames -> Nat] /\ served \in [ToolNames -> Seq(Nat)]
      BY DEF ChatInv, ChatTyped
    <3>4. /\ served' \in [ToolNames -> Seq(Nat)]
          /\ \A u \in ToolNames : served'[u] = IF u = t THEN more ELSE served[u]
      BY <3>2, <3>3
    <3>5. /\ count' \in [ToolNames -> Nat]
          /\ \A u \in ToolNames : count'[u] = IF u = t THEN k + 1 ELSE count[u]
      BY <2>3, <3>3
    <3> QED BY <3>1, <3>4, <3>5
  <2>6. t \notin exhausted
    BY <2>1, <2>2 DEF ChatInv, MocksGoRight
  <2>7. \A u \in ToolNames : served'[u] = CountTo(count'[u]) /\ count'[u] <= session.mocks[u].length
    <3> SUFFICES ASSUME NEW u \in ToolNames
                 PROVE  served'[u] = CountTo(count'[u]) /\ count'[u] <= session.mocks[u].length
      OBVIOUS
    <3>1. served[u] = CountTo(count[u]) /\ count[u] <= session.mocks[u].length
      BY DEF ChatInv, MocksGoRight
    <3>2. CASE u = t
      BY <2>2, <2>5, <3>2
    <3>3. CASE u # t
      BY <2>5, <3>1, <3>3
    <3> QED BY <3>2, <3>3
  <2>8. \A u \in exhausted' : count'[u] = session.mocks[u].length
    BY <2>3, <2>5, <2>6 DEF ChatInv, MocksGoRight, ChatTyped
  <2> QED BY <2>3, <2>5, <2>7, <2>8 DEF MocksGoRight, ChatInv, ChatTyped
<1>4. CASE ~UNCHANGED mockVars /\ Spent(t)
  <2>1. exhausted' = exhausted \union {t} /\ UNCHANGED <<count, served>>
    BY <1>4 DEF AnswerByMock, mockVars
  <2>2. count[t] = session.mocks[t].length
    <3>1. session.mocks[t].length \in Nat /\ count[t] \in Nat
      BY <1>1, LoopAssumption DEF Mock, ChatInv, ChatTyped
    <3> QED BY <1>4, <3>1 DEF Spent, ChatInv, MocksGoRight
  <2> QED BY <2>1, <2>2 DEF MocksGoRight, ChatInv, ChatTyped
<1> QED BY <1>2, <1>3, <1>4

\* A step of one request leaves the others where they are.
LEMMA OneTurnStep ==
    ASSUME ChatInv, NEW r \in Turns, ChatTyped', MocksGoRight', TurnGoesRight(r)', StreamGoesRight(r)',
           \A q \in Turns \ {r} : /\ turnKind'[q] = turnKind[q] /\ turnStage'[q] = turnStage[q]
                                 /\ todo'[q] = todo[q] /\ turns'[q] = turns[q]
                                 /\ buffer'[q] = buffer[q] /\ consumer'[q] = consumer[q]
                                 /\ loopDone'[q] = loopDone[q]
    PROVE  ChatInv'
<1>1. \A q \in Turns \ {r} : TurnGoesRight(q)'
  BY DEF TurnGoesRight, ChatInv
<1>2. \A q \in Turns \ {r} : StreamGoesRight(q)'
  BY DEF StreamGoesRight, ChatInv
<1> QED BY <1>1, <1>2 DEF ChatInv

\* A tool has its result: the loop goes on.
LEMMA ResultGoesRight ==
    ASSUME ChatInv, NEW r \in Turns, NEW t \in ToolNames, turnStage[r] \in {"using", "calling"},
           turnKind[r] # "execute", Result(r), UNCHANGED <<session, turnKind, loopDone>>,
           AnswerByMock(t) \/ UNCHANGED mockVars
    PROVE  ChatInv'
<1>1. PICK sent \in Seq(TurnRecord), rest \in Seq(ToolNames) : sent = turns[r] /\ rest = todo[r]
  BY DEF ChatInv, ChatTyped
<1>2. LastGoesOn(sent, rest) /\ turnKind[r] \in {"send", "stream"} /\ session # None
  <2>1. session # None
    BY DEF ChatInv, MocksGoRight
  <2>2. TurnGoesRight(r) /\ turnKind[r] \in {"none", "execute", "send", "stream"}
    BY DEF ChatInv, ChatTyped
  <2> QED BY <1>1, <2>1, <2>2 DEF TurnGoesRight
<1>3. PICK k \in Nat, past \in TurnRecord :
         /\ k = Len(sent) /\ k > 0 /\ past = sent[k] /\ Len(rest) \in 1..past.uses
         /\ past.results = CountTo(past.uses - Len(rest))
  BY <1>2, ElementOfSeq DEF LastGoesOn
<1>4. PICK done \in Nat : done = past.uses - Len(rest)
  BY <1>3 DEF TurnRecord
<1>5. PICK next : next = [past EXCEPT !.results = CountTo(done + 1)]
  OBVIOUS
<1>6. next \in TurnRecord /\ next.uses = past.uses /\ next.results = CountTo(done + 1)
  <2>1. done + 1 \in Nat
    OBVIOUS
  <2>2. CountTo(done + 1) \in Seq(Nat)
    BY <2>1, CountGoesOn
  <2>3. PICK more \in Seq(Nat) : more = CountTo(done + 1)
    BY <2>2
  <2> QED BY <1>5, <2>3 DEF TurnRecord
<1>7. PICK now : now = [sent EXCEPT ![k] = next]
  OBVIOUS
<1>8. ResultsWithNext(r) = CountTo(done + 1)
  BY <1>1, <1>3, <1>4, CountGoesOn DEF ResultsWithNext
<1>9. now = [turns[r] EXCEPT ![Len(turns[r])].results = ResultsWithNext(r)]
  BY <1>1, <1>3, <1>5, <1>7, <1>8
<1>10. now \in Seq(TurnRecord) /\ Len(now) = k /\ \A i \in 1..k : now[i] = IF i = k THEN next ELSE sent[i]
  BY <1>3, <1>6, <1>7, ExceptSeq
<1>11. AreFull(now, k - 1)
  BY <1>2, <1>3, <1>10 DEF AreFull, LastGoesOn
<1>12. Tail(rest) \in Seq(ToolNames) /\ Len(Tail(rest)) = Len(rest) - 1
  BY <1>3, HeadTailProperties
<1>13. Tail(rest) # <<>> => LastGoesOn(now, Tail(rest))
  <2> SUFFICES ASSUME Tail(rest) # <<>> PROVE LastGoesOn(now, Tail(rest))
    OBVIOUS
  <2>1. Len(Tail(rest)) > 0
    BY <1>12, EmptySeq
  <2>2. now[Len(now)] = next /\ Len(now) = k
    BY <1>3, <1>10
  <2>3. done + 1 = next.uses - Len(Tail(rest)) /\ Len(Tail(rest)) <= next.uses
    <3>1. PICK most \in Nat, more \in Nat :
             most = past.uses /\ more = Len(rest) /\ more \in 1..most
      BY <1>3 DEF TurnRecord
    <3>2. done = most - more /\ next.uses = most /\ Len(Tail(rest)) = more - 1
      BY <1>4, <1>6, <1>12, <3>1
    <3> QED BY <3>1, <3>2
  <2> QED BY <1>3, <1>6, <1>11, <2>1, <2>2, <2>3 DEF LastGoesOn
<1>14. Tail(rest) = <<>> => AreFull(now, Len(now))
  <2> SUFFICES ASSUME Len(Tail(rest)) = 0 PROVE AreFull(now, Len(now))
    BY EmptySeq
  <2>1. done + 1 = next.uses
    <3>1. PICK l \in Nat : l = Len(rest)
      BY LenProperties
    <3>2. l - 1 = 0
      BY ONLY <1>12, <3>1, Len(Tail(rest)) = 0
    <3>3. past.uses \in Nat /\ next.uses = past.uses /\ done = past.uses - l
      BY <1>4, <1>6, <3>1 DEF TurnRecord
    <3> QED BY <3>2, <3>3
  <2>2. now[k].results = CountTo(now[k].uses)
    BY <1>3, <1>6, <1>10, <2>1
  <2>3. \A i \in 1..k : i \in 1..(k - 1) \/ i = k
    OBVIOUS
  <2> QED BY <1>10, <1>11, <2>2, <2>3 DEF AreFull
<1>15. GoOn(r, iterations[r], now, Tail(rest)) /\ Emit(r, TRUE, turnStage'[r] = "settled")
  BY <1>1, <1>9 DEF Result
<1>16. /\ TurnGoesRight(r)' /\ turnStage'[r] # "calling"
       /\ turnStage' \in [Turns -> {"none", "asking", "using", "calling", "settled", "ended"}]
       /\ todo' \in [Turns -> Seq(ToolNames)] /\ turns' \in [Turns -> Seq(TurnRecord)]
       /\ \A q \in Turns \ {r} : turnStage'[q] = turnStage[q] /\ todo'[q] = todo[q] /\ turns'[q] = turns[q]
  BY <1>2, <1>10, <1>12, <1>13, <1>14, <1>15, GoOnGoesRight
<1>17. /\ StreamGoesRight(r)'
       /\ buffer' \in [Turns -> BOOLEAN] /\ consumer' \in [Turns -> {"none", "awake", "asleep", "ended"}]
       /\ \A q \in Turns \ {r} : buffer'[q] = buffer[q] /\ consumer'[q] = consumer[q]
  BY <1>15, EmitGoesRight
<1>18. \A q \in Turns : turnStage'[q] = "calling" => ~session.mocked
  BY <1>16 DEF ChatInv, MocksGoRight
<1>19. /\ MocksGoRight'
       /\ count' \in [ToolNames -> Nat] /\ served' \in [ToolNames -> Seq(Nat)] /\ exhausted' \subseteq ToolNames
  BY <1>2, <1>18, MocksAnswerRight
<1>20. ChatTyped'
  BY <1>16, <1>17, <1>19 DEF ChatTyped, ChatInv
<1> QED BY <1>16, <1>17, <1>19, <1>20, OneTurnStep

\* Every step keeps the invariant.
LEMMA ChatStep ==
    ASSUME ChatInv, [ChatNext]_chatVars
    PROVE  ChatInv'
<1> USE DEF loopVars, streamVars
<1>1. ASSUME NEW mocked \in BOOLEAN, NEW mocks \in [ToolNames -> Mock], CreateChatSession(mocked, mocks)
      PROVE  ChatInv'
  <2>1. UNCHANGED <<count, served, exhausted, turnKind, turnStage, todo, turns, buffer, consumer, loopDone>>
    BY <1>1 DEF CreateChatSession, mockVars
  <2>2. session' = [mocked |-> mocked, mocks |-> mocks] /\ session = None
    BY <1>1 DEF CreateChatSession
  <2>3. session' \in [mocked : BOOLEAN, mocks : [ToolNames -> Mock]] /\ session'.mocks = mocks
    BY <2>2
  <2>4. ChatTyped'
    BY <2>1, <2>3 DEF ChatTyped, ChatInv
  <2>5. \A t \in ToolNames : mocks[t].length \in Nat
    BY LoopAssumption DEF Mock
  <2>6. MocksGoRight'
    BY <2>1, <2>2, <2>3, <2>5 DEF MocksGoRight, ChatInv
  <2>7. \A r \in Turns : TurnGoesRight(r)' /\ StreamGoesRight(r)'
    BY <2>1 DEF TurnGoesRight, StreamGoesRight, ChatInv
  <2> QED BY <2>4, <2>6, <2>7 DEF ChatInv
<1>2. ASSUME NEW r \in Turns, NEW t \in ToolNames, ExecuteTool(r, t) PROVE ChatInv'
  <2>1. PICK stage \in {"calling", "ended"} :
           /\ turnStage' = [turnStage EXCEPT ![r] = stage]
           /\ stage = "calling" => t \in Dispatched /\ ~(session.mocked /\ t \notin BareNames)
    BY <1>2 DEF ExecuteTool
  <2>2. /\ turnKind' = [turnKind EXCEPT ![r] = "execute"]
        /\ session # None /\ turnStage[r] = "none"
        /\ UNCHANGED <<session, todo, turns, buffer, consumer, loopDone>>
    BY <1>2 DEF ExecuteTool
  <2>3. AnswerByMock(t) \/ UNCHANGED mockVars
    BY <1>2 DEF ExecuteTool
  <2>4. \A q \in Turns : /\ turnStage'[q] = IF q = r THEN stage ELSE turnStage[q]
                         /\ turnKind'[q] = IF q = r THEN "execute" ELSE turnKind[q]
    BY <2>1, <2>2 DEF ChatInv, ChatTyped
  <2>5. stage = "calling" => ~session.mocked
    BY <2>1, NamesAssumption DEF Dispatched
  <2>6. \A q \in Turns : turnStage'[q] = "calling" => ~session.mocked
    BY <2>4, <2>5 DEF ChatInv, MocksGoRight
  <2>7. /\ MocksGoRight'
        /\ count' \in [ToolNames -> Nat] /\ served' \in [ToolNames -> Seq(Nat)] /\ exhausted' \subseteq ToolNames
    BY <2>2, <2>3, <2>6, MocksAnswerRight
  <2>8. ChatTyped'
    BY <2>1, <2>2, <2>7 DEF ChatTyped, ChatInv
  <2>9. TurnGoesRight(r)' /\ StreamGoesRight(r)'
    BY <2>2, <2>4 DEF TurnGoesRight, StreamGoesRight, ChatInv
  <2> QED BY <2>2, <2>4, <2>7, <2>8, <2>9, OneTurnStep
<1>3. ASSUME NEW r \in Turns, ExecuteReturns(r) PROVE ChatInv'
  <2>1. /\ turnStage' = [turnStage EXCEPT ![r] = "ended"]
        /\ turnKind[r] = "execute" /\ turnStage[r] = "calling"
        /\ UNCHANGED <<session, turnKind, todo, turns, buffer, consumer, loopDone, count, served, exhausted>>
    BY <1>3 DEF ExecuteReturns, mockVars
  <2>2. \A q \in Turns : turnStage'[q] = IF q = r THEN "ended" ELSE turnStage[q]
    BY <2>1 DEF ChatInv, ChatTyped
  <2>3. ChatTyped' /\ MocksGoRight'
    BY <2>1, <2>2 DEF ChatTyped, MocksGoRight, ChatInv
  <2>4. TurnGoesRight(r)' /\ StreamGoesRight(r)'
    BY <2>1, <2>2 DEF TurnGoesRight, StreamGoesRight, ChatInv
  <2> QED BY <2>1, <2>2, <2>3, <2>4, OneTurnStep
<1>4. ASSUME NEW r \in Turns, NEW kind \in {"send", "stream"}, SendMessage(r, kind) PROVE ChatInv'
  <2>1. PICK wakes \in {"awake", "none"} : consumer' = [consumer EXCEPT ![r] = wakes]
    BY <1>4 DEF SendMessage
  <2>2. /\ turnStage' = [turnStage EXCEPT ![r] = "asking"] /\ turnKind' = [turnKind EXCEPT ![r] = kind]
        /\ session # None /\ turnStage[r] = "none"
        /\ UNCHANGED <<session, todo, turns, buffer, loopDone, count, served, exhausted>>
    BY <1>4 DEF SendMessage, mockVars
  <2>3. \A q \in Turns : /\ turnStage'[q] = IF q = r THEN "asking" ELSE turnStage[q]
                         /\ turnKind'[q] = IF q = r THEN kind ELSE turnKind[q]
                         /\ consumer'[q] = IF q = r THEN wakes ELSE consumer[q]
    BY <2>1, <2>2 DEF ChatInv, ChatTyped
  <2>4. ChatTyped' /\ MocksGoRight'
    BY <2>1, <2>2, <2>3 DEF ChatTyped, MocksGoRight, ChatInv
  <2>5. turns[r] = <<>> /\ ~loopDone[r]
    BY <2>2 DEF ChatInv, TurnGoesRight, StreamGoesRight
  <2>6. AreFull(turns[r], Len(turns[r]))
    BY <2>5 DEF AreFull
  <2>7. TurnGoesRight(r)' /\ StreamGoesRight(r)'
    BY <2>2, <2>3, <2>5, <2>6 DEF TurnGoesRight, StreamGoesRight
  <2> QED BY <2>2, <2>3, <2>4, <2>7, OneTurnStep
<1>5. ASSUME NEW r \in Turns, ModelReplies(r) PROVE ChatInv'
  <2>1. PICK uses \in Seq(ToolNames), text \in BOOLEAN :
           /\ GoOn(r, iterations[r] + 1, Append(turns[r], [uses |-> Len(uses), results |-> <<>>]), uses)
           /\ Emit(r, text, uses = <<>>)
    <3>1. BoundedSeq(ToolNames, MaxUses) \subseteq Seq(ToolNames)
      BY LoopAssumption DEF BoundedSeq, SeqOf
    <3> QED BY <1>5, <3>1 DEF ModelReplies
  <2>2. turnStage[r] = "asking" /\ UNCHANGED <<session, turnKind, loopDone, count, served, exhausted>>
    BY <1>5 DEF ModelReplies, mockVars
  <2>3. /\ turnKind[r] \in {"send", "stream"} /\ AreFull(turns[r], Len(turns[r]))
        /\ turns[r] \in Seq(TurnRecord)
    BY <2>2 DEF ChatInv, ChatTyped, TurnGoesRight
  <2>4. PICK k \in Nat, fresh \in TurnRecord, sent \in {Append(turns[r], [uses |-> Len(uses), results |-> <<>>])} :
           /\ k = Len(turns[r]) /\ fresh = [uses |-> Len(uses), results |-> <<>>] /\ sent = Append(turns[r], fresh)
    <3>1. Len(turns[r]) \in Nat /\ Len(uses) \in Nat
      BY <2>3, LenProperties
    <3>2. <<>> \in Seq(Nat)
      BY EmptySeq
    <3>3. [uses |-> Len(uses), results |-> <<>>] \in TurnRecord
      BY <3>1, <3>2 DEF TurnRecord
    <3> QED BY <3>1, <3>3
  <2>5. /\ sent \in Seq(TurnRecord) /\ Len(sent) = k + 1 /\ sent[k + 1] = fresh
        /\ \A i \in 1..k : sent[i] = turns[r][i]
    BY <2>3, <2>4, AppendProperties
  <2>6. uses # <<>> => LastGoesOn(sent, uses)
    <3> SUFFICES ASSUME uses # <<>> PROVE LastGoesOn(sent, uses)
      OBVIOUS
    <3>1. AreFull(sent, k)
      BY <2>3, <2>4, <2>5 DEF AreFull
    <3>2. Len(uses) \in Nat /\ Len(uses) > 0
      BY EmptySeq
    <3>3. CountTo(fresh.uses - Len(uses)) = <<>> /\ fresh.uses = Len(uses) /\ fresh.results = <<>>
      <4>1. fresh.uses = Len(uses) /\ fresh.results = <<>>
        BY <2>4
      <4>2. fresh.uses - Len(uses) = 0
        BY <3>2, <4>1
      <4>3. CountTo(0) = <<>>
        BY DEF CountTo
      <4> QED BY <4>1, <4>2, <4>3
    <3> QED BY <2>4, <2>5, <3>1, <3>2, <3>3 DEF LastGoesOn
  <2>7. /\ TurnGoesRight(r)' /\ turnStage'[r] # "calling"
        /\ turnStage' \in [Turns -> {"none", "asking", "using", "calling", "settled", "ended"}]
        /\ todo' \in [Turns -> Seq(ToolNames)] /\ turns' \in [Turns -> Seq(TurnRecord)]
        /\ \A q \in Turns \ {r} : turnStage'[q] = turnStage[q] /\ todo'[q] = todo[q] /\ turns'[q] = turns[q]
    BY <2>1, <2>2, <2>3, <2>4, <2>5, <2>6, GoOnGoesRight
  <2>8. /\ StreamGoesRight(r)'
        /\ buffer' \in [Turns -> BOOLEAN] /\ consumer' \in [Turns -> {"none", "awake", "asleep", "ended"}]
        /\ \A q \in Turns \ {r} : buffer'[q] = buffer[q] /\ consumer'[q] = consumer[q]
    BY <2>1, <2>2, EmitGoesRight
  <2>9. ChatTyped'
    BY <2>2, <2>7, <2>8 DEF ChatTyped, ChatInv
  <2>10. MocksGoRight'
    BY <2>2, <2>7 DEF MocksGoRight, ChatInv
  <2> QED BY <2>2, <2>7, <2>8, <2>9, <2>10, OneTurnStep
<1>6. ASSUME NEW r \in Turns, LoopThrows(r) PROVE ChatInv'
  <2>1. PICK stage \in {"settled", "ended"} : turnStage' = [turnStage EXCEPT ![r] = stage]
    BY <1>6 DEF LoopThrows
  <2>2. /\ turnStage[r] = "asking" /\ turns' = [turns EXCEPT ![r] = <<>>] /\ Emit(r, FALSE, TRUE)
        /\ UNCHANGED <<session, turnKind, todo, loopDone, count, served, exhausted>>
    BY <1>6 DEF LoopThrows, mockVars
  <2>3. /\ StreamGoesRight(r)'
        /\ buffer' \in [Turns -> BOOLEAN] /\ consumer' \in [Turns -> {"none", "awake", "asleep", "ended"}]
        /\ \A q \in Turns \ {r} : buffer'[q] = buffer[q] /\ consumer'[q] = consumer[q]
    BY <2>2, EmitGoesRight
  <2>4. \A q \in Turns : /\ turnStage'[q] = IF q = r THEN stage ELSE turnStage[q]
                         /\ turns'[q] = IF q = r THEN <<>> ELSE turns[q]
    BY <2>1, <2>2 DEF ChatInv, ChatTyped
  <2>5. ChatTyped' /\ MocksGoRight'
    <3>1. turns' \in [Turns -> Seq(TurnRecord)]
      BY <2>2, EmptySeq DEF ChatInv, ChatTyped
    <3>2. ChatTyped'
      BY <2>1, <2>2, <2>3, <3>1 DEF ChatTyped, ChatInv
    <3>3. MocksGoRight'
      BY <2>2, <2>4 DEF MocksGoRight, ChatInv
    <3> QED BY <3>2, <3>3
  <2>6. TurnGoesRight(r)'
    BY <2>2, <2>4 DEF TurnGoesRight, ChatInv
  <2> QED BY <2>2, <2>3, <2>4, <2>5, <2>6, OneTurnStep
<1>7. ASSUME NEW r \in Turns, UseTool(r) PROVE ChatInv'
  <2>1. /\ turnStage[r] = "using" /\ UNCHANGED <<session, turnKind, loopDone>>
        /\ turnKind[r] \in {"send", "stream"} /\ LastGoesOn(turns[r], todo[r]) /\ session # None
    BY <1>7 DEF UseTool, ChatInv, ChatTyped, TurnGoesRight, MocksGoRight
  <2>2. PICK t \in ToolNames : t = Head(todo[r])
    BY <2>1, EmptySeq, HeadTailProperties DEF ChatInv, ChatTyped, LastGoesOn
  <2>3. CASE Result(r) /\ (AnswerByMock(t) \/ UNCHANGED mockVars)
    BY <2>1, <2>3, ResultGoesRight
  <2>4. CASE ~(session.mocked /\ t \notin BareNames) /\ t \notin BareNames
    <3>1. /\ turnStage' = [turnStage EXCEPT ![r] = "calling"] /\ Emit(r, TRUE, FALSE)
          /\ UNCHANGED <<todo, turns, count, served, exhausted>> /\ ~session.mocked
      BY <1>7, <2>2, <2>4 DEF UseTool, mockVars
    <3>2. /\ StreamGoesRight(r)'
          /\ buffer' \in [Turns -> BOOLEAN] /\ consumer' \in [Turns -> {"none", "awake", "asleep", "ended"}]
          /\ \A q \in Turns \ {r} : buffer'[q] = buffer[q] /\ consumer'[q] = consumer[q]
      BY <2>1, <3>1, EmitGoesRight
    <3>3. \A q \in Turns : turnStage'[q] = IF q = r THEN "calling" ELSE turnStage[q]
      BY <3>1 DEF ChatInv, ChatTyped
    <3>4. ChatTyped' /\ MocksGoRight'
      BY <2>1, <3>1, <3>2, <3>3 DEF ChatTyped, MocksGoRight, ChatInv
    <3>5. TurnGoesRight(r)'
      BY <2>1, <3>1, <3>3 DEF TurnGoesRight
    <3> QED BY <2>1, <3>1, <3>2, <3>3, <3>4, <3>5, OneTurnStep
  <2> QED BY <1>7, <2>2, <2>3, <2>4 DEF UseTool
<1>8. ASSUME NEW r \in Turns, ToolReturns(r) PROVE ChatInv'
  <2>1. /\ turnStage[r] = "calling" /\ turnKind[r] # "execute" /\ Result(r)
        /\ UNCHANGED <<session, turnKind, loopDone>> /\ UNCHANGED mockVars
    BY <1>8 DEF ToolReturns
  <2>2. LastGoesOn(turns[r], todo[r]) /\ todo[r] \in Seq(ToolNames)
    BY <2>1 DEF ChatInv, ChatTyped, TurnGoesRight
  <2>3. PICK t \in ToolNames : t = Head(todo[r])
    BY <2>2, EmptySeq, HeadTailProperties DEF LastGoesOn
  <2> QED BY <2>1, <2>3, ResultGoesRight
<1>9. ASSUME NEW r \in Turns, NoteLoopDone(r) PROVE ChatInv'
  <2>1. /\ turnStage[r] = "settled" /\ turnStage' = [turnStage EXCEPT ![r] = "ended"]
        /\ loopDone' = [loopDone EXCEPT ![r] = TRUE]
        /\ UNCHANGED <<session, turnKind, todo, turns, buffer, count, served, exhausted>>
    BY <1>9 DEF NoteLoopDone, mockVars
  <2>2. PICK wakes \in {"none", "awake", "asleep", "ended"} :
           /\ consumer' = [consumer EXCEPT ![r] = wakes]
           /\ wakes = IF consumer[r] = "asleep" THEN "awake" ELSE consumer[r]
    BY <1>9 DEF NoteLoopDone, WokenAtEnd, Woken, ChatInv, ChatTyped
  <2>3. \A q \in Turns : /\ turnStage'[q] = IF q = r THEN "ended" ELSE turnStage[q]
                         /\ loopDone'[q] = IF q = r THEN TRUE ELSE loopDone[q]
                         /\ consumer'[q] = IF q = r THEN wakes ELSE consumer[q]
    BY <2>1, <2>2 DEF ChatInv, ChatTyped
  <2>4. ChatTyped' /\ MocksGoRight'
    BY <2>1, <2>2, <2>3 DEF ChatTyped, MocksGoRight, ChatInv
  <2>5. TurnGoesRight(r)' /\ StreamGoesRight(r)'
    <3>1. TurnGoesRight(r)'
      BY <2>1, <2>3 DEF TurnGoesRight, ChatInv
    <3>2. StreamGoesRight(r)'
      BY <2>1, <2>2, <2>3 DEF StreamGoesRight, ChatInv
    <3> QED BY <3>1, <3>2
  <2> QED BY <2>1, <2>3, <2>4, <2>5, OneTurnStep
<1>10. ASSUME NEW r \in Turns, Consume(r) PROVE ChatInv'
  <2>1. consumer[r] = "awake" /\ UNCHANGED <<session, turnKind, turnStage, todo, turns, loopDone, count, served, exhausted>>
    BY <1>10 DEF Consume, mockVars
  <2>2. PICK now \in {"none", "awake", "asleep", "ended"}, others \in BOOLEAN :
           /\ consumer' = [consumer EXCEPT ![r] = now] /\ buffer' = [buffer EXCEPT ![r] = others]
           /\ buffer[r] => now = "awake"
           /\ ~buffer[r] => ~others /\ now = IF loopDone[r] THEN "ended" ELSE "asleep"
    <3>1. CASE buffer[r]
      BY <1>10, <2>1, <3>1 DEF Consume, ChatInv, ChatTyped
    <3>2. CASE ~buffer[r]
      BY <1>10, <3>2 DEF Consume, ChatInv, ChatTyped
    <3> QED BY <3>1, <3>2
  <2>3. \A q \in Turns : /\ consumer'[q] = IF q = r THEN now ELSE consumer[q]
                         /\ buffer'[q] = IF q = r THEN others ELSE buffer[q]
    BY <2>2 DEF ChatInv, ChatTyped
  <2>4. ChatTyped' /\ MocksGoRight'
    BY <2>1, <2>2 DEF ChatTyped, MocksGoRight, ChatInv
  <2>5. TurnGoesRight(r)' /\ StreamGoesRight(r)'
    <3>1. TurnGoesRight(r)'
      BY <2>1, <2>3 DEF TurnGoesRight, ChatInv
    <3>2. StreamGoesRight(r)'
      BY <2>1, <2>2, <2>3 DEF StreamGoesRight, ChatInv
    <3> QED BY <3>1, <3>2
  <2> QED BY <2>1, <2>3, <2>4, <2>5, OneTurnStep
<1>11. CASE UNCHANGED chatVars
  BY <1>11 DEF chatVars, mockVars, ChatInv, ChatTyped, MocksGoRight, TurnGoesRight, StreamGoesRight
<1> QED
  BY <1>1, <1>2, <1>3, <1>4, <1>5, <1>6, <1>7, <1>8, <1>9, <1>10, <1>11 DEF ChatNext

\* ChatInv holds in every state.
LEMMA ChatInvariant == ChatSpec => []ChatInv
<1>1. ChatInit => ChatInv
  <2> SUFFICES ASSUME ChatInit PROVE ChatInv
    OBVIOUS
  <2>1. ChatTyped
    BY DEF ChatInit, ChatTyped
  <2>2. MocksGoRight
    BY DEF ChatInit, MocksGoRight, CountTo
  <2>3. \A r \in Turns : TurnGoesRight(r) /\ StreamGoesRight(r)
    BY DEF ChatInit, TurnGoesRight, StreamGoesRight
  <2> QED BY <2>1, <2>2, <2>3 DEF ChatInv
<1> QED BY <1>1, ChatStep, PTL DEF ChatSpec

\* What a session answers, for any requests, tools and mocks: each entry of a mock once
\* and in order, a result for every tool the model used before it is asked again, and a
\* stream whose consumer sleeps only while its loop is to wake it: chat-loop/index.ts,
\* sessions/mocks.ts and mock-dispatch.ts.
THEOREM SessionsAnswer == ChatSpec => []SessionAnswers
<1>1. ChatInv => SessionAnswers
  <2> SUFFICES ASSUME ChatInv PROVE SessionAnswers
    OBVIOUS
  <2>1. MocksInOrder
    <3>1. \A t \in ToolNames : served[t] = CountTo(count[t]) /\ Len(served[t]) = count[t]
      BY CountGoesOn DEF ChatInv, MocksGoRight, ChatTyped
    <3>2. \A t \in exhausted : t \in ToolNames /\ count[t] = session.mocks[t].length
      BY DEF ChatInv, MocksGoRight, ChatTyped
    <3> QED BY <3>1, <3>2 DEF MocksInOrder, CountTo, ChatInv, MocksGoRight
  <2>2. TurnsArePaired
    <3> SUFFICES ASSUME NEW r \in Turns, NEW i \in DOMAIN turns[r],
                        i < Len(turns[r]) \/ turnStage[r] = "asking"
                 PROVE  turns[r][i].results = [n \in 1..turns[r][i].uses |-> n]
      BY DEF TurnsArePaired
    <3>1. PICK sent \in Seq(TurnRecord), k \in Nat : sent = turns[r] /\ k = Len(sent)
      BY DEF ChatInv, ChatTyped
    <3>2. i \in 1..k
      BY <3>1
    <3>3. \/ AreFull(sent, k)
          \/ AreFull(sent, k - 1) /\ turnStage[r] # "asking"
      <4>1. sent # <<>>
        BY <3>1, <3>2
      <4> QED BY <3>1, <4>1 DEF ChatInv, ChatTyped, TurnGoesRight, LastGoesOn
    <3>4. sent[i].results = CountTo(sent[i].uses)
      BY <3>1, <3>2, <3>3 DEF AreFull
    <3> QED BY <3>1, <3>4 DEF CountTo
  <2>3. StreamsWake
    BY DEF ChatInv, StreamGoesRight, StreamsWake
  <2> QED BY <2>1, <2>2, <2>3 DEF SessionAnswers
<1> QED BY <1>1, ChatInvariant, PTL

-----------------------------------------------------------------------------
(* A2ATasks.                                                               *)

SubmitsCopy(r, i) == Submits(r, i) /\ copies[r] > 0

\* Requests are on their way once, from a call that was made.
WireFollowsCalls ==
    /\ \A r \in A2ACalls, n \in 0..Retries : <<r, n>> \in wire => operation[r] # None /\ n <= attempt[r]
    /\ \A r \in A2ACalls : copies[r] > 0 => operation[r] # None /\ (attempt[r] = 0 => <<r, 0>> \notin wire)
    /\ \A r \in A2ACalls : operation[r] = None => attempt[r] = 0 /\ reply[r] = None /\ outcome[r] = None

\* A task in the store was made, by a call that submits it and is one too many only if
\* the server was restarted.
StoreFollowsCopies ==
    /\ \A i \in TaskIds : taskStore[i] # None => i \in madeFor
    /\ \A i \in madeFor : \E q \in A2ACalls : SubmitsCopy(q, i)
    /\ \A r \in A2ACalls, i \in TaskIds :
          /\ SubmitsCopy(r, i) /\ restarts = 0 => taskStore[i] # None
          /\ Submits(r, i) => copies[r] <= restarts + 1 /\ (taskStore[i] = None => copies[r] <= restarts)
    /\ \A i \in TaskIds, q, r \in A2ACalls : restarts = 0 /\ SubmitsCopy(q, i) /\ SubmitsCopy(r, i) => q = r

\* A submit that was told that its id exists.
ExistsIsTrue(r, i) ==
    Submits(r, i) /\ "exists" \in {reply[r], outcome[r]} =>
       /\ i \in madeFor
       /\ (\A q \in A2ACalls \ {r} : ~Submits(q, i)) => copies[r] > 0 /\ attempt[r] > 0

A2ATyped ==
    /\ taskStore \in [TaskIds -> {None, "working", "cancelled"}]
    /\ restarts \in 0..MaxRestarts
    /\ operation \in [A2ACalls -> Operations \union {None}]
    /\ attempt \in [A2ACalls -> 0..Retries]
    /\ reply \in [A2ACalls -> Answers \union {None}]
    /\ outcome \in [A2ACalls -> Answers \union {"failed", None}]
    /\ wire \subseteq A2ACalls \X (0..Retries)
    /\ copies \in [A2ACalls -> Nat]
    /\ madeFor \subseteq TaskIds /\ cancelled \subseteq TaskIds

A2AInv ==
    /\ A2ATyped /\ WireFollowsCalls /\ StoreFollowsCopies
    /\ \A i \in cancelled : taskStore[i] = "cancelled"
    /\ \A r \in A2ACalls, i \in TaskIds : ExistsIsTrue(r, i)

\* What a call was told stays true.
LEMMA ToldStaysTrue ==
    ASSUME A2AInv, NEW r \in A2ACalls, NEW i \in TaskIds,
           \A q \in A2ACalls : operation[q] # None => operation'[q] = operation[q],
           madeFor \subseteq madeFor', copies[r] > 0 => copies'[r] > 0, attempt[r] > 0 => attempt'[r] > 0,
           "exists" \in {reply'[r], outcome'[r]} => "exists" \in {reply[r], outcome[r]}
    PROVE  ExistsIsTrue(r, i)'
<1> SUFFICES ASSUME Submits(r, i)', "exists" \in {reply'[r], outcome'[r]}
             PROVE  /\ i \in madeFor'
                    /\ (\A q \in A2ACalls \ {r} : ~Submits(q, i)') => copies'[r] > 0 /\ attempt'[r] > 0
  BY DEF ExistsIsTrue
<1>1. \A q \in A2ACalls : Submits(q, i) => Submits(q, i)'
  BY TasksAssumption DEF Submits, A2AInv, A2ATyped, Operations
<1>2. operation[r] # None
  BY TasksAssumption DEF A2AInv, WireFollowsCalls, Answers
<1>3. Submits(r, i)
  BY <1>2 DEF Submits
<1> QED BY <1>1, <1>3 DEF A2AInv, ExistsIsTrue

\* A call is made: its request is sent.
LEMMA CallTaskStep ==
    ASSUME A2AInv, NEW r \in A2ACalls, NEW op \in Operations, CallTask(r, op)
    PROVE  A2AInv'
<1>1. /\ operation' = [operation EXCEPT ![r] = op] /\ wire' = wire \union {<<r, 0>>} /\ operation[r] = None
      /\ UNCHANGED <<taskStore, restarts, attempt, reply, outcome, copies, madeFor, cancelled>>
  BY DEF CallTask, serverVars, taskHistory
<1>2. /\ \A q \in A2ACalls : operation'[q] = IF q = r THEN op ELSE operation[q]
      /\ op # None
  BY <1>1, TasksAssumption DEF A2AInv, A2ATyped
<1>3. A2ATyped'
  BY <1>1, RetriesAssumption DEF A2AInv, A2ATyped
<1>4. attempt[r] = 0 /\ copies[r] = 0
  <2>1. ~(copies[r] > 0) /\ copies[r] \in Nat
    BY <1>1 DEF A2AInv, A2ATyped, WireFollowsCalls
  <2> QED BY <1>1, <2>1, RetriesAssumption DEF A2AInv, WireFollowsCalls
<1>5. WireFollowsCalls'
  BY <1>1, <1>2, <1>4 DEF A2AInv, WireFollowsCalls
<1>6. StoreFollowsCopies'
  <2>1. \A q \in A2ACalls, i \in TaskIds : SubmitsCopy(q, i)' = SubmitsCopy(q, i)
    BY <1>1, <1>2, <1>4 DEF SubmitsCopy, Submits
  <2>2. restarts \in Nat
    BY DEF A2AInv, A2ATyped
  <2>3. \A q \in A2ACalls, i \in TaskIds : Submits(q, i)' => Submits(q, i) \/ q = r
    BY <1>2 DEF Submits
  <2>4. \A i \in TaskIds, q \in A2ACalls :
           Submits(q, i)' => copies'[q] <= restarts + 1 /\ (taskStore[i] = None => copies'[q] <= restarts)
    BY <1>1, <1>4, <2>2, <2>3 DEF A2AInv, StoreFollowsCopies
  <2>5. \A i \in madeFor : \E q \in A2ACalls : SubmitsCopy(q, i)'
    BY <2>1 DEF A2AInv, StoreFollowsCopies, A2ATyped
  <2> QED BY <1>1, <2>1, <2>4, <2>5 DEF A2AInv, StoreFollowsCopies
<1>7. \A q \in A2ACalls, i \in TaskIds : ExistsIsTrue(q, i)'
  BY <1>1, <1>2, ToldStaysTrue
<1> QED BY <1>1, <1>3, <1>5, <1>6, <1>7 DEF A2AInv

\* An attempt fails: the request is sent again, or the call with it.
LEMMA AttemptFailsStep ==
    ASSUME A2AInv, NEW r \in A2ACalls, AttemptFails(r)
    PROVE  A2AInv'
<1>1. /\ UNCHANGED <<taskStore, restarts, operation, reply, copies, madeFor, cancelled>>
      /\ operation[r] # None
  BY DEF AttemptFails, Pending, serverVars, taskHistory
<1>2. PICK n \in 0..Retries : n = attempt[r]
  BY DEF A2AInv, A2ATyped
<1>3. CASE n < Retries
  <2>1. attempt' = [attempt EXCEPT ![r] = n + 1] /\ wire' = wire \union {<<r, n + 1>>} /\ UNCHANGED outcome
    BY <1>2, <1>3 DEF AttemptFails, A2AInv, A2ATyped
  <2>2. n + 1 \in 0..Retries /\ n + 1 > 0
    BY <1>3, RetriesAssumption
  <2>3. A2ATyped' /\ \A q \in A2ACalls : attempt'[q] = IF q = r THEN n + 1 ELSE attempt[q]
    BY <1>1, <2>1, <2>2 DEF A2AInv, A2ATyped
  <2>4. WireFollowsCalls'
    <3>1. \A q \in A2ACalls, k \in 0..Retries :
             <<q, k>> \in wire' => operation'[q] # None /\ k <= attempt'[q]
      BY <1>1, <1>2, <2>1, <2>3, RetriesAssumption DEF A2AInv, WireFollowsCalls
    <3>2. \A q \in A2ACalls : copies'[q] > 0 => operation'[q] # None /\ (attempt'[q] = 0 => <<q, 0>> \notin wire')
      BY <1>1, <2>1, <2>2, <2>3 DEF A2AInv, WireFollowsCalls
    <3>3. \A q \in A2ACalls : operation'[q] = None => attempt'[q] = 0 /\ reply'[q] = None /\ outcome'[q] = None
      BY <1>1, <2>1, <2>3 DEF A2AInv, WireFollowsCalls
    <3> QED BY <3>1, <3>2, <3>3 DEF WireFollowsCalls
  <2>5. StoreFollowsCopies'
    BY <1>1 DEF A2AInv, StoreFollowsCopies, SubmitsCopy, Submits
  <2>6. \A q \in A2ACalls, i \in TaskIds : ExistsIsTrue(q, i)'
    BY <1>1, <2>1, <2>2, <2>3, ToldStaysTrue
  <2> QED BY <1>1, <2>3, <2>4, <2>5, <2>6 DEF A2AInv
<1>4. CASE ~(n < Retries)
  <2>1. outcome' = [outcome EXCEPT ![r] = "failed"] /\ UNCHANGED <<attempt, wire>>
    BY <1>2, <1>4 DEF AttemptFails
  <2>2. A2ATyped' /\ \A q \in A2ACalls : outcome'[q] = IF q = r THEN "failed" ELSE outcome[q]
    BY <1>1, <2>1 DEF A2AInv, A2ATyped
  <2>3. WireFollowsCalls'
    BY <1>1, <2>1, <2>2 DEF A2AInv, WireFollowsCalls
  <2>4. StoreFollowsCopies'
    BY <1>1 DEF A2AInv, StoreFollowsCopies, SubmitsCopy, Submits
  <2>5. \A q \in A2ACalls, i \in TaskIds : ExistsIsTrue(q, i)'
    BY <1>1, <2>1, <2>2, ToldStaysTrue
  <2> QED BY <1>1, <2>2, <2>3, <2>4, <2>5 DEF A2AInv
<1> QED BY <1>3, <1>4

\* The answer is returned.
LEMMA AnsweredStep ==
    ASSUME A2AInv, NEW r \in A2ACalls, Answered(r)
    PROVE  A2AInv'
<1>1. /\ outcome' = [outcome EXCEPT ![r] = reply[r]] /\ operation[r] # None /\ reply[r] # None
      /\ UNCHANGED <<taskStore, restarts, operation, attempt, reply, wire, copies, madeFor, cancelled>>
  BY DEF Answered, Pending, serverVars, taskHistory
<1>2. A2ATyped' /\ \A q \in A2ACalls : outcome'[q] = IF q = r THEN reply[q] ELSE outcome[q]
  BY <1>1 DEF A2AInv, A2ATyped
<1>3. WireFollowsCalls' /\ StoreFollowsCopies'
  BY <1>1, <1>2 DEF A2AInv, WireFollowsCalls, StoreFollowsCopies, SubmitsCopy, Submits
<1>4. \A q \in A2ACalls, i \in TaskIds : ExistsIsTrue(q, i)'
  BY <1>1, <1>2, ToldStaysTrue
<1> QED BY <1>1, <1>2, <1>3, <1>4 DEF A2AInv

\* Requests are lost, and the tasks with the server.
LEMMA LossStep ==
    ASSUME A2AInv, (\E m \in wire : LoseRequest(m)) \/ RestartServer
    PROVE  A2AInv'
<1>1. /\ wire' \subseteq wire
      /\ UNCHANGED <<operation, attempt, reply, outcome, copies, madeFor>>
  BY DEF LoseRequest, RestartServer, clientVars, taskHistory
<1>2. WireFollowsCalls'
  BY <1>1 DEF A2AInv, WireFollowsCalls
<1>3. \A q \in A2ACalls, i \in TaskIds : ExistsIsTrue(q, i)'
  BY <1>1, ToldStaysTrue
<1>4. CASE \E m \in wire : LoseRequest(m)
  <2>1. UNCHANGED <<taskStore, restarts, cancelled>>
    BY <1>4 DEF LoseRequest, serverVars, taskHistory
  <2> QED BY <1>1, <1>2, <1>3, <2>1 DEF A2AInv, A2ATyped, StoreFollowsCopies, SubmitsCopy, Submits
<1>5. CASE RestartServer
  <2>1. /\ restarts' = restarts + 1 /\ restarts < MaxRestarts /\ taskStore' = [i \in TaskIds |-> None]
        /\ cancelled' = {}
    BY <1>5 DEF RestartServer
  <2>2. restarts \in Nat /\ restarts' # 0
    BY <2>1, RetriesAssumption DEF A2AInv, A2ATyped
  <2>3. A2ATyped'
    BY <1>1, <2>1, <2>2, RetriesAssumption DEF A2AInv, A2ATyped
  <2>4. \A q \in A2ACalls : copies[q] \in Nat
    BY RetriesAssumption DEF A2AInv, A2ATyped
  <2>5. StoreFollowsCopies'
    <3>1. \A i \in TaskIds : taskStore'[i] = None
      BY <2>1
    <3>2. \A q \in A2ACalls, i \in TaskIds : SubmitsCopy(q, i)' = SubmitsCopy(q, i) /\ Submits(q, i)' = Submits(q, i)
      BY <1>1 DEF SubmitsCopy, Submits
    <3>3. \A i \in madeFor' : \E q \in A2ACalls : SubmitsCopy(q, i)'
      BY <1>1, <3>2 DEF A2AInv, A2ATyped, StoreFollowsCopies
    <3>4. \A q \in A2ACalls, i \in TaskIds : Submits(q, i) => copies[q] <= restarts + 1
      BY DEF A2AInv, StoreFollowsCopies
    <3>5. \A q \in A2ACalls, i \in TaskIds :
             Submits(q, i)' => copies'[q] <= restarts' + 1 /\ copies'[q] <= restarts'
      BY <1>1, <2>1, <2>2, <2>4, <3>2, <3>4
    <3> QED BY <2>2, <3>1, <3>3, <3>5 DEF StoreFollowsCopies
  <2> QED BY <1>2, <1>3, <2>1, <2>3, <2>5 DEF A2AInv
<1> QED BY <1>4, <1>5

\* The server takes a request, and its reply arrives or not.
LEMMA RouteStep ==
    ASSUME A2AInv, NEW m \in wire, NEW arrives \in BOOLEAN, Route(m, arrives)
    PROVE  A2AInv'
<1>1. PICK r \in A2ACalls, n \in 0..Retries : m = <<r, n>> /\ operation[r] # None /\ n <= attempt[r]
  BY DEF A2AInv, A2ATyped, WireFollowsCalls
<1>2. PICK op \in {"submit", "poll", "cancel"}, i \in TaskIds \union {None} :
         operation[r] = <<op, i>> /\ (i = None => op = "submit")
  BY <1>1, TasksAssumption DEF A2AInv, A2ATyped, Operations
<1>3. PICK made \in {0, 1}, code \in Answers :
         /\ (made = 1) = (op = "submit" /\ (i = None \/ ~Duplicate(i)))
         /\ code = IF i = None THEN "working" ELSE AnswerTo(op, i)
  <2>1. (IF i = None THEN "working" ELSE AnswerTo(op, i)) \in Answers
    BY <1>2 DEF AnswerTo, Answers, A2AInv, A2ATyped, Duplicate
  <2> QED BY <2>1
<1>4. /\ wire' = wire \ {<<r, n>>}
      /\ arrives => Pending(r) /\ attempt[r] = n /\ reply[r] = None
      /\ reply' = IF arrives THEN [reply EXCEPT ![r] = code] ELSE reply
      /\ taskStore' = IF i = None THEN taskStore ELSE [taskStore EXCEPT ![i] = StatusAfter(op, i)]
      /\ copies' = IF made = 1 THEN [copies EXCEPT ![r] = copies[r] + 1] ELSE copies
      /\ madeFor' = IF made = 1 THEN madeFor \union ({i} \ {None}) ELSE madeFor
      /\ cancelled' = IF op = "cancel" /\ code = "cancelled" THEN cancelled \union {i} ELSE cancelled
      /\ UNCHANGED <<restarts, operation, attempt, outcome>>
  <2>1. m[1] = r /\ m[2] = n /\ operation[m[1]][1] = op /\ operation[m[1]][2] = i
    BY <1>1, <1>2
  <2>2. (operation[m[1]][1] = "submit" /\ (operation[m[1]][2] = None \/ ~Duplicate(operation[m[1]][2]))) = (made = 1)
    BY <1>3, <2>1
  <2>3. (IF operation[m[1]][2] = None THEN "working" ELSE AnswerTo(operation[m[1]][1], operation[m[1]][2])) = code
    BY <1>3, <2>1
  <2>4. wire' = wire \ {<<r, n>>} /\ UNCHANGED <<restarts, operation, attempt, outcome>>
    BY <1>1 DEF Route
  <2>5. /\ arrives => Pending(r) /\ attempt[r] = n /\ reply[r] = None
        /\ reply' = IF arrives THEN [reply EXCEPT ![r] = code] ELSE reply
    BY <2>1, <2>3 DEF Route
  <2>6. taskStore' = IF i = None THEN taskStore ELSE [taskStore EXCEPT ![i] = StatusAfter(op, i)]
    BY <2>1 DEF Route
  <2>7. copies' = IF made = 1 THEN [copies EXCEPT ![r] = copies[r] + 1] ELSE copies
    BY <2>1, <2>2 DEF Route
  <2>8. madeFor' = IF made = 1 THEN madeFor \union ({i} \ {None}) ELSE madeFor
    BY <2>1, <2>2 DEF Route
  <2>9. cancelled' = IF op = "cancel" /\ code = "cancelled" THEN cancelled \union {i} ELSE cancelled
    BY <2>1, <2>3 DEF Route
  <2> QED BY <2>4, <2>5, <2>6, <2>7, <2>8, <2>9
<1>5. i \in TaskIds =>
         /\ StatusAfter(op, i) \in {None, "working", "cancelled"}
         /\ StatusAfter(op, i) = IF made = 1 THEN "working" ELSE IF op = "cancel" /\ code = "cancelled" THEN "cancelled" ELSE taskStore[i]
         /\ code = "exists" => op = "submit" /\ taskStore[i] # None
         /\ made = 1 => taskStore[i] = None
         /\ code = "cancelled" /\ op = "cancel" => taskStore[i] = "working"
  BY <1>2, <1>3, TasksAssumption DEF StatusAfter, AnswerTo, Duplicate, A2AInv, A2ATyped, Answers
<1>6. /\ \A q \in A2ACalls : copies'[q] = IF q = r /\ made = 1 THEN copies[r] + 1 ELSE copies[q]
      /\ \A q \in A2ACalls : reply'[q] = IF q = r /\ arrives THEN code ELSE reply[q]
      /\ \A q \in A2ACalls : copies[q] \in Nat
      /\ \A j \in TaskIds : taskStore'[j] = IF j = i THEN StatusAfter(op, i) ELSE taskStore[j]
  <2>1. \A q \in A2ACalls : copies'[q] = IF q = r /\ made = 1 THEN copies[r] + 1 ELSE copies[q]
    BY <1>4 DEF A2AInv, A2ATyped
  <2>2. \A q \in A2ACalls : reply'[q] = IF q = r /\ arrives THEN code ELSE reply[q]
    BY <1>4 DEF A2AInv, A2ATyped
  <2>3. \A q \in A2ACalls : copies[q] \in Nat
    BY DEF A2AInv, A2ATyped
  <2>4. PICK after : after = StatusAfter(op, i)
    OBVIOUS
  <2>5. \A j \in TaskIds : j # None
    BY TasksAssumption
  <2>6. \A j \in TaskIds : taskStore'[j] = IF j = i THEN after ELSE taskStore[j]
    BY <1>4, <2>4, <2>5 DEF A2AInv, A2ATyped
  <2> QED BY <2>1, <2>2, <2>3, <2>4, <2>6
<1>7. A2ATyped'
  BY <1>3, <1>4, <1>5, <1>6, TasksAssumption DEF A2AInv, A2ATyped
<1>8. WireFollowsCalls'
  <2>1. \A q \in A2ACalls, k \in 0..Retries : <<q, k>> \in wire' => operation'[q] # None /\ k <= attempt'[q]
    BY <1>4 DEF A2AInv, WireFollowsCalls
  <2>2. attempt[r] = 0 => n = 0
    BY <1>1
  <2>3. \A q \in A2ACalls : copies'[q] > 0 => operation'[q] # None /\ (attempt'[q] = 0 => <<q, 0>> \notin wire')
    BY <1>1, <1>4, <1>6, <2>2 DEF A2AInv, WireFollowsCalls
  <2>4. \A q \in A2ACalls : operation'[q] = None => attempt'[q] = 0 /\ reply'[q] = None /\ outcome'[q] = None
    BY <1>1, <1>4, <1>6 DEF A2AInv, WireFollowsCalls
  <2> QED BY <2>1, <2>3, <2>4 DEF WireFollowsCalls
<1>9. \A q \in A2ACalls, j \in TaskIds :
         /\ Submits(q, j)' = Submits(q, j)
         /\ Submits(r, j) => j = i /\ op = "submit"
         /\ SubmitsCopy(q, j)' <=> SubmitsCopy(q, j) \/ (q = r /\ j = i /\ made = 1)
  <2>1. \A q \in A2ACalls, j \in TaskIds : Submits(q, j)' = Submits(q, j)
    BY <1>4 DEF Submits
  <2>2. \A j \in TaskIds : Submits(r, j) => j = i /\ op = "submit"
    BY <1>2 DEF Submits
  <2>3. op = "submit" => Submits(r, i)
    BY <1>2 DEF Submits
  <2>4. made = 1 => op = "submit"
    BY <1>3
  <2>5. ASSUME NEW q \in A2ACalls, NEW j \in TaskIds
        PROVE  SubmitsCopy(q, j)' <=> SubmitsCopy(q, j) \/ (q = r /\ j = i /\ made = 1)
    <3>1. SubmitsCopy(q, j)' <=> Submits(q, j) /\ copies'[q] > 0
      BY <2>1 DEF SubmitsCopy
    <3>2. SubmitsCopy(q, j) <=> Submits(q, j) /\ copies[q] > 0
      BY DEF SubmitsCopy
    <3>3. q = r /\ made = 1 => copies'[q] > 0
      BY <1>6
    <3>4. ~(q = r /\ made = 1) => copies'[q] = copies[q]
      BY <1>6
    <3>5. q = r /\ made = 1 /\ Submits(q, j) => j = i
      BY <2>2
    <3>6. q = r /\ j = i /\ made = 1 => Submits(q, j)
      BY <2>3, <2>4
    <3> QED BY <3>1, <3>2, <3>3, <3>4, <3>5, <3>6
  <2> QED BY <2>1, <2>2, <2>5
<1>10. StoreFollowsCopies'
  <2>1. \A j \in TaskIds : taskStore'[j] # None => j \in madeFor'
    <3>1. \A j \in TaskIds : taskStore[j] # None => j \in madeFor
      BY DEF A2AInv, StoreFollowsCopies
    <3>2. i \in TaskIds /\ made = 1 => i \in madeFor'
      BY <1>4, TasksAssumption
    <3>3. i \in TaskIds /\ made # 1 /\ StatusAfter(op, i) # None => taskStore[i] # None
      BY <1>5, TasksAssumption DEF Answers
    <3>4. madeFor \subseteq madeFor'
      BY <1>4
    <3> QED BY <1>6, <3>1, <3>2, <3>3, <3>4
  <2>2. \A j \in madeFor' : \E q \in A2ACalls : SubmitsCopy(q, j)'
    <3>1. \A j \in madeFor' : j \in TaskIds /\ (j \in madeFor \/ (made = 1 /\ j = i))
      BY <1>4, <1>7 DEF A2ATyped
    <3> QED BY <1>9, <3>1 DEF A2AInv, StoreFollowsCopies
  <2>3. \A j \in TaskIds : taskStore[j] # None => taskStore'[j] # None
    BY <1>5, <1>6, TasksAssumption DEF Answers, A2AInv, A2ATyped
  <2>4. ASSUME NEW q \in A2ACalls, NEW j \in TaskIds
        PROVE  /\ SubmitsCopy(q, j)' /\ restarts' = 0 => taskStore'[j] # None
               /\ Submits(q, j)' => copies'[q] <= restarts' + 1 /\ (taskStore'[j] = None => copies'[q] <= restarts')
    <3>1. restarts \in Nat /\ restarts' = restarts
      BY <1>4 DEF A2AInv, A2ATyped
    <3>2. CASE q = r /\ j = i /\ made = 1
      <4>1. taskStore[j] = None /\ taskStore'[j] = "working" /\ "working" # None
        BY <1>5, <1>6, <3>2, TasksAssumption DEF Answers
      <4>2. Submits(q, j)' => copies[q] <= restarts
        BY <1>9, <4>1 DEF A2AInv, StoreFollowsCopies
      <4>3. copies'[q] = copies[q] + 1 /\ copies[q] \in Nat
        BY <1>6, <3>2
      <4>4. Submits(q, j)' => copies'[q] <= restarts' + 1
        BY <3>1, <4>2, <4>3
      <4> QED BY <4>1, <4>4
    <3>3. CASE ~(q = r /\ j = i /\ made = 1)
      <4>1. Submits(q, j) => copies'[q] = copies[q]
        BY <1>6, <1>9, <3>3
      <4>2. /\ SubmitsCopy(q, j) /\ restarts = 0 => taskStore[j] # None
            /\ Submits(q, j) => copies[q] <= restarts + 1 /\ (taskStore[j] = None => copies[q] <= restarts)
        BY DEF A2AInv, StoreFollowsCopies
      <4>3. (SubmitsCopy(q, j)' => SubmitsCopy(q, j)) /\ (Submits(q, j)' => Submits(q, j))
        BY <1>9, <3>3
      <4>4. SubmitsCopy(q, j)' /\ restarts' = 0 => taskStore'[j] # None
        BY <2>3, <3>1, <4>2, <4>3
      <4>5. Submits(q, j)' => copies'[q] <= restarts' + 1
        BY <3>1, <4>1, <4>2, <4>3
      <4>6. Submits(q, j)' /\ taskStore'[j] = None => copies'[q] <= restarts'
        BY <2>3, <3>1, <4>1, <4>2, <4>3
      <4> QED BY <4>4, <4>5, <4>6
    <3> QED BY <3>2, <3>3
  <2>5. ASSUME NEW j \in TaskIds, NEW p \in A2ACalls, NEW q \in A2ACalls,
               restarts' = 0, SubmitsCopy(p, j)', SubmitsCopy(q, j)'
        PROVE  p = q
    <3>1. made = 1 /\ j = i => \A x \in A2ACalls : ~SubmitsCopy(x, j)
      BY <1>4, <1>5, <2>5 DEF A2AInv, StoreFollowsCopies
    <3> QED BY <1>4, <1>9, <2>5, <3>1 DEF A2AInv, StoreFollowsCopies
  <2> QED BY <2>1, <2>2, <2>4, <2>5 DEF StoreFollowsCopies
<1>11. \A j \in cancelled' : taskStore'[j] = "cancelled"
  BY <1>2, <1>4, <1>5, <1>6, TasksAssumption DEF A2AInv, A2ATyped, Answers
<1>12. ASSUME NEW q \in A2ACalls, NEW j \in TaskIds PROVE ExistsIsTrue(q, j)'
  <2>1. CASE "exists" \in {reply'[q], outcome'[q]} => "exists" \in {reply[q], outcome[q]}
    <3>1. madeFor \subseteq madeFor' /\ (copies[q] > 0 => copies'[q] > 0)
      BY <1>4, <1>6
    <3>2. operation' = operation /\ attempt' = attempt
      BY <1>4
    <3>3. /\ copies[q] > 0 => copies'[q] > 0
          /\ attempt[q] > 0 => attempt'[q] > 0
          /\ \A p \in A2ACalls : operation[p] # None => operation'[p] = operation[p]
      BY <3>1, <3>2
    <3>4. ("exists" \in {reply'[q], outcome'[q]}) => ("exists" \in {reply[q], outcome[q]})
      BY <2>1
    <3> QED BY <3>1, <3>3, <3>4, ToldStaysTrue
  <2>2. CASE ~("exists" \in {reply'[q], outcome'[q]} => "exists" \in {reply[q], outcome[q]})
    <3>1. q = r /\ arrives /\ code = "exists"
      BY <1>4, <1>6, <2>2
    <3>2. SUFFICES ASSUME Submits(r, j)
                   PROVE  /\ j \in madeFor'
                          /\ (\A p \in A2ACalls \ {r} : ~Submits(p, j)) => copies'[r] > 0 /\ attempt'[r] > 0
      BY <1>9, <3>1 DEF ExistsIsTrue
    <3>3. j = i /\ taskStore[j] # None /\ made # 1
      BY <1>3, <1>5, <1>9, <3>1, <3>2
    <3>4. j \in madeFor /\ \E p \in A2ACalls : SubmitsCopy(p, j)
      BY <3>3 DEF A2AInv, StoreFollowsCopies
    <3>5. (\A p \in A2ACalls \ {r} : ~Submits(p, j)) => copies[r] > 0
      BY <3>4 DEF SubmitsCopy
    <3>6. copies[r] > 0 => attempt[r] # 0
      <4>1. m = <<r, attempt[r]>> /\ m \in wire
        BY <1>1, <1>4, <3>1
      <4> QED BY <4>1 DEF A2AInv, WireFollowsCalls
    <3>7. attempt[r] \in Nat
      BY DEF A2AInv, A2ATyped
    <3> QED BY <1>4, <1>6, <3>3, <3>4, <3>5, <3>6, <3>7
  <2> QED BY <2>1, <2>2
<1> QED BY <1>7, <1>8, <1>10, <1>11, <1>12 DEF A2AInv

\* A2AInv holds in every state.
LEMMA A2AInvariant == A2ASpec => []A2AInv
<1>1. A2AInit => A2AInv
  <2> SUFFICES ASSUME A2AInit PROVE A2AInv
    OBVIOUS
  <2>1. A2ATyped
    BY RetriesAssumption DEF A2AInit, A2ATyped
  <2>2. WireFollowsCalls
    BY DEF A2AInit, WireFollowsCalls
  <2>3. \A r \in A2ACalls, i \in TaskIds : ~Submits(r, i)
    BY TasksAssumption DEF A2AInit, Submits, Operations
  <2>4. StoreFollowsCopies
    BY <2>3 DEF A2AInit, StoreFollowsCopies, SubmitsCopy
  <2> QED BY <2>1, <2>2, <2>3, <2>4 DEF A2AInit, A2AInv, ExistsIsTrue
<1>2. A2AInv /\ [A2ANext]_a2aVars => A2AInv'
  <2>1. ASSUME A2AInv, UNCHANGED a2aVars PROVE A2AInv'
    <3>1. UNCHANGED <<taskStore, restarts, operation, attempt, reply, outcome, wire, copies, madeFor, cancelled>>
      BY <2>1 DEF a2aVars, serverVars, clientVars, taskHistory
    <3>2. A2ATyped' = A2ATyped
      BY <3>1 DEF A2ATyped
    <3>3. WireFollowsCalls' = WireFollowsCalls
      BY <3>1 DEF WireFollowsCalls
    <3>4. StoreFollowsCopies' = StoreFollowsCopies
      BY <3>1 DEF StoreFollowsCopies, SubmitsCopy, Submits
    <3>5. \A r \in A2ACalls, i \in TaskIds : ExistsIsTrue(r, i)' = ExistsIsTrue(r, i)
      BY <3>1 DEF ExistsIsTrue, Submits
    <3> QED BY <2>1, <3>1, <3>2, <3>3, <3>4, <3>5 DEF A2AInv
  <2> QED BY <2>1, CallTaskStep, AttemptFailsStep, AnsweredStep, LossStep, RouteStep DEF A2ANext
<1> QED BY <1>1, <1>2, PTL DEF A2ASpec

\* A retried call makes no second task, for any number of calls, ids and retries:
\* fetchWithRetry of a2a/client.ts and the routes of a2a.ts.
THEOREM RetriesAreHarmless == A2ASpec => []RetriesMakeNoTask
<1>1. A2AInv => RetriesMakeNoTask
  <2> SUFFICES ASSUME A2AInv PROVE RetriesMakeNoTask
    OBVIOUS
  <2>1. ASSUME NEW i \in TaskIds, restarts = 0
        PROVE  Cardinality({r \in A2ACalls : Submits(r, i) /\ copies[r] > 0}) <= 1
    <3>1. \A q, r \in A2ACalls : SubmitsCopy(q, i) /\ SubmitsCopy(r, i) => q = r
      BY <2>1 DEF A2AInv, StoreFollowsCopies
    <3>2. CASE \E q \in A2ACalls : SubmitsCopy(q, i)
      <4>1. PICK q \in A2ACalls : SubmitsCopy(q, i)
        BY <3>2
      <4>2. {r \in A2ACalls : Submits(r, i) /\ copies[r] > 0} = {q}
        BY <3>1, <4>1 DEF SubmitsCopy
      <4>3. Cardinality({q}) = 1
        BY FS_Singleton
      <4> QED BY <4>2, <4>3
    <3>3. CASE ~\E q \in A2ACalls : SubmitsCopy(q, i)
      <4>1. {r \in A2ACalls : Submits(r, i) /\ copies[r] > 0} = {}
        BY <3>3 DEF SubmitsCopy
      <4> QED BY <4>1, FS_EmptySet
    <3> QED BY <3>2, <3>3
  <2>2. \A r \in A2ACalls, i \in TaskIds : Submits(r, i) => copies[r] <= restarts + 1
    BY DEF A2AInv, StoreFollowsCopies
  <2>3. \A r \in A2ACalls, i \in TaskIds :
           Submits(r, i) /\ outcome[r] = "exists" =>
              /\ i \in madeFor
              /\ (\A q \in A2ACalls \ {r} : ~Submits(q, i)) => copies[r] > 0 /\ attempt[r] > 0
    BY DEF A2AInv, ExistsIsTrue
  <2> QED BY <2>1, <2>2, <2>3 DEF RetriesMakeNoTask, A2AInv
<1> QED BY <1>1, A2AInvariant, PTL

-----------------------------------------------------------------------------
(* TaskQueues.                                                             *)

Rising(seq) == \A m, n \in DOMAIN seq : m < n => seq[m] < seq[n]

\* Every number of the first sequence is below every one of the second.
Below(low, high) == \A m \in DOMAIN low, n \in DOMAIN high : low[m] < high[n]

QueuesTyped ==
    /\ withRedis \in BOOLEAN
    /\ stream \in Seq(1..MaxTasks) /\ waiting \in Seq(1..MaxTasks) /\ handedOut \in Seq(1..MaxTasks)
    /\ group \in (0..MaxTasks) \union {None}
    /\ pendingList \subseteq 1..MaxTasks /\ inflight \subseteq 1..MaxTasks
    /\ groupCreated \subseteq QueueProcesses
    /\ doing \in [QueueProcesses -> Commands \union {None}]
    /\ entries \in 0..MaxTasks /\ flushes \in 0..MaxFlushes

\* Entries are numbered as they are made.
NumbersAreMade ==
    /\ Rising(stream) /\ Rising(waiting) /\ Rising(handedOut)
    /\ Len(stream) <= entries
    /\ \A n \in DOMAIN stream : stream[n] <= entries
    /\ \A n \in DOMAIN waiting : waiting[n] <= entries
    /\ \A n \in DOMAIN handedOut : handedOut[n] <= entries

\* What the group has not reached is newer than all that was handed out; what it is
\* past was handed out or is pending.
GroupKeepsPlace ==
    /\ group # None => group <= Len(stream)
    /\ \A n \in DOMAIN stream :
          IF group = None \/ n > group
             THEN \A m \in DOMAIN handedOut : handedOut[m] < stream[n]
             ELSE stream[n] \in NumbersOf(handedOut) \union pendingList

QueuesInv ==
    /\ QueuesTyped /\ NumbersAreMade /\ GroupKeepsPlace
    /\ ~withRedis => stream = <<>> /\ Below(handedOut, waiting) /\ \A p \in QueueProcesses : doing[p] = None
    /\ withRedis => waiting = <<>>

\* The entries of the sequences.
LEMMA EntriesAreNumbers ==
    ASSUME QueuesInv
    PROVE  /\ \A n \in DOMAIN stream : stream[n] \in Nat /\ stream[n] <= entries
           /\ \A n \in DOMAIN waiting : waiting[n] \in Nat /\ waiting[n] <= entries
           /\ \A n \in DOMAIN handedOut : handedOut[n] \in Nat /\ handedOut[n] <= entries
           /\ DOMAIN stream = 1..Len(stream) /\ Len(stream) \in Nat
<1>1. ASSUME NEW seq \in Seq(1..MaxTasks) PROVE \A n \in DOMAIN seq : seq[n] \in 1..MaxTasks
  <2>1. DOMAIN seq = 1..Len(seq)
    OBVIOUS
  <2> QED BY <2>1, ElementOfSeq
<1>2. \A x \in 1..MaxTasks : x \in Nat
  BY QueuesAssumption
<1>3. stream \in Seq(1..MaxTasks) /\ waiting \in Seq(1..MaxTasks) /\ handedOut \in Seq(1..MaxTasks)
  BY DEF QueuesInv, QueuesTyped
<1>4. /\ \A n \in DOMAIN stream : stream[n] \in Nat
      /\ \A n \in DOMAIN waiting : waiting[n] \in Nat
      /\ \A n \in DOMAIN handedOut : handedOut[n] \in Nat
  BY <1>1, <1>2, <1>3
<1> QED BY <1>3, <1>4 DEF QueuesInv, NumbersAreMade

\* Sequences that rise, and what an appended number adds.
LEMMA RisingAppend ==
    ASSUME NEW seq \in Seq(Nat), NEW x \in Nat, Rising(seq), \A n \in DOMAIN seq : seq[n] < x
    PROVE  Rising(Append(seq, x))
<1>1. /\ Len(Append(seq, x)) = Len(seq) + 1 /\ DOMAIN Append(seq, x) = 1..(Len(seq) + 1)
      /\ \A n \in 1..Len(seq) : Append(seq, x)[n] = seq[n]
      /\ Append(seq, x)[Len(seq) + 1] = x
      /\ Len(seq) \in Nat /\ DOMAIN seq = 1..Len(seq)
  OBVIOUS
<1> QED BY <1>1 DEF Rising

\* What is enqueued joins the numbers of the queue, and nothing else does.
LEMMA NumbersOfAppend ==
    ASSUME NEW seq \in Seq(Nat), NEW x \in Nat
    PROVE  NumbersOf(Append(seq, x)) = NumbersOf(seq) \union {x}
<1>1. /\ DOMAIN Append(seq, x) = 1..(Len(seq) + 1)
      /\ \A n \in 1..Len(seq) : Append(seq, x)[n] = seq[n]
      /\ Append(seq, x)[Len(seq) + 1] = x
      /\ Len(seq) \in Nat /\ DOMAIN seq = 1..Len(seq)
  OBVIOUS
<1>2. \A n \in 1..(Len(seq) + 1) : n \in 1..Len(seq) \/ n = Len(seq) + 1
  BY <1>1
<1>3. NumbersOf(Append(seq, x)) \subseteq NumbersOf(seq) \union {x}
  BY <1>1, <1>2 DEF NumbersOf
<1>4. Len(seq) + 1 \in 1..(Len(seq) + 1) /\ 1..Len(seq) \subseteq 1..(Len(seq) + 1)
  BY <1>1
<1>5. NumbersOf(seq) \union {x} \subseteq NumbersOf(Append(seq, x))
  BY <1>1, <1>4 DEF NumbersOf
<1> QED BY <1>3, <1>5

\* The group, its entries or what was handed out do not move.
LEMMA NothingMoves ==
    ASSUME QueuesInv, QueuesTyped', UNCHANGED <<withRedis, stream, waiting, entries, handedOut>>,
           ~withRedis => doing' = doing, pendingList' = pendingList, group' = group \/ (group = None /\ group' = 0)
    PROVE  QueuesInv'
<1>1. NumbersAreMade'
  BY DEF QueuesInv, NumbersAreMade, Rising
<1>2. Len(stream) \in Nat /\ \A n \in DOMAIN stream : n > 0
  BY DEF QueuesInv, QueuesTyped
<1>3. NumbersOf(handedOut)' = NumbersOf(handedOut)
  BY DEF NumbersOf
<1>4. GroupKeepsPlace'
  <2>1. CASE group' = group
    BY <1>3, <2>1 DEF QueuesInv, GroupKeepsPlace
  <2>2. CASE group = None /\ group' = 0
    BY <1>2, <2>2 DEF QueuesInv, GroupKeepsPlace
  <2> QED BY <2>1, <2>2
<1> QED BY <1>1, <1>4 DEF QueuesInv, Below

\* The commands of Redis.
LEMMA EnqueueStep ==
    ASSUME QueuesInv, NEW p \in QueueProcesses, NEW times \in 1..2, Enqueue(p, times)
    PROVE  QueuesInv'
<1> DEFINE added == [n \in 1..times |-> entries + n]
<1>1. /\ entries' = entries + times /\ stream' = stream \o added /\ doing' = [doing EXCEPT ![p] = None]
      /\ doing[p] = "enqueue" /\ entries + times <= MaxTasks
      /\ UNCHANGED <<withRedis, group, pendingList, groupCreated, flushes, waiting, inflight, handedOut>>
  BY DEF Enqueue, EndCommand, inMemoryVars
<1>2. entries \in Nat /\ entries' \in 0..MaxTasks
  BY <1>1, QueuesAssumption DEF QueuesInv, QueuesTyped
<1>3. added \in Seq(1..MaxTasks) /\ Len(added) = times
  BY <1>1, <1>2, QueuesAssumption
<1>4. /\ stream' \in Seq(1..MaxTasks) /\ Len(stream') = Len(stream) + times
      /\ \A n \in 1..Len(stream) : stream'[n] = stream[n]
      /\ \A n \in (Len(stream) + 1)..(Len(stream) + times) : stream'[n] = entries + (n - Len(stream))
      /\ Len(stream) \in Nat /\ DOMAIN stream = 1..Len(stream) /\ DOMAIN stream' = 1..(Len(stream) + times)
  <2> HIDE DEF added
  <2>1. stream \in Seq(1..MaxTasks) /\ Len(stream) \in Nat
    BY DEF QueuesInv, QueuesTyped
  <2>2. /\ stream' \in Seq(1..MaxTasks) /\ Len(stream') = Len(stream) + times
        /\ \A n \in 1..(Len(stream) + times) :
              stream'[n] = IF n <= Len(stream) THEN stream[n] ELSE added[n - Len(stream)]
    BY <1>1, <1>3, <2>1, ConcatProperties
  <2>3. \A n \in (Len(stream) + 1)..(Len(stream) + times) : n - Len(stream) \in 1..times
    BY <2>1
  <2>4. \A n \in 1..times : added[n] = entries + n
    BY DEF added
  <2> QED BY <2>1, <2>2, <2>3, <2>4
<1>5. \A n \in DOMAIN stream' : n \in 1..Len(stream) \/ n \in (Len(stream) + 1)..(Len(stream) + times)
  BY <1>4
<1>6. \A n \in 1..Len(stream) : stream[n] <= entries /\ stream[n] \in Nat
  BY <1>4, EntriesAreNumbers
<1>7. QueuesTyped'
  BY <1>1, <1>2, <1>4 DEF QueuesInv, QueuesTyped
<1>8. NumbersAreMade'
  <2>1. Rising(stream')
    <3>1. SUFFICES ASSUME NEW m \in DOMAIN stream', NEW n \in DOMAIN stream', m < n
                   PROVE  stream'[m] < stream'[n]
      BY DEF Rising
    <3>2. CASE n \in 1..Len(stream)
      <4>1. m \in 1..Len(stream)
        BY <1>4, <3>1, <3>2
      <4> QED BY <1>4, <3>1, <3>2, <4>1 DEF QueuesInv, NumbersAreMade, Rising
    <3>3. CASE n \in (Len(stream) + 1)..(Len(stream) + times)
      <4>1. stream'[n] = entries + (n - Len(stream)) /\ stream'[n] > entries
        BY <1>2, <1>4, <3>3
      <4>2. CASE m \in 1..Len(stream)
        BY <1>2, <1>4, <1>6, <4>1, <4>2
      <4>3. CASE m \in (Len(stream) + 1)..(Len(stream) + times)
        BY <1>2, <1>4, <3>1, <3>3, <4>1, <4>3
      <4> QED BY <1>5, <4>2, <4>3
    <3> QED BY <1>5, <3>2, <3>3
  <2>2. Len(stream') <= entries'
    BY <1>1, <1>2, <1>4 DEF QueuesInv, NumbersAreMade
  <2>3. \A n \in DOMAIN stream' : stream'[n] <= entries'
    BY <1>1, <1>2, <1>4, <1>5, <1>6
  <2>4. /\ \A n \in DOMAIN waiting' : waiting'[n] <= entries'
        /\ \A n \in DOMAIN handedOut' : handedOut'[n] <= entries'
    <3>1. \A n \in DOMAIN waiting : waiting[n] \in Nat /\ waiting[n] <= entries
      BY EntriesAreNumbers
    <3>2. \A n \in DOMAIN handedOut : handedOut[n] \in Nat /\ handedOut[n] <= entries
      BY EntriesAreNumbers
    <3> QED BY <1>1, <1>2, <3>1, <3>2
  <2> QED BY <1>1, <2>1, <2>2, <2>3, <2>4 DEF QueuesInv, NumbersAreMade, Rising
<1>9. GroupKeepsPlace'
  <2>1. group' = group /\ handedOut' = handedOut /\ pendingList' = pendingList /\ NumbersOf(handedOut') = NumbersOf(handedOut)
    BY <1>1
  <2>2. group # None => group <= Len(stream) /\ group \in Nat
    BY DEF QueuesInv, QueuesTyped, GroupKeepsPlace
  <2>3. \A n \in 1..Len(stream) :
          IF group = None \/ n > group
             THEN \A m \in DOMAIN handedOut : handedOut[m] < stream'[n]
             ELSE stream'[n] \in NumbersOf(handedOut) \union pendingList
    BY <1>4 DEF QueuesInv, GroupKeepsPlace
  <2>4. \A n \in (Len(stream) + 1)..(Len(stream) + times) : stream'[n] > entries
    BY <1>2, <1>4
  <2>5. \A m \in DOMAIN handedOut : handedOut[m] \in Nat /\ handedOut[m] <= entries
    BY EntriesAreNumbers
  <2>6. \A n \in (Len(stream) + 1)..(Len(stream) + times) :
          /\ group = None \/ n > group
          /\ \A m \in DOMAIN handedOut : handedOut[m] < stream'[n]
    BY <1>2, <1>4, <2>2, <2>4, <2>5
  <2>7. group # None => group <= Len(stream')
    BY <1>4, <2>2
  <2> QED BY <1>5, <2>1, <2>3, <2>6, <2>7 DEF GroupKeepsPlace
<1>10. withRedis /\ withRedis'
  BY <1>1, QueuesAssumption DEF QueuesInv, QueuesTyped, Commands
<1> QED BY <1>1, <1>7, <1>8, <1>9, <1>10 DEF QueuesInv

\* The next entry is handed out, or the one after it, or none of those the group is past.
LEMMA DequeueStep ==
    ASSUME QueuesInv, NEW p \in QueueProcesses, NEW times \in 1..2, NEW told \in BOOLEAN,
           Dequeue(p, times, told)
    PROVE  QueuesInv'
<1>1. /\ doing[p] = "dequeue" /\ group # None /\ group + times <= Len(stream)
      /\ doing' = [doing EXCEPT ![p] = None] /\ group' = group + times
      /\ pendingList' = pendingList \union {stream[n] : n \in (group + 1)..group'}
      /\ handedOut' = Append(handedOut, stream[group']) \/ handedOut' = handedOut
      /\ UNCHANGED <<withRedis, stream, groupCreated, flushes, waiting, inflight, entries>>
  BY DEF Dequeue, EndCommand, inMemoryVars
<1>2. PICK place \in Nat : place = group
  BY <1>1, QueuesAssumption DEF QueuesInv, QueuesTyped
<1>3. PICK next \in 1..Len(stream) : next = place + times
  BY <1>1, <1>2, EntriesAreNumbers
<1>4. /\ stream \in Seq(1..MaxTasks) /\ handedOut \in Seq(1..MaxTasks) /\ Rising(stream) /\ Rising(handedOut)
      /\ Len(stream) <= entries /\ entries <= MaxTasks
  BY QueuesAssumption DEF QueuesInv, QueuesTyped, NumbersAreMade
<1>5. PICK x \in 1..MaxTasks : x = stream[next]
  BY <1>4, ElementOfSeq, EntriesAreNumbers
<1>6. (handedOut' = Append(handedOut, x) \/ handedOut' = handedOut) /\ group' = next
  BY <1>1, <1>2, <1>3, <1>5
<1>7. \A n \in DOMAIN stream : n > place => \A m \in DOMAIN handedOut : handedOut[m] < stream[n]
  BY <1>1, <1>2 DEF QueuesInv, GroupKeepsPlace
<1>8. \A n \in DOMAIN stream : n <= place => stream[n] \in NumbersOf(handedOut) \union pendingList
  BY <1>1, <1>2, EntriesAreNumbers DEF QueuesInv, GroupKeepsPlace
<1>9. next > place /\ next \in DOMAIN stream /\ \A n \in DOMAIN stream : n \in Nat
  BY <1>3, EntriesAreNumbers
<1>10. x <= entries /\ x \in Nat /\ \A m \in DOMAIN handedOut : handedOut[m] < x
  BY <1>5, <1>7, <1>9, EntriesAreNumbers
<1>11. handedOut \in Seq(Nat)
  BY <1>4, QueuesAssumption, SeqMonotonic
<1>12. handedOut' \in Seq(1..MaxTasks)
  <2>1. Append(handedOut, x) \in Seq(1..MaxTasks)
    BY <1>4
  <2> QED BY <1>4, <1>6, <2>1
<1>13. \A n \in DOMAIN handedOut' :
          \/ n \in DOMAIN handedOut /\ handedOut'[n] = handedOut[n]
          \/ handedOut'[n] = x
  <2>1. CASE handedOut' = Append(handedOut, x)
    BY <1>4, <2>1
  <2>2. CASE handedOut' = handedOut
    BY <2>2
  <2> QED BY <1>6, <2>1, <2>2
<1>14. /\ Rising(handedOut')
       /\ NumbersOf(handedOut) \subseteq NumbersOf(handedOut')
  <2>1. CASE handedOut' = Append(handedOut, x)
    BY <1>4, <1>10, <1>11, <2>1, RisingAppend, NumbersOfAppend
  <2>2. CASE handedOut' = handedOut
    <3>1. NumbersOf(handedOut') = NumbersOf(handedOut)
      BY <2>2
    <3> QED BY <1>4, <2>2, <3>1
  <2> QED BY <1>6, <2>1, <2>2
<1>15. \A n \in (place + 1)..next : n \in DOMAIN stream
  BY <1>3, EntriesAreNumbers
<1>16. QueuesTyped'
  <2>1. \A n \in (place + 1)..next : stream[n] \in 1..MaxTasks
    BY <1>4, <1>15, ElementOfSeq, EntriesAreNumbers
  <2>2. pendingList' \subseteq 1..MaxTasks
    BY <1>1, <1>2, <1>6, <2>1 DEF QueuesInv, QueuesTyped
  <2>3. next \in 0..MaxTasks
    <3>1. entries \in Nat /\ MaxTasks \in Nat /\ Len(stream) \in Nat
      BY QueuesAssumption, EntriesAreNumbers DEF QueuesInv, QueuesTyped
    <3> QED BY <1>3, <1>4, <3>1
  <2> QED BY <1>1, <1>6, <1>12, <2>2, <2>3 DEF QueuesInv, QueuesTyped
<1>17. NumbersAreMade'
  <2>1. \A n \in DOMAIN handedOut' : handedOut'[n] <= entries'
    BY <1>1, <1>10, <1>13, EntriesAreNumbers
  <2> QED BY <1>1, <1>14, <2>1 DEF QueuesInv, NumbersAreMade, Rising
<1>18. GroupKeepsPlace'
  <2>1. \A n \in DOMAIN stream : n > next => \A m \in DOMAIN handedOut' : handedOut'[m] < stream[n]
    <3>1. SUFFICES ASSUME NEW n \in DOMAIN stream, n > next, NEW m \in DOMAIN handedOut'
                   PROVE  handedOut'[m] < stream[n]
      OBVIOUS
    <3>2. n > place
      BY <1>2, <1>3, <1>9, <3>1
    <3>3. CASE m \in DOMAIN handedOut /\ handedOut'[m] = handedOut[m]
      BY <1>7, <3>2, <3>3
    <3>4. CASE handedOut'[m] = x
      BY <1>4, <1>5, <1>9, <3>1, <3>4 DEF Rising
    <3> QED BY <1>13, <3>3, <3>4
  <2>2. \A n \in DOMAIN stream : n <= next => stream[n] \in NumbersOf(handedOut') \union pendingList'
    <3>1. SUFFICES ASSUME NEW n \in DOMAIN stream, n <= next
                   PROVE  stream[n] \in NumbersOf(handedOut') \union pendingList'
      OBVIOUS
    <3>2. CASE n <= place
      BY <1>1, <1>8, <1>14, <3>2
    <3>3. CASE n > place
      <4>1. n \in (place + 1)..next
        BY <1>9, <3>1, <3>3
      <4> QED BY <1>1, <1>2, <1>6, <4>1
    <3> QED BY <1>9, <3>2, <3>3
  <2>3. next <= Len(stream) /\ next \in Nat
    BY <1>3
  <2>4. ~(next > next)
    BY <2>3
  <2>5. stream' = stream
    BY <1>1
  <2>6. \A n \in DOMAIN stream : n > next \/ n <= next
    BY <1>9, <2>3
  <2>7. group' # None => group' <= Len(stream)
    BY <1>6, <2>3
  <2>8. \A n \in DOMAIN stream :
           IF group' = None \/ n > group'
              THEN \A m \in DOMAIN handedOut' : handedOut'[m] < stream[n]
              ELSE stream[n] \in NumbersOf(handedOut') \union pendingList'
    <3>1. next # None
      <4>1. Len(stream) \in Nat /\ entries \in Nat /\ MaxTasks \in Nat
        BY QueuesAssumption, EntriesAreNumbers DEF QueuesInv, QueuesTyped
      <4>2. next \in 0..MaxTasks
        BY <1>3, <1>4, <4>1
      <4> QED BY <4>2, QueuesAssumption
    <3> QED BY <1>6, <2>1, <2>2, <2>6, <3>1
  <2> QED BY <2>5, <2>7, <2>8 DEF GroupKeepsPlace
<1>19. withRedis /\ withRedis'
  BY <1>1, QueuesAssumption DEF QueuesInv, QueuesTyped, Commands
<1> QED BY <1>1, <1>16, <1>17, <1>18, <1>19 DEF QueuesInv

\* Redis loses its data.
LEMMA FlushStep ==
    ASSUME QueuesInv, FlushRedis
    PROVE  QueuesInv'
<1>1. /\ withRedis /\ flushes < MaxFlushes /\ flushes' = flushes + 1
      /\ stream' = <<>> /\ group' = None /\ pendingList' = {}
      /\ UNCHANGED <<withRedis, groupCreated, doing, waiting, inflight, entries, handedOut>>
  BY DEF FlushRedis, inMemoryVars
<1>2. QueuesTyped'
  BY <1>1, QueuesAssumption, EmptySeq DEF QueuesInv, QueuesTyped
<1>3. DOMAIN stream' = {} /\ Len(stream') = 0 /\ entries \in Nat
  BY <1>1, QueuesAssumption DEF QueuesInv, QueuesTyped
<1>4. NumbersAreMade'
  BY <1>1, <1>3 DEF QueuesInv, NumbersAreMade, Rising
<1>5. GroupKeepsPlace'
  BY <1>1, <1>3 DEF GroupKeepsPlace
<1> QED BY <1>1, <1>2, <1>4, <1>5 DEF QueuesInv

\* An entry is acknowledged over Redis.
LEMMA AcknowledgeStep ==
    ASSUME QueuesInv, NEW i \in 1..MaxTasks, Acknowledge(i)
    PROVE  QueuesInv'
<1>1. /\ withRedis /\ i \in NumbersOf(handedOut) /\ pendingList' = pendingList \ {i}
      /\ UNCHANGED <<withRedis, stream, group, groupCreated, doing, flushes, waiting, inflight, entries, handedOut>>
  BY DEF Acknowledge, inMemoryVars
<1>2. QueuesTyped' /\ NumbersAreMade'
  BY <1>1 DEF QueuesInv, QueuesTyped, NumbersAreMade, Rising
<1>3. NumbersOf(handedOut) \union pendingList' = NumbersOf(handedOut) \union pendingList
  BY <1>1
<1>4. NumbersOf(handedOut') = NumbersOf(handedOut)
  BY <1>1
<1>5. GroupKeepsPlace'
  BY <1>1, <1>3, <1>4 DEF QueuesInv, GroupKeepsPlace
<1> QED BY <1>1, <1>2, <1>5 DEF QueuesInv

\* In memory the stream is not used.
LEMMA NoStream ==
    ASSUME QueuesInv, ~withRedis, UNCHANGED <<stream, group>>
    PROVE  GroupKeepsPlace'
<1>1. stream' = <<>> /\ DOMAIN stream' = {} /\ Len(stream') = Len(stream)
  BY DEF QueuesInv
<1> QED BY <1>1 DEF QueuesInv, GroupKeepsPlace

\* A task joins the end of the queue in memory.
LEMMA EnqueueInMemoryStep ==
    ASSUME QueuesInv, EnqueueInMemory
    PROVE  QueuesInv'
<1>1. /\ ~withRedis /\ entries < MaxTasks /\ entries' = entries + 1 /\ waiting' = Append(waiting, entries + 1)
      /\ UNCHANGED <<withRedis, stream, group, pendingList, groupCreated, doing, flushes, inflight, handedOut>>
  BY DEF EnqueueInMemory, redisVars
<1>2. entries \in Nat /\ entries + 1 \in 1..MaxTasks
  BY <1>1, QueuesAssumption DEF QueuesInv, QueuesTyped
<1>3. waiting \in Seq(1..MaxTasks) /\ waiting \in Seq(Nat)
  BY QueuesAssumption, SeqMonotonic DEF QueuesInv, QueuesTyped
<1>4. QueuesTyped'
  BY <1>1, <1>2, <1>3 DEF QueuesInv, QueuesTyped
<1>5. \A n \in DOMAIN waiting : waiting[n] < entries + 1
  BY <1>2, EntriesAreNumbers
<1>6. Rising(waiting')
  BY <1>1, <1>2, <1>3, <1>5, RisingAppend DEF QueuesInv, NumbersAreMade
<1>7. /\ \A n \in DOMAIN waiting' : n \in DOMAIN waiting \/ n = Len(waiting) + 1
      /\ \A n \in DOMAIN waiting : waiting'[n] = waiting[n]
      /\ waiting'[Len(waiting) + 1] = entries + 1
  BY <1>1, <1>3
<1>8. NumbersAreMade'
  <2>1. \A n \in DOMAIN waiting' : waiting'[n] <= entries'
    BY <1>1, <1>2, <1>5, <1>7, EntriesAreNumbers
  <2>2. \A n \in DOMAIN handedOut' : handedOut'[n] <= entries'
    BY <1>1, <1>2, EntriesAreNumbers
  <2>3. \A n \in DOMAIN stream' : stream'[n] <= entries'
    BY <1>1, <1>2, EntriesAreNumbers
  <2>4. Len(stream') <= entries'
    BY <1>1, <1>2, EntriesAreNumbers DEF QueuesInv, NumbersAreMade
  <2>5. Rising(stream') /\ Rising(handedOut')
    BY <1>1 DEF QueuesInv, NumbersAreMade
  <2> QED BY <1>6, <2>1, <2>2, <2>3, <2>4, <2>5 DEF NumbersAreMade
<1>9. Below(handedOut', waiting')
  <2>1. \A m \in DOMAIN handedOut : handedOut[m] < entries + 1
    BY <1>2, EntriesAreNumbers
  <2>2. Below(handedOut, waiting)
    BY <1>1 DEF QueuesInv
  <2> QED BY <1>1, <1>7, <2>1, <2>2 DEF Below
<1>10. GroupKeepsPlace'
  <2>1. NumbersOf(handedOut)' = NumbersOf(handedOut)
    BY <1>1 DEF NumbersOf
  <2> QED BY <1>1, NoStream
<1> QED BY <1>1, <1>4, <1>8, <1>9, <1>10 DEF QueuesInv

\* The head of the queue in memory is handed out.
LEMMA DequeueInMemoryStep ==
    ASSUME QueuesInv, DequeueInMemory
    PROVE  QueuesInv'
<1>1. /\ ~withRedis /\ waiting # <<>> /\ waiting' = Tail(waiting)
      /\ inflight' = inflight \union {Head(waiting)} /\ handedOut' = Append(handedOut, Head(waiting))
      /\ UNCHANGED <<withRedis, stream, group, pendingList, groupCreated, doing, flushes, entries>>
  BY DEF DequeueInMemory, redisVars
<1>2. /\ waiting \in Seq(1..MaxTasks) /\ handedOut \in Seq(1..MaxTasks) /\ handedOut \in Seq(Nat)
      /\ Rising(waiting) /\ Rising(handedOut) /\ Below(handedOut, waiting)
  BY <1>1, QueuesAssumption, SeqMonotonic DEF QueuesInv, QueuesTyped, NumbersAreMade
<1>3. PICK x \in 1..MaxTasks : x = Head(waiting)
  BY <1>1, <1>2, HeadTailProperties
<1>4. /\ waiting' \in Seq(1..MaxTasks) /\ DOMAIN waiting' = 1..(Len(waiting) - 1)
      /\ \A n \in DOMAIN waiting' : waiting'[n] = waiting[n + 1] /\ n + 1 \in DOMAIN waiting /\ 1 < n + 1 /\ n \in Nat
      /\ x = waiting[1] /\ 1 \in DOMAIN waiting
  BY <1>1, <1>2, <1>3, HeadTailProperties
<1>5. x <= entries /\ x \in Nat
  BY <1>4, EntriesAreNumbers
<1>6. \A m \in DOMAIN handedOut : handedOut[m] < x
  BY <1>2, <1>4 DEF Below
<1>7. handedOut' = Append(handedOut, x) /\ Rising(handedOut')
  BY <1>1, <1>2, <1>3, <1>5, <1>6, RisingAppend
<1>8. /\ \A n \in DOMAIN handedOut' : n \in DOMAIN handedOut \/ n = Len(handedOut) + 1
      /\ \A n \in DOMAIN handedOut : handedOut'[n] = handedOut[n]
      /\ handedOut'[Len(handedOut) + 1] = x /\ handedOut' \in Seq(1..MaxTasks)
  BY <1>2, <1>7
<1>9. QueuesTyped'
  <2>1. inflight' \subseteq 1..MaxTasks
    BY <1>1, <1>3 DEF QueuesInv, QueuesTyped
  <2>2. waiting' \in Seq(1..MaxTasks) /\ handedOut' \in Seq(1..MaxTasks)
    BY <1>4, <1>8
  <2>3. UNCHANGED <<withRedis, stream, group, pendingList, groupCreated, doing, flushes, entries>>
    BY <1>1
  <2> QED BY <2>1, <2>2, <2>3 DEF QueuesInv, QueuesTyped
<1>10. Rising(waiting')
  <2>1. ASSUME NEW m \in DOMAIN waiting', NEW n \in DOMAIN waiting', m < n
        PROVE  waiting'[m] < waiting'[n]
    <3>1. m + 1 < n + 1
      BY <1>4, <2>1
    <3> QED BY <1>2, <1>4, <3>1 DEF Rising
  <2> QED BY <2>1 DEF Rising
<1>11. NumbersAreMade'
  <2>1. \A n \in DOMAIN waiting' : waiting'[n] <= entries
    BY <1>4, EntriesAreNumbers
  <2>2. \A n \in DOMAIN handedOut' : handedOut'[n] <= entries
    BY <1>5, <1>8, EntriesAreNumbers
  <2> QED BY <1>1, <1>7, <1>10, <2>1, <2>2 DEF QueuesInv, NumbersAreMade
<1>12. Below(handedOut', waiting')
  <2>1. \A n \in DOMAIN waiting' : x < waiting'[n]
    BY <1>2, <1>4 DEF Rising
  <2>2. \A m \in DOMAIN handedOut, n \in DOMAIN waiting' : handedOut[m] < waiting'[n]
    BY <1>2, <1>4 DEF Below
  <2> QED BY <1>8, <2>1, <2>2 DEF Below
<1>13. GroupKeepsPlace'
  BY <1>1, NoStream
<1> QED BY <1>1, <1>9, <1>11, <1>12, <1>13 DEF QueuesInv

\* Closing forgets what waits and what was handed out.
LEMMA CloseQueueStep ==
    ASSUME QueuesInv, CloseQueue
    PROVE  QueuesInv'
<1>1. /\ ~withRedis /\ waiting' = <<>> /\ inflight' = {}
      /\ UNCHANGED <<withRedis, stream, group, pendingList, groupCreated, doing, flushes, entries, handedOut>>
  BY DEF CloseQueue, redisVars
<1>2. QueuesTyped' /\ DOMAIN waiting' = {}
  BY <1>1, EmptySeq DEF QueuesInv, QueuesTyped
<1>3. NumbersAreMade' /\ Below(handedOut', waiting')
  BY <1>1, <1>2 DEF QueuesInv, NumbersAreMade, Rising, Below
<1>4. GroupKeepsPlace'
  BY <1>1, NoStream
<1> QED BY <1>1, <1>2, <1>3, <1>4 DEF QueuesInv

\* Every step.
LEMMA QueuesStep ==
    ASSUME QueuesInv, [QueuesNext]_queueVars
    PROVE  QueuesInv'
<1>1. ASSUME NEW p \in QueueProcesses, NEW command \in Commands, NEW accepted \in BOOLEAN,
             EnsureGroup(p, command, accepted)
      PROVE  QueuesInv'
  <2>1. /\ withRedis
        /\ doing' = [doing EXCEPT ![p] = command] \/ doing' = doing
        /\ groupCreated' = groupCreated \union {p} \/ groupCreated' = groupCreated
        /\ UNCHANGED <<withRedis, stream, pendingList, flushes, waiting, inflight, entries, handedOut>>
    BY <1>1 DEF EnsureGroup, inMemoryVars
  <2>2. group' = group \/ (group = None /\ group' = 0)
    BY <1>1 DEF EnsureGroup, GroupStart
  <2>3. QueuesTyped'
    <3>1. doing' \in [QueueProcesses -> Commands \union {None}] /\ groupCreated' \subseteq QueueProcesses
      BY <2>1 DEF QueuesInv, QueuesTyped
    <3>2. group' \in (0..MaxTasks) \union {None}
      BY <2>2, QueuesAssumption DEF QueuesInv, QueuesTyped
    <3> QED BY <2>1, <3>1, <3>2 DEF QueuesInv, QueuesTyped
  <2> QED BY <2>1, <2>2, <2>3, NothingMoves
<1>2. ASSUME NEW p \in QueueProcesses, NoEntry(p) \/ RestartConsumer(p)
      PROVE  QueuesInv'
  <2>1. /\ UNCHANGED <<withRedis, stream, group, pendingList, flushes, waiting, inflight, entries, handedOut>>
        /\ doing' = [doing EXCEPT ![p] = None] /\ groupCreated' \subseteq groupCreated
    BY <1>2 DEF NoEntry, RestartConsumer, EndCommand, inMemoryVars
  <2>2. QueuesTyped'
    BY <2>1 DEF QueuesInv, QueuesTyped
  <2>3. withRedis \/ doing[p] # None
    BY <1>2 DEF NoEntry, RestartConsumer
  <2>4. ~withRedis => doing' = doing
    BY <2>3 DEF QueuesInv
  <2> QED BY <2>1, <2>2, <2>4, NothingMoves
<1>3. ASSUME NEW i \in 1..MaxTasks, AcknowledgeInMemory(i)
      PROVE  QueuesInv'
  <2>1. /\ inflight' = inflight \ {i}
        /\ UNCHANGED <<withRedis, stream, group, pendingList, groupCreated, doing, flushes, waiting, entries, handedOut>>
    BY <1>3 DEF AcknowledgeInMemory, redisVars
  <2>2. QueuesTyped'
    BY <2>1 DEF QueuesInv, QueuesTyped
  <2> QED BY <2>1, <2>2, NothingMoves
<1>4. CASE UNCHANGED queueVars
  <2>1. UNCHANGED <<withRedis, stream, group, pendingList, groupCreated, doing, flushes, waiting, inflight, entries, handedOut>>
    BY <1>4 DEF queueVars, redisVars, inMemoryVars
  <2>2. QueuesTyped'
    BY <2>1 DEF QueuesInv, QueuesTyped
  <2> QED BY <2>1, <2>2, NothingMoves
<1>5. ASSUME NEW p \in QueueProcesses, NEW times \in 1..2, NEW told \in BOOLEAN, Dequeue(p, times, told)
      PROVE  QueuesInv'
  BY <1>5, DequeueStep
<1> QED
  BY <1>1, <1>2, <1>3, <1>4, <1>5, EnqueueStep, AcknowledgeStep, FlushStep, EnqueueInMemoryStep,
     DequeueInMemoryStep, CloseQueueStep DEF QueuesNext

\* QueuesInv holds in every state.
LEMMA QueuesInvariant == QueuesSpec => []QueuesInv
<1>1. QueuesInit => QueuesInv
  <2> SUFFICES ASSUME QueuesInit PROVE QueuesInv
    OBVIOUS
  <2>1. /\ withRedis \in BOOLEAN /\ stream = <<>> /\ group = None /\ pendingList = {} /\ groupCreated = {}
        /\ doing = [p \in QueueProcesses |-> None] /\ waiting = <<>> /\ inflight = {}
        /\ entries = 0 /\ flushes = 0 /\ handedOut = <<>>
    BY DEF QueuesInit
  <2>2. QueuesTyped
    BY <2>1, QueuesAssumption, EmptySeq DEF QueuesTyped
  <2>3. DOMAIN stream = {} /\ DOMAIN waiting = {} /\ DOMAIN handedOut = {} /\ Len(stream) = 0
    BY <2>1
  <2>4. NumbersAreMade /\ GroupKeepsPlace /\ Below(handedOut, waiting)
    BY <2>1, <2>3 DEF NumbersAreMade, GroupKeepsPlace, Below, Rising
  <2> QED BY <2>1, <2>2, <2>4 DEF QueuesInv
<1>2. QueuesInv /\ [QueuesNext]_queueVars => QueuesInv'
  BY QueuesStep
<1> QED BY <1>1, <1>2, PTL DEF QueuesSpec

\* Tasks are handed out in the order of the queue and none is passed over, for any
\* number of processes, tasks and losses of data: dequeue of task-queue.ts.
THEOREM TasksGoInOrder == QueuesSpec => []HandedOutInOrder
<1>1. QueuesInv => HandedOutInOrder
  <2> SUFFICES ASSUME QueuesInv PROVE HandedOutInOrder
    OBVIOUS
  <2>1. \A n \in 2..Len(handedOut) : handedOut[n - 1] < handedOut[n]
    <3>1. handedOut \in Seq(1..MaxTasks) /\ Rising(handedOut)
      BY DEF QueuesInv, QueuesTyped, NumbersAreMade
    <3>2. \A n \in 2..Len(handedOut) : n \in DOMAIN handedOut /\ n - 1 \in DOMAIN handedOut /\ n - 1 < n
      BY <3>1
    <3> QED BY <3>1, <3>2 DEF Rising
  <2>2. ASSUME NEW m \in DOMAIN stream, NEW n \in DOMAIN stream, m < n, stream[n] \in NumbersOf(handedOut)
        PROVE  stream[m] \in NumbersOf(handedOut) \union pendingList
    <3>1. PICK k \in DOMAIN handedOut : handedOut[k] = stream[n]
      BY <2>2 DEF NumbersOf
    <3>2. ~(handedOut[k] < stream[n])
      BY <3>1, EntriesAreNumbers
    <3>3. ~(group = None \/ n > group)
      BY <3>2 DEF QueuesInv, GroupKeepsPlace
    <3>4. group \in Nat /\ m \in Nat /\ n \in Nat
      <4>1. group \in 0..MaxTasks
        BY <3>3 DEF QueuesInv, QueuesTyped
      <4>2. m \in 1..Len(stream) /\ n \in 1..Len(stream)
        BY EntriesAreNumbers
      <4> QED BY <4>1, <4>2, QueuesAssumption
    <3>5. ~(group = None \/ m > group)
      BY <2>2, <3>3, <3>4
    <3> QED BY <3>5 DEF QueuesInv, GroupKeepsPlace
  <2> QED BY <2>1, <2>2 DEF HandedOutInOrder
<1> QED BY <1>1, QueuesInvariant, PTL

-----------------------------------------------------------------------------
(* LiveEvents.                                                             *)

Receivers == Clients \union Subscribers

EventsTyped ==
    /\ overRedis \in BOOLEAN
    /\ handlers \in [Channels -> EventHandlers \union {None}]
    /\ listeners \in [Channels -> Seq(EventHandlers)]
    /\ eventWire \in Seq(EventMessage)
    /\ unanswered \in Seq(EventMessage) /\ executed \in 0..Len(unanswered)
    /\ events \in 0..MaxEvents
    /\ got \in [Receivers -> Seq(EventMessage)]

\* In memory the handler of a channel is the last listener attached, and the only one
\* unless the channel was subscribed to again.
HandlerIsAttached(ch) ==
    /\ overRedis => listeners[ch] = <<>>
    /\ ~overRedis =>
          /\ handlers[ch] # None =>
                Len(listeners[ch]) > 0 /\ listeners[ch][Len(listeners[ch])] = handlers[ch]
          /\ ch \notin again =>
                listeners[ch] = IF handlers[ch] = None THEN <<>> ELSE <<handlers[ch]>>

Before(msg, other) == msg.nr < other.nr \/ msg.sent < other.sent

Ordered(seq, channels) ==
    \A m, n \in DOMAIN seq : m < n =>
       Before(seq[m], seq[n]) \/ (seq[m] = seq[n] /\ seq[m].channel \in channels)

\* The channels whose messages are repeated.
Repeating == IF overRedis THEN {} ELSE again

SeenMessages ==
    {eventWire[n] : n \in DOMAIN eventWire} \union UNION {{got[x][n] : n \in DOMAIN got[x]} : x \in Receivers}

\* Messages are numbered as they are published, and those on the wire come after those
\* that came.
MessagesInOrder ==
    /\ \A m \in DOMAIN eventWire : eventWire[m].nr <= events
    /\ \A m, n \in DOMAIN eventWire : m < n => Before(eventWire[m], eventWire[n])
    /\ \A x \in Receivers : \A m \in DOMAIN got[x] :
          /\ got[x][m].nr <= events
          /\ \A n \in DOMAIN eventWire : Before(got[x][m], eventWire[n])
    /\ \A x \in Receivers : Ordered(got[x], Repeating)

\* The PUBLISH commands without a reply: newer ones were sent less often.  What Redis
\* will execute next comes after all it sent; what it executed on this connection was
\* sent as often, at least, as what is not older.
PublishesInOrder ==
    /\ \A k \in DOMAIN unanswered : unanswered[k].nr <= events
    /\ \A k, n \in DOMAIN unanswered : k < n =>
          unanswered[k].nr < unanswered[n].nr /\ unanswered[n].sent <= unanswered[k].sent
    /\ \A msg \in SeenMessages : \A k \in DOMAIN unanswered :
          /\ k > executed => Before(msg, unanswered[k])
          /\ msg.nr < unanswered[k].nr \/ msg.sent <= unanswered[k].sent

EventsInv ==
    /\ EventsTyped /\ MessagesInOrder /\ PublishesInOrder
    /\ \A ch \in Channels : HandlerIsAttached(ch)
    /\ ~overRedis => eventWire = <<>> /\ unanswered = <<>>

\* What is on its way, in every place.
LEMMA EventsAreMessages ==
    ASSUME EventsInv
    PROVE  /\ SeenMessages \subseteq EventMessage
           /\ \A msg \in SeenMessages : msg.nr <= events
           /\ \A k \in DOMAIN unanswered : unanswered[k] \in EventMessage
           /\ DOMAIN unanswered = 1..Len(unanswered) /\ Len(unanswered) \in Nat /\ executed \in 0..Len(unanswered)
           /\ \A msg \in EventMessage : msg.nr \in Nat /\ msg.sent \in Nat /\ msg.nr > 0 /\ msg.sent > 0
           /\ events \in Nat
<1>1. /\ eventWire \in Seq(EventMessage) /\ unanswered \in Seq(EventMessage)
      /\ got \in [Receivers -> Seq(EventMessage)] /\ executed \in 0..Len(unanswered)
  BY DEF EventsInv, EventsTyped
<1>2. ASSUME NEW seq \in Seq(EventMessage)
      PROVE  /\ \A n \in DOMAIN seq : seq[n] \in EventMessage
             /\ DOMAIN seq = 1..Len(seq) /\ Len(seq) \in Nat
  OBVIOUS
<1>3. SeenMessages \subseteq EventMessage
  BY <1>1, <1>2 DEF SeenMessages
<1>4. \A msg \in SeenMessages : msg.nr <= events
  BY DEF EventsInv, MessagesInOrder, SeenMessages
<1>5. \A msg \in EventMessage : msg.nr \in Nat /\ msg.sent \in Nat /\ msg.nr > 0 /\ msg.sent > 0
  BY EventsAssumption DEF EventMessage
<1>6. events \in Nat
  BY EventsAssumption DEF EventsInv, EventsTyped
<1> QED BY <1>1, <1>2, <1>3, <1>4, <1>5, <1>6

\* A step that sends nothing to the subscriber and publishes nothing over Redis.
LEMMA PublishesAreKept ==
    ASSUME EventsInv, UNCHANGED publishVars, events' \in Nat, events <= events',
           SeenMessages' \subseteq SeenMessages \/ unanswered = <<>>
    PROVE  PublishesInOrder'
<1>1. unanswered' = unanswered /\ executed' = executed
  BY DEF publishVars
<1>2. CASE unanswered = <<>>
  BY <1>1, <1>2 DEF PublishesInOrder
<1>3. CASE SeenMessages' \subseteq SeenMessages
  <2>1. \A k \in DOMAIN unanswered : unanswered[k].nr <= events'
    <3>1. ASSUME NEW k \in DOMAIN unanswered PROVE unanswered[k].nr <= events'
      <4>1. unanswered[k].nr <= events /\ unanswered[k].nr \in Nat /\ events \in Nat
        BY EventsAreMessages DEF EventsInv, PublishesInOrder
      <4> QED BY <4>1
    <3> QED BY <3>1
  <2> QED BY <1>1, <1>3, <2>1 DEF EventsInv, PublishesInOrder
<1> QED BY <1>2, <1>3

\* A sequence followed by a message that comes after its own, once or, from a channel
\* whose messages are repeated, some number of times.
LEMMA OrderedRepeats ==
    ASSUME NEW seq \in Seq(EventMessage), NEW msg \in EventMessage, NEW times \in Nat, NEW channels,
           Ordered(seq, channels), \A n \in DOMAIN seq : Before(seq[n], msg),
           times <= 1 \/ msg.channel \in channels
    PROVE  LET longer == seq \o [n \in 1..times |-> msg]
           IN  /\ longer \in Seq(EventMessage)
               /\ \A n \in DOMAIN longer : longer[n] = msg \/ \E m \in DOMAIN seq : longer[n] = seq[m]
               /\ Ordered(longer, channels)
<1> DEFINE repeats == [n \in 1..times |-> msg]
           longer == seq \o repeats
<1>1. repeats \in Seq(EventMessage) /\ Len(repeats) = times /\ \A n \in 1..times : repeats[n] = msg
  OBVIOUS
<1>2. Len(seq) \in Nat /\ DOMAIN seq = 1..Len(seq)
  OBVIOUS
<1>3. /\ longer \in Seq(EventMessage) /\ DOMAIN longer = 1..(Len(seq) + times)
      /\ \A n \in 1..Len(seq) : longer[n] = seq[n]
      /\ \A n \in (Len(seq) + 1)..(Len(seq) + times) : longer[n] = msg
  <2> HIDE DEF repeats
  <2>1. /\ longer \in Seq(EventMessage) /\ Len(longer) = Len(seq) + times
        /\ \A n \in 1..(Len(seq) + times) : longer[n] = IF n <= Len(seq) THEN seq[n] ELSE repeats[n - Len(seq)]
    BY <1>1, ConcatProperties
  <2>2. \A n \in (Len(seq) + 1)..(Len(seq) + times) : n - Len(seq) \in 1..times /\ ~(n <= Len(seq))
    BY <1>2
  <2>3. \A n \in 1..Len(seq) : n \in 1..(Len(seq) + times) /\ n <= Len(seq)
    BY <1>2
  <2>4. \A n \in (Len(seq) + 1)..(Len(seq) + times) : n \in 1..(Len(seq) + times)
    BY <1>2
  <2>5. DOMAIN longer = 1..Len(longer)
    BY <2>1
  <2> HIDE DEF longer
  <2> QED BY <1>1, <2>1, <2>2, <2>3, <2>4, <2>5
<1> HIDE DEF longer, repeats
<1>4. \A n \in DOMAIN longer : n \in DOMAIN seq \/ n \in (Len(seq) + 1)..(Len(seq) + times)
  BY <1>2, <1>3
<1>5. \A n \in DOMAIN longer : longer[n] = msg \/ \E m \in DOMAIN seq : longer[n] = seq[m]
  BY <1>2, <1>3, <1>4
<1>6. ASSUME NEW m \in DOMAIN longer, NEW n \in DOMAIN longer, m < n
      PROVE  \/ Before(longer[m], longer[n])
             \/ longer[m] = longer[n] /\ longer[m].channel \in channels
  <2>1. CASE n \in DOMAIN seq
    <3>1. m \in DOMAIN seq
      BY <1>2, <1>3, <1>6, <2>1
    <3> QED BY <1>2, <1>3, <1>6, <2>1, <3>1 DEF Ordered
  <2>2. CASE n \in (Len(seq) + 1)..(Len(seq) + times) /\ m \in DOMAIN seq
    BY <1>2, <1>3, <2>2
  <2>3. CASE n \in (Len(seq) + 1)..(Len(seq) + times) /\ m \in (Len(seq) + 1)..(Len(seq) + times)
    <3>1. longer[n] = msg /\ longer[m] = msg
      BY <1>3, <2>3
    <3>2. ~(times <= 1)
      BY <1>2, <1>6, <2>3
    <3> QED BY <3>1, <3>2
  <2> QED BY <1>4, <2>1, <2>2, <2>3
<1>7. Ordered(longer, channels)
  BY <1>6 DEF Ordered
<1> QED BY <1>3, <1>5, <1>7 DEF longer, repeats

\* How often a message is got.
LEMMA TimesAreNumbers ==
    ASSUME NEW called \in Seq(EventHandlers), NEW msg \in EventMessage, NEW x
    PROVE  /\ TimesGot(x, msg, called) \in Nat
           /\ Len(called) <= 1 => TimesGot(x, msg, called) <= 1
<1>1. ASSUME NEW h
      PROVE  /\ CallsOf(called, h) \in Nat
             /\ Len(called) <= 1 => CallsOf(called, h) <= 1
  <2> DEFINE places == {n \in DOMAIN called : called[n] = h}
  <2>1. /\ places \subseteq 1..Len(called) /\ Len(called) \in Nat
        /\ IsFiniteSet(1..Len(called)) /\ Cardinality(1..Len(called)) = Len(called)
    BY FS_Interval
  <2>2. IsFiniteSet(places) /\ Cardinality(places) <= Len(called)
    BY <2>1, FS_Subset
  <2>3. Cardinality(places) \in Nat
    BY <2>2, FS_CardinalityType
  <2>4. CallsOf(called, h) = Cardinality(places)
    BY DEF CallsOf
  <2> HIDE DEF places
  <2> QED BY <2>1, <2>2, <2>3, <2>4
<1> QED BY <1>1 DEF TimesGot

\* The listeners are called with a message that comes after what came.
LEMMA HandleStep ==
    ASSUME EventsInv, NEW msg \in EventMessage, NEW called \in Seq(EventHandlers), Handle(msg, called),
           msg.nr <= events', events <= events', events' \in 0..MaxEvents, UNCHANGED <<again, overRedis>>,
           eventWire' = eventWire \/ eventWire' = Tail(eventWire), ~overRedis \/ eventWire # <<>>,
           \A x \in Receivers : \A n \in DOMAIN got[x] : Before(got[x][n], msg),
           \A n \in DOMAIN eventWire' : Before(msg, eventWire'[n]),
           Len(called) <= 1 \/ msg.channel \in Repeating
    PROVE  /\ got' \in [Receivers -> Seq(EventMessage)] /\ MessagesInOrder'
           /\ SeenMessages' \subseteq SeenMessages \union {msg}
<1>1. eventWire \in Seq(EventMessage) /\ got \in [Receivers -> Seq(EventMessage)] /\ events \in Nat
  BY EventsAssumption DEF EventsInv, EventsTyped
<1>2. /\ eventWire' \in Seq(EventMessage)
      /\ \A n \in DOMAIN eventWire' : \E m \in DOMAIN eventWire : eventWire'[n] = eventWire[m]
      /\ \A m, n \in DOMAIN eventWire' : m < n => Before(eventWire'[m], eventWire'[n])
  <2>1. \A m, n \in DOMAIN eventWire : m < n => Before(eventWire[m], eventWire[n])
    BY DEF EventsInv, MessagesInOrder
  <2>2. CASE eventWire' = eventWire
    BY <1>1, <2>1, <2>2
  <2>3. CASE eventWire' = Tail(eventWire) /\ eventWire # <<>>
    <3>1. /\ eventWire' \in Seq(EventMessage) /\ DOMAIN eventWire' = 1..(Len(eventWire) - 1)
          /\ \A n \in 1..(Len(eventWire) - 1) : eventWire'[n] = eventWire[n + 1]
          /\ DOMAIN eventWire = 1..Len(eventWire) /\ Len(eventWire) \in Nat
      BY <1>1, <2>3, HeadTailProperties
    <3>2. \A n \in DOMAIN eventWire' : n + 1 \in DOMAIN eventWire /\ n \in Nat
      BY <3>1
    <3>3. ASSUME NEW m \in DOMAIN eventWire', NEW n \in DOMAIN eventWire', m < n
          PROVE  Before(eventWire'[m], eventWire'[n])
      <4>1. m + 1 < n + 1
        BY <3>2, <3>3
      <4> QED BY <2>1, <3>1, <3>2, <4>1
    <3> QED BY <3>1, <3>2, <3>3
  <2>4. CASE eventWire' = Tail(eventWire) /\ eventWire = <<>>
    <3>1. ~overRedis /\ eventWire' = <<>>
      BY <2>4
    <3> QED BY <1>1, <3>1
  <2> QED BY <2>2, <2>3, <2>4
<1>3. ASSUME NEW x \in Receivers
      PROVE  /\ got'[x] \in Seq(EventMessage)
             /\ \A n \in DOMAIN got'[x] : got'[x][n] = msg \/ \E m \in DOMAIN got[x] : got'[x][n] = got[x][m]
             /\ Ordered(got'[x], Repeating)
  <2>1. PICK times \in Nat : times = TimesGot(x, msg, called)
    BY TimesAreNumbers
  <2>2. times <= 1 \/ msg.channel \in Repeating
    BY <2>1, TimesAreNumbers
  <2>3. got'[x] = got[x] \o [n \in 1..times |-> msg]
    BY <2>1 DEF Handle, Receivers
  <2>4. got[x] \in Seq(EventMessage) /\ Ordered(got[x], Repeating)
    BY <1>1 DEF EventsInv, MessagesInOrder
  <2>5. \A n \in DOMAIN got[x] : Before(got[x][n], msg)
    OBVIOUS
  <2>6. PICK seq \in Seq(EventMessage) : seq = got[x]
    BY <2>4
  <2>7. Ordered(seq, Repeating) /\ \A n \in DOMAIN seq : Before(seq[n], msg)
    BY <2>4, <2>5, <2>6
  <2>8. LET longer == seq \o [n \in 1..times |-> msg]
        IN  /\ longer \in Seq(EventMessage)
            /\ \A n \in DOMAIN longer : longer[n] = msg \/ \E m \in DOMAIN seq : longer[n] = seq[m]
            /\ Ordered(longer, Repeating)
    BY <2>2, <2>7, OrderedRepeats
  <2> QED BY <2>3, <2>6, <2>8
<1>4. DOMAIN got' = Receivers /\ got' \in [Receivers -> Seq(EventMessage)]
  <2>1. got' = [x \in Receivers |-> got'[x]]
    BY DEF Handle, Receivers
  <2> QED BY <1>3, <2>1
<1>5. msg.nr \in Nat /\ \A n \in 1..Len(eventWire) : eventWire[n].nr \in Nat
  <2>1. \A m \in EventMessage : m.nr \in Nat
    BY EventsAssumption DEF EventMessage
  <2>2. \A n \in 1..Len(eventWire) : eventWire[n] \in EventMessage
    BY <1>1, ElementOfSeq
  <2> QED BY <2>1, <2>2
<1>6. ASSUME NEW x \in Receivers, NEW n \in DOMAIN got'[x]
      PROVE  /\ got'[x][n].nr <= events'
             /\ \A m \in DOMAIN eventWire' : Before(got'[x][n], eventWire'[m])
  <2>1. CASE got'[x][n] = msg
    BY <2>1
  <2>2. CASE got'[x][n] # msg
    <3>1. PICK m \in DOMAIN got[x] : got'[x][n] = got[x][m]
      BY <1>3, <2>2
    <3>2. got[x][m].nr <= events /\ \A k \in DOMAIN eventWire : Before(got[x][m], eventWire[k])
      BY DEF EventsInv, MessagesInOrder
    <3>3. got[x][m].nr \in Nat
      <4>1. got[x] \in Seq(EventMessage) /\ m \in 1..Len(got[x])
        BY <1>1
      <4>2. got[x][m] \in EventMessage
        BY <4>1, ElementOfSeq
      <4> QED BY <4>2, EventsAssumption DEF EventMessage
    <3>4. got[x][m].nr <= events'
      BY <1>1, <3>2, <3>3
    <3> QED BY <1>2, <3>1, <3>2, <3>4
  <2> QED BY <2>1, <2>2
<1>7. \A n \in DOMAIN eventWire' : eventWire'[n].nr <= events'
  <2>1. ASSUME NEW n \in DOMAIN eventWire' PROVE eventWire'[n].nr <= events'
    <3>1. PICK m \in DOMAIN eventWire : eventWire'[n] = eventWire[m]
      BY <1>2
    <3>2. eventWire[m].nr <= events /\ eventWire[m].nr \in Nat
      BY <1>1, <1>5 DEF EventsInv, MessagesInOrder
    <3> QED BY <1>1, <3>1, <3>2
  <2> QED BY <2>1
<1>8. Repeating' = Repeating
  BY DEF Repeating
<1>9. SeenMessages' \subseteq SeenMessages \union {msg}
  BY <1>2, <1>3 DEF SeenMessages
<1> QED BY <1>2, <1>3, <1>4, <1>6, <1>7, <1>8, <1>9 DEF MessagesInOrder

\* subscribe.
LEMMA SubscribeStep ==
    ASSUME EventsInv, NEW ch \in Channels, NEW h \in EventHandlers, NEW accepted, Subscribe(ch, h, accepted),
           UNCHANGED <<events, got>>
    PROVE  EventsInv'
<1>1. /\ handlers' = [handlers EXCEPT ![ch] = h]
      /\ again' = IF handlers[ch] # None THEN again \union {ch} ELSE again
      /\ listeners' = IF overRedis THEN listeners ELSE [listeners EXCEPT ![ch] = Append(listeners[ch], h)]
      /\ UNCHANGED <<overRedis, eventWire, unanswered, executed>>
  BY DEF Subscribe, publishVars
<1>2. h # None /\ handlers \in [Channels -> EventHandlers \union {None}] /\ listeners \in [Channels -> Seq(EventHandlers)]
  BY EventsAssumption DEF EventHandlers, EventsInv, EventsTyped
<1>3. EventsTyped'
  BY <1>1, <1>2 DEF EventsInv, EventsTyped
<1>4. MessagesInOrder'
  <2>1. Repeating \subseteq Repeating'
    BY <1>1 DEF Repeating
  <2>2. ASSUME NEW x \in Receivers PROVE Ordered(got[x], Repeating')
    BY <2>1 DEF EventsInv, MessagesInOrder, Ordered
  <2> QED BY <1>1, <2>2 DEF EventsInv, MessagesInOrder
<1>6. PublishesInOrder'
  <2>1. SeenMessages' = SeenMessages /\ events \in Nat /\ events <= events
    BY <1>1, EventsAreMessages DEF SeenMessages
  <2> QED BY <1>1, <2>1, PublishesAreKept DEF publishVars
<1>5. ASSUME NEW c \in Channels PROVE HandlerIsAttached(c)'
  <2>1. CASE c # ch
    <3>1. handlers'[c] = handlers[c] /\ listeners'[c] = listeners[c] /\ (c \in again' <=> c \in again)
      BY <1>1, <1>2, <2>1
    <3> QED BY <1>1, <3>1 DEF EventsInv, HandlerIsAttached
  <2>2. CASE c = ch /\ overRedis
    BY <1>1, <2>2 DEF EventsInv, HandlerIsAttached
  <2>3. CASE c = ch /\ ~overRedis
    <3>1. handlers'[c] = h /\ listeners'[c] = Append(listeners[c], h)
      BY <1>1, <1>2, <2>3
    <3>2. Len(listeners'[c]) = Len(listeners[c]) + 1 /\ listeners'[c][Len(listeners[c]) + 1] = h /\ Len(listeners[c]) \in Nat
      BY <1>2, <3>1
    <3>3. c \notin again' => listeners'[c] = <<h>>
      <4>1. c \notin again' => handlers[c] = None /\ c \notin again
        BY <1>1, <2>3
      <4>2. c \notin again' => listeners[c] = <<>>
        BY <2>3, <4>1 DEF EventsInv, HandlerIsAttached
      <4>3. Append(<<>>, h) = <<h>>
        OBVIOUS
      <4> QED BY <3>1, <4>2, <4>3
    <3>4. Len(listeners'[c]) > 0 /\ listeners'[c][Len(listeners'[c])] = handlers'[c]
      BY <3>1, <3>2
    <3>5. listeners'[c] = <<h>> => listeners'[c] = IF handlers'[c] = None THEN <<>> ELSE <<handlers'[c]>>
      BY <1>2, <3>1
    <3>6. ~overRedis'
      BY <1>1, <2>3
    <3> QED BY <3>3, <3>4, <3>5, <3>6 DEF HandlerIsAttached
  <2> QED BY <2>1, <2>2, <2>3
<1> QED BY <1>1, <1>3, <1>4, <1>5, <1>6 DEF EventsInv

\* unsubscribe: the last listener is the one removed.
LEMMA UnsubscribeStep ==
    ASSUME EventsInv, NEW ch \in Channels, NEW accepted, Unsubscribe(ch, accepted),
           UNCHANGED <<events, got, again>>
    PROVE  EventsInv'
<1>1. /\ handlers' = [handlers EXCEPT ![ch] = None]
      /\ listeners' = IF overRedis THEN listeners ELSE [listeners EXCEPT ![ch] = Detached(ch)]
      /\ ~overRedis => handlers[ch] # None
      /\ UNCHANGED <<overRedis, eventWire, unanswered, executed>>
  BY DEF Unsubscribe, publishVars
<1>2. handlers \in [Channels -> EventHandlers \union {None}] /\ listeners \in [Channels -> Seq(EventHandlers)]
  BY DEF EventsInv, EventsTyped
<1>3. ASSUME ~overRedis
      PROVE  /\ Detached(ch) \in Seq(EventHandlers)
             /\ Len(listeners[ch]) = 1 => Detached(ch) = <<>>
  <2>1. PICK seq \in Seq(EventHandlers) : seq = listeners[ch]
    BY <1>2
  <2>2. /\ Len(seq) \in Nat /\ Len(seq) > 0 /\ seq[Len(seq)] = handlers[ch] /\ DOMAIN seq = 1..Len(seq)
    <3>1. Len(listeners[ch]) > 0 /\ listeners[ch][Len(listeners[ch])] = handlers[ch]
      BY <1>1, <1>3 DEF EventsInv, HandlerIsAttached
    <3> QED BY <2>1, <3>1
  <2>3. Len(seq) \in DOMAIN seq /\ (Len(seq) + 1)..Len(seq) = {}
    BY <2>2
  <2>4. ASSUME NEW n \in DOMAIN seq, seq[n] = handlers[ch], \A m \in (n + 1)..Len(seq) : seq[m] # handlers[ch]
        PROVE  n = Len(seq)
    <3>1. n < Len(seq) => Len(seq) \in (n + 1)..Len(seq)
      BY <2>2
    <3> QED BY <2>2, <2>4, <3>1
  <2>5. (CHOOSE n \in DOMAIN seq : seq[n] = handlers[ch] /\ \A m \in (n + 1)..Len(seq) : seq[m] # handlers[ch])
           = Len(seq)
    BY <2>2, <2>3, <2>4
  <2>6. Detached(ch) = SubSeq(seq, 1, Len(seq) - 1) \o SubSeq(seq, Len(seq) + 1, Len(seq))
    BY <2>1, <2>5 DEF Detached
  <2>7. SubSeq(seq, 1, Len(seq) - 1) \in Seq(EventHandlers) /\ SubSeq(seq, Len(seq) + 1, Len(seq)) = <<>>
    <3>1. \A n \in 1..(Len(seq) - 1) : seq[n] \in EventHandlers
      BY <2>2, ElementOfSeq
    <3> QED BY <2>2, <3>1, SubSeqProperties, SubSeqEmpty
  <2>8. Detached(ch) = SubSeq(seq, 1, Len(seq) - 1)
    BY <2>6, <2>7, ConcatEmptySeq
  <2>9. Len(seq) = 1 => SubSeq(seq, 1, Len(seq) - 1) = <<>>
    BY SubSeqEmpty
  <2> QED BY <2>1, <2>7, <2>8, <2>9
<1>4. EventsTyped'
  BY <1>1, <1>2, <1>3 DEF EventsInv, EventsTyped
<1>5. MessagesInOrder'
  <2>1. Repeating' = Repeating
    BY <1>1 DEF Repeating
  <2> QED BY <1>1, <2>1 DEF EventsInv, MessagesInOrder
<1>6. PublishesInOrder'
  <2>1. SeenMessages' = SeenMessages /\ events \in Nat /\ events <= events
    BY <1>1, EventsAreMessages DEF SeenMessages
  <2> QED BY <1>1, <2>1, PublishesAreKept DEF publishVars
<1>7. ASSUME NEW c \in Channels PROVE HandlerIsAttached(c)'
  <2>1. CASE c # ch
    <3>1. handlers'[c] = handlers[c] /\ listeners'[c] = listeners[c]
      BY <1>1, <1>2, <2>1
    <3> QED BY <1>1, <3>1 DEF EventsInv, HandlerIsAttached
  <2>2. CASE c = ch /\ overRedis
    BY <1>1, <2>2 DEF EventsInv, HandlerIsAttached
  <2>3. CASE c = ch /\ ~overRedis
    <3>1. handlers'[c] = None /\ listeners'[c] = Detached(c)
      BY <1>1, <1>2, <2>3
    <3>2. c \notin again => Len(listeners[c]) = 1
      <4>1. PICK h : h = handlers[c]
        OBVIOUS
      <4>2. h # None /\ (c \notin again => listeners[c] = <<h>>)
        BY <1>1, <2>3, <4>1 DEF EventsInv, HandlerIsAttached
      <4> QED BY <4>2
    <3>3. c \notin again => listeners'[c] = <<>>
      BY <1>3, <2>3, <3>1, <3>2
    <3>4. ~overRedis' /\ again' = again
      BY <1>1, <2>3
    <3> QED BY <3>1, <3>3, <3>4 DEF HandlerIsAttached
  <2> QED BY <2>1, <2>2, <2>3
<1> QED BY <1>1, <1>4, <1>5, <1>6, <1>7 DEF EventsInv

\* publish: a new message is handled at once or waits to be executed by Redis.
LEMMA PublishStep ==
    ASSUME EventsInv, NEW ch \in Channels, NEW p \in ClientOrgs, PublishEvent(ch, p)
    PROVE  EventsInv'
<1> DEFINE published == [nr |-> events + 1, channel |-> ch, project |-> p, sent |-> 1]
<1>1. /\ events < MaxEvents /\ events' = events + 1 /\ Publish(published)
      /\ UNCHANGED <<overRedis, handlers, listeners, again, executed, eventWire>>
  <2>1. /\ events < MaxEvents /\ events' = events + 1
        /\ UNCHANGED <<overRedis, handlers, listeners, again, executed, eventWire>>
    BY DEF PublishEvent
  <2>2. Publish([nr |-> events', channel |-> ch, project |-> p, sent |-> 1])
    BY DEF PublishEvent
  <2> QED BY <2>1, <2>2
<1>2. PICK msg \in EventMessage : msg = published
  <2>1. events + 1 \in 1..MaxEvents
    BY <1>1, EventsAssumption DEF EventsInv, EventsTyped
  <2>2. published \in EventMessage
    BY <2>1, EventsAssumption DEF EventMessage
  <2> HIDE DEF published
  <2> QED BY <2>2
<1>3. Publish(msg) /\ msg.nr = events + 1 /\ msg.channel = ch /\ msg.sent = 1
  BY <1>1, <1>2
<1>4. /\ events \in Nat /\ events' \in 0..MaxEvents /\ events <= events'
      /\ eventWire \in Seq(EventMessage) /\ got \in [Receivers -> Seq(EventMessage)]
      /\ listeners \in [Channels -> Seq(EventHandlers)]
  BY <1>1, EventsAssumption DEF EventsInv, EventsTyped
<1>5. \A m \in EventMessage : m.nr \in Nat
  BY EventsAssumption DEF EventMessage
<1>6. \A c \in Channels : HandlerIsAttached(c)'
  BY <1>1 DEF EventsInv, HandlerIsAttached
<1>7. ASSUME NEW x \in Receivers, NEW n \in DOMAIN got[x] PROVE Before(got[x][n], msg)
  <2>1. got[x][n].nr <= events
    BY DEF EventsInv, MessagesInOrder
  <2>2. got[x][n] \in EventMessage
    <3>1. got[x] \in Seq(EventMessage) /\ n \in 1..Len(got[x])
      BY <1>4
    <3> QED BY <3>1, ElementOfSeq
  <2> QED BY <1>3, <1>4, <1>5, <2>1, <2>2 DEF Before
<1>8. CASE overRedis
  <2>1. unanswered' = Append(unanswered, msg) /\ got' = got
    BY <1>3, <1>8 DEF Publish
  <2>2. unanswered \in Seq(EventMessage) /\ Len(unanswered) \in Nat /\ executed \in 0..Len(unanswered)
    BY EventsAreMessages DEF EventsInv, EventsTyped
  <2>3. /\ unanswered' \in Seq(EventMessage) /\ Len(unanswered') = Len(unanswered) + 1
        /\ DOMAIN unanswered = 1..Len(unanswered) /\ DOMAIN unanswered' = 1..(Len(unanswered) + 1)
        /\ \A k \in DOMAIN unanswered : unanswered'[k] = unanswered[k]
        /\ unanswered'[Len(unanswered) + 1] = msg
    BY <2>1, <2>2
  <2>4. executed' \in 0..Len(unanswered')
    BY <1>1, <2>2, <2>3
  <2>5. EventsTyped'
    BY <1>1, <1>4, <2>1, <2>3, <2>4 DEF EventsInv, EventsTyped
  <2>6. \A m \in Nat : m <= events => m <= events'
    BY <1>4
  <2>7. MessagesInOrder'
    <3>1. Repeating' = Repeating
      BY <1>1 DEF Repeating
    <3>2. ASSUME NEW n \in DOMAIN eventWire PROVE eventWire[n].nr <= events'
      <4>1. eventWire[n] \in SeenMessages
        BY DEF SeenMessages
      <4> QED BY <1>5, <2>6, <4>1, EventsAreMessages
    <3>3. ASSUME NEW x \in Receivers, NEW n \in DOMAIN got[x] PROVE got[x][n].nr <= events'
      <4>1. got[x][n] \in SeenMessages
        BY DEF SeenMessages
      <4> QED BY <1>5, <2>6, <4>1, EventsAreMessages
    <3> QED BY <1>1, <2>1, <3>1, <3>2, <3>3 DEF EventsInv, MessagesInOrder
  <2>8. PublishesInOrder'
    <3>1. \A k \in DOMAIN unanswered' : k \in DOMAIN unanswered \/ (k = Len(unanswered) + 1 /\ unanswered'[k] = msg)
      BY <2>2, <2>3
    <3>2. \A k \in DOMAIN unanswered : unanswered[k].nr <= events /\ unanswered[k].nr \in Nat /\ unanswered[k].sent >= 1
      BY EventsAreMessages DEF EventsInv, PublishesInOrder
    <3>3. \A k \in DOMAIN unanswered' : unanswered'[k].nr <= events'
      BY <1>3, <1>1, <2>3, <2>6, <3>1, <3>2
    <3>4. ASSUME NEW k \in DOMAIN unanswered', NEW n \in DOMAIN unanswered', k < n
          PROVE  unanswered'[k].nr < unanswered'[n].nr /\ unanswered'[n].sent <= unanswered'[k].sent
      <4>1. k \in DOMAIN unanswered
        BY <2>2, <2>3, <3>4
      <4>2. CASE n \in DOMAIN unanswered
        BY <2>3, <3>4, <4>1, <4>2 DEF EventsInv, PublishesInOrder
      <4>3. CASE unanswered'[n] = msg
        BY <1>3, <1>4, <2>3, <3>2, <4>1, <4>3
      <4> QED BY <3>1, <4>2, <4>3
    <3>5. SeenMessages' = SeenMessages
      BY <1>1, <2>1 DEF SeenMessages
    <3>6. ASSUME NEW came \in SeenMessages, NEW k \in DOMAIN unanswered'
          PROVE  /\ k > executed => Before(came, unanswered'[k])
                 /\ came.nr < unanswered'[k].nr \/ came.sent <= unanswered'[k].sent
      <4>1. CASE k \in DOMAIN unanswered
        BY <2>3, <4>1 DEF EventsInv, PublishesInOrder
      <4>2. CASE unanswered'[k] = msg
        <5>1. came.nr < msg.nr
          <6>1. came.nr <= events /\ came.nr \in Nat
            BY EventsAreMessages
          <6> QED BY <1>3, <1>4, <6>1
        <5> QED BY <4>2, <5>1 DEF Before
      <4> QED BY <3>1, <4>1, <4>2
    <3> QED BY <1>1, <3>3, <3>4, <3>5, <3>6 DEF PublishesInOrder
  <2> QED BY <1>1, <1>6, <1>8, <2>5, <2>7, <2>8 DEF EventsInv
<1>9. CASE ~overRedis
  <2>1. PICK called \in Seq(EventHandlers) : called = listeners[ch]
    BY <1>4
  <2>2. /\ Handle(msg, called) /\ eventWire' = eventWire /\ eventWire = <<>>
        /\ unanswered' = unanswered /\ unanswered = <<>>
    BY <1>1, <1>3, <1>9, <2>1 DEF Publish, EventsInv
  <2>3. Len(called) <= 1 \/ ch \in again
    <3>1. PICK h : h = handlers[ch]
      OBVIOUS
    <3>2. ch \in again \/ called = IF h = None THEN <<>> ELSE <<h>>
      BY <1>9, <2>1, <3>1 DEF EventsInv, HandlerIsAttached
    <3>3. called = <<>> => Len(called) <= 1
      OBVIOUS
    <3>4. called = <<h>> => Len(called) <= 1
      OBVIOUS
    <3>5. ch \in again \/ called = <<>> \/ called = <<h>>
      BY <3>2
    <3> QED BY <3>3, <3>4, <3>5
  <2>4. \A n \in DOMAIN eventWire' : Before(msg, eventWire'[n])
    BY <2>2
  <2>5. msg.nr <= events' /\ (Len(called) <= 1 \/ msg.channel \in Repeating)
    BY <1>1, <1>3, <1>4, <1>9, <2>3 DEF Repeating
  <2>6. got' \in [Receivers -> Seq(EventMessage)] /\ MessagesInOrder'
    BY <1>1, <1>4, <1>7, <1>9, <2>2, <2>4, <2>5, HandleStep
  <2>7. EventsTyped'
    BY <1>1, <1>4, <2>2, <2>6 DEF EventsInv, EventsTyped
  <2>8. PublishesInOrder'
    <3>1. events' \in Nat
      BY <1>1, <1>4
    <3> QED BY <1>1, <1>4, <2>2, <3>1, PublishesAreKept DEF publishVars
  <2> QED BY <1>1, <1>6, <1>9, <2>2, <2>6, <2>7, <2>8 DEF EventsInv
<1> QED BY <1>8, <1>9

\* The subscriber takes a message.
LEMMA TakeStep ==
    ASSUME EventsInv, TakeFromWire
    PROVE  EventsInv'
<1>1. /\ eventWire # <<>> /\ eventWire' = Tail(eventWire)
      /\ LET h == handlers[Head(eventWire).channel]
         IN  Handle(Head(eventWire), IF h = None THEN <<>> ELSE <<h>>)
      /\ UNCHANGED <<overRedis, handlers, listeners, unanswered, executed, events, again>>
  BY DEF TakeFromWire, publishVars
<1>2. /\ events \in Nat /\ events' \in 0..MaxEvents /\ events <= events'
      /\ eventWire \in Seq(EventMessage) /\ got \in [Receivers -> Seq(EventMessage)]
      /\ handlers \in [Channels -> EventHandlers \union {None}]
  BY <1>1, EventsAssumption DEF EventsInv, EventsTyped
<1>3. PICK msg \in EventMessage : msg = Head(eventWire)
  BY <1>1, <1>2, HeadTailProperties
<1>4. /\ msg = eventWire[1] /\ 1 \in DOMAIN eventWire
      /\ eventWire' \in Seq(EventMessage)
      /\ \A n \in DOMAIN eventWire' : eventWire'[n] = eventWire[n + 1] /\ n + 1 \in DOMAIN eventWire /\ 1 < n + 1
  <2>1. DOMAIN eventWire = 1..Len(eventWire) /\ Len(eventWire) \in Nat /\ Len(eventWire) # 0
    BY <1>1, <1>2
  <2>2. /\ Head(eventWire) = eventWire[1] /\ eventWire' \in Seq(EventMessage)
        /\ DOMAIN eventWire' = 1..(Len(eventWire) - 1)
        /\ \A n \in 1..(Len(eventWire) - 1) : eventWire'[n] = eventWire[n + 1]
    BY <1>1, <1>2, HeadTailProperties
  <2> QED BY <1>3, <2>1, <2>2
<1>5. PICK h \in EventHandlers \union {None} : h = handlers[msg.channel]
  BY <1>2 DEF EventMessage
<1>6. PICK called \in Seq(EventHandlers) : Handle(msg, called) /\ Len(called) <= 1
  <2>1. CASE h = None
    <3>1. Handle(msg, <<>>)
      BY <1>1, <1>3, <1>5, <2>1
    <3>2. <<>> \in Seq(EventHandlers) /\ Len(<<>>) <= 1
      OBVIOUS
    <3> QED BY <3>1, <3>2
  <2>2. CASE h # None
    <3>1. Handle(msg, <<h>>)
      BY <1>1, <1>3, <1>5, <2>2
    <3>2. <<h>> \in Seq(EventHandlers) /\ Len(<<h>>) <= 1
      BY <2>2
    <3> QED BY <3>1, <3>2
  <2> QED BY <2>1, <2>2
<1>7. \A x \in Receivers : \A n \in DOMAIN got[x] : Before(got[x][n], msg)
  BY <1>4 DEF EventsInv, MessagesInOrder
<1>8. \A n \in DOMAIN eventWire' : Before(msg, eventWire'[n])
  BY <1>4 DEF EventsInv, MessagesInOrder
<1>9. msg.nr <= events'
  BY <1>1, <1>4 DEF EventsInv, MessagesInOrder
<1>10. /\ got' \in [Receivers -> Seq(EventMessage)] /\ MessagesInOrder'
       /\ SeenMessages' \subseteq SeenMessages \union {msg}
  BY <1>1, <1>2, <1>6, <1>7, <1>8, <1>9, HandleStep
<1>11. EventsTyped'
  BY <1>1, <1>2, <1>4, <1>10 DEF EventsInv, EventsTyped
<1>12. \A c \in Channels : HandlerIsAttached(c)'
  BY <1>1 DEF EventsInv, HandlerIsAttached
<1>13. overRedis' 
  BY <1>1 DEF EventsInv
<1>14. PublishesInOrder'
  <2>1. msg \in SeenMessages
    BY <1>4 DEF SeenMessages
  <2>2. SeenMessages' \subseteq SeenMessages
    BY <1>10, <2>1
  <2> QED BY <1>1, <1>2, <2>2, PublishesAreKept DEF publishVars
<1> QED BY <1>10, <1>11, <1>12, <1>13, <1>14 DEF EventsInv

\* The wire loses what is on it, and perhaps the listeners and commands with it.
LEMMA WireEndsStep ==
    ASSUME EventsInv, LoseWire \/ CloseBus
    PROVE  EventsInv'
<1>1. /\ eventWire' = <<>> /\ UNCHANGED <<overRedis, events, got, again>>
      /\ UNCHANGED publishVars \/ (unanswered' = <<>> /\ executed' = 0)
  BY DEF LoseWire, CloseBus
<1>2. \/ UNCHANGED <<handlers, listeners>>
      \/ handlers' = [ch \in Channels |-> None] /\ listeners' = [ch \in Channels |-> <<>>]
  BY DEF LoseWire, CloseBus
<1>3. \A ch \in Channels : HandlerIsAttached(ch)'
  BY <1>1, <1>2 DEF EventsInv, HandlerIsAttached
<1>4. EventsTyped'
  <2>1. /\ unanswered' \in Seq(EventMessage) /\ executed' \in 0..Len(unanswered')
        /\ eventWire' \in Seq(EventMessage)
    <3>1. /\ unanswered \in Seq(EventMessage) /\ executed \in 0..Len(unanswered)
          /\ <<>> \in Seq(EventMessage) /\ 0 \in 0..Len(<<>>)
      BY EmptySeq DEF EventsInv, EventsTyped
    <3>2. CASE UNCHANGED publishVars
      BY <1>1, <3>1, <3>2 DEF publishVars
    <3>3. CASE unanswered' = <<>> /\ executed' = 0
      BY <1>1, <3>1, <3>3
    <3> QED BY <1>1, <3>2, <3>3
  <2> QED BY <1>1, <1>2, <2>1, EmptySeq DEF EventsInv, EventsTyped
<1>5. MessagesInOrder'
  <2>1. Repeating' = Repeating
    BY <1>1 DEF Repeating
  <2> QED BY <1>1, <2>1 DEF EventsInv, MessagesInOrder
<1>6. PublishesInOrder'
  <2>1. SeenMessages' \subseteq SeenMessages /\ events \in Nat /\ events <= events
    BY <1>1, EventsAreMessages DEF SeenMessages
  <2>2. CASE UNCHANGED publishVars
    BY <1>1, <2>1, <2>2, PublishesAreKept
  <2>3. CASE unanswered' = <<>>
    BY <2>3 DEF PublishesInOrder
  <2> QED BY <1>1, <2>2, <2>3
<1> QED BY <1>1, <1>3, <1>4, <1>5, <1>6 DEF EventsInv, publishVars

\* Redis executes the next PUBLISH: it comes after all that Redis sent.
LEMMA ExecuteStep ==
    ASSUME EventsInv, NEW replied \in BOOLEAN, ExecutePublish(replied)
    PROVE  EventsInv'
<1>1. PICK next \in DOMAIN unanswered : next = executed + 1
  <2>1. executed < Len(unanswered)
    BY DEF ExecutePublish
  <2> QED BY <2>1, EventsAreMessages
<1>2. PICK msg \in EventMessage : msg = unanswered[next]
  BY <1>1, EventsAreMessages
<1>3. /\ \/ executed = 0 /\ executed' = 0 /\ unanswered' = Tail(unanswered)
         \/ executed' = next /\ unanswered' = unanswered
      /\ eventWire' = Append(eventWire, msg) \/ eventWire' = eventWire
      /\ UNCHANGED <<overRedis, handlers, listeners, events, got, again>>
  BY <1>1, <1>2 DEF ExecutePublish
<1>4. /\ eventWire \in Seq(EventMessage) /\ unanswered \in Seq(EventMessage)
      /\ DOMAIN unanswered = 1..Len(unanswered) /\ Len(unanswered) \in Nat
      /\ executed \in Nat /\ next \in Nat /\ unanswered # <<>>
  BY <1>1, EventsAreMessages DEF EventsInv, EventsTyped
<1>5. \A came \in SeenMessages : Before(came, msg) /\ came \in EventMessage /\ came.nr <= events
  <2>1. next > executed
    BY <1>1, <1>4
  <2>2. \A came \in SeenMessages : Before(came, unanswered[next])
    BY <2>1 DEF EventsInv, PublishesInOrder
  <2> QED BY <1>2, <2>2, EventsAreMessages
<1>6. msg.nr <= events
  BY <1>1, <1>2 DEF EventsInv, PublishesInOrder
<1>7. /\ eventWire' \in Seq(EventMessage)
      /\ \A n \in DOMAIN eventWire' :
            \/ n \in DOMAIN eventWire /\ eventWire'[n] = eventWire[n]
            \/ n = Len(eventWire) + 1 /\ eventWire'[n] = msg
      /\ DOMAIN eventWire = 1..Len(eventWire) /\ Len(eventWire) \in Nat
      /\ \A n \in DOMAIN eventWire' : n \in Nat
  <2>1. CASE eventWire' = Append(eventWire, msg)
    BY <1>4, <2>1
  <2>2. CASE eventWire' = eventWire
    BY <1>4, <2>2
  <2> QED BY <1>3, <2>1, <2>2
<1>8. \A n \in DOMAIN eventWire : eventWire[n] \in SeenMessages
  BY DEF SeenMessages
<1>9. \A x \in Receivers : \A n \in DOMAIN got[x] : got[x][n] \in SeenMessages
  BY DEF SeenMessages
<1>10. MessagesInOrder'
  <2>1. \A n \in DOMAIN eventWire' : eventWire'[n].nr <= events
    BY <1>5, <1>6, <1>7, <1>8
  <2>2. ASSUME NEW m \in DOMAIN eventWire', NEW n \in DOMAIN eventWire', m < n
        PROVE  Before(eventWire'[m], eventWire'[n])
    <3>1. CASE n \in DOMAIN eventWire /\ eventWire'[n] = eventWire[n]
      <4>1. m \in DOMAIN eventWire /\ eventWire'[m] = eventWire[m]
        BY <1>7, <2>2, <3>1
      <4> QED BY <2>2, <3>1, <4>1 DEF EventsInv, MessagesInOrder
    <3>2. CASE n = Len(eventWire) + 1 /\ eventWire'[n] = msg
      <4>1. m \in DOMAIN eventWire /\ eventWire'[m] = eventWire[m]
        BY <1>7, <2>2, <3>2
      <4> QED BY <1>5, <1>8, <3>2, <4>1
    <3> QED BY <1>7, <3>1, <3>2
  <2>3. ASSUME NEW x \in Receivers, NEW m \in DOMAIN got[x]
        PROVE  got[x][m].nr <= events /\ \A n \in DOMAIN eventWire' : Before(got[x][m], eventWire'[n])
    <3>1. \A n \in DOMAIN eventWire : Before(got[x][m], eventWire[n])
      BY DEF EventsInv, MessagesInOrder
    <3> QED BY <1>5, <1>7, <1>9, <3>1
  <2>4. Repeating' = Repeating
    BY <1>3 DEF Repeating
  <2> QED BY <1>3, <2>1, <2>2, <2>3, <2>4 DEF EventsInv, MessagesInOrder
<1>11. SeenMessages' \subseteq SeenMessages \union {msg}
  BY <1>3, <1>7 DEF SeenMessages
<1>12. /\ \A k \in DOMAIN unanswered : unanswered[k].nr <= events /\ unanswered[k] \in EventMessage
       /\ \A k, n \in DOMAIN unanswered : k < n =>
             unanswered[k].nr < unanswered[n].nr /\ unanswered[n].sent <= unanswered[k].sent
  BY EventsAreMessages DEF EventsInv, PublishesInOrder
<1>13. ASSUME NEW k \in DOMAIN unanswered, k > executed, k # next
       PROVE  msg.nr < unanswered[k].nr
  <2>1. next < k
    BY <1>1, <1>4, <1>13
  <2> QED BY <1>2, <1>12, <2>1
<1>14. ASSUME NEW k \in DOMAIN unanswered
       PROVE  msg.nr < unanswered[k].nr \/ msg.sent <= unanswered[k].sent
  <2>1. k < next \/ k = next \/ next < k
    BY <1>4
  <2>2. msg.sent \in Nat
    BY EventsAreMessages
  <2> QED BY <1>2, <1>12, <2>1, <2>2
<1>15. CASE executed' = next /\ unanswered' = unanswered
  <2>1. EventsTyped'
    BY <1>1, <1>3, <1>4, <1>7, <1>15 DEF EventsInv, EventsTyped
  <2>2. ASSUME NEW came \in SeenMessages', NEW k \in DOMAIN unanswered
        PROVE  /\ k > next => Before(came, unanswered[k])
               /\ came.nr < unanswered[k].nr \/ came.sent <= unanswered[k].sent
    <3>1. CASE came \in SeenMessages
      <4>1. k > next => k > executed
        BY <1>1, <1>4
      <4> QED BY <3>1, <4>1 DEF EventsInv, PublishesInOrder
    <3>2. CASE came = msg
      <4>1. k > next => k > executed /\ k # next
        BY <1>1, <1>4
      <4> QED BY <1>13, <1>14, <3>2, <4>1 DEF Before
    <3> QED BY <1>11, <3>1, <3>2
  <2>3. PublishesInOrder'
    BY <1>3, <1>12, <1>15, <2>2 DEF PublishesInOrder
  <2> QED BY <1>3, <1>10, <1>15, <2>1, <2>3 DEF EventsInv, HandlerIsAttached
<1>16. CASE executed = 0 /\ executed' = 0 /\ unanswered' = Tail(unanswered)
  <2>1. /\ unanswered' \in Seq(EventMessage) /\ Len(unanswered') \in Nat
        /\ DOMAIN unanswered' = 1..(Len(unanswered) - 1)
        /\ \A k \in DOMAIN unanswered' : unanswered'[k] = unanswered[k + 1]
    BY <1>4, <1>16, HeadTailProperties
  <2>2. \A k \in DOMAIN unanswered' : k \in Nat /\ k > 0 /\ k + 1 \in DOMAIN unanswered /\ k + 1 > executed /\ k + 1 # next
    BY <1>1, <1>4, <1>16, <2>1
  <2>3. EventsTyped'
    BY <1>3, <1>7, <1>16, <2>1 DEF EventsInv, EventsTyped
  <2>4. ASSUME NEW k \in DOMAIN unanswered', NEW n \in DOMAIN unanswered', k < n
        PROVE  unanswered'[k].nr < unanswered'[n].nr /\ unanswered'[n].sent <= unanswered'[k].sent
    <3>1. k + 1 < n + 1
      BY <2>2, <2>4
    <3> QED BY <1>12, <2>1, <2>2, <3>1
  <2>5. ASSUME NEW came \in SeenMessages', NEW k \in DOMAIN unanswered'
        PROVE  /\ Before(came, unanswered'[k])
               /\ came.nr < unanswered'[k].nr \/ came.sent <= unanswered'[k].sent
    <3>1. CASE came \in SeenMessages
      BY <2>1, <2>2, <3>1 DEF EventsInv, PublishesInOrder
    <3>2. CASE came = msg
      BY <1>13, <2>1, <2>2, <3>2 DEF Before
    <3> QED BY <1>11, <3>1, <3>2
  <2>6. \A k \in DOMAIN unanswered' : unanswered'[k].nr <= events'
    BY <1>3, <1>12, <2>1, <2>2
  <2>7. PublishesInOrder'
    BY <2>4, <2>5, <2>6 DEF PublishesInOrder
  <2>8. overRedis'
    BY <1>3, <1>4 DEF EventsInv
  <2> QED BY <1>3, <1>10, <2>3, <2>7, <2>8 DEF EventsInv, HandlerIsAttached
<1> QED BY <1>3, <1>15, <1>16

\* The shared client sends again what has no reply: to Redis all of it is new.
LEMMA ResendStep ==
    ASSUME EventsInv, LosePublisher
    PROVE  EventsInv'
<1> DEFINE resent == [k \in DOMAIN unanswered |-> [unanswered[k] EXCEPT !.sent = @ + 1]]
<1>1. /\ unanswered' = resent /\ executed' = 0
      /\ \A k \in DOMAIN unanswered : unanswered[k].sent < MaxSends
      /\ UNCHANGED <<overRedis, handlers, listeners, eventWire, events, got, again>>
  BY DEF LosePublisher
<1>2. /\ unanswered \in Seq(EventMessage) /\ DOMAIN unanswered = 1..Len(unanswered)
      /\ Len(unanswered) \in Nat /\ MaxSends \in Nat
  BY EventsAssumption, EventsAreMessages DEF EventsInv, EventsTyped
<1>3. ASSUME NEW k \in DOMAIN unanswered
      PROVE  /\ resent[k] \in EventMessage
             /\ resent[k].nr = unanswered[k].nr /\ resent[k].sent = unanswered[k].sent + 1
             /\ unanswered[k].nr \in Nat /\ unanswered[k].sent \in Nat
  <2>1. PICK msg \in EventMessage : msg = unanswered[k]
    BY EventsAreMessages
  <2>2. msg.sent \in 1..MaxSends /\ msg.sent < MaxSends /\ msg.nr \in Nat
    BY <1>1, <2>1, EventsAreMessages DEF EventMessage
  <2>3. resent[k] = [msg EXCEPT !.sent = @ + 1]
    BY <2>1
  <2>4. msg.sent + 1 \in 1..MaxSends
    BY <1>2, <2>2
  <2> QED BY <2>1, <2>2, <2>3, <2>4 DEF EventMessage
<1>4. /\ unanswered' \in Seq(EventMessage) /\ Len(unanswered') = Len(unanswered)
      /\ DOMAIN unanswered' = DOMAIN unanswered
  <2>1. \A k \in 1..Len(unanswered) : resent[k] \in EventMessage
    BY <1>2, <1>3
  <2>2. DOMAIN resent = 1..Len(unanswered)
    BY <1>2
  <2> HIDE DEF resent
  <2>3. resent = [k \in 1..Len(unanswered) |-> resent[k]]
    BY <2>2 DEF resent
  <2>4. resent \in [1..Len(unanswered) -> EventMessage]
    BY <2>1, <2>3
  <2> QED BY <1>1, <1>2, <2>4
<1>5. \A k \in DOMAIN unanswered : unanswered'[k].nr = unanswered[k].nr /\ unanswered'[k].sent = unanswered[k].sent + 1
  BY <1>1, <1>3
<1> HIDE DEF resent
<1>6. EventsTyped'
  <2>1. executed' \in 0..Len(unanswered')
    BY <1>1, <1>2, <1>4
  <2> QED BY <1>1, <1>4, <2>1 DEF EventsInv, EventsTyped
<1>7. MessagesInOrder'
  <2>1. Repeating' = Repeating
    BY <1>1 DEF Repeating
  <2> QED BY <1>1, <2>1 DEF EventsInv, MessagesInOrder
<1>8. PublishesInOrder'
  <2>1. SeenMessages' = SeenMessages
    BY <1>1 DEF SeenMessages
  <2>2. ASSUME NEW came \in SeenMessages, NEW k \in DOMAIN unanswered
        PROVE  came.nr < unanswered'[k].nr \/ came.sent < unanswered'[k].sent
    <3>1. came.nr < unanswered[k].nr \/ came.sent <= unanswered[k].sent
      BY DEF EventsInv, PublishesInOrder
    <3>2. came.sent \in Nat
      BY EventsAreMessages
    <3> QED BY <1>3, <1>5, <3>1, <3>2
  <2>3. ASSUME NEW came \in SeenMessages, NEW k \in DOMAIN unanswered
        PROVE  /\ Before(came, unanswered'[k])
               /\ came.nr < unanswered'[k].nr \/ came.sent <= unanswered'[k].sent
    <3>1. came.sent \in Nat /\ unanswered'[k].sent \in Nat
      BY <1>3, <1>5, EventsAreMessages
    <3> QED BY <2>2, <3>1 DEF Before
  <2>4. \A k, n \in DOMAIN unanswered : k < n =>
           unanswered'[k].nr < unanswered'[n].nr /\ unanswered'[n].sent <= unanswered'[k].sent
    BY <1>3, <1>5 DEF EventsInv, PublishesInOrder
  <2>5. \A k \in DOMAIN unanswered : unanswered'[k].nr <= events
    BY <1>5 DEF EventsInv, PublishesInOrder
  <2> QED BY <1>1, <1>4, <2>1, <2>3, <2>4, <2>5 DEF PublishesInOrder
<1>9. overRedis
  BY DEF EventsInv, LosePublisher
<1> QED BY <1>1, <1>6, <1>7, <1>8, <1>9 DEF EventsInv, HandlerIsAttached

\* The shared client gives up its commands.
LEMMA FailStep ==
    ASSUME EventsInv, FailPublishes
    PROVE  EventsInv'
<1>1. /\ unanswered' = <<>> /\ executed' = 0
      /\ UNCHANGED <<overRedis, handlers, listeners, eventWire, events, got, again>>
  BY DEF FailPublishes
<1>2. EventsTyped' /\ PublishesInOrder'
  <2>1. <<>> \in Seq(EventMessage) /\ 0 \in 0..Len(<<>>)
    BY EmptySeq
  <2> QED BY <1>1, <2>1 DEF EventsInv, EventsTyped, PublishesInOrder
<1>3. MessagesInOrder'
  <2>1. Repeating' = Repeating
    BY <1>1 DEF Repeating
  <2> QED BY <1>1, <2>1 DEF EventsInv, MessagesInOrder
<1> QED BY <1>1, <1>2, <1>3 DEF EventsInv, HandlerIsAttached

\* Every step.
LEMMA EventsStep ==
    ASSUME EventsInv, [EventsNext]_eventVars
    PROVE  EventsInv'
<1>1. ASSUME UNCHANGED <<overRedis, handlers, listeners, eventWire, unanswered, executed, events, got, again>>
      PROVE  EventsInv'
  <2>1. EventsTyped' /\ MessagesInOrder' /\ PublishesInOrder'
    <3>1. Repeating' = Repeating /\ SeenMessages' = SeenMessages
      BY <1>1 DEF Repeating, SeenMessages
    <3> QED BY <1>1, <3>1 DEF EventsInv, EventsTyped, MessagesInOrder, PublishesInOrder
  <2>2. \A ch \in Channels : HandlerIsAttached(ch)'
    BY <1>1 DEF EventsInv, HandlerIsAttached
  <2> QED BY <1>1, <2>1, <2>2 DEF EventsInv
<1>2. StartEvents \/ EventsUp \/ UNCHANGED eventVars => EventsInv'
  BY <1>1 DEF StartEvents, EventsUp, eventVars, busVars, publishVars
<1>3. ASSUME NEW c \in Clients, NEW o \in ClientOrgs \union {"default"}, DisconnectClient(c) \/ ConnectClient(c, o)
      PROVE  EventsInv'
  BY <1>1, <1>3 DEF DisconnectClient, ConnectClient, busVars, publishVars
<1>4. ASSUME NEW ch \in Channels, NEW accepted \in BOOLEAN, CloseChannel(ch, accepted)
      PROVE  EventsInv'
  BY <1>1, <1>4 DEF CloseChannel, publishVars
<1>5. ASSUME NEW ch \in Channels, NEW accepted \in BOOLEAN, ForwardChannel(ch, accepted)
      PROVE  EventsInv'
  BY <1>5, SubscribeStep DEF ForwardChannel, EventHandlers
<1>6. ASSUME NEW ch \in Channels, NEW accepted \in BOOLEAN, NEW h \in Subscribers, EmbedderSubscribes(ch, h, accepted)
      PROVE  EventsInv'
  BY <1>6, SubscribeStep DEF EmbedderSubscribes, EventHandlers
<1>7. ASSUME NEW ch \in Channels, NEW accepted \in BOOLEAN, EmbedderUnsubscribes(ch, accepted)
      PROVE  EventsInv'
  BY <1>7, UnsubscribeStep DEF EmbedderUnsubscribes
<1>8. ASSUME NEW c \in Clients, DisconnectClient(c)
      PROVE  EventsInv'
  BY <1>3, <1>8
<1> QED
  BY <1>2, <1>3, <1>4, <1>5, <1>6, <1>7, <1>8, PublishStep, TakeStep, WireEndsStep, ExecuteStep,
     ResendStep, FailStep DEF EventsNext

\* EventsInv holds in every state.
LEMMA EventsInvariant == EventsSpec => []EventsInv
<1>1. EventsInit => EventsInv
  <2> SUFFICES ASSUME EventsInit PROVE EventsInv
    OBVIOUS
  <2>1. /\ overRedis \in BOOLEAN /\ handlers = [ch \in Channels |-> None] /\ listeners = [ch \in Channels |-> <<>>]
        /\ eventWire = <<>> /\ unanswered = <<>> /\ executed = 0
        /\ events = 0 /\ got = [x \in Receivers |-> <<>>]
    BY DEF EventsInit, Receivers
  <2>2. EventsTyped
    BY <2>1, EmptySeq, EventsAssumption DEF EventsTyped
  <2>3. MessagesInOrder /\ PublishesInOrder
    BY <2>1 DEF MessagesInOrder, PublishesInOrder, Ordered
  <2>4. \A ch \in Channels : HandlerIsAttached(ch)
    BY <2>1 DEF HandlerIsAttached
  <2> QED BY <2>1, <2>2, <2>3, <2>4 DEF EventsInv
<1>2. EventsInv /\ [EventsNext]_eventVars => EventsInv'
  BY EventsStep
<1> QED BY <1>1, <1>2, PTL DEF EventsSpec

\* Events reach each receiver in the order of their publication, and again only from a
\* later connection of the shared client or, in memory, on a channel subscribed to
\* again, for any number of channels, handlers, clients, events and broken connections:
\* event-bus.ts and broadcastEvent.
THEOREM EventsGoInOrder == EventsSpec => []EventsInOrder
<1>1. EventsInv => EventsInOrder
  BY DEF EventsInv, MessagesInOrder, Ordered, Before, Repeating, EventsInOrder, Receivers
<1> QED BY <1>1, EventsInvariant, PTL

-----------------------------------------------------------------------------
(* RateLimiter.                                                            *)

\* Ages as requests get them: those of an age or older come first.
OldestFirst(ages) ==
    \A a \in 0..WindowTicks : \E n \in 0..Len(ages) : \A i \in DOMAIN ages : i <= n <=> ages[i] >= a

\* The requests of the current window and those before it are at most the limit each.
Windowed(entry, ages, limit) ==
    IF entry = None \/ entry.age > WindowTicks THEN Len(ages) <= limit
    ELSE \E m \in 0..Len(ages) :
            /\ m <= limit /\ Len(ages) - m <= limit /\ Len(ages) - m <= entry.count
            /\ \A i \in 1..m : ages[i] >= entry.age

KeyHolds(k) ==
    /\ rateLimits[k] \in [count : 1..(RateLimit[k] + 1), age : 0..Past] \union {None}
    /\ passed[k] \in Seq(0..WindowTicks) /\ OldestFirst(passed[k])
    /\ Windowed(rateLimits[k], passed[k], RateLimit[k])

RateInv ==
    /\ DOMAIN rateLimits = RateKeys /\ DOMAIN passed = RateKeys
    /\ \A k \in RateKeys : KeyHolds(k)

\* A request is let through.
LEMMA OldestFirstAppend ==
    ASSUME NEW ages \in Seq(0..WindowTicks), OldestFirst(ages)
    PROVE  Append(ages, 0) \in Seq(0..WindowTicks) /\ OldestFirst(Append(ages, 0))
<1> DEFINE longer == Append(ages, 0)
<1>1. WindowTicks \in Nat /\ 0 \in 0..WindowTicks
  BY RateAssumption
<1>2. /\ longer \in Seq(0..WindowTicks) /\ Len(longer) = Len(ages) + 1 /\ Len(ages) \in Nat
      /\ DOMAIN longer = 1..(Len(ages) + 1) /\ DOMAIN ages = 1..Len(ages)
      /\ \A i \in 1..Len(ages) : longer[i] = ages[i]
      /\ longer[Len(ages) + 1] = 0
  BY <1>1
<1> HIDE DEF longer
<1>3. ASSUME NEW a \in 0..WindowTicks
      PROVE  \E n \in 0..Len(longer) : \A i \in DOMAIN longer : i <= n <=> longer[i] >= a
  <2>1. CASE a = 0
    <3>1. \A i \in DOMAIN longer : longer[i] \in 0..WindowTicks
      BY <1>2, ElementOfSeq
    <3>2. \A i \in DOMAIN longer : i <= Len(longer) /\ longer[i] >= 0
      BY <1>1, <1>2, <3>1
    <3> QED BY <1>2, <2>1, <3>2
  <2>2. CASE a # 0
    <3>1. PICK n \in 0..Len(ages) : \A i \in DOMAIN ages : i <= n <=> ages[i] >= a
      BY DEF OldestFirst
    <3>2. n \in 0..Len(longer) /\ ~(Len(ages) + 1 <= n) /\ ~(0 >= a)
      BY <1>1, <1>2, <2>2
    <3>3. \A i \in DOMAIN longer : i \in DOMAIN ages \/ i = Len(ages) + 1
      BY <1>2
    <3>4. \A i \in DOMAIN longer : i <= n <=> longer[i] >= a
      BY <1>2, <3>1, <3>2, <3>3
    <3> QED BY <3>2, <3>4
  <2> QED BY <2>1, <2>2
<1>4. OldestFirst(longer)
  BY <1>3 DEF OldestFirst
<1> QED BY <1>2, <1>4 DEF longer

\* A request is let through or refused.
LEMMA CheckStep ==
    ASSUME RateInv, NEW k \in RateKeys, CheckRateLimit(k)
    PROVE  RateInv'
<1>1. PICK entry, ages, limit : entry = rateLimits[k] /\ ages = passed[k] /\ limit = RateLimit[k]
  OBVIOUS
<1>2. /\ entry \in [count : 1..(limit + 1), age : 0..Past] \union {None}
      /\ ages \in Seq(0..WindowTicks) /\ OldestFirst(ages) /\ Windowed(entry, ages, limit)
      /\ limit \in Nat /\ limit >= 1 /\ WindowTicks \in Nat /\ Len(ages) \in Nat
  BY <1>1, RateAssumption DEF RateInv, KeyHolds
<1>3. PICK next : next = IF entry = None \/ entry.age > WindowTicks THEN NewEntry
                         ELSE IF entry.count > limit THEN entry ELSE [entry EXCEPT !.count = entry.count + 1]
  OBVIOUS
<1>4. /\ rateLimits' = [rateLimits EXCEPT ![k] = next]
      /\ passed' = IF next.count <= limit THEN [passed EXCEPT ![k] = Append(ages, 0)] ELSE passed
  BY <1>1, <1>3 DEF CheckRateLimit
<1>5. /\ DOMAIN rateLimits' = RateKeys /\ DOMAIN passed' = RateKeys
      /\ rateLimits'[k] = next /\ passed'[k] = IF next.count <= limit THEN Append(ages, 0) ELSE ages
      /\ \A j \in RateKeys : j # k => rateLimits'[j] = rateLimits[j] /\ passed'[j] = passed[j]
  BY <1>1, <1>4 DEF RateInv
<1>6. next \in [count : 1..(limit + 1), age : 0..Past]
  BY <1>2, <1>3 DEF NewEntry, Past
<1>7. next # None
  BY <1>2, <1>6, RateAssumption DEF RateEntry, Past
<1>8. passed'[k] \in Seq(0..WindowTicks) /\ OldestFirst(passed'[k])
  BY <1>2, <1>5, OldestFirstAppend
<1>9. Windowed(next, passed'[k], limit)
  <2>1. CASE entry = None \/ entry.age > WindowTicks
    <3>1. next = [count |-> 1, age |-> 0] /\ passed'[k] = Append(ages, 0) /\ Len(ages) <= limit
      BY <1>2, <1>3, <1>5, <2>1 DEF NewEntry, Windowed
    <3>2. Len(passed'[k]) = Len(ages) + 1 /\ \A i \in 1..Len(ages) : passed'[k][i] >= next.age
      <4>1. \A i \in 1..Len(ages) : ages[i] \in 0..WindowTicks
        BY <1>2, ElementOfSeq
      <4>2. \A i \in 1..Len(ages) : Append(ages, 0)[i] = ages[i]
        BY <1>2
      <4> QED BY <1>2, <3>1, <4>1, <4>2
    <3>3. Len(ages) \in 0..Len(passed'[k])
      BY <1>2, <3>2
    <3> QED BY <1>2, <1>7, <3>1, <3>2, <3>3 DEF Windowed
  <2>2. CASE ~(entry = None \/ entry.age > WindowTicks)
    <3>1. PICK m \in 0..Len(ages) :
             /\ m <= limit /\ Len(ages) - m <= limit /\ Len(ages) - m <= entry.count
             /\ \A i \in 1..m : ages[i] >= entry.age
      BY <1>2, <2>2 DEF Windowed
    <3>2. entry.count \in 1..(limit + 1) /\ entry.age \in 0..Past /\ entry \in [count : 1..(limit + 1), age : 0..Past]
      BY <1>2, <2>2
    <3>3. CASE entry.count > limit
      <4>1. next = entry /\ passed'[k] = ages
        BY <1>2, <1>3, <1>5, <2>2, <3>2, <3>3
      <4> QED BY <1>2, <4>1
    <3>4. CASE entry.count <= limit
      <4>1. next.count = entry.count + 1 /\ next.age = entry.age
        BY <1>2, <1>3, <2>2, <3>2, <3>4
      <4>2. CASE next.count <= limit
        <5>1. passed'[k] = Append(ages, 0) /\ Len(passed'[k]) = Len(ages) + 1
          BY <1>2, <1>5, <4>2
        <5>2. \A i \in 1..m : passed'[k][i] >= next.age
          BY <1>2, <3>1, <4>1, <5>1
        <5>3. m \in 0..Len(passed'[k]) /\ Len(passed'[k]) - m <= limit /\ Len(passed'[k]) - m <= next.count
          BY <1>2, <3>1, <3>2, <4>1, <4>2, <5>1
        <5> QED BY <1>7, <2>2, <3>1, <4>1, <5>2, <5>3 DEF Windowed
      <4>3. CASE ~(next.count <= limit)
        <5>1. passed'[k] = ages
          BY <1>5, <4>3
        <5>2. Len(ages) - m <= next.count
          BY <1>2, <3>1, <3>2, <4>1
        <5> QED BY <1>7, <2>2, <3>1, <4>1, <5>1, <5>2 DEF Windowed
      <4> QED BY <4>2, <4>3
    <3> QED BY <1>2, <3>2, <3>3, <3>4
  <2> QED BY <2>1, <2>2
<1>10. \A j \in RateKeys : KeyHolds(j)'
  <2>1. KeyHolds(k)'
    BY <1>1, <1>5, <1>6, <1>8, <1>9 DEF KeyHolds
  <2>2. \A j \in RateKeys : j # k => KeyHolds(j)'
    BY <1>5 DEF RateInv, KeyHolds
  <2> QED BY <2>1, <2>2
<1> QED BY <1>5, <1>10 DEF RateInv

\* A tick: the requests of a window ago leave.
LEMMA LeavingIs ==
    ASSUME NEW ages \in Seq(0..WindowTicks), OldestFirst(ages)
    PROVE  /\ Leaving(ages) \in 0..Len(ages)
           /\ \A i \in DOMAIN ages : i <= Leaving(ages) <=> ages[i] >= WindowTicks
<1>1. WindowTicks \in 0..WindowTicks
  BY RateAssumption
<1>2. \E n \in 0..Len(ages) : \A i \in DOMAIN ages : i <= n <=> ages[i] >= WindowTicks
  BY <1>1 DEF OldestFirst
<1> QED BY <1>2 DEF Leaving

\* Time passes: entries and the requests that passed grow older.
LEMMA TickStep ==
    ASSUME RateInv, RateTick
    PROVE  RateInv'
<1>1. ASSUME NEW k \in RateKeys PROVE KeyHolds(k)'
  <2>1. PICK entry, ages, limit : entry = rateLimits[k] /\ ages = passed[k] /\ limit = RateLimit[k]
    OBVIOUS
  <2>2. /\ entry \in [count : 1..(limit + 1), age : 0..Past] \union {None}
        /\ ages \in Seq(0..WindowTicks) /\ OldestFirst(ages) /\ Windowed(entry, ages, limit)
        /\ limit \in Nat /\ limit >= 1 /\ WindowTicks \in Nat /\ WindowTicks >= 1
        /\ Len(ages) \in Nat /\ DOMAIN ages = 1..Len(ages)
    BY <2>1, RateAssumption DEF RateInv, KeyHolds
  <2>3. PICK gone \in 0..Len(ages) :
           /\ gone = Leaving(ages)
           /\ \A i \in DOMAIN ages : i <= gone <=> ages[i] >= WindowTicks
    BY <2>2, LeavingIs
  <2>4. PICK next : next = IF entry = None \/ entry.age = Past THEN entry ELSE [entry EXCEPT !.age = entry.age + 1]
    OBVIOUS
  <2>5. rateLimits'[k] = next /\ passed'[k] = [i \in 1..(Len(ages) - gone) |-> ages[gone + i] + 1]
    BY <2>1, <2>3, <2>4 DEF RateTick
  <2>6. PICK kept \in Nat : kept = Len(ages) - gone /\ kept <= Len(ages) /\ gone \in Nat
    <3>1. Len(ages) \in Nat
      BY <2>2
    <3>2. gone \in Nat /\ gone <= Len(ages) /\ Len(ages) - gone \in Nat /\ Len(ages) - gone <= Len(ages)
      BY <3>1
    <3> QED BY <3>2
  <2>7. \A i \in 1..kept : gone + i \in DOMAIN ages /\ ages[gone + i] \in 0..WindowTicks /\ ages[gone + i] < WindowTicks
    <3>1. \A i \in 1..kept : gone + i \in DOMAIN ages /\ ~(gone + i <= gone)
      BY <2>2, <2>6
    <3>2. \A i \in DOMAIN ages : ages[i] \in 0..WindowTicks
      BY <2>2, ElementOfSeq
    <3> QED BY <2>2, <2>3, <3>1, <3>2
  <2>8. PICK rest : rest = [i \in 1..kept |-> ages[gone + i] + 1]
    OBVIOUS
  <2>9. /\ rest \in Seq(0..WindowTicks) /\ Len(rest) = kept /\ DOMAIN rest = 1..kept /\ passed'[k] = rest
        /\ \A i \in 1..kept : rest[i] = ages[gone + i] + 1
    <3>1. \A i \in 1..kept : ages[gone + i] + 1 \in 0..WindowTicks
      <4>1. WindowTicks \in Nat
        BY RateAssumption
      <4>2. \A x \in 0..WindowTicks : x < WindowTicks => x + 1 \in 0..WindowTicks
        BY <4>1
      <4> QED BY <2>7, <4>2
    <3>2. rest \in Seq(0..WindowTicks) /\ Len(rest) = kept /\ DOMAIN rest = 1..kept
      BY <2>6, <2>8, <3>1
    <3>3. \A i \in 1..kept : rest[i] = ages[gone + i] + 1
      BY <2>8
    <3>4. passed'[k] = rest
      BY <2>5, <2>6, <2>8
    <3> QED BY <3>2, <3>3, <3>4
  <2>10. next \in [count : 1..(limit + 1), age : 0..Past] \union {None}
    <3>1. CASE next = entry
      BY <2>2, <3>1
    <3>2. CASE next = [entry EXCEPT !.age = entry.age + 1] /\ entry # None /\ entry.age # Past
      <4>1. entry \in [count : 1..(limit + 1), age : 0..Past] /\ Past \in Nat
        BY <2>2, <3>2, RateAssumption DEF Past
      <4>2. entry.age \in 0..Past /\ entry.age + 1 \in 0..Past
        BY <3>2, <4>1
      <4> QED BY <3>2, <4>1, <4>2
    <3> QED BY <2>4, <3>1, <3>2
  <2>11. OldestFirst(rest)
    <3>1. ASSUME NEW a \in 0..WindowTicks
          PROVE  \E n \in 0..Len(rest) : \A i \in DOMAIN rest : i <= n <=> rest[i] >= a
      <4>1. CASE a = 0
        <5>1. \A i \in DOMAIN rest : i <= kept /\ rest[i] >= 0
          BY <2>2, <2>7, <2>9
        <5> QED BY <2>9, <4>1, <5>1
      <4>2. CASE a # 0
        <5>1. PICK b \in 0..WindowTicks : b = a - 1
          BY <2>2, <4>2
        <5>2. PICK n \in 0..Len(ages) : \A i \in DOMAIN ages : i <= n <=> ages[i] >= b
          BY <2>2 DEF OldestFirst
        <5>3. gone <= n
          <6>1. CASE gone = 0
            BY <2>2, <6>1
          <6>2. CASE gone # 0
            <7>1. gone \in DOMAIN ages /\ ages[gone] >= WindowTicks
              <8>1. Len(ages) \in Nat /\ DOMAIN ages = 1..Len(ages)
                BY <2>2
              <8>2. gone \in DOMAIN ages /\ gone <= gone
                BY <6>2, <8>1
              <8> QED BY <2>3, <8>2
            <7>2. ages[gone] \in 0..WindowTicks
              BY <2>2, <7>1, ElementOfSeq
            <7>3. ages[gone] >= b
              BY <2>2, <7>1, <7>2
            <7> QED BY <5>2, <7>1, <7>3
          <6> QED BY <6>1, <6>2
        <5>4. PICK j \in 0..kept : j = n - gone
          BY <2>2, <2>6, <5>3
        <5>5. ASSUME NEW i \in 1..kept PROVE i <= j <=> rest[i] >= a
          <6>1. i <= j <=> gone + i <= n
            BY <2>2, <2>6, <5>4
          <6>2. gone + i <= n <=> ages[gone + i] >= b
            BY <2>7, <5>2
          <6>3. ages[gone + i] >= b <=> rest[i] >= a
            <7>1. ages[gone + i] \in 0..WindowTicks /\ rest[i] = ages[gone + i] + 1
              BY <2>7, <2>9
            <7> QED BY <2>2, <5>1, <7>1
          <6> QED BY <6>1, <6>2, <6>3
        <5> QED BY <2>9, <5>5
      <4> QED BY <4>1, <4>2
    <3> QED BY <3>1 DEF OldestFirst
  <2>12. Windowed(next, rest, limit)
    <3>1. CASE entry = None \/ entry.age > WindowTicks
      <4>1. Len(ages) <= limit
        BY <2>2, <3>1 DEF Windowed
      <4>2. next = entry
        BY <2>2, <2>4, <3>1 DEF Past
      <4> QED BY <2>2, <2>6, <2>9, <3>1, <4>1, <4>2 DEF Windowed
    <3>2. CASE ~(entry = None \/ entry.age > WindowTicks)
      <4>1. PICK m \in 0..Len(ages) :
               /\ m <= limit /\ Len(ages) - m <= limit /\ Len(ages) - m <= entry.count
               /\ \A i \in 1..m : ages[i] >= entry.age
        BY <2>2, <3>2 DEF Windowed
      <4>2. /\ entry.age \in 0..WindowTicks /\ entry.count \in 1..(limit + 1)
            /\ entry \in [count : 1..(limit + 1), age : 0..Past]
        BY <2>2, <3>2 DEF Past
      <4>3. next.age = entry.age + 1 /\ next.count = entry.count
        BY <2>2, <2>4, <3>2, <4>2 DEF Past
      <4>4. next # None
        <5>1. next \in [count : 1..(limit + 1), age : 0..Past]
          <6>1. next = entry \/ next = [entry EXCEPT !.age = entry.age + 1]
            BY <2>4
          <6>2. entry.age + 1 \in 0..Past
            BY <2>2, <4>2 DEF Past
          <6> QED BY <4>2, <6>1, <6>2
        <5> QED BY <2>2, <5>1, RateAssumption DEF RateEntry, Past
      <4>5. CASE entry.age = WindowTicks
        <5>1. m <= gone
          <6>1. CASE m = 0
            BY <2>6, <6>1
          <6>2. CASE m # 0
            <7>1. m \in 1..m /\ m \in DOMAIN ages
              BY <2>2, <6>2
            <7>2. ages[m] >= WindowTicks
              BY <4>1, <4>5, <7>1
            <7> QED BY <2>3, <7>1, <7>2
          <6> QED BY <6>1, <6>2
        <5>2. kept <= limit
          BY <2>2, <2>6, <4>1, <5>1
        <5>3. next.age > WindowTicks
          BY <2>2, <4>3, <4>5
        <5> QED BY <2>9, <5>2, <5>3 DEF Windowed
      <4>6. CASE entry.age # WindowTicks
        <5>1. ~(next.age > WindowTicks)
          BY <2>2, <4>2, <4>3, <4>6
        <5>2. CASE m <= gone
          <6>1. kept <= Len(ages) - m
            BY <2>2, <2>6, <5>2
          <6>2. kept <= limit /\ kept <= next.count
            BY <2>2, <4>1, <4>2, <4>3, <6>1
          <6>3. 0 \in 0..Len(rest) /\ 0 <= limit /\ Len(rest) - 0 = kept /\ \A i \in 1..0 : rest[i] >= next.age
            BY <2>2, <2>9
          <6> QED BY <4>4, <5>1, <6>2, <6>3 DEF Windowed
        <5>3. CASE ~(m <= gone)
          <6>1. PICK j \in 0..kept : j = m - gone
            BY <2>2, <2>6, <5>3
          <6>2. j <= limit /\ kept - j = Len(ages) - m
            BY <2>2, <2>6, <4>1, <6>1
          <6>3. ASSUME NEW i \in 1..j PROVE rest[i] >= next.age
            <7>1. gone + i \in 1..m /\ i \in 1..kept
              BY <2>2, <2>6, <6>1
            <7>2. ages[gone + i] >= entry.age /\ rest[i] = ages[gone + i] + 1 /\ ages[gone + i] \in 0..WindowTicks
              BY <2>7, <2>9, <4>1, <7>1
            <7> QED BY <2>2, <4>2, <4>3, <7>2
          <6>4. kept - j <= limit /\ kept - j <= next.count
            BY <4>1, <4>3, <6>2
          <6> QED BY <2>9, <4>4, <5>1, <6>2, <6>3, <6>4 DEF Windowed
        <5> QED BY <5>2, <5>3
      <4> QED BY <4>5, <4>6
    <3> QED BY <3>1, <3>2
  <2> QED BY <2>1, <2>5, <2>9, <2>10, <2>11, <2>12 DEF KeyHolds
<1>2. DOMAIN rateLimits' = RateKeys /\ DOMAIN passed' = RateKeys
  BY DEF RateTick
<1> QED BY <1>1, <1>2 DEF RateInv

\* RateInv holds in every state.
LEMMA RateInvariant == RateSpec => []RateInv
<1>1. RateInit => RateInv
  <2> SUFFICES ASSUME RateInit, NEW k \in RateKeys PROVE KeyHolds(k)
    BY DEF RateInit, RateInv
  <2>1. rateLimits[k] = None /\ passed[k] = <<>>
    BY DEF RateInit
  <2>2. OldestFirst(<<>>) /\ <<>> \in Seq(0..WindowTicks)
    BY DEF OldestFirst
  <2>3. RateLimit[k] \in Nat
    BY RateAssumption
  <2> QED BY <2>1, <2>2, <2>3 DEF KeyHolds, Windowed
<1>2. RateInv /\ [RateNext]_rateVars => RateInv'
  <2> SUFFICES ASSUME RateInv, [RateNext]_rateVars PROVE RateInv'
    OBVIOUS
  <2>1. CASE CleanUpRates
    <3>1. passed' = passed /\ DOMAIN rateLimits' = RateKeys
      BY <2>1 DEF CleanUpRates
    <3>2. ASSUME NEW k \in RateKeys PROVE KeyHolds(k)'
      <4>1. \/ rateLimits'[k] = rateLimits[k]
            \/ rateLimits'[k] = None /\ rateLimits[k].age > WindowTicks
        BY <2>1 DEF CleanUpRates
      <4>2. CASE rateLimits'[k] = rateLimits[k]
        BY <3>1, <4>2 DEF RateInv, KeyHolds
      <4>3. CASE rateLimits'[k] = None /\ rateLimits[k].age > WindowTicks
        BY <3>1, <4>3 DEF RateInv, KeyHolds, Windowed
      <4> QED BY <4>1, <4>2, <4>3
    <3> QED BY <3>1, <3>2 DEF RateInv
  <2>2. CASE UNCHANGED rateVars
    BY <2>2 DEF rateVars, RateInv, KeyHolds
  <2> QED BY <2>1, <2>2, CheckStep, TickStep DEF RateNext
<1> QED BY <1>1, <1>2, PTL DEF RateSpec

\* In the time of one window at most two limits of requests are let through, for any
\* keys, limits and length of the window: checkRateLimit of webhook-server.ts.
THEOREM LimitHoldsTwice == RateSpec => []AtMostTwoWindows
<1>1. RateInv => AtMostTwoWindows
  <2> SUFFICES ASSUME RateInv, NEW k \in RateKeys PROVE Len(passed[k]) <= 2 * RateLimit[k]
    BY DEF AtMostTwoWindows
  <2>1. RateLimit[k] \in Nat /\ Len(passed[k]) \in Nat /\ Windowed(rateLimits[k], passed[k], RateLimit[k])
    BY RateAssumption DEF RateInv, KeyHolds
  <2>2. Len(passed[k]) <= RateLimit[k] \/ \E m \in 0..Len(passed[k]) : m <= RateLimit[k] /\ Len(passed[k]) - m <= RateLimit[k]
    BY <2>1 DEF Windowed
  <2> QED BY <2>1, <2>2
<1> QED BY <1>1, RateInvariant, PTL

-----------------------------------------------------------------------------
(* OutboundPolicy.                                                         *)

Flying(calls) == {c \in PolicyCalls : calls[c] # None}
FlyingCount(calls) == Cardinality(Flying(calls))

\* What is spent leaves room for the calls in flight: one of them as it was estimated
\* and the others at what a call may cost.
LeavesRoom(calls, spent, room) ==
    IF Flying(calls) = {} THEN spent <= room
    ELSE \E last \in Flying(calls) : spent + calls[last].cost + (FlyingCount(calls) - 1) * PerCallMax <= room

PolicyTyped ==
    /\ perHourMax \in HourMaxes
    /\ hourly \in 0..MaxSpend /\ daily \in 0..MaxSpend
    /\ hourAge \in 0..HourTicks /\ dayAge \in 0..DayTicks
    /\ inFlight \in [PolicyCalls -> CallInFlight \union {None}]
    /\ atOnce \in Nat /\ atOnce >= 1 /\ FlyingCount(inFlight) <= atOnce
    /\ loose \in BOOLEAN

PolicyInv ==
    /\ PolicyTyped
    /\ ~loose => /\ LeavesRoom(inFlight, hourly, perHourMax + (atOnce - 1) * PerCallMax)
                 /\ LeavesRoom(inFlight, daily, DayMax + (atOnce - 1) * PerCallMax)

\* Numbers of calls in flight.
LEMMA FlyingIsFinite ==
    ASSUME NEW calls
    PROVE  /\ IsFiniteSet(Flying(calls)) /\ FlyingCount(calls) \in Nat
           /\ (FlyingCount(calls) = 0 <=> Flying(calls) = {})
<1>1. Flying(calls) \subseteq PolicyCalls
  BY DEF Flying
<1>2. IsFiniteSet(Flying(calls))
  BY <1>1, PolicyAssumption, FS_Subset
<1> QED BY <1>2, FS_CardinalityType, FS_EmptySet DEF FlyingCount

\* A call that ends is one less in flight.
LEMMA FlyingGoes ==
    ASSUME NEW calls \in [PolicyCalls -> CallInFlight \union {None}], NEW c \in Flying(calls)
    PROVE  /\ Flying([calls EXCEPT ![c] = None]) = Flying(calls) \ {c}
           /\ FlyingCount([calls EXCEPT ![c] = None]) = FlyingCount(calls) - 1
<1>1. Flying([calls EXCEPT ![c] = None]) = Flying(calls) \ {c}
  BY DEF Flying
<1>2. Cardinality(Flying(calls) \ {c}) = Cardinality(Flying(calls)) - 1
  BY FlyingIsFinite, FS_RemoveElement
<1> QED BY <1>1, <1>2 DEF FlyingCount

\* A call that is let through is one more in flight.
LEMMA FlyingComes ==
    ASSUME NEW calls \in [PolicyCalls -> CallInFlight \union {None}], NEW c \in PolicyCalls, calls[c] = None,
           NEW call \in CallInFlight
    PROVE  /\ Flying([calls EXCEPT ![c] = call]) = Flying(calls) \union {c}
           /\ FlyingCount([calls EXCEPT ![c] = call]) = FlyingCount(calls) + 1
<1>1. call # None
  BY CallsAssumption
<1>2. Flying([calls EXCEPT ![c] = call]) = Flying(calls) \union {c} /\ c \notin Flying(calls)
  BY <1>1 DEF Flying
<1>3. Cardinality(Flying(calls) \union {c}) = Cardinality(Flying(calls)) + 1
  BY <1>2, FlyingIsFinite, FS_AddElement
<1> QED BY <1>2, <1>3 DEF FlyingCount

\* What calls cost.
LEMMA CostsAreNumbers ==
    ASSUME NEW calls \in [PolicyCalls -> CallInFlight \union {None}]
    PROVE  \A c \in Flying(calls) : calls[c] \in CallInFlight /\ calls[c].cost \in Nat /\ calls[c].cost <= PerCallMax
BY PolicyAssumption DEF Flying, CallInFlight

\* Products of a number of calls with what one may cost.
LEMMA OneMore ==
    ASSUME NEW n \in Int
    PROVE  (n + 1) * PerCallMax = n * PerCallMax + PerCallMax /\ n * PerCallMax \in Int
<1>1. PerCallMax \in Nat
  BY PolicyAssumption
<1> QED BY <1>1

\* A bound for as many calls at once is one for more of them.
LEMMA MoreCalls ==
    ASSUME NEW n \in Nat, NEW m \in Nat, n <= m
    PROVE  n * PerCallMax <= m * PerCallMax /\ n * PerCallMax \in Nat
<1>1. PerCallMax \in Nat
  BY PolicyAssumption
<1>2. PICK d \in Nat : m = n + d
  <2>1. m - n \in Nat /\ m = n + (m - n)
    OBVIOUS
  <2> QED BY <2>1
<1>3. m * PerCallMax = n * PerCallMax + d * PerCallMax /\ d * PerCallMax \in Nat /\ n * PerCallMax \in Nat
  BY <1>1, <1>2
<1> QED BY <1>3

\* Less is spent, or there is more room.
LEMMA RoomStays ==
    ASSUME NEW calls \in [PolicyCalls -> CallInFlight \union {None}], NEW spent \in Nat, NEW room \in Nat,
           NEW less \in Nat, NEW more \in Nat, less <= spent, room <= more, LeavesRoom(calls, spent, room)
    PROVE  LeavesRoom(calls, less, more)
<1>1. CASE Flying(calls) = {}
  BY <1>1 DEF LeavesRoom
<1>2. CASE Flying(calls) # {}
  <2>1. PICK last \in Flying(calls) : spent + calls[last].cost + (FlyingCount(calls) - 1) * PerCallMax <= room
    BY <1>2 DEF LeavesRoom
  <2>2. PICK product \in Int : product = (FlyingCount(calls) - 1) * PerCallMax
    BY OneMore, FlyingIsFinite
  <2>3. calls[last].cost \in Nat
    BY CostsAreNumbers
  <2>4. less + calls[last].cost + product <= more
    BY <2>1, <2>2, <2>3
  <2> QED BY <1>2, <2>2, <2>4 DEF LeavesRoom
<1> QED BY <1>1, <1>2

\* A call goes, and costs what it was estimated to cost or less.
LEMMA RoomForTheOthers ==
    ASSUME NEW calls \in [PolicyCalls -> CallInFlight \union {None}], NEW spent \in Nat, NEW room \in Nat,
           NEW c \in Flying(calls), NEW amount \in Nat, amount <= calls[c].cost, LeavesRoom(calls, spent, room)
    PROVE  LeavesRoom([calls EXCEPT ![c] = None], spent + amount, room)
<1> DEFINE after == [calls EXCEPT ![c] = None]
<1>1. PICK last \in Flying(calls) : spent + calls[last].cost + (FlyingCount(calls) - 1) * PerCallMax <= room
  BY DEF LeavesRoom
<1>2. /\ Flying(after) = Flying(calls) \ {c} /\ FlyingCount(after) = FlyingCount(calls) - 1
      /\ \A d \in Flying(after) : after[d] = calls[d]
  BY FlyingGoes DEF Flying
<1> SUFFICES LeavesRoom(after, spent + amount, room)
  OBVIOUS
<1> HIDE DEF after
<1>3. /\ PerCallMax \in Nat
      /\ \A d \in Flying(calls) : calls[d].cost \in Nat /\ calls[d].cost <= PerCallMax
  BY CostsAreNumbers, PolicyAssumption
<1>4. PICK n \in Nat : n = FlyingCount(after)
  BY FlyingIsFinite
<1>5. PICK product \in Nat : product = n * PerCallMax
  BY MoreCalls
<1>6. spent + calls[last].cost + product <= room
  BY <1>1, <1>2, <1>4, <1>5
<1>7. CASE Flying(after) = {}
  <2>1. last = c
    BY <1>2, <1>7
  <2>2. spent + amount <= room
    BY <1>3, <1>6, <2>1
  <2> QED BY <1>7, <2>2 DEF LeavesRoom
<1>8. CASE Flying(after) # {}
  <2>1. n # 0
    BY <1>4, <1>8, FlyingIsFinite
  <2>2. PICK rest \in Nat : rest = (n - 1) * PerCallMax /\ product = rest + PerCallMax
    <3>1. n - 1 \in Nat /\ n = (n - 1) + 1
      BY <2>1
    <3>2. (n - 1) * PerCallMax \in Nat
      BY <3>1, MoreCalls
    <3> QED BY <1>5, <3>1, <3>2, OneMore
  <2>3. PICK d \in Flying(after) : last # c => d = last
    BY <1>2, <1>8
  <2>4. d \in Flying(calls) /\ after[d].cost = calls[d].cost
    BY <1>2, <2>3
  <2>5. (spent + amount) + calls[d].cost + rest <= room
    <3>1. CASE last = c
      BY <1>3, <1>6, <2>2, <2>4, <3>1
    <3>2. CASE last # c
      BY <1>3, <1>6, <2>2, <2>3, <2>4, <3>2
    <3> QED BY <3>1, <3>2
  <2> QED BY <1>4, <1>8, <2>2, <2>4, <2>5 DEF LeavesRoom
<1> QED BY <1>7, <1>8

\* A call within its budget joins those in flight.
LEMMA RoomForOne ==
    ASSUME NEW calls \in [PolicyCalls -> CallInFlight \union {None}], NEW c \in PolicyCalls, calls[c] = None,
           NEW call \in CallInFlight, NEW spent \in Nat, NEW most \in Nat, spent + call.cost <= most,
           NEW times \in Nat, FlyingCount(calls) + 1 <= times
    PROVE  LeavesRoom([calls EXCEPT ![c] = call], spent, most + (times - 1) * PerCallMax)
<1> DEFINE after == [calls EXCEPT ![c] = call]
<1>1. /\ c \in Flying(after) /\ FlyingCount(after) = FlyingCount(calls) + 1 /\ after[c] = call
  <2>1. Flying(after) = Flying(calls) \union {c} /\ FlyingCount(after) = FlyingCount(calls) + 1
    BY FlyingComes
  <2> QED BY <2>1
<1> SUFFICES LeavesRoom(after, spent, most + (times - 1) * PerCallMax)
  OBVIOUS
<1> HIDE DEF after
<1>2. FlyingCount(calls) \in Nat /\ FlyingCount(calls) <= times - 1 /\ times - 1 \in Nat
  BY FlyingIsFinite
<1>3. PICK product \in Nat : product = FlyingCount(calls) * PerCallMax
  BY <1>2, MoreCalls
<1>4. PICK more \in Nat : more = (times - 1) * PerCallMax /\ product <= more
  BY <1>2, <1>3, MoreCalls
<1>5. call.cost \in Nat
  BY PolicyAssumption DEF CallInFlight
<1>6. spent + after[c].cost + product <= most + more
  BY <1>1, <1>4, <1>5
<1>7. (FlyingCount(after) - 1) * PerCallMax = product
  BY <1>1, <1>2, <1>3
<1> QED BY <1>1, <1>4, <1>6, <1>7 DEF LeavesRoom

\* The windows after a reset.
LEMMA WindowsShrink ==
    ASSUME PolicyInv
    PROVE  /\ InHour \in 0..MaxSpend /\ InHour <= hourly /\ InDay \in 0..MaxSpend /\ InDay <= daily
           /\ ResetAges => hourAge' \in 0..HourTicks /\ dayAge' \in 0..DayTicks
BY PolicyAssumption DEF PolicyInv, PolicyTyped, InHour, InDay, ResetAges

\* The rooms are numbers.
LEMMA RoomsAreNumbers ==
    ASSUME PolicyInv, NEW times \in Nat, NEW more \in Nat, times >= 1, times <= more
    PROVE  /\ \A most \in HourMaxes \union {DayMax} :
                 /\ most \in Nat /\ most + (times - 1) * PerCallMax \in Nat
                 /\ most + (times - 1) * PerCallMax <= most + (more - 1) * PerCallMax
<1>1. times - 1 \in Nat /\ more - 1 \in Nat /\ times - 1 <= more - 1
  OBVIOUS
<1>2. PICK a \in Nat, b \in Nat : a = (times - 1) * PerCallMax /\ b = (more - 1) * PerCallMax /\ a <= b
  BY <1>1, MoreCalls
<1>3. HourMaxes \union {DayMax} \subseteq Nat
  BY PolicyAssumption
<1> QED BY <1>2, <1>3

\* Windows begin anew, a cost is recorded that no call had, or the budget changes.
LEMMA SpendStep ==
    ASSUME PolicyInv, inFlight' = inFlight, atOnce' = atOnce, perHourMax' \in HourMaxes,
           hourly' \in 0..MaxSpend, daily' \in 0..MaxSpend, hourAge' \in 0..HourTicks, dayAge' \in 0..DayTicks,
           loose' \in BOOLEAN,
           ~loose' => ~loose /\ hourly' <= hourly /\ daily' <= daily /\ perHourMax <= perHourMax'
    PROVE  PolicyInv'
<1>1. PolicyTyped'
  BY DEF PolicyInv, PolicyTyped
<1>2. /\ MaxSpend \in Nat /\ HourMaxes \subseteq Nat /\ DayMax \in Nat
      /\ hourly \in Nat /\ daily \in Nat /\ hourly' \in Nat /\ daily' \in Nat
      /\ perHourMax \in HourMaxes /\ perHourMax \in Nat /\ perHourMax' \in Nat
      /\ inFlight \in [PolicyCalls -> CallInFlight \union {None}] /\ atOnce \in Nat /\ atOnce >= 1
  BY PolicyAssumption DEF PolicyInv, PolicyTyped
<1>3. PICK extra \in Nat : extra = (atOnce - 1) * PerCallMax
  BY <1>2, MoreCalls
<1>4. ASSUME ~loose'
      PROVE  /\ LeavesRoom(inFlight, hourly', perHourMax' + extra)
             /\ LeavesRoom(inFlight, daily', DayMax + extra)
  <2>1. /\ LeavesRoom(inFlight, hourly, perHourMax + extra)
        /\ LeavesRoom(inFlight, daily, DayMax + extra)
        /\ hourly' <= hourly /\ daily' <= daily /\ perHourMax <= perHourMax'
    BY <1>3, <1>4 DEF PolicyInv
  <2>2. perHourMax + extra \in Nat /\ perHourMax' + extra \in Nat /\ perHourMax + extra <= perHourMax' + extra
        /\ DayMax + extra \in Nat /\ DayMax + extra <= DayMax + extra
    <3>1. \A x, y \in Nat : x + extra \in Nat /\ (x <= y => x + extra <= y + extra)
      OBVIOUS
    <3>2. DayMax <= DayMax
      BY <1>2
    <3> QED BY <1>2, <2>1, <3>1, <3>2
  <2>3. LeavesRoom(inFlight, hourly', perHourMax' + extra)
    BY <1>2, <2>1, <2>2, RoomStays
  <2>4. LeavesRoom(inFlight, daily', DayMax + extra)
    BY <1>2, <2>1, <2>2, RoomStays
  <2> QED BY <2>3, <2>4
<1> QED BY <1>1, <1>3, <1>4 DEF PolicyInv

\* evaluate().
LEMMA EvaluateStep ==
    ASSUME PolicyInv, NEW c \in PolicyCalls, NEW cost \in 1..PerCallMax, NEW asks \in BOOLEAN, Evaluate(c, cost, asks)
    PROVE  PolicyInv'
<1>1. /\ inFlight[c] = None /\ ResetAges /\ hourly' = InHour /\ daily' = InDay
      /\ UNCHANGED <<perHourMax, loose>>
  BY DEF Evaluate
<1>2. atOnce' = IF FlyingCount(inFlight') > atOnce THEN FlyingCount(inFlight') ELSE atOnce
  BY DEF Evaluate, FlyingCount, Flying
<1>3. /\ inFlight \in [PolicyCalls -> CallInFlight \union {None}] /\ atOnce \in Nat /\ atOnce >= 1
      /\ FlyingCount(inFlight) <= atOnce /\ FlyingCount(inFlight) \in Nat
      /\ perHourMax \in HourMaxes /\ perHourMax \in Nat /\ DayMax \in Nat /\ MaxSpend \in Nat /\ loose \in BOOLEAN
  BY FlyingIsFinite, PolicyAssumption DEF PolicyInv, PolicyTyped
<1>4. /\ hourly' \in 0..MaxSpend /\ hourly' <= hourly /\ daily' \in 0..MaxSpend /\ daily' <= daily
      /\ hourAge' \in 0..HourTicks /\ dayAge' \in 0..DayTicks
  BY <1>1, WindowsShrink
<1>5. CASE ~WithinBudget(cost)
  <2>1. inFlight' = inFlight
    BY <1>5 DEF Evaluate
  <2>2. atOnce' = atOnce
    BY <1>2, <1>3, <2>1
  <2> QED BY <1>1, <1>3, <1>4, <2>1, <2>2, SpendStep
<1>6. CASE WithinBudget(cost)
  <2>1. PICK call \in CallInFlight : call = [cost |-> cost, pending |-> asks \/ cost > CostAbove]
    <3>1. (asks \/ cost > CostAbove) \in BOOLEAN
      OBVIOUS
    <3> QED BY <3>1 DEF CallInFlight
  <2>2. inFlight' = [inFlight EXCEPT ![c] = call] /\ call.cost = cost
    BY <1>6, <2>1 DEF Evaluate
  <2>3. inFlight' \in [PolicyCalls -> CallInFlight \union {None}]
    BY <1>3, <2>2
  <2>4. FlyingCount(inFlight') = FlyingCount(inFlight) + 1
    BY <1>1, <1>3, <2>2, FlyingComes
  <2>5. atOnce' \in Nat /\ atOnce' >= 1 /\ FlyingCount(inFlight) + 1 <= atOnce'
    BY <1>2, <1>3, <2>4
  <2>6. PolicyTyped'
    BY <1>1, <1>3, <1>4, <2>3, <2>4, <2>5 DEF PolicyTyped
  <2>7. hourly' + call.cost <= perHourMax' /\ daily' + call.cost <= DayMax
    BY <1>1, <1>6, <2>2 DEF WithinBudget
  <2>8. hourly' \in Nat /\ daily' \in Nat /\ perHourMax' \in Nat
    BY <1>1, <1>3, <1>4
  <2>9. PICK now \in Nat : now = atOnce'
    BY <2>5
  <2>10. LeavesRoom([inFlight EXCEPT ![c] = call], hourly', perHourMax' + (now - 1) * PerCallMax)
    BY <1>1, <1>3, <2>5, <2>7, <2>8, <2>9, RoomForOne
  <2>11. LeavesRoom([inFlight EXCEPT ![c] = call], daily', DayMax + (now - 1) * PerCallMax)
    BY <1>1, <1>3, <2>5, <2>7, <2>8, <2>9, RoomForOne
  <2> QED BY <2>2, <2>6, <2>9, <2>10, <2>11 DEF PolicyInv
<1> QED BY <1>5, <1>6

\* A call is approved: what it costs and which are in flight stays.
LEMMA ApproveStep ==
    ASSUME PolicyInv, NEW c \in PolicyCalls, ApproveCall(c)
    PROVE  PolicyInv'
<1>1. /\ inFlight[c] # None /\ inFlight' = [inFlight EXCEPT ![c] = [inFlight[c] EXCEPT !.pending = FALSE]]
      /\ UNCHANGED <<perHourMax, hourly, daily, hourAge, dayAge, atOnce, loose>>
  BY DEF ApproveCall
<1>2. inFlight \in [PolicyCalls -> CallInFlight \union {None}] /\ inFlight[c] \in CallInFlight
  BY <1>1 DEF PolicyInv, PolicyTyped
<1>3. PICK call \in CallInFlight : call = [inFlight[c] EXCEPT !.pending = FALSE] /\ call.cost = inFlight[c].cost
  <2>1. PICK call \in CallInFlight : call = inFlight[c]
    BY <1>2
  <2>2. [call EXCEPT !.pending = FALSE] \in CallInFlight /\ [call EXCEPT !.pending = FALSE].cost = call.cost
    BY DEF CallInFlight
  <2> QED BY <2>1, <2>2
<1>4. call # None /\ inFlight' = [inFlight EXCEPT ![c] = call]
  BY <1>1, <1>3, CallsAssumption
<1>5. /\ inFlight' \in [PolicyCalls -> CallInFlight \union {None}]
      /\ \A d \in PolicyCalls : /\ inFlight'[d] # None <=> inFlight[d] # None
                                /\ inFlight[d] # None => inFlight'[d].cost = inFlight[d].cost
  BY <1>1, <1>2, <1>3, <1>4
<1>6. Flying(inFlight') = Flying(inFlight)
  BY <1>5 DEF Flying
<1>7. FlyingCount(inFlight') = FlyingCount(inFlight)
  BY <1>6 DEF FlyingCount
<1>8. ASSUME NEW spent, NEW room, LeavesRoom(inFlight, spent, room) PROVE LeavesRoom(inFlight', spent, room)
  <2>1. CASE Flying(inFlight) = {}
    BY <1>6, <1>8, <2>1 DEF LeavesRoom
  <2>2. CASE Flying(inFlight) # {}
    <3>1. PICK last \in Flying(inFlight) :
             spent + inFlight[last].cost + (FlyingCount(inFlight) - 1) * PerCallMax <= room
      BY <1>8, <2>2 DEF LeavesRoom
    <3>2. inFlight'[last].cost = inFlight[last].cost
      BY <1>5 DEF Flying
    <3> QED BY <1>6, <1>7, <2>2, <3>1, <3>2 DEF LeavesRoom
  <2> QED BY <2>1, <2>2
<1>9. PolicyTyped'
  BY <1>1, <1>5, <1>7 DEF PolicyInv, PolicyTyped
<1>10. ~loose' => /\ LeavesRoom(inFlight', hourly', perHourMax' + (atOnce' - 1) * PerCallMax)
                  /\ LeavesRoom(inFlight', daily', DayMax + (atOnce' - 1) * PerCallMax)
  BY <1>1, <1>8 DEF PolicyInv
<1> QED BY <1>9, <1>10 DEF PolicyInv

\* A call ends, with a cost or none.
LEMMA CallEndsStep ==
    ASSUME PolicyInv, NEW c \in PolicyCalls, NEW amount \in Nat, inFlight[c] # None,
           inFlight' = [inFlight EXCEPT ![c] = None], perHourMax' = perHourMax, atOnce' = atOnce,
           hourly' \in 0..MaxSpend, daily' \in 0..MaxSpend, hourAge' \in 0..HourTicks, dayAge' \in 0..DayTicks,
           loose' \in BOOLEAN, ~loose' => ~loose /\ amount <= inFlight[c].cost,
           hourly' <= hourly + amount, daily' <= daily + amount
    PROVE  PolicyInv'
<1>1. /\ inFlight \in [PolicyCalls -> CallInFlight \union {None}] /\ c \in Flying(inFlight)
      /\ hourly \in Nat /\ daily \in Nat /\ hourly' \in Nat /\ daily' \in Nat
      /\ perHourMax \in HourMaxes /\ perHourMax \in Nat /\ DayMax \in Nat
      /\ atOnce \in Nat /\ atOnce >= 1 /\ FlyingCount(inFlight) <= atOnce
  BY PolicyAssumption DEF PolicyInv, PolicyTyped, Flying
<1>2. inFlight' \in [PolicyCalls -> CallInFlight \union {None}]
  BY <1>1
<1>3. FlyingCount(inFlight') = FlyingCount(inFlight) - 1 /\ FlyingCount(inFlight) \in Nat
  BY <1>1, FlyingGoes, FlyingIsFinite
<1>4. PolicyTyped'
  BY <1>1, <1>2, <1>3 DEF PolicyInv, PolicyTyped
<1>5. PICK extra \in Nat : extra = (atOnce - 1) * PerCallMax
  BY <1>1, MoreCalls
<1>6. ASSUME ~loose'
      PROVE  /\ LeavesRoom(inFlight', hourly', perHourMax + extra)
             /\ LeavesRoom(inFlight', daily', DayMax + extra)
  <2>1. /\ LeavesRoom(inFlight, hourly, perHourMax + extra) /\ LeavesRoom(inFlight, daily, DayMax + extra)
        /\ amount <= inFlight[c].cost
    BY <1>5, <1>6 DEF PolicyInv
  <2>2. /\ perHourMax + extra \in Nat /\ DayMax + extra \in Nat
        /\ perHourMax + extra <= perHourMax + extra /\ DayMax + extra <= DayMax + extra
        /\ hourly + amount \in Nat /\ daily + amount \in Nat
    BY <1>1
  <2>3. /\ LeavesRoom(inFlight', hourly + amount, perHourMax + extra)
        /\ LeavesRoom(inFlight', daily + amount, DayMax + extra)
    BY <1>1, <2>1, <2>2, RoomForTheOthers
  <2>4. LeavesRoom(inFlight', hourly', perHourMax + extra)
    BY <1>1, <1>2, <2>2, <2>3, RoomStays
  <2>5. LeavesRoom(inFlight', daily', DayMax + extra)
    BY <1>1, <1>2, <2>2, <2>3, RoomStays
  <2> QED BY <2>4, <2>5
<1> QED BY <1>4, <1>5, <1>6 DEF PolicyInv

\* Every step.
LEMMA PolicyStep ==
    ASSUME PolicyInv, [PolicyNext]_policyVars
    PROVE  PolicyInv'
<1>1. /\ perHourMax \in HourMaxes /\ hourly \in 0..MaxSpend /\ daily \in 0..MaxSpend
      /\ hourAge \in 0..HourTicks /\ dayAge \in 0..DayTicks /\ loose \in BOOLEAN
      /\ MaxSpend \in Nat /\ HourTicks \in Nat /\ DayTicks \in Nat /\ HourMaxes \subseteq Nat
      /\ PerCallMax \in Nat
  BY PolicyAssumption DEF PolicyInv, PolicyTyped
<1>2. hourly <= hourly /\ daily <= daily /\ perHourMax <= perHourMax
  BY <1>1
<1>3. ASSUME NEW c \in PolicyCalls, DropCall(c) PROVE PolicyInv'
  <2>1. /\ inFlight[c] # None /\ inFlight' = [inFlight EXCEPT ![c] = None]
        /\ UNCHANGED <<perHourMax, hourly, daily, hourAge, dayAge, atOnce, loose>>
    BY <1>3 DEF DropCall
  <2>2. 0 <= inFlight[c].cost /\ hourly' <= hourly + 0 /\ daily' <= daily + 0
    <3>1. inFlight[c] \in CallInFlight
      BY <2>1 DEF PolicyInv, PolicyTyped
    <3>2. inFlight[c].cost \in 1..PerCallMax
      BY <3>1 DEF CallInFlight
    <3> QED BY <1>1, <2>1, <3>2
  <2> QED BY <1>1, <2>1, <2>2, CallEndsStep
<1>4. ASSUME NEW amount \in 0..PerCallMax, Record(amount)
      PROVE  /\ hourly' \in 0..MaxSpend /\ daily' \in 0..MaxSpend
             /\ hourAge' \in 0..HourTicks /\ dayAge' \in 0..DayTicks
             /\ hourly' <= hourly + amount /\ daily' <= daily + amount
  BY <1>1, <1>4, WindowsShrink DEF Record
<1>5. ASSUME NEW c \in PolicyCalls, NEW amount \in 0..PerCallMax, RecordSpend(c, amount) PROVE PolicyInv'
  <2>1. /\ inFlight[c] # None /\ Record(amount) /\ inFlight' = [inFlight EXCEPT ![c] = None]
        /\ loose' = (loose \/ amount > inFlight[c].cost)
        /\ UNCHANGED <<perHourMax, atOnce>>
    BY <1>5 DEF RecordSpend
  <2>2. inFlight[c].cost \in Nat /\ amount \in Nat
    <3>1. inFlight[c] \in CallInFlight
      BY <2>1 DEF PolicyInv, PolicyTyped
    <3> QED BY <1>1, <3>1 DEF CallInFlight
  <2>3. loose' \in BOOLEAN /\ (~loose' => ~loose /\ amount <= inFlight[c].cost)
    <3>1. amount > inFlight[c].cost \/ amount <= inFlight[c].cost
      BY <2>2
    <3>2. loose' \in BOOLEAN
      BY <2>1
    <3>3. ~loose' => ~loose /\ ~(amount > inFlight[c].cost)
      BY <2>1
    <3> QED BY <3>1, <3>2, <3>3
  <2> QED BY <1>4, <2>1, <2>2, <2>3, CallEndsStep
<1>6. ASSUME NEW amount \in 1..PerCallMax, RecordUnestimated(amount) PROVE PolicyInv'
  <2>1. Record(amount) /\ loose' = TRUE /\ UNCHANGED <<perHourMax, inFlight, atOnce>> /\ amount \in 0..PerCallMax
    BY <1>6 DEF RecordUnestimated
  <2> QED BY <1>1, <1>4, <2>1, SpendStep
<1>7. ASSUME NEW max \in HourMaxes, UpdatePolicy(max) PROVE PolicyInv'
  <2>1. /\ perHourMax' = max /\ loose' = (loose \/ max < perHourMax)
        /\ UNCHANGED <<hourly, daily, hourAge, dayAge, inFlight, atOnce>>
    BY <1>7 DEF UpdatePolicy
  <2>2. loose' \in BOOLEAN /\ (~loose' => ~loose /\ perHourMax <= max)
    <3>1. max < perHourMax \/ perHourMax <= max
      BY <1>1
    <3>2. loose' \in BOOLEAN
      BY <2>1
    <3>3. ~loose' => ~loose /\ ~(max < perHourMax)
      BY <2>1
    <3> QED BY <3>1, <3>2, <3>3
  <2> QED BY <1>1, <1>2, <2>1, <2>2, SpendStep
<1>8. CASE GetSpendSummary
  <2>1. ResetAges /\ hourly' = InHour /\ daily' = InDay /\ UNCHANGED <<perHourMax, inFlight, atOnce, loose>>
    BY <1>8 DEF GetSpendSummary
  <2> QED BY <1>1, <1>2, <2>1, WindowsShrink, SpendStep
<1>9. CASE PolicyTick
  <2>1. UNCHANGED <<perHourMax, hourly, daily, inFlight, atOnce, loose>>
    BY <1>9 DEF PolicyTick
  <2>2. hourAge' \in 0..HourTicks /\ dayAge' \in 0..DayTicks
    BY <1>1, <1>9 DEF PolicyTick
  <2> QED BY <1>1, <1>2, <2>1, <2>2, SpendStep
<1>10. CASE UNCHANGED policyVars
  BY <1>1, <1>2, <1>10, SpendStep DEF policyVars
<1> QED
  BY <1>3, <1>5, <1>6, <1>7, <1>8, <1>9, <1>10, EvaluateStep, ApproveStep DEF PolicyNext

\* PolicyInv holds in every state.
LEMMA PolicyInvariant == PolicySpec => []PolicyInv
<1>1. PolicyInit => PolicyInv
  <2> SUFFICES ASSUME PolicyInit PROVE PolicyInv
    OBVIOUS
  <2>1. Flying(inFlight) = {}
    BY DEF PolicyInit, Flying
  <2>2. FlyingCount(inFlight) = 0
    BY <2>1, FS_EmptySet DEF FlyingCount
  <2>3. PolicyTyped
    <3>1. 0 \in 0..MaxSpend /\ 0 \in 0..HourTicks /\ 0 \in 0..DayTicks
      BY PolicyAssumption
    <3>2. inFlight \in [PolicyCalls -> CallInFlight \union {None}]
      BY DEF PolicyInit
    <3>3. /\ perHourMax \in HourMaxes /\ hourly = 0 /\ daily = 0 /\ hourAge = 0 /\ dayAge = 0
          /\ atOnce = 1 /\ loose = FALSE
      BY DEF PolicyInit
    <3>4. loose \in BOOLEAN
      BY <3>3
    <3>5. atOnce \in Nat /\ atOnce >= 1 /\ FlyingCount(inFlight) <= atOnce
      BY <2>2, <3>3
    <3>6. hourly \in 0..MaxSpend /\ daily \in 0..MaxSpend /\ hourAge \in 0..HourTicks /\ dayAge \in 0..DayTicks
      BY <3>1, <3>3
    <3> QED BY <3>2, <3>3, <3>4, <3>5, <3>6 DEF PolicyTyped
  <2>4. hourly = 0 /\ daily = 0 /\ atOnce = 1 /\ perHourMax \in Nat /\ DayMax \in Nat /\ PerCallMax \in Nat
    BY PolicyAssumption DEF PolicyInit
  <2>5. hourly <= perHourMax + (atOnce - 1) * PerCallMax /\ daily <= DayMax + (atOnce - 1) * PerCallMax
    BY <2>4
  <2> QED BY <2>1, <2>3, <2>5 DEF PolicyInv, LeavesRoom
<1>2. PolicyInv /\ [PolicyNext]_policyVars => PolicyInv'
  BY PolicyStep
<1> QED BY <1>1, <1>2, PTL DEF PolicySpec

\* What is spent exceeds a budget only by calls that were in flight together, for any
\* budgets, costs and number of calls: evaluate and recordSpend of policy.ts.
THEOREM OverlapIsAllThatOverspends == PolicySpec => []OverspentByOverlap
<1>1. PolicyInv => OverspentByOverlap
  <2> SUFFICES ASSUME PolicyInv, ~loose
               PROVE  /\ hourly <= perHourMax + (atOnce - 1) * PerCallMax
                      /\ daily <= DayMax + (atOnce - 1) * PerCallMax
    BY DEF OverspentByOverlap
  <2>1. /\ inFlight \in [PolicyCalls -> CallInFlight \union {None}]
        /\ hourly \in Nat /\ daily \in Nat /\ perHourMax \in Nat /\ DayMax \in Nat /\ atOnce \in Nat /\ atOnce >= 1
    BY PolicyAssumption DEF PolicyInv, PolicyTyped
  <2>2. PICK extra \in Nat : extra = (atOnce - 1) * PerCallMax
    BY <2>1, MoreCalls
  <2>3. ASSUME NEW spent \in Nat, NEW room \in Nat, LeavesRoom(inFlight, spent, room) PROVE spent <= room
    <3>1. CASE Flying(inFlight) = {}
      BY <2>3, <3>1 DEF LeavesRoom
    <3>2. CASE Flying(inFlight) # {}
      <4>1. PICK last \in Flying(inFlight) :
               spent + inFlight[last].cost + (FlyingCount(inFlight) - 1) * PerCallMax <= room
        BY <2>3, <3>2 DEF LeavesRoom
      <4>2. FlyingCount(inFlight) - 1 \in Nat
        BY <3>2, FlyingIsFinite
      <4>3. PICK product \in Nat : product = (FlyingCount(inFlight) - 1) * PerCallMax
        BY <4>2, MoreCalls
      <4>4. inFlight[last].cost \in Nat
        BY <2>1, CostsAreNumbers
      <4> QED BY <4>1, <4>3, <4>4
    <3> QED BY <3>1, <3>2
  <2>4. LeavesRoom(inFlight, hourly, perHourMax + extra) /\ LeavesRoom(inFlight, daily, DayMax + extra)
    BY <2>2 DEF PolicyInv
  <2>5. hourly <= perHourMax + extra /\ daily <= DayMax + extra
    BY <2>1, <2>3, <2>4
  <2> QED BY <2>2, <2>5
<1> QED BY <1>1, PolicyInvariant, PTL

-----------------------------------------------------------------------------
(* Types.                                                                  *)

\* Every variable of the event bus and the dashboard's stream keeps its type.
LEMMA EventsTypeCorrect == EventsSpec => []EventsTypeOK
<1> DEFINE Rest ==
      /\ serverStage \in {"new", "subscribing", "up", "closing", "closed"}
      /\ subscribed \subseteq Channels /\ again \subseteq Channels
      /\ clientOrg \in [Clients -> ClientOrgs \union {"default", "gone", None}]
<1>1. EventsInit => Rest
  BY DEF EventsInit
<1>2. Rest /\ [EventsNext]_eventVars => Rest'
  <2> SUFFICES ASSUME Rest, [EventsNext]_eventVars PROVE Rest'
    OBVIOUS
  <2>1. CASE StartEvents \/ EventsUp \/ CloseBus \/ TakeFromWire \/ LoseWire \/ UNCHANGED eventVars
    BY <2>1 DEF StartEvents, EventsUp, CloseBus, TakeFromWire, LoseWire, eventVars, busVars
  <2>2. ASSUME NEW ch \in Channels, NEW accepted \in BOOLEAN,
               \/ ForwardChannel(ch, accepted) \/ EmbedderUnsubscribes(ch, accepted) \/ CloseChannel(ch, accepted)
               \/ \E h \in Subscribers : EmbedderSubscribes(ch, h, accepted)
        PROVE  Rest'
    BY <2>2 DEF ForwardChannel, EmbedderUnsubscribes, CloseChannel, EmbedderSubscribes, Subscribe, Unsubscribe
  <2>3. ASSUME NEW c \in Clients,
               DisconnectClient(c) \/ \E o \in ClientOrgs \union {"default"} : ConnectClient(c, o)
        PROVE  Rest'
    BY <2>3 DEF DisconnectClient, ConnectClient, busVars
  <2>4. ASSUME NEW ch \in Channels, NEW p \in ClientOrgs, PublishEvent(ch, p) PROVE Rest'
    BY <2>4 DEF PublishEvent
  <2>5. CASE LosePublisher \/ FailPublishes \/ \E replied \in BOOLEAN : ExecutePublish(replied)
    BY <2>5 DEF LosePublisher, FailPublishes, ExecutePublish
  <2> QED BY <2>1, <2>2, <2>3, <2>4, <2>5 DEF EventsNext
<1>3. EventsInv /\ Rest => EventsTypeOK
  <2> SUFFICES ASSUME EventsInv, Rest PROVE EventsTypeOK
    OBVIOUS
  <2>1. ASSUME NEW S, NEW seq \in Seq(S) PROVE \A i \in DOMAIN seq : seq[i] \in S
    OBVIOUS
  <2>2. \A ch \in Channels : \A i \in DOMAIN listeners[ch] : listeners[ch][i] \in EventHandlers
    BY <2>1 DEF EventsInv, EventsTyped
  <2>3. /\ \A i \in DOMAIN eventWire : eventWire[i] \in EventMessage
        /\ \A i \in DOMAIN unanswered : unanswered[i] \in EventMessage
    BY <2>1 DEF EventsInv, EventsTyped
  <2>4. \A x \in Clients \union Subscribers : \A i \in DOMAIN got[x] : got[x][i] \in EventMessage
    BY <2>1 DEF EventsInv, EventsTyped, Receivers
  <2> QED BY <2>2, <2>3, <2>4 DEF EventsInv, EventsTyped, EventsTypeOK
<1> QED BY <1>1, <1>2, <1>3, EventsInvariant, PTL DEF EventsSpec

\* Every variable of the queues keeps its type.
LEMMA QueuesTypeCorrect == QueuesSpec => []QueuesTypeOK
<1>1. QueuesInv => QueuesTypeOK
  <2> SUFFICES ASSUME QueuesInv PROVE QueuesTypeOK
    OBVIOUS
  <2>1. ASSUME NEW S, NEW seq \in Seq(S) PROVE NumbersOf(seq) \subseteq S
    <3>1. \A i \in DOMAIN seq : seq[i] \in S
      OBVIOUS
    <3> QED BY <3>1 DEF NumbersOf
  <2> QED BY <2>1 DEF QueuesInv, QueuesTyped, QueuesTypeOK
<1> QED BY <1>1, QueuesInvariant, PTL

\* Every variable of the rate limit keeps its type.
LEMMA RateTypeCorrect == RateSpec => []RateTypeOK
<1> DEFINE IsFunction == passed = [k \in RateKeys |-> passed[k]]
<1>1. RateInit => IsFunction
  BY DEF RateInit
<1>2. IsFunction /\ RateInv /\ [RateNext]_rateVars => IsFunction'
  <2>1. ASSUME IsFunction, NEW k \in RateKeys, CheckRateLimit(k) PROVE IsFunction'
    BY <2>1 DEF CheckRateLimit
  <2> QED BY <2>1 DEF RateNext, CleanUpRates, RateTick, rateVars
<1>3. RateInv /\ IsFunction => RateTypeOK
  BY DEF RateInv, KeyHolds, RateTypeOK
<1> QED BY <1>1, <1>2, <1>3, RateInvariant, PTL DEF RateSpec

\* Every variable of the outbound policy keeps its type.
LEMMA PolicyTypeCorrect == PolicySpec => []PolicyTypeOK
<1> DEFINE Few == atOnce <= Cardinality(PolicyCalls) + 1
<1>1. PolicyInit => Few
  BY PolicyAssumption, FS_CardinalityType DEF PolicyInit
<1>2. Few /\ [PolicyNext]_policyVars => Few'
  <2> SUFFICES ASSUME Few, [PolicyNext]_policyVars PROVE Few'
    OBVIOUS
  <2>1. ASSUME NEW c \in PolicyCalls, NEW cost \in 1..PerCallMax, NEW asks \in BOOLEAN, Evaluate(c, cost, asks)
        PROVE  Few'
    <3> DEFINE flying == {d \in PolicyCalls : inFlight'[d] # None}
    <3>1. Cardinality(flying) <= Cardinality(PolicyCalls) /\ Cardinality(flying) \in Nat
      BY PolicyAssumption, FS_Subset, FS_CardinalityType
    <3>2. Cardinality(PolicyCalls) \in Nat
      BY PolicyAssumption, FS_CardinalityType
    <3>3. atOnce' \in {atOnce, Cardinality(flying)}
      BY <2>1 DEF Evaluate
    <3> HIDE DEF flying
    <3> QED BY <3>1, <3>2, <3>3
  <2>2. CASE UNCHANGED atOnce
    BY <2>2
  <2> QED
    BY <2>1, <2>2
    DEF PolicyNext, policyVars, ApproveCall, DropCall, RecordSpend, RecordUnestimated, UpdatePolicy,
        GetSpendSummary, PolicyTick
<1>3. PolicyInv /\ Few => PolicyTypeOK
  BY PolicyAssumption, FS_CardinalityType DEF PolicyInv, PolicyTyped, PolicyTypeOK
<1> QED BY <1>1, <1>2, <1>3, PolicyInvariant, PTL DEF PolicySpec

-----------------------------------------------------------------------------
(* Types of the requests of a chat.                                       *)

\* A request's loop has replies of the model left whenever it asks, and the tools of a
\* reply are as many as one may use.
LoopFits(r) ==
    /\ turnStage[r] = "none" => iterations[r] = 0
    /\ turnStage[r] = "asking" => iterations[r] < MaxLoopIterations
    /\ Len(todo[r]) <= MaxUses
    /\ \A i \in DOMAIN turns[r] : turns[r][i].uses \in 1..MaxUses

LoopsFit == iterations \in [Turns -> 0..MaxLoopIterations] /\ \A r \in Turns : LoopFits(r)

\* The tools that a reply may use.
LEMMA BoundedSeqLen ==
    ASSUME NEW S, NEW n \in Nat
    PROVE  \A seq : seq \in BoundedSeq(S, n) <=> seq \in Seq(S) /\ Len(seq) <= n
<1>1. ASSUME NEW seq \in BoundedSeq(S, n) PROVE seq \in Seq(S) /\ Len(seq) <= n
  <2>1. PICK m \in 0..n : seq \in [1..m -> S]
    BY <1>1 DEF BoundedSeq, SeqOf
  <2> QED BY <2>1
<1>2. ASSUME NEW seq \in Seq(S), Len(seq) <= n PROVE seq \in BoundedSeq(S, n)
  <2>1. Len(seq) \in 0..n /\ seq \in [1..Len(seq) -> S]
    BY <1>2
  <2> QED BY <2>1 DEF BoundedSeq, SeqOf
<1> QED BY <1>1, <1>2

\* A request that goes on keeps its bounds when what it is sent does.
LEMMA GoOnFits ==
    ASSUME ChatInv, LoopsFit, NEW r \in Turns, NEW replies \in 0..MaxLoopIterations, NEW sent, NEW rest,
           GoOn(r, replies, sent, rest), Len(rest) <= MaxUses,
           rest # <<>> \/ turnStage[r] # "asking" => \A i \in DOMAIN sent : sent[i].uses \in 1..MaxUses
    PROVE  LoopsFit'
<1>1. PICK stage \in {"using", "asking", "settled", "ended"}, over \in BOOLEAN :
         /\ turnStage' = [turnStage EXCEPT ![r] = stage]
         /\ iterations' = [iterations EXCEPT ![r] = IF over THEN 0 ELSE replies]
         /\ turns' = [turns EXCEPT ![r] = IF over THEN <<>> ELSE sent]
         /\ todo' = [todo EXCEPT ![r] = rest]
         /\ over <=> stage \in {"settled", "ended"}
         /\ stage = "asking" => replies < MaxLoopIterations /\ turnStage[r] # "asking"
         /\ stage = "using" => rest # <<>>
  BY DEF GoOn
<1>2. /\ DOMAIN turnStage = Turns /\ DOMAIN turns = Turns /\ DOMAIN todo = Turns /\ DOMAIN iterations = Turns
  BY DEF ChatInv, ChatTyped, LoopsFit
<1>3. /\ turnStage'[r] = stage /\ todo'[r] = rest
      /\ iterations'[r] = IF over THEN 0 ELSE replies
      /\ turns'[r] = IF over THEN <<>> ELSE sent
  BY <1>1, <1>2
<1>4. \A q \in Turns \ {r} : /\ turnStage'[q] = turnStage[q] /\ todo'[q] = todo[q]
                            /\ iterations'[q] = iterations[q] /\ turns'[q] = turns[q]
  BY <1>1, <1>2
<1>5. LoopFits(r)'
  <2>1. CASE over
    BY <1>1, <1>3, <2>1, LoopAssumption DEF LoopFits
  <2>2. CASE ~over
    <3>1. \A i \in DOMAIN sent : sent[i].uses \in 1..MaxUses
      BY <1>1, <2>2
    <3> QED BY <1>1, <1>3, <2>2, <3>1 DEF LoopFits
  <2> QED BY <2>1, <2>2
<1>6. \A q \in Turns \ {r} : LoopFits(q)'
  BY <1>4 DEF LoopsFit, LoopFits
<1>7. iterations' \in [Turns -> 0..MaxLoopIterations]
  BY <1>1, LoopAssumption DEF LoopsFit
<1> QED BY <1>5, <1>6, <1>7 DEF LoopsFit

\* The results of a tool change nobody's bounds.
LEMMA ResultFits ==
    ASSUME ChatInv, LoopsFit, NEW r \in Turns, turnStage[r] \in {"using", "calling"}, turnKind[r] # "execute",
           Result(r)
    PROVE  LoopsFit'
<1>1. PICK sent \in Seq(TurnRecord), rest \in Seq(ToolNames) : sent = turns[r] /\ rest = todo[r]
  BY DEF ChatInv, ChatTyped
<1>2. LastGoesOn(sent, rest)
  <2>1. TurnGoesRight(r) /\ turnKind[r] \in {"none", "execute", "send", "stream"}
    BY DEF ChatInv, ChatTyped
  <2> QED BY <1>1, <2>1 DEF TurnGoesRight
<1>3. rest # <<>> /\ Len(sent) > 0
  BY <1>2 DEF LastGoesOn
<1>4. Len(Tail(rest)) = Len(rest) - 1 /\ Len(rest) \in Nat /\ Len(rest) <= MaxUses
  BY <1>1, <1>3, HeadTailProperties DEF LoopsFit, LoopFits
<1>5. PICK now : now = [turns[r] EXCEPT ![Len(turns[r])].results = ResultsWithNext(r)]
  OBVIOUS
<1>6. DOMAIN now = DOMAIN sent /\ \A i \in DOMAIN sent : now[i].uses = sent[i].uses
  <2>1. now = [sent EXCEPT ![Len(sent)] = [sent[Len(sent)] EXCEPT !.results = ResultsWithNext(r)]]
    BY <1>1, <1>5
  <2>2. ASSUME NEW i \in DOMAIN sent PROVE now[i].uses = sent[i].uses
    <3>1. sent[i] \in TurnRecord
      OBVIOUS
    <3>2. CASE i = Len(sent)
      <4>1. PICK past \in TurnRecord : past = sent[i]
        BY <3>1
      <4>2. now[i] = [past EXCEPT !.results = ResultsWithNext(r)]
        BY <2>1, <3>2, <4>1
      <4> QED BY <4>1, <4>2 DEF TurnRecord
    <3>3. CASE i # Len(sent)
      BY <2>1, <3>3
    <3> QED BY <3>2, <3>3
  <2> QED BY <2>1, <2>2
<1>7. \A i \in DOMAIN now : now[i].uses \in 1..MaxUses
  BY <1>1, <1>6 DEF LoopsFit, LoopFits
<1>8. GoOn(r, iterations[r], now, Tail(rest)) /\ iterations[r] \in 0..MaxLoopIterations
  BY <1>1, <1>5 DEF Result, LoopsFit, LoopFits
<1>9. Len(Tail(rest)) <= MaxUses
  BY <1>4, LoopAssumption
<1> QED BY <1>7, <1>8, <1>9, GoOnFits

\* Every variable of a session keeps its type, and its loops their bounds.
LEMMA ChatTypeCorrect == ChatSpec => []ChatTypeOK
<1>1. ChatInit => LoopsFit
  <2> SUFFICES ASSUME ChatInit, NEW r \in Turns PROVE LoopFits(r)
    BY LoopAssumption DEF LoopsFit, ChatInit
  <2>1. iterations[r] = 0 /\ turnStage[r] = "none" /\ todo[r] = <<>> /\ turns[r] = <<>>
    BY DEF ChatInit
  <2> QED BY <2>1, LoopAssumption DEF LoopFits
<1>2. ChatInv /\ LoopsFit /\ [ChatNext]_chatVars => LoopsFit'
  <2> SUFFICES ASSUME ChatInv, LoopsFit, [ChatNext]_chatVars PROVE LoopsFit'
    OBVIOUS
  <2>1. CASE UNCHANGED <<iterations, turnStage, todo, turns>>
    BY <2>1 DEF LoopsFit, LoopFits
  <2>2. ASSUME NEW r \in Turns, NEW stage \in {"asking", "calling", "settled", "ended"},
               turnStage' = [turnStage EXCEPT ![r] = stage], stage = "asking" => turnStage[r] = "none",
               UNCHANGED <<iterations, todo, turns>>
        PROVE  LoopsFit'
    <3>1. turnStage'[r] = stage /\ \A q \in Turns \ {r} : turnStage'[q] = turnStage[q]
      BY <2>2 DEF ChatInv, ChatTyped
    <3>2. LoopFits(r)'
      BY <2>2, <3>1, LoopAssumption DEF LoopsFit, LoopFits
    <3>3. \A q \in Turns \ {r} : LoopFits(q)'
      BY <2>2, <3>1 DEF LoopsFit, LoopFits
    <3> QED BY <2>2, <3>2, <3>3 DEF LoopsFit
  <2>3. ASSUME NEW r \in Turns, NEW t \in ToolNames, ExecuteTool(r, t) PROVE LoopsFit'
    <3>1. PICK stage \in {"calling", "ended"} : turnStage' = [turnStage EXCEPT ![r] = stage]
      BY <2>3 DEF ExecuteTool
    <3> QED BY <2>2, <2>3, <3>1 DEF ExecuteTool, loopVars
  <2>4. ASSUME NEW r \in Turns, NEW kind \in {"send", "stream"}, SendMessage(r, kind) PROVE LoopsFit'
    BY <2>2, <2>4 DEF SendMessage, loopVars
  <2>5. ASSUME NEW r \in Turns, ExecuteReturns(r) PROVE LoopsFit'
    BY <2>2, <2>5 DEF ExecuteReturns, loopVars
  <2>6. ASSUME NEW r \in Turns, ModelReplies(r) PROVE LoopsFit'
    <3>1. PICK uses \in BoundedSeq(ToolNames, MaxUses) :
             GoOn(r, iterations[r] + 1, Append(turns[r], [uses |-> Len(uses), results |-> <<>>]), uses)
      BY <2>6 DEF ModelReplies
    <3>2. uses \in Seq(ToolNames) /\ Len(uses) <= MaxUses /\ Len(uses) \in Nat
      BY BoundedSeqLen, LoopAssumption
    <3>3. iterations[r] + 1 \in 0..MaxLoopIterations
      BY <2>6, LoopAssumption DEF ModelReplies, LoopsFit, LoopFits
    <3>4. PICK sent \in Seq(TurnRecord), last \in TurnRecord :
             sent = turns[r] /\ last = [uses |-> Len(uses), results |-> <<>>]
      <4>1. <<>> \in Seq(Nat)
        OBVIOUS
      <4>2. [uses |-> Len(uses), results |-> <<>>] \in TurnRecord
        BY <3>2, <4>1 DEF TurnRecord
      <4> QED BY <4>2 DEF ChatInv, ChatTyped
    <3>5. ASSUME uses # <<>>, NEW i \in DOMAIN Append(sent, last) PROVE Append(sent, last)[i].uses \in 1..MaxUses
      <4>1. Len(uses) > 0
        BY <3>2, <3>5, EmptySeq
      <4>2. last.uses \in 1..MaxUses
        BY <3>2, <3>4, <4>1, LoopAssumption
      <4>3. \A n \in DOMAIN sent : sent[n].uses \in 1..MaxUses
        BY <3>4 DEF LoopsFit, LoopFits
      <4>4. Append(sent, last)[i] = last \/ (i \in DOMAIN sent /\ Append(sent, last)[i] = sent[i])
        <5>1. ASSUME NEW S, NEW seq \in Seq(S), NEW x \in S, NEW n \in DOMAIN Append(seq, x)
              PROVE  Append(seq, x)[n] = x \/ (n \in DOMAIN seq /\ Append(seq, x)[n] = seq[n])
          <6>1. n \in 1..(Len(seq) + 1) /\ Len(seq) \in Nat /\ DOMAIN seq = 1..Len(seq)
            BY <5>1, AppendProperties
          <6> QED BY <6>1, AppendProperties
        <5> QED BY <3>4, <3>5, <5>1
      <4> QED BY <4>2, <4>3, <4>4
    <3>6. turnStage[r] = "asking"
      BY <2>6 DEF ModelReplies
    <3> QED BY <3>1, <3>2, <3>3, <3>4, <3>5, <3>6, GoOnFits
  <2>7. ASSUME NEW r \in Turns, LoopThrows(r) PROVE LoopsFit'
    <3>1. PICK stage \in {"settled", "ended"} : turnStage' = [turnStage EXCEPT ![r] = stage]
      BY <2>7 DEF LoopThrows
    <3>2. /\ iterations' = [iterations EXCEPT ![r] = 0] /\ turns' = [turns EXCEPT ![r] = <<>>]
          /\ UNCHANGED todo
      BY <2>7 DEF LoopThrows
    <3>3. turnStage'[r] = stage /\ iterations'[r] = 0 /\ turns'[r] = <<>>
      BY <3>1, <3>2 DEF ChatInv, ChatTyped, LoopsFit
    <3>4. \A q \in Turns \ {r} : turnStage'[q] = turnStage[q] /\ iterations'[q] = iterations[q] /\ turns'[q] = turns[q]
      BY <3>1, <3>2 DEF ChatInv, ChatTyped, LoopsFit
    <3>5. LoopFits(r)'
      BY <3>2, <3>3, LoopAssumption DEF LoopsFit, LoopFits
    <3>6. \A q \in Turns \ {r} : LoopFits(q)'
      BY <3>2, <3>4 DEF LoopsFit, LoopFits
    <3> QED BY <3>2, <3>5, <3>6, LoopAssumption DEF LoopsFit
  <2>8. ASSUME NEW r \in Turns, UseTool(r) PROVE LoopsFit'
    <3>1. turnStage[r] = "using" /\ turnKind[r] # "execute"
      BY <2>8 DEF UseTool, ChatInv, TurnGoesRight
    <3>2. CASE Result(r)
      BY <3>1, <3>2, ResultFits
    <3>3. CASE turnStage' = [turnStage EXCEPT ![r] = "calling"] /\ UNCHANGED loopVars
      BY <2>2, <3>3 DEF loopVars
    <3> QED BY <2>8, <3>2, <3>3 DEF UseTool
  <2>9. ASSUME NEW r \in Turns, ToolReturns(r) PROVE LoopsFit'
    BY <2>9, ResultFits DEF ToolReturns
  <2>10. ASSUME NEW r \in Turns, NoteLoopDone(r) PROVE LoopsFit'
    BY <2>2, <2>10 DEF NoteLoopDone, loopVars
  <2>11. ASSUME NEW r \in Turns, Consume(r) PROVE LoopsFit'
    BY <2>1, <2>11 DEF Consume, loopVars
  <2> QED
    BY <2>1, <2>3, <2>4, <2>5, <2>6, <2>7, <2>8, <2>9, <2>10, <2>11
    DEF ChatNext, chatVars, loopVars, CreateChatSession
<1>3. ChatInv /\ LoopsFit => ChatTypeOK
  <2> SUFFICES ASSUME ChatInv, LoopsFit PROVE ChatTypeOK
    OBVIOUS
  <2>1. ASSUME NEW t \in ToolNames PROVE count[t] \in 0..MaxEntries /\ served[t] \in Seq(1..MaxEntries)
    <3>1. PICK k \in Nat : k = count[t]
      BY DEF ChatInv, ChatTyped
    <3>2. k <= MaxEntries
      <4>1. CASE session = None
        BY <3>1, <4>1, LoopAssumption DEF ChatInv, MocksGoRight
      <4>2. CASE session # None
        <5>1. session.mocks[t] \in Mock /\ k <= session.mocks[t].length
          BY <3>1, <4>2 DEF ChatInv, ChatTyped, MocksGoRight
        <5>2. session.mocks[t].length \in 0..MaxEntries
          BY <5>1, LoopAssumption DEF Mock
        <5> QED BY <5>1, <5>2, LoopAssumption
      <4> QED BY <4>1, <4>2
    <3>3. served[t] = CountTo(k)
      BY <3>1 DEF ChatInv, MocksGoRight
    <3>4. CountTo(k) \in [1..k -> 1..MaxEntries]
      BY <3>2, LoopAssumption DEF CountTo
    <3> QED BY <3>1, <3>2, <3>3, <3>4, LoopAssumption
  <2>2. ASSUME NEW r \in Turns PROVE todo[r] \in BoundedSeq(ToolNames, MaxUses)
    BY BoundedSeqLen, LoopAssumption DEF LoopsFit, LoopFits, ChatInv, ChatTyped
  <2>3. ASSUME NEW r \in Turns, NEW i \in DOMAIN turns[r]
        PROVE  turns[r][i].uses \in 1..MaxUses /\ turns[r][i].results \in Seq(1..MaxUses)
    <3>1. PICK sent \in Seq(TurnRecord), rest \in Seq(ToolNames) : sent = turns[r] /\ rest = todo[r]
      BY DEF ChatInv, ChatTyped
    <3>2. i \in 1..Len(sent) /\ Len(sent) \in Nat /\ Len(rest) \in Nat /\ sent # <<>>
      BY <3>1
    <3>3. PICK uses \in 1..MaxUses : uses = sent[i].uses
      BY <3>1 DEF LoopsFit, LoopFits
    <3>4. AreFull(sent, Len(sent)) \/ LastGoesOn(sent, rest)
      BY <3>1, <3>2 DEF ChatInv, ChatTyped, TurnGoesRight
    <3>5. \E k \in 0..uses : sent[i].results = CountTo(k)
      <4>1. CASE AreFull(sent, Len(sent)) \/ i # Len(sent)
        <5>1. sent[i].results = CountTo(uses)
          BY <3>2, <3>3, <3>4, <4>1 DEF AreFull, LastGoesOn
        <5> QED BY <5>1, LoopAssumption
      <4>2. CASE LastGoesOn(sent, rest) /\ i = Len(sent)
        <5>1. sent[i].results = CountTo(uses - Len(rest)) /\ Len(rest) <= uses /\ Len(rest) > 0
          BY <3>3, <4>2 DEF LastGoesOn
        <5>2. uses - Len(rest) \in 0..uses
          BY <3>2, <5>1, LoopAssumption
        <5> QED BY <5>1, <5>2
      <4> QED BY <3>4, <4>1, <4>2
    <3>6. PICK k \in 0..uses : sent[i].results = CountTo(k)
      BY <3>5
    <3>7. k \in Nat /\ k <= MaxUses /\ CountTo(k) \in [1..k -> 1..MaxUses]
      BY LoopAssumption DEF CountTo
    <3>8. CountTo(k) \in Seq(1..MaxUses)
      <4>1. ASSUME NEW S, NEW f \in [1..k -> S] PROVE f \in Seq(S)
        BY <3>7
      <4> QED BY <3>7, <4>1
    <3> QED BY <3>1, <3>3, <3>6, <3>8
  <2> QED BY <2>1, <2>2, <2>3 DEF LoopsFit, ChatInv, ChatTyped, ChatTypeOK
<1> QED BY <1>1, <1>2, <1>3, ChatInvariant, PTL DEF ChatSpec

-----------------------------------------------------------------------------
(* Types of the calls between runtimes.                                    *)

\* The attempts of a call whose requests are on their way.
OnTheWay(r) == {n \in 0..Retries : <<r, n>> \in wire}

\* A call makes a task for each of its attempts at most: those that are on their way may
\* make one yet.
CopiesFollowAttempts ==
    \A r \in A2ACalls : copies[r] + Cardinality(OnTheWay(r)) <= attempt[r] + 1

\* What is on its way is finitely much.
LEMMA OnTheWayIsFinite == \A r \in A2ACalls : IsFiniteSet(OnTheWay(r)) /\ Cardinality(OnTheWay(r)) \in Nat
<1>1. IsFiniteSet(0..Retries)
  BY FS_Interval, RetriesAssumption
<1>2. \A r \in A2ACalls : OnTheWay(r) \subseteq 0..Retries
  BY DEF OnTheWay
<1> QED BY <1>1, <1>2, FS_Subset, FS_CardinalityType

\* A step on one call's requests that leaves them fewer, or as many, than its attempts.
LEMMA CopiesStayFew ==
    ASSUME A2AInv, CopiesFollowAttempts, NEW r \in A2ACalls,
           \A q \in A2ACalls \ {r} : OnTheWay(q)' = OnTheWay(q) /\ copies'[q] = copies[q] /\ attempt'[q] = attempt[q],
           copies'[r] + Cardinality(OnTheWay(r)') <= attempt'[r] + 1
    PROVE  CopiesFollowAttempts'
BY DEF CopiesFollowAttempts

\* Every action keeps the tasks a call made within its attempts.
LEMMA CopiesStep ==
    ASSUME A2AInv, CopiesFollowAttempts, [A2ANext]_a2aVars
    PROVE  CopiesFollowAttempts'
<1>1. /\ DOMAIN operation = A2ACalls /\ DOMAIN attempt = A2ACalls /\ DOMAIN copies = A2ACalls
      /\ \A r \in A2ACalls : attempt[r] \in 0..Retries /\ copies[r] \in Nat
  BY DEF A2AInv, A2ATyped
<1>2. Retries \in Nat
  BY RetriesAssumption
<1>3. ASSUME NEW r \in A2ACalls, NEW op \in Operations, CallTask(r, op)
      PROVE  CopiesFollowAttempts'
  <2>1. operation[r] = None /\ wire' = wire \union {<<r, 0>>} /\ UNCHANGED <<attempt, copies>>
    BY <1>3 DEF CallTask, taskHistory
  <2>2. copies[r] = 0 /\ attempt[r] = 0 /\ \A n \in 0..Retries : <<r, n>> \notin wire
    <3>1. attempt[r] = 0 /\ \A n \in 0..Retries : <<r, n>> \notin wire
      BY <2>1 DEF A2AInv, WireFollowsCalls
    <3>2. ~(copies[r] > 0)
      BY <2>1 DEF A2AInv, WireFollowsCalls
    <3> QED BY <1>1, <3>1, <3>2
  <2>3. OnTheWay(r)' = {0}
    BY <1>2, <2>1, <2>2 DEF OnTheWay
  <2>4. \A q \in A2ACalls \ {r} : OnTheWay(q)' = OnTheWay(q)
    BY <2>1 DEF OnTheWay
  <2>5. Cardinality(OnTheWay(r)') = 1
    BY <2>3, FS_Singleton
  <2> QED BY <2>1, <2>2, <2>4, <2>5, CopiesStayFew
<1>4. ASSUME NEW r \in A2ACalls, AttemptFails(r), attempt[r] < Retries
      PROVE  CopiesFollowAttempts'
  <2>1. /\ attempt' = [attempt EXCEPT ![r] = @ + 1] /\ wire' = wire \union {<<r, attempt'[r]>>}
        /\ UNCHANGED copies
    BY <1>4 DEF AttemptFails, taskHistory
  <2>2. attempt'[r] = attempt[r] + 1 /\ \A q \in A2ACalls \ {r} : attempt'[q] = attempt[q]
    BY <1>1, <2>1
  <2>3. OnTheWay(r)' = OnTheWay(r) \union {attempt'[r]}
    BY <1>1, <1>2, <1>4, <2>1, <2>2 DEF OnTheWay
  <2>4. \A q \in A2ACalls \ {r} : OnTheWay(q)' = OnTheWay(q)
    BY <2>1 DEF OnTheWay
  <2>5. Cardinality(OnTheWay(r)') \in Nat /\ Cardinality(OnTheWay(r)') <= Cardinality(OnTheWay(r)) + 1
    <3>1. PICK n : n = attempt'[r]
      OBVIOUS
    <3>2. IsFiniteSet(OnTheWay(r)) /\ Cardinality(OnTheWay(r)) \in Nat
      BY OnTheWayIsFinite
    <3>3. \/ Cardinality(OnTheWay(r) \union {n}) = Cardinality(OnTheWay(r))
          \/ Cardinality(OnTheWay(r) \union {n}) = Cardinality(OnTheWay(r)) + 1
      BY <3>2, FS_AddElement
    <3>4. OnTheWay(r)' = OnTheWay(r) \union {n}
      BY <2>3, <3>1
    <3> QED BY <3>2, <3>3, <3>4
  <2>6. copies[r] + Cardinality(OnTheWay(r)) <= attempt[r] + 1 /\ Cardinality(OnTheWay(r)) \in Nat
    BY OnTheWayIsFinite DEF CopiesFollowAttempts
  <2>7. copies'[r] + Cardinality(OnTheWay(r)') <= attempt'[r] + 1
    BY <1>1, <2>1, <2>2, <2>5, <2>6
  <2> QED BY <2>1, <2>2, <2>4, <2>7, CopiesStayFew
<1>5. ASSUME NEW r \in A2ACalls, Answered(r) \/ (AttemptFails(r) /\ ~(attempt[r] < Retries))
      PROVE  CopiesFollowAttempts'
  <2>1. UNCHANGED <<attempt, copies, wire>>
    BY <1>5 DEF Answered, AttemptFails, taskHistory
  <2> QED BY <2>1 DEF CopiesFollowAttempts, OnTheWay
<1>6. ASSUME wire' \subseteq wire, UNCHANGED <<attempt, copies>>
      PROVE  CopiesFollowAttempts'
  <2>1. ASSUME NEW r \in A2ACalls
        PROVE  copies'[r] + Cardinality(OnTheWay(r)') <= attempt'[r] + 1
    <3>1. OnTheWay(r)' \subseteq OnTheWay(r)
      BY <1>6 DEF OnTheWay
    <3>2. /\ Cardinality(OnTheWay(r)') \in Nat /\ Cardinality(OnTheWay(r)) \in Nat
          /\ Cardinality(OnTheWay(r)') <= Cardinality(OnTheWay(r))
      BY <3>1, OnTheWayIsFinite, FS_Subset, FS_CardinalityType
    <3>3. copies[r] + Cardinality(OnTheWay(r)) <= attempt[r] + 1
      BY DEF CopiesFollowAttempts
    <3> QED BY <1>1, <1>6, <3>2, <3>3
  <2> QED BY <2>1 DEF CopiesFollowAttempts
<1>7. ASSUME NEW m \in wire, NEW arrives \in BOOLEAN, Route(m, arrives)
      PROVE  CopiesFollowAttempts'
  <2>1. PICK r \in A2ACalls, n \in 0..Retries : m = <<r, n>>
    BY <1>7 DEF A2AInv, A2ATyped
  <2>2. /\ wire' = wire \ {<<r, n>>} /\ UNCHANGED attempt
        /\ copies' \in {copies, [copies EXCEPT ![r] = @ + 1]}
    <3>1. m[1] = r
      BY <2>1
    <3>2. copies' = copies \/ copies' = [copies EXCEPT ![m[1]] = @ + 1]
      BY <1>7 DEF Route
    <3> QED BY <1>7, <2>1, <3>1, <3>2 DEF Route
  <2>3. n \in OnTheWay(r) /\ OnTheWay(r)' = OnTheWay(r) \ {n}
    BY <1>7, <2>1, <2>2 DEF OnTheWay
  <2>4. \A q \in A2ACalls \ {r} : OnTheWay(q)' = OnTheWay(q) /\ copies'[q] = copies[q]
    BY <1>1, <2>2 DEF OnTheWay
  <2>5. Cardinality(OnTheWay(r)) \in Nat /\ Cardinality(OnTheWay(r)') = Cardinality(OnTheWay(r)) - 1
    BY <2>3, OnTheWayIsFinite, FS_RemoveElement
  <2>6. copies'[r] \in Nat /\ copies'[r] <= copies[r] + 1
    BY <1>1, <2>2
  <2>7. copies[r] + Cardinality(OnTheWay(r)) <= attempt[r] + 1
    BY DEF CopiesFollowAttempts
  <2>8. copies'[r] + Cardinality(OnTheWay(r)') <= attempt'[r] + 1
    BY <1>1, <2>2, <2>5, <2>6, <2>7
  <2> QED BY <2>2, <2>4, <2>8, CopiesStayFew
<1>8. CASE UNCHANGED a2aVars
  BY <1>6, <1>8 DEF a2aVars, clientVars, taskHistory
<1>9. ASSUME (\E m \in wire : LoseRequest(m)) \/ RestartServer
      PROVE  CopiesFollowAttempts'
  <2>1. wire' \subseteq wire /\ UNCHANGED <<attempt, copies>>
    BY <1>9 DEF LoseRequest, RestartServer, clientVars, taskHistory
  <2> QED BY <1>6, <2>1
<1>10. ASSUME NEW r \in A2ACalls, AttemptFails(r)
       PROVE  CopiesFollowAttempts'
  BY <1>4, <1>5, <1>10
<1> QED BY <1>3, <1>5, <1>7, <1>8, <1>9, <1>10 DEF A2ANext

\* A call has as many attempts as it may, and as many tasks are made for it.
LEMMA A2ATypeCorrect == A2ASpec => []A2ATypeOK
<1>1. A2AInit => CopiesFollowAttempts
  <2>1. ASSUME A2AInit PROVE CopiesFollowAttempts
    <3>1. \A r \in A2ACalls : OnTheWay(r) = {} /\ copies[r] = 0 /\ attempt[r] = 0
      BY <2>1 DEF A2AInit, OnTheWay
    <3>2. Cardinality({}) = 0
      BY FS_EmptySet
    <3> QED BY <3>1, <3>2 DEF CopiesFollowAttempts
  <2> QED BY <2>1
<1>2. A2AInv /\ CopiesFollowAttempts => A2ATypeOK
  <2>1. ASSUME A2AInv, CopiesFollowAttempts PROVE copies \in [A2ACalls -> 0..(Retries + 1)]
    <3>1. copies \in [A2ACalls -> Nat] /\ attempt \in [A2ACalls -> 0..Retries]
      BY <2>1 DEF A2AInv, A2ATyped
    <3>2. \A r \in A2ACalls : copies[r] \in 0..(Retries + 1)
      <4>1. TAKE r \in A2ACalls
      <4>2. /\ copies[r] + Cardinality(OnTheWay(r)) <= attempt[r] + 1
            /\ Cardinality(OnTheWay(r)) \in Nat
        BY <2>1, OnTheWayIsFinite DEF CopiesFollowAttempts
      <4> QED BY <3>1, <4>2, RetriesAssumption
    <3> QED BY <3>1, <3>2
  <2> QED BY <2>1 DEF A2AInv, A2ATyped, A2ATypeOK
<1> QED BY <1>1, <1>2, A2AInvariant, CopiesStep, PTL DEF A2ASpec

-----------------------------------------------------------------------------
(* The run.                                                                *)

\* What the parts of the run start with.
LEMMA PartsStart ==
    ServicesInit =>
       /\ SchedulerInit /\ PoolInit /\ SandboxInit /\ ProjectsInit /\ FileInit /\ HooksInit
       /\ SecretsInit /\ FleetInit /\ ChatInit /\ DeskInit /\ A2AInit /\ TokenInit
       /\ PluginsInit /\ EventsInit /\ QueuesInit /\ PermitsInit /\ CoordInit /\ MemoryInit
       /\ PolicyInit /\ RateInit /\ SlackInit /\ RoutesInit
BY DEF ServicesInit

\* A step of the run is a step of each part, or leaves it as it is.
LEMMA PartsStep ==
    ASSUME [ServicesNext]_servicesVars
    PROVE  /\ [SchedulerNext]_schedulerVars /\ [PoolNext]_poolVars /\ [SandboxNext]_sandboxVars
           /\ [ProjectsNext]_projectVars /\ [FileNext]_fileVars /\ [HooksNext]_hookVars
           /\ [SecretsNext]_secretVars /\ [FleetNext]_fleetVars /\ [ChatNext]_chatVars
           /\ [DeskNext]_deskVars /\ [A2ANext]_a2aVars /\ [TokenNext]_tokenVars
           /\ [PluginsNext]_pluginVars /\ [EventsNext]_eventVars /\ [QueuesNext]_queueVars
           /\ [PermitsNext]_permitVars /\ [CoordNext]_coordVars /\ [MemoryNext]_vectorVars
           /\ [PolicyNext]_policyVars /\ [RateNext]_rateVars /\ [SlackNext]_slackVars
           /\ [RoutesNext]_routeVars
BY DEF ServicesNext, servicesVars

\* Every variable of the part that runs has its type.
THEOREM ServicesTypeCorrect == ServicesSpec => []ServicesTypeOK
<1>1. ServicesSpec => [](/\ SchedulerTypeOK /\ PoolTypeOK /\ SandboxTypeOK /\ FleetTypeOK
                         /\ PluginsTypeOK /\ SlackTypeOK)
  <2>1. /\ SandboxInv => SandboxTypeOK
        /\ PoolInv => PoolTypeOK
        /\ FleetInv => FleetTypeOK
        /\ PluginsInv => PluginsTypeOK
        /\ SlackInv => SlackTypeOK
    BY DEF SandboxInv, PoolInv, FleetInv, PluginsInv, SlackInv
  <2> QED BY <2>1, PartsStart, PartsStep, SchedulerTypeCorrect, PoolInvariant, SandboxInvariant,
             FleetInvariant, PluginsInvariant, SlackInvariant, PTL
          DEF ServicesSpec, SchedulerSpec, PoolSpec, SandboxSpec, FleetSpec, PluginsSpec, SlackSpec
<1>2. ServicesSpec => [](/\ HooksTypeOK /\ RoutesTypeOK /\ CoordTypeOK /\ DeskTypeOK /\ ChatTypeOK
                         /\ A2ATypeOK)
  <2>1. /\ HooksInv => HooksTypeOK
        /\ RoutesInv => RoutesTypeOK
        /\ CoordInv => CoordTypeOK
        /\ DeskInv => DeskTypeOK
    BY DEF HooksInv, RoutesInv, CoordInv, DeskInv
  <2> QED BY <2>1, PartsStart, PartsStep, HooksInvariant, RoutesInvariant, CoordInvariant,
             DeskInvariant, ChatTypeCorrect, A2ATypeCorrect, PTL
          DEF ServicesSpec, HooksSpec, RoutesSpec, CoordSpec, DeskSpec, ChatSpec, A2ASpec
<1>3. ServicesSpec => [](/\ QueuesTypeOK /\ EventsTypeOK /\ RateTypeOK /\ PolicyTypeOK)
  BY PartsStart, PartsStep, QueuesTypeCorrect, EventsTypeCorrect, RateTypeCorrect,
     PolicyTypeCorrect, PTL
  DEF ServicesSpec, QueuesSpec, EventsSpec, RateSpec, PolicySpec
<1>4. ServicesSpec => [](/\ ProjectsTypeOK /\ FileTypeOK /\ TokenTypeOK /\ MemoryTypeOK
                         /\ PermitsTypeOK /\ SecretsTypeOK)
  <2>1. /\ FileInv => FileTypeOK
        /\ TokenInv => TokenTypeOK
        /\ SecretsInv => SecretsTypeOK
    BY DEF FileInv, TokenInv, SecretsInv
  <2> QED BY <2>1, PartsStart, PartsStep, ProjectsTypeCorrect, FileInvariant, TokenInvariant,
             MemoryTypeCorrect, PermitsTypeCorrect, SecretsInvariant, PTL
          DEF ServicesSpec, ProjectsSpec, FileSpec, TokenSpec, MemorySpec, PermitsSpec, SecretsSpec
<1>5. ServicesSpec => [](part \in Parts)
  <2>1. ServicesInit => part \in Parts
    BY DEF ServicesInit
  <2>2. part \in Parts /\ [ServicesNext]_servicesVars => (part \in Parts)'
    BY DEF ServicesNext, servicesVars
  <2> QED BY <2>1, <2>2, PTL DEF ServicesSpec
<1>6. /\ part \in Parts
      /\ SchedulerTypeOK /\ PoolTypeOK /\ SandboxTypeOK /\ FleetTypeOK /\ PluginsTypeOK /\ SlackTypeOK
      /\ HooksTypeOK /\ RoutesTypeOK /\ CoordTypeOK /\ DeskTypeOK /\ ChatTypeOK /\ A2ATypeOK
      /\ QueuesTypeOK /\ EventsTypeOK /\ RateTypeOK /\ PolicyTypeOK
      /\ ProjectsTypeOK /\ FileTypeOK /\ TokenTypeOK /\ MemoryTypeOK /\ PermitsTypeOK /\ SecretsTypeOK
      => ServicesTypeOK
  BY DEF ServicesTypeOK, Parts
<1> QED BY <1>1, <1>2, <1>3, <1>4, <1>5, <1>6, PTL

\* A container runs one execution at most and is destroyed in the end by someone,
\* whether it came from the pool or was made for one command.
THEOREM ContainersAreHeld == ServicesSpec => []ContainersHold
<1>1. ServicesInit => PoolInit /\ SandboxInit
  BY DEF ServicesInit
<1>2. [ServicesNext]_servicesVars => [PoolNext]_poolVars /\ [SandboxNext]_sandboxVars
  BY DEF ServicesNext, servicesVars
<1>3. ServicesSpec => PoolSpec /\ SandboxSpec
  BY <1>1, <1>2, PTL DEF ServicesSpec, PoolSpec, SandboxSpec
<1>4. ExclusiveUse /\ NoneForgotten /\ NothingRunsOn => ContainersHold
  BY DEF ContainersHold
<1> QED BY <1>3, <1>4, UseIsExclusive, NoneIsForgotten, NothingIsLeftRunning, PTL

\* A message reaches a session once, what answers it goes where it came from, and an
\* alert where the dashboard's routes send it.
THEOREM MessagesArrive == ServicesSpec => []MessagesFindTheirWay
<1>1. ServicesInit => HooksInit /\ SlackInit /\ RoutesInit
  BY DEF ServicesInit
<1>2. [ServicesNext]_servicesVars => [HooksNext]_hookVars /\ [SlackNext]_slackVars /\ [RoutesNext]_routeVars
  BY DEF ServicesNext, servicesVars
<1>3. ServicesSpec => HooksSpec /\ SlackSpec /\ RoutesSpec
  BY <1>1, <1>2, PTL DEF ServicesSpec, HooksSpec, SlackSpec, RoutesSpec
<1>4. MessagesReachSessions /\ (RepliesWithOwnToken /\ ConnectedIsInstalled)
         /\ (RoutesAreKept /\ AlertsFollowRoutes) => MessagesFindTheirWay
  BY DEF MessagesFindTheirWay
<1> QED BY <1>3, <1>4, MessagesAreHandledOnce, TeamsHaveTheirTokens, AlertsKeepTheirRoutes, PTL

\* Retries make no task, budgets are overspent by overlap alone, and two windows of
\* requests are the most that is let through in the time of one.
THEOREM LimitsAreKept == ServicesSpec => []CallsKeepLimits
<1>1. ServicesInit => A2AInit /\ PolicyInit /\ RateInit
  BY DEF ServicesInit
<1>2. [ServicesNext]_servicesVars => [A2ANext]_a2aVars /\ [PolicyNext]_policyVars /\ [RateNext]_rateVars
  BY DEF ServicesNext, servicesVars
<1>3. ServicesSpec => A2ASpec /\ PolicySpec /\ RateSpec
  BY <1>1, <1>2, PTL DEF ServicesSpec, A2ASpec, PolicySpec, RateSpec
<1>4. RetriesMakeNoTask /\ OverspentByOverlap /\ AtMostTwoWindows => CallsKeepLimits
  BY DEF CallsKeepLimits
<1> QED BY <1>3, <1>4, RetriesAreHarmless, OverlapIsAllThatOverspends, LimitHoldsTwice, PTL

\* Tasks are handed out, and events delivered, in their order; an event comes again only
\* after a connection of the shared client was lost, or in memory on a channel that was
\* subscribed to again.
THEOREM OrderIsKept == ServicesSpec => []DeliveredInOrder
<1>1. ServicesInit => EventsInit /\ QueuesInit
  BY DEF ServicesInit
<1>2. [ServicesNext]_servicesVars => [EventsNext]_eventVars /\ [QueuesNext]_queueVars
  BY DEF ServicesNext, servicesVars
<1>3. ServicesSpec => EventsSpec /\ QueuesSpec
  BY <1>1, <1>2, PTL DEF ServicesSpec, EventsSpec, QueuesSpec
<1>4. EventsInOrder /\ HandedOutInOrder => DeliveredInOrder
  BY DEF DeliveredInOrder
<1> QED BY <1>3, <1>4, EventsGoInOrder, TasksGoInOrder, PTL
=============================================================================
