----------------------------- MODULE DockerSandbox -----------------------------
(***************************************************************************)
(* Commands run in containers of their own:                                *)
(* packages/core/src/execution/docker-sandbox.ts.                          *)
(*                                                                         *)
(* Every call to the Docker daemon may fail, before the daemon did what it *)
(* was asked for or, its answer lost, after.  cleanup() is for a program   *)
(* that embeds the sandbox.  Output, limits and mounts are left out.       *)
(***************************************************************************)
EXTENDS FiniteSets, Undefined

CONSTANT SandboxRuns \* calls of execute(), each made once, and the container of each

VARIABLES
    box,       \* the container of each execution
    runStage,  \* what the execution awaits
    runResult, \* what it will answer, once it knows
    ranToEnd,  \* history: commands that ended by themselves, with exit code 0
    sweep,     \* the containers cleanup() has still to stop, and those it has to remove
    sweepStage,\* "none", "listing", "sweeping" or "over"
    refused    \* history: executions for which Docker failed to name or to remove the container

sandboxVars == <<box, runStage, runResult, ranToEnd, sweep, sweepStage, refused>>

BoxStates == {"none", "created", "running", "exited", "removed"}
RunStages == {"none", "creating", "attaching", "starting", "racing", "killing", "removing", "done"}

SandboxTypeOK ==
    /\ box \in [SandboxRuns -> BoxStates]
    /\ runStage \in [SandboxRuns -> RunStages]
    /\ runResult \in [SandboxRuns -> {"zero", "nonzero", "timeout", "error", None}]
    /\ ranToEnd \subseteq SandboxRuns /\ refused \subseteq SandboxRuns
    /\ sweep \in [SandboxRuns -> {"no", "stop", "remove"}]
    /\ sweepStage \in {"none", "listing", "sweeping", "over"}

SandboxInit ==
    /\ box = [r \in SandboxRuns |-> "none"]
    /\ runStage = [r \in SandboxRuns |-> "none"]
    /\ runResult = [r \in SandboxRuns |-> None]
    /\ ranToEnd = {} /\ refused = {}
    /\ sweep = [r \in SandboxRuns |-> "no"]
    /\ sweepStage = "none"

GoTo(r, stage) == runStage' = [runStage EXCEPT ![r] = stage]
Box(r, state) == box' = [box EXCEPT ![r] = state]

-----------------------------------------------------------------------------
(* execute().                                                              *)

Execute(r) ==
    /\ runStage[r] = "none"
    /\ GoTo(r, "creating")
    /\ UNCHANGED <<box, runResult, ranToEnd, sweep, sweepStage, refused>>

\* createContainer.  When it fails there is no container to remove, as far as the
\* caller knows.
CreateBox(r, fails) ==
    /\ runStage[r] = "creating"
    /\ IF fails
          THEN /\ box' \in {box, [box EXCEPT ![r] = "created"]}
               /\ refused' = IF box' = box THEN refused ELSE refused \union {r}
               /\ GoTo(r, "done")
               /\ runResult' = [runResult EXCEPT ![r] = "error"]
          ELSE /\ Box(r, "created")
               /\ GoTo(r, "attaching")
               /\ UNCHANGED <<runResult, refused>>
    /\ UNCHANGED <<ranToEnd, sweep, sweepStage>>

\* Mutant: what fails before the race leaves the container there.
LeavesBox(r) == GoTo(r, "done")

\* The finally block removes the container, whatever happened to it.
Finally(r) == GoTo(r, "removing")

FailBeforeRace(r) ==
    /\ Finally(r)
    /\ runResult' = [runResult EXCEPT ![r] = "error"]

Attach(r, fails) ==
    /\ runStage[r] = "attaching"
    /\ fails \/ box[r] # "removed"
    /\ IF fails THEN FailBeforeRace(r) ELSE GoTo(r, "starting") /\ UNCHANGED runResult
    /\ UNCHANGED <<box, ranToEnd, sweep, sweepStage, refused>>

\* start.  The daemon may have started it although the call fails.
StartBox(r, fails) ==
    /\ runStage[r] = "starting"
    /\ \/ box[r] = "created" /\ Box(r, "running")
       \/ fails /\ UNCHANGED box
    /\ IF fails THEN FailBeforeRace(r) ELSE GoTo(r, "racing") /\ UNCHANGED runResult
    /\ UNCHANGED <<ranToEnd, sweep, sweepStage, refused>>

\* The command ends.
CommandEnds(r, zero) ==
    /\ box[r] = "running"
    /\ Box(r, "exited")
    /\ ranToEnd' = IF zero THEN ranToEnd \union {r} ELSE ranToEnd
    /\ UNCHANGED <<runStage, runResult, sweep, sweepStage, refused>>

\* wait() wins the race: the exit code, or it fails, which ends the race as well.
WaitAnswers(r, fails) ==
    /\ runStage[r] = "racing"
    /\ fails \/ box[r] \in {"exited", "removed"}
    /\ runResult' = [runResult EXCEPT ![r] = IF fails THEN "error"
                                             ELSE IF r \in ranToEnd THEN "zero" ELSE "nonzero"]
    /\ Finally(r)
    /\ UNCHANGED <<box, ranToEnd, sweep, sweepStage, refused>>

\* The timer wins it, whether or not the command has ended meanwhile.
TimerFires(r) ==
    /\ runStage[r] = "racing"
    /\ GoTo(r, "killing")
    /\ runResult' = [runResult EXCEPT ![r] = "timeout"]
    /\ UNCHANGED <<box, ranToEnd, sweep, sweepStage, refused>>

\* kill(), which may fail.
KillAnswers(r, fails) ==
    /\ runStage[r] = "killing"
    /\ IF box[r] = "running" /\ ~fails THEN Box(r, "exited") ELSE UNCHANGED box
    /\ Finally(r)
    /\ UNCHANGED <<runResult, ranToEnd, sweep, sweepStage, refused>>

\* removeContainer, by force, with its failure swallowed.
RemoveBox(r, fails) ==
    /\ runStage[r] = "removing"
    /\ IF fails
          THEN refused' = refused \union {r} /\ UNCHANGED box
          ELSE Box(r, "removed") /\ UNCHANGED refused
    /\ GoTo(r, "done")
    /\ UNCHANGED <<runResult, ranToEnd, sweep, sweepStage>>

-----------------------------------------------------------------------------
(* cleanup().                                                              *)

Sweep ==
    /\ sweepStage = "none"
    /\ sweepStage' = "listing"
    /\ UNCHANGED <<box, runStage, runResult, ranToEnd, sweep, refused>>

\* listContainers: those that exist now; or it fails.
Listed(fails) ==
    /\ sweepStage = "listing"
    /\ sweep' = [r \in SandboxRuns |-> IF ~fails /\ box[r] \notin {"none", "removed"} THEN "stop" ELSE "no"]
    /\ sweepStage' = IF \A r \in SandboxRuns : sweep'[r] = "no" THEN "over" ELSE "sweeping"
    /\ UNCHANGED <<box, runStage, runResult, ranToEnd, refused>>

\* stop(), its failure swallowed.
StopSwept(r, fails) ==
    /\ sweep[r] = "stop"
    /\ sweep' = [sweep EXCEPT ![r] = "remove"]
    /\ IF box[r] = "running" /\ ~fails THEN Box(r, "exited") ELSE UNCHANGED box
    /\ UNCHANGED <<runStage, runResult, ranToEnd, sweepStage, refused>>

\* remove() by force; allSettled ignores a failure.
RemoveSwept(r, fails) ==
    /\ sweep[r] = "remove"
    /\ sweep' = [sweep EXCEPT ![r] = "no"]
    /\ IF fails THEN UNCHANGED box ELSE Box(r, "removed")
    /\ sweepStage' = IF \A s \in SandboxRuns : sweep'[s] = "no" THEN "over" ELSE "sweeping"
    /\ UNCHANGED <<runStage, runResult, ranToEnd, refused>>

SandboxNext ==
    \/ \E r \in SandboxRuns :
          \/ Execute(r) \/ TimerFires(r)
          \/ \E fails \in BOOLEAN :
                \/ CreateBox(r, fails) \/ Attach(r, fails) \/ StartBox(r, fails)
                \/ WaitAnswers(r, fails) \/ KillAnswers(r, fails) \/ RemoveBox(r, fails)
                \/ StopSwept(r, fails) \/ RemoveSwept(r, fails)
          \/ \E zero \in BOOLEAN : CommandEnds(r, zero)
    \/ Sweep \/ \E fails \in BOOLEAN : Listed(fails)

SandboxSpec == SandboxInit /\ [][SandboxNext]_sandboxVars

-----------------------------------------------------------------------------
(* Properties.                                                             *)

\* Once execute() has answered, its command does not run and its container is gone,
\* whichever call failed, the timer fired or cleanup() came between, unless Docker did
\* not name the container to it or failed to remove it.
NothingRunsOn ==
    \A r \in SandboxRuns : runStage[r] = "done" /\ r \notin refused => box[r] \in {"none", "removed"}
=============================================================================
