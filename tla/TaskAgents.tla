------------------------------ MODULE TaskAgents ------------------------------
(***************************************************************************)
(* Coding tasks, from the instruct command to the pull request:            *)
(* packages/agents/project/src/project-agent.ts (slots and waiting list),  *)
(* packages/agents/task/src/task-agent.ts and                              *)
(* packages/core/src/execution/claude-bridge.ts (executeWithRepo).         *)
(*                                                                         *)
(* Tasks of one project agent run concurrently, each through a chain of    *)
(* awaited requests to GitHub and Claude.  Other people push to the        *)
(* default branch meanwhile.  What a file holds is the version of the push *)
(* it goes back to and the tasks whose edits are in it; a blob's sha       *)
(* stands for exactly that.                                                *)
(***************************************************************************)
EXTENDS Naturals, FiniteSets, Sequences, SequencesExt, Undefined

CONSTANTS
    Tasks,              \* instruct and fix messages, each sent once
    Files,              \* files of the linked repository
    MaxConcurrentTasks, \* maxConcurrentTasks
    MaxPushes,          \* bounds the versions others push of a file
    MaxWindow           \* bounds the windows of 10^6 ms in which tasks get their ids

ASSUME SlotsAssumption == MaxConcurrentTasks \in Nat \ {0} /\ IsFiniteSet(Tasks)

ASSUME BoundsAssumption == MaxPushes \in Nat /\ MaxWindow \in Nat

VARIABLES
    taskQueue,       \* messages waiting for a slot
    activeTaskCount, \* slots in use
    phase,           \* where each task stands
    claim,           \* what its answer says became of it
    idOf,            \* the window of the time stamp in the task's id
    main,            \* the version of each file on the default branch
    branches,        \* the files of each branch the tasks create
    pulls,           \* branches with an open pull request
    read,            \* the version of each file the task has read
    edits,           \* the files the task changes
    todo             \* those not sent yet

slotVars == <<taskQueue, activeTaskCount, phase, claim>>
repoVars == <<main, branches, pulls>>
workVars == <<read, edits, todo>>
taskVars == <<slotVars, idOf, repoVars, workVars>>

Versions == 0..MaxPushes
Contents == [version : Versions, by : SUBSET Tasks]
Pristine(version) == [version |-> version, by |-> {}]

ASSUME NoneAssumption == None \notin Nat \union Contents \union [Files -> Contents]

\* executeWithRepo names its branch codespar/ and the first 12 characters of
\* task-<13 digits>-<n>: what is left is the task's window.
BridgeBranches == [kind : {"codespar"}, of : 1..MaxWindow]

\* maybeCreatePR adds the instruction: its first 30 characters tell the tasks apart.
FixBranches == [kind : {"fix"}, of : Tasks]

Running == {"starting", "looking", "plain", "reading", "branching", "committing",
            "opening", "rereading", "fixing", "proposing"}
Phases == {"none", "queued", "answered"} \union Running
Claims == {"none", "failed", "advice", "applied", "proposed"}

TasksTypeOK ==
    /\ taskQueue \in Seq(Tasks)
    /\ activeTaskCount \in 0..MaxConcurrentTasks
    /\ phase \in [Tasks -> Phases]
    /\ claim \in [Tasks -> Claims]
    /\ idOf \in [Tasks -> 0..MaxWindow]
    /\ main \in [Files -> Versions]
    /\ branches \in [BridgeBranches \union FixBranches -> [Files -> Contents] \union {None}]
    /\ pulls \subseteq BridgeBranches \union FixBranches
    /\ read \in [Tasks -> [Files -> Versions \union {None}]]
    /\ edits \in [Tasks -> SUBSET Files]
    /\ todo \in [Tasks -> SUBSET Files]

Unread == [f \in Files |-> None]

TasksInit ==
    /\ taskQueue = <<>>
    /\ activeTaskCount = 0
    /\ phase = [t \in Tasks |-> "none"]
    /\ claim = [t \in Tasks |-> "none"]
    /\ idOf = [t \in Tasks |-> 0]
    /\ main = [f \in Files |-> 0]
    /\ branches = [b \in BridgeBranches \union FixBranches |-> None]
    /\ pulls = {}
    /\ read = [t \in Tasks |-> Unread]
    /\ edits = [t \in Tasks |-> {}]
    /\ todo = [t \in Tasks |-> {}]

-----------------------------------------------------------------------------
(* The project agent's slots.                                              *)

\* Mutant: one task more than there are slots is started.
FullLate == activeTaskCount > MaxConcurrentTasks

Full == activeTaskCount >= MaxConcurrentTasks

\* delegateToTaskAgent, and executeTask up to its first await, the entry in
\* the task queue.  That entry is for observability: nothing takes it out,
\* acknowledging what was never delivered changes nothing, and a failure to
\* add it is ignored.
Delegate(t) ==
    /\ phase[t] = "none"
    /\ IF Full
          THEN /\ taskQueue' = Append(taskQueue, t)
               /\ phase' = [phase EXCEPT ![t] = "queued"]
               /\ UNCHANGED activeTaskCount
          ELSE /\ phase' = [phase EXCEPT ![t] = "starting"]
               /\ activeTaskCount' = activeTaskCount + 1
               /\ UNCHANGED taskQueue
    /\ UNCHANGED <<claim, idOf, repoVars, workVars>>

\* Mutant: the tasks taken from the list are not started.
AdmittedNone(free) == {}

\* processQueue: as many waiting tasks as there are free slots.
Admitted(free) == ToSet(SubSeq(taskQueue, 1, free))

\* Mutant: a task that ends leaves the waiting list alone.
NoFreeSlots == 0

FreeSlots == LET free == MaxConcurrentTasks - (activeTaskCount - 1) IN
             IF free <= Len(taskQueue) THEN free ELSE Len(taskQueue)

\* The task agent's answer, and the finally of the project agent's executeTask.
Answer(t, result) ==
    /\ claim' = [claim EXCEPT ![t] = result]
    /\ phase' = [u \in Tasks |-> IF u = t THEN "answered"
                                 ELSE IF u \in Admitted(FreeSlots) THEN "starting" ELSE phase[u]]
    /\ taskQueue' = SubSeq(taskQueue, FreeSlots + 1, Len(taskQueue))
    /\ activeTaskCount' = activeTaskCount - 1 + FreeSlots
    /\ read' = [read EXCEPT ![t] = Unread]
    /\ todo' = [todo EXCEPT ![t] = {}]

\* The rest of executeTask up to the look-ups in storage: the task gets its id.
Begin(t) ==
    /\ phase[t] = "starting"
    /\ phase' = [phase EXCEPT ![t] = "looking"]
    /\ \E window \in 1..MaxWindow : idOf' = [idOf EXCEPT ![t] = window]
    /\ UNCHANGED <<taskQueue, activeTaskCount, claim, repoVars, workVars>>

\* A linked repository, a GitHub token and an API key lead to executeWithRepo;
\* without one of them the task is executed plainly or simulated.
Route(t) ==
    /\ phase[t] = "looking"
    /\ \E route \in {"reading", "plain"} : phase' = [phase EXCEPT ![t] = route]
    /\ UNCHANGED <<taskQueue, activeTaskCount, claim, idOf, repoVars, workVars>>

Execute(t) ==
    /\ phase[t] = "plain"
    /\ \E result \in {"advice", "failed"} : Answer(t, result)
    /\ UNCHANGED <<idOf, repoVars, edits>>

\* A request that throws, times out or, to Claude, is refused.  What has been
\* committed stays.
Throws(t) ==
    /\ phase[t] \in {"looking", "reading", "branching", "committing", "opening"}
    /\ Answer(t, "failed")
    /\ UNCHANGED <<idOf, repoVars, edits>>

-----------------------------------------------------------------------------
(* ClaudeBridge.executeWithRepo.                                           *)

\* readFile of one file, from main.
ReadFile(t, f) ==
    /\ \/ phase[t] = "reading"
       \/ phase[t] = "rereading" /\ f \in edits[t]
    /\ read[t][f] = None
    /\ read' = [read EXCEPT ![t][f] = main[f]]
    /\ UNCHANGED <<slotVars, idOf, repoVars, edits, todo>>

\* Claude answers with diffs, which are applied to the files that were read, or
\* with whole files.  Diffs of none of them are left to the task agent; an
\* answer without changes is passed on.
Generate(t) ==
    /\ phase[t] = "reading"
    /\ \E named \in SUBSET Files, whole \in BOOLEAN :
          LET changed == IF whole THEN named ELSE {f \in named : read[t][f] # None} IN
          /\ edits' = [edits EXCEPT ![t] = IF changed = {} THEN named ELSE changed]
          /\ \/ /\ changed # {}
                /\ phase' = [phase EXCEPT ![t] = "branching"]
                /\ todo' = [todo EXCEPT ![t] = changed]
                /\ UNCHANGED <<taskQueue, activeTaskCount, claim, read>>
             \/ /\ changed = {} /\ named # {}
                /\ phase' = [phase EXCEPT ![t] = "rereading"]
                /\ read' = [read EXCEPT ![t] = Unread]
                /\ UNCHANGED <<taskQueue, activeTaskCount, claim, todo>>
             \/ named = {} /\ Answer(t, "advice")
    /\ UNCHANGED <<idOf, repoVars>>

BranchOf(t) ==
    IF phase[t] \in {"rereading", "fixing", "proposing"} \/ claim[t] = "proposed"
       THEN [kind |-> "fix", of |-> t]
       ELSE [kind |-> "codespar", of |-> idOf[t]]

\* createBranch: from the head of the default branch; a branch that exists
\* (422) counts as created.
Branched(b) ==
    [branches EXCEPT ![b] = IF @ = None THEN [f \in Files |-> Pristine(main[f])] ELSE @]

CreateBranch(t) ==
    /\ phase[t] = "branching"
    /\ \/ /\ branches' = Branched(BranchOf(t))
          /\ phase' = [phase EXCEPT ![t] = "committing"]
          /\ UNCHANGED <<taskQueue, activeTaskCount, claim, read, todo>>
       \/ /\ Answer(t, "failed")
          /\ UNCHANGED branches
    /\ UNCHANGED <<idOf, main, pulls, edits>>

\* Mutant: the sha is that of the file the branch has by then.
ShaOfBranch(t, f) ==
    CASE phase[t] = "fixing" -> Pristine(main[f])
      [] read[t][f] # None -> branches[BranchOf(t)][f]
      [] OTHER -> None

\* The sha sent along with a change: of the version that was read, in
\* executeWithRepo; of the default branch's file, read anew, in maybeCreatePR.
ShaSent(t, f) ==
    CASE phase[t] = "fixing" -> Pristine(main[f])
      [] read[t][f] # None -> Pristine(read[t][f])
      [] OTHER -> None

\* updateFile: GitHub refuses a change whose sha is not that of the file on the
\* branch.  The answer is not looked at.
Put(t, f) ==
    LET b == BranchOf(t) IN
    \/ /\ ShaSent(t, f) = branches[b][f]
       /\ branches' = [branches EXCEPT ![b][f] = [version |-> read[t][f], by |-> {t}]]
    \/ UNCHANGED branches

Commit(t, f) ==
    /\ phase[t] \in {"committing", "fixing"}
    /\ f \in todo[t]
    /\ Put(t, f)
    /\ todo' = [todo EXCEPT ![t] = @ \ {f}]
    /\ phase' = [phase EXCEPT ![t] =
                    IF todo'[t] # {} THEN @ ELSE IF @ = "fixing" THEN "proposing" ELSE "opening"]
    /\ UNCHANGED <<taskQueue, activeTaskCount, claim, idOf, main, pulls, read, edits>>

\* createPR fails when the branch has an open one; the answer says that the
\* changes were applied either way.
OpenPR(t) ==
    /\ phase[t] = "opening"
    /\ \E opened \in SUBSET ({BranchOf(t)} \ pulls) : pulls' = pulls \union opened
    /\ Answer(t, "applied")
    /\ UNCHANGED <<idOf, main, branches, edits>>

-----------------------------------------------------------------------------
(* TaskAgent.maybeCreatePR, for diffs of files executeWithRepo had not read.*)

\* The originals found are patched and a branch is created for them.
PatchOriginals(t) ==
    /\ phase[t] = "rereading"
    /\ LET patched == {f \in edits[t] : read[t][f] # None} IN
          \/ /\ patched # {}
             /\ branches' = Branched(BranchOf(t))
             /\ phase' = [phase EXCEPT ![t] = "fixing"]
             /\ edits' = [edits EXCEPT ![t] = patched]
             /\ todo' = [todo EXCEPT ![t] = patched]
             /\ UNCHANGED <<taskQueue, activeTaskCount, claim, read>>
          \/ Answer(t, "advice") /\ UNCHANGED <<branches, edits>>
    /\ UNCHANGED <<idOf, main, pulls>>

Propose(t) ==
    /\ phase[t] = "proposing"
    /\ \/ pulls' = pulls \union {BranchOf(t)} /\ Answer(t, "proposed")
       \/ UNCHANGED pulls /\ Answer(t, "advice")
    /\ UNCHANGED <<idOf, main, branches, edits>>

\* maybeCreatePR catches what its requests throw.
FixThrows(t) ==
    /\ phase[t] \in {"fixing", "proposing"}
    /\ Answer(t, "advice")
    /\ UNCHANGED <<idOf, repoVars, edits>>

-----------------------------------------------------------------------------
(* The world.                                                              *)

Push(f) ==
    /\ main[f] < MaxPushes
    /\ main' = [main EXCEPT ![f] = @ + 1]
    /\ UNCHANGED <<slotVars, idOf, branches, pulls, workVars>>

Work(t) ==
    \/ Begin(t) \/ Route(t) \/ Execute(t) \/ Throws(t)
    \/ \E f \in Files : ReadFile(t, f) \/ Commit(t, f)
    \/ Generate(t) \/ CreateBranch(t) \/ OpenPR(t)
    \/ PatchOriginals(t) \/ Propose(t) \/ FixThrows(t)

TasksNext ==
    \/ \E t \in Tasks : Delegate(t) \/ Work(t)
    \/ \E f \in Files : Push(f)

TasksSpec == TasksInit /\ [][TasksNext]_taskVars

\* Every request ends: Claude's have a timeout, and fetch gives up on the rest.
TasksFairSpec == TasksSpec /\ \A t \in Tasks : WF_taskVars(Work(t))

-----------------------------------------------------------------------------
(* Properties.                                                             *)

\* The counter, the waiting list and the tasks agree through every end, failure
\* and admission: as many slots are counted as tasks run, a task waits in the
\* list exactly once, and none waits while a slot is free.
SlotsMatchTasks ==
    /\ activeTaskCount = Cardinality({t \in Tasks : phase[t] \in Running})
    /\ ToSet(taskQueue) = {t \in Tasks : phase[t] = "queued"}
    /\ \A i, j \in DOMAIN taskQueue : taskQueue[i] = taskQueue[j] => i = j
    /\ taskQueue # <<>> => activeTaskCount = MaxConcurrentTasks

\* A task that was accepted, waiting or not, is answered in the end.
TaskIsAnswered == \A t \in Tasks : phase[t] # "none" ~> phase[t] = "answered"

\* On a branch of executeWithRepo a commit undoes nothing, whatever was pushed
\* since the task read the file and whoever shares the branch: the version a
\* file goes back to only grows and edits of other tasks stay.
CommitsUndoNothing ==
    [][\A b \in BridgeBranches, f \in Files : branches[b] # None =>
          /\ branches'[b][f].version >= branches[b][f].version
          /\ branches[b][f].by \subseteq branches'[b][f].by]_taskVars

\* A task that reports its changes as applied has them on its branch.
AppliedIsCommitted ==
    \A t \in Tasks : claim[t] = "applied" =>
       \A f \in edits[t] : t \in branches[BranchOf(t)][f].by
=============================================================================
