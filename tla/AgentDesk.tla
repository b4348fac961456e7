------------------------------- MODULE AgentDesk -------------------------------
(***************************************************************************)
(* One project agent at work: messages from the channels                   *)
(* (packages/agents/supervisor), handleMessage, handleCIEvent and          *)
(* initialize of packages/agents/project, the dashboard's actions on an    *)
(* agent (server/routes/agents.ts), and the start-up that restores what    *)
(* they saved (server/start.mjs).                                          *)
(*                                                                         *)
(* Messages are handled concurrently.  Every one saves the number of tasks *)
(* through setMemory, which reads the whole memory file and writes it back *)
(* (storage/file-storage.ts), the autonomy level in it included.           *)
(***************************************************************************)
EXTENDS Naturals, FiniteSets, Undefined

CONSTANTS
    DeskRequests,  \* messages, CI events and actions of the dashboard, each made once
    Levels,        \* some of the autonomy levels
    MaxCrashes     \* bounds the crashes of the process

ASSUME LevelsAssumption == Levels \subseteq 0..5 /\ 1 \in Levels /\ MaxCrashes \in Nat

VARIABLES
    process,     \* "down", "starting" (channels connected, states not restored) or "up"
    crashes,     \* crashes so far
    level,       \* config.autonomyLevel
    agentState,  \* _state
    memory,      \* the autonomy level in memory.json
    savedState,  \* the autonomy level in agent-states.json
    deskKind,    \* what each request is
    deskStage,   \* where it stands
    choice,      \* the level it asks for, or the status it saves
    copy,        \* the level in the memory file it has read
    confirmed,    \* history: the level last chosen and confirmed
    muddled,     \* history: since then, what was saved may not be that level
    threw        \* history: a message ended with an exception

agentVars == <<level, agentState>>
savedVars == <<memory, savedState>>
askVars == <<deskKind, deskStage, choice, copy>>
deskHistory == <<confirmed, muddled, threw>>
deskVars == <<process, crashes, agentVars, savedVars, askVars, deskHistory>>

LevelOrNone == Levels \union {None}

DeskTypeOK ==
    /\ process \in {"down", "starting", "up"}
    /\ crashes \in 0..MaxCrashes
    /\ level \in Levels
    /\ agentState \in {"INITIALIZING", "IDLE", "ACTIVE"}
    /\ memory \in LevelOrNone /\ savedState \in LevelOrNone
    /\ deskKind \in [DeskRequests -> {"none", "level", "command", "question", "event", "set", "suspend", "restart"}]
    /\ deskStage \in [DeskRequests -> {"none", "progress", "thinking", "reading", "writing", "saving",
                                       "savingState", "closing", "leaving", "initializing", "ended"}]
    /\ choice \in [DeskRequests -> LevelOrNone]
    /\ copy \in [DeskRequests -> LevelOrNone]
    /\ confirmed \in LevelOrNone /\ muddled \in BOOLEAN /\ threw \in BOOLEAN

DeskInit ==
    /\ process = "up" /\ crashes = 0
    /\ level = 1 /\ agentState = "IDLE"
    /\ memory = None /\ savedState = None
    /\ deskKind = [r \in DeskRequests |-> "none"]
    /\ deskStage = [r \in DeskRequests |-> "none"]
    /\ choice = [r \in DeskRequests |-> None]
    /\ copy = [r \in DeskRequests |-> None]
    /\ confirmed = None /\ muddled = FALSE /\ threw = FALSE

OpenRequests == {r \in DeskRequests : deskStage[r] \notin {"none", "ended"}}
Choosing == {r \in OpenRequests : deskKind[r] \in {"level", "set"}}

\* Whether it is muddled after a request came: a choice starts afresh.
Muddled(kind) ==
    IF kind \in {"level", "set"} THEN OpenRequests # {} ELSE muddled \/ Choosing # {}

Come(r, kind, stage, wanted) ==
    /\ deskStage[r] = "none"
    /\ deskKind' = [deskKind EXCEPT ![r] = kind]
    /\ deskStage' = [deskStage EXCEPT ![r] = stage]
    /\ choice' = [choice EXCEPT ![r] = wanted]

Move(r, stage) ==
    /\ deskStage' = [deskStage EXCEPT ![r] = stage]
    /\ UNCHANGED deskKind

-----------------------------------------------------------------------------
(* handleMessage.                                                          *)

\* Where the handling of a message begins: an open question goes to the model first,
\* anything else to setMemory.
FirstStage(kind) == IF kind = "question" THEN "thinking" ELSE "reading"

\* A message that takes no progress note.
Message(r, kind, wanted) ==
    /\ process # "down"
    /\ Come(r, kind, FirstStage(kind), wanted)
    /\ agentState' = "ACTIVE"
    /\ muddled' = Muddled(kind)
    /\ UNCHANGED <<process, crashes, copy, level, savedVars, confirmed, threw>>

\* One that may take long is announced on its channel.
LongMessage(r, kind) ==
    /\ process # "down"
    /\ Come(r, kind, "progress", None)
    /\ muddled' = Muddled(kind)
    /\ UNCHANGED <<process, crashes, copy, agentVars, savedVars, confirmed, threw>>

\* The note is sent; if it cannot be, the message is dropped.
ProgressSent(r, sent) ==
    /\ deskStage[r] = "progress"
    /\ Move(r, IF sent THEN FirstStage(deskKind[r]) ELSE "ended")
    /\ agentState' = IF sent THEN "ACTIVE" ELSE agentState
    /\ UNCHANGED <<process, crashes, level, savedVars, choice, copy, deskHistory>>

\* generateSmartResponse answers the question, or the message is handled as a command;
\* both ways go on to setMemory.
SmartResponse(r, answers) ==
    /\ deskStage[r] = "thinking"
    /\ deskKind' = [deskKind EXCEPT ![r] = IF answers THEN @ ELSE "command"]
    /\ deskStage' = [deskStage EXCEPT ![r] = "reading"]
    /\ UNCHANGED <<process, crashes, agentVars, savedVars, choice, copy, deskHistory>>

\* setMemory of the number of tasks: the file is read, with the level in it ...
ReadMemory(r) ==
    /\ deskStage[r] = "reading"
    /\ Move(r, "writing")
    /\ copy' = [copy EXCEPT ![r] = memory]
    /\ UNCHANGED <<process, crashes, agentVars, savedVars, choice, deskHistory>>

\* ... and written.  A chosen level is the agent's from here on.
WriteMemory(r) ==
    /\ deskStage[r] = "writing"
    /\ memory' = copy[r]
    /\ copy' = [copy EXCEPT ![r] = None]
    /\ level' = IF deskKind[r] = "level" THEN choice[r] ELSE level
    /\ Move(r, CASE deskKind[r] = "level" -> "saving"
                 [] deskKind[r] = "question" -> "leaving"
                 [] deskKind[r] = "command" -> "closing")
    /\ UNCHANGED <<process, crashes, agentState, savedState, choice, deskHistory>>

\* Mutant: the level is set and not saved.
UnsavedLevel(r) == memory

SavedLevel(r) == choice[r]

\* setMemory of the level, by the message or by the dashboard.
SaveLevel(r) ==
    /\ deskStage[r] = "saving"
    /\ memory' = SavedLevel(r)
    /\ Move(r, IF deskKind[r] = "set" THEN "savingState" ELSE "closing")
    /\ UNCHANGED <<process, crashes, agentVars, savedState, choice, copy, deskHistory>>

\* The level that a start gives the agent: agent-states.json wins over memory.json
\* unless it says 1.
StartLevel ==
    IF savedState \notin {None, 1} THEN savedState
    ELSE IF memory # None THEN memory
    ELSE 1

\* Audit and vector memory are written and the message is answered.
Finish(r) ==
    /\ deskStage[r] = "closing"
    /\ Move(r, "ended")
    /\ agentState' = "IDLE"
    /\ IF deskKind[r] = "level"
          THEN /\ confirmed' = choice[r]
               /\ muddled' = (muddled \/ savedState \notin {None, 1, choice[r]})
          ELSE UNCHANGED <<confirmed, muddled>>
    /\ UNCHANGED <<process, crashes, level, savedVars, choice, copy, threw>>

\* Mutant: the early return leaves the state as it is.
StateUnreset == agentState

StateReset == "IDLE"

\* The early return of an open question.
FinishEarly(r) ==
    /\ deskStage[r] = "leaving"
    /\ Move(r, "ended")
    /\ agentState' = StateReset
    /\ UNCHANGED <<process, crashes, level, savedVars, choice, copy, deskHistory>>

\* The storage throws: the supervisor logs it and nobody is answered.
MessageThrows(r) ==
    /\ deskStage[r] \in {"writing", "saving", "closing", "leaving"}
    /\ deskKind[r] \in {"level", "command", "question"}
    /\ Move(r, "ended")
    /\ threw' = TRUE
    /\ muddled' = (muddled \/ deskKind[r] = "level")
    /\ UNCHANGED <<process, crashes, agentVars, savedVars, choice, copy, confirmed>>

\* handleCIEvent, and the review or the investigation it waits for.
CIEvent(r) ==
    /\ process = "up"
    /\ Come(r, "event", "closing", None)
    /\ agentState' = "ACTIVE"
    /\ UNCHANGED <<process, crashes, copy, level, savedVars, deskHistory>>

-----------------------------------------------------------------------------
(* POST /api/agents/:id/action.                                            *)

\* set_autonomy: the status it writes the level to is a copy.
SetAutonomyAction(r, wanted) ==
    /\ process = "up"
    /\ Come(r, "set", "saving", wanted)
    /\ muddled' = Muddled("set")
    /\ UNCHANGED <<process, crashes, copy, agentVars, savedVars, confirmed, threw>>

\* suspend and resume: the level the agent has now is saved along.
SuspendAction(r) ==
    /\ process = "up"
    /\ Come(r, "suspend", "savingState", level)
    /\ muddled' = (Muddled("suspend") \/ level \notin {1, confirmed})
    /\ UNCHANGED <<process, crashes, copy, agentVars, savedVars, confirmed, threw>>

\* saveAgentState, and the answer.
SaveState(r) ==
    /\ deskStage[r] = "savingState"
    /\ savedState' = choice[r]
    /\ Move(r, "ended")
    /\ IF deskKind[r] = "set"
          THEN confirmed' = choice[r]
          ELSE UNCHANGED confirmed
    /\ UNCHANGED <<process, crashes, agentVars, memory, choice, copy, muddled, threw>>

\* The storage throws: a 500.
ActionThrows(r) ==
    /\ deskStage[r] \in {"saving", "savingState"} /\ deskKind[r] \in {"set", "suspend"}
    /\ Move(r, "ended")
    /\ muddled' = (muddled \/ deskKind[r] = "set")
    /\ UNCHANGED <<process, crashes, agentVars, savedVars, choice, copy, confirmed, threw>>

\* restart: shutdown and initialize of the agent ...
RestartAction(r) ==
    /\ process = "up"
    /\ Come(r, "restart", "initializing", None)
    /\ agentState' = "INITIALIZING"
    /\ UNCHANGED <<process, crashes, copy, level, savedVars, deskHistory>>

\* ... which takes the level from memory.json.
InitializeAgent(r) ==
    /\ deskStage[r] = "initializing"
    /\ level' = IF memory # None THEN memory ELSE level
    /\ agentState' = "IDLE"
    /\ Move(r, "ended")
    /\ UNCHANGED <<process, crashes, savedVars, choice, copy, deskHistory>>

-----------------------------------------------------------------------------
(* The process.                                                            *)

CrashProcess ==
    /\ process # "down" /\ crashes < MaxCrashes
    /\ process' = "down" /\ crashes' = crashes + 1
    /\ deskStage' = [r \in DeskRequests |-> IF r \in OpenRequests THEN "ended" ELSE deskStage[r]]
    /\ muddled' = (muddled \/ Choosing # {})
    /\ UNCHANGED <<agentVars, savedVars, deskKind, choice, copy, confirmed, threw>>

\* The agent is made with level 1 and initialized, and the channels are connected.
StartProcess ==
    /\ process = "down"
    /\ process' = "starting"
    /\ level' = (IF memory # None THEN memory ELSE 1)
    /\ agentState' = "IDLE"
    /\ threw' = FALSE
    /\ UNCHANGED <<crashes, savedVars, askVars, confirmed, muddled>>

\* The states saved by the dashboard are restored, and the web server starts.
RestoreStates ==
    /\ process = "starting"
    /\ process' = "up"
    /\ level' = (IF savedState \notin {None, 1} THEN savedState ELSE level)
    /\ UNCHANGED <<crashes, agentState, savedVars, askVars, deskHistory>>

DeskNext ==
    \/ \E r \in DeskRequests :
          \/ \E wanted \in Levels : Message(r, "level", wanted) \/ SetAutonomyAction(r, wanted)
          \/ \E kind \in {"command", "question"} : Message(r, kind, None) \/ LongMessage(r, kind)
          \/ \E good \in BOOLEAN : ProgressSent(r, good) \/ SmartResponse(r, good)
          \/ ReadMemory(r) \/ WriteMemory(r) \/ SaveLevel(r) \/ Finish(r) \/ FinishEarly(r)
          \/ MessageThrows(r) \/ CIEvent(r)
          \/ SuspendAction(r) \/ SaveState(r) \/ ActionThrows(r)
          \/ RestartAction(r) \/ InitializeAgent(r)
    \/ CrashProcess \/ StartProcess \/ RestoreStates

DeskSpec == DeskInit /\ [][DeskNext]_deskVars

-----------------------------------------------------------------------------
(* Properties.                                                             *)

\* The level that was last chosen and confirmed, in a channel or on the dashboard, is
\* the one a start gives the agent, unless its choice overlapped another request or one
\* failed since, a choice in a channel followed one on the dashboard, or the dashboard
\* suspended an agent that still had another level.
ChoiceSurvives ==
    confirmed # None /\ ~muddled /\ Choosing = {} => StartLevel = confirmed

\* The agent says ACTIVE only while it handles something or after a message threw.
\* (It may say IDLE while it handles something.)
ActiveEnds ==
    agentState = "ACTIVE" /\ process = "up" => threw \/ OpenRequests # {}
=============================================================================
