----------------------------- MODULE McpSessions -----------------------------
(***************************************************************************)
(* HTTP sessions over the MCP bridge: the execute, send and DELETE routes  *)
(* of packages/core/src/server/routes/sessions.ts, with the session status *)
(* of sessions/core.ts and the tool dispatch of the chat loop.             *)
(*                                                                         *)
(* /execute checks that the session is active and dispatches in the same   *)
(* macrotask.  /send checks once; its chat loop then lists the tools of    *)
(* every server and calls tools, one at a time, between model replies that *)
(* take arbitrarily long.  DELETE kills the children first and marks the   *)
(* session closed, and replies 204, when the last of them has exited.      *)
(***************************************************************************)
EXTENDS McpBridge

CONSTANTS
    ExecuteCalls, \* the calls made by POST /execute; chat loops make the others
    Loops         \* runs of the chat loop, one per POST /send

ASSUME ExecuteCallsAssumption == ExecuteCalls \subseteq Calls \ ListCalls

ASSUME LoopsAssumption == None \notin Loops

VARIABLES
    status,    \* session.status
    loopOf,    \* session a chat loop runs in
    toList,    \* servers the loop has yet to list for its tool catalog
    awaiting,  \* the call a loop has made last
    overlapped, \* history: sessions a call was made for during or after a DELETE
    inFlight   \* history: the calls a DELETE found in flight for its session that still are

sessionVars == <<status, loopOf, toList, awaiting, overlapped, inFlight>>
systemVars == <<bridgeVars, sessionVars>>

SystemInit ==
    /\ Init
    /\ status = [s \in Sessions |-> "active"]
    /\ loopOf = [l \in Loops |-> None]
    /\ toList = [l \in Loops |-> {}]
    /\ awaiting = [l \in Loops |-> None]
    /\ overlapped = {}
    /\ inFlight = [d \in Closers |-> {}]

Deleting(s) == \E d \in Closers : closeOf[d] = s

NoteAnswers == inFlight' = [d \in Closers |-> {c \in inFlight[d] : outcome'[c] = None}]

NoteOverlap(s) == overlapped' = IF Deleting(s) THEN overlapped \union {s} ELSE overlapped

\* Mutant: the session is marked closed before the bridge returns.
CloseSessionByIdAtOnce ==
    status' = [s \in Sessions |-> IF \E d \in Closers : closeOf'[d] = s THEN "closed"
                                 ELSE status[s]]

\* Mutant: a status the session type does not have.
CloseSessionByIdEnded ==
    status' = [s \in Sessions |->
                 IF \E d \in Closers : closeOf'[d] = s /\ awaited'[d] = {}
                 THEN "ended" ELSE status[s]]

\* closeSessionById runs, and the 204 is sent, in the macrotask in which the
\* bridge's closeSession returns.
CloseSessionById ==
    status' = [s \in Sessions |->
                 IF \E d \in Closers : closeOf'[d] = s /\ awaited'[d] = {}
                 THEN "closed" ELSE status[s]]

-----------------------------------------------------------------------------

\* POST /sessions/:id/execute with a `server/tool' name.
Execute(c, k) ==
    /\ c \in ExecuteCalls
    /\ status[k[1]] = "active"
    /\ Call(c, k)
    /\ NoteOverlap(k[1])
    /\ UNCHANGED <<status, loopOf, toList, awaiting, inFlight>>

\* POST /sessions/:id/send: the only check of the session's status.
Send(l, s) ==
    /\ loopOf[l] = None
    /\ status[s] = "active"
    /\ loopOf' = [loopOf EXCEPT ![l] = s]
    /\ toList' = [toList EXCEPT ![l] = Servers]
    /\ UNCHANGED <<bridgeVars, status, awaiting, overlapped, inFlight>>

\* The loop awaits one call at a time.
LoopMayProceed(l) ==
    /\ loopOf[l] # None
    /\ awaiting[l] # None => outcome[awaiting[l]] # None

\* buildToolCatalog asks the next server for its tools.
LoopListTools(l, c, srv) ==
    /\ LoopMayProceed(l)
    /\ srv \in toList[l]
    /\ ListTools(c, <<loopOf[l], srv>>)
    /\ toList' = [toList EXCEPT ![l] = @ \ {srv}]
    /\ awaiting' = [awaiting EXCEPT ![l] = c]
    /\ NoteOverlap(loopOf[l])
    /\ UNCHANGED <<status, loopOf, inFlight>>

\* The model has replied with a tool_use block: runInternal dispatches it.
LoopCall(l, c, srv) ==
    /\ LoopMayProceed(l)
    /\ toList[l] = {}
    /\ c \notin ExecuteCalls
    /\ Call(c, <<loopOf[l], srv>>)
    /\ awaiting' = [awaiting EXCEPT ![l] = c]
    /\ NoteOverlap(loopOf[l])
    /\ UNCHANGED <<status, loopOf, toList, inFlight>>

\* DELETE /sessions/:id, of an active or a closed session.
Delete(d, s) ==
    /\ CloseSession(d, s)
    /\ CloseSessionById
    /\ inFlight' = [inFlight EXCEPT ![d] = {c \in Calls : Waiting(c) /\ target[c][1] = s}]
    /\ UNCHANGED <<loopOf, toList, awaiting, overlapped>>

\* The "exit" event may be the one a DELETE was waiting for.
ChildExit(h) ==
    /\ ExitEvent(h)
    /\ CloseSessionById
    /\ NoteAnswers
    /\ UNCHANGED <<loopOf, toList, awaiting, overlapped>>

\* Steps of the bridge and of the children the routes take no part in.
BridgeStep ==
    /\ \/ \E h \in Handles : ChildReplies(h) \/ ChildPrints(h) \/ ChildDies(h)
       \/ \E h \in Handles : HandleStdoutLine(h)
       \/ \E t \in timers : Timeout(t[1], t[2])
       \/ \E d \in Closers, h \in Handles : SigKill(d, h)
    /\ NoteAnswers
    /\ UNCHANGED <<status, loopOf, toList, awaiting, overlapped>>

SystemNext ==
    \/ \E c \in Calls, k \in Keys : Execute(c, k)
    \/ \E l \in Loops, s \in Sessions : Send(l, s)
    \/ \E l \in Loops, c \in Calls, srv \in Servers :
          LoopListTools(l, c, srv) \/ LoopCall(l, c, srv)
    \/ \E d \in Closers, s \in Sessions : Delete(d, s)
    \/ \E h \in Handles : ChildExit(h)
    \/ BridgeStep

SystemSpec == SystemInit /\ [][SystemNext]_systemVars

-----------------------------------------------------------------------------
(* Properties.                                                             *)

\* Every variable has its type.
SystemTypeOK ==
    /\ TypeOK
    /\ status \in [Sessions -> {"active", "closed"}]
    /\ loopOf \in [Loops -> Sessions \union {None}]
    /\ toList \in [Loops -> SUBSET Servers]
    /\ awaiting \in [Loops -> Calls \union {None}]
    /\ overlapped \in SUBSET Sessions
    /\ inFlight \in [Closers -> SUBSET Calls]

LiveChildren(s) ==
    {h \in Handles : proc[h] \in {"alive", "failed", "dead"} /\ keyOf[h][1] = s}

\* What holds of the DELETE contract: a closed session has no child unless a
\* call was dispatched for it after a DELETE had begun.
QuietCloseLeavesNoChild ==
    \A s \in Sessions : status[s] = "closed" /\ s \notin overlapped => LiveChildren(s) = {}

\* When the bridge's closeSession returns, and the 204 goes out, every call that the
\* DELETE found in flight has its answer, from the child, its timer or the exit handler:
\* also when other calls, a chat loop or a second DELETE of the session went on meanwhile.
DeleteAnswersCalls ==
    \A d \in Closers : Returned(d) => inFlight[d] = {}

\* The DELETE route's comment (sessions.ts:633-635): when the 204 lands, every
\* child for this session is gone.
ChildrenGoneAt204 ==
    [][\A s \in Sessions :
          status[s] = "active" /\ status'[s] = "closed" => LiveChildren(s)' = {}]_systemVars
=============================================================================
