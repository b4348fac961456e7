------------------------------ MODULE ChatSession ------------------------------
(***************************************************************************)
(* The tool calls of one session: POST /sessions, /execute and /send of    *)
(* packages/core/src/server/routes/sessions.ts, the chat loop and its      *)
(* stream (chat-loop/index.ts), and the mocks that answer instead of a     *)
(* tool in test mode (sessions/mocks.ts, mock-dispatch.ts).                *)
(*                                                                         *)
(* Requests overlap and share the counters of the mocks.  A request awaits *)
(* the servers' lists of tools, the model, and the tools that are called.  *)
(* A stream's consumer and its loop run concurrently; a sleeping consumer  *)
(* is woken by the loop only.  The closing of sessions is in McpSessions.  *)
(***************************************************************************)
EXTENDS Naturals, Sequences, SequencesExt, Undefined

CONSTANTS
    Turns,             \* requests to the session, each made once
    RawTools,          \* names with a server of the session
    ForeignTools,      \* names with some other server
    MetaTools,         \* names a plugin has registered a hook for
    BareNames,         \* other names, the built-in tool's included
    MaxLoopIterations, \* MAX_LOOP_ITERATIONS
    MaxEntries,        \* bounds the length of a mock's array
    MaxUses            \* bounds the tools one reply of the model uses

ASSUME LoopAssumption == MaxLoopIterations \in Nat \ {0} /\ MaxEntries \in Nat /\ MaxUses \in Nat

\* A name that a server or a hook answers to is not one of the others.
ASSUME NamesAssumption == BareNames \intersect (RawTools \union MetaTools) = {}

ToolNames == RawTools \union ForeignTools \union MetaTools \union BareNames

VARIABLES
    session,   \* the session: whether mocks answer for it, and which it has
    count,     \* httpSessionToolCallCounts
    turnKind,  \* what each request is
    turnStage, \* where it stands
    iterations,\* replies of the model
    todo,      \* the tools of the reply that remain to be called
    turns,     \* what it sends the model: tools used by a reply, results returned
    buffer,    \* whether events of a stream wait for its consumer
    consumer,  \* its consumer
    loopDone,  \* loopDone
    served,    \* history: the entries of a mock that were handed out
    exhausted  \* history: the tools whose mocks were said to be exhausted

loopVars == <<iterations, todo, turns>>
streamVars == <<buffer, consumer, loopDone>>
mockVars == <<count, served, exhausted>>
chatVars == <<session, turnKind, turnStage, loopVars, streamVars, mockVars>>

\* What validateMocksShape lets pass: an object, or an array of them, an empty one too.
Mock == [kind : {"absent", "object"}, length : {0}] \union [kind : {"array"}, length : 0..MaxEntries]
NoMocks == [t \in ToolNames |-> [kind |-> "absent", length |-> 0]]

ChatTypeOK ==
    /\ session \in {None} \union [mocked : BOOLEAN, mocks : [ToolNames -> Mock]]
    /\ count \in [ToolNames -> 0..MaxEntries]
    /\ turnKind \in [Turns -> {"none", "execute", "send", "stream"}]
    /\ turnStage \in [Turns -> {"none", "asking", "using", "calling", "settled", "ended"}]
    /\ iterations \in [Turns -> 0..MaxLoopIterations]
    /\ todo \in [Turns -> BoundedSeq(ToolNames, MaxUses)]
    /\ \A r \in Turns : \A i \in DOMAIN turns[r] :
          turns[r][i].uses \in 1..MaxUses /\ turns[r][i].results \in Seq(1..MaxUses)
    /\ buffer \in [Turns -> BOOLEAN]
    /\ consumer \in [Turns -> {"none", "awake", "asleep", "ended"}]
    /\ loopDone \in [Turns -> BOOLEAN]
    /\ served \in [ToolNames -> Seq(1..MaxEntries)]
    /\ exhausted \subseteq ToolNames

ChatInit ==
    /\ session = None
    /\ count = [t \in ToolNames |-> 0]
    /\ turnKind = [r \in Turns |-> "none"]
    /\ turnStage = [r \in Turns |-> "none"]
    /\ iterations = [r \in Turns |-> 0]
    /\ todo = [r \in Turns |-> <<>>]
    /\ turns = [r \in Turns |-> <<>>]
    /\ buffer = [r \in Turns |-> FALSE]
    /\ consumer = [r \in Turns |-> "none"]
    /\ loopDone = [r \in Turns |-> FALSE]
    /\ served = [t \in ToolNames |-> <<>>]
    /\ exhausted = {}

\* POST /sessions, or a session of a channel: mocks answer for a session of the HTTP
\* route in test mode, and are refused elsewhere.  One for a name without a tool is
\* never looked at.
CreateChatSession(mocked, mocks) ==
    /\ session = None
    /\ \A t \in BareNames : mocks[t].kind = "absent"
    /\ mocks # NoMocks => mocked
    /\ session' = [mocked |-> mocked, mocks |-> mocks]
    /\ UNCHANGED <<turnKind, turnStage, loopVars, streamVars, mockVars>>

-----------------------------------------------------------------------------
(* The mocks.                                                              *)

\* Mutant: the counter passes the length by one before the array counts as used up.
SpentLate(t) == count[t] > session.mocks[t].length

Spent(t) == count[t] >= session.mocks[t].length

\* evaluateSessionMock and bumpHttpSessionToolCallCount, one synchronous step.
AnswerByMock(t) ==
    LET m == session.mocks[t] IN
    IF m.kind # "array" \/ m.length = 0
       THEN UNCHANGED mockVars
       ELSE IF Spent(t)
               THEN exhausted' = exhausted \union {t} /\ UNCHANGED <<count, served>>
               ELSE /\ count' = [count EXCEPT ![t] = @ + 1]
                    /\ served' = [served EXCEPT ![t] = Append(@, count'[t])]
                    /\ UNCHANGED exhausted

-----------------------------------------------------------------------------
(* POST /sessions/:id/execute.                                             *)

\* The tools that reach a server, or a plugin's hook, when no mock answers.
Dispatched == RawTools \union MetaTools

ExecuteTool(r, t) ==
    /\ turnStage[r] = "none" /\ session # None
    /\ turnKind' = [turnKind EXCEPT ![r] = "execute"]
    /\ LET mocked == session.mocked /\ t \notin BareNames IN
          /\ turnStage' = [turnStage EXCEPT ![r] =
                              IF t \in Dispatched /\ ~mocked THEN "calling" ELSE "ended"]
          /\ IF mocked THEN AnswerByMock(t) ELSE UNCHANGED mockVars
    /\ UNCHANGED <<session, loopVars, streamVars>>

\* The server or the hook answers, an error included.
ExecuteReturns(r) ==
    /\ turnKind[r] = "execute" /\ turnStage[r] = "calling"
    /\ turnStage' = [turnStage EXCEPT ![r] = "ended"]
    /\ UNCHANGED <<session, turnKind, loopVars, streamVars, mockVars>>

-----------------------------------------------------------------------------
(* runChatLoop, and runChatLoopStream's loop.                              *)

\* POST /sessions/:id/send: the catalog is built and the model is asked.
SendMessage(r, kind) ==
    /\ turnStage[r] = "none" /\ session # None
    /\ turnKind' = [turnKind EXCEPT ![r] = kind]
    /\ turnStage' = [turnStage EXCEPT ![r] = "asking"]
    /\ consumer' = [consumer EXCEPT ![r] = IF kind = "stream" THEN "awake" ELSE "none"]
    /\ UNCHANGED <<session, loopVars, buffer, loopDone, mockVars>>

Woken(r) == [consumer EXCEPT ![r] = IF @ = "asleep" THEN "awake" ELSE @]

\* A stream's loop pushes events or not; a loop that ends wakes the consumer as well.
Emit(r, events, ends) ==
    /\ buffer' = [buffer EXCEPT ![r] = @ \/ (events /\ turnKind[r] = "stream")]
    /\ consumer' = IF events \/ ends THEN Woken(r) ELSE consumer

\* After a reply or a result: what is sent to the model is `sent', and `left' is still
\* to be called.  The loop's variables end with it.
GoOn(r, replies, sent, left) ==
    LET stage == IF left # <<>> THEN "using"
                 ELSE IF replies < MaxLoopIterations /\ turnStage[r] # "asking" THEN "asking"
                 ELSE IF turnKind[r] = "stream" THEN "settled" ELSE "ended"
        over == stage \in {"settled", "ended"} IN
    /\ turnStage' = [turnStage EXCEPT ![r] = stage]
    /\ iterations' = [iterations EXCEPT ![r] = IF over THEN 0 ELSE replies]
    /\ turns' = [turns EXCEPT ![r] = IF over THEN <<>> ELSE sent]
    /\ todo' = [todo EXCEPT ![r] = left]

\* The model uses tools or not, and replies with text, which a stream gets at once, or not.
ModelReplies(r) ==
    /\ turnStage[r] = "asking"
    /\ \E uses \in BoundedSeq(ToolNames, MaxUses),
          text \in IF turnKind[r] = "stream" THEN BOOLEAN ELSE {FALSE} :
          /\ GoOn(r, iterations[r] + 1,
                     Append(turns[r], [uses |-> Len(uses), results |-> <<>>]), uses)
          /\ Emit(r, text, uses = <<>>)
    /\ UNCHANGED <<session, turnKind, loopDone, mockVars>>

\* The catalog or the model's service throws.
LoopThrows(r) ==
    /\ turnStage[r] = "asking"
    /\ turnStage' = [turnStage EXCEPT ![r] = IF turnKind[r] = "stream" THEN "settled" ELSE "ended"]
    /\ iterations' = [iterations EXCEPT ![r] = 0]
    /\ turns' = [turns EXCEPT ![r] = <<>>]
    /\ Emit(r, FALSE, TRUE)
    /\ UNCHANGED <<session, turnKind, todo, loopDone, mockVars>>

\* Mutant: a name that no tool has gets no result.
ResultsForKnown(r) ==
    LET past == turns[r][Len(turns[r])] IN
    IF Head(todo[r]) \in BareNames THEN past.results
    ELSE Append(past.results, past.uses - Len(todo[r]) + 1)

\* The results of the current reply, with that of the tool that comes next.
ResultsWithNext(r) ==
    LET past == turns[r][Len(turns[r])] IN
    Append(past.results, past.uses - Len(todo[r]) + 1)

\* The tool's result is recorded, and sent to the model after the last one.
Result(r) ==
    /\ GoOn(r, iterations[r],
               [turns[r] EXCEPT ![Len(turns[r])].results = ResultsWithNext(r)], Tail(todo[r]))
    /\ Emit(r, TRUE, turnStage'[r] = "settled")

\* The next tool of the reply: the loop calls servers that are not the session's too.
UseTool(r) ==
    /\ turnStage[r] = "using"
    /\ LET t == Head(todo[r])
           mocked == session.mocked /\ t \notin BareNames IN
          /\ IF mocked \/ t \in BareNames
                THEN Result(r)
                ELSE /\ turnStage' = [turnStage EXCEPT ![r] = "calling"]
                     /\ Emit(r, TRUE, FALSE)
                     /\ UNCHANGED loopVars
          /\ IF mocked THEN AnswerByMock(t) ELSE UNCHANGED mockVars
    /\ UNCHANGED <<session, turnKind, loopDone>>

\* The server or the hook answers the loop, an error included.
ToolReturns(r) ==
    /\ turnKind[r] # "execute" /\ turnStage[r] = "calling"
    /\ Result(r)
    /\ UNCHANGED <<session, turnKind, loopDone, mockVars>>

-----------------------------------------------------------------------------
(* The consumer of a stream.                                               *)

\* Mutant: the callback does not wake the consumer.
WokenByFinally(r) == consumer

WokenAtEnd(r) == Woken(r)

\* The callback of the loop's promise.
NoteLoopDone(r) ==
    /\ turnStage[r] = "settled"
    /\ turnStage' = [turnStage EXCEPT ![r] = "ended"]
    /\ loopDone' = [loopDone EXCEPT ![r] = TRUE]
    /\ consumer' = WokenAtEnd(r)
    /\ UNCHANGED <<session, turnKind, loopVars, buffer, mockVars>>

\* An event is taken and written, and others wait or not; or there is none, and the
\* consumer ends with the result or the error, or sleeps.
Consume(r) ==
    /\ consumer[r] = "awake"
    /\ IF buffer[r]
          THEN (\E others \in BOOLEAN : buffer' = [buffer EXCEPT ![r] = others]) /\ UNCHANGED consumer
          ELSE /\ consumer' = [consumer EXCEPT ![r] = IF loopDone[r] THEN "ended" ELSE "asleep"]
               /\ UNCHANGED buffer
    /\ UNCHANGED <<session, turnKind, turnStage, loopVars, loopDone, mockVars>>

ChatNext ==
    \/ \E mocked \in BOOLEAN, mocks \in [ToolNames -> Mock] : CreateChatSession(mocked, mocks)
    \/ \E r \in Turns :
          \/ \E t \in ToolNames : ExecuteTool(r, t)
          \/ \E kind \in {"send", "stream"} : SendMessage(r, kind)
          \/ ExecuteReturns(r) \/ ModelReplies(r) \/ LoopThrows(r)
          \/ UseTool(r) \/ ToolReturns(r) \/ NoteLoopDone(r) \/ Consume(r)

ChatSpec == ChatInit /\ [][ChatNext]_chatVars

-----------------------------------------------------------------------------
(* Properties.                                                             *)

\* The entries of a mock's array are handed out one after the other, each once,
\* whichever requests and loops of the session call the tool, none is skipped when
\* it is said to be exhausted, and a session's mocks keep its tools from being called.
MocksInOrder ==
    /\ \A t \in ToolNames : served[t] = [n \in 1..Len(served[t]) |-> n]
    /\ \A t \in exhausted : Len(served[t]) = session.mocks[t].length
    /\ \A r \in Turns : turnStage[r] = "calling" => ~session.mocked

\* The model is asked again only after each tool its reply used has its result, in
\* the order of the reply.
TurnsArePaired ==
    \A r \in Turns : \A i \in DOMAIN turns[r] :
       i < Len(turns[r]) \/ turnStage[r] = "asking" =>
          turns[r][i].results = [n \in 1..turns[r][i].uses |-> n]

\* A stream's consumer sleeps only while there is no event for it and the loop, or
\* the callback at its end, is still to wake it; it ends with every event taken.
StreamsWake ==
    \A r \in Turns :
       /\ consumer[r] = "asleep" => ~buffer[r] /\ ~loopDone[r]
       /\ consumer[r] = "ended" => ~buffer[r] /\ turnStage[r] = "ended"

\* What a session answers: mocks in order, results for every tool the model used, and
\* streams that end.
SessionAnswers == MocksInOrder /\ TurnsArePaired /\ StreamsWake
=============================================================================
