------------------------------- MODULE A2ATasks -------------------------------
(***************************************************************************)
(* Tasks that one runtime submits to another: A2AClient.submitTask,        *)
(* getTaskStatus and cancelTask (packages/core/src/a2a/client.ts), whose   *)
(* fetchWithRetry repeats a request that failed or timed out, against the  *)
(* routes of server/routes/a2a.ts, whose tasks are in memory only.         *)
(*                                                                         *)
(* A request may reach the server after its sender gave up on it, and a    *)
(* reply may be lost after the request was obeyed.                         *)
(***************************************************************************)
EXTENDS Naturals, FiniteSets, Undefined

CONSTANTS
    A2ACalls,     \* calls of the client, each made once
    TaskIds,      \* ids that callers give their tasks
    Retries,      \* A2AClientOptions.retries
    MaxRestarts   \* bounds the restarts of the server

ASSUME RetriesAssumption == Retries \in Nat /\ MaxRestarts \in Nat

VARIABLES
    taskStore,    \* taskStore: the tasks with an id, and their status
    restarts,     \* restarts of the server so far
    operation,    \* what each call is, and about which id
    attempt,      \* attempt
    reply,        \* what has come back to the current attempt
    outcome,      \* what the call returned or threw
    wire,         \* requests on their way: call and attempt
    copies,       \* history: tasks the server made for a call, with an id or without
    madeFor,      \* history: the ids a task was ever made for
    cancelled     \* history: the ids cancelled since the server started

serverVars == <<taskStore, restarts>>
clientVars == <<operation, attempt, reply, outcome>>
taskHistory == <<copies, madeFor, cancelled>>
a2aVars == <<serverVars, clientVars, wire, taskHistory>>

\* A submit without an id is about None: the server makes one up.
Operations == ({"submit"} \X (TaskIds \union {None})) \union ({"poll", "cancel"} \X TaskIds)
Answers == {"working", "cancelled", "exists", "refused", "unknown"}

ASSUME TasksAssumption == None \notin TaskIds \union Operations \union Answers

A2ATypeOK ==
    /\ taskStore \in [TaskIds -> {None, "working", "cancelled"}]
    /\ restarts \in 0..MaxRestarts
    /\ operation \in [A2ACalls -> Operations \union {None}]
    /\ attempt \in [A2ACalls -> 0..Retries]
    /\ reply \in [A2ACalls -> Answers \union {None}]
    /\ outcome \in [A2ACalls -> Answers \union {"failed", None}]
    /\ wire \subseteq A2ACalls \X (0..Retries)
    /\ copies \in [A2ACalls -> 0..(Retries + 1)]
    /\ madeFor \subseteq TaskIds /\ cancelled \subseteq TaskIds

A2AInit ==
    /\ taskStore = [i \in TaskIds |-> None] /\ restarts = 0
    /\ operation = [r \in A2ACalls |-> None]
    /\ attempt = [r \in A2ACalls |-> 0]
    /\ reply = [r \in A2ACalls |-> None] /\ outcome = [r \in A2ACalls |-> None]
    /\ wire = {}
    /\ copies = [r \in A2ACalls |-> 0] /\ madeFor = {} /\ cancelled = {}

-----------------------------------------------------------------------------
(* The client.                                                             *)

Pending(r) == operation[r] # None /\ outcome[r] = None

\* submitTask, getTaskStatus or cancelTask.
CallTask(r, op) ==
    /\ operation[r] = None
    /\ operation' = [operation EXCEPT ![r] = op]
    /\ wire' = wire \union {<<r, 0>>}
    /\ UNCHANGED <<serverVars, attempt, reply, outcome, taskHistory>>

\* A 5xx, an error of the connection or the timeout: the next attempt, or the last
\* one's failure is thrown.
AttemptFails(r) ==
    /\ Pending(r) /\ reply[r] = None
    /\ IF attempt[r] < Retries
          THEN /\ attempt' = [attempt EXCEPT ![r] = @ + 1]
               /\ wire' = wire \union {<<r, attempt'[r]>>}
               /\ UNCHANGED outcome
          ELSE outcome' = [outcome EXCEPT ![r] = "failed"] /\ UNCHANGED <<attempt, wire>>
    /\ UNCHANGED <<serverVars, operation, reply, taskHistory>>

\* The body of an answer, or an A2AClientError with its status.
Answered(r) ==
    /\ Pending(r) /\ reply[r] # None
    /\ outcome' = [outcome EXCEPT ![r] = reply[r]]
    /\ UNCHANGED <<serverVars, operation, attempt, reply, wire, taskHistory>>

\* A request or the connection it was sent on is lost.
LoseRequest(m) ==
    /\ wire' = wire \ {m}
    /\ UNCHANGED <<serverVars, clientVars, taskHistory>>

-----------------------------------------------------------------------------
(* The routes.                                                             *)

\* Mutant: a task is made whether or not there is one with that id.
ReplacesTask(i) == FALSE

Duplicate(i) == taskStore[i] # None

\* What a request does to the task with its id.
StatusAfter(op, i) ==
    CASE op = "submit" -> IF Duplicate(i) THEN taskStore[i] ELSE "working"
      [] op = "cancel" -> IF taskStore[i] = "working" THEN "cancelled" ELSE taskStore[i]
      [] op = "poll" -> taskStore[i]

\* 201, 409, 200, 404 and 400.
AnswerTo(op, i) ==
    CASE op = "submit" -> IF Duplicate(i) THEN "exists" ELSE "working"
      [] op = "cancel" -> (CASE taskStore[i] = None -> "unknown"
                             [] taskStore[i] = "working" -> "cancelled"
                             [] taskStore[i] = "cancelled" -> "refused")
      [] op = "poll" -> IF taskStore[i] = None THEN "unknown" ELSE taskStore[i]

\* The route runs, and its reply comes back to an attempt that still waits, or not.
Route(m, arrives) ==
    LET r == m[1]
        op == operation[r][1]
        i == operation[r][2]
        makes == op = "submit" /\ (i = None \/ ~Duplicate(i))
        code == IF i = None THEN "working" ELSE AnswerTo(op, i) IN
    /\ wire' = wire \ {m}
    /\ arrives => Pending(r) /\ attempt[r] = m[2] /\ reply[r] = None
    /\ reply' = IF arrives THEN [reply EXCEPT ![r] = code] ELSE reply
    /\ taskStore' = IF i = None THEN taskStore ELSE [taskStore EXCEPT ![i] = StatusAfter(op, i)]
    /\ copies' = IF makes THEN [copies EXCEPT ![r] = @ + 1] ELSE copies
    /\ madeFor' = IF makes THEN madeFor \union ({i} \ {None}) ELSE madeFor
    /\ cancelled' = IF op = "cancel" /\ code = "cancelled" THEN cancelled \union {i} ELSE cancelled
    /\ UNCHANGED <<restarts, operation, attempt, outcome>>

\* The tasks are gone; connections break, and what was sent on them is lost or sent
\* again, as any failed attempt.
RestartServer ==
    /\ restarts < MaxRestarts
    /\ restarts' = restarts + 1
    /\ taskStore' = [i \in TaskIds |-> None]
    /\ wire' = {} /\ cancelled' = {}
    /\ UNCHANGED <<clientVars, copies, madeFor>>

A2ANext ==
    \/ \E r \in A2ACalls :
          \/ \E op \in Operations : CallTask(r, op)
          \/ AttemptFails(r) \/ Answered(r)
    \/ \E m \in wire : LoseRequest(m) \/ \E arrives \in BOOLEAN : Route(m, arrives)
    \/ RestartServer

A2ASpec == A2AInit /\ [][A2ANext]_a2aVars

-----------------------------------------------------------------------------
(* Properties.                                                             *)

Submits(r, i) == operation[r] = <<"submit", i>>

\* A task that was cancelled stays so while the server runs, however late a repeated
\* submit of its id arrives; a server that was never restarted made at most one task
\* per id, and a submit is told that its id exists only if a task was made for it,
\* by an attempt of its own whose reply was lost when nobody else submits that id.
RetriesMakeNoTask ==
    /\ \A i \in cancelled : taskStore[i] = "cancelled"
    /\ \A i \in TaskIds : restarts = 0 =>
          Cardinality({r \in A2ACalls : Submits(r, i) /\ copies[r] > 0}) <= 1
    /\ \A r \in A2ACalls, i \in TaskIds :
          /\ Submits(r, i) => copies[r] <= restarts + 1
          /\ Submits(r, i) /\ outcome[r] = "exists" =>
                /\ i \in madeFor
                /\ (\A q \in A2ACalls \ {r} : ~Submits(q, i)) => copies[r] > 0 /\ attempt[r] > 0
=============================================================================
