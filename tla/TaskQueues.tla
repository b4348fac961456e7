------------------------------- MODULE TaskQueues -------------------------------
(***************************************************************************)
(* The task queue of a project: packages/core/src/queue/task-queue.ts,     *)
(* over a Redis stream with a consumer group, or in memory.                *)
(*                                                                         *)
(* Several processes, each with its own queue object, share the stream.    *)
(* Redis may lose its data; a process may end and start again.  ioredis    *)
(* sends a command again when it lost the connection before the reply, so  *)
(* a command may take effect twice or its answer get lost; a command that  *)
(* fails for good may have taken effect all the same.                      *)
(* In memory every process has a queue of its own: one is modelled.        *)
(***************************************************************************)
EXTENDS Naturals, Sequences, FiniteSets, Undefined

CONSTANTS
    QueueProcesses, \* processes with a queue object
    MaxTasks,     \* bounds the entries of the stream
    MaxFlushes      \* bounds how often Redis loses its data

Commands == {"enqueue", "dequeue", "pending"}

ASSUME QueuesAssumption ==
    /\ MaxTasks \in Nat /\ MaxFlushes \in Nat
    /\ None \notin QueueProcesses \union Commands /\ None \notin 0..MaxTasks

VARIABLES
    withRedis,    \* REDIS_URL is set
    stream,       \* the stream's entries, oldest first
    group,        \* the consumer group: how many entries it has handed out, or None
    pendingList,  \* entries handed out and not acknowledged
    groupCreated, \* processes whose queue object takes the group for created
    doing,        \* the command each process is about to send, once the group exists
    waiting,      \* in memory: the queue
    inflight,     \* in memory: tasks handed out and not acknowledged
    entries,      \* entries made so far; in memory, the counter
    flushes,      \* losses of data so far
    handedOut     \* history: entries that a process got from dequeue, in their order

redisVars == <<stream, group, pendingList, groupCreated, doing, flushes>>
inMemoryVars == <<waiting, inflight>>
queueVars == <<withRedis, redisVars, inMemoryVars, entries, handedOut>>

NumbersOf(seq) == {seq[i] : i \in DOMAIN seq}

QueuesTypeOK ==
    /\ withRedis \in BOOLEAN
    /\ NumbersOf(stream) \subseteq 1..MaxTasks
    /\ group \in (0..MaxTasks) \union {None}
    /\ pendingList \subseteq 1..MaxTasks
    /\ groupCreated \subseteq QueueProcesses
    /\ doing \in [QueueProcesses -> Commands \union {None}]
    /\ NumbersOf(waiting) \subseteq 1..MaxTasks
    /\ inflight \subseteq 1..MaxTasks
    /\ entries \in 0..MaxTasks
    /\ flushes \in 0..MaxFlushes
    /\ NumbersOf(handedOut) \subseteq 1..MaxTasks

QueuesInit ==
    /\ withRedis \in BOOLEAN
    /\ stream = <<>> /\ group = None /\ pendingList = {}
    /\ groupCreated = {}
    /\ doing = [p \in QueueProcesses |-> None]
    /\ waiting = <<>> /\ inflight = {}
    /\ entries = 0 /\ flushes = 0
    /\ handedOut = <<>>

-----------------------------------------------------------------------------
(* Over Redis.                                                             *)

\* Mutant: the group begins after the entries that are there.
AfterEntries == Len(stream)

\* Where XGROUP CREATE has the group begin.
GroupStart == 0

\* enqueue, dequeue and pending go through ensureGroup.  A group that exists is fine;
\* an object that has seen the group does not look again.  Without an answer the call
\* fails, and the group may exist.
EnsureGroup(p, command, accepted) ==
    /\ withRedis /\ doing[p] = None
    /\ p \in groupCreated => accepted
    /\ doing' = IF accepted THEN [doing EXCEPT ![p] = command] ELSE doing
    /\ groupCreated' = IF accepted THEN groupCreated \union {p} ELSE groupCreated
    /\ group' = IF p \notin groupCreated /\ group = None THEN GroupStart ELSE group
    /\ UNCHANGED <<withRedis, stream, pendingList, flushes, inMemoryVars, entries, handedOut>>

EndCommand(p) == doing' = [doing EXCEPT ![p] = None]

\* XADD, once or, sent again, twice; whether the caller is told makes no difference here.
Enqueue(p, times) ==
    /\ doing[p] = "enqueue" /\ entries + times <= MaxTasks
    /\ EndCommand(p)
    /\ entries' = entries + times
    /\ stream' = stream \o [i \in 1..times |-> entries + i]
    /\ UNCHANGED <<withRedis, group, pendingList, groupCreated, flushes, inMemoryVars, handedOut>>

\* XREADGROUP of new entries: the next one; sent again, the one after it, and the
\* first stays pending.  Without an answer the call fails and they all do.
Dequeue(p, times, answered) ==
    /\ doing[p] = "dequeue" /\ group # None /\ group + times <= Len(stream)
    /\ EndCommand(p)
    /\ group' = group + times
    /\ pendingList' = pendingList \union {stream[i] : i \in (group + 1)..group'}
    /\ handedOut' = IF answered THEN Append(handedOut, stream[group']) ELSE handedOut
    /\ UNCHANGED <<withRedis, stream, groupCreated, flushes, inMemoryVars, entries>>

\* Nothing to hand out within BLOCK_MS, or the command fails without having taken
\* effect: also because the group is gone.
NoEntry(p) ==
    /\ doing[p] # None
    /\ EndCommand(p)
    /\ UNCHANGED <<withRedis, stream, group, pendingList, groupCreated, flushes, inMemoryVars, entries, handedOut>>

\* acknowledge: XACK of an entry that was handed out.
Acknowledge(i) ==
    /\ withRedis /\ i \in NumbersOf(handedOut) /\ i \in pendingList
    /\ pendingList' = pendingList \ {i}
    /\ UNCHANGED <<withRedis, stream, group, groupCreated, doing, flushes, inMemoryVars, entries, handedOut>>

\* Redis starts without its data.
FlushRedis ==
    /\ withRedis /\ flushes < MaxFlushes
    /\ flushes' = flushes + 1
    /\ stream' = <<>> /\ group' = None /\ pendingList' = {}
    /\ UNCHANGED <<withRedis, groupCreated, doing, inMemoryVars, entries, handedOut>>

RestartConsumer(p) ==
    /\ withRedis /\ p \in groupCreated
    /\ groupCreated' = groupCreated \ {p}
    /\ EndCommand(p)
    /\ UNCHANGED <<withRedis, stream, group, pendingList, flushes, inMemoryVars, entries, handedOut>>

-----------------------------------------------------------------------------
(* In memory.                                                              *)

EnqueueInMemory ==
    /\ ~withRedis /\ entries < MaxTasks
    /\ entries' = entries + 1
    /\ waiting' = Append(waiting, entries')
    /\ UNCHANGED <<withRedis, redisVars, inflight, handedOut>>

DequeueInMemory ==
    /\ ~withRedis /\ waiting # <<>>
    /\ waiting' = Tail(waiting)
    /\ inflight' = inflight \union {Head(waiting)}
    /\ handedOut' = Append(handedOut, Head(waiting))
    /\ UNCHANGED <<withRedis, redisVars, entries>>

AcknowledgeInMemory(i) ==
    /\ ~withRedis /\ i \in inflight
    /\ inflight' = inflight \ {i}
    /\ UNCHANGED <<withRedis, redisVars, waiting, entries, handedOut>>

CloseQueue ==
    /\ ~withRedis
    /\ waiting' = <<>> /\ inflight' = {}
    /\ UNCHANGED <<withRedis, redisVars, entries, handedOut>>

QueuesNext ==
    \/ \E p \in QueueProcesses :
          \/ \E command \in Commands, accepted \in BOOLEAN : EnsureGroup(p, command, accepted)
          \/ \E times \in 1..2 : Enqueue(p, times) \/ \E answered \in BOOLEAN : Dequeue(p, times, answered)
          \/ NoEntry(p) \/ RestartConsumer(p)
    \/ \E i \in 1..MaxTasks : Acknowledge(i) \/ AcknowledgeInMemory(i)
    \/ FlushRedis \/ EnqueueInMemory \/ DequeueInMemory \/ CloseQueue

QueuesSpec == QueuesInit /\ [][QueuesNext]_queueVars

-----------------------------------------------------------------------------
(* Properties.                                                             *)

\* Tasks are handed out in the order of the queue, each to one process and once, and
\* none that is still in the stream is passed over: also one that was enqueued while
\* the group was lost.  (One whose reply got lost stays pending.)
HandedOutInOrder ==
    /\ \A i \in 2..Len(handedOut) : handedOut[i - 1] < handedOut[i]
    /\ \A i, j \in DOMAIN stream :
          i < j /\ stream[j] \in NumbersOf(handedOut) => stream[i] \in NumbersOf(handedOut) \union pendingList
=============================================================================
