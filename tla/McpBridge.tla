------------------------------ MODULE McpBridge ------------------------------
(***************************************************************************)
(* The MCP process manager: packages/core/src/mcp/process-manager.ts.      *)
(*                                                                         *)
(* One child process per (session, server), spawned on the first call and  *)
(* cached until its "exit" event.  Calls are JSON-RPC requests on the      *)
(* child's stdin, correlated with stdout lines by a per-child id; each has *)
(* a timer.  closeSession kills a session's children and waits for them.   *)
(*                                                                         *)
(* A step is one macrotask of the event loop with the microtasks it        *)
(* queues: no two handlers overlap, and the continuation that follows a    *)
(* settled promise belongs to the step that settles it.                    *)
(***************************************************************************)
EXTENDS Naturals, SequencesExt

CONSTANTS
    Sessions,            \* session ids
    Servers,             \* server ids
    Calls,               \* invocations of call or listTools, each made once
    ListCalls,           \* those made through listTools
    UntimedCalls,        \* those made with timeoutMs <= 0
    UnserialisableCalls, \* those whose input JSON.stringify refuses
    UnknownServers,      \* servers the registry resolves to null
    UnspawnableServers,  \* servers whose command fails to spawn (ENOENT, EACCES)
    Closers,             \* invocations of closeSession, each made once
    Handles,             \* child handles, one per spawn
    MaxLines,            \* bound on the unread stdout lines of a child
    None                 \* undefined, null

ASSUME SubsetAssumption ==
    /\ ListCalls \subseteq Calls
    /\ UntimedCalls \subseteq Calls
    /\ UnserialisableCalls \subseteq Calls
    /\ UnknownServers \subseteq Servers
    /\ UnspawnableServers \subseteq Servers

ASSUME NoneAssumption ==
    /\ None \notin Sessions
    /\ None \notin Handles
    /\ None \notin Calls
    /\ None \notin Sessions \X Servers

ASSUME MaxLinesAssumption == MaxLines \in Nat

VARIABLES
    children,     \* #children: the handle cached under each key
    keyOf,        \* sessionId and serverId of each handle
    proc,         \* the process of a handle, as the operating system and the
                  \* event loop see it
    nextRpcId,    \* next request id of a handle
    pending,      \* pending map of a handle: request id to call
    pendingOrder, \* ids of pending requests, oldest first
    timers,       \* armed timeout timers, as <<handle, id>>
    stdin,        \* requests written to the child
    stdout,       \* lines the child wrote and the manager has not read
    target,       \* key a call was made for
    outcome,      \* result the promise of a call resolved to
    closeOf,      \* session a closeSession was called for
    awaited,      \* handles whose exit a closeSession still awaits
    killTimers    \* handles a closeSession will SIGKILL

bridgeVars == <<children, keyOf, proc, nextRpcId, pending, pendingOrder, timers,
                stdin, stdout, target, outcome, closeOf, awaited, killTimers>>

Keys == Sessions \X Servers

\* "alive": running.  "failed": never started; Node emits "error" and no
\* "exit".  "dead": ended, "exit" not delivered yet.  "exited": delivered,
\* handle.exited is set.
ProcStates == {"unborn", "alive", "failed", "dead", "exited"}

ReplyKinds == {"result", "shapeless", "error"}
LineKinds == ReplyKinds \union {"garbage", "noid"}
Codes == {"ok", "unknown_server", "timeout", "parse_error", "child_exit",
          "unknown_response_shape"}

Entries == [id : Nat, call : Calls]
Lines == [kind : LineKinds, id : Nat, of : Calls \union {None}]
Outcomes == [code : Codes, of : Calls \union {None}]

ASSUME OutcomeAssumption == None \notin Outcomes

Exited(h) == proc[h] = "exited"
Waiting(c) == target[c] # None /\ outcome[c] = None
Returned(d) == closeOf[d] # None /\ awaited[d] = {}

Init ==
    /\ children = [k \in Keys |-> None]
    /\ keyOf = [h \in Handles |-> None]
    /\ proc = [h \in Handles |-> "unborn"]
    /\ nextRpcId = [h \in Handles |-> 1]
    /\ pending = [h \in Handles |-> {}]
    /\ pendingOrder = [h \in Handles |-> <<>>]
    /\ timers = {}
    /\ stdin = [h \in Handles |-> {}]
    /\ stdout = [h \in Handles |-> <<>>]
    /\ target = [c \in Calls |-> None]
    /\ outcome = [c \in Calls |-> None]
    /\ closeOf = [d \in Closers |-> None]
    /\ awaited = [d \in Closers |-> {}]
    /\ killTimers = [d \in Closers |-> {}]

-----------------------------------------------------------------------------
(* Settling calls.                                                         *)

\* The promise of call c resolves; `of' is the call whose request the child
\* answered, for a result that came from the child.
Settle(c, code, of) == outcome' = [outcome EXCEPT ![c] = [code |-> code, of |-> of]]

\* Mutant: replies are matched first in, first out, whatever their id.
EntryOldest(h, id) == {e \in pending[h] : pendingOrder[h] # <<>> /\ e.id = Head(pendingOrder[h])}

EntryAt(h, id) == {e \in pending[h] : e.id = id}

\* Mutant: the entry stays in the map.
ResolveEntryKeepsEntry(h, e, code, of) ==
    /\ pendingOrder' = [pendingOrder EXCEPT ![h] = RemoveFirst(@, e.id)]
    /\ timers' = timers \ {<<h, e.id>>}
    /\ Settle(e.call, code, of)
    /\ UNCHANGED pending

\* #removePending, clearTimeout, and the promise of entry e.
ResolveEntry(h, e, code, of) ==
    /\ pending' = [pending EXCEPT ![h] = @ \ {e}]
    /\ pendingOrder' = [pendingOrder EXCEPT ![h] = RemoveFirst(@, e.id)]
    /\ timers' = timers \ {<<h, e.id>>}
    /\ Settle(e.call, code, of)

\* Mutant: the newest request takes the blame.
ResolveNewestPending(h, code) ==
    \/ /\ pendingOrder[h] = <<>>
       /\ UNCHANGED <<pending, pendingOrder, timers, outcome>>
    \/ /\ pendingOrder[h] # <<>>
       /\ \E e \in EntryAt(h, Last(pendingOrder[h])) : ResolveEntry(h, e, code, None)

\* #resolveOldestPending: a line that belongs to no request is charged to
\* the oldest one.
ResolveOldestPending(h, code) ==
    \/ /\ pendingOrder[h] = <<>>
       /\ UNCHANGED <<pending, pendingOrder, timers, outcome>>
    \/ /\ pendingOrder[h] # <<>>
       /\ EntryAt(h, Head(pendingOrder[h])) = {}
       /\ pendingOrder' = [pendingOrder EXCEPT ![h] = Tail(@)]
       /\ UNCHANGED <<pending, timers, outcome>>
    \/ /\ pendingOrder[h] # <<>>
       /\ \E e \in EntryAt(h, Head(pendingOrder[h])) : ResolveEntry(h, e, code, None)

-----------------------------------------------------------------------------
(* call and listTools.                                                     *)

\* Mutant: a child that has ended is replaced before its "exit" event.
EnsureChildReplacesEnded(k, h) ==
    \/ /\ children[k] = h
       /\ proc[h] # "dead"
       /\ UNCHANGED <<children, keyOf, proc>>
    \/ /\ \A g \in Handles : children[k] = g => proc[g] = "dead"
       /\ proc[h] = "unborn"
       /\ children' = [children EXCEPT ![k] = h]
       /\ keyOf' = [keyOf EXCEPT ![h] = k]
       /\ proc' = [proc EXCEPT ![h] = "alive"]

\* #ensureChild: the cached handle, or a fresh spawn that is cached at once.
EnsureChild(k, h) ==
    \/ /\ children[k] = h
       /\ UNCHANGED <<children, keyOf, proc>>
    \/ /\ children[k] = None
       /\ proc[h] = "unborn"
       /\ children' = [children EXCEPT ![k] = h]
       /\ keyOf' = [keyOf EXCEPT ![h] = k]
       /\ proc' = [proc EXCEPT ![h] = IF k[2] \in UnspawnableServers THEN "failed" ELSE "alive"]

\* Takes an id, registers the entry and its timer and writes the request.  A
\* throw of the write takes all that back within the same step.
SendRequest(c, h) ==
    LET id == nextRpcId[h] IN
    /\ nextRpcId' = [nextRpcId EXCEPT ![h] = @ + 1]
    /\ \/ /\ c \in UnserialisableCalls
          /\ Settle(c, "child_exit", None)
          /\ UNCHANGED <<pending, pendingOrder, timers, stdin>>
       \/ /\ c \notin UnserialisableCalls
          /\ pending' = [pending EXCEPT ![h] = @ \union {[id |-> id, call |-> c]}]
          /\ pendingOrder' = [pendingOrder EXCEPT ![h] = Append(@, id)]
          /\ timers' = IF c \in UntimedCalls THEN timers ELSE timers \union {<<h, id>>}
          /\ stdin' = [stdin EXCEPT ![h] = @ \union {[id |-> id, call |-> c]}]
          /\ UNCHANGED outcome

Submit(c, k) ==
    /\ target[c] = None
    /\ target' = [target EXCEPT ![c] = k]
    /\ \/ /\ k[2] \in UnknownServers
          /\ Settle(c, "unknown_server", None)
          /\ UNCHANGED <<children, keyOf, proc, nextRpcId, pending, pendingOrder, timers, stdin>>
       \/ /\ k[2] \notin UnknownServers
          /\ \E h \in Handles : EnsureChild(k, h) /\ SendRequest(c, h)
    /\ UNCHANGED <<stdout, closeOf, awaited, killTimers>>

Call(c, k) == c \notin ListCalls /\ Submit(c, k)
ListTools(c, k) == c \in ListCalls /\ Submit(c, k)

-----------------------------------------------------------------------------
(* The child process.                                                      *)

WriteLine(h, line) ==
    /\ proc[h] = "alive"
    /\ Len(stdout[h]) < MaxLines
    /\ stdout' = [stdout EXCEPT ![h] = Append(@, line)]
    /\ UNCHANGED <<children, keyOf, proc, nextRpcId, pending, pendingOrder, timers,
                   stdin, target, outcome, closeOf, awaited, killTimers>>

\* The child answers a request it was sent, in any order, however late, and
\* possibly again.
ChildReplies(h) ==
    \E r \in stdin[h], kind \in ReplyKinds :
        WriteLine(h, [kind |-> kind, id |-> r.id, of |-> r.call])

\* The child prints something that is not JSON, or a message without an id.
ChildPrints(h) ==
    \E kind \in {"garbage", "noid"} : WriteLine(h, [kind |-> kind, id |-> 0, of |-> None])

\* The process ends: a crash, its own exit, or a SIGTERM it obeys.
ChildDies(h) ==
    /\ proc[h] = "alive"
    /\ proc' = [proc EXCEPT ![h] = "dead"]
    /\ UNCHANGED <<children, keyOf, nextRpcId, pending, pendingOrder, timers, stdin,
                   stdout, target, outcome, closeOf, awaited, killTimers>>

-----------------------------------------------------------------------------
(* Events of the manager.                                                  *)

\* Mutant: the kind of reply is passed on as it is.
ReplyCodeIsKind(kind) == kind

ReplyCode(kind) ==
    CASE kind = "result" -> "ok"
      [] kind = "shapeless" -> "unknown_response_shape"
      [] kind = "error" -> "child_exit"

\* #handleStdoutLine.  Lines may still arrive after the "exit" event.
HandleStdoutLine(h) ==
    /\ stdout[h] # <<>>
    /\ stdout' = [stdout EXCEPT ![h] = Tail(@)]
    /\ LET line == Head(stdout[h]) IN
       \/ /\ line.kind = "garbage"
          /\ ResolveOldestPending(h, "parse_error")
       \/ /\ \/ line.kind = "noid"
             \/ line.kind \in ReplyKinds /\ EntryAt(h, line.id) = {}
          /\ UNCHANGED <<pending, pendingOrder, timers, outcome>>
       \/ /\ line.kind \in ReplyKinds
          /\ \E e \in EntryAt(h, line.id) : ResolveEntry(h, e, ReplyCode(line.kind), line.of)
    /\ UNCHANGED <<children, keyOf, proc, nextRpcId, stdin, target, closeOf, awaited,
                   killTimers>>

\* Mutant: the timer's callback settles nothing.
TimeoutSettlesNothing(h, id) ==
    /\ <<h, id>> \in timers
    /\ timers' = timers \ {<<h, id>>}
    /\ UNCHANGED <<children, keyOf, proc, nextRpcId, pending, pendingOrder, stdin, stdout,
                   target, outcome, closeOf, awaited, killTimers>>

\* The timer of a request fires.
Timeout(h, id) ==
    /\ <<h, id>> \in timers
    /\ \/ \E e \in EntryAt(h, id) : ResolveEntry(h, e, "timeout", None)
       \/ /\ EntryAt(h, id) = {}
          /\ timers' = timers \ {<<h, id>>}
          /\ UNCHANGED <<pending, pendingOrder, outcome>>
    /\ UNCHANGED <<children, keyOf, proc, nextRpcId, stdin, stdout, target, closeOf,
                   awaited, killTimers>>

\* Mutant: the walk stops after the first entry.
DoomedOldest(h) == {e \in pending[h] : pendingOrder[h] # <<>> /\ e.id = Head(pendingOrder[h])}

\* Entries the "exit" handler rejects: it walks pendingOrder.
Doomed(h) == {e \in pending[h] : e.id \in ToSet(pendingOrder[h])}

\* The "exit" event: the handler of wireChild, then the once-listener of every
\* killChild that awaits this handle, whose continuation clears the kill timer
\* and deletes the key.
ExitEvent(h) ==
    /\ proc[h] = "dead"
    /\ proc' = [proc EXCEPT ![h] = "exited"]
    /\ outcome' = [c \in Calls |->
                     IF \E e \in Doomed(h) : e.call = c
                     THEN [code |-> "child_exit", of |-> None]
                     ELSE outcome[c]]
    /\ timers' = timers \ {<<h, e.id>> : e \in Doomed(h)}
    /\ pending' = [pending EXCEPT ![h] = @ \ Doomed(h)]
    /\ pendingOrder' = [pendingOrder EXCEPT ![h] = <<>>]
    /\ children' = IF children[keyOf[h]] = h \/ \E d \in Closers : h \in awaited[d]
                   THEN [children EXCEPT ![keyOf[h]] = None]
                   ELSE children
    /\ awaited' = [d \in Closers |-> awaited[d] \ {h}]
    /\ killTimers' = [d \in Closers |-> IF h \in awaited[d] THEN killTimers[d] \ {h}
                                        ELSE killTimers[d]]
    /\ UNCHANGED <<keyOf, nextRpcId, stdin, stdout, target, closeOf>>

-----------------------------------------------------------------------------
(* closeSession and killChild.                                             *)

\* Mutant: the session prefix is not compared.
CachedOfAnyone(s) == {children[k] : k \in Keys} \ {None}

CachedOf(s) == {children[k] : k \in {x \in Keys : x[1] = s}} \ {None}

\* Mutant: a child that has ended is taken for one that has exited.
CloseSessionSkipsEnded(d, s) ==
    LET live == {h \in CachedOf(s) : proc[h] \in {"alive", "failed"}} IN
    /\ closeOf[d] = None
    /\ closeOf' = [closeOf EXCEPT ![d] = s]
    /\ awaited' = [awaited EXCEPT ![d] = live]
    /\ killTimers' = [killTimers EXCEPT ![d] = live]
    /\ children' = [k \in Keys |-> IF children[k] \in CachedOf(s) \ live THEN None
                                   ELSE children[k]]
    /\ UNCHANGED <<keyOf, proc, nextRpcId, pending, pendingOrder, timers, stdin, stdout,
                   target, outcome>>

\* closeSession: killChild on every cached handle of the session.  A handle
\* that has exited is not awaited and its key is deleted at once.
CloseSession(d, s) ==
    LET live == {h \in CachedOf(s) : ~Exited(h)} IN
    /\ closeOf[d] = None
    /\ closeOf' = [closeOf EXCEPT ![d] = s]
    /\ awaited' = [awaited EXCEPT ![d] = live]
    /\ killTimers' = [killTimers EXCEPT ![d] = live]
    /\ children' = [k \in Keys |-> IF children[k] \in CachedOf(s) \ live THEN None
                                   ELSE children[k]]
    /\ UNCHANGED <<keyOf, proc, nextRpcId, pending, pendingOrder, timers, stdin, stdout,
                   target, outcome>>

\* Mutant: a second SIGTERM instead of the SIGKILL.
SigTermAgain(d, h) ==
    /\ h \in killTimers[d]
    /\ killTimers' = [killTimers EXCEPT ![d] = @ \ {h}]
    /\ UNCHANGED <<children, keyOf, proc, nextRpcId, pending, pendingOrder, timers, stdin,
                   stdout, target, outcome, closeOf, awaited>>

\* The 2 s kill timer of killChild: SIGKILL ends a live process for certain.
SigKill(d, h) ==
    /\ h \in killTimers[d]
    /\ killTimers' = [killTimers EXCEPT ![d] = @ \ {h}]
    /\ proc' = IF proc[h] = "alive" THEN [proc EXCEPT ![h] = "dead"] ELSE proc
    /\ UNCHANGED <<children, keyOf, nextRpcId, pending, pendingOrder, timers, stdin,
                   stdout, target, outcome, closeOf, awaited>>

-----------------------------------------------------------------------------

Next ==
    \/ \E c \in Calls, k \in Keys : Call(c, k) \/ ListTools(c, k)
    \/ \E h \in Handles : ChildReplies(h) \/ ChildPrints(h) \/ ChildDies(h)
    \/ \E h \in Handles : HandleStdoutLine(h) \/ ExitEvent(h)
    \/ \E t \in timers : Timeout(t[1], t[2])
    \/ \E d \in Closers, s \in Sessions : CloseSession(d, s)
    \/ \E d \in Closers, h \in Handles : SigKill(d, h)

Spec == Init /\ [][Next]_bridgeVars

\* Timers fire, and the "exit" event of an ended process is delivered.
Fairness ==
    /\ WF_bridgeVars(\E t \in timers : Timeout(t[1], t[2]))
    /\ \A h \in Handles : WF_bridgeVars(ExitEvent(h))
    /\ \A d \in Closers, h \in Handles : WF_bridgeVars(SigKill(d, h))

FairSpec == Spec /\ Fairness

-----------------------------------------------------------------------------
(* Properties.                                                             *)

\* Every variable has its type.
TypeOK ==
    /\ children \in [Keys -> Handles \union {None}]
    /\ keyOf \in [Handles -> Keys \union {None}]
    /\ proc \in [Handles -> ProcStates]
    /\ nextRpcId \in [Handles -> Nat]
    /\ pending \in [Handles -> SUBSET Entries]
    /\ pendingOrder \in [Handles -> Seq(Nat)]
    /\ timers \in SUBSET (Handles \X Nat)
    /\ stdin \in [Handles -> SUBSET Entries]
    /\ stdout \in [Handles -> Seq(Lines)]
    /\ target \in [Calls -> Keys \union {None}]
    /\ outcome \in [Calls -> Outcomes \union {None}]
    /\ closeOf \in [Closers -> Sessions \union {None}]
    /\ awaited \in [Closers -> SUBSET Handles]
    /\ killTimers \in [Closers -> SUBSET Handles]

\* The cache of ensureChild is exact: a key holds a handle of that key whose
\* "exit" has not been delivered, and every spawned handle stays cached until
\* it has.  So a key never has two live children, no call is written to a
\* handle whose exit handler has already run, and no child escapes
\* closeSession by falling out of the map, although both the exit handler and
\* closeSession delete keys.
CacheIsExact ==
    /\ \A k \in Keys : children[k] # None =>
          keyOf[children[k]] = k /\ proc[children[k]] \in {"alive", "failed", "dead"}
    /\ \A h \in Handles : proc[h] \in {"alive", "failed", "dead"} =>
          keyOf[h] # None /\ children[keyOf[h]] = h

\* No call is lost: a call whose promise is unresolved has an entry on a
\* handle of its own session and server that has not exited, so a line, the
\* timer or the exit handler can still resolve it; and an entry belongs to a
\* call that is unresolved, so none of them resolves it twice.
NoLostCall ==
    /\ \A c \in Calls : Waiting(c) =>
          \E h \in Handles : ~Exited(h) /\ \E e \in pending[h] : e.call = c
    /\ \A h \in Handles : \A e \in pending[h] :
          Waiting(e.call) /\ keyOf[h] = target[e.call]

\* A result reaches the call whose request the child answered, however late
\* or often the child answers and whatever was settled in between.
ReplyIsOwn ==
    \A c \in Calls : outcome[c] # None /\ outcome[c].of # None => outcome[c].of = c

\* A promise resolves once: no later line, timer or exit changes a result.
SettledOnce ==
    [][\A c \in Calls : outcome[c] # None => outcome'[c] = outcome[c]]_bridgeVars

\* An unparseable line is charged to the oldest request in flight on that
\* child and to no other.
OldestTakesTheBlame ==
    [][\A c \in Calls :
          outcome[c] = None /\ outcome'[c] = [code |-> "parse_error", of |-> None] =>
             \E h \in Handles : \E e \in pending[h] :
                /\ e.call = c
                /\ \A f \in pending[h] : e.id <= f.id
                /\ stdout[h] # <<>> /\ Head(stdout[h]).kind = "garbage"]_bridgeVars

\* closeSession touches its own session only: every handle it waits for and
\* will kill belongs to the session, and so does every key it deletes.
CloseIsScoped ==
    \A d \in Closers : \A h \in awaited[d] \union killTimers[d] :
       keyOf[h] # None /\ keyOf[h][1] = closeOf[d]

\* A timed call is answered in the end, even by a child that never writes.
TimedCallSettles ==
    \A c \in Calls \ UntimedCalls : target[c] # None ~> outcome[c] # None

\* closeSession returns: every child it waits for obeys SIGTERM or is killed.
CloseSessionReturns == \A d \in Closers : closeOf[d] # None ~> Returned(d)
=============================================================================
