-------------------------- MODULE McpSessionsProofs --------------------------
(* Theorems about McpSessions, for all values of its constants.            *)
EXTENDS McpSessions, McpBridgeProofs

-----------------------------------------------------------------------------
(* Types, and the steps of the bridge within those of the system.          *)

\* A step of the routes is a step of the process manager or leaves it alone.
LEMMA SystemStep ==
    ASSUME SystemTypeOK, [SystemNext]_systemVars
    PROVE  [Next]_bridgeVars
<1>1. ASSUME NEW c \in Calls, NEW k \in Keys, Execute(c, k)
      PROVE  Next
  BY <1>1 DEF Execute, Next
<1>2. ASSUME NEW l \in Loops, NEW c \in Calls, NEW srv \in Servers,
             LoopListTools(l, c, srv) \/ LoopCall(l, c, srv)
      PROVE  Next
  <2>1. <<loopOf[l], srv>> \in Keys
    BY <1>2 DEF SystemTypeOK, LoopListTools, LoopCall, LoopMayProceed, Keys
  <2> QED BY <1>2, <2>1 DEF LoopListTools, LoopCall, Next
<1>3. ASSUME NEW l \in Loops, NEW s \in Sessions, Send(l, s)
      PROVE  UNCHANGED bridgeVars
  BY <1>3 DEF Send
<1>4. ASSUME NEW d \in Closers, NEW s \in Sessions, Delete(d, s)
      PROVE  Next
  BY <1>4 DEF Delete, Next
<1>5. ASSUME NEW h \in Handles, ChildExit(h)
      PROVE  Next
  BY <1>5 DEF ChildExit, Next
<1>6. CASE BridgeStep
  BY <1>6 DEF BridgeStep, Next
<1>7. CASE SystemNext
  BY <1>1, <1>2, <1>3, <1>4, <1>5, <1>6, <1>7 DEF SystemNext
<1>8. CASE UNCHANGED systemVars
  BY <1>8 DEF systemVars
<1> QED BY <1>7, <1>8

\* The types of the routes' own variables.
RoutesTypeOK ==
    /\ status \in [Sessions -> {"active", "closed"}]
    /\ loopOf \in [Loops -> Sessions \union {None}]
    /\ toList \in [Loops -> SUBSET Servers]
    /\ awaiting \in [Loops -> Calls \union {None}]
    /\ overlapped \in SUBSET Sessions
    /\ inFlight \in [Closers -> SUBSET Calls]

\* Every step keeps the types.
LEMMA SystemTypeStep ==
    SystemTypeOK /\ [SystemNext]_systemVars => SystemTypeOK'
<1> SUFFICES ASSUME SystemTypeOK, [SystemNext]_systemVars PROVE SystemTypeOK'
  OBVIOUS
<1>1. TypeOK'
  BY SystemStep, TypeStep DEF SystemTypeOK
<1>2. RoutesTypeOK
  BY DEF SystemTypeOK, RoutesTypeOK
<1> USE DEF RoutesTypeOK
<1>3. ASSUME NEW s \in Sessions, NoteOverlap(s)
      PROVE  overlapped' \in SUBSET Sessions
  BY <1>2, <1>3 DEF NoteOverlap
<1>4. CloseSessionById => status' \in [Sessions -> {"active", "closed"}]
  BY <1>2 DEF CloseSessionById
<1>a. NoteAnswers => inFlight' \in [Closers -> SUBSET Calls]
  BY <1>2 DEF NoteAnswers
<1>5. ASSUME NEW c \in Calls, NEW k \in Keys, Execute(c, k)
      PROVE  RoutesTypeOK'
  BY <1>2, <1>3, <1>5 DEF Execute, Keys
<1>6. ASSUME NEW l \in Loops, NEW s \in Sessions, Send(l, s)
      PROVE  RoutesTypeOK'
  BY <1>2, <1>6 DEF Send
<1>7. ASSUME NEW l \in Loops, NEW c \in Calls, NEW srv \in Servers,
             LoopListTools(l, c, srv) \/ LoopCall(l, c, srv)
      PROVE  RoutesTypeOK'
  <2>1. loopOf[l] \in Sessions
    BY <1>2, <1>7 DEF LoopListTools, LoopCall, LoopMayProceed
  <2>2. overlapped' \in SUBSET Sessions
    BY <1>3, <1>7, <2>1 DEF LoopListTools, LoopCall
  <2> QED BY <1>2, <1>7, <2>2 DEF LoopListTools, LoopCall
<1>8. ASSUME NEW d \in Closers, NEW s \in Sessions, Delete(d, s)
      PROVE  RoutesTypeOK'
  BY <1>2, <1>4, <1>8 DEF Delete
<1>9. ASSUME NEW h \in Handles, ChildExit(h)
      PROVE  RoutesTypeOK'
  BY <1>2, <1>4, <1>a, <1>9 DEF ChildExit
<1>10. ASSUME UNCHANGED sessionVars
       PROVE  RoutesTypeOK'
  BY <1>2, <1>10 DEF sessionVars
<1>b. ASSUME BridgeStep
      PROVE  RoutesTypeOK'
  BY <1>2, <1>a, <1>b DEF BridgeStep
<1> HIDE DEF RoutesTypeOK
<1>11. SystemNext => RoutesTypeOK'
  BY <1>5, <1>6, <1>7, <1>8, <1>9, <1>b DEF SystemNext
<1>12. UNCHANGED systemVars => RoutesTypeOK'
  BY <1>10 DEF systemVars
<1> QED BY <1>1, <1>11, <1>12 DEF SystemTypeOK, RoutesTypeOK

\* Init has all the types.
LEMMA SystemTypeInit == SystemInit => SystemTypeOK
  BY TypeInit DEF SystemInit, SystemTypeOK

\* In every reachable state every variable has its type.
THEOREM SystemTypeCorrect == SystemSpec => []SystemTypeOK
  BY SystemTypeInit, SystemTypeStep, PTL DEF SystemSpec

\* The routes use the process manager as McpBridge allows anyone to: what
\* holds of Spec holds of every behaviour of the system.
THEOREM SystemIsBridge == SystemSpec => Spec
<1>1. SystemInit => Init
  BY DEF SystemInit
<1>2. SystemTypeOK /\ [SystemNext]_systemVars => [Next]_bridgeVars
  BY SystemStep
<1> QED BY <1>1, <1>2, SystemTypeCorrect, PTL DEF SystemSpec, Spec

-----------------------------------------------------------------------------
(* DELETE.                                                                 *)

\* While no call overlaps them, the DELETEs of a session await every child it
\* has, whether the child has died, runs, or never started.
ChildrenAreAwaited ==
    \A d \in Closers : \A s \in Sessions :
       closeOf[d] = s /\ s \notin overlapped => LiveChildren(s) \subseteq awaited[d]

\* A session is closed by a DELETE that awaits nothing any more.
ClosedByDelete ==
    \A s \in Sessions : status[s] = "closed" =>
       \E d \in Closers : closeOf[d] = s /\ awaited[d] = {}

DeleteInv == SystemTypeOK /\ CacheInv /\ ChildrenAreAwaited /\ ClosedByDelete

\* A step that spawns nothing and begins no DELETE adds no child, and one that
\* awaits no fewer children than are left keeps them all awaited.
LEMMA AwaitedStep ==
    ASSUME DeleteInv, [Next]_bridgeVars, UNCHANGED closeOf, overlapped \subseteq overlapped',
           NEW d \in Closers, NEW s \in Sessions, closeOf[d] = s, s \notin overlapped',
           \A h \in Handles : proc[h] = "unborn" => proc'[h] = "unborn" \/ keyOf'[h][1] # s,
           \A h \in Handles : proc[h] = "exited" => proc'[h] = "exited",
           \A h \in awaited[d] : h \in awaited'[d] \/ proc'[h] = "exited"
    PROVE  LiveChildren(s)' \subseteq awaited'[d]
<1>1. ASSUME NEW h \in Handles, proc'[h] \in {"alive", "failed", "dead"}, keyOf'[h][1] = s
      PROVE  h \in awaited'[d]
  <2>1. proc[h] \in {"alive", "failed", "dead"}
    BY <1>1 DEF DeleteInv, CacheInv, TypeOK, ProcStates
  <2>2. keyOf[h] # None
    BY <2>1 DEF DeleteInv, CacheInv, CacheIsExact
  <2>3. keyOf'[h] = keyOf[h]
    BY <2>2, KeysAreKept DEF DeleteInv
  <2>4. h \in LiveChildren(s)
    BY <1>1, <2>1, <2>3 DEF LiveChildren
  <2>5. h \in awaited[d]
    BY <2>4 DEF DeleteInv, ChildrenAreAwaited
  <2> QED BY <1>1, <2>5
<1> QED BY <1>1 DEF LiveChildren

\* A step that makes no call and begins or ends no DELETE.
LEMMA QuietStep ==
    ASSUME DeleteInv, [Next]_bridgeVars, UNCHANGED <<closeOf, awaited, status, overlapped>>,
           \A h \in Handles : proc[h] = "unborn" => proc'[h] = "unborn",
           \A h \in Handles : proc[h] = "exited" => proc'[h] = "exited"
    PROVE  ChildrenAreAwaited' /\ ClosedByDelete'
<1>1. ASSUME NEW d \in Closers, NEW s \in Sessions, closeOf'[d] = s, s \notin overlapped'
      PROVE  LiveChildren(s)' \subseteq awaited'[d]
  BY <1>1, AwaitedStep
<1> QED BY <1>1 DEF DeleteInv, ChildrenAreAwaited, ClosedByDelete

\* A call that may spawn a child of a session with a DELETE is noted.
LEMMA NotedCallStep ==
    ASSUME DeleteInv, [Next]_bridgeVars, NEW c \in Calls, NEW k \in Keys, Submit(c, k),
           NoteOverlap(k[1]), UNCHANGED status
    PROVE  ChildrenAreAwaited' /\ ClosedByDelete'
<1>1. UNCHANGED <<closeOf, awaited>>
  BY DEF Submit
<1>2. overlapped \subseteq overlapped' /\ (Deleting(k[1]) => k[1] \in overlapped')
  BY DEF NoteOverlap
<1>3. ASSUME NEW h \in Handles
      PROVE  \/ proc'[h] = proc[h]
             \/ proc[h] = "unborn" /\ keyOf'[h] = k
  BY DEF DeleteInv, CacheInv, TypeOK, Submit, EnsureChild
<1>4. ASSUME NEW d \in Closers, NEW s \in Sessions, closeOf'[d] = s, s \notin overlapped'
      PROVE  LiveChildren(s)' \subseteq awaited'[d]
  <2>1. closeOf[d] = s /\ s \notin overlapped /\ k[1] # s
    BY <1>1, <1>2, <1>4 DEF Deleting
  <2>2. /\ \A h \in Handles : proc[h] = "unborn" => proc'[h] = "unborn" \/ keyOf'[h][1] # s
        /\ \A h \in Handles : proc[h] = "exited" => proc'[h] = "exited"
    BY <1>3, <2>1
  <2> QED BY <1>1, <1>2, <1>4, <2>1, <2>2, AwaitedStep
<1> QED BY <1>1, <1>4 DEF DeleteInv, ChildrenAreAwaited, ClosedByDelete

\* A DELETE begins to await every child the cache holds, which is every one.
LEMMA DeleteAwaitsAll ==
    ASSUME DeleteInv, [Next]_bridgeVars, NEW x \in Closers, NEW r \in Sessions, Delete(x, r)
    PROVE  ChildrenAreAwaited' /\ ClosedByDelete'
<1>1. /\ closeOf[x] = None /\ closeOf'[x] = r
      /\ awaited'[x] = {h \in CachedOf(r) : ~Exited(h)}
      /\ \A d \in Closers \ {x} : closeOf'[d] = closeOf[d] /\ awaited'[d] = awaited[d]
      /\ UNCHANGED <<keyOf, proc, overlapped>>
  BY DEF DeleteInv, CacheInv, TypeOK, Delete, CloseSession
<1>2. LiveChildren(r) \subseteq {h \in CachedOf(r) : ~Exited(h)}
  <2>1. ASSUME NEW h \in LiveChildren(r) PROVE h \in CachedOf(r) /\ ~Exited(h)
    <3>1. /\ h \in Handles /\ proc[h] \in {"alive", "failed", "dead"} /\ keyOf[h][1] = r
          /\ keyOf[h] \in Keys /\ children[keyOf[h]] = h
      BY DEF LiveChildren, DeleteInv, CacheInv, CacheIsExact, TypeOK
    <3> QED BY <3>1, NoneAssumption DEF CachedOf, Exited
  <2> QED BY <2>1
<1>3. \A s \in Sessions : LiveChildren(s)' = LiveChildren(s)
  BY <1>1 DEF LiveChildren
<1>4. ASSUME NEW d \in Closers, NEW s \in Sessions, closeOf'[d] = s, s \notin overlapped'
      PROVE  LiveChildren(s)' \subseteq awaited'[d]
  BY <1>1, <1>2, <1>3, <1>4 DEF DeleteInv, ChildrenAreAwaited
<1>5. ASSUME NEW s \in Sessions, status'[s] = "closed"
      PROVE  \E d \in Closers : closeOf'[d] = s /\ awaited'[d] = {}
  <2>1. CASE status[s] = "closed"
    BY <1>1, <2>1, NoneAssumption DEF DeleteInv, ClosedByDelete
  <2>2. CASE status[s] # "closed"
    BY <1>5, <2>2 DEF Delete, CloseSessionById
  <2> QED BY <2>1, <2>2
<1> QED BY <1>4, <1>5 DEF ChildrenAreAwaited, ClosedByDelete

\* The "exit" event ends the wait for a child together with the child.
LEMMA ChildExitStep ==
    ASSUME DeleteInv, [Next]_bridgeVars, NEW g \in Handles, ChildExit(g)
    PROVE  ChildrenAreAwaited' /\ ClosedByDelete'
<1>1. /\ UNCHANGED <<closeOf, overlapped>>
      /\ \A d \in Closers : awaited'[d] = awaited[d] \ {g}
      /\ proc[g] = "dead" /\ proc'[g] = "exited"
      /\ \A h \in Handles \ {g} : proc'[h] = proc[h]
  BY DEF DeleteInv, CacheInv, TypeOK, ChildExit, ExitEvent
<1>2. ASSUME NEW d \in Closers, NEW s \in Sessions, closeOf'[d] = s, s \notin overlapped'
      PROVE  LiveChildren(s)' \subseteq awaited'[d]
  BY <1>1, <1>2, AwaitedStep
<1>3. ASSUME NEW s \in Sessions, status'[s] = "closed"
      PROVE  \E d \in Closers : closeOf'[d] = s /\ awaited'[d] = {}
  <2>1. CASE status[s] = "closed"
    BY <1>1, <2>1 DEF DeleteInv, ClosedByDelete
  <2>2. CASE status[s] # "closed"
    BY <1>3, <2>2 DEF ChildExit, CloseSessionById
  <2> QED BY <2>1, <2>2
<1> QED BY <1>2, <1>3 DEF ChildrenAreAwaited, ClosedByDelete

\* Every step of the routes keeps the invariant of DELETE.
LEMMA DeleteStep == DeleteInv /\ [SystemNext]_systemVars => DeleteInv'
<1> SUFFICES ASSUME DeleteInv, [SystemNext]_systemVars
             PROVE  ChildrenAreAwaited' /\ ClosedByDelete'
  BY SystemTypeStep, SystemStep, CacheStep DEF DeleteInv
<1>1. [Next]_bridgeVars
  BY SystemStep DEF DeleteInv
<1>2. ASSUME NEW c \in Calls, NEW k \in Keys, Execute(c, k)
      PROVE  ChildrenAreAwaited' /\ ClosedByDelete'
  BY <1>1, <1>2, NotedCallStep DEF Execute, Call
<1>3. ASSUME NEW l \in Loops, NEW c \in Calls, NEW srv \in Servers,
             LoopListTools(l, c, srv) \/ LoopCall(l, c, srv)
      PROVE  ChildrenAreAwaited' /\ ClosedByDelete'
  <2> DEFINE k == <<loopOf[l], srv>>
  <2>1. k \in Keys /\ k[1] = loopOf[l]
    BY <1>3 DEF DeleteInv, SystemTypeOK, LoopListTools, LoopCall, LoopMayProceed, Keys
  <2>2. Submit(c, k) /\ NoteOverlap(k[1]) /\ UNCHANGED status
    BY <1>3 DEF LoopListTools, LoopCall, Call, ListTools
  <2> HIDE DEF k
  <2> QED BY <1>1, <2>1, <2>2, NotedCallStep
<1>4. ASSUME NEW l \in Loops, NEW s \in Sessions, Send(l, s)
      PROVE  ChildrenAreAwaited' /\ ClosedByDelete'
  BY <1>1, <1>4, QuietStep DEF Send, bridgeVars
<1>5. ASSUME BridgeStep
      PROVE  ChildrenAreAwaited' /\ ClosedByDelete'
  <2>1. UNCHANGED <<closeOf, awaited, status, overlapped>>
    BY <1>5 DEF BridgeStep, ChildReplies, ChildPrints, WriteLine, ChildDies,
                HandleStdoutLine, Timeout, SigKill
  <2>2. \/ UNCHANGED proc
        \/ \E h \in Handles : proc[h] = "alive" /\ proc' = [proc EXCEPT ![h] = "dead"]
    BY <1>5 DEF BridgeStep, ChildReplies, ChildPrints, WriteLine, ChildDies,
                HandleStdoutLine, Timeout, SigKill
  <2>3. /\ \A h \in Handles : proc[h] = "unborn" => proc'[h] = "unborn"
        /\ \A h \in Handles : proc[h] = "exited" => proc'[h] = "exited"
    BY <2>2 DEF DeleteInv, CacheInv, TypeOK
  <2> QED BY <1>1, <2>1, <2>3, QuietStep
<1>6. ASSUME UNCHANGED systemVars
      PROVE  ChildrenAreAwaited' /\ ClosedByDelete'
  BY <1>1, <1>6, QuietStep DEF systemVars, bridgeVars, sessionVars
<1>7. SystemNext => ChildrenAreAwaited' /\ ClosedByDelete'
  BY <1>1, <1>2, <1>3, <1>4, <1>5, DeleteAwaitsAll, ChildExitStep DEF SystemNext
<1> QED BY <1>6, <1>7

\* A closed session for which no call was made during or after a DELETE has
\* no child.
THEOREM QuietClose == SystemSpec => []QuietCloseLeavesNoChild
<1>1. SystemInit => DeleteInv
  BY SystemTypeInit, TypeInit, NoneAssumption
     DEF SystemInit, Init, DeleteInv, CacheInv, CacheIsExact, UnbornHasNoKey,
         ChildrenAreAwaited, ClosedByDelete
<1>2. DeleteInv => QuietCloseLeavesNoChild
  BY DEF DeleteInv, ChildrenAreAwaited, ClosedByDelete, QuietCloseLeavesNoChild
<1> QED BY <1>1, <1>2, DeleteStep, PTL DEF SystemSpec

-----------------------------------------------------------------------------
(* The calls a DELETE finds in flight.                                     *)

\* A call that a DELETE found in flight and that has no answer yet is an entry
\* of a child whose "exit" the DELETE still awaits.
InFlightAreAwaited ==
    \A d \in Closers : \A c \in inFlight[d] :
       Waiting(c) /\ \E h \in awaited[d] : \E e \in pending[h] : e.call = c

AnswerInv == SystemTypeOK /\ BridgeInv /\ InFlightAreAwaited

\* Making a call settles no other call and adds no entry but its own.
LEMMA SubmitTarget ==
    ASSUME TypeOK, NEW c \in Calls, NEW k \in Keys, Submit(c, k)
    PROVE  /\ target[c] = None
           /\ \A x \in Calls \ {c} : target'[x] = target[x] /\ outcome'[x] = outcome[x]
           /\ \A h \in Handles : \A e \in pending'[h] : e \in pending[h] \/ e.call = c
           /\ UNCHANGED awaited
<1>1. /\ target[c] = None /\ UNCHANGED awaited
      /\ \A x \in Calls \ {c} : target'[x] = target[x]
  BY DEF TypeOK, Submit
<1>2. ASSUME NEW h \in Handles, SendRequest(c, h)
      PROVE  /\ \A x \in Calls \ {c} : outcome'[x] = outcome[x]
             /\ \A g \in Handles : \A e \in pending'[g] : e \in pending[g] \/ e.call = c
  <2>1. \A x \in Calls \ {c} : outcome'[x] = outcome[x]
    BY <1>2 DEF TypeOK, SendRequest, Settle
  <2>2. \/ UNCHANGED pending
        \/ pending' = [pending EXCEPT ![h] = @ \union {[id |-> nextRpcId[h], call |-> c]}]
    BY <1>2 DEF SendRequest
  <2>3. pending \in [Handles -> SUBSET Entries]
    BY DEF TypeOK
  <2>4. ASSUME NEW g \in Handles, NEW e \in pending'[g]
        PROVE  e \in pending[g] \/ e = [id |-> nextRpcId[h], call |-> c]
    BY <2>2, <2>3, <2>4
  <2> QED BY <2>1, <2>4
<1>3. CASE k[2] \in UnknownServers
  BY <1>1, <1>3 DEF TypeOK, Submit, Settle
<1>4. CASE k[2] \notin UnknownServers
  BY <1>1, <1>2, <1>4 DEF Submit
<1> QED BY <1>3, <1>4

\* A call that has been made keeps its target and gets no further entry.
LEMMA EntriesAreKept ==
    ASSUME TypeOK, [Next]_bridgeVars, NEW c \in Calls, target[c] # None
    PROVE  /\ target'[c] = target[c]
           /\ \A h \in Handles : \A e \in pending'[h] : e.call = c => e \in pending[h]
<1> DEFINE Kept == /\ target'[c] = target[c]
                   /\ \A h \in Handles : \A e \in pending'[h] : e.call = c => e \in pending[h]
<1>1. ASSUME NEW x \in Calls, NEW k \in Keys, Submit(x, k)
      PROVE  Kept
  BY <1>1, SubmitTarget
<1>2. ASSUME NEW h \in Handles, HandleStdoutLine(h)
      PROVE  Kept
  BY <1>2 DEF TypeOK, HandleStdoutLine, ResolveOldestPending, ResolveEntry, EntryAt
<1>3. ASSUME NEW h \in Handles, ExitEvent(h)
      PROVE  Kept
  BY <1>3 DEF TypeOK, ExitEvent
<1>4. ASSUME NEW t \in timers, Timeout(t[1], t[2])
      PROVE  Kept
  <2>1. t[1] \in Handles
    BY DEF TypeOK
  <2> DEFINE h == t[1]
  <2> HIDE DEF h
  <2>2. /\ UNCHANGED target
        /\ \/ UNCHANGED pending
           \/ \E e \in pending[h] : pending' = [pending EXCEPT ![h] = @ \ {e}]
    BY <1>4 DEF Timeout, ResolveEntry, EntryAt, h
  <2>3. \A g \in Handles : pending'[g] \subseteq pending[g]
    <3>1. pending \in [Handles -> SUBSET Entries]
      BY DEF TypeOK
    <3>2. CASE UNCHANGED pending
      BY <3>2
    <3>3. ASSUME NEW e \in pending[h], pending' = [pending EXCEPT ![h] = @ \ {e}]
          PROVE  \A g \in Handles : pending'[g] \subseteq pending[g]
      BY <3>1, <3>3
    <3> QED BY <2>2, <3>2, <3>3
  <2> QED BY <2>2, <2>3
<1>5. ASSUME UNCHANGED <<target, pending>>
      PROVE  Kept
  BY <1>5
<1> HIDE DEF Kept
<1>6. Kept
  BY <1>1, <1>2, <1>3, <1>4, <1>5
     DEF Next, bridgeVars, Call, ListTools, ChildReplies, ChildPrints, WriteLine, ChildDies,
         CloseSession, SigKill
<1> QED BY <1>6 DEF Kept

\* A call that stays unanswered keeps its entry, and no child leaves the wait
\* of a DELETE but by its "exit", whose handler empties its map.
LEMMA StillAwaited ==
    ASSUME AnswerInv, [Next]_bridgeVars, BridgeInv', NEW d \in Closers,
           \A c \in inFlight'[d] : c \in inFlight[d] /\ outcome'[c] = None,
           \A h \in awaited[d] : h \in awaited'[d] \/ proc'[h] = "exited"
    PROVE  \A c \in inFlight'[d] :
              Waiting(c)' /\ \E h \in awaited'[d] : \E e \in pending'[h] : e.call = c
<1> SUFFICES ASSUME NEW c \in inFlight'[d]
             PROVE  Waiting(c)' /\ \E h \in awaited'[d] : \E e \in pending'[h] : e.call = c
  OBVIOUS
<1>1. c \in Calls /\ c \in inFlight[d] /\ outcome'[c] = None
  BY DEF AnswerInv, SystemTypeOK
<1>2. target[c] # None
  BY <1>1 DEF AnswerInv, InFlightAreAwaited, Waiting
<1>3. PICK h \in awaited[d] : \E e \in pending[h] : e.call = c
  BY <1>1 DEF AnswerInv, InFlightAreAwaited
<1>4. /\ target'[c] = target[c]
      /\ \A g \in Handles : \A e \in pending'[g] : e.call = c => e \in pending[g]
  BY <1>1, <1>2, EntriesAreKept DEF AnswerInv, SystemTypeOK
<1>5. Waiting(c)'
  BY <1>1, <1>2, <1>4 DEF Waiting
<1>6. PICK g \in Handles : ~Exited(g)' /\ \E e \in pending'[g] : e.call = c
  BY <1>1, <1>5 DEF BridgeInv, CallInv, NoLostCall
<1>7. g = h
  BY <1>1, <1>3, <1>4, <1>6 DEF AnswerInv, SystemTypeOK, TypeOK, BridgeInv, CallInv, OneEntryPerCall
<1>8. h \in awaited'[d]
  BY <1>3, <1>6, <1>7 DEF Exited
<1> QED BY <1>5, <1>6, <1>7, <1>8

\* A DELETE awaits the child of every call of its session that is in flight.
LEMMA FoundAreAwaited ==
    ASSUME AnswerInv, NEW x \in Closers, NEW s \in Sessions, Delete(x, s)
    PROVE  \A c \in inFlight'[x] :
              Waiting(c)' /\ \E h \in awaited'[x] : \E e \in pending'[h] : e.call = c
<1>1. /\ inFlight'[x] = {c \in Calls : Waiting(c) /\ target[c][1] = s}
      /\ awaited'[x] = {h \in CachedOf(s) : ~Exited(h)}
      /\ UNCHANGED <<target, outcome, pending>>
  BY DEF AnswerInv, SystemTypeOK, TypeOK, Delete, CloseSession
<1> SUFFICES ASSUME NEW c \in inFlight'[x]
             PROVE  Waiting(c)' /\ \E h \in awaited'[x] : \E e \in pending'[h] : e.call = c
  OBVIOUS
<1>2. c \in Calls /\ Waiting(c) /\ target[c][1] = s
  BY <1>1
<1>3. PICK h \in Handles : ~Exited(h) /\ \E e \in pending[h] : e.call = c
  BY <1>2 DEF AnswerInv, BridgeInv, CallInv, NoLostCall
<1>4. keyOf[h] = target[c] /\ keyOf[h] \in Keys
  BY <1>2, <1>3, NoneAssumption
     DEF AnswerInv, SystemTypeOK, TypeOK, BridgeInv, CallInv, NoLostCall, Waiting, Keys
<1>5. proc[h] \in {"alive", "failed", "dead"}
  BY <1>3, <1>4, NoneAssumption
     DEF AnswerInv, SystemTypeOK, TypeOK, ProcStates, Exited, Keys, BridgeInv, CacheInv,
         UnbornHasNoKey
<1>6. children[keyOf[h]] = h
  BY <1>5 DEF AnswerInv, BridgeInv, CacheInv, CacheIsExact
<1>7. h \in CachedOf(s)
  BY <1>2, <1>4, <1>6, NoneAssumption DEF CachedOf
<1> QED BY <1>1, <1>2, <1>3, <1>7 DEF Waiting

\* Every step of the system keeps the calls found in flight awaited.
LEMMA AnswerStep ==
    AnswerInv /\ [SystemNext]_systemVars /\ BridgeInv' => InFlightAreAwaited'
<1> SUFFICES ASSUME AnswerInv, [SystemNext]_systemVars, BridgeInv',
                    NEW d \in Closers
             PROVE  \A c \in inFlight'[d] :
                       Waiting(c)' /\ \E h \in awaited'[d] : \E e \in pending'[h] : e.call = c
  BY DEF InFlightAreAwaited
<1> DEFINE Kept ==
             \A c \in inFlight'[d] :
                Waiting(c)' /\ \E h \in awaited'[d] : \E e \in pending'[h] : e.call = c
<1> HIDE DEF Kept
<1>1. [Next]_bridgeVars
  BY SystemStep DEF AnswerInv
<1>2. ASSUME \A c \in inFlight'[d] : c \in inFlight[d] /\ outcome'[c] = None,
             \A h \in awaited[d] : h \in awaited'[d] \/ proc'[h] = "exited"
      PROVE  Kept
  BY <1>1, <1>2, StillAwaited DEF Kept
<1>3. \A c \in inFlight[d] : c \in Calls /\ target[c] # None /\ outcome[c] = None
  BY DEF AnswerInv, SystemTypeOK, InFlightAreAwaited, Waiting
<1>4. ASSUME NEW c \in Calls, NEW k \in Keys, Submit(c, k), UNCHANGED inFlight
      PROVE  Kept
  <2>1. /\ target[c] = None /\ UNCHANGED awaited
        /\ \A x \in Calls \ {c} : outcome'[x] = outcome[x]
    BY <1>4, SubmitTarget DEF AnswerInv, SystemTypeOK
  <2> QED BY <1>2, <1>3, <1>4, <2>1
<1>5. ASSUME NEW c \in Calls, NEW k \in Keys, Execute(c, k)
      PROVE  Kept
  BY <1>4, <1>5 DEF Execute, Call
<1>6. ASSUME NEW l \in Loops, NEW c \in Calls, NEW srv \in Servers,
             LoopListTools(l, c, srv) \/ LoopCall(l, c, srv)
      PROVE  Kept
  <2> DEFINE k == <<loopOf[l], srv>>
  <2>1. k \in Keys
    BY <1>6 DEF AnswerInv, SystemTypeOK, LoopListTools, LoopCall, LoopMayProceed, Keys
  <2>2. Submit(c, k) /\ UNCHANGED inFlight
    BY <1>6 DEF LoopListTools, LoopCall, Call, ListTools
  <2> HIDE DEF k
  <2> QED BY <1>4, <2>1, <2>2
<1>7. ASSUME UNCHANGED <<inFlight, outcome, awaited>>
      PROVE  Kept
  BY <1>2, <1>3, <1>7
<1>8. ASSUME NEW x \in Closers, NEW s \in Sessions, Delete(x, s)
      PROVE  Kept
  <2>1. CASE x = d
    BY <1>8, <2>1, FoundAreAwaited DEF Kept
  <2>2. CASE x # d
    BY <1>2, <1>3, <1>8, <2>2 DEF AnswerInv, SystemTypeOK, TypeOK, Delete, CloseSession
  <2> QED BY <2>1, <2>2
<1>9. ASSUME NEW h \in Handles, ChildExit(h)
      PROVE  Kept
  <2>1. /\ proc'[h] = "exited"
        /\ awaited'[d] = awaited[d] \ {h}
        /\ \A c \in inFlight'[d] : c \in inFlight[d] /\ outcome'[c] = None
    BY <1>9 DEF AnswerInv, SystemTypeOK, TypeOK, ChildExit, ExitEvent, NoteAnswers
  <2> QED BY <1>2, <2>1
<1>10. CASE BridgeStep
  <2>1. UNCHANGED awaited
    BY <1>10 DEF BridgeStep, ChildReplies, ChildPrints, WriteLine, ChildDies,
                 HandleStdoutLine, Timeout, SigKill
  <2>2. \A c \in inFlight'[d] : c \in inFlight[d] /\ outcome'[c] = None
    BY <1>10 DEF BridgeStep, NoteAnswers
  <2> QED BY <1>2, <2>1, <2>2 DEF Kept
<1>11. CASE SystemNext
  BY <1>5, <1>6, <1>7, <1>8, <1>9, <1>10, <1>11 DEF SystemNext, Send, bridgeVars, Kept
<1>12. CASE UNCHANGED systemVars
  BY <1>7, <1>12 DEF systemVars, bridgeVars, sessionVars, Kept
<1> QED BY <1>11, <1>12 DEF Kept

\* When a DELETE returns, every call it found in flight has its answer.
THEOREM DeleteAnswers == SystemSpec => []DeleteAnswersCalls
<1>1. SystemInit => InFlightAreAwaited
  BY DEF SystemInit, InFlightAreAwaited
<1>2. SystemTypeOK /\ BridgeInv /\ InFlightAreAwaited => DeleteAnswersCalls
  BY DEF InFlightAreAwaited, DeleteAnswersCalls, Returned, SystemTypeOK
<1>3. SystemSpec => []BridgeInv
  BY SystemIsBridge, BridgeInvariant, PTL
<1> QED BY <1>1, <1>2, <1>3, AnswerStep, SystemTypeCorrect, PTL DEF SystemSpec, AnswerInv
=============================================================================
