--------------------------- MODULE McpBridgeProofs ---------------------------
(* Theorems about McpBridge, for all values of its constants.              *)
EXTENDS McpBridge, TLAPS, SequenceTheorems, WellFoundedInduction

-----------------------------------------------------------------------------
(* RemoveFirst, the indexOf and splice of removePending.                   *)

\* Removing position i keeps the type and every element at another position.
LEMMA RemoveAtFacts ==
    ASSUME NEW S, NEW s \in Seq(S), NEW i \in 1..Len(s)
    PROVE  /\ RemoveAt(s, i) \in Seq(S)
           /\ \A j \in 1..Len(s) : j # i => s[j] \in ToSet(RemoveAt(s, i))
<1> DEFINE p == SubSeq(s, 1, i-1)
           q == SubSeq(s, i+1, Len(s))
<1>1. p \in Seq(S) /\ Len(p) = i-1 /\ \A j \in 1..(i-1) : p[j] = s[j]
  BY SubSeqProperties, LenProperties, ElementOfSeq
<1>2. q \in Seq(S) /\ Len(q) = Len(s) - i /\ \A j \in 1..(Len(s)-i) : q[j] = s[i+j]
  BY SubSeqProperties, LenProperties, ElementOfSeq
<1> HIDE DEF p, q
<1>3. /\ p \o q \in Seq(S)
      /\ Len(p \o q) = Len(p) + Len(q)
      /\ \A j \in 1..(Len(p) + Len(q)) : (p \o q)[j] = IF j <= Len(p) THEN p[j] ELSE q[j - Len(p)]
  BY <1>1, <1>2, ConcatProperties
<1>4. RemoveAt(s, i) = p \o q
  BY DEF RemoveAt, p, q
<1>5. ASSUME NEW j \in 1..Len(s), j # i  PROVE s[j] \in ToSet(p \o q)
  <2>1. CASE j < i
    <3>1. j \in DOMAIN (p \o q) /\ (p \o q)[j] = s[j]
      BY <1>1, <1>2, <1>3, <2>1, LenProperties
    <3> QED BY <3>1 DEF ToSet
  <2>2. CASE j > i
    <3>1. /\ j-1 \in 1..(Len(p) + Len(q)) /\ ~(j-1 <= Len(p))
          /\ (j-1) - Len(p) = j - i /\ j - i \in 1..(Len(s) - i) /\ i + (j - i) = j
      BY <1>1, <1>2, <2>2, LenProperties
    <3>2. (p \o q)[j-1] = s[j]
      BY <1>2, <1>3, <3>1
    <3> QED BY <1>3, <3>1, <3>2, LenProperties DEF ToSet
  <2> QED BY <2>1, <2>2, <1>5
<1> QED BY <1>3, <1>4, <1>5

\* Every nonempty set of naturals has a least element.
LEMMA LeastElement ==
    ASSUME NEW I \in SUBSET Nat, I # {}
    PROVE  \E n \in I : \A k \in I : n <= k
<1> DEFINE R == OpToRel(<, Nat)
<1>1. IsWellFoundedOn(R, Nat)
  BY NatLessThanWellFounded
<1>2. PICK x \in I : \A y \in I : ~ (<<y, x>> \in R)
  <2> HIDE DEF R
  <2> QED BY <1>1, WFMin
<1>3. \A y \in I : <<y, x>> \in R <=> y < x
  BY DEF OpToRel
<1>4. \A y \in I : ~ (y < x)
  <2> HIDE DEF R
  <2> QED BY <1>2, <1>3
<1> QED BY <1>4

\* RemoveFirst keeps the type and loses no element but the one removed.
LEMMA RemoveFirstFacts ==
    ASSUME NEW S, NEW s \in Seq(S), NEW e
    PROVE  /\ RemoveFirst(s, e) \in Seq(S)
           /\ ToSet(s) \ {e} \subseteq ToSet(RemoveFirst(s, e))
<1> DEFINE I == {i \in 1..Len(s) : s[i] = e}
<1>1. CASE I = {}
  BY <1>1 DEF RemoveFirst
<1>2. CASE I # {}
  <2> DEFINE m == SelectInSeq(s, LAMBDA v : v = e)
  <2>1. m \in I
    <3>1. PICK n \in I : \A k \in I : n <= k
      <4>1. I \in SUBSET Nat
        OBVIOUS
      <4> HIDE DEF I
      <4> QED BY <4>1, <1>2, LeastElement
    <3> QED BY <3>1, <1>2 DEF SelectInSeq, Min
  <2>2. RemoveFirst(s, e) = RemoveAt(s, m)
    BY <1>2 DEF RemoveFirst
  <2> HIDE DEF m
  <2> QED BY <2>1, <2>2, RemoveAtFacts, LenProperties DEF ToSet
<1> QED BY <1>1, <1>2

\* Tail moves every element but the first one place down.
LEMMA TailFacts ==
    ASSUME NEW S, NEW s \in Seq(S), s # <<>>
    PROVE  /\ Head(s) = s[1]
           /\ \A i \in DOMAIN s : i # 1 =>
                 i - 1 \in DOMAIN Tail(s) /\ Tail(s)[i - 1] = s[i]
<1>1. DOMAIN s = 1..Len(s) /\ Len(s) \in Nat /\ Len(s) # 0
  BY LenProperties, EmptySeq
<1>2. /\ Head(s) = s[1] /\ Tail(s) \in Seq(S) /\ Len(Tail(s)) = Len(s) - 1
      /\ \A i \in 1..Len(Tail(s)) : Tail(s)[i] = s[i + 1]
  BY HeadTailProperties
<1>3. DOMAIN Tail(s) = 1..Len(Tail(s))
  BY <1>2, LenProperties
<1> QED BY <1>1, <1>2, <1>3

-----------------------------------------------------------------------------
(* The inductive invariant.                                                *)

\* A handle that was never spawned belongs to no key.
UnbornHasNoKey == \A h \in Handles : proc[h] = "unborn" => keyOf[h] = None

\* A call has at most one entry, over all handles.
OneEntryPerCall ==
    \A h, g \in Handles : \A e \in pending[h], f \in pending[g] :
       e.call = f.call => h = g /\ e = f

\* The exit handler, which walks pendingOrder, meets every entry.
EveryEntryIsQueued ==
    \A h \in Handles : \A e \in pending[h] : e.id \in ToSet(pendingOrder[h])

\* A call that was not made has no result.
NoEarlyOutcome == \A c \in Calls : target[c] = None => outcome[c] = None

\* An id names one request of its handle for good, and pending entries are
\* requests that were written.
IdsAreUnique ==
    \A h \in Handles :
       /\ pending[h] \subseteq stdin[h]
       /\ \A r \in stdin[h] : r.id < nextRpcId[h]
       /\ \A r, q \in stdin[h] : r.id = q.id => r = q

\* A reply on its way back answers a request of its handle.
RepliesAnswerRequests ==
    \A h \in Handles : \A i \in DOMAIN stdout[h] :
       stdout[h][i].kind \in ReplyKinds =>
          [id |-> stdout[h][i].id, call |-> stdout[h][i].of] \in stdin[h]

CacheInv == TypeOK /\ CacheIsExact /\ UnbornHasNoKey
RequestInv == TypeOK /\ IdsAreUnique /\ RepliesAnswerRequests
CallInv == NoLostCall /\ OneEntryPerCall /\ EveryEntryIsQueued /\ NoEarlyOutcome

-----------------------------------------------------------------------------
(* Type correctness.                                                       *)

\* Resolving an entry preserves the types of what it changes.
LEMMA ResolveEntryType ==
    ASSUME TypeOK, NEW h \in Handles, NEW e \in pending[h], NEW code \in Codes,
           NEW of \in Calls \union {None}, ResolveEntry(h, e, code, of)
    PROVE  /\ pending' \in [Handles -> SUBSET Entries]
           /\ pendingOrder' \in [Handles -> Seq(Nat)]
           /\ timers' \in SUBSET (Handles \X Nat)
           /\ outcome' \in [Calls -> Outcomes \union {None}]
<1> USE DEF TypeOK, ResolveEntry
<1>1. e \in Entries
  OBVIOUS
<1>2. RemoveFirst(pendingOrder[h], e.id) \in Seq(Nat)
  BY RemoveFirstFacts
<1>3. [code |-> code, of |-> of] \in Outcomes
  BY DEF Outcomes
<1> QED BY <1>1, <1>2, <1>3 DEF Settle, Entries

\* The initial state is well typed.
LEMMA TypeInit == Init => TypeOK
  BY NoneAssumption DEF Init, TypeOK, ProcStates, Keys

\* A call preserves the types.
LEMMA SubmitType ==
    ASSUME TypeOK, NEW c \in Calls, NEW k \in Keys, Submit(c, k)
    PROVE  TypeOK'
<1>1. /\ target' \in [Calls -> Keys \union {None}]
      /\ UNCHANGED <<stdout, closeOf, awaited, killTimers>>
  BY DEF TypeOK, Submit
<1>2. CASE /\ Settle(c, "unknown_server", None)
           /\ UNCHANGED <<children, keyOf, proc, nextRpcId, pending, pendingOrder, timers, stdin>>
  <2>1. outcome' \in [Calls -> Outcomes \union {None}]
    BY <1>2 DEF TypeOK, Settle, Outcomes, Codes
  <2> QED BY <1>1, <1>2, <2>1 DEF TypeOK
<1>3. ASSUME NEW h \in Handles, EnsureChild(k, h), SendRequest(c, h)
      PROVE  TypeOK'
  <2>1. /\ children' \in [Keys -> Handles \union {None}]
        /\ keyOf' \in [Handles -> Keys \union {None}]
        /\ proc' \in [Handles -> ProcStates]
    <3>1. CASE UNCHANGED <<children, keyOf, proc>>
      BY <3>1 DEF TypeOK
    <3>2. CASE /\ children' = [children EXCEPT ![k] = h]
               /\ keyOf' = [keyOf EXCEPT ![h] = k]
               /\ \E p \in {"failed", "alive"} : proc' = [proc EXCEPT ![h] = p]
      BY <3>2 DEF TypeOK, ProcStates
    <3> QED BY <1>3, <3>1, <3>2 DEF EnsureChild
  <2>2. [id |-> nextRpcId[h], call |-> c] \in Entries
    BY DEF TypeOK, Entries
  <2>3. Append(pendingOrder[h], nextRpcId[h]) \in Seq(Nat)
    BY AppendProperties DEF TypeOK
  <2>4. nextRpcId' \in [Handles -> Nat]
    BY <1>3 DEF TypeOK, SendRequest
  <2>5. CASE c \in UnserialisableCalls
    <3>1. Settle(c, "child_exit", None)
      BY <1>3, <2>5 DEF SendRequest
    <3>2. outcome' \in [Calls -> Outcomes \union {None}]
      BY <3>1 DEF TypeOK, Settle, Outcomes, Codes
    <3>3. UNCHANGED <<pending, pendingOrder, timers, stdin>>
      BY <1>3, <2>5 DEF SendRequest
    <3> QED BY <1>1, <2>1, <2>4, <3>2, <3>3 DEF TypeOK
  <2>6. CASE c \notin UnserialisableCalls
    <3> DEFINE r == [id |-> nextRpcId[h], call |-> c]
    <3>1. /\ pending' = [pending EXCEPT ![h] = @ \union {r}]
          /\ pendingOrder' = [pendingOrder EXCEPT ![h] = Append(@, nextRpcId[h])]
          /\ stdin' = [stdin EXCEPT ![h] = @ \union {r}]
      BY <1>3, <2>6 DEF SendRequest
    <3> HIDE DEF r
    <3>2. timers' \in SUBSET (Handles \X Nat) /\ UNCHANGED outcome
      BY <1>3, <2>6 DEF TypeOK, SendRequest
    <3>3. /\ pending' \in [Handles -> SUBSET Entries]
          /\ pendingOrder' \in [Handles -> Seq(Nat)]
          /\ stdin' \in [Handles -> SUBSET Entries]
      BY <2>2, <2>3, <3>1 DEF TypeOK, r
    <3> QED BY <1>1, <2>1, <2>4, <3>2, <3>3 DEF TypeOK
  <2> QED BY <2>5, <2>6
<1> QED BY <1>2, <1>3 DEF Submit

\* A line written by the child preserves the types.
LEMMA WriteLineType ==
    ASSUME TypeOK, NEW h \in Handles, NEW line \in Lines, WriteLine(h, line)
    PROVE  TypeOK'
<1>1. stdout' \in [Handles -> Seq(Lines)]
  BY AppendProperties DEF TypeOK, WriteLine
<1> QED BY <1>1 DEF TypeOK, WriteLine

\* Handling a stdout line preserves the types.
LEMMA HandleStdoutLineType ==
    ASSUME TypeOK, NEW h \in Handles, HandleStdoutLine(h)
    PROVE  TypeOK'
<1> USE DEF TypeOK, HandleStdoutLine
<1> DEFINE line == Head(stdout[h])
<1>1. line \in Lines /\ Tail(stdout[h]) \in Seq(Lines)
  BY HeadTailProperties
<1>2. stdout' \in [Handles -> Seq(Lines)]
  BY <1>1
<1>3. /\ pending' \in [Handles -> SUBSET Entries]
      /\ pendingOrder' \in [Handles -> Seq(Nat)]
      /\ timers' \in SUBSET (Handles \X Nat)
      /\ outcome' \in [Calls -> Outcomes \union {None}]
  <2>1. CASE ResolveOldestPending(h, "parse_error")
    <3>1. CASE UNCHANGED <<pending, pendingOrder, timers, outcome>>
      BY <3>1
    <3>2. CASE /\ pendingOrder[h] # <<>>
               /\ pendingOrder' = [pendingOrder EXCEPT ![h] = Tail(@)]
               /\ UNCHANGED <<pending, timers, outcome>>
      <4>1. Tail(pendingOrder[h]) \in Seq(Nat)
        BY <3>2, HeadTailProperties
      <4> QED BY <3>2, <4>1
    <3>3. ASSUME NEW e \in EntryAt(h, Head(pendingOrder[h])),
                 ResolveEntry(h, e, "parse_error", None)
          PROVE  <1>3!:
      BY <3>3, ResolveEntryType DEF EntryAt, Codes
    <3> QED BY <2>1, <3>1, <3>2, <3>3 DEF ResolveOldestPending
  <2>2. CASE UNCHANGED <<pending, pendingOrder, timers, outcome>>
    BY <2>2
  <2>3. ASSUME NEW e \in EntryAt(h, line.id), line.kind \in ReplyKinds,
               ResolveEntry(h, e, ReplyCode(line.kind), line.of)
        PROVE  <1>3!:
    <3>1. ReplyCode(line.kind) \in Codes
      BY <2>3 DEF ReplyCode, ReplyKinds, Codes
    <3>2. line.of \in Calls \union {None}
      BY <1>1 DEF Lines
    <3> HIDE DEF line
    <3> QED BY <2>3, <3>1, <3>2, ResolveEntryType DEF EntryAt
  <2> QED BY <2>1, <2>2, <2>3
<1> QED BY <1>2, <1>3

\* A timer that fires preserves the types.
LEMMA TimeoutType ==
    ASSUME TypeOK, NEW h \in Handles, NEW id \in Nat, Timeout(h, id)
    PROVE  TypeOK'
<1>1. ASSUME NEW e \in EntryAt(h, id), ResolveEntry(h, e, "timeout", None)
      PROVE  TypeOK'
  <2>1. /\ pending' \in [Handles -> SUBSET Entries]
        /\ pendingOrder' \in [Handles -> Seq(Nat)]
        /\ timers' \in SUBSET (Handles \X Nat)
        /\ outcome' \in [Calls -> Outcomes \union {None}]
    BY <1>1, ResolveEntryType DEF EntryAt, Codes
  <2> QED BY <2>1 DEF TypeOK, Timeout
<1>2. CASE timers' = timers \ {<<h, id>>} /\ UNCHANGED <<pending, pendingOrder, outcome>>
  BY <1>2 DEF TypeOK, Timeout
<1> QED BY <1>1, <1>2 DEF Timeout

\* The "exit" event preserves the types.
LEMMA ExitEventType ==
    ASSUME TypeOK, NEW h \in Handles, ExitEvent(h)
    PROVE  TypeOK'
<1>1. outcome' \in [Calls -> Outcomes \union {None}]
  <2>1. [code |-> "child_exit", of |-> None] \in Outcomes
    BY DEF Outcomes, Codes
  <2> QED BY <2>1 DEF TypeOK, ExitEvent
<1>2. pendingOrder' \in [Handles -> Seq(Nat)]
  BY EmptySeq DEF TypeOK, ExitEvent
<1>3. /\ proc' \in [Handles -> ProcStates]
      /\ timers' \in SUBSET (Handles \X Nat)
      /\ pending' \in [Handles -> SUBSET Entries]
  BY DEF TypeOK, ExitEvent, ProcStates
<1>4. /\ children' \in [Keys -> Handles \union {None}]
      /\ awaited' \in [Closers -> SUBSET Handles]
      /\ killTimers' \in [Closers -> SUBSET Handles]
  BY DEF TypeOK, ExitEvent
<1> QED BY <1>1, <1>2, <1>3, <1>4 DEF TypeOK, ExitEvent

\* closeSession preserves the types.
LEMMA CloseSessionType ==
    ASSUME TypeOK, NEW d \in Closers, NEW s \in Sessions, CloseSession(d, s)
    PROVE  TypeOK'
<1>1. CachedOf(s) \subseteq Handles
  BY DEF TypeOK, CachedOf
<1>2. /\ closeOf' \in [Closers -> Sessions \union {None}]
      /\ awaited' \in [Closers -> SUBSET Handles]
      /\ killTimers' \in [Closers -> SUBSET Handles]
      /\ children' \in [Keys -> Handles \union {None}]
  BY <1>1 DEF TypeOK, CloseSession
<1> QED BY <1>2 DEF TypeOK, CloseSession

\* Every step preserves the types.
LEMMA TypeStep == TypeOK /\ [Next]_bridgeVars => TypeOK'
<1> SUFFICES ASSUME TypeOK, [Next]_bridgeVars PROVE TypeOK'
  OBVIOUS
<1>1. ASSUME NEW c \in Calls, NEW k \in Keys, Call(c, k) \/ ListTools(c, k)
      PROVE  TypeOK'
  BY <1>1, SubmitType DEF Call, ListTools
<1>2. ASSUME NEW h \in Handles, ChildReplies(h) PROVE TypeOK'
  <2>1. PICK r \in stdin[h], kind \in ReplyKinds :
          WriteLine(h, [kind |-> kind, id |-> r.id, of |-> r.call])
    BY <1>2 DEF ChildReplies
  <2>2. [kind |-> kind, id |-> r.id, of |-> r.call] \in Lines
    BY DEF TypeOK, Entries, Lines, LineKinds
  <2> QED BY <2>1, <2>2, WriteLineType
<1>3. ASSUME NEW h \in Handles, ChildPrints(h) PROVE TypeOK'
  <2>1. PICK kind \in {"garbage", "noid"} : WriteLine(h, [kind |-> kind, id |-> 0, of |-> None])
    BY <1>3 DEF ChildPrints
  <2>2. [kind |-> kind, id |-> 0, of |-> None] \in Lines
    BY DEF Lines, LineKinds
  <2> QED BY <2>1, <2>2, WriteLineType
<1>4. ASSUME NEW h \in Handles, ChildDies(h) PROVE TypeOK'
  BY <1>4 DEF TypeOK, ChildDies, ProcStates
<1>5. ASSUME NEW h \in Handles, HandleStdoutLine(h) PROVE TypeOK'
  BY <1>5, HandleStdoutLineType
<1>6. ASSUME NEW h \in Handles, ExitEvent(h) PROVE TypeOK'
  BY <1>6, ExitEventType
<1>7. ASSUME NEW t \in timers, Timeout(t[1], t[2]) PROVE TypeOK'
  <2>1. t[1] \in Handles /\ t[2] \in Nat
    BY DEF TypeOK
  <2> QED BY <1>7, <2>1, TimeoutType
<1>8. ASSUME NEW d \in Closers, NEW s \in Sessions, CloseSession(d, s) PROVE TypeOK'
  BY <1>8, CloseSessionType
<1>9. ASSUME NEW d \in Closers, NEW h \in Handles, SigKill(d, h) PROVE TypeOK'
  BY <1>9 DEF TypeOK, SigKill, ProcStates
<1>10. CASE UNCHANGED bridgeVars
  BY <1>10 DEF TypeOK, bridgeVars
<1> QED
  BY <1>1, <1>2, <1>3, <1>4, <1>5, <1>6, <1>7, <1>8, <1>9, <1>10 DEF Next

\* In every reachable state every variable has its type.
THEOREM TypeCorrect == Spec => []TypeOK
  BY TypeInit, TypeStep, PTL DEF Spec

-----------------------------------------------------------------------------
(* The cache.                                                              *)

\* Which handles each action can spawn, end or uncache.
LEMMA CacheStep == CacheInv /\ [Next]_bridgeVars => CacheInv'
<1> SUFFICES ASSUME CacheInv, [Next]_bridgeVars PROVE CacheIsExact' /\ UnbornHasNoKey'
  BY TypeStep DEF CacheInv
<1> USE DEF CacheInv
<1>1. ASSUME NEW c \in Calls, NEW k \in Keys, Submit(c, k)
      PROVE  CacheIsExact' /\ UnbornHasNoKey'
  <2>1. CASE UNCHANGED <<children, keyOf, proc>>
    BY <2>1 DEF CacheIsExact, UnbornHasNoKey
  <2>2. ASSUME NEW h \in Handles, children[k] = None, proc[h] = "unborn",
               children' = [children EXCEPT ![k] = h], keyOf' = [keyOf EXCEPT ![h] = k],
               proc'[h] \in {"failed", "alive"}, \A g \in Handles \ {h} : proc'[g] = proc[g]
        PROVE  CacheIsExact' /\ UnbornHasNoKey'
    <3>1. h # None /\ k # None
      BY NoneAssumption DEF Keys
    <3>2. /\ children'[k] = h /\ keyOf'[h] = k
          /\ \A x \in Keys \ {k} : children'[x] = children[x]
          /\ \A g \in Handles \ {h} : keyOf'[g] = keyOf[g]
      BY <2>2 DEF TypeOK
    <3>3. ASSUME NEW x \in Keys, children'[x] # None
          PROVE  keyOf'[children'[x]] = x /\ proc'[children'[x]] \in {"alive", "failed", "dead"}
      <4>1. CASE x = k
        BY <2>2, <3>2, <4>1
      <4>2. CASE x # k
        <5>1. /\ children[x] \in Handles /\ keyOf[children[x]] = x
              /\ proc[children[x]] \in {"alive", "failed", "dead"}
          BY <3>2, <3>3, <4>2 DEF TypeOK, CacheIsExact
        <5> QED BY <2>2, <3>2, <4>2, <5>1
      <4> QED BY <4>1, <4>2
    <3>4. ASSUME NEW g \in Handles, proc'[g] \in {"alive", "failed", "dead"}
          PROVE  keyOf'[g] # None /\ children'[keyOf'[g]] = g
      <4>1. CASE g = h
        BY <3>1, <3>2, <4>1
      <4>2. CASE g # h
        <5>1. keyOf[g] \in Keys /\ keyOf[g] # None /\ children[keyOf[g]] = g
          BY <2>2, <3>4, <4>2 DEF TypeOK, CacheIsExact
        <5>2. keyOf[g] # k
          BY <2>2, <5>1, NoneAssumption
        <5> QED BY <3>2, <4>2, <5>1, <5>2
      <4> QED BY <4>1, <4>2
    <3>5. CacheIsExact'
      BY <3>3, <3>4 DEF CacheIsExact
    <3>6. UnbornHasNoKey'
      BY <2>2 DEF TypeOK, UnbornHasNoKey
    <3> QED BY <3>5, <3>6
  <2>3. ASSUME NEW h \in Handles, EnsureChild(k, h)
        PROVE  CacheIsExact' /\ UnbornHasNoKey'
    <3>1. CASE UNCHANGED <<children, keyOf, proc>>
      BY <3>1, <2>1
    <3>2. CASE ~ UNCHANGED <<children, keyOf, proc>>
      <4>1. /\ children[k] = None /\ proc[h] = "unborn"
            /\ children' = [children EXCEPT ![k] = h] /\ keyOf' = [keyOf EXCEPT ![h] = k]
            /\ \E p \in {"failed", "alive"} : proc' = [proc EXCEPT ![h] = p]
        BY <2>3, <3>2 DEF EnsureChild
      <4> QED BY <4>1, <2>2 DEF TypeOK
    <3> QED BY <3>1, <3>2
  <2> QED BY <1>1, <2>1, <2>3 DEF Submit
<1>2. ASSUME NEW h \in Handles, proc[h] = "alive", proc' = [proc EXCEPT ![h] = "dead"],
             UNCHANGED <<children, keyOf>>
      PROVE  CacheIsExact' /\ UnbornHasNoKey'
  BY <1>2 DEF TypeOK, CacheIsExact, UnbornHasNoKey
<1>3. ASSUME NEW h \in Handles, ExitEvent(h)
      PROVE  CacheIsExact' /\ UnbornHasNoKey'
  <2>1. keyOf[h] \in Keys /\ children[keyOf[h]] = h
    BY <1>3 DEF TypeOK, CacheIsExact, ExitEvent
  <2>2. /\ children' = [children EXCEPT ![keyOf[h]] = None]
        /\ keyOf' = keyOf
        /\ proc' = [proc EXCEPT ![h] = "exited"]
    BY <1>3, <2>1 DEF ExitEvent
  <2>3. h # None
    BY NoneAssumption
  <2>4. CacheIsExact'
    BY <2>1, <2>2, <2>3 DEF TypeOK, CacheIsExact
  <2>5. UnbornHasNoKey'
    BY <2>2 DEF TypeOK, UnbornHasNoKey
  <2> QED BY <2>4, <2>5
<1>4. ASSUME NEW d \in Closers, NEW s \in Sessions, CloseSession(d, s)
      PROVE  CacheIsExact' /\ UnbornHasNoKey'
  <2>1. ASSUME NEW h \in CachedOf(s) PROVE h \in Handles /\ ~Exited(h)
    <3>1. PICK k \in Keys : h = children[k] /\ h # None
      BY DEF CachedOf
    <3>2. h \in Handles /\ proc[h] \in {"alive", "failed", "dead"}
      BY <3>1 DEF TypeOK, CacheIsExact
    <3> QED BY <3>2 DEF Exited
  <2>2. children' = children
    BY <1>4, <2>1 DEF TypeOK, CloseSession
  <2> QED BY <1>4, <2>2 DEF CloseSession, CacheIsExact, UnbornHasNoKey
<1>5. ASSUME NEW d \in Closers, NEW h \in Handles, SigKill(d, h)
      PROVE  CacheIsExact' /\ UnbornHasNoKey'
  BY <1>2, <1>5 DEF SigKill, CacheIsExact, UnbornHasNoKey
<1>6. ASSUME UNCHANGED <<children, keyOf, proc>>
      PROVE  CacheIsExact' /\ UnbornHasNoKey'
  BY <1>6 DEF CacheIsExact, UnbornHasNoKey
<1>7. \A h \in Handles :
        ChildReplies(h) \/ ChildPrints(h) \/ HandleStdoutLine(h)
           => UNCHANGED <<children, keyOf, proc>>
  BY DEF ChildReplies, ChildPrints, WriteLine, HandleStdoutLine
<1>8. \A t : Timeout(t[1], t[2]) => UNCHANGED <<children, keyOf, proc>>
  BY DEF Timeout
<1>9. \A h \in Handles : ChildDies(h) => proc[h] = "alive"
        /\ proc' = [proc EXCEPT ![h] = "dead"] /\ UNCHANGED <<children, keyOf>>
  BY DEF ChildDies
<1>10. CASE UNCHANGED bridgeVars
  BY <1>6, <1>10 DEF bridgeVars
<1>11. CASE Next
  BY <1>11, <1>1, <1>2, <1>3, <1>4, <1>5, <1>6, <1>7, <1>8, <1>9 DEF Next, Call, ListTools
<1> QED BY <1>10, <1>11

\* The cache is exact in every reachable state: at most one child per key,
\* no handle used after its exit, no spawned child out of the map.
THEOREM CacheExact == Spec => []CacheIsExact
<1>1. Init => CacheInv
  BY TypeInit, NoneAssumption DEF Init, CacheInv, CacheIsExact, UnbornHasNoKey
<1>2. CacheInv => CacheIsExact
  BY DEF CacheInv
<1> QED BY <1>1, <1>2, CacheStep, PTL DEF Spec

-----------------------------------------------------------------------------
(* Replies reach their own call.                                           *)

\* What a call registers, if it registers anything.
LEMMA SendRequestFacts ==
    ASSUME TypeOK, NEW c \in Calls, NEW h \in Handles, SendRequest(c, h)
    PROVE  \/ /\ UNCHANGED <<pending, pendingOrder, timers, stdin>>
              /\ nextRpcId' = [nextRpcId EXCEPT ![h] = @ + 1]
              /\ Settle(c, "child_exit", None)
           \/ /\ UNCHANGED outcome
              /\ nextRpcId' = [nextRpcId EXCEPT ![h] = @ + 1]
              /\ pendingOrder' = [pendingOrder EXCEPT ![h] = Append(@, nextRpcId[h])]
              /\ \E r \in Entries :
                    /\ r.id = nextRpcId[h] /\ r.call = c
                    /\ pending' = [pending EXCEPT ![h] = @ \union {r}]
                    /\ stdin' = [stdin EXCEPT ![h] = @ \union {r}]
<1>1. CASE c \in UnserialisableCalls
  BY <1>1 DEF SendRequest
<1>2. CASE c \notin UnserialisableCalls
  <2> DEFINE r == [id |-> nextRpcId[h], call |-> c]
  <2>1. r \in Entries /\ r.id = nextRpcId[h] /\ r.call = c
    BY DEF TypeOK, Entries
  <2>2. /\ UNCHANGED outcome
        /\ nextRpcId' = [nextRpcId EXCEPT ![h] = @ + 1]
        /\ pendingOrder' = [pendingOrder EXCEPT ![h] = Append(@, nextRpcId[h])]
        /\ pending' = [pending EXCEPT ![h] = @ \union {r}]
        /\ stdin' = [stdin EXCEPT ![h] = @ \union {r}]
    BY <1>2 DEF SendRequest
  <2> HIDE DEF r
  <2> QED BY <2>1, <2>2
<1> QED BY <1>1, <1>2

\* A settled call has no result of a child, or has the result of its own.
LEMMA SettleOwn ==
    ASSUME TypeOK, ReplyIsOwn, NEW c \in Calls, NEW code, NEW of \in {c, None},
           Settle(c, code, of)
    PROVE  ReplyIsOwn'
  BY DEF TypeOK, ReplyIsOwn, Settle

\* Ids stay unique, replies keep answering requests, and results stay with
\* their calls.
LEMMA RequestStep == RequestInv /\ ReplyIsOwn /\ [Next]_bridgeVars
                        => RequestInv' /\ ReplyIsOwn'
<1> SUFFICES ASSUME RequestInv, ReplyIsOwn, [Next]_bridgeVars
             PROVE  IdsAreUnique' /\ RepliesAnswerRequests' /\ ReplyIsOwn'
  BY TypeStep DEF RequestInv
<1> USE DEF RequestInv
<1>1. ASSUME UNCHANGED <<nextRpcId, stdin, stdout>>,
             \A h \in Handles : pending'[h] \subseteq pending[h]
      PROVE  IdsAreUnique' /\ RepliesAnswerRequests'
  BY <1>1 DEF IdsAreUnique, RepliesAnswerRequests
<1>2. ASSUME NEW h \in Handles, NEW e \in pending[h], NEW code, NEW of \in {e.call, None},
             ResolveEntry(h, e, code, of)
      PROVE  (\A g \in Handles : pending'[g] \subseteq pending[g]) /\ ReplyIsOwn'
  <2>1. e.call \in Calls
    BY DEF TypeOK, Entries
  <2>2. ReplyIsOwn'
    BY <1>2, <2>1, SettleOwn DEF ResolveEntry
  <2> QED BY <1>2, <2>2 DEF TypeOK, ResolveEntry
<1>3. ASSUME NEW c \in Calls, NEW k \in Keys, Submit(c, k)
      PROVE  IdsAreUnique' /\ RepliesAnswerRequests' /\ ReplyIsOwn'
  <2>1. CASE /\ Settle(c, "unknown_server", None)
             /\ UNCHANGED <<children, keyOf, proc, nextRpcId, pending, pendingOrder, timers, stdin>>
    BY <1>1, <1>3, <2>1, SettleOwn DEF Submit
  <2>2. ASSUME NEW h \in Handles, SendRequest(c, h)
        PROVE  IdsAreUnique' /\ RepliesAnswerRequests' /\ ReplyIsOwn'
    <3>1. CASE /\ UNCHANGED <<pending, pendingOrder, timers, stdin>>
               /\ nextRpcId' = [nextRpcId EXCEPT ![h] = @ + 1]
               /\ Settle(c, "child_exit", None)
      <4>1. IdsAreUnique'
        BY <3>1 DEF TypeOK, Entries, IdsAreUnique
      <4>2. RepliesAnswerRequests'
        BY <1>3, <3>1 DEF Submit, RepliesAnswerRequests
      <4> QED BY <3>1, <4>1, <4>2, SettleOwn
    <3>2. ASSUME NEW r \in Entries, r.id = nextRpcId[h], r.call = c, UNCHANGED outcome,
                 nextRpcId' = [nextRpcId EXCEPT ![h] = @ + 1],
                 pending' = [pending EXCEPT ![h] = @ \union {r}],
                 stdin' = [stdin EXCEPT ![h] = @ \union {r}]
          PROVE  IdsAreUnique' /\ RepliesAnswerRequests' /\ ReplyIsOwn'
      <4>1. \A g \in Handles : /\ stdin[g] \subseteq stdin'[g]
                               /\ stdin'[g] \subseteq Entries
                               /\ g # h => stdin'[g] = stdin[g] /\ pending'[g] = pending[g]
                                           /\ nextRpcId'[g] = nextRpcId[g]
        BY <3>2 DEF TypeOK
      <4>2. /\ stdin'[h] = stdin[h] \union {r} /\ pending'[h] = pending[h] \union {r}
            /\ nextRpcId'[h] = nextRpcId[h] + 1 /\ nextRpcId[h] \in Nat
        BY <3>2 DEF TypeOK
      <4>3. IdsAreUnique'
        <5>1. ASSUME NEW g \in Handles PROVE
                 /\ pending'[g] \subseteq stdin'[g]
                 /\ \A x \in stdin'[g] : x.id < nextRpcId'[g]
                 /\ \A x, y \in stdin'[g] : x.id = y.id => x = y
          <6>1. CASE g # h
            BY <4>1, <6>1 DEF IdsAreUnique
          <6>2. CASE g = h
            <7>1. \A x \in stdin[h] : x.id \in Nat /\ x.id < nextRpcId[h]
              BY DEF TypeOK, Entries, IdsAreUnique
            <7> QED BY <3>2, <4>2, <6>2, <7>1 DEF IdsAreUnique
          <6> QED BY <6>1, <6>2
        <5> QED BY <5>1 DEF IdsAreUnique
      <4>4. RepliesAnswerRequests'
        BY <1>3, <4>1 DEF Submit, RepliesAnswerRequests
      <4> QED BY <3>2, <4>3, <4>4 DEF ReplyIsOwn
    <3> QED BY <2>2, <3>1, <3>2, SendRequestFacts
  <2> QED BY <1>3, <2>1, <2>2 DEF Submit
<1>4. ASSUME NEW h \in Handles, NEW line \in Lines, WriteLine(h, line),
             line.kind \in ReplyKinds => [id |-> line.id, call |-> line.of] \in stdin[h]
      PROVE  IdsAreUnique' /\ RepliesAnswerRequests' /\ ReplyIsOwn'
  <2>1. IdsAreUnique' /\ ReplyIsOwn'
    BY <1>4 DEF WriteLine, IdsAreUnique, ReplyIsOwn
  <2>2. \A i \in DOMAIN stdout'[h] : \/ stdout'[h][i] = line
                                     \/ i \in DOMAIN stdout[h] /\ stdout'[h][i] = stdout[h][i]
    <3>1. stdout'[h] = Append(stdout[h], line) /\ stdout[h] \in Seq(Lines)
      BY <1>4 DEF TypeOK, WriteLine
    <3> QED BY <3>1, AppendProperties, LenProperties
  <2>3. stdin' = stdin /\ \A g \in Handles \ {h} : stdout'[g] = stdout[g]
    BY <1>4 DEF TypeOK, WriteLine
  <2>4. RepliesAnswerRequests'
    BY <1>4, <2>2, <2>3 DEF RepliesAnswerRequests
  <2> QED BY <2>1, <2>4
<1>5. ASSUME NEW h \in Handles, HandleStdoutLine(h)
      PROVE  IdsAreUnique' /\ RepliesAnswerRequests' /\ ReplyIsOwn'
  <2> DEFINE line == Head(stdout[h])
  <2>1. stdout[h] \in Seq(Lines) /\ stdout[h] # <<>> /\ stdout'[h] = Tail(stdout[h])
    BY <1>5 DEF TypeOK, HandleStdoutLine
  <2>2. /\ 1 \in DOMAIN stdout[h] /\ line = stdout[h][1] /\ line \in Lines
        /\ \A i \in DOMAIN stdout'[h] :
              i + 1 \in DOMAIN stdout[h] /\ stdout'[h][i] = stdout[h][i + 1]
    BY <2>1, HeadTailProperties, LenProperties
  <2>3. stdin' = stdin /\ nextRpcId' = nextRpcId
        /\ \A g \in Handles \ {h} : stdout'[g] = stdout[g]
    BY <1>5 DEF TypeOK, HandleStdoutLine
  <2>4. RepliesAnswerRequests'
    BY <2>2, <2>3 DEF RepliesAnswerRequests
  <2>5. (\A g \in Handles : pending'[g] \subseteq pending[g]) /\ ReplyIsOwn'
    <3>1. CASE UNCHANGED <<pending, outcome>>
      BY <3>1 DEF ReplyIsOwn
    <3>2. ASSUME NEW e \in EntryAt(h, Head(pendingOrder[h])),
                 ResolveEntry(h, e, "parse_error", None)
          PROVE  (\A g \in Handles : pending'[g] \subseteq pending[g]) /\ ReplyIsOwn'
      BY <1>2, <3>2 DEF EntryAt
    <3>3. ASSUME NEW e \in EntryAt(h, line.id), line.kind \in ReplyKinds,
                 ResolveEntry(h, e, ReplyCode(line.kind), line.of)
          PROVE  (\A g \in Handles : pending'[g] \subseteq pending[g]) /\ ReplyIsOwn'
      <4>1. [id |-> line.id, call |-> line.of] \in stdin[h]
        BY <2>2, <3>3 DEF RepliesAnswerRequests
      <4>2. e \in pending[h] /\ e.id = line.id /\ e \in stdin[h]
        BY <3>3 DEF EntryAt, IdsAreUnique
      <4>3. e = [id |-> line.id, call |-> line.of]
        BY <4>1, <4>2 DEF IdsAreUnique
      <4>4. line.of = e.call
        BY <4>3
      <4> HIDE DEF line
      <4> QED BY <1>2, <3>3, <4>2, <4>4
    <3> QED BY <1>5, <3>1, <3>2, <3>3 DEF HandleStdoutLine, ResolveOldestPending
  <2>6. IdsAreUnique'
    BY <2>3, <2>5 DEF IdsAreUnique
  <2> QED BY <2>4, <2>5, <2>6
<1>6. ASSUME NEW h \in Handles, NEW id \in Nat, Timeout(h, id)
      PROVE  IdsAreUnique' /\ RepliesAnswerRequests' /\ ReplyIsOwn'
  <2>1. UNCHANGED <<nextRpcId, stdin, stdout>>
    BY <1>6 DEF Timeout
  <2>2. CASE UNCHANGED <<pending, outcome>>
    BY <1>1, <2>1, <2>2 DEF ReplyIsOwn
  <2>3. ASSUME NEW e \in EntryAt(h, id), ResolveEntry(h, e, "timeout", None)
        PROVE  IdsAreUnique' /\ RepliesAnswerRequests' /\ ReplyIsOwn'
    BY <1>1, <1>2, <2>1, <2>3 DEF EntryAt
  <2> QED BY <1>6, <2>2, <2>3 DEF Timeout
<1>7. ASSUME NEW h \in Handles, ExitEvent(h)
      PROVE  IdsAreUnique' /\ RepliesAnswerRequests' /\ ReplyIsOwn'
  <2>1. UNCHANGED <<nextRpcId, stdin, stdout>> /\ \A g \in Handles : pending'[g] \subseteq pending[g]
    BY <1>7 DEF TypeOK, ExitEvent
  <2>2. \A c \in Calls : outcome'[c] = outcome[c] \/ outcome'[c].of = None
    BY <1>7 DEF ExitEvent
  <2> QED BY <1>1, <2>1, <2>2 DEF ReplyIsOwn
<1>8. ASSUME UNCHANGED <<nextRpcId, stdin, stdout, pending, outcome>>
      PROVE  IdsAreUnique' /\ RepliesAnswerRequests' /\ ReplyIsOwn'
  BY <1>1, <1>8 DEF ReplyIsOwn
<1>9. ASSUME NEW h \in Handles, ChildReplies(h)
      PROVE  IdsAreUnique' /\ RepliesAnswerRequests' /\ ReplyIsOwn'
  <2>1. PICK r \in stdin[h], kind \in ReplyKinds :
          WriteLine(h, [kind |-> kind, id |-> r.id, of |-> r.call])
    BY <1>9 DEF ChildReplies
  <2>2. [kind |-> kind, id |-> r.id, of |-> r.call] \in Lines /\ r = [id |-> r.id, call |-> r.call]
    BY DEF TypeOK, Entries, Lines, LineKinds
  <2> QED BY <1>4, <2>1, <2>2
<1>10. ASSUME NEW h \in Handles, ChildPrints(h)
       PROVE  IdsAreUnique' /\ RepliesAnswerRequests' /\ ReplyIsOwn'
  <2>1. PICK kind \in {"garbage", "noid"} : WriteLine(h, [kind |-> kind, id |-> 0, of |-> None])
    BY <1>10 DEF ChildPrints
  <2>2. [kind |-> kind, id |-> 0, of |-> None] \in Lines /\ kind \notin ReplyKinds
    BY DEF Lines, LineKinds, ReplyKinds
  <2> QED BY <1>4, <2>1, <2>2
<1>11. CASE Next
  <2>1. \A t \in timers : t[1] \in Handles /\ t[2] \in Nat
    BY DEF TypeOK
  <2>2. ASSUME NEW d \in Closers, NEW s \in Sessions, CloseSession(d, s)
        PROVE  IdsAreUnique' /\ RepliesAnswerRequests' /\ ReplyIsOwn'
    BY <1>8, <2>2 DEF CloseSession
  <2>3. ASSUME NEW d \in Closers, NEW h \in Handles, SigKill(d, h)
        PROVE  IdsAreUnique' /\ RepliesAnswerRequests' /\ ReplyIsOwn'
    BY <1>8, <2>3 DEF SigKill
  <2>4. ASSUME NEW h \in Handles, ChildDies(h)
        PROVE  IdsAreUnique' /\ RepliesAnswerRequests' /\ ReplyIsOwn'
    BY <1>8, <2>4 DEF ChildDies
  <2> QED BY <1>11, <1>3, <1>5, <1>6, <1>7, <1>9, <1>10, <2>1, <2>2, <2>3, <2>4
          DEF Next, Call, ListTools
<1>12. CASE UNCHANGED bridgeVars
  BY <1>8, <1>12 DEF bridgeVars
<1> QED BY <1>11, <1>12

\* In every reachable state a result that came from a child is the child's
\* answer to the call that received it.
THEOREM OwnReplies == Spec => []ReplyIsOwn
<1>1. Init => RequestInv /\ ReplyIsOwn
  BY TypeInit, EmptySeq, LenProperties
     DEF Init, RequestInv, IdsAreUnique, RepliesAnswerRequests, ReplyIsOwn
<1> QED BY <1>1, RequestStep, PTL DEF Spec

-----------------------------------------------------------------------------
(* No call is lost.                                                        *)

BridgeInv == CacheInv /\ RequestInv /\ CallInv

\* Settling a call leaves every other outcome as it was.
LEMMA SettleFacts ==
    ASSUME TypeOK, NEW c \in Calls, NEW code \in Codes, NEW of \in Calls \union {None},
           Settle(c, code, of)
    PROVE  outcome'[c] # None /\ \A x \in Calls \ {c} : outcome'[x] = outcome[x]
<1>1. [code |-> code, of |-> of] \in Outcomes
  BY DEF Outcomes
<1> QED BY <1>1, OutcomeAssumption DEF TypeOK, Settle

\* Resolving an entry removes the only entry of its call and no other.
LEMMA ResolveEntryStep ==
    ASSUME BridgeInv, NEW h \in Handles, NEW e \in pending[h], NEW code \in Codes,
           NEW of \in Calls \union {None}, ResolveEntry(h, e, code, of),
           UNCHANGED <<proc, keyOf, target>>
    PROVE  CallInv'
<1> USE DEF BridgeInv, CallInv
<1>1. TypeOK /\ e \in Entries /\ e.call \in Calls
  BY DEF CacheInv, TypeOK, Entries
<1>2. outcome'[e.call] # None /\ \A x \in Calls \ {e.call} : outcome'[x] = outcome[x]
  BY <1>1, SettleFacts DEF ResolveEntry
<1>3. /\ pending'[h] = pending[h] \ {e}
      /\ \A g \in Handles \ {h} : pending'[g] = pending[g]
      /\ \A g \in Handles : pending'[g] \subseteq pending[g]
  BY <1>1 DEF TypeOK, ResolveEntry
<1>4. ASSUME NEW g \in Handles, NEW f \in pending'[g]
      PROVE  f.call \in Calls /\ f.call # e.call
  <2>1. f \in pending[g] /\ f.call \in Calls
    BY <1>1, <1>3 DEF TypeOK, Entries
  <2>2. f.call = e.call => g = h /\ f = e
    BY <2>1 DEF OneEntryPerCall
  <2> QED BY <1>3, <2>1, <2>2
<1>5. ASSUME NEW c \in Calls, Waiting(c)'
      PROVE  \E g \in Handles : ~Exited(g)' /\ \E f \in pending'[g] : f.call = c
  <2>1. c # e.call /\ Waiting(c)
    BY <1>2, <1>5 DEF Waiting
  <2>2. PICK g \in Handles : ~Exited(g) /\ \E f \in pending[g] : f.call = c
    BY <2>1 DEF NoLostCall
  <2>3. PICK f \in pending[g] : f.call = c
    BY <2>2
  <2>4. f \in pending'[g]
    BY <1>3, <2>1, <2>3
  <2> QED BY <2>2, <2>3, <2>4 DEF Exited
<1>6. ASSUME NEW g \in Handles, NEW f \in pending'[g]
      PROVE  Waiting(f.call)' /\ keyOf'[g] = target'[f.call]
  BY <1>2, <1>3, <1>4 DEF NoLostCall, Waiting
<1>7. NoLostCall'
  BY <1>5, <1>6 DEF NoLostCall
<1>8. OneEntryPerCall'
  BY <1>3 DEF OneEntryPerCall
<1>9. EveryEntryIsQueued'
  <2>1. /\ ToSet(pendingOrder[h]) \ {e.id} \subseteq ToSet(pendingOrder'[h])
        /\ \A g \in Handles \ {h} : pendingOrder'[g] = pendingOrder[g]
    BY <1>1, RemoveFirstFacts DEF TypeOK, ResolveEntry
  <2>2. \A f \in pending'[h] : f.id # e.id
    BY <1>3 DEF RequestInv, IdsAreUnique
  <2> QED BY <1>3, <2>1, <2>2 DEF EveryEntryIsQueued
<1>10. NoEarlyOutcome'
  <2>1. Waiting(e.call)
    BY DEF NoLostCall
  <2> QED BY <1>1, <1>2, <2>1 DEF NoEarlyOutcome, Waiting
<1> QED BY <1>7, <1>8, <1>9, <1>10

\* A call is settled at once or registered on a live handle of its key.
LEMMA SubmitStep ==
    ASSUME BridgeInv, NEW c \in Calls, NEW k \in Keys, Submit(c, k)
    PROVE  CallInv'
<1> USE DEF BridgeInv, CallInv
<1>1. TypeOK /\ k # None /\ target[c] = None /\ target' = [target EXCEPT ![c] = k]
  BY NoneAssumption DEF CacheInv, Submit, Keys
<1>2. \A h \in Handles : \A e \in pending[h] : e.call \in Calls /\ e.call # c
  BY <1>1 DEF TypeOK, Entries, NoLostCall, Waiting
<1>3. target'[c] = k /\ \A x \in Calls \ {c} : target'[x] = target[x]
  BY <1>1 DEF TypeOK
<1>4. ASSUME NEW code \in Codes, Settle(c, code, None), UNCHANGED <<pending, pendingOrder>>,
             \A g \in Handles : /\ Exited(g)' => Exited(g)
                                /\ pending[g] # {} => keyOf'[g] = keyOf[g]
      PROVE  CallInv'
  <2>1. outcome'[c] # None /\ \A x \in Calls \ {c} : outcome'[x] = outcome[x]
    BY <1>1, <1>4, SettleFacts
  <2>2. \A x \in Calls : Waiting(x)' => Waiting(x)
    BY <1>3, <2>1 DEF Waiting
  <2>3. \A x \in Calls \ {c} : Waiting(x) => Waiting(x)'
    BY <1>3, <2>1 DEF Waiting
  <2>4. ASSUME NEW x \in Calls, Waiting(x)'
        PROVE  \E g \in Handles : ~Exited(g)' /\ \E f \in pending'[g] : f.call = x
    <3>1. PICK g \in Handles : ~Exited(g) /\ \E f \in pending[g] : f.call = x
      BY <2>2, <2>4 DEF NoLostCall
    <3>2. proc'[g] # "exited"
      BY <1>4, <3>1 DEF Exited
    <3>3. pending'[g] = pending[g]
      BY <1>4
    <3> QED BY <3>1, <3>2, <3>3 DEF Exited
  <2>5. ASSUME NEW g \in Handles, NEW f \in pending'[g]
        PROVE  Waiting(f.call)' /\ keyOf'[g] = target'[f.call]
    <3>1. f \in pending[g] /\ f.call \in Calls \ {c}
      BY <1>2, <1>4
    <3>2. Waiting(f.call) /\ keyOf[g] = target[f.call]
      BY <3>1 DEF NoLostCall
    <3>3. outcome'[f.call] = outcome[f.call] /\ target'[f.call] = target[f.call]
      BY <1>3, <2>1, <3>1
    <3>4. keyOf'[g] = keyOf[g]
      BY <1>4, <3>1
    <3> QED BY <3>2, <3>3, <3>4 DEF Waiting
  <2>6. NoLostCall'
    BY <2>4, <2>5 DEF NoLostCall
  <2>7. NoEarlyOutcome'
    BY <1>1, <1>3, <2>1 DEF NoEarlyOutcome
  <2> QED BY <1>4, <2>6, <2>7 DEF OneEntryPerCall, EveryEntryIsQueued
<1>5. CASE /\ Settle(c, "unknown_server", None)
           /\ UNCHANGED <<children, keyOf, proc, nextRpcId, pending, pendingOrder, timers, stdin>>
  BY <1>4, <1>5 DEF Codes, Exited
<1>6. ASSUME NEW h \in Handles, EnsureChild(k, h), SendRequest(c, h)
      PROVE  CallInv'
  <2>1. /\ keyOf'[h] = k /\ ~Exited(h)'
        /\ \A g \in Handles : /\ Exited(g)' => Exited(g)
                              /\ pending[g] # {} => keyOf'[g] = keyOf[g]
    <3>1. CASE children[k] = h /\ UNCHANGED <<children, keyOf, proc>>
      BY <3>1, NoneAssumption DEF CacheInv, CacheIsExact, Exited
    <3>2. CASE /\ proc[h] = "unborn" /\ keyOf' = [keyOf EXCEPT ![h] = k]
               /\ \E p \in {"failed", "alive"} : proc' = [proc EXCEPT ![h] = p]
      <4>1. keyOf'[h] = k /\ \A g \in Handles \ {h} : keyOf'[g] = keyOf[g]
        BY <1>1, <3>2 DEF TypeOK
      <4>2. ~Exited(h)' /\ \A g \in Handles : Exited(g)' => Exited(g)
        BY <1>1, <3>2 DEF TypeOK, Exited
      <4>3. pending[h] = {}
        BY <1>2, <3>2 DEF CacheInv, UnbornHasNoKey, NoLostCall, Waiting
      <4> QED BY <4>1, <4>2, <4>3
    <3> QED BY <1>6, <3>1, <3>2 DEF EnsureChild
  <2>2. CASE UNCHANGED <<pending, pendingOrder>> /\ Settle(c, "child_exit", None)
    BY <1>4, <2>1, <2>2 DEF Codes
  <2>3. ASSUME NEW r \in Entries, r.id = nextRpcId[h], r.call = c, UNCHANGED outcome,
               pendingOrder' = [pendingOrder EXCEPT ![h] = Append(@, nextRpcId[h])],
               pending' = [pending EXCEPT ![h] = @ \union {r}]
        PROVE  CallInv'
    <3>1. /\ pending'[h] = pending[h] \union {r}
          /\ \A g \in Handles \ {h} : pending'[g] = pending[g]
      BY <1>1, <2>3 DEF TypeOK
    <3>2. \A x \in Calls \ {c} : Waiting(x)' <=> Waiting(x)
      BY <1>3, <2>3 DEF Waiting
    <3>3. NoLostCall'
      <4>1. Waiting(c)'
        BY <1>1, <1>3, <2>3 DEF Waiting, NoEarlyOutcome
      <4>2. ASSUME NEW x \in Calls, Waiting(x)'
            PROVE  \E g \in Handles : ~Exited(g)' /\ \E f \in pending'[g] : f.call = x
        <5>1. CASE x = c
          BY <2>1, <2>3, <3>1, <5>1
        <5>2. CASE x # c
          <6>1. PICK g \in Handles : ~Exited(g) /\ \E f \in pending[g] : f.call = x
            BY <3>2, <4>2, <5>2 DEF NoLostCall
          <6>2. pending[g] \subseteq pending'[g]
            BY <3>1
          <6>3. proc'[g] # "exited"
            BY <2>1, <6>1 DEF Exited
          <6> QED BY <6>1, <6>2, <6>3 DEF Exited
        <5> QED BY <5>1, <5>2
      <4>3. ASSUME NEW g \in Handles, NEW f \in pending'[g]
            PROVE  Waiting(f.call)' /\ keyOf'[g] = target'[f.call]
        <5>1. CASE g = h /\ f = r
          BY <1>3, <2>1, <2>3, <4>1, <5>1
        <5>2. CASE ~ (g = h /\ f = r)
          <6>1. f \in pending[g]
            BY <3>1, <5>2
          <6>2. f.call \in Calls \ {c} /\ Waiting(f.call) /\ keyOf[g] = target[f.call]
            BY <1>2, <6>1 DEF NoLostCall
          <6>3. outcome'[f.call] = outcome[f.call] /\ target'[f.call] = target[f.call]
            BY <1>3, <2>3, <6>2
          <6>4. keyOf'[g] = keyOf[g]
            BY <2>1, <6>1
          <6> QED BY <6>2, <6>3, <6>4 DEF Waiting
        <5> QED BY <5>1, <5>2
      <4> QED BY <4>2, <4>3 DEF NoLostCall
    <3>4. OneEntryPerCall'
      <4>1. ASSUME NEW g \in Handles, NEW i \in Handles, NEW f \in pending'[g],
                   NEW e \in pending'[i], f.call = e.call
            PROVE  g = i /\ f = e
        <5>1. f \in pending[g] \/ (g = h /\ f = r)
          BY <3>1
        <5>2. e \in pending[i] \/ (i = h /\ e = r)
          BY <3>1
        <5> QED BY <1>2, <2>3, <4>1, <5>1, <5>2 DEF OneEntryPerCall
      <4> QED BY <4>1 DEF OneEntryPerCall
    <3>5. EveryEntryIsQueued'
      <4>1. pendingOrder'[h] = Append(pendingOrder[h], r.id) /\ pendingOrder[h] \in Seq(Nat)
        BY <1>1, <2>3 DEF TypeOK
      <4>2. r.id \in ToSet(pendingOrder'[h]) /\ ToSet(pendingOrder[h]) \subseteq ToSet(pendingOrder'[h])
        <5>1. r.id \in Nat
          BY DEF Entries
        <5> DEFINE q == pendingOrder[h]
        <5>2. /\ DOMAIN pendingOrder'[h] = 1..(Len(q) + 1) /\ DOMAIN q = 1..Len(q)
              /\ pendingOrder'[h][Len(q) + 1] = r.id
              /\ \A i \in 1..Len(q) : pendingOrder'[h][i] = q[i]
              /\ Len(q) \in Nat
          BY <4>1, <5>1, AppendProperties, LenProperties
        <5> HIDE DEF q
        <5> QED BY <5>2 DEF ToSet, q
      <4>3. \A g \in Handles \ {h} : pendingOrder'[g] = pendingOrder[g]
        BY <1>1, <2>3 DEF TypeOK
      <4> QED BY <3>1, <4>2, <4>3 DEF EveryEntryIsQueued
    <3>6. NoEarlyOutcome'
      BY <1>3, <1>1, <2>3, NoneAssumption DEF NoEarlyOutcome
    <3> QED BY <3>3, <3>4, <3>5, <3>6
  <2> QED BY <1>1, <1>6, <2>2, <2>3, SendRequestFacts
<1> QED BY <1>5, <1>6 DEF Submit

\* The "exit" event settles every call that was waiting on the handle.
LEMMA ExitEventStep ==
    ASSUME BridgeInv, NEW h \in Handles, ExitEvent(h)
    PROVE  CallInv'
<1> USE DEF BridgeInv, CallInv
<1>1. TypeOK /\ Doomed(h) = pending[h]
  BY DEF CacheInv, Doomed, EveryEntryIsQueued
<1>2. /\ pending'[h] = {} /\ \A g \in Handles \ {h} : pending'[g] = pending[g]
      /\ \A g \in Handles \ {h} : pendingOrder'[g] = pendingOrder[g]
      /\ \A g \in Handles \ {h} : proc'[g] = proc[g]
      /\ UNCHANGED <<keyOf, target>>
  BY <1>1 DEF TypeOK, ExitEvent
<1>3. ASSUME NEW c \in Calls
      PROVE  \/ (\E e \in pending[h] : e.call = c) /\ outcome'[c] # None
             \/ ~ (\E e \in pending[h] : e.call = c) /\ outcome'[c] = outcome[c]
  <2>1. [code |-> "child_exit", of |-> None] # None
    BY OutcomeAssumption DEF Outcomes, Codes
  <2> QED BY <1>1, <2>1 DEF ExitEvent
<1>4. ASSUME NEW c \in Calls, Waiting(c)'
      PROVE  \E g \in Handles : ~Exited(g)' /\ \E f \in pending'[g] : f.call = c
  <2>1. ~ (\E e \in pending[h] : e.call = c) /\ Waiting(c)
    BY <1>2, <1>3, <1>4 DEF Waiting
  <2>2. PICK g \in Handles : ~Exited(g) /\ \E f \in pending[g] : f.call = c
    BY <2>1 DEF NoLostCall
  <2>3. g # h
    BY <2>1, <2>2
  <2> QED BY <1>2, <2>2, <2>3 DEF Exited
<1>5. ASSUME NEW g \in Handles, NEW f \in pending'[g]
      PROVE  Waiting(f.call)' /\ keyOf'[g] = target'[f.call]
  <2>1. g # h /\ f \in pending[g] /\ f.call \in Calls
    BY <1>1, <1>2 DEF TypeOK, Entries
  <2>2. Waiting(f.call) /\ keyOf[g] = target[f.call]
    BY <2>1 DEF NoLostCall
  <2>3. outcome'[f.call] = outcome[f.call]
    BY <1>3, <2>1 DEF OneEntryPerCall
  <2> QED BY <1>2, <2>2, <2>3 DEF Waiting
<1>6. NoLostCall'
  BY <1>4, <1>5 DEF NoLostCall
<1>7. OneEntryPerCall' /\ EveryEntryIsQueued'
  BY <1>2 DEF OneEntryPerCall, EveryEntryIsQueued
<1>8. NoEarlyOutcome'
  BY <1>2, <1>3 DEF NoEarlyOutcome, NoLostCall, Waiting
<1> QED BY <1>6, <1>7, <1>8

\* Every step keeps the invariant of the calls.
LEMMA CallStep == BridgeInv /\ [Next]_bridgeVars => CallInv'
<1> SUFFICES ASSUME BridgeInv, [Next]_bridgeVars PROVE CallInv'
  OBVIOUS
<1> USE DEF BridgeInv
<1>1. ASSUME UNCHANGED <<keyOf, pending, pendingOrder, target, outcome>>,
             \A h \in Handles : Exited(h)' => Exited(h)
      PROVE  CallInv'
  <2>1. ASSUME NEW c \in Calls, Waiting(c)'
        PROVE  \E g \in Handles : ~Exited(g)' /\ \E f \in pending'[g] : f.call = c
    <3>1. PICK g \in Handles : ~Exited(g) /\ \E f \in pending[g] : f.call = c
      BY <1>1, <2>1 DEF CallInv, NoLostCall, Waiting
    <3>2. proc'[g] # "exited"
      BY <1>1, <3>1 DEF Exited
    <3> QED BY <1>1, <3>1, <3>2 DEF Exited
  <2>2. NoLostCall'
    BY <1>1, <2>1 DEF CallInv, NoLostCall, Waiting
  <2> QED BY <1>1, <2>2
          DEF CallInv, OneEntryPerCall, EveryEntryIsQueued, NoEarlyOutcome
<1>2. ASSUME NEW h \in Handles, HandleStdoutLine(h) PROVE CallInv'
  <2> DEFINE line == Head(stdout[h])
  <2>1. UNCHANGED <<proc, keyOf, target>>
    BY <1>2 DEF HandleStdoutLine
  <2>2. CASE UNCHANGED <<pending, pendingOrder, outcome>>
    BY <1>1, <2>1, <2>2 DEF Exited
  <2>3. CASE /\ pendingOrder[h] # <<>> /\ EntryAt(h, Head(pendingOrder[h])) = {}
             /\ pendingOrder' = [pendingOrder EXCEPT ![h] = Tail(@)]
             /\ UNCHANGED <<pending, outcome>>
    <3>1. /\ pendingOrder'[h] = Tail(pendingOrder[h]) /\ pendingOrder[h] \in Seq(Nat)
          /\ \A g \in Handles \ {h} : pendingOrder'[g] = pendingOrder[g]
      BY <2>3 DEF CacheInv, TypeOK
    <3>2. /\ Head(pendingOrder[h]) = pendingOrder[h][1]
          /\ \A i \in DOMAIN pendingOrder[h] : i # 1 =>
                i - 1 \in DOMAIN pendingOrder'[h] /\ pendingOrder'[h][i - 1] = pendingOrder[h][i]
      BY <2>3, <3>1, TailFacts
    <3>3. ASSUME NEW e \in pending[h] PROVE e.id \in ToSet(pendingOrder'[h])
      <4>1. PICK i \in DOMAIN pendingOrder[h] : e.id = pendingOrder[h][i]
        BY DEF CallInv, EveryEntryIsQueued, ToSet
      <4>2. i # 1
        BY <2>3, <3>2, <4>1 DEF EntryAt
      <4>3. i - 1 \in DOMAIN pendingOrder'[h] /\ pendingOrder'[h][i - 1] = e.id
        BY <3>2, <4>1, <4>2
      <4> QED BY <4>3 DEF ToSet
    <3>4. EveryEntryIsQueued'
      BY <2>3, <3>1, <3>3 DEF CallInv, EveryEntryIsQueued
    <3>5. NoLostCall' /\ OneEntryPerCall' /\ NoEarlyOutcome'
      BY <2>1, <2>3 DEF CallInv, NoLostCall, Waiting, Exited, OneEntryPerCall, NoEarlyOutcome
    <3> QED BY <3>4, <3>5 DEF CallInv
  <2>4. ASSUME NEW e \in EntryAt(h, Head(pendingOrder[h])),
               ResolveEntry(h, e, "parse_error", None)
        PROVE  CallInv'
    BY <2>1, <2>4, ResolveEntryStep DEF EntryAt, Codes
  <2>5. ASSUME NEW e \in EntryAt(h, line.id), line.kind \in ReplyKinds,
               ResolveEntry(h, e, ReplyCode(line.kind), line.of)
        PROVE  CallInv'
    <3>1. ReplyCode(line.kind) \in Codes
      BY <2>5 DEF ReplyCode, ReplyKinds, Codes
    <3>2. line.of \in Calls \union {None}
      <4>1. stdout[h] \in Seq(Lines) /\ stdout[h] # <<>>
        BY <1>2 DEF CacheInv, TypeOK, HandleStdoutLine
      <4>2. line \in Lines
        BY <4>1, HeadTailProperties
      <4> QED BY <4>2 DEF Lines
    <3> HIDE DEF line
    <3> QED BY <2>1, <2>5, <3>1, <3>2, ResolveEntryStep DEF EntryAt
  <2> QED BY <1>2, <2>2, <2>3, <2>4, <2>5 DEF HandleStdoutLine, ResolveOldestPending
<1>3. ASSUME NEW h \in Handles, NEW id \in Nat, Timeout(h, id) PROVE CallInv'
  <2>1. UNCHANGED <<proc, keyOf, target>>
    BY <1>3 DEF Timeout
  <2>2. CASE UNCHANGED <<pending, pendingOrder, outcome>>
    BY <1>1, <2>1, <2>2 DEF Exited
  <2>3. ASSUME NEW e \in EntryAt(h, id), ResolveEntry(h, e, "timeout", None) PROVE CallInv'
    BY <2>1, <2>3, ResolveEntryStep DEF EntryAt, Codes
  <2> QED BY <1>3, <2>2, <2>3 DEF Timeout
<1>4. ASSUME UNCHANGED <<keyOf, pending, pendingOrder, target, outcome>>,
             NEW h \in Handles, NEW p \in {"alive", "dead"}, proc' = [proc EXCEPT ![h] = p]
      PROVE  CallInv'
  BY <1>1, <1>4 DEF CacheInv, TypeOK, Exited
<1>5. CASE Next
  <2>1. \A t \in timers : t[1] \in Handles /\ t[2] \in Nat
    BY DEF CacheInv, TypeOK
  <2>2. ASSUME NEW h \in Handles, ChildReplies(h) \/ ChildPrints(h) PROVE CallInv'
    <3>1. UNCHANGED <<proc, keyOf, pending, pendingOrder, target, outcome>>
      BY <2>2 DEF ChildReplies, ChildPrints, WriteLine
    <3> QED BY <1>1, <3>1 DEF Exited
  <2>3. ASSUME NEW h \in Handles, ChildDies(h) PROVE CallInv'
    BY <1>4, <2>3 DEF ChildDies
  <2>4. ASSUME NEW d \in Closers, NEW s \in Sessions, CloseSession(d, s) PROVE CallInv'
    <3>1. UNCHANGED <<proc, keyOf, pending, pendingOrder, target, outcome>>
      BY <2>4 DEF CloseSession
    <3> QED BY <1>1, <3>1 DEF Exited
  <2>5. ASSUME NEW d \in Closers, NEW h \in Handles, SigKill(d, h) PROVE CallInv'
    <3>1. UNCHANGED <<keyOf, pending, pendingOrder, target, outcome>>
      BY <2>5 DEF SigKill
    <3>2. CASE proc' = proc
      BY <1>1, <3>1, <3>2 DEF Exited
    <3>3. CASE proc' = [proc EXCEPT ![h] = "dead"]
      BY <1>4, <3>1, <3>3
    <3> QED BY <2>5, <3>2, <3>3 DEF SigKill
  <2> QED BY <1>5, <1>2, <1>3, <2>1, <2>2, <2>3, <2>4, <2>5, SubmitStep, ExitEventStep
          DEF Next, Call, ListTools
<1>6. CASE UNCHANGED bridgeVars
  <2>1. UNCHANGED <<proc, keyOf, pending, pendingOrder, target, outcome>>
    BY <1>6 DEF bridgeVars
  <2> QED BY <1>1, <2>1 DEF Exited
<1> QED BY <1>5, <1>6

\* The invariant of the cache, the requests and the calls together.
LEMMA BridgeInvariant == Spec => []BridgeInv
<1>1. Init => BridgeInv /\ ReplyIsOwn
  BY TypeInit, NoneAssumption, EmptySeq, LenProperties
     DEF Init, BridgeInv, CacheInv, CacheIsExact, UnbornHasNoKey, RequestInv, IdsAreUnique,
         RepliesAnswerRequests, ReplyIsOwn, CallInv, NoLostCall, Waiting, OneEntryPerCall,
         EveryEntryIsQueued, NoEarlyOutcome
<1>2. BridgeInv /\ ReplyIsOwn /\ [Next]_bridgeVars => (BridgeInv /\ ReplyIsOwn)'
  BY CacheStep, RequestStep, CallStep DEF BridgeInv
<1> QED BY <1>1, <1>2, PTL DEF Spec

\* In every reachable state every unresolved call has an entry on a handle of
\* its key that has not exited, and every entry belongs to an unresolved call.
THEOREM CallsAreKept == Spec => []NoLostCall
<1>1. BridgeInv => NoLostCall
  BY DEF BridgeInv, CallInv
<1> QED BY <1>1, BridgeInvariant, PTL

-----------------------------------------------------------------------------
(* A result is final.                                                      *)

\* Settling a call that has no result takes no result back.
LEMMA SettleKeepsResults ==
    ASSUME TypeOK, NEW c \in Calls, NEW code, NEW of, Settle(c, code, of), outcome[c] = None,
           NEW x \in Calls, outcome[x] # None
    PROVE  outcome'[x] = outcome[x]
BY DEF TypeOK, Settle

\* No step changes a result: what it settles is a call that is made in this
\* step or one with an entry, and neither has a result.
LEMMA ResultsStep ==
    ASSUME BridgeInv, [Next]_bridgeVars, NEW x \in Calls, outcome[x] # None
    PROVE  outcome'[x] = outcome[x]
<1>1. TypeOK
  BY DEF BridgeInv, CacheInv
<1>2. \A h \in Handles : \A e \in pending[h] : e.call \in Calls /\ outcome[e.call] = None
  BY <1>1 DEF BridgeInv, CallInv, NoLostCall, Waiting, TypeOK, Entries
<1>3. ASSUME NEW h \in Handles, NEW e \in pending[h], NEW code, NEW of,
             ResolveEntry(h, e, code, of)
      PROVE  outcome'[x] = outcome[x]
  BY <1>1, <1>2, <1>3, SettleKeepsResults DEF ResolveEntry
<1>4. ASSUME NEW c \in Calls, NEW k \in Keys, Submit(c, k)
      PROVE  outcome'[x] = outcome[x]
  <2>1. outcome[c] = None
    BY <1>4 DEF BridgeInv, CallInv, NoEarlyOutcome, Submit
  <2>2. \/ UNCHANGED outcome
        \/ \E code \in Codes : Settle(c, code, None)
    BY <1>4 DEF Submit, SendRequest, Codes
  <2> QED BY <1>1, <2>1, <2>2, SettleKeepsResults
<1>5. ASSUME NEW h \in Handles, HandleStdoutLine(h)
      PROVE  outcome'[x] = outcome[x]
  BY <1>3, <1>5 DEF HandleStdoutLine, ResolveOldestPending, EntryAt
<1>6. ASSUME NEW h \in Handles, NEW id, Timeout(h, id)
      PROVE  outcome'[x] = outcome[x]
  BY <1>3, <1>6 DEF Timeout, EntryAt
<1>7. ASSUME NEW h \in Handles, ExitEvent(h)
      PROVE  outcome'[x] = outcome[x]
  <2>1. ~ \E e \in Doomed(h) : e.call = x
    BY <1>2 DEF Doomed
  <2> QED BY <1>7, <2>1 DEF ExitEvent
<1>8. ASSUME NEW h \in Handles, ChildReplies(h) \/ ChildPrints(h) \/ ChildDies(h)
      PROVE  outcome'[x] = outcome[x]
  BY <1>8 DEF ChildReplies, ChildPrints, ChildDies, WriteLine
<1>9. ASSUME NEW d \in Closers, NEW s \in Sessions, CloseSession(d, s)
      PROVE  outcome'[x] = outcome[x]
  BY <1>9 DEF CloseSession
<1>10. ASSUME NEW d \in Closers, NEW h \in Handles, SigKill(d, h)
       PROVE  outcome'[x] = outcome[x]
  BY <1>10 DEF SigKill
<1>11. \A t \in timers : t[1] \in Handles
  BY <1>1 DEF TypeOK
<1>12. CASE Next
  BY <1>4, <1>5, <1>6, <1>7, <1>8, <1>9, <1>10, <1>11, <1>12 DEF Next, Call, ListTools
<1>13. CASE UNCHANGED bridgeVars
  BY <1>13 DEF bridgeVars
<1> QED BY <1>12, <1>13

\* A call is settled once: no later line, timer or exit changes its result.
THEOREM ResultsAreFinal == Spec => SettledOnce
<1>1. BridgeInv /\ [Next]_bridgeVars =>
         [\A c \in Calls : outcome[c] # None => outcome'[c] = outcome[c]]_bridgeVars
  BY ResultsStep
<1> QED BY <1>1, BridgeInvariant, PTL DEF Spec, SettledOnce

-----------------------------------------------------------------------------
(* The queue of ids is ascending, so its head is the oldest request.       *)

Ascending(s) == \A i, j \in DOMAIN s : i < j => s[i] < s[j]

QueueIsAscending ==
    \A h \in Handles :
       /\ Ascending(pendingOrder[h])
       /\ \A i \in DOMAIN pendingOrder[h] : pendingOrder[h][i] < nextRpcId[h]

\* Taking one position out of an ascending queue leaves it ascending.
LEMMA RemoveAtOrder ==
    ASSUME NEW s \in Seq(Nat), NEW i \in 1..Len(s), Ascending(s)
    PROVE  /\ Ascending(RemoveAt(s, i))
           /\ \A n : (\A j \in DOMAIN s : s[j] < n) =>
                 \A j \in DOMAIN RemoveAt(s, i) : RemoveAt(s, i)[j] < n
<1> DEFINE p == SubSeq(s, 1, i-1)
           q == SubSeq(s, i+1, Len(s))
           r == p \o q
<1>1. p \in Seq(Nat) /\ Len(p) = i-1 /\ \A j \in 1..(i-1) : p[j] = s[j]
  BY SubSeqProperties, LenProperties, ElementOfSeq
<1>2. q \in Seq(Nat) /\ Len(q) = Len(s) - i /\ \A j \in 1..(Len(s)-i) : q[j] = s[i+j]
  BY SubSeqProperties, LenProperties, ElementOfSeq
<1>3. RemoveAt(s, i) = r
  BY DEF RemoveAt
<1> HIDE DEF p, q
<1>4. /\ r \in Seq(Nat)
      /\ Len(r) = Len(p) + Len(q)
      /\ \A j \in 1..(Len(p) + Len(q)) : r[j] = IF j <= Len(p) THEN p[j] ELSE q[j - Len(p)]
  BY <1>1, <1>2, ConcatProperties
<1> HIDE DEF r
<1>5. DOMAIN s = 1..Len(s) /\ Len(s) \in Nat /\ i \in Nat
  BY LenProperties
<1>6. DOMAIN r = 1..(Len(s) - 1)
  BY <1>1, <1>2, <1>4, <1>5, LenProperties
<1>7. ASSUME NEW j \in 1..(Len(s) - 1)
      PROVE  r[j] = s[IF j < i THEN j ELSE j + 1]
  <2>1. CASE j < i
    <3>1. j \in 1..(Len(p) + Len(q)) /\ j <= Len(p) /\ j \in 1..(i - 1)
      BY <1>1, <1>2, <1>5, <2>1
    <3>2. r[j] = p[j]
      BY <1>4, <3>1
    <3>3. p[j] = s[j]
      BY <1>1, <3>1
    <3> QED BY <2>1, <3>2, <3>3
  <2>2. CASE ~ (j < i)
    <3>1. /\ j \in 1..(Len(p) + Len(q)) /\ ~ (j <= Len(p)) /\ j - Len(p) = j - i + 1
          /\ j - i + 1 \in 1..(Len(s) - i) /\ i + (j - i + 1) = j + 1
      BY <1>1, <1>2, <1>5, <2>2
    <3>2. r[j] = q[j - i + 1]
      BY <1>4, <3>1
    <3>3. q[j - i + 1] = s[i + (j - i + 1)]
      BY <1>2, <3>1
    <3>4. q[j - i + 1] = s[j + 1]
      BY <3>1, <3>3
    <3> QED BY <2>2, <3>2, <3>4
  <2> QED BY <2>1, <2>2
<1>8. \A j \in 1..(Len(s) - 1) : (IF j < i THEN j ELSE j + 1) \in DOMAIN s
  BY <1>5
<1>9. Ascending(r)
  <2> SUFFICES ASSUME NEW j \in 1..(Len(s) - 1), NEW k \in 1..(Len(s) - 1), j < k
               PROVE  r[j] < r[k]
    BY <1>6 DEF Ascending
  <2> DEFINE at(x) == IF x < i THEN x ELSE x + 1
  <2>1. at(j) \in DOMAIN s /\ at(k) \in DOMAIN s
    BY <1>8
  <2>2. at(j) < at(k)
    BY <1>5
  <2>3. s[at(j)] < s[at(k)]
    <3> HIDE DEF at
    <3> QED BY <2>1, <2>2 DEF Ascending
  <2>4. r[j] = s[at(j)] /\ r[k] = s[at(k)]
    BY <1>7
  <2> HIDE DEF at
  <2> QED BY <2>3, <2>4
<1>10. \A n : (\A j \in DOMAIN s : s[j] < n) => \A j \in DOMAIN r : r[j] < n
  BY <1>6, <1>7, <1>8
<1> QED BY <1>3, <1>9, <1>10

\* So does RemoveFirst.
LEMMA RemoveFirstOrder ==
    ASSUME NEW s \in Seq(Nat), NEW e, Ascending(s)
    PROVE  /\ Ascending(RemoveFirst(s, e))
           /\ \A n : (\A j \in DOMAIN s : s[j] < n) =>
                 \A j \in DOMAIN RemoveFirst(s, e) : RemoveFirst(s, e)[j] < n
<1> DEFINE I == {i \in 1..Len(s) : s[i] = e}
<1>1. CASE I = {}
  BY <1>1 DEF RemoveFirst
<1>2. CASE I # {}
  <2> DEFINE m == SelectInSeq(s, LAMBDA v : v = e)
  <2>1. m \in I
    <3>1. PICK n \in I : \A k \in I : n <= k
      <4>1. I \in SUBSET Nat
        OBVIOUS
      <4> HIDE DEF I
      <4> QED BY <4>1, <1>2, LeastElement
    <3> QED BY <3>1, <1>2 DEF SelectInSeq, Min
  <2>2. RemoveFirst(s, e) = RemoveAt(s, m)
    BY <1>2 DEF RemoveFirst
  <2> HIDE DEF m
  <2> QED BY <2>1, <2>2, RemoveAtOrder
<1> QED BY <1>1, <1>2

\* The head of an ascending queue is its least id, and the rest is ascending.
LEMMA HeadIsOldest ==
    ASSUME NEW s \in Seq(Nat), s # <<>>, Ascending(s)
    PROVE  /\ \A i \in DOMAIN s : Head(s) <= s[i]
           /\ Ascending(Tail(s))
           /\ \A n : (\A j \in DOMAIN s : s[j] < n) => \A j \in DOMAIN Tail(s) : Tail(s)[j] < n
<1>1. DOMAIN s = 1..Len(s) /\ Len(s) \in Nat /\ Len(s) # 0
  BY LenProperties, EmptySeq
<1>2. /\ Head(s) = s[1] /\ Tail(s) \in Seq(Nat) /\ Len(Tail(s)) = Len(s) - 1
      /\ \A i \in 1..Len(Tail(s)) : Tail(s)[i] = s[i + 1]
  BY HeadTailProperties
<1>3. DOMAIN Tail(s) = 1..(Len(s) - 1)
  BY <1>2, LenProperties
<1>4. \A i \in DOMAIN s : s[i] \in Nat
  BY <1>1, ElementOfSeq
<1>5. \A i \in DOMAIN s : Head(s) <= s[i]
  BY <1>1, <1>2, <1>4 DEF Ascending
<1>6. \A i \in DOMAIN Tail(s) : i + 1 \in DOMAIN s /\ Tail(s)[i] = s[i + 1]
  BY <1>1, <1>2, <1>3
<1>7. Ascending(Tail(s))
  BY <1>1, <1>3, <1>6 DEF Ascending
<1> QED BY <1>5, <1>6, <1>7

\* An id taken from the counter goes to the end of the queue.
LEMMA AppendOrder ==
    ASSUME NEW s \in Seq(Nat), NEW id \in Nat, Ascending(s), \A j \in DOMAIN s : s[j] < id
    PROVE  Ascending(Append(s, id)) /\ \A j \in DOMAIN Append(s, id) : Append(s, id)[j] < id + 1
<1>1. /\ DOMAIN Append(s, id) = 1..(Len(s) + 1) /\ DOMAIN s = 1..Len(s)
      /\ Append(s, id)[Len(s) + 1] = id
      /\ \A i \in 1..Len(s) : Append(s, id)[i] = s[i] /\ s[i] \in Nat
      /\ Len(s) \in Nat
  BY AppendProperties, LenProperties, ElementOfSeq
<1> QED BY <1>1 DEF Ascending

\* Resolving an entry leaves its queue ascending.
LEMMA ResolveEntryOrder ==
    ASSUME TypeOK, QueueIsAscending, NEW h \in Handles, NEW e, NEW code, NEW of,
           ResolveEntry(h, e, code, of), UNCHANGED nextRpcId
    PROVE  QueueIsAscending'
<1>1. /\ pendingOrder'[h] = RemoveFirst(pendingOrder[h], e.id) /\ pendingOrder[h] \in Seq(Nat)
      /\ \A g \in Handles \ {h} : pendingOrder'[g] = pendingOrder[g]
  BY DEF TypeOK, ResolveEntry
<1>2. Ascending(pendingOrder[h]) /\ \A i \in DOMAIN pendingOrder[h] : pendingOrder[h][i] < nextRpcId[h]
  BY DEF QueueIsAscending
<1>3. Ascending(pendingOrder'[h]) /\ \A i \in DOMAIN pendingOrder'[h] : pendingOrder'[h][i] < nextRpcId[h]
  BY <1>1, <1>2, RemoveFirstOrder
<1>4. \A g \in Handles \ {h} : /\ Ascending(pendingOrder'[g])
                               /\ \A i \in DOMAIN pendingOrder'[g] : pendingOrder'[g][i] < nextRpcId[g]
  BY <1>1 DEF QueueIsAscending
<1> QED BY <1>3, <1>4 DEF QueueIsAscending, Ascending

\* A request takes the next id.
LEMMA SendRequestOrder ==
    ASSUME TypeOK, QueueIsAscending, NEW c \in Calls, NEW h \in Handles, SendRequest(c, h)
    PROVE  QueueIsAscending'
<1> DEFINE n == nextRpcId[h]
           q == pendingOrder[h]
<1>1. n \in Nat /\ q \in Seq(Nat) /\ Ascending(q) /\ \A i \in DOMAIN q : q[i] < n
  BY DEF TypeOK, QueueIsAscending
<1>2. nextRpcId'[h] = n + 1 /\ \A g \in Handles \ {h} : nextRpcId'[g] = nextRpcId[g]
  BY DEF TypeOK, SendRequest
<1>3. /\ \A g \in Handles \ {h} : pendingOrder'[g] = pendingOrder[g]
      /\ pendingOrder'[h] = q \/ pendingOrder'[h] = Append(q, n)
  BY DEF TypeOK, SendRequest
<1>4. \A i \in DOMAIN q : q[i] \in Nat
  BY <1>1, ElementOfSeq
<1> HIDE DEF n, q
<1>5. Ascending(pendingOrder'[h]) /\ \A i \in DOMAIN pendingOrder'[h] : pendingOrder'[h][i] < n + 1
  <2>1. CASE pendingOrder'[h] = q
    <3>1. \A i \in DOMAIN q : q[i] < n + 1
      BY <1>1, <1>4
    <3> QED BY <1>1, <2>1, <3>1
  <2>2. CASE pendingOrder'[h] = Append(q, n)
    BY <1>1, <2>2, AppendOrder
  <2> QED BY <1>3, <2>1, <2>2
<1>6. \A g \in Handles \ {h} : /\ Ascending(pendingOrder'[g])
                               /\ \A i \in DOMAIN pendingOrder'[g] : pendingOrder'[g][i] < nextRpcId'[g]
  BY <1>2, <1>3 DEF QueueIsAscending
<1> QED BY <1>2, <1>5, <1>6 DEF QueueIsAscending, Ascending

\* A line charged to the oldest request leaves the queue ascending.
LEMMA ResolveOldestOrder ==
    ASSUME TypeOK, QueueIsAscending, NEW h \in Handles, NEW code,
           ResolveOldestPending(h, code), UNCHANGED nextRpcId
    PROVE  QueueIsAscending'
<1>1. CASE UNCHANGED pendingOrder
  BY <1>1 DEF QueueIsAscending, Ascending
<1>2. CASE pendingOrder[h] # <<>> /\ pendingOrder' = [pendingOrder EXCEPT ![h] = Tail(@)]
  <2>1. /\ pendingOrder'[h] = Tail(pendingOrder[h]) /\ pendingOrder[h] \in Seq(Nat)
        /\ \A g \in Handles \ {h} : pendingOrder'[g] = pendingOrder[g]
    BY <1>2 DEF TypeOK
  <2>2. Ascending(pendingOrder[h]) /\ \A i \in DOMAIN pendingOrder[h] : pendingOrder[h][i] < nextRpcId[h]
    BY DEF QueueIsAscending
  <2>3. Ascending(pendingOrder'[h]) /\ \A i \in DOMAIN pendingOrder'[h] : pendingOrder'[h][i] < nextRpcId[h]
    BY <1>2, <2>1, <2>2, HeadIsOldest
  <2>4. \A g \in Handles \ {h} : /\ Ascending(pendingOrder'[g])
                                 /\ \A i \in DOMAIN pendingOrder'[g] : pendingOrder'[g][i] < nextRpcId[g]
    BY <2>1 DEF QueueIsAscending
  <2> QED BY <2>3, <2>4 DEF QueueIsAscending, Ascending
<1>3. ASSUME NEW e, ResolveEntry(h, e, code, None) PROVE QueueIsAscending'
  BY <1>3, ResolveEntryOrder
<1> QED BY <1>1, <1>2, <1>3 DEF ResolveOldestPending

\* Every step leaves the queues ascending.
LEMMA OrderStep == TypeOK /\ QueueIsAscending /\ [Next]_bridgeVars => QueueIsAscending'
<1> SUFFICES ASSUME TypeOK, QueueIsAscending, [Next]_bridgeVars PROVE QueueIsAscending'
  OBVIOUS
<1>1. ASSUME UNCHANGED <<nextRpcId, pendingOrder>> PROVE QueueIsAscending'
  BY <1>1 DEF QueueIsAscending, Ascending
<1>2. ASSUME NEW c \in Calls, NEW k \in Keys, Submit(c, k) PROVE QueueIsAscending'
  <2>1. CASE UNCHANGED <<nextRpcId, pendingOrder>>
    BY <1>1, <2>1
  <2>2. ASSUME NEW h \in Handles, SendRequest(c, h) PROVE QueueIsAscending'
    BY <2>2, SendRequestOrder
  <2> QED BY <1>2, <2>1, <2>2 DEF Submit
<1>3. ASSUME NEW h \in Handles, HandleStdoutLine(h) PROVE QueueIsAscending'
  <2>1. UNCHANGED nextRpcId
    BY <1>3 DEF HandleStdoutLine
  <2>2. CASE ResolveOldestPending(h, "parse_error")
    BY <2>1, <2>2, ResolveOldestOrder
  <2>3. CASE UNCHANGED pendingOrder
    BY <1>1, <2>1, <2>3
  <2>4. ASSUME NEW e, NEW code, NEW of, ResolveEntry(h, e, code, of) PROVE QueueIsAscending'
    BY <2>1, <2>4, ResolveEntryOrder
  <2> QED BY <1>3, <2>2, <2>3, <2>4 DEF HandleStdoutLine
<1>4. ASSUME NEW t \in timers, Timeout(t[1], t[2]) PROVE QueueIsAscending'
  <2>1. t[1] \in Handles /\ UNCHANGED nextRpcId
    BY <1>4 DEF TypeOK, Timeout
  <2>2. CASE UNCHANGED pendingOrder
    BY <1>1, <2>1, <2>2
  <2>3. ASSUME NEW e, ResolveEntry(t[1], e, "timeout", None) PROVE QueueIsAscending'
    BY <2>1, <2>3, ResolveEntryOrder
  <2> QED BY <1>4, <2>2, <2>3 DEF Timeout
<1>5. ASSUME NEW h \in Handles, ExitEvent(h) PROVE QueueIsAscending'
  <2>1. /\ pendingOrder'[h] = <<>> /\ UNCHANGED nextRpcId
        /\ \A g \in Handles \ {h} : pendingOrder'[g] = pendingOrder[g]
    BY <1>5 DEF TypeOK, ExitEvent
  <2>2. DOMAIN pendingOrder'[h] = {}
    BY <2>1, EmptySeq
  <2> QED BY <2>1, <2>2 DEF QueueIsAscending, Ascending
<1>6. ASSUME NEW h \in Handles, ChildReplies(h) \/ ChildPrints(h) \/ ChildDies(h)
      PROVE  QueueIsAscending'
  BY <1>1, <1>6 DEF ChildReplies, ChildPrints, ChildDies, WriteLine
<1>7. ASSUME NEW d \in Closers, NEW s \in Sessions, CloseSession(d, s) PROVE QueueIsAscending'
  BY <1>1, <1>7 DEF CloseSession
<1>8. ASSUME NEW d \in Closers, NEW h \in Handles, SigKill(d, h) PROVE QueueIsAscending'
  BY <1>1, <1>8 DEF SigKill
<1>9. CASE UNCHANGED bridgeVars
  BY <1>1, <1>9 DEF bridgeVars
<1> QED
  BY <1>2, <1>3, <1>4, <1>5, <1>6, <1>7, <1>8, <1>9 DEF Next, Call, ListTools

\* A call that becomes a parse error was the oldest of its child, whose next line
\* was not JSON.
LEMMA BlameStep ==
    ASSUME BridgeInv, QueueIsAscending, [Next]_bridgeVars, NEW c \in Calls,
           outcome[c] = None, outcome'[c] = [code |-> "parse_error", of |-> None]
    PROVE  \E h \in Handles : \E e \in pending[h] :
              /\ e.call = c
              /\ \A f \in pending[h] : e.id <= f.id
              /\ stdout[h] # <<>> /\ Head(stdout[h]).kind = "garbage"
<1>1. TypeOK
  BY DEF BridgeInv, CacheInv
<1>2. outcome'[c] # outcome[c]
  BY OutcomeAssumption DEF Outcomes, Codes
<1>3. ASSUME NEW x, NEW code, NEW of, Settle(x, code, of) PROVE x = c /\ code = "parse_error"
  <2>1. outcome' = [outcome EXCEPT ![x] = [code |-> code, of |-> of]]
    BY <1>3 DEF Settle
  <2>2. x = c
    BY <1>1, <1>2, <2>1 DEF TypeOK
  <2>3. outcome'[c] = [code |-> code, of |-> of]
    BY <1>1, <2>1, <2>2 DEF TypeOK
  <2>4. [code |-> code, of |-> of].code = [code |-> "parse_error", of |-> None].code
    BY <2>3
  <2> QED BY <2>2, <2>4
<1>4. ASSUME NEW d \in Calls, NEW k \in Keys, Submit(d, k) PROVE FALSE
  BY <1>2, <1>3, <1>4 DEF Submit, SendRequest
<1>5. ASSUME NEW t \in timers, Timeout(t[1], t[2]) PROVE FALSE
  BY <1>2, <1>3, <1>5 DEF Timeout, ResolveEntry
<1>6. ASSUME NEW h \in Handles, ExitEvent(h) PROVE FALSE
  <2>1. outcome'[c] = [code |-> "child_exit", of |-> None]
    BY <1>2, <1>6 DEF ExitEvent
  <2>2. outcome'[c].code = "child_exit"
    BY <2>1
  <2> QED BY <2>2
<1>7. ASSUME NEW h \in Handles, ChildReplies(h) \/ ChildPrints(h) \/ ChildDies(h) PROVE FALSE
  BY <1>2, <1>7 DEF ChildReplies, ChildPrints, ChildDies, WriteLine
<1>8. ASSUME NEW d \in Closers, NEW s \in Sessions, CloseSession(d, s) PROVE FALSE
  BY <1>2, <1>8 DEF CloseSession
<1>9. ASSUME NEW d \in Closers, NEW h \in Handles, SigKill(d, h) PROVE FALSE
  BY <1>2, <1>9 DEF SigKill
<1>10. ~ UNCHANGED bridgeVars
  BY <1>2 DEF bridgeVars
<1>11. PICK h \in Handles : HandleStdoutLine(h)
  BY <1>4, <1>5, <1>6, <1>7, <1>8, <1>9, <1>10 DEF Next, Call, ListTools
<1>12. ASSUME NEW e, NEW kind \in ReplyKinds, NEW of, ResolveEntry(h, e, ReplyCode(kind), of) PROVE FALSE
  <2>1. ReplyCode(kind) = "parse_error"
    BY <1>3, <1>12 DEF ResolveEntry
  <2>2. ReplyCode(kind) # "parse_error"
    BY DEF ReplyCode, ReplyKinds
  <2> QED BY <2>1, <2>2
<1>13. /\ stdout[h] # <<>> /\ Head(stdout[h]).kind = "garbage"
       /\ ResolveOldestPending(h, "parse_error")
  BY <1>2, <1>11, <1>12 DEF HandleStdoutLine
<1>14. PICK e \in EntryAt(h, Head(pendingOrder[h])) :
          pendingOrder[h] # <<>> /\ ResolveEntry(h, e, "parse_error", None)
  BY <1>2, <1>13 DEF ResolveOldestPending
<1>15. e \in pending[h] /\ e.id = Head(pendingOrder[h]) /\ e.call = c
  BY <1>3, <1>14 DEF EntryAt, ResolveEntry
<1>16. ASSUME NEW f \in pending[h] PROVE e.id <= f.id
  <2>1. pendingOrder[h] \in Seq(Nat) /\ Ascending(pendingOrder[h])
    BY <1>1 DEF TypeOK, QueueIsAscending
  <2>2. PICK i \in DOMAIN pendingOrder[h] : f.id = pendingOrder[h][i]
    BY DEF BridgeInv, CallInv, EveryEntryIsQueued, ToSet
  <2> QED BY <1>14, <1>15, <2>1, <2>2, HeadIsOldest
<1> QED BY <1>13, <1>15, <1>16

\* An unparseable line is charged to the oldest request in flight on its child.
THEOREM OldestIsBlamed == Spec => OldestTakesTheBlame
<1>1. Init => QueueIsAscending
  BY EmptySeq DEF Init, QueueIsAscending, Ascending
<1>2. BridgeInv => TypeOK
  BY DEF BridgeInv, CacheInv
<1>3. Spec => []QueueIsAscending
  BY <1>1, OrderStep, TypeCorrect, PTL DEF Spec
<1>4. BridgeInv /\ QueueIsAscending /\ [Next]_bridgeVars =>
         [\A c \in Calls :
             outcome[c] = None /\ outcome'[c] = [code |-> "parse_error", of |-> None] =>
                \E h \in Handles : \E e \in pending[h] :
                   /\ e.call = c
                   /\ \A f \in pending[h] : e.id <= f.id
                   /\ stdout[h] # <<>> /\ Head(stdout[h]).kind = "garbage"]_bridgeVars
  BY BlameStep
<1> QED BY <1>3, <1>4, BridgeInvariant, PTL DEF Spec, OldestTakesTheBlame

-----------------------------------------------------------------------------
(* closeSession keeps to its session.                                      *)

ScopeInv == CacheInv /\ CloseIsScoped

\* A handle that belongs to a key keeps it.
LEMMA KeysAreKept ==
    ASSUME CacheInv, [Next]_bridgeVars, NEW h \in Handles, keyOf[h] # None
    PROVE  keyOf'[h] = keyOf[h]
<1>1. ASSUME NEW k \in Keys, NEW g \in Handles, EnsureChild(k, g)
      PROVE  keyOf'[h] = keyOf[h]
  <2>1. CASE UNCHANGED keyOf
    BY <2>1
  <2>2. CASE proc[g] = "unborn" /\ keyOf' = [keyOf EXCEPT ![g] = k]
    <3>1. g # h
      BY <2>2 DEF CacheInv, UnbornHasNoKey
    <3> QED BY <2>2, <3>1 DEF CacheInv, TypeOK
  <2> QED BY <1>1, <2>1, <2>2 DEF EnsureChild
<1>2. ASSUME NEW c \in Calls, NEW k \in Keys, Submit(c, k)
      PROVE  keyOf'[h] = keyOf[h]
  BY <1>1, <1>2 DEF Submit
<1>3. CASE UNCHANGED keyOf
  BY <1>3
<1>4. CASE Next
  BY <1>2, <1>3, <1>4
     DEF Next, Call, ListTools, ChildReplies, ChildPrints, WriteLine, ChildDies,
         HandleStdoutLine, ExitEvent, Timeout, CloseSession, SigKill
<1> QED BY <1>3, <1>4 DEF bridgeVars

\* Only closeSession adds to what is awaited and will be killed, and what it
\* adds it found cached under its session.
LEMMA ScopeStep == ScopeInv /\ [Next]_bridgeVars => ScopeInv'
<1> SUFFICES ASSUME ScopeInv, [Next]_bridgeVars PROVE CloseIsScoped'
  BY CacheStep DEF ScopeInv
<1> USE DEF ScopeInv
<1>1. ASSUME UNCHANGED closeOf,
             \A d \in Closers : /\ awaited'[d] \subseteq awaited[d]
                                /\ killTimers'[d] \subseteq killTimers[d]
      PROVE  CloseIsScoped'
  <2>1. ASSUME NEW d \in Closers, NEW h \in awaited'[d] \union killTimers'[d]
        PROVE  keyOf'[h] # None /\ keyOf'[h][1] = closeOf'[d]
    <3>1. h \in awaited[d] \union killTimers[d] /\ h \in Handles
      BY <1>1 DEF CacheInv, TypeOK
    <3>2. keyOf[h] # None /\ keyOf[h][1] = closeOf[d]
      BY <3>1 DEF CloseIsScoped
    <3> QED BY <1>1, <3>1, <3>2, KeysAreKept
  <2> QED BY <2>1 DEF CloseIsScoped
<1>2. ASSUME NEW d \in Closers, NEW s \in Sessions, CloseSession(d, s)
      PROVE  CloseIsScoped'
  <2>1. ASSUME NEW h \in CachedOf(s)
        PROVE  keyOf[h] # None /\ keyOf[h][1] = s
    <3>1. PICK k \in Keys : k[1] = s /\ h = children[k] /\ h # None
      BY DEF CachedOf
    <3> QED BY <3>1, NoneAssumption DEF CacheInv, CacheIsExact, Keys
  <2>2. /\ closeOf'[d] = s /\ keyOf' = keyOf
        /\ awaited'[d] \subseteq CachedOf(s) /\ killTimers'[d] \subseteq CachedOf(s)
        /\ \A x \in Closers \ {d} : /\ closeOf'[x] = closeOf[x]
                                    /\ awaited'[x] = awaited[x]
                                    /\ killTimers'[x] = killTimers[x]
    BY <1>2 DEF CacheInv, TypeOK, CloseSession
  <2>3. ASSUME NEW x \in Closers, NEW h \in awaited'[x] \union killTimers'[x]
        PROVE  keyOf'[h] # None /\ keyOf'[h][1] = closeOf'[x]
    <3>1. CASE x = d
      BY <2>1, <2>2, <2>3, <3>1
    <3>2. CASE x # d
      BY <2>2, <2>3, <3>2 DEF CloseIsScoped
    <3> QED BY <3>1, <3>2
  <2> QED BY <2>3 DEF CloseIsScoped
<1>3. ASSUME NEW h \in Handles, ExitEvent(h)
      PROVE  CloseIsScoped'
  BY <1>1, <1>3 DEF ExitEvent
<1>4. ASSUME NEW d \in Closers, NEW h \in Handles, SigKill(d, h)
      PROVE  CloseIsScoped'
  <2>1. \A x \in Closers : killTimers'[x] \subseteq killTimers[x]
    BY <1>4 DEF CacheInv, TypeOK, SigKill
  <2> QED BY <1>1, <1>4, <2>1 DEF SigKill
<1>5. CASE UNCHANGED <<closeOf, awaited, killTimers>>
  BY <1>1, <1>5
<1>6. CASE Next
  BY <1>2, <1>3, <1>4, <1>5, <1>6
     DEF Next, Call, ListTools, Submit, ChildReplies, ChildPrints, WriteLine, ChildDies,
         HandleStdoutLine, Timeout
<1> QED BY <1>5, <1>6 DEF bridgeVars

\* closeSession waits for and kills children of its own session only.
THEOREM ClosesAreScoped == Spec => []CloseIsScoped
<1>1. Init => ScopeInv
  BY TypeInit, NoneAssumption
     DEF Init, ScopeInv, CacheInv, CacheIsExact, UnbornHasNoKey, CloseIsScoped
<1>2. ScopeInv => CloseIsScoped
  BY DEF ScopeInv
<1> QED BY <1>1, <1>2, ScopeStep, PTL DEF Spec
=============================================================================
