--------------------------- MODULE MandateFileProofs ---------------------------
(***************************************************************************)
(* Theorems about MandateFile, for all sets of mandates and calls.         *)
(***************************************************************************)
EXTENDS MandateFile, Integers, TLAPS

-----------------------------------------------------------------------------
(* Types.                                                                  *)

\* A call changes an entry into an entry.
LEMMA ChangedType ==
    ASSUME NEW c \in Calls, NEW kind \in Kinds \ {"get"}, NEW entry \in Entries \union {None},
           kind # "put" => entry \in Entries
    PROVE  Changed(c, kind, entry) \in Entries
BY DEF Kinds, Entries, Fresh, Changed

\* An absent file is a store in which no mandate was put.
LEMMA EmptyType == Empty \in Stores /\ \A m \in Mandates : Empty[m] = None
BY DEF Empty, Stores

-----------------------------------------------------------------------------
(* From the file to the cache.                                             *)

\* A call that has changed the cache and was not told that the change is safe.
Owes(c, kind, m, asked, stage) ==
    /\ c \in Calls
    /\ asked[c] = [kind |-> kind, id |-> m]
    /\ stage[c] \in {"flushing", "failed"}

Was(entry) == IF entry = None THEN Fresh ELSE entry

\* The store `old' becomes `new' by changes such calls have made.
Leads(old, new, asked, stage) ==
    \A m \in Mandates :
       \/ new[m] = old[m]
       \/ /\ new[m] # None
          /\ old[m] = None => \E c \in Calls : Owes(c, "put", m, asked, stage)
          /\ \/ new[m].usedBy = Was(old[m]).usedBy
             \/ /\ Was(old[m]).usedBy = None /\ Was(old[m]).revokedBy = None
                /\ Owes(new[m].usedBy, "use", m, asked, stage)
          /\ \/ new[m].revokedBy = Was(old[m]).revokedBy
             \/ /\ Was(old[m]).revokedBy = None
                /\ Owes(new[m].revokedBy, "revoke", m, asked, stage)

\* What the call c asked for is done in the store.
HasEffect(c, store, asked) ==
    \A m \in Mandates :
       /\ asked[c] = [kind |-> "put", id |-> m] => store[m] # None
       /\ asked[c] = [kind |-> "use", id |-> m] => store[m] # None /\ store[m].usedBy = c
       /\ asked[c] = [kind |-> "revoke", id |-> m] => store[m] # None /\ store[m].revokedBy = c

\* A store leads to itself.
LEMMA LeadsToItself ==
    ASSUME NEW store, NEW asked, NEW stage
    PROVE  Leads(store, store, asked, stage)
BY DEF Leads

\* Nothing done is undone on the way.
LEMMA EffectKept ==
    ASSUME NEW c \in Calls, NEW old \in Stores, NEW new \in Stores, NEW asked, NEW others, NEW stage,
           HasEffect(c, old, asked), Leads(old, new, others, stage)
    PROVE  HasEffect(c, new, asked)
BY UndefinedAssumption DEF HasEffect, Leads, Was

\* What an effect is depends on what its call asked for alone.
LEMMA EffectSame ==
    ASSUME NEW c \in Calls, NEW store, NEW asked, NEW asked2, asked2[c] = asked[c],
           HasEffect(c, store, asked)
    PROVE  HasEffect(c, store, asked2)
BY DEF HasEffect

\* Calls that owe a change owe it still.
StillOwed(asked, stage, asked2, stage2) ==
    \A c \in Calls, kind \in {"put", "use", "revoke"}, m \in Mandates :
       Owes(c, kind, m, asked, stage) => Owes(c, kind, m, asked2, stage2)

\* A store leads to another while the calls that owe a change owe it.
LEMMA LeadsStill ==
    ASSUME NEW old, NEW new, NEW asked, NEW stage, NEW asked2, NEW stage2,
           Leads(old, new, asked, stage), StillOwed(asked, stage, asked2, stage2)
    PROVE  Leads(old, new, asked2, stage2)
<1>1. \A c, kind, m : Owes(c, kind, m, asked, stage) => c \in Calls
  BY DEF Owes
<1> QED BY <1>1 DEF Leads, StillOwed

\* A change a call owes leads on.
LEMMA LeadsOn ==
    ASSUME NEW old \in Stores, NEW new \in Stores, NEW asked, NEW stage,
           Leads(old, new, asked, stage),
           NEW c \in Calls, NEW kind \in {"put", "use", "revoke"}, NEW m \in Mandates,
           Owes(c, kind, m, asked, stage),
           kind = "put" => new[m] = None,
           kind = "use" => new[m] # None /\ new[m].usedBy = None /\ new[m].revokedBy = None,
           kind = "revoke" => new[m] # None /\ new[m].revokedBy = None
    PROVE  Leads(old, [new EXCEPT ![m] = Changed(c, kind, @)], asked, stage)
<1> DEFINE next == [new EXCEPT ![m] = Changed(c, kind, @)]
<1>1. \A n \in Mandates : n # m => next[n] = new[n]
  BY DEF Stores
<1>2. next[m] = Changed(c, kind, new[m])
  BY DEF Stores
<1>3. \A e \in Entries : e = [usedBy |-> e.usedBy, revokedBy |-> e.revokedBy]
  BY DEF Entries
<1>4. new[m] \in Entries \union {None} /\ old[m] \in Entries \union {None}
  BY DEF Stores
<1>5. next[m] # None /\ (old[m] = None => \E d \in Calls : Owes(d, "put", m, asked, stage))
      /\ (\/ next[m].usedBy = Was(old[m]).usedBy
          \/ /\ Was(old[m]).usedBy = None /\ Was(old[m]).revokedBy = None
             /\ Owes(next[m].usedBy, "use", m, asked, stage))
      /\ (\/ next[m].revokedBy = Was(old[m]).revokedBy
          \/ /\ Was(old[m]).revokedBy = None
             /\ Owes(next[m].revokedBy, "revoke", m, asked, stage))
  <2>0. next[m] \in Entries
    BY <1>2, <1>4, ChangedType DEF Kinds
  <2>1. CASE kind = "put"
    <3>1. old[m] = None /\ next[m] = Fresh
      BY <2>1, <1>2 DEF Leads, Changed
    <3> QED BY <2>1, <3>1, <2>0, UndefinedAssumption DEF Was
  <2>2. CASE kind = "use"
    <3>1. next[m].usedBy = c /\ next[m].revokedBy = new[m].revokedBy
      BY <2>2, <1>2, <1>4 DEF Changed, Entries
    <3> QED BY <2>2, <3>1, <2>0, UndefinedAssumption DEF Leads, Was
  <2>3. CASE kind = "revoke"
    <3>1. next[m].revokedBy = c /\ next[m].usedBy = new[m].usedBy
      BY <2>3, <1>2, <1>4 DEF Changed, Entries
    <3> QED BY <2>3, <3>1, <2>0, UndefinedAssumption DEF Leads, Was
  <2> QED BY <2>1, <2>2, <2>3
<1> HIDE DEF next
<1>6. Leads(old, next, asked, stage)
  BY <1>1, <1>5 DEF Leads
<1> QED BY <1>6 DEF next

-----------------------------------------------------------------------------
(* The inductive invariant.                                                *)

\* A call that was made asks for something.
Asked == \A c \in Calls : phase[c] # "none" => request[c] \in Requests

\* The queue holds each call that waits for its flush at most once, and no other.
QueueIsFlushing ==
    /\ \A i \in 1..Len(queue) : phase[queue[i]] = "flushing"
    /\ \A i, j \in 1..Len(queue) : queue[i] = queue[j] => i = j

\* The running job is the head's, and what it renamed is the file.
JobIsHeads ==
    /\ payload # None => queue # <<>>
    /\ renamed => payload # None /\ disk = payload

\* The file leads to what the job writes and that to the cache, the head's
\* change is written, and a change is in the cache before its call returns and
\* in the file after.
FileLeadsToCache ==
    openedFirst =>
       /\ \A c \in Calls : phase[c] \notin {"reading", "read"}
       /\ ~loaded => \A c \in Calls : phase[c] \notin Pending
       /\ loaded => Leads(disk, cache, request, phase)
       /\ payload # None =>
             /\ Leads(disk, payload, request, phase)
             /\ Leads(payload, cache, request, phase)
             /\ HasEffect(Head(queue), payload, request)
       /\ \A c \in Calls : phase[c] = "flushing" => HasEffect(c, cache, request)
       /\ \A c \in Calls : phase[c] = "ok" => HasEffect(c, disk, request)

MandateInv == TypeOK /\ Asked /\ QueueIsFlushing /\ JobIsHeads /\ FileLeadsToCache

\* While a job runs its call is flushing.
LEMMA HeadFlushes ==
    ASSUME MandateInv, queue # <<>>
    PROVE  /\ Head(queue) \in Calls /\ phase[Head(queue)] = "flushing"
           /\ Tail(queue) \in Seq(Calls)
           /\ \A i \in 1..Len(Tail(queue)) : /\ Tail(queue)[i] = queue[i + 1]
                                             /\ i + 1 \in 1..Len(queue)
                                             /\ Tail(queue)[i] # Head(queue)
<1>1. queue \in Seq(Calls) /\ Len(queue) \in Nat /\ Len(queue) # 0
  BY DEF MandateInv, TypeOK
<1>2. 1 \in 1..Len(queue) /\ Head(queue) = queue[1]
  BY <1>1
<1>3. Head(queue) \in Calls /\ Tail(queue) \in Seq(Calls) /\ Len(Tail(queue)) = Len(queue) - 1
  BY <1>1
<1>4. \A i \in 1..Len(Tail(queue)) : Tail(queue)[i] = queue[i + 1] /\ i + 1 \in 1..Len(queue)
                                     /\ i + 1 # 1
  BY <1>1, <1>3
<1> QED BY <1>2, <1>3, <1>4 DEF MandateInv, QueueIsFlushing

\* Nothing was asked for yet.
LEMMA MandateInvInit == Init => MandateInv
<1> USE EmptyType DEF Init
<1>1. Init => TypeOK
  <2>1. Fresh \in Entries
    BY DEF Fresh, Entries
  <2>2. [Mandates -> {None, Fresh}] \subseteq Stores
    BY <2>1 DEF Stores
  <2> SUFFICES ASSUME Init PROVE TypeOK
    OBVIOUS
  <2>3. disk \in Stores /\ cache \in Stores /\ readOf \in [Calls -> Stores]
    BY <2>2
  <2>4. phase \in [Calls -> Phases] /\ queue \in Seq(Calls)
    BY DEF Phases
  <2> QED BY <2>3, <2>4 DEF TypeOK
<1>2. Init => Asked /\ QueueIsFlushing /\ JobIsHeads
  BY DEF Asked, QueueIsFlushing, JobIsHeads
<1>3. Init => FileLeadsToCache
  BY DEF FileLeadsToCache, Pending
<1> QED BY <1>1, <1>2, <1>3 DEF MandateInv

\* The file is the first cache.
LEMMA OpenStep ==
    ASSUME MandateInv, Open, UNCHANGED openedFirst
    PROVE  MandateInv'
<1> USE DEF MandateInv, Open
<1>1. TypeOK'
  BY DEF TypeOK
<1>2. Asked' /\ QueueIsFlushing' /\ JobIsHeads'
  BY DEF Asked, QueueIsFlushing, JobIsHeads
<1>3. queue = <<>>
  <2>1. \A c \in Calls : phase[c] # "flushing"
    BY DEF FileLeadsToCache, Pending
  <2> QED BY <2>1, HeadFlushes
<1>4. payload' = None
  BY <1>3 DEF JobIsHeads
<1>5. Leads(disk, cache, request, phase)'
  BY LeadsToItself
<1>6. FileLeadsToCache'
  BY <1>4, <1>5 DEF FileLeadsToCache, Pending
<1> QED BY <1>1, <1>2, <1>6

\* A call that is only made owes nothing.
LEMMA InvokeStep ==
    ASSUME MandateInv, NEW c \in Calls, NEW kind \in Kinds, NEW m \in Mandates,
           Invoke(c, kind, m), UNCHANGED openedFirst
    PROVE  MandateInv'
<1> USE DEF MandateInv, Invoke
<1>0. phase' \in [Calls -> Phases] /\ phase'[c] \in {"called", "reading"}
      /\ \A d \in Calls : d # c => phase'[d] = phase[d] /\ request'[d] = request[d]
  BY DEF TypeOK, Phases, Pending
<1>1. TypeOK'
  BY <1>0 DEF TypeOK, Requests
<1>2. Asked'
  BY <1>0 DEF Asked, Requests, TypeOK
<1>3. QueueIsFlushing' /\ JobIsHeads'
  <2>1. \A i \in 1..Len(queue) : queue[i] \in Calls
    BY DEF TypeOK
  <2> QED BY <2>1, <1>0 DEF QueueIsFlushing, JobIsHeads
<1>4. StillOwed(request, phase, request', phase')
  BY <1>0 DEF Owes, StillOwed
<1>5. ASSUME openedFirst PROVE FileLeadsToCache'
  <2>0. loaded /\ loaded' /\ phase'[c] = "called"
    BY <1>5, <1>0 DEF TypeOK
  <2>1. \A d \in Calls : phase'[d] \notin {"reading", "read"}
    BY <1>5, <2>0, <1>0 DEF FileLeadsToCache
  <2>2. Leads(disk, cache, request, phase)
    BY <1>5, <2>0 DEF FileLeadsToCache
  <2>3. Leads(disk, cache, request', phase')
    BY <2>2, <1>4, LeadsStill
  <2>4. ASSUME payload # None
        PROVE  /\ Leads(disk, payload, request', phase')
               /\ Leads(payload, cache, request', phase')
               /\ HasEffect(Head(queue), payload, request')
    <3>1. /\ Leads(disk, payload, request, phase)
          /\ Leads(payload, cache, request, phase)
          /\ HasEffect(Head(queue), payload, request)
      BY <1>5, <2>4 DEF FileLeadsToCache
    <3>2. Leads(disk, payload, request', phase') /\ Leads(payload, cache, request', phase')
      BY <3>1, <1>4, LeadsStill
    <3>3. Head(queue) \in Calls /\ request'[Head(queue)] = request[Head(queue)]
      BY <2>4, <1>0, HeadFlushes DEF JobIsHeads
    <3> QED BY <3>1, <3>2, <3>3, EffectSame
  <2>5. ASSUME NEW d \in Calls, phase'[d] = "flushing" PROVE HasEffect(d, cache, request')
    <3>1. HasEffect(d, cache, request) /\ request'[d] = request[d]
      BY <1>5, <2>5, <1>0 DEF FileLeadsToCache
    <3> QED BY <3>1, EffectSame
  <2>6. ASSUME NEW d \in Calls, phase'[d] = "ok" PROVE HasEffect(d, disk, request')
    <3>1. HasEffect(d, disk, request) /\ request'[d] = request[d]
      BY <1>5, <2>6, <1>0 DEF FileLeadsToCache
    <3> QED BY <3>1, EffectSame
  <2> QED BY <2>0, <2>1, <2>3, <2>4, <2>5, <2>6 DEF FileLeadsToCache
<1>6. FileLeadsToCache'
  BY <1>5 DEF FileLeadsToCache
<1> QED BY <1>1, <1>2, <1>3, <1>6

\* Backends that were not opened read the file in their first calls.
LEMMA LoadStep ==
    ASSUME MandateInv, NEW c \in Calls, ReadFile(c) \/ ReadFails(c) \/ FinishLoad(c),
           UNCHANGED openedFirst
    PROVE  MandateInv'
<1>1. ~openedFirst /\ ~openedFirst'
  BY DEF MandateInv, FileLeadsToCache, ReadFile, ReadFails, FinishLoad
<1>2. /\ phase[c] \in {"reading", "read"} /\ UNCHANGED <<request, disk, queue, payload, renamed, expired>>
      /\ \E to \in {"read", "failed", "called"} : phase' = [phase EXCEPT ![c] = to]
  BY DEF ReadFile, ReadFails, FinishLoad
<1>3. TypeOK'
  <2>1. phase' \in [Calls -> Phases]
    BY <1>2 DEF MandateInv, TypeOK, Phases, Pending
  <2>2. Merge(cache, readOf[c]) \in Stores
    BY DEF Merge, Stores, MandateInv, TypeOK
  <2>3. cache' \in Stores /\ loaded' \in BOOLEAN /\ readOf' \in [Calls -> Stores]
    BY <2>2, EmptyType DEF ReadFile, ReadFails, FinishLoad, MandateInv, TypeOK
  <2> QED BY <1>2, <2>1, <2>3, <1>1 DEF MandateInv, TypeOK
<1>4. Asked'
  BY <1>2 DEF MandateInv, Asked, TypeOK
<1>5. QueueIsFlushing' /\ JobIsHeads'
  <2>1. \A i \in 1..Len(queue) : queue[i] \in Calls
    BY DEF MandateInv, TypeOK
  <2>2. \A i \in 1..Len(queue) : phase'[queue[i]] = "flushing"
    BY <2>1, <1>2 DEF MandateInv, QueueIsFlushing, TypeOK
  <2> QED BY <2>2, <1>2 DEF MandateInv, QueueIsFlushing, JobIsHeads
<1> QED BY <1>1, <1>3, <1>4, <1>5 DEF MandateInv, FileLeadsToCache

\* The job serialises a cache the head's change is in.
LEMMA StartWriteStep ==
    ASSUME MandateInv, StartWrite, UNCHANGED openedFirst
    PROVE  MandateInv'
<1> USE DEF MandateInv, StartWrite
<1>1. TypeOK'
  BY DEF TypeOK
<1>2. Asked' /\ QueueIsFlushing' /\ JobIsHeads'
  BY DEF Asked, QueueIsFlushing, JobIsHeads, TypeOK
<1>3. Head(queue) \in Calls /\ phase[Head(queue)] = "flushing"
  BY HeadFlushes
<1>4. ASSUME openedFirst PROVE FileLeadsToCache'
  <2>1. loaded
    BY <1>3, <1>4 DEF FileLeadsToCache, Pending
  <2>2. Leads(disk, cache, request, phase) /\ HasEffect(Head(queue), cache, request)
    BY <1>3, <1>4, <2>1 DEF FileLeadsToCache
  <2>3. Leads(cache, cache, request, phase)
    BY LeadsToItself
  <2> QED BY <1>4, <2>1, <2>2, <2>3 DEF FileLeadsToCache
<1>5. FileLeadsToCache'
  BY <1>4 DEF FileLeadsToCache
<1> QED BY <1>1, <1>2, <1>5

\* What the job wrote becomes the file, and keeps what the calls that returned did.
LEMMA RenameStep ==
    ASSUME MandateInv, Rename, UNCHANGED openedFirst
    PROVE  MandateInv'
<1> USE DEF MandateInv, Rename
<1>1. TypeOK'
  BY DEF TypeOK
<1>2. Asked' /\ QueueIsFlushing' /\ JobIsHeads'
  BY DEF Asked, QueueIsFlushing, JobIsHeads
<1>4. ASSUME openedFirst PROVE FileLeadsToCache'
  <2>1. /\ Leads(disk, payload, request, phase) /\ Leads(payload, cache, request, phase)
        /\ HasEffect(Head(queue), payload, request)
    BY <1>4 DEF FileLeadsToCache
  <2>2. Leads(payload, payload, request, phase)
    BY LeadsToItself
  <2>3. disk \in Stores /\ payload \in Stores
    BY DEF TypeOK
  <2>4. ASSUME NEW c \in Calls, phase[c] = "ok" PROVE HasEffect(c, payload, request)
    <3>1. HasEffect(c, disk, request)
      BY <1>4, <2>4 DEF FileLeadsToCache
    <3> QED BY <3>1, <2>1, <2>3, EffectKept
  <2> QED BY <1>4, <2>1, <2>2, <2>4 DEF FileLeadsToCache
<1>5. FileLeadsToCache'
  BY <1>4 DEF FileLeadsToCache
<1> QED BY <1>1, <1>2, <1>5

\* A mandate that expires changes nothing else.
LEMMA ExpireStep ==
    ASSUME MandateInv, NEW m \in Mandates, Expire(m), UNCHANGED openedFirst
    PROVE  MandateInv'
<1> USE DEF MandateInv, Expire
<1>1. TypeOK'
  BY DEF TypeOK
<1>2. Asked' /\ QueueIsFlushing' /\ JobIsHeads' /\ FileLeadsToCache'
  BY DEF Asked, QueueIsFlushing, JobIsHeads, FileLeadsToCache
<1> QED BY <1>1, <1>2

\* Only the file and what the calls were told remain.
LEMMA CrashStep ==
    ASSUME MandateInv, Crash, UNCHANGED openedFirst
    PROVE  MandateInv'
<1> USE DEF MandateInv, Crash
<1>0. /\ phase' \in [Calls -> Phases] /\ queue' \in Seq(Calls)
      /\ \A c \in Calls : phase'[c] \notin Pending /\ (phase'[c] = "none" <=> phase[c] = "none")
                       /\ (phase'[c] = "ok" <=> phase[c] = "ok")
  BY DEF TypeOK, Phases, Pending
<1>1. TypeOK'
  BY <1>0, EmptyType DEF TypeOK
<1>2. Asked' /\ QueueIsFlushing' /\ JobIsHeads'
  BY <1>0 DEF Asked, QueueIsFlushing, JobIsHeads
<1>3. FileLeadsToCache'
  BY <1>0 DEF FileLeadsToCache, Pending
<1> QED BY <1>1, <1>2, <1>3

\* A call whose change is in the first store need not owe it.
LEMMA LeadsSettled ==
    ASSUME NEW old \in Stores, NEW new \in Stores, NEW asked, NEW stage, NEW stage2, NEW h \in Calls,
           Leads(old, new, asked, stage), HasEffect(h, old, asked),
           \A c \in Calls : c # h => stage2[c] = stage[c]
    PROVE  Leads(old, new, asked, stage2)
<1>1. \A c \in Calls, kind \in {"put", "use", "revoke"}, m \in Mandates :
         c # h /\ Owes(c, kind, m, asked, stage) => Owes(c, kind, m, asked, stage2)
  BY DEF Owes
<1>2. \A c, kind, m : Owes(c, kind, m, asked, stage) => c \in Calls /\ asked[c] = [kind |-> kind, id |-> m]
  BY DEF Owes
<1> SUFFICES ASSUME NEW m \in Mandates, new[m] # old[m]
    PROVE  /\ new[m] # None
           /\ old[m] = None => \E c \in Calls : Owes(c, "put", m, asked, stage2)
           /\ \/ new[m].usedBy = Was(old[m]).usedBy
              \/ /\ Was(old[m]).usedBy = None /\ Was(old[m]).revokedBy = None
                 /\ Owes(new[m].usedBy, "use", m, asked, stage2)
           /\ \/ new[m].revokedBy = Was(old[m]).revokedBy
              \/ /\ Was(old[m]).revokedBy = None
                 /\ Owes(new[m].revokedBy, "revoke", m, asked, stage2)
  BY DEF Leads
<1>3. new[m] # None /\ (old[m] = None => \E c \in Calls : Owes(c, "put", m, asked, stage2))
  <2>1. new[m] # None
    BY DEF Leads
  <2>2. ASSUME old[m] = None PROVE \E c \in Calls : Owes(c, "put", m, asked, stage2)
    <3>1. PICK c \in Calls : Owes(c, "put", m, asked, stage)
      BY <2>2 DEF Leads
    <3>2. asked[h] # [kind |-> "put", id |-> m]
      BY <2>2 DEF HasEffect
    <3>3. c # h
      BY <3>1, <3>2, <1>2
    <3> QED BY <3>1, <3>3, <1>1
  <2> QED BY <2>1, <2>2
<1>4. ASSUME Owes(h, "use", m, asked, stage) PROVE Was(old[m]).usedBy # None
  <2>1. asked[h] = [kind |-> "use", id |-> m]
    BY <1>4, <1>2
  <2>2. old[m] # None /\ old[m].usedBy = h
    BY <2>1 DEF HasEffect
  <2> QED BY <2>2, UndefinedAssumption DEF Was
<1>5. ASSUME Owes(h, "revoke", m, asked, stage) PROVE Was(old[m]).revokedBy # None
  <2>1. asked[h] = [kind |-> "revoke", id |-> m]
    BY <1>5, <1>2
  <2>2. old[m] # None /\ old[m].revokedBy = h
    BY <2>1 DEF HasEffect
  <2> QED BY <2>2, UndefinedAssumption DEF Was
<1>6. \/ new[m].usedBy = Was(old[m]).usedBy
      \/ /\ Was(old[m]).usedBy = None /\ Was(old[m]).revokedBy = None
         /\ Owes(new[m].usedBy, "use", m, asked, stage2)
  BY <1>1, <1>2, <1>4 DEF Leads
<1>7. \/ new[m].revokedBy = Was(old[m]).revokedBy
      \/ /\ Was(old[m]).revokedBy = None
         /\ Owes(new[m].revokedBy, "revoke", m, asked, stage2)
  BY <1>1, <1>2, <1>5 DEF Leads
<1> QED BY <1>3, <1>6, <1>7

\* A write that ends tells its call the truth.
LEMMA EndJobStep ==
    ASSUME MandateInv, WriteDone \/ WriteFails, UNCHANGED openedFirst
    PROVE  MandateInv'
<1> DEFINE h == Head(queue)
<1>1. queue # <<>> /\ UNCHANGED <<disk, cache, loaded, request, readOf, expired>>
      /\ queue' = Tail(queue) /\ payload' = None /\ renamed' = FALSE
      /\ \/ renamed /\ phase' = [phase EXCEPT ![h] = "ok"]
         \/ phase' = [phase EXCEPT ![h] = "failed"]
  BY DEF WriteDone, WriteFails, EndJob, MandateInv, JobIsHeads
<1>2. /\ h \in Calls /\ phase[h] = "flushing"
      /\ Tail(queue) \in Seq(Calls)
      /\ \A i \in 1..Len(Tail(queue)) : /\ Tail(queue)[i] = queue[i + 1]
                                       /\ i + 1 \in 1..Len(queue)
                                       /\ Tail(queue)[i] # h
  BY <1>1, HeadFlushes
<1> HIDE DEF h
<1>3. TypeOK'
  BY <1>1, <1>2 DEF MandateInv, TypeOK, Phases
<1>4. \A c \in Calls : c # h => phase'[c] = phase[c]
  BY <1>1 DEF MandateInv, TypeOK
<1>5. phase'[h] \in {"ok", "failed"} /\ (phase'[h] = "ok" => renamed)
  BY <1>1, <1>2 DEF MandateInv, TypeOK
<1>6. Asked' /\ JobIsHeads'
  BY <1>1, <1>2, <1>4, <1>5 DEF MandateInv, Asked, JobIsHeads
<1>7. QueueIsFlushing'
  <2>1. \A i \in 1..Len(Tail(queue)) : Tail(queue)[i] \in Calls
    BY <1>2
  <2>2. \A i \in 1..Len(Tail(queue)) : phase'[Tail(queue)[i]] = "flushing"
    BY <2>1, <1>2, <1>4 DEF MandateInv, QueueIsFlushing
  <2>3. \A i, j \in 1..Len(Tail(queue)) : Tail(queue)[i] = Tail(queue)[j] => i = j
    <3>1. Len(Tail(queue)) \in Nat
      BY <1>2
    <3>2. \A i \in 1..Len(Tail(queue)) : i \in Nat
      BY <3>1
    <3>3. \A i, j \in 1..Len(Tail(queue)) : Tail(queue)[i] = Tail(queue)[j] => i + 1 = j + 1
      BY <1>2 DEF MandateInv, QueueIsFlushing
    <3> QED BY <3>2, <3>3
  <2> QED BY <2>2, <2>3, <1>1 DEF QueueIsFlushing
<1>8. ASSUME openedFirst PROVE FileLeadsToCache'
  <2>1. loaded /\ Leads(disk, cache, request, phase)
    BY <1>8, <1>2 DEF MandateInv, FileLeadsToCache, Pending
  <2>2. disk \in Stores /\ cache \in Stores
    BY DEF MandateInv, TypeOK
  <2>3. phase'[h] = "ok" => HasEffect(h, disk, request)
    BY <1>5, <1>8 DEF MandateInv, JobIsHeads, FileLeadsToCache, h
  <2>4. Leads(disk, cache, request, phase')
    <3>1. CASE phase'[h] = "ok"
      BY <3>1, <2>1, <2>2, <2>3, <1>2, <1>4, LeadsSettled
    <3>2. CASE phase'[h] = "failed"
      <4>1. StillOwed(request, phase, request, phase')
        BY <3>2, <1>4 DEF StillOwed, Owes
      <4> QED BY <4>1, <2>1, LeadsStill
    <3> QED BY <3>1, <3>2, <1>5
  <2>5. \A c \in Calls : phase'[c] \notin {"reading", "read"}
    BY <1>8, <1>4, <1>5 DEF MandateInv, FileLeadsToCache
  <2>6. \A c \in Calls : phase'[c] = "flushing" => HasEffect(c, cache, request)
    BY <1>8, <1>4, <1>5 DEF MandateInv, FileLeadsToCache
  <2>7. \A c \in Calls : phase'[c] = "ok" => HasEffect(c, disk, request)
    BY <1>8, <1>4, <2>3 DEF MandateInv, FileLeadsToCache
  <2> QED BY <1>1, <2>1, <2>4, <2>5, <2>6, <2>7 DEF FileLeadsToCache
<1>9. FileLeadsToCache'
  BY <1>8, <1>1 DEF FileLeadsToCache
<1> QED BY <1>3, <1>6, <1>7, <1>9 DEF MandateInv

\* The body of a call: refused, a read, or a change that starts from what the
\* cache holds.
LEMMA RunStep ==
    ASSUME MandateInv, NEW c \in Calls, Run(c), UNCHANGED openedFirst
    PROVE  MandateInv'
<1> DEFINE kind == request[c].kind
           m == request[c].id
<1>1. phase[c] = "called" /\ UNCHANGED <<disk, loaded, request, readOf, payload, renamed, expired>>
      /\ \/ phase' = [phase EXCEPT ![c] = "refused"] /\ UNCHANGED <<cache, queue>>
         \/ kind = "get" /\ phase' = [phase EXCEPT ![c] = "ok"] /\ UNCHANGED <<cache, queue>>
         \/ /\ Allowed(kind, m) /\ kind # "get"
            /\ cache' = [cache EXCEPT ![m] = Changed(c, kind, @)]
            /\ phase' = [phase EXCEPT ![c] = "flushing"]
            /\ queue' = Append(queue, c)
  BY DEF Run
<1>2. kind \in Kinds /\ m \in Mandates /\ request[c] = [kind |-> kind, id |-> m]
  BY <1>1 DEF MandateInv, Asked, Requests
<1> HIDE DEF kind, m
<1>3. \A d \in Calls : d # c => phase'[d] = phase[d]
  BY <1>1 DEF MandateInv, TypeOK
<1>4. phase'[c] \in {"refused", "ok", "flushing"}
  BY <1>1 DEF MandateInv, TypeOK
<1>5. StillOwed(request, phase, request', phase')
  BY <1>1, <1>3 DEF StillOwed, Owes
<1>6. Asked'
  BY <1>1, <1>3, <1>4 DEF MandateInv, Asked
<1>7. openedFirst => loaded /\ Leads(disk, cache, request, phase)
  BY <1>1 DEF MandateInv, FileLeadsToCache, Pending
<1>8. CASE UNCHANGED <<cache, queue>>
  <2>1. TypeOK'
    BY <1>1, <1>8 DEF MandateInv, TypeOK, Phases, Pending
  <2>2. phase'[c] = "ok" => kind = "get"
    BY <1>1, <1>8, <1>4 DEF MandateInv, TypeOK
  <2>3. phase'[c] # "flushing"
    <3>1. queue \in Seq(Calls) /\ Len(Append(queue, c)) = Len(queue) + 1 /\ Len(queue) \in Nat
      BY DEF MandateInv, TypeOK
    <3>2. queue # Append(queue, c)
      BY <3>1
    <3> QED BY <1>1, <3>2, <1>8 DEF MandateInv, TypeOK
  <2>4. QueueIsFlushing' /\ JobIsHeads'
    <3>1. \A i \in 1..Len(queue) : queue[i] \in Calls /\ queue[i] # c
      BY <1>1 DEF MandateInv, TypeOK, QueueIsFlushing
    <3> QED BY <3>1, <1>1, <1>3, <1>8 DEF MandateInv, QueueIsFlushing, JobIsHeads
  <2>5. kind = "get" => HasEffect(c, disk, request)
    BY <1>2 DEF HasEffect
  <2>6. ASSUME openedFirst PROVE FileLeadsToCache'
    <3>1. Leads(disk, cache, request', phase')
      BY <1>7, <2>6, <1>5, LeadsStill
    <3>2. ASSUME payload # None
          PROVE  /\ Leads(disk, payload, request', phase') /\ Leads(payload, cache, request', phase')
                 /\ HasEffect(Head(queue), payload, request)
      <4>1. /\ Leads(disk, payload, request, phase) /\ Leads(payload, cache, request, phase)
            /\ HasEffect(Head(queue), payload, request)
        BY <2>6, <3>2 DEF MandateInv, FileLeadsToCache
      <4> QED BY <4>1, <1>5, LeadsStill
    <3>3. \A d \in Calls : phase'[d] \notin {"reading", "read"}
      BY <2>6, <1>3, <1>4 DEF MandateInv, FileLeadsToCache
    <3>4. \A d \in Calls : phase'[d] = "flushing" => HasEffect(d, cache, request)
      BY <2>6, <1>3, <2>3 DEF MandateInv, FileLeadsToCache
    <3>5. \A d \in Calls : phase'[d] = "ok" => HasEffect(d, disk, request)
      BY <2>6, <1>3, <2>2, <2>5 DEF MandateInv, FileLeadsToCache
    <3> QED BY <1>1, <1>7, <1>8, <2>6, <3>1, <3>2, <3>3, <3>4, <3>5 DEF FileLeadsToCache
  <2>7. FileLeadsToCache'
    BY <2>6 DEF FileLeadsToCache
  <2> QED BY <2>1, <1>6, <2>4, <2>7 DEF MandateInv
<1>9. CASE /\ Allowed(kind, m) /\ kind # "get"
           /\ cache' = [cache EXCEPT ![m] = Changed(c, kind, @)]
           /\ phase' = [phase EXCEPT ![c] = "flushing"]
           /\ queue' = Append(queue, c)
  <2>0. disk \in Stores /\ cache \in Stores /\ queue \in Seq(Calls) /\ payload \in Stores \union {None}
        /\ phase \in [Calls -> Phases]
    BY DEF MandateInv, TypeOK
  <2>1. /\ kind \in {"put", "use", "revoke"}
        /\ kind = "put" => cache[m] = None
        /\ kind = "use" => cache[m] # None /\ cache[m].usedBy = None /\ cache[m].revokedBy = None
        /\ kind = "revoke" => cache[m] # None /\ cache[m].revokedBy = None
    BY <1>2, <1>9 DEF Allowed, Kinds
  <2>2. Changed(c, kind, cache[m]) \in Entries
    <3>1. cache[m] \in Entries \union {None}
      BY <1>2, <2>0 DEF Stores
    <3> QED BY <3>1, <2>1, <1>2, <1>9, ChangedType
  <2>3. cache' \in Stores
    BY <2>0, <2>2, <1>2, <1>9 DEF Stores
  <2>4. phase' \in [Calls -> Phases] /\ phase'[c] = "flushing"
    BY <1>9, <2>0 DEF Phases, Pending
  <2>5. TypeOK'
    BY <1>1, <1>9, <2>3, <2>4 DEF MandateInv, TypeOK
  <2>6. QueueIsFlushing' /\ JobIsHeads'
    <3>1. /\ Len(queue) \in Nat /\ Len(queue') = Len(queue) + 1 /\ queue'[Len(queue) + 1] = c
          /\ \A i \in 1..Len(queue) : queue'[i] = queue[i]
          /\ queue' # <<>>
      BY <1>9, <2>0
    <3>2. \A i \in 1..Len(queue) : queue[i] \in Calls /\ queue[i] # c
      BY <1>1, <2>0 DEF MandateInv, QueueIsFlushing
    <3>3. \A i \in 1..Len(queue') : i \in 1..Len(queue) \/ i = Len(queue) + 1
      BY <3>1
    <3>4. \A i \in 1..Len(queue') : phase'[queue'[i]] = "flushing"
      BY <3>1, <3>2, <3>3, <1>3, <2>4 DEF MandateInv, QueueIsFlushing
    <3>5. \A i, j \in 1..Len(queue') : queue'[i] = queue'[j] => i = j
      BY <3>1, <3>2, <3>3 DEF MandateInv, QueueIsFlushing
    <3> QED BY <3>1, <3>4, <3>5, <1>1 DEF MandateInv, QueueIsFlushing, JobIsHeads
  <2>7. ASSUME openedFirst PROVE FileLeadsToCache'
    <3>0. Owes(c, kind, m, request', phase')
      BY <1>1, <1>2, <2>4 DEF Owes
    <3>1. \A old \in Stores : Leads(old, cache, request', phase') => Leads(old, cache', request', phase')
      BY <3>0, <2>0, <2>1, <1>2, <1>9, LeadsOn
    <3>2. Leads(disk, cache', request', phase')
      <4>1. Leads(disk, cache, request', phase')
        BY <1>7, <2>7, <1>5, LeadsStill
      <4> QED BY <4>1, <3>1, <2>0
    <3>3. ASSUME payload # None
          PROVE  /\ Leads(disk, payload, request', phase') /\ Leads(payload, cache', request', phase')
                 /\ HasEffect(Head(queue'), payload, request)
      <4>1. /\ Leads(disk, payload, request, phase) /\ Leads(payload, cache, request, phase)
            /\ HasEffect(Head(queue), payload, request)
        BY <2>7, <3>3 DEF MandateInv, FileLeadsToCache
      <4>2. Leads(disk, payload, request', phase') /\ Leads(payload, cache, request', phase')
        BY <4>1, <1>5, LeadsStill
      <4>3. Leads(payload, cache', request', phase')
        BY <4>2, <3>1, <3>3, <2>0
      <4>4. queue # <<>>
        BY <3>3 DEF MandateInv, JobIsHeads
      <4>5. Head(queue') = Head(queue)
        BY <4>4, <1>9, <2>0
      <4> QED BY <4>1, <4>2, <4>3, <4>5
    <3>4. \A d \in Calls : phase'[d] \notin {"reading", "read"}
      BY <2>7, <1>3, <1>4 DEF MandateInv, FileLeadsToCache
    <3>5. Leads(cache, cache', request, phase')
      <4>1. Leads(cache, cache, request', phase')
        BY LeadsToItself
      <4> QED BY <4>1, <3>1, <2>0, <1>1
    <3>6. HasEffect(c, cache', request)
      <4>1. \A n \in Mandates, k \in {"put", "use", "revoke"} :
               request[c] = [kind |-> k, id |-> n] => k = kind /\ n = m
        BY <1>2
      <4>2. cache'[m] = Changed(c, kind, cache[m]) /\ cache[m] \in Entries \union {None}
            /\ cache'[m] # None
        BY <1>2, <1>9, <2>0, <2>2, UndefinedAssumption DEF Stores
      <4>3. kind = "use" => cache'[m].usedBy = c
        BY <4>2, <2>1 DEF Changed, Entries
      <4>4. kind = "revoke" => cache'[m].revokedBy = c
        BY <4>2, <2>1 DEF Changed, Entries
      <4> QED BY <4>1, <4>2, <4>3, <4>4 DEF HasEffect
    <3>7. ASSUME NEW d \in Calls, phase'[d] = "flushing" PROVE HasEffect(d, cache', request)
      <4>1. d # c => HasEffect(d, cache, request)
        BY <2>7, <3>7, <1>3 DEF MandateInv, FileLeadsToCache
      <4>2. d # c => HasEffect(d, cache', request)
        BY <4>1, <3>5, <2>0, <2>3, EffectKept
      <4> QED BY <4>2, <3>6
    <3>8. \A d \in Calls : phase'[d] = "ok" => HasEffect(d, disk, request)
      BY <2>7, <1>3, <2>4 DEF MandateInv, FileLeadsToCache
    <3> QED BY <1>1, <1>7, <2>7, <3>2, <3>3, <3>4, <3>7, <3>8 DEF FileLeadsToCache
  <2>8. FileLeadsToCache'
    BY <2>7 DEF FileLeadsToCache
  <2> QED BY <2>5, <1>6, <2>6, <2>8 DEF MandateInv
<1> QED BY <1>1, <1>8, <1>9

-----------------------------------------------------------------------------
(* The theorems.                                                           *)

\* Every step keeps the invariant.
LEMMA MandateStep ==
    MandateInv /\ [Next]_mandateVars => MandateInv'
<1> SUFFICES ASSUME MandateInv, [Next]_mandateVars PROVE MandateInv'
  OBVIOUS
<1>1. CASE Next
  <2> USE <1>1
  <2>0. UNCHANGED openedFirst
    BY DEF Next
  <2>1. ASSUME NEW c \in Calls, ReadFile(c) \/ ReadFails(c) \/ FinishLoad(c) \/ Run(c)
        PROVE  MandateInv'
    BY <2>0, <2>1, LoadStep, RunStep
  <2>2. CASE StartWrite \/ Rename \/ WriteDone \/ WriteFails
    BY <2>0, <2>2, StartWriteStep, RenameStep, EndJobStep
  <2> QED BY <2>0, <2>1, <2>2, OpenStep, InvokeStep, ExpireStep, CrashStep DEF Next
<1>2. CASE UNCHANGED mandateVars
  <2> USE <1>2 DEF mandateVars, MandateInv
  <2>1. TypeOK'
    BY DEF TypeOK
  <2>2. Asked' /\ QueueIsFlushing' /\ JobIsHeads' /\ FileLeadsToCache'
    BY DEF Asked, QueueIsFlushing, JobIsHeads, FileLeadsToCache
  <2> QED BY <2>1, <2>2
<1> QED BY <1>1, <1>2

\* The file, the writes on their way and the cache stay in that relation.
THEOREM MandateInvariant == Spec => []MandateInv
<1>1. Init => MandateInv
  BY MandateInvInit
<1>2. MandateInv /\ [Next]_mandateVars => MandateInv'
  BY MandateStep
<1> QED BY <1>1, <1>2, PTL DEF Spec

\* Every variable has its type, from open() and from `new'.
THEOREM MandateTypeCorrect == Spec => []TypeOK
<1>1. MandateInv => TypeOK
  BY DEF MandateInv
<1> QED BY <1>1, MandateInvariant, PTL

\* What put, markUsed and markRevoked acknowledged is in the file for good.
THEOREM AcknowledgedStays == Spec => []AcknowledgedIsDurable
<1>1. MandateInv => AcknowledgedIsDurable
  BY DEF MandateInv, FileLeadsToCache, HasEffect, AcknowledgedIsDurable, Asks
<1> QED BY <1>1, MandateInvariant, PTL

\* markUsed succeeds at most once for a mandate.
THEOREM MandateUsedOnce == Spec => []UsedOnce
<1>1. AcknowledgedIsDurable => UsedOnce
  BY DEF AcknowledgedIsDurable, UsedOnce
<1> QED BY <1>1, AcknowledgedStays, PTL

-----------------------------------------------------------------------------
(* The file implements the ledger.                                         *)

\* The ledger starts with what the file holds.
LEMMA LedgerInitially ==
    Init => Ledger!LedgerInit
<1>1. Init => Answer = [c \in Calls |-> "none"]
  BY DEF Init, Answer, Pending
<1> QED BY <1>1 DEF Init, Ledger!LedgerInit, Empty, Fresh, Ledger!Fresh

\* What a call's answer is depends on its phase alone.
LEMMA AnswerStep ==
    ASSUME NEW c \in Calls, \A d \in Calls : d # c => phase'[d] = phase[d]
    PROVE  Answer' = [Answer EXCEPT ![c] = IF phase'[c] \in Pending THEN "pending" ELSE phase'[c]]
BY DEF Answer

\* A rename commits the changes of calls that are pending or failed.
LEMMA RenameCommits ==
    ASSUME MandateInv, Rename, openedFirst, UNCHANGED openedFirst
    PROVE  Ledger!Commit
<1>1. disk \in Stores /\ payload \in Stores /\ phase \in [Calls -> Phases]
  BY DEF MandateInv, TypeOK, Rename
<1>2. Leads(disk, payload, request, phase)
  BY DEF MandateInv, FileLeadsToCache, Rename
<1>3. \A c, kind, m : Owes(c, kind, m, request, phase) => c \in Calls /\ Ledger!Eligible(c, kind, m)
  BY DEF Owes, Ledger!Eligible, Answer, Pending
<1>4. Ledger!Entries = Entries /\ Ledger!Fresh = Fresh
  BY DEF Entries, Fresh, Ledger!Entries, Ledger!Fresh
<1>5. UNCHANGED <<request, Answer>> /\ disk' = payload
  BY DEF Rename, Answer
<1>6. ASSUME NEW m \in Mandates PROVE Ledger!Advances(m)
  <2>1. CASE payload[m] = disk[m]
    BY <2>1, <1>5 DEF Ledger!Advances
  <2>2. CASE payload[m] # disk[m]
    <3>1. /\ payload[m] # None
          /\ disk[m] = None => \E c \in Calls : Owes(c, "put", m, request, phase)
          /\ \/ payload[m].usedBy = Was(disk[m]).usedBy
             \/ /\ Was(disk[m]).usedBy = None /\ Was(disk[m]).revokedBy = None
                /\ Owes(payload[m].usedBy, "use", m, request, phase)
          /\ \/ payload[m].revokedBy = Was(disk[m]).revokedBy
             \/ /\ Was(disk[m]).revokedBy = None
                /\ Owes(payload[m].revokedBy, "revoke", m, request, phase)
      BY <1>2, <2>2 DEF Leads
    <3>2. payload[m] \in Entries
      BY <3>1, <1>1 DEF Stores
    <3>3. disk[m] = None => \E c \in Calls : Ledger!Eligible(c, "put", m)
      BY <3>1, <1>3
    <3>4. \/ payload[m].usedBy = Was(disk[m]).usedBy
          \/ /\ Was(disk[m]).usedBy = None /\ Was(disk[m]).revokedBy = None
             /\ \E c \in Calls : payload[m].usedBy = c /\ Ledger!Eligible(c, "use", m)
      BY <3>1, <1>3
    <3>5. \/ payload[m].revokedBy = Was(disk[m]).revokedBy
          \/ /\ Was(disk[m]).revokedBy = None
             /\ \E c \in Calls : payload[m].revokedBy = c /\ Ledger!Eligible(c, "revoke", m)
      BY <3>1, <1>3
    <3> QED BY <3>2, <3>3, <3>4, <3>5, <1>4, <1>5 DEF Ledger!Advances, Was
  <2> QED BY <2>1, <2>2
<1> QED BY <1>1, <1>4, <1>5, <1>6 DEF Ledger!Commit, Stores

\* Every step of the file is a step of the ledger or none.
LEMMA LedgerStep ==
    ASSUME MandateInv, MandateInv', [Next]_mandateVars
    PROVE  [Ledger!LedgerNext]_(Ledger!ledgerVars)
<1>1. CASE ~openedFirst \/ UNCHANGED mandateVars
  <2>1. UNCHANGED mandateVars => UNCHANGED Answer
    BY DEF mandateVars, Answer
  <2> QED BY <1>1, <2>1 DEF Next, mandateVars, Ledger!ledgerVars
<1>2. CASE openedFirst /\ Next
  <2> USE <1>2
  <2>0. openedFirst' /\ UNCHANGED openedFirst
    BY DEF Next
  <2>1. ASSUME UNCHANGED <<disk, request, phase>> PROVE UNCHANGED Ledger!ledgerVars
    BY <2>0, <2>1 DEF Answer, Ledger!ledgerVars
  <2>2. ASSUME NEW c \in Calls, NEW kind \in Kinds, NEW m \in Mandates, Invoke(c, kind, m)
        PROVE  Ledger!Ask(c, kind, m)
    <3>1. phase[c] = "none" /\ phase'[c] \in Pending /\ \A d \in Calls : d # c => phase'[d] = phase[d]
      BY <2>2 DEF Invoke, Pending, MandateInv, TypeOK
    <3>2. Answer[c] = "none"
      BY <3>1 DEF Answer, Pending
    <3>3. Answer' = [Answer EXCEPT ![c] = "pending"]
      BY <3>1, AnswerStep
    <3> QED BY <2>0, <2>2, <3>2, <3>3 DEF Invoke, Ledger!Ask
  <2>3. ASSUME NEW c \in Calls, Run(c)
        PROVE  Ledger!Answer(c) \/ UNCHANGED Ledger!ledgerVars
    <3>1. /\ phase[c] = "called" /\ UNCHANGED <<disk, request>>
          /\ \A d \in Calls : d # c => phase'[d] = phase[d]
          /\ \/ phase'[c] \in {"refused", "flushing"}
             \/ phase'[c] = "ok" /\ request[c].kind = "get"
      BY <2>3 DEF Run, MandateInv, TypeOK
    <3>2. Answer[c] = "pending"
      BY <3>1 DEF Answer, Pending
    <3>3. CASE phase'[c] = "flushing"
      <4>1. Answer' = [Answer EXCEPT ![c] = "pending"]
        BY <3>1, <3>3, AnswerStep DEF Pending
      <4>2. Answer' = Answer
        BY <4>1, <3>2 DEF Answer
      <4> QED BY <2>0, <3>1, <4>2 DEF Ledger!ledgerVars
    <3>4. CASE phase'[c] # "flushing"
      <4>1. Answer' = [Answer EXCEPT ![c] = phase'[c]] /\ phase'[c] \in {"ok", "refused"}
        BY <3>1, <3>4, AnswerStep DEF Pending
      <4>2. phase'[c] = "ok" => Ledger!InLedger(c)
        BY <3>1 DEF Ledger!InLedger
      <4> QED BY <2>0, <3>1, <3>2, <4>1, <4>2 DEF Ledger!Answer
    <3> QED BY <3>3, <3>4
  <2>4. ASSUME WriteDone \/ WriteFails
        PROVE  \E c \in Calls : Ledger!Answer(c)
    <3> DEFINE h == Head(queue)
    <3>1. queue # <<>> /\ UNCHANGED <<disk, request>>
      BY <2>4 DEF WriteDone, WriteFails, EndJob, MandateInv, JobIsHeads
    <3>2. h \in Calls /\ phase[h] = "flushing"
      BY <3>1, HeadFlushes
    <3>3. /\ phase'[h] \in {"ok", "failed"}
          /\ \A d \in Calls : d # h => phase'[d] = phase[d]
      BY <2>4, <3>2 DEF WriteDone, WriteFails, EndJob, MandateInv, TypeOK
    <3> HIDE DEF h
    <3>4. Answer[h] = "pending" /\ Answer' = [Answer EXCEPT ![h] = phase'[h]]
      BY <3>2, <3>3, AnswerStep DEF Answer, Pending
    <3>5. phase'[h] = "ok" => Ledger!InLedger(h)
      <4>1. phase'[h] = "ok" => HasEffect(h, disk, request)
        BY <2>0, <3>1, <3>2 DEF MandateInv, FileLeadsToCache
      <4>2. request[h] \in Requests /\ request[h] = [kind |-> request[h].kind, id |-> request[h].id]
            /\ request[h].id \in Mandates /\ request[h].kind \in Kinds
        BY <3>2 DEF MandateInv, Asked, Requests
      <4> QED BY <4>1, <4>2 DEF HasEffect, Ledger!InLedger, Kinds
    <3> QED BY <2>0, <3>1, <3>2, <3>3, <3>4, <3>5 DEF Ledger!Answer
  <2>5. ASSUME Crash PROVE Ledger!CrashLoses
    <3>1. Answer' = [c \in Calls |-> IF Answer[c] = "pending" THEN "lost" ELSE Answer[c]]
      <4>1. \A c \in Calls : phase[c] # "pending"
        BY DEF MandateInv, TypeOK, Phases, Pending
      <4> QED BY <2>5, <4>1 DEF Crash, Answer, Pending
    <3> QED BY <2>0, <2>5, <3>1 DEF Crash, Ledger!CrashLoses
  <2>6. ASSUME Open \/ StartWrite \/ \E m \in Mandates : Expire(m)
        PROVE  UNCHANGED <<disk, request, phase>>
    BY <2>6 DEF Open, StartWrite, Expire
  <2>7. ASSUME NEW c \in Calls, ReadFile(c) \/ ReadFails(c) \/ FinishLoad(c)
        PROVE  FALSE
    BY <2>7 DEF ReadFile, ReadFails, FinishLoad, MandateInv, FileLeadsToCache
  <2>8. CASE Rename
    BY <2>8, <2>0, RenameCommits DEF Ledger!LedgerNext
  <2>9. CASE \E c \in Calls, kind \in Kinds, m \in Mandates : Invoke(c, kind, m)
    BY <2>9, <2>2 DEF Ledger!LedgerNext, Kinds, Ledger!Kinds
  <2>10. CASE \E c \in Calls : Run(c)
    BY <2>10, <2>3 DEF Ledger!LedgerNext
  <2>11. CASE WriteDone \/ WriteFails
    BY <2>11, <2>4 DEF Ledger!LedgerNext
  <2>12. CASE Crash
    BY <2>12, <2>5 DEF Ledger!LedgerNext
  <2> QED BY <2>1, <2>6, <2>7, <2>8, <2>9, <2>10, <2>11, <2>12 DEF Next
<1> QED BY <1>1, <1>2

\* The data file of a backend from open() is the ledger MandateBackend promises.
THEOREM FileImplementsLedger == Spec => ImplementsLedger
<1>1. Init => Ledger!LedgerInit
  BY LedgerInitially
<1>2. MandateInv /\ MandateInv' /\ [Next]_mandateVars => [Ledger!LedgerNext]_(Ledger!ledgerVars)
  BY LedgerStep
<1> QED BY <1>1, <1>2, MandateInvariant, PTL DEF Spec, ImplementsLedger, Ledger!LedgerSpec
=============================================================================
