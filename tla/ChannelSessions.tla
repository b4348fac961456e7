---------------------------- MODULE ChannelSessions ----------------------------
(***************************************************************************)
(* A WhatsApp user's messages, from the webhook to the answer:             *)
(* packages/channels/whatsapp/src/adapter.ts and dedupe.ts, the bridge of  *)
(* server/start.mjs, findOrCreateSession of packages/core/src/sessions/    *)
(* core.ts and the sessions of packages/core/src/storage/pg-storage.ts.    *)
(*                                                                         *)
(* Evolution API may deliver an event again.  A delivery is deduplicated,  *)
(* acknowledged and then handled; handlers of one user overlap.  The table *)
(* has at most one active session of a user (0003_sessions.sql).           *)
(***************************************************************************)
EXTENDS Naturals, FiniteSets, Undefined

CONSTANTS
    Hooks,   \* deliveries of the webhook; a session has the id of the delivery
             \* that made it
    Messages \* messages.upsert events of one user

ASSUME HooksAssumption == None \notin Hooks \union {"active", "closed"}

VARIABLES
    message,  \* the event each delivery carries
    hookStage,\* where its handler stands
    lru,      \* the events of the deduplication cache
    status,   \* the status of each session, None before it is made
    stale,    \* sessions idle for longer than the TTL
    found,    \* the session a handler found or made, until it ends
    forgotten,\* history: events that fell out of the cache
    together  \* history: deliveries that overlapped another, or a DELETE

hookVars == <<message, hookStage, lru, status, stale, found, forgotten, together>>

Handling == {"linking", "finding", "closing", "touching", "creating", "answering"}

HooksTypeOK ==
    /\ message \in [Hooks -> Messages \union {None}]
    /\ hookStage \in [Hooks -> {"none", "ignored", "answered", "noSession", "failed"}
                               \union Handling]
    /\ lru \subseteq Messages
    /\ status \in [Hooks -> {"active", "closed", None}]
    /\ stale \subseteq Hooks
    /\ found \in [Hooks -> Hooks \union {None}]
    /\ forgotten \subseteq Messages
    /\ together \subseteq Hooks

HooksInit ==
    /\ message = [h \in Hooks |-> None]
    /\ hookStage = [h \in Hooks |-> "none"]
    /\ lru = {}
    /\ status = [h \in Hooks |-> None]
    /\ stale = {}
    /\ found = [h \in Hooks |-> None]
    /\ forgotten = {}
    /\ together = {}

InHand == {h \in Hooks : hookStage[h] \in Handling}

ToHook(h, next) == hookStage' = [hookStage EXCEPT ![h] = next]

Active == {s \in Hooks : status[s] = "active"}

-----------------------------------------------------------------------------
(* The webhook.                                                            *)

\* Mutant: the event is not entered in the cache.
RememberedNot(e) == lru

\* InMemoryLru.insert
Remembered(e) == lru \union {e}

\* POST /webhook: a message that is not for the bot is skipped after it was
\* entered; the handler is not awaited.  The project's look-up comes first.
Receive(h, e) ==
    /\ hookStage[h] = "none"
    /\ message' = [message EXCEPT ![h] = e]
    /\ lru' = Remembered(e)
    /\ \E forBot \in BOOLEAN :
          LET next == IF forBot /\ e \notin lru THEN "linking" ELSE "ignored" IN
          /\ ToHook(h, next)
          /\ together' = IF next = "linking" /\ InHand # {} THEN together \union InHand \union {h}
                         ELSE together
    /\ UNCHANGED <<status, stale, found, forgotten>>

\* The cache is full of other events.
Evict(e) ==
    /\ e \in lru
    /\ lru' = lru \ {e}
    /\ forgotten' = forgotten \union {e}
    /\ UNCHANGED <<message, hookStage, status, stale, found, together>>

-----------------------------------------------------------------------------
(* The bridge, and findOrCreateSession.                                    *)

\* getChannelLink, or the default project and setChannelLink: the project is the
\* same one.
Link(h) ==
    /\ hookStage[h] = "linking"
    /\ ToHook(h, "finding")
    /\ UNCHANGED <<message, lru, status, stale, found, forgotten, together>>

\* findSessionByChannelUser: active sessions only.
Find(h) ==
    /\ hookStage[h] = "finding"
    /\ IF Active = {}
          THEN ToHook(h, "creating") /\ UNCHANGED found
          ELSE \E s \in Active :
                  /\ ToHook(h, IF s \in stale THEN "closing" ELSE "touching")
                  /\ found' = [found EXCEPT ![h] = s]
    /\ UNCHANGED <<message, lru, status, stale, forgotten, together>>

\* Mutant: the stale session stays as it is.
ClosedNot(s) == status

\* closeSession
Closed(s) == IF status[s] = "active" THEN [status EXCEPT ![s] = "closed"] ELSE status

CloseStale(h) ==
    /\ hookStage[h] = "closing"
    /\ status' = Closed(found[h])
    /\ ToHook(h, "creating")
    /\ UNCHANGED <<message, lru, stale, found, forgotten, together>>

\* setSession, with the status that was found or for a new id.  The unique index
\* refuses a second active session.
SetSession(h, s) ==
    IF Active \ {s} = {}
       THEN /\ status' = [status EXCEPT ![s] = "active"]
            /\ stale' = stale \ {s}
            /\ found' = [found EXCEPT ![h] = s]
            /\ ToHook(h, "answering")
       ELSE /\ ToHook(h, "noSession")
            /\ found' = [found EXCEPT ![h] = None]
            /\ UNCHANGED <<status, stale>>

Touch(h) ==
    /\ hookStage[h] = "touching"
    /\ SetSession(h, found[h])
    /\ UNCHANGED <<message, lru, forgotten, together>>

CreateSession(h) ==
    /\ hookStage[h] = "creating"
    /\ SetSession(h, h)
    /\ UNCHANGED <<message, lru, forgotten, together>>

\* The chat loop answers and the answer is sent.
SendAnswer(h) ==
    /\ hookStage[h] = "answering"
    /\ ToHook(h, "answered")
    /\ found' = [found EXCEPT ![h] = None]
    /\ UNCHANGED <<message, lru, status, stale, forgotten, together>>

\* Anything awaited throws; the bridge logs it.
HookFails(h) ==
    /\ h \in InHand
    /\ ToHook(h, "failed")
    /\ found' = [found EXCEPT ![h] = None]
    /\ UNCHANGED <<message, lru, status, stale, forgotten, together>>

-----------------------------------------------------------------------------
(* Time, DELETE /sessions/:id and crashes.                                 *)

\* The TTL is 30 days unless configured: nothing is in hand.
GoStale(s) ==
    /\ s \in Active \ stale /\ InHand = {}
    /\ stale' = stale \union {s}
    /\ UNCHANGED <<message, hookStage, lru, status, found, forgotten, together>>

DeleteSession(s) ==
    /\ s \in Active
    /\ status' = Closed(s)
    /\ together' = together \union InHand
    /\ UNCHANGED <<message, hookStage, lru, stale, found, forgotten>>

HookCrash ==
    /\ lru # {}
    /\ hookStage' = [h \in Hooks |-> IF h \in InHand THEN "failed" ELSE hookStage[h]]
    /\ lru' = {}
    /\ found' = [h \in Hooks |-> None]
    /\ forgotten' = forgotten \union lru
    /\ UNCHANGED <<message, status, stale, together>>

HooksNext ==
    \/ \E h \in Hooks :
          \/ \E e \in Messages : Receive(h, e)
          \/ Link(h) \/ Find(h) \/ CloseStale(h) \/ Touch(h) \/ CreateSession(h)
          \/ SendAnswer(h) \/ HookFails(h) \/ GoStale(h) \/ DeleteSession(h)
    \/ \E e \in Messages : Evict(e)
    \/ HookCrash

HooksSpec == HooksInit /\ [][HooksNext]_hookVars

-----------------------------------------------------------------------------
(* Properties.                                                             *)

\* A message is handled once, however often it is delivered and whatever became
\* of its handler, while the cache remembers it.
HandledOnce ==
    \A g, h \in Hooks :
       /\ g # h /\ message[g] = message[h] /\ message[g] # None
       /\ {hookStage[g], hookStage[h]} \subseteq Handling \union {"answered", "noSession", "failed"}
       => message[g] \in forgotten

\* A user has one active session at most, a handler that has one answers in it,
\* and one is refused a session only when another handler or a DELETE came
\* between its steps.
SessionRefusedByRace ==
    /\ Cardinality(Active) <= 1
    /\ \A h \in Hooks : hookStage[h] = "answering" /\ h \notin together => found[h] \in Active
    /\ \A h \in Hooks : hookStage[h] = "noSession" => h \in together

\* Each message of a channel is handled once, in the session of its user.
MessagesReachSessions == HandledOnce /\ SessionRefusedByRace
=============================================================================
