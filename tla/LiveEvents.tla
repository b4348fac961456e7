------------------------------- MODULE LiveEvents -------------------------------
(***************************************************************************)
(* Events on their way to the dashboard: the event bus                     *)
(* (packages/core/src/queue/event-bus.ts, in memory or over Redis) and its *)
(* forwarding to the clients of GET /api/events (server/webhook-server.ts).*)
(* What the routes broadcast to the clients without the bus is left out.   *)
(*                                                                         *)
(* A program that embeds the server may use the bus too (getEventBus).     *)
(* Redis forgets what it sends while the subscriber's connection is gone;  *)
(* ioredis connects again and renews the subscriptions.  When the shared   *)
(* client loses its connection, ioredis sends every command without a      *)
(* reply again, in order and before later ones: a PUBLISH that Redis has   *)
(* executed is executed twice.                                             *)
(***************************************************************************)
EXTENDS Naturals, Sequences, FiniteSets, Undefined

CONSTANTS
    Channels,    \* channels of the bus
    Forwarded,   \* those that the server forwards to its clients
    Subscribers, \* handlers of the embedding program
    Clients,     \* connections to GET /api/events, each made once
    ClientOrgs,  \* organizations that clients and events may name, "default" aside
    SmallTeam,   \* with so many clients or fewer, all get every event: 5 in the code
    MaxEvents,   \* bounds the events
    MaxSends,    \* bounds how often a PUBLISH is sent
    MaxListeners \* bounds the listeners attached to a channel in memory

ASSUME EventsAssumption ==
    /\ Forwarded \subseteq Channels /\ None \notin Subscribers \union ClientOrgs \union {"server"}
    /\ "server" \notin Subscribers /\ "default" \notin ClientOrgs
    /\ SmallTeam \in Nat /\ MaxEvents \in Nat /\ MaxSends \in Nat \ {0} /\ MaxListeners \in Nat

EventHandlers == Subscribers \union {"server"}

VARIABLES
    overRedis,   \* REDIS_URL is set
    serverStage, \* "new", "subscribing", "up", "closing" or "closed"
    handlers,    \* the handler recorded for each channel
    listeners,   \* in memory: the listeners attached to each channel, in their order
    subscribed,  \* over Redis: the channels the subscriber's connection is subscribed to
    unanswered,  \* over Redis: messages of the PUBLISH commands without a reply, in their order
    executed,    \* so many of them Redis executed, with replies that are lost
    eventWire,   \* over Redis: messages on their way to the subscriber
    clientOrg,   \* the organization of each connection in sseConnections
    events,      \* events so far
    got,         \* history: what each subscriber and client got, in its order
    again        \* history: channels with a handler that were subscribed to again

publishVars == <<unanswered, executed>>
busVars == <<overRedis, handlers, listeners, subscribed, eventWire, publishVars>>
eventVars == <<busVars, serverStage, clientOrg, events, got, again>>

\* A message and, as history, over how many connections its PUBLISH was sent.
EventMessage == [nr : 1..MaxEvents, channel : Channels, project : ClientOrgs, sent : 1..MaxSends]

EventsTypeOK ==
    /\ overRedis \in BOOLEAN
    /\ serverStage \in {"new", "subscribing", "up", "closing", "closed"}
    /\ handlers \in [Channels -> EventHandlers \union {None}]
    /\ \A ch \in Channels : \A i \in DOMAIN listeners[ch] : listeners[ch][i] \in EventHandlers
    /\ subscribed \subseteq Channels
    /\ \A i \in DOMAIN unanswered : unanswered[i] \in EventMessage
    /\ executed \in 0..Len(unanswered)
    /\ \A i \in DOMAIN eventWire : eventWire[i] \in EventMessage
    /\ clientOrg \in [Clients -> ClientOrgs \union {"default", "gone", None}]
    /\ events \in 0..MaxEvents
    /\ \A x \in Clients \union Subscribers : \A i \in DOMAIN got[x] : got[x][i] \in EventMessage
    /\ again \subseteq Channels

EventsInit ==
    /\ overRedis \in BOOLEAN
    /\ serverStage = "new"
    /\ handlers = [ch \in Channels |-> None]
    /\ listeners = [ch \in Channels |-> <<>>]
    /\ subscribed = {}
    /\ eventWire = <<>> /\ unanswered = <<>> /\ executed = 0
    /\ clientOrg = [c \in Clients |-> None]
    /\ events = 0
    /\ got = [x \in Clients \union Subscribers |-> <<>>]
    /\ again = {}

-----------------------------------------------------------------------------
(* The bus.                                                                *)

\* subscribe, up to the answer of Redis, which may be an error.
Subscribe(ch, h, accepted) ==
    /\ handlers' = [handlers EXCEPT ![ch] = h]
    /\ again' = IF handlers[ch] # None THEN again \union {ch} ELSE again
    /\ IF overRedis
          THEN /\ subscribed' = IF accepted THEN subscribed \union {ch} ELSE subscribed
               /\ UNCHANGED listeners
          ELSE /\ accepted
               /\ listeners' = [listeners EXCEPT ![ch] = Append(@, h)]
               /\ UNCHANGED subscribed
    /\ UNCHANGED <<overRedis, eventWire, publishVars>>

\* Mutant: the handler is forgotten and stays attached.
LeftAttached(ch) == listeners[ch]

\* removeListener of the handler that is recorded: the last one attached.
Detached(ch) ==
    LET last == CHOOSE i \in DOMAIN listeners[ch] :
                   /\ listeners[ch][i] = handlers[ch]
                   /\ \A j \in (i + 1)..Len(listeners[ch]) : listeners[ch][j] # handlers[ch]
    IN  SubSeq(listeners[ch], 1, last - 1) \o SubSeq(listeners[ch], last + 1, Len(listeners[ch]))

Unsubscribe(ch, accepted) ==
    /\ handlers' = [handlers EXCEPT ![ch] = None]
    /\ IF overRedis
          THEN /\ subscribed' = IF accepted THEN subscribed \ {ch} ELSE subscribed
               /\ UNCHANGED listeners
          ELSE /\ accepted /\ handlers[ch] # None
               /\ listeners' = [listeners EXCEPT ![ch] = Detached(ch)]
               /\ UNCHANGED subscribed
    /\ UNCHANGED <<overRedis, eventWire, publishVars>>

\* broadcastEvent: the clients that are sent an event of the organization o.
Connected == {c \in Clients : clientOrg[c] \notin {None, "gone"}}
SentTo(o) == {c \in Connected : clientOrg[c] \in {o, "default"} \/ Cardinality(Connected) <= SmallTeam}

\* How often x gets a message when the listeners are called: the server's listener
\* broadcasts it, and takes its project for an organization.
CallsOf(called, h) == Cardinality({i \in DOMAIN called : called[i] = h})
TimesGot(x, message, called) ==
    IF x \in Subscribers THEN CallsOf(called, x)
    ELSE IF x \in SentTo(message.project) THEN CallsOf(called, "server")
    ELSE 0

Handle(message, called) ==
    got' = [x \in Clients \union Subscribers |->
              got[x] \o [i \in 1..TimesGot(x, message, called) |-> message]]

\* publish: over Redis the shared client sends a PUBLISH.
Publish(message) ==
    IF overRedis
       THEN /\ unanswered' = Append(unanswered, message)
            /\ UNCHANGED got
       ELSE /\ Handle(message, listeners[message.channel])
            /\ UNCHANGED unanswered

\* Redis executes the next PUBLISH.  Its reply reaches the client, or is lost with the
\* connection, and so are the later ones of that connection.
ExecutePublish(replied) ==
    /\ executed < Len(unanswered) /\ (replied => executed = 0)
    /\ executed' = IF replied THEN 0 ELSE executed + 1
    /\ unanswered' = IF replied THEN Tail(unanswered) ELSE unanswered
    /\ LET message == unanswered[executed + 1]
       IN  eventWire' = IF message.channel \in subscribed THEN Append(eventWire, message) ELSE eventWire
    /\ UNCHANGED <<overRedis, handlers, listeners, subscribed, serverStage, clientOrg, events, got, again>>

\* The connection of the shared client breaks; the next one sends again what has no
\* reply.
LosePublisher ==
    /\ unanswered # <<>> /\ \A i \in DOMAIN unanswered : unanswered[i].sent < MaxSends
    /\ unanswered' = [i \in DOMAIN unanswered |-> [unanswered[i] EXCEPT !.sent = @ + 1]]
    /\ executed' = 0
    /\ UNCHANGED <<overRedis, handlers, listeners, subscribed, eventWire, serverStage, clientOrg, events, got, again>>

\* After maxRetriesPerRequest attempts to connect, the commands fail, executed or not.
FailPublishes ==
    /\ unanswered # <<>>
    /\ unanswered' = <<>> /\ executed' = 0
    /\ UNCHANGED <<overRedis, handlers, listeners, subscribed, eventWire, serverStage, clientOrg, events, got, again>>

\* The subscriber's connection takes a message: one handler or none is recorded.
TakeFromWire ==
    /\ eventWire # <<>>
    /\ eventWire' = Tail(eventWire)
    /\ LET h == handlers[Head(eventWire).channel]
       IN  Handle(Head(eventWire), IF h = None THEN <<>> ELSE <<h>>)
    /\ UNCHANGED <<overRedis, handlers, listeners, subscribed, publishVars, serverStage, clientOrg, events, again>>

\* The connection breaks and is made again.
LoseWire ==
    /\ eventWire # <<>>
    /\ eventWire' = <<>>
    /\ UNCHANGED <<overRedis, handlers, listeners, subscribed, publishVars, serverStage, clientOrg, events, got, again>>

-----------------------------------------------------------------------------
(* The server.                                                             *)

\* start: it subscribes to the channels in turn, and goes on without the rest when
\* one cannot be subscribed to.
StartEvents ==
    /\ serverStage = "new"
    /\ serverStage' = "subscribing"
    /\ UNCHANGED <<busVars, clientOrg, events, got, again>>

ForwardChannel(ch, accepted) ==
    /\ serverStage = "subscribing" /\ ch \in Forwarded /\ handlers[ch] # "server"
    /\ Subscribe(ch, "server", accepted)
    /\ serverStage' = IF accepted THEN "subscribing" ELSE "up"
    /\ UNCHANGED <<clientOrg, events, got>>

EventsUp ==
    /\ serverStage = "subscribing" /\ \A ch \in Forwarded : handlers[ch] = "server"
    /\ serverStage' = "up"
    /\ UNCHANGED <<busVars, clientOrg, events, got, again>>

\* The embedding program, once the server is up.
EmbedderSubscribes(ch, h, accepted) ==
    /\ serverStage = "up" /\ Len(listeners[ch]) < MaxListeners
    /\ Subscribe(ch, h, accepted)
    /\ UNCHANGED <<serverStage, clientOrg, events, got>>

EmbedderUnsubscribes(ch, accepted) ==
    /\ serverStage = "up"
    /\ Unsubscribe(ch, accepted)
    /\ UNCHANGED <<serverStage, clientOrg, events, got, again>>

\* stop: close() unsubscribes from the recorded channels one by one, and throws when
\* Redis does; in memory it removes every listener.  Nobody gets what is published later.
CloseChannel(ch, accepted) ==
    /\ serverStage \in {"up", "closing"} /\ overRedis /\ handlers[ch] # None /\ ch \in subscribed
    /\ serverStage' = IF accepted THEN "closing" ELSE "up"
    /\ subscribed' = IF accepted THEN subscribed \ {ch} ELSE subscribed
    /\ UNCHANGED <<overRedis, handlers, listeners, publishVars, eventWire, clientOrg, events, got, again>>

CloseBus ==
    /\ serverStage \in {"up", "closing"}
    /\ \A ch \in subscribed : handlers[ch] = None
    /\ serverStage' = "closed"
    /\ handlers' = [ch \in Channels |-> None]
    /\ listeners' = [ch \in Channels |-> <<>>]
    /\ subscribed' = {} /\ eventWire' = <<>> /\ unanswered' = <<>> /\ executed' = 0
    /\ UNCHANGED <<overRedis, clientOrg, events, got, again>>

\* GET /api/events, and the end of its connection.
ConnectClient(c, o) ==
    /\ clientOrg[c] = None /\ serverStage = "up"
    /\ clientOrg' = [clientOrg EXCEPT ![c] = o]
    /\ UNCHANGED <<busVars, serverStage, events, got, again>>

DisconnectClient(c) ==
    /\ clientOrg[c] \notin {None, "gone"}
    /\ clientOrg' = [clientOrg EXCEPT ![c] = "gone"]
    /\ UNCHANGED <<busVars, serverStage, events, got, again>>

\* publishEvent of an agent, and the publish of a route.
PublishEvent(ch, p) ==
    /\ events < MaxEvents /\ serverStage # "closed"
    /\ events' = events + 1
    /\ Publish([nr |-> events', channel |-> ch, project |-> p, sent |-> 1])
    /\ UNCHANGED <<overRedis, handlers, listeners, subscribed, executed, eventWire, serverStage, clientOrg, again>>

EventsNext ==
    \/ StartEvents \/ EventsUp \/ CloseBus \/ TakeFromWire \/ LoseWire
    \/ LosePublisher \/ FailPublishes \/ \E replied \in BOOLEAN : ExecutePublish(replied)
    \/ \E ch \in Channels, accepted \in BOOLEAN :
          \/ ForwardChannel(ch, accepted) \/ EmbedderUnsubscribes(ch, accepted) \/ CloseChannel(ch, accepted)
          \/ \E h \in Subscribers : EmbedderSubscribes(ch, h, accepted)
    \/ \E c \in Clients : DisconnectClient(c) \/ \E o \in ClientOrgs \union {"default"} : ConnectClient(c, o)
    \/ \E ch \in Channels, p \in ClientOrgs : PublishEvent(ch, p)

EventsSpec == EventsInit /\ [][EventsNext]_eventVars

-----------------------------------------------------------------------------
(* Properties.                                                             *)

\* Of two messages that a subscriber or a client gets, the later one is newer, unless it
\* was sent over more connections of the shared client: a PUBLISH comes once for each
\* connection it was sent over, and each connection keeps the order, also when the
\* subscriber's own connection breaks or handlers change meanwhile.  Only in memory a
\* channel that was subscribed to while it had a handler repeats a message.
EventsInOrder ==
    \A x \in Clients \union Subscribers : \A i, j \in DOMAIN got[x] : i < j =>
       \/ got[x][i].nr < got[x][j].nr
       \/ got[x][i].sent < got[x][j].sent
       \/ got[x][i] = got[x][j] /\ ~overRedis /\ got[x][i].channel \in again
=============================================================================
