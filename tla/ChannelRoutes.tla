------------------------------ MODULE ChannelRoutes ------------------------------
(***************************************************************************)
(* Where alerts go: packages/core/src/routing/channel-router.ts, the       *)
(* dashboard's requests of server/routes/channel-routing.ts, the routes    *)
(* that src/server/start.mjs loads for its alerts, and the sending of      *)
(* packages/agents/supervisor/src/supervisor.ts.                           *)
(*                                                                         *)
(* The organization is the default one, whose storage the alerts use.  An  *)
(* alert's type and project are one value, its kind, and a route is the    *)
(* set of kinds it matches.  Names, validation and texts are left out.     *)
(***************************************************************************)
EXTENDS FiniteSets, Naturals, Undefined

CONSTANTS
    Targets,       \* channels, each of some adapter
    Kinds,         \* what alerts are told apart by
    Adapters,      \* the connected adapters
    AdapterOf,     \* the adapter of each target; None if it is not connected
    RouteRequests, \* requests of the dashboard, each made once
    Alerts         \* alerts, each raised once

ASSUME RoutesAssumption ==
    /\ None \notin Targets \union Adapters \union RouteRequests
    /\ AdapterOf \in [Targets -> Adapters \union {None}]

VARIABLES
    table,       \* the routes of each router, named after the request that made it
    cachedIn,    \* routerCache: the router in use
    savedRoutes, \* the routes in storage
    alertRoutes, \* the routes of start.mjs's router
    change,      \* what each request changes: the target and its kinds, {} to remove it
    routeStage,  \* where each request stands
    snapshot,    \* the routes a request saves, and how many changes they have seen
    lastChannel, \* lastChannelIds
    alert,       \* each alert's kind, and where it is still to go
    reached,     \* the targets each alert was sent to
    asListed,    \* history: the routes as the changes made them
    changes,     \* history: how many there were
    asStarted,   \* history: asListed at the last start
    uncertain    \* history: a load or save failed, overlapped or was cut short

requestVars == <<table, cachedIn, savedRoutes, change, routeStage, snapshot>>
alertVars == <<alertRoutes, lastChannel, alert, reached>>
listVars == <<asListed, changes, asStarted, uncertain>>
routeVars == <<requestVars, alertVars, listVars>>

RouteTables == [Targets -> SUBSET Kinds]
NoRoutes == [t \in Targets |-> {}]

\* What a request saves, and an alert on its way.
RouteSnapshot == [routes : RouteTables, at : Nat]
AlertRecord == [kind : Kinds, to : {"adapters", "targets"}, left : SUBSET (Targets \union Adapters)]

\* Neither is taken for none.
ASSUME RecordsAssumption == None \notin RouteSnapshot \union AlertRecord

RoutesTypeOK ==
    /\ table \in [RouteRequests -> RouteTables]
    /\ cachedIn \in RouteRequests \union {None}
    /\ {savedRoutes, alertRoutes, asListed, asStarted} \subseteq RouteTables
    /\ change \in [RouteRequests -> [target : Targets, kinds : SUBSET Kinds] \union {None}]
    /\ routeStage \in [RouteRequests -> {"none", "loading", "saving", "auditing", "done", "failed", "notFound"}]
    /\ snapshot \in [RouteRequests -> RouteSnapshot \union {None}]
    /\ lastChannel \in [Adapters -> Targets \union {None}]
    /\ alert \in [Alerts -> AlertRecord \union {None}]
    /\ reached \in [Alerts -> SUBSET Targets]
    /\ changes \in Nat /\ uncertain \in BOOLEAN

RoutesInit ==
    /\ table = [q \in RouteRequests |-> NoRoutes]
    /\ cachedIn = None
    /\ savedRoutes = NoRoutes /\ alertRoutes = NoRoutes
    /\ asListed = NoRoutes /\ asStarted = NoRoutes
    /\ change = [q \in RouteRequests |-> None]
    /\ routeStage = [q \in RouteRequests |-> "none"]
    /\ snapshot = [q \in RouteRequests |-> None]
    /\ lastChannel = [d \in Adapters |-> None]
    /\ alert = [l \in Alerts |-> None]
    /\ reached = [l \in Alerts |-> {}]
    /\ changes = 0
    /\ uncertain = FALSE

RequestsAtWork == {q \in RouteRequests : routeStage[q] \in {"loading", "saving", "auditing"}}
RequestGoes(q, stage) == routeStage' = [routeStage EXCEPT ![q] = stage]

-----------------------------------------------------------------------------
(* The dashboard.  A request that changes nothing lists the routes.        *)

\* What the routes become by a change: addRoute replaces a target's route.
WithChange(routes, ch) == [routes EXCEPT ![ch.target] = ch.kinds]

\* Request q goes on with router r, which has these routes: a removal of what is not there
\* is refused, everything else changes the routes and begins to save them.
ChangeWith(q, r, routes, ch) ==
    IF ch = None
       THEN RequestGoes(q, "done") /\ table' = [table EXCEPT ![r] = routes] /\ UNCHANGED <<snapshot, asListed, changes>>
       ELSE IF ch.kinds = {} /\ routes[ch.target] = {}
          THEN RequestGoes(q, "notFound") /\ table' = [table EXCEPT ![r] = routes] /\ UNCHANGED <<snapshot, asListed, changes>>
          ELSE /\ RequestGoes(q, "saving")
               /\ table' = [table EXCEPT ![r] = WithChange(routes, ch)]
               /\ snapshot' = [snapshot EXCEPT ![q] = [routes |-> WithChange(routes, ch), at |-> changes + 1]]
               /\ asListed' = WithChange(asListed, ch)
               /\ changes' = changes + 1

\* Mutant: getRouter forgets to look.
NeverCached == None

\* What getRouter finds.
CachedRouter == cachedIn

\* A request comes: with a router in the cache it goes on at once.
RequestRoutes(q, ch) ==
    /\ routeStage[q] = "none"
    /\ change' = [change EXCEPT ![q] = ch]
    /\ IF CachedRouter = None
          THEN RequestGoes(q, "loading") /\ UNCHANGED <<table, snapshot, asListed, changes>>
          ELSE ChangeWith(q, CachedRouter, table[CachedRouter], ch)
    /\ UNCHANGED <<cachedIn, savedRoutes, alertVars, asStarted, uncertain>>

\* The routes are loaded, or the load failed and there are none; the new router is cached.
RoutesLoaded(q, fails) ==
    /\ routeStage[q] = "loading"
    /\ cachedIn' = q
    /\ ChangeWith(q, q, IF fails THEN NoRoutes ELSE savedRoutes, change[q])
    /\ uncertain' = (uncertain \/ fails \/ \E w \in RouteRequests \ {q} : routeStage[w] = "loading")
    /\ UNCHANGED <<savedRoutes, change, alertVars, asStarted>>

\* Saves that overlap may end in any order.
OvertakenBy(q) ==
    {w \in RouteRequests : routeStage[w] \in {"auditing", "done"} /\ snapshot[w] # None /\ snapshot[w].at > snapshot[q].at}

RoutesSaved(q, fails) ==
    /\ routeStage[q] = "saving"
    /\ RequestGoes(q, IF fails THEN "failed" ELSE "auditing")
    /\ savedRoutes' = IF fails THEN savedRoutes ELSE snapshot[q].routes
    /\ uncertain' = (uncertain \/ fails \/ OvertakenBy(q) # {})
    /\ UNCHANGED <<table, cachedIn, change, snapshot, alertVars, asListed, changes, asStarted>>

\* The audit write ends, well or badly, and with it the request.
RouteAudited(q) ==
    /\ routeStage[q] = "auditing"
    /\ RequestGoes(q, "done")
    /\ UNCHANGED <<table, cachedIn, savedRoutes, change, snapshot, alertVars, listVars>>

-----------------------------------------------------------------------------
(* Alerts.                                                                 *)

\* A message of an adapter's channel.
ChannelSpeaks(t) ==
    /\ AdapterOf[t] # None
    /\ lastChannel' = [lastChannel EXCEPT ![AdapterOf[t]] = t]
    /\ UNCHANGED <<requestVars, alertRoutes, alert, reached, listVars>>

\* getTargets
MatchingTargets(kind) == {t \in Targets : kind \in alertRoutes[t]}

\* Mutant: a route whose adapter is missing falls back to all channels.
ConnectedOnly(kind) ==
    LET ts == {t \in MatchingTargets(kind) : AdapterOf[t] # None} IN
    IF ts = {} THEN [kind |-> kind, to |-> "adapters", left |-> Adapters]
    ELSE [kind |-> kind, to |-> "targets", left |-> ts]

\* broadcastToTargetedChannels chooses: targets that match, or else every adapter.
Addressed(kind) ==
    IF MatchingTargets(kind) = {} THEN [kind |-> kind, to |-> "adapters", left |-> Adapters]
    ELSE [kind |-> kind, to |-> "targets", left |-> {t \in MatchingTargets(kind) : AdapterOf[t] # None}]

RaiseAlert(l, kind) ==
    /\ alert[l] = None
    /\ alert' = [alert EXCEPT ![l] = Addressed(kind)]
    /\ UNCHANGED <<requestVars, alertRoutes, lastChannel, reached, listVars>>

\* The next sendToChannel ends.  An adapter's channel is looked up when its turn comes;
\* a failure is logged and the next one tried.
SendAlert(l, x, fails) ==
    /\ alert[l] # None /\ x \in alert[l].left
    /\ LET t == IF alert[l].to = "targets" THEN x ELSE lastChannel[x]
       IN  reached' = IF t = None \/ fails THEN reached ELSE [reached EXCEPT ![l] = @ \union {t}]
    /\ alert' = [alert EXCEPT ![l].left = @ \ {x}]
    /\ UNCHANGED <<requestVars, alertRoutes, lastChannel, listVars>>

\* The process starts again: start.mjs loads the routes, or fails to and has none.
RestartRoutes(fails) ==
    /\ table' = [q \in RouteRequests |-> NoRoutes]
    /\ cachedIn' = None
    /\ alertRoutes' = IF fails THEN NoRoutes ELSE savedRoutes
    /\ routeStage' = [q \in RouteRequests |-> IF q \in RequestsAtWork THEN "failed" ELSE routeStage[q]]
    /\ lastChannel' = [d \in Adapters |-> None]
    /\ alert' = [l \in Alerts |-> IF alert[l] = None THEN None ELSE [alert[l] EXCEPT !.left = {}]]
    /\ reached' = [l \in Alerts |-> {}]
    /\ asStarted' = asListed
    /\ uncertain' = (uncertain \/ fails \/ RequestsAtWork # {})
    /\ UNCHANGED <<savedRoutes, change, snapshot, asListed, changes>>

Changes == [target : Targets, kinds : SUBSET Kinds] \union {None}

RoutesNext ==
    \/ \E q \in RouteRequests :
          \/ \E ch \in Changes : RequestRoutes(q, ch)
          \/ \E fails \in BOOLEAN : RoutesLoaded(q, fails) \/ RoutesSaved(q, fails)
          \/ RouteAudited(q)
    \/ \E t \in Targets : ChannelSpeaks(t)
    \/ \E l \in Alerts :
          \/ \E kind \in Kinds : RaiseAlert(l, kind)
          \/ \E x \in Targets \union Adapters, fails \in BOOLEAN : SendAlert(l, x, fails)
    \/ \E fails \in BOOLEAN : RestartRoutes(fails)

RoutesSpec == RoutesInit /\ [][RoutesNext]_routeVars

-----------------------------------------------------------------------------
(* Properties.                                                             *)

\* When no request is at work, the cached router and the storage have the routes that
\* all changes together made, in their order, whichever of them were made before a
\* restart, unless first requests loaded at once, saves overtook each other, a load or
\* save failed, or the process ended during a request.
RoutesAreKept ==
    RequestsAtWork = {} /\ ~uncertain =>
       savedRoutes = asListed /\ (cachedIn # None => table[cachedIn] = asListed)

\* An alert is sent to no channel but the ones whose routes matched it at the last start
\* or, if none did, whichever spoke last, under the same exceptions.
AlertsFollowRoutes ==
    ~uncertain => \A l \in Alerts : \A t \in reached[l] :
       \/ alert[l].kind \in asStarted[t]
       \/ \A w \in Targets : alert[l].kind \notin asStarted[w]
=============================================================================
