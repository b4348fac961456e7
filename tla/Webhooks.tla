------------------------------- MODULE Webhooks -------------------------------
(***************************************************************************)
(* Deploy and error webhooks and the alerts they raise:                    *)
(* packages/core/src/server/routes/webhooks.ts, the alert handler of       *)
(* server/start.mjs and packages/core/src/observability/incident-grouper.ts,*)
(* composed with the health monitor that a successful deploy starts.       *)
(*                                                                         *)
(* Vercel and Sentry deliver an event again when they got no answer, or    *)
(* just so; deliveries of one event overlap or come after a restart.       *)
(***************************************************************************)
EXTENDS HealthMonitor

CONSTANTS
    VercelDeploys, \* deploys of Vercel, identified by their deploymentId
    CommitOf,      \* the commit each of them deploys
    Issues         \* Sentry issues; their titles differ

ASSUME VercelAssumption == VercelDeploys \subseteq Deploys /\ DOMAIN CommitOf = VercelDeploys

VARIABLES
    event,       \* the event each delivery carries
    stage,       \* where its handler stands
    newIncident, \* deliveries that opened an incident
    vercelDedup, \* events in _vercelDedup, younger than an hour
    sentryDedup, \* issues in _sentryDedup, younger than five minutes
    groups,      \* issues with an open incident
    recent,      \* deploy events among the last 200 audit entries
    alerted,     \* history: deliveries that called the alert handler
    excused      \* history: deliveries after which the event may be alerted again

webhookVars == <<event, stage, newIncident, vercelDedup, sentryDedup, groups, recent,
                 alerted, excused>>
watchVars == <<webhookVars, monitorVars>>

\* A delivery starts at most one monitor and gives it its name.
Deliveries == Monitors

\* A generic deploy event has no id: its monitor gets one of its own.
DeployEvents == [source : {"vercel"}, of : VercelDeploys,
                 state : {"READY", "ERROR", "CANCELED"}]
GenericEvents == [source : {"generic"}, of : Deploys \ VercelDeploys,
                  state : {"success", "failure", "pending"}]
SentryEvents == [source : {"sentry"}, of : Issues, state : {"error", "warning", "resolved"}]
WebhookEvents == DeployEvents \union GenericEvents \union SentryEvents

ASSUME EventsAssumption == None \notin WebhookEvents

InProgress == {"checking", "recording", "alerting"}
Stages == {"none", "duplicate", "answered", "failed", "lost"} \union InProgress

WatchTypeOK ==
    /\ MonitorTypeOK
    /\ event \in [Deliveries -> WebhookEvents \union {None}]
    /\ stage \in [Deliveries -> Stages]
    /\ newIncident \subseteq Deliveries
    /\ vercelDedup \subseteq DeployEvents
    /\ sentryDedup \subseteq Issues
    /\ groups \subseteq Issues
    /\ recent \subseteq DeployEvents
    /\ alerted \subseteq Deliveries
    /\ excused \subseteq Deliveries

WatchInit ==
    /\ MonitorInit
    /\ event = [d \in Deliveries |-> None]
    /\ stage = [d \in Deliveries |-> "none"]
    /\ newIncident = {}
    /\ vercelDedup = {}
    /\ sentryDedup = {}
    /\ groups = {}
    /\ recent = {}
    /\ alerted = {}
    /\ excused = {}

-----------------------------------------------------------------------------
(* Deliveries.                                                             *)

Arrive(d, e, next) ==
    /\ stage[d] = "none"
    /\ event' = [event EXCEPT ![d] = e]
    /\ stage' = [stage EXCEPT ![d] = next]

\* POST /webhooks/vercel up to the query of the audit trail; the map in memory
\* may answer already.
DeliverVercel(d, e) ==
    /\ Arrive(d, e, IF e \in vercelDedup THEN "duplicate" ELSE "checking")
    /\ excused' = IF \E c \in Deliveries : stage[c] = "checking" /\ event[c] = e
                  THEN excused \union {d} ELSE excused
    /\ UNCHANGED <<newIncident, vercelDedup, sentryDedup, groups, recent, alerted, monitorVars>>

\* POST /webhooks/deploy has no deduplication; the ids differ.
DeliverGeneric(d, e) ==
    /\ \A c \in Deliveries : event[c] # None => event[c].of # e.of
    /\ Arrive(d, e, "recording")
    /\ UNCHANGED <<newIncident, vercelDedup, sentryDedup, groups, recent, alerted, excused, monitorVars>>

\* POST /webhooks/sentry looks at its map and marks it in one go, and has the
\* grouper say whether the incident is new.  A duplicate counts there too.
DeliverSentry(d, e) ==
    LET resolved == e.state = "resolved"
        known == e.of \in sentryDedup IN
    /\ Arrive(d, e, IF known /\ ~resolved THEN "duplicate" ELSE "recording")
    /\ sentryDedup' = IF resolved THEN sentryDedup ELSE sentryDedup \union {e.of}
    /\ groups' = IF resolved THEN groups ELSE groups \union {e.of}
    /\ newIncident' = IF resolved \/ known \/ e.of \in groups THEN newIncident
                      ELSE newIncident \union {d}
    /\ UNCHANGED <<vercelDedup, recent, alerted, excused, monitorVars>>

\* Mutant: only the map in memory is looked at.
NotRecorded(e) == FALSE

\* isDup: the event is among the last entries, or the same state of another
\* deploy of the commit is.
Recorded(e) ==
    \E r \in recent : r.state = e.state /\ (r.of = e.of \/ CommitOf[r.of] = CommitOf[e.of])

\* The persistent check.  The map is marked either way.
CheckAudit(d) ==
    /\ stage[d] = "checking"
    /\ vercelDedup' = vercelDedup \union {event[d]}
    /\ stage' = [stage EXCEPT ![d] = IF Recorded(event[d]) THEN "duplicate" ELSE "recording"]
    /\ UNCHANGED <<event, newIncident, sentryDedup, groups, recent, alerted, excused, monitorVars>>

\* The query throws; the delivery is processed all the same.
CheckFails(d) ==
    /\ stage[d] = "checking"
    /\ vercelDedup' = vercelDedup \union {event[d]}
    /\ stage' = [stage EXCEPT ![d] = "recording"]
    /\ excused' = excused \union {d}
    /\ UNCHANGED <<event, newIncident, sentryDedup, groups, recent, alerted, monitorVars>>

\* A deploy that succeeded or failed raises an alert, an error does when it opens
\* an incident.
RaisesAlert(d) ==
    \/ event[d].state \in {"READY", "ERROR", "success", "failure"}
    \/ event[d].state = "error" /\ d \in newIncident

\* appendAudit returns, and the alert handler is called.
Record(d) ==
    /\ stage[d] = "recording"
    /\ recent' = recent \union ({event[d]} \cap DeployEvents)
    /\ stage' = [stage EXCEPT ![d] = IF RaisesAlert(d) THEN "alerting" ELSE "answered"]
    /\ alerted' = IF RaisesAlert(d) THEN alerted \union {d} ELSE alerted
    /\ UNCHANGED <<event, newIncident, vercelDedup, sentryDedup, groups, excused, monitorVars>>

\* appendAudit throws: the answer is 500, and the maps stay marked.
RecordFails(d) ==
    /\ stage[d] = "recording"
    /\ stage' = [stage EXCEPT ![d] = "failed"]
    /\ UNCHANGED <<event, newIncident, vercelDedup, sentryDedup, groups, recent, alerted, excused, monitorVars>>

-----------------------------------------------------------------------------
(* The alert handler.                                                      *)

\* A failure or an error is analysed, announced, escalated and filed.
Announce(d) ==
    /\ stage[d] = "alerting"
    /\ event[d].state \notin {"READY", "success"}
    /\ stage' = [stage EXCEPT ![d] = "answered"]
    /\ UNCHANGED <<event, newIncident, vercelDedup, sentryDedup, groups, recent, alerted, excused, monitorVars>>

\* A success: the baseline is captured (0 when that fails) and the deploy
\* watched, without awaiting the outcome.
Watch(d) ==
    /\ stage[d] = "alerting"
    /\ event[d].state \in {"READY", "success"}
    /\ \E base \in Rates \union {0} : Monitor(d, event[d].of, base)
    /\ stage' = [stage EXCEPT ![d] = "answered"]
    /\ UNCHANGED <<event, newIncident, vercelDedup, sentryDedup, groups, recent, alerted, excused>>

AlertFails(d) ==
    /\ stage[d] = "alerting"
    /\ stage' = [stage EXCEPT ![d] = "failed"]
    /\ UNCHANGED <<event, newIncident, vercelDedup, sentryDedup, groups, recent, alerted, excused, monitorVars>>

-----------------------------------------------------------------------------
(* Time and crashes.                                                       *)

\* An hour, five minutes, five minutes pass: longer than any handler runs.
Idle(e) == \A d \in Deliveries : event[d] = e => stage[d] \notin InProgress

ForgetDeploy(e) ==
    /\ e \in vercelDedup /\ Idle(e)
    /\ vercelDedup' = vercelDedup \ {e}
    /\ UNCHANGED <<event, stage, newIncident, sentryDedup, groups, recent, alerted, excused, monitorVars>>

ForgetIssue(i) ==
    /\ i \in sentryDedup
    /\ sentryDedup' = sentryDedup \ {i}
    /\ UNCHANGED <<event, stage, newIncident, vercelDedup, groups, recent, alerted, excused, monitorVars>>

\* The group's window is renewed by every event, the map's is not.
CloseGroup(i) ==
    /\ i \in groups /\ i \notin sentryDedup
    /\ groups' = groups \ {i}
    /\ excused' = excused \union {d \in Deliveries : event[d] # None /\ event[d].of = i}
    /\ UNCHANGED <<event, stage, newIncident, vercelDedup, sentryDedup, recent, alerted, monitorVars>>

Scroll(e) ==
    /\ e \in recent
    /\ recent' = recent \ {e}
    /\ excused' = excused \union {d \in Deliveries : event[d] = e}
    /\ UNCHANGED <<event, stage, newIncident, vercelDedup, sentryDedup, groups, alerted, monitorVars>>

WatchCrash ==
    /\ \/ \E d \in Deliveries : stage[d] \in InProgress
       \/ armed # {} \/ vercelDedup # {} \/ sentryDedup # {}
    /\ stage' = [d \in Deliveries |-> IF stage[d] \in InProgress THEN "lost" ELSE stage[d]]
    /\ vercelDedup' = {}
    /\ sentryDedup' = {}
    /\ groups' = {}
    /\ MonitorsLost
    /\ excused' = excused \union {d \in Deliveries : event[d] # None /\ event[d].source = "sentry"}
    /\ UNCHANGED <<event, newIncident, recent, alerted>>

Handle(d) ==
    \/ CheckAudit(d) \/ CheckFails(d) \/ Record(d) \/ RecordFails(d)
    \/ Announce(d) \/ Watch(d) \/ AlertFails(d)

WatchNext ==
    \/ \E d \in Deliveries :
          \/ \E e \in DeployEvents : DeliverVercel(d, e)
          \/ \E e \in GenericEvents : DeliverGeneric(d, e)
          \/ \E e \in SentryEvents : DeliverSentry(d, e)
          \/ Handle(d)
    \/ \E e \in DeployEvents : ForgetDeploy(e) \/ Scroll(e)
    \/ \E i \in Issues : ForgetIssue(i) \/ CloseGroup(i)
    \/ \E m \in Monitors : MonitorStep(m) /\ UNCHANGED webhookVars
    \/ WatchCrash

WatchSpec == WatchInit /\ [][WatchNext]_watchVars

\* The monitor's timeout fires.
WatchFairSpec == WatchSpec /\ \A m \in Monitors : WF_monitorVars(MonitorTimeout(m))

-----------------------------------------------------------------------------
(* Properties.                                                             *)

\* An event is alerted once, however often and late it is delivered: a deploy's
\* whatever restarts lie between, unless two deliveries checked at the same time,
\* the check failed or 200 audit entries went by; an error's while its incident
\* stays open, although the two windows in memory end at different times.
AlertedOnce ==
    \A c, d \in alerted : c # d /\ event[c] = event[d] => {c, d} \cap excused # {}

\* A watch that was started ends with a verdict, unless another one of the same
\* deploy takes over or the process ends.
WatchEnds == \A m \in Monitors : m \in armed ~> m \notin armed
=============================================================================
