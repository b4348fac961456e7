----------------------------- MODULE WebhooksProofs -----------------------------
(***************************************************************************)
(* Theorems about Webhooks and the health monitor it starts, for all sets  *)
(* of deploys, issues, deliveries and checks.                              *)
(***************************************************************************)
EXTENDS MCWebhooks, TLAPS

-----------------------------------------------------------------------------
(* The health monitor.                                                     *)

\* A monitor that was started is armed or over.
StartedIsKnown ==
    \A m \in Monitors : deployOf[m] # None <=> m \in armed \union cancelled

\* A check is in flight only for a monitor that was started.
ChecksAreStarted ==
    \A m \in Monitors, k \in Checks : check[m][k] # "idle" => deployOf[m] # None

\* A streak has begun only after the last count was bad.
StreakIsBad ==
    \A m \in Monitors : consecutive[m] # 0 => lastCount[m] = "unhealthy"

\* What the steps of a monitor keep together.
MonitorInv ==
    MonitorTypeOK /\ ArmedIsRegistered /\ StartedIsKnown /\ ChecksAreStarted /\ StreakIsBad

-----------------------------------------------------------------------------
(* The deliveries.                                                         *)

\* A delivery carries an event from its arrival on, and calls the alert handler after
\* it was recorded.
EventsAreCarried ==
    \A d \in Deliveries :
       /\ event[d] = None <=> stage[d] = "none"
       /\ d \in alerted => stage[d] \in {"alerting", "answered", "failed", "lost"}
       /\ stage[d] = "alerting" => d \in alerted
       /\ stage[d] = "checking" => event[d] \in DeployEvents
       /\ d \in newIncident => event[d] \in SentryEvents
       /\ d \in alerted /\ event[d] \in SentryEvents => d \in newIncident

\* While a delivery is past its check and at work, the map in memory has its event.
WorkIsMarked ==
    \A d \in Deliveries :
       event[d] \in DeployEvents /\ stage[d] \in {"recording", "alerting"} => event[d] \in vercelDedup

\* Two deliveries of a deploy's event are on their way to the alert handler only if
\* one is excused.
OneIsRecording ==
    \A c, d \in Deliveries :
       /\ c # d /\ event[c] = event[d] /\ event[c] \in DeployEvents
       /\ {stage[c], stage[d]} \subseteq {"checking", "recording"}
       => {c, d} \cap excused # {}

\* After a deploy's event was alerted, the audit trail has it, and no other delivery of
\* it is past its check.
AlertedIsRecorded ==
    \A c \in alerted \ excused :
       event[c] \in DeployEvents =>
          /\ event[c] \in recent
          /\ \A d \in Deliveries \ {c} :
                event[d] = event[c] /\ stage[d] = "recording" => d \in excused

\* Generic events are told apart by what they are of.
GenericsDiffer ==
    \A c, d \in Deliveries :
       c # d /\ event[c] \in GenericEvents => event[d] # event[c]

\* An incident is opened once while its group is there.
IncidentsAreGrouped ==
    /\ \A d \in newIncident \ excused : event[d].of \in groups
    /\ \A c, d \in newIncident :
          c # d /\ event[c].of = event[d].of => {c, d} \cap excused # {}

\* What the deliveries keep together.
DeliveryInv ==
    /\ EventsAreCarried /\ WorkIsMarked /\ OneIsRecording
    /\ AlertedIsRecorded /\ GenericsDiffer /\ IncidentsAreGrouped /\ AlertedOnce

WatchInv == WatchTypeOK /\ MonitorInv /\ DeliveryInv

-----------------------------------------------------------------------------
(* Steps of the health monitor.                                            *)

\* A monitor that is started supersedes the one the map has for its deploy.
LEMMA MonitorStarts ==
    ASSUME MonitorInv, NEW m \in Monitors, NEW d \in Deploys, NEW base \in Rates \union {0},
           Monitor(m, d, base)
    PROVE  MonitorInv'
<1> USE RatesAssumption, MonitorsAssumption DEF MonitorInv, MonitorTypeOK, Monitor, Superseded, Awaits
<1>1. m \notin armed /\ m \notin cancelled
  BY DEF StartedIsKnown
<1>2. MonitorTypeOK'
  BY DEF ArmedIsRegistered
<1>3. ArmedIsRegistered'
  BY <1>1 DEF ArmedIsRegistered, StartedIsKnown
<1>4. StartedIsKnown'
  BY <1>1 DEF ArmedIsRegistered, StartedIsKnown
<1>5. ChecksAreStarted' /\ StreakIsBad'
  BY DEF ChecksAreStarted, StreakIsBad
<1> QED BY <1>2, <1>3, <1>4, <1>5

\* What ends a watch, the timeout or a check, ends that of one monitor once.
LEMMA FinishStep ==
    ASSUME MonitorInv, NEW m \in Monitors, deployOf[m] # None, NEW healthy \in BOOLEAN,
           Finish(m, healthy), UNCHANGED <<deployOf, baseline, consecutive, lastCount>>,
           check' \in [Monitors -> [Checks -> Awaits]],
           \A n \in Monitors, k \in Checks : check'[n][k] # "idle" => check[n][k] # "idle"
    PROVE  MonitorInv'
<1> USE MonitorsAssumption DEF MonitorInv, MonitorTypeOK
<1>1. ChecksAreStarted' /\ StreakIsBad'
  BY DEF ChecksAreStarted, StreakIsBad
<1>2. CASE m \in cancelled
  BY <1>1, <1>2 DEF Finish, ArmedIsRegistered, StartedIsKnown
<1>3. CASE m \notin cancelled
  <2>1. m \in armed /\ deployOf[m] \in Deploys /\ monitors[deployOf[m]] = m
    BY <1>3 DEF StartedIsKnown, ArmedIsRegistered
  <2>2. PICK d \in Deploys : d = deployOf[m]
    BY <2>1
  <2>3. /\ monitors' = [monitors EXCEPT ![d] = None]
        /\ cancelled' = cancelled \union {m}
        /\ armed' = armed \ {m}
        /\ verdict' = [verdict EXCEPT ![m] = IF healthy THEN "healthy" ELSE "unhealthy"]
    BY <1>3, <2>2 DEF Finish
  <2>4. MonitorTypeOK'
    BY <2>3
  <2>5. \A n \in armed \ {m} : deployOf[n] # d
    BY <2>1, <2>2 DEF ArmedIsRegistered
  <2>6. StartedIsKnown'
    BY <2>3, <2>1 DEF StartedIsKnown
  <2>7. ArmedIsRegistered'
    <3>1. \A n \in armed' : n \notin cancelled' /\ monitors'[deployOf'[n]] = n
      BY <2>3, <2>5 DEF ArmedIsRegistered, StartedIsKnown
    <3>2. \A e \in Deploys : monitors'[e] # None => monitors'[e] \in armed' /\ deployOf'[monitors'[e]] = e
      BY <2>1, <2>2, <2>3 DEF ArmedIsRegistered
    <3> QED BY <3>1, <3>2 DEF ArmedIsRegistered
  <2> QED BY <1>1, <2>4, <2>6, <2>7
<1> QED BY <1>2, <1>3

\* A count that ends begins, continues or breaks the streak of its monitor.
LEMMA EndCountStep ==
    ASSUME MonitorInv, NEW m \in Monitors, NEW k \in Checks, EndCount(m, k)
    PROVE  MonitorInv'
<1> USE MonitorsAssumption DEF MonitorInv, MonitorTypeOK, Awaits
<1>1. PICK r \in Readings :
         LET decision == IF Streak(m, r) < 2 THEN "none" ELSE Decide(baseline[m], r) IN
         /\ lastCount' = [lastCount EXCEPT ![m] = IF Unhealthy(r) THEN "unhealthy" ELSE "healthy"]
         /\ consecutive' = [consecutive EXCEPT ![m] =
                               IF decision \in {"monitor", "ignore"} THEN 0 ELSE Streak(m, r)]
         /\ check' = [check EXCEPT ![m][k] =
                         CASE decision = "none" -> "idle"
                           [] decision = "rollback" -> "unhealthy"
                           [] OTHER -> "notifying"]
  BY DEF EndCount
<1>2. Streak(m, r) \in 0..2 /\ (Streak(m, r) # 0 => Unhealthy(r))
  BY DEF Streak
<1>3. MonitorTypeOK'
  BY <1>1, <1>2 DEF EndCount
<1>4. StreakIsBad'
  BY <1>1, <1>2 DEF StreakIsBad
<1>5. ChecksAreStarted'
  BY <1>1 DEF EndCount, ChecksAreStarted
<1>6. ArmedIsRegistered' /\ StartedIsKnown'
  BY DEF EndCount, ArmedIsRegistered, StartedIsKnown
<1> QED BY <1>3, <1>4, <1>5, <1>6

\* Every step of a monitor.
LEMMA MonitorKeeps ==
    ASSUME MonitorInv, NEW m \in Monitors, MonitorStep(m)
    PROVE  MonitorInv'
<1> USE MonitorsAssumption DEF MonitorInv, MonitorTypeOK, Awaits
<1>1. ASSUME NEW k \in Checks, StartCheck(m, k)
      PROVE  MonitorInv'
  <2>1. MonitorTypeOK'
    BY <1>1 DEF StartCheck
  <2>2. ArmedIsRegistered' /\ StartedIsKnown' /\ StreakIsBad'
    BY <1>1 DEF StartCheck, ArmedIsRegistered, StartedIsKnown, StreakIsBad
  <2>3. ChecksAreStarted'
    BY <1>1 DEF StartCheck, ChecksAreStarted, StartedIsKnown
  <2> QED BY <2>1, <2>2, <2>3
<1>2. ASSUME NEW k \in Checks, EndCount(m, k)
      PROVE  MonitorInv'
  BY <1>2, EndCountStep
<1>3. ASSUME NEW k \in Checks, EndRollback(m, k)
      PROVE  MonitorInv'
  <2>1. deployOf[m] # None
    BY <1>3 DEF EndRollback, ChecksAreStarted
  <2>2. \A n \in Monitors, j \in Checks : check'[n][j] # "idle" => check[n][j] # "idle"
    BY <1>3 DEF EndRollback
  <2>3. check' \in [Monitors -> [Checks -> Awaits]]
    BY <1>3 DEF EndRollback
  <2> QED
    BY <1>3, <2>1, <2>2, <2>3, FinishStep DEF EndRollback
<1>4. ASSUME NEW k \in Checks, EndNotice(m, k)
      PROVE  MonitorInv'
  <2>1. MonitorTypeOK'
    BY <1>4 DEF EndNotice
  <2>2. ArmedIsRegistered' /\ StartedIsKnown' /\ StreakIsBad'
    BY <1>4 DEF EndNotice, ArmedIsRegistered, StartedIsKnown, StreakIsBad
  <2>3. ChecksAreStarted'
    BY <1>4 DEF EndNotice, ChecksAreStarted
  <2> QED BY <2>1, <2>2, <2>3
<1>5. CASE MonitorTimeout(m)
  <2>1. deployOf[m] # None
    BY <1>5 DEF MonitorTimeout, StartedIsKnown
  <2> QED
    BY <1>5, <2>1, FinishStep DEF MonitorTimeout
<1> QED
  BY <1>1, <1>2, <1>3, <1>4, <1>5 DEF MonitorStep

\* A process that ends takes its monitors along.
LEMMA LossKeeps ==
    ASSUME MonitorInv, MonitorsLost
    PROVE  MonitorInv'
<1> USE MonitorsAssumption DEF MonitorInv, MonitorTypeOK, Awaits, MonitorsLost
<1>1. MonitorTypeOK'
  OBVIOUS
<1>2. ArmedIsRegistered' /\ StartedIsKnown'
  BY DEF ArmedIsRegistered, StartedIsKnown
<1>3. ChecksAreStarted' /\ StreakIsBad'
  BY DEF ChecksAreStarted, StreakIsBad
<1> QED BY <1>1, <1>2, <1>3

\* What a step leaves alone keeps the invariant.
LEMMA MonitorUnmoved ==
    ASSUME MonitorInv, UNCHANGED monitorVars
    PROVE  MonitorInv'
BY DEF MonitorInv, monitorVars, MonitorTypeOK, ArmedIsRegistered, StartedIsKnown, ChecksAreStarted, StreakIsBad

-----------------------------------------------------------------------------
(* Steps of the deliveries.                                                *)

\* Events of the three sources differ, and only an error raises an alert for its
\* incident.
LEMMA SourcesDiffer ==
    /\ DeployEvents \subseteq WebhookEvents /\ GenericEvents \subseteq WebhookEvents
    /\ SentryEvents \subseteq WebhookEvents /\ None \notin WebhookEvents
    /\ \A e \in WebhookEvents : e \in DeployEvents \/ e \in GenericEvents \/ e \in SentryEvents
    /\ \A e \in DeployEvents : e \notin GenericEvents /\ e \notin SentryEvents /\ e.source # "sentry"
    /\ \A e \in GenericEvents : e \notin SentryEvents /\ e.source # "sentry"
    /\ \A e \in SentryEvents :
          e.source = "sentry" /\ e.of \in Issues /\ e.state \notin {"READY", "ERROR", "success", "failure"}
BY EventsAssumption DEF WebhookEvents, DeployEvents, GenericEvents, SentryEvents

\* A delivery of a deploy's event waits for the audit trail, or is known already.
LEMMA VercelArrives ==
    ASSUME WatchTypeOK, DeliveryInv, NEW d \in Deliveries, NEW e \in DeployEvents, DeliverVercel(d, e)
    PROVE  DeliveryInv'
<1> USE SourcesDiffer DEF DeliveryInv, WatchTypeOK, DeliverVercel, Arrive, InProgress, Stages
<1>1. /\ stage[d] = "none" /\ d \notin alerted /\ d \notin newIncident
      /\ event' = [event EXCEPT ![d] = e]
      /\ stage' = [stage EXCEPT ![d] = IF e \in vercelDedup THEN "duplicate" ELSE "checking"]
      /\ excused \subseteq excused'
      /\ UNCHANGED <<newIncident, vercelDedup, sentryDedup, groups, recent, alerted>>
  BY DEF EventsAreCarried
<1>2. EventsAreCarried'
  BY <1>1 DEF EventsAreCarried
<1>3. WorkIsMarked' /\ GenericsDiffer'
  BY <1>1 DEF WorkIsMarked, GenericsDiffer
<1>4. OneIsRecording'
  <2> SUFFICES ASSUME NEW c \in Deliveries, c # d, event[c] = e, stage[c] \in {"checking", "recording"},
                      e \notin vercelDedup
               PROVE  d \in excused'
    BY <1>1 DEF OneIsRecording
  <2>1. stage[c] = "checking"
    BY DEF WorkIsMarked
  <2> QED BY <2>1
<1>5. AlertedIsRecorded'
  BY <1>1 DEF AlertedIsRecorded
<1>6. IncidentsAreGrouped' /\ AlertedOnce'
  BY <1>1 DEF IncidentsAreGrouped, AlertedOnce
<1> QED BY <1>2, <1>3, <1>4, <1>5, <1>6

\* A generic deploy's event is like no other.
LEMMA GenericArrives ==
    ASSUME WatchTypeOK, DeliveryInv, NEW d \in Deliveries, NEW e \in GenericEvents, DeliverGeneric(d, e)
    PROVE  DeliveryInv'
<1> USE SourcesDiffer DEF DeliveryInv, WatchTypeOK, DeliverGeneric, Arrive, InProgress, Stages
<1>1. /\ stage[d] = "none" /\ d \notin alerted /\ d \notin newIncident
      /\ event' = [event EXCEPT ![d] = e]
      /\ stage' = [stage EXCEPT ![d] = "recording"]
      /\ UNCHANGED <<newIncident, vercelDedup, sentryDedup, groups, recent, alerted, excused>>
  BY DEF EventsAreCarried
<1>2. \A c \in Deliveries : event[c] # e
  OBVIOUS
<1>3. EventsAreCarried'
  BY <1>1 DEF EventsAreCarried
<1>4. WorkIsMarked' /\ GenericsDiffer'
  BY <1>1, <1>2 DEF WorkIsMarked, GenericsDiffer
<1>5. OneIsRecording'
  BY <1>1 DEF OneIsRecording
<1>6. AlertedIsRecorded'
  BY <1>1, <1>2 DEF AlertedIsRecorded
<1>7. IncidentsAreGrouped' /\ AlertedOnce'
  BY <1>1 DEF IncidentsAreGrouped, AlertedOnce
<1> QED BY <1>3, <1>4, <1>5, <1>6, <1>7

\* An error opens an incident if its group is not there, and never if it was known.
LEMMA SentryArrives ==
    ASSUME WatchTypeOK, DeliveryInv, NEW d \in Deliveries, NEW e \in SentryEvents, DeliverSentry(d, e)
    PROVE  DeliveryInv'
<1> USE SourcesDiffer DEF DeliveryInv, WatchTypeOK, DeliverSentry, Arrive, InProgress, Stages
<1>1. /\ stage[d] = "none" /\ d \notin alerted /\ d \notin newIncident
      /\ event' = [event EXCEPT ![d] = e]
      /\ stage'[d] \in {"duplicate", "recording"}
      /\ stage' = [stage EXCEPT ![d] = stage'[d]]
      /\ UNCHANGED <<vercelDedup, recent, alerted, excused>>
  BY DEF EventsAreCarried
<1>2. EventsAreCarried'
  BY <1>1 DEF EventsAreCarried
<1>3. WorkIsMarked' /\ GenericsDiffer'
  BY <1>1 DEF WorkIsMarked, GenericsDiffer
<1>4. OneIsRecording'
  BY <1>1 DEF OneIsRecording
<1>5. AlertedIsRecorded'
  BY <1>1 DEF AlertedIsRecorded
<1>6. IncidentsAreGrouped'
  BY <1>1 DEF IncidentsAreGrouped
<1>7. AlertedOnce'
  BY <1>1 DEF AlertedOnce
<1> QED BY <1>2, <1>3, <1>4, <1>5, <1>6, <1>7

\* A delivery that passes the check of the audit trail is the only one that may alert,
\* or is excused.
LEMMA CheckPasses ==
    ASSUME WatchTypeOK, DeliveryInv, NEW d \in Deliveries, CheckAudit(d) \/ CheckFails(d)
    PROVE  DeliveryInv'
<1> USE SourcesDiffer DEF DeliveryInv, WatchTypeOK, InProgress, Stages
<1>1. /\ stage[d] = "checking" /\ event[d] \in DeployEvents /\ d \notin alerted
      /\ vercelDedup' = vercelDedup \union {event[d]}
      /\ stage'[d] \in {"duplicate", "recording"}
      /\ stage' = [stage EXCEPT ![d] = stage'[d]]
      /\ excused \subseteq excused'
      /\ stage'[d] = "recording" => d \in excused' \/ ~Recorded(event[d])
      /\ UNCHANGED <<event, newIncident, sentryDedup, groups, recent, alerted>>
  BY DEF CheckAudit, CheckFails, EventsAreCarried
<1>2. EventsAreCarried'
  BY <1>1 DEF EventsAreCarried
<1>3. WorkIsMarked' /\ GenericsDiffer'
  BY <1>1 DEF WorkIsMarked, GenericsDiffer
<1>4. OneIsRecording'
  BY <1>1 DEF OneIsRecording
<1>5. AlertedIsRecorded'
  BY <1>1 DEF AlertedIsRecorded, Recorded
<1>6. IncidentsAreGrouped' /\ AlertedOnce'
  BY <1>1 DEF IncidentsAreGrouped, AlertedOnce
<1> QED BY <1>2, <1>3, <1>4, <1>5, <1>6

\* The first delivery of an event that is recorded is in the audit trail from then on.
LEMMA RecordKeeps ==
    ASSUME WatchTypeOK, DeliveryInv, NEW d \in Deliveries, Record(d)
    PROVE  DeliveryInv'
<1> USE SourcesDiffer DEF DeliveryInv, WatchTypeOK, Record, InProgress, Stages
<1>1. /\ stage[d] = "recording" /\ d \notin alerted /\ event[d] \in WebhookEvents
      /\ recent' = recent \union ({event[d]} \cap DeployEvents)
      /\ stage'[d] \in {"alerting", "answered"}
      /\ stage' = [stage EXCEPT ![d] = stage'[d]]
      /\ alerted' = IF RaisesAlert(d) THEN alerted \union {d} ELSE alerted
      /\ stage'[d] = "alerting" => RaisesAlert(d)
      /\ UNCHANGED <<event, newIncident, vercelDedup, sentryDedup, groups, excused>>
  BY DEF EventsAreCarried
<1>2. RaisesAlert(d) /\ event[d] \in SentryEvents => d \in newIncident
  BY DEF RaisesAlert
<1>3. EventsAreCarried'
  BY <1>1, <1>2 DEF EventsAreCarried
<1>4. WorkIsMarked' /\ GenericsDiffer'
  BY <1>1 DEF WorkIsMarked, GenericsDiffer
<1>5. OneIsRecording'
  BY <1>1 DEF OneIsRecording
<1>6. AlertedIsRecorded'
  BY <1>1 DEF AlertedIsRecorded, OneIsRecording
<1>7. IncidentsAreGrouped'
  BY <1>1 DEF IncidentsAreGrouped
<1>8. AlertedOnce'
  <2> SUFFICES ASSUME NEW c \in alerted, c # d, event[c] = event[d], RaisesAlert(d)
               PROVE  {c, d} \cap excused # {}
    BY <1>1 DEF AlertedOnce
  <2>1. CASE event[d] \in DeployEvents
    BY <1>1, <2>1 DEF AlertedIsRecorded
  <2>2. CASE event[d] \in GenericEvents
    BY <2>2 DEF GenericsDiffer
  <2>3. CASE event[d] \in SentryEvents
    BY <1>2, <2>3 DEF IncidentsAreGrouped, EventsAreCarried
  <2> QED BY <1>1, <2>1, <2>2, <2>3
<1> QED BY <1>3, <1>4, <1>5, <1>6, <1>7, <1>8

\* A delivery that ends alerts nothing more.
LEMMA DeliveryEnds ==
    ASSUME WatchTypeOK, DeliveryInv, NEW d \in Deliveries,
           RecordFails(d) \/ Announce(d) \/ Watch(d) \/ AlertFails(d)
    PROVE  DeliveryInv'
<1> USE SourcesDiffer DEF DeliveryInv, WatchTypeOK, InProgress, Stages
<1>1. /\ stage[d] \in {"recording", "alerting"}
      /\ stage'[d] \in {"answered", "failed"}
      /\ stage' = [stage EXCEPT ![d] = stage'[d]]
      /\ UNCHANGED <<event, newIncident, vercelDedup, sentryDedup, groups, recent, alerted, excused>>
  BY DEF RecordFails, Announce, Watch, AlertFails
<1>2. EventsAreCarried'
  BY <1>1 DEF EventsAreCarried
<1>3. WorkIsMarked' /\ GenericsDiffer' /\ OneIsRecording'
  BY <1>1 DEF WorkIsMarked, GenericsDiffer, OneIsRecording
<1>4. AlertedIsRecorded' /\ IncidentsAreGrouped' /\ AlertedOnce'
  BY <1>1 DEF AlertedIsRecorded, IncidentsAreGrouped, AlertedOnce
<1> QED BY <1>2, <1>3, <1>4

\* What is forgotten, by the maps in memory, the grouper or the audit trail, is
\* forgotten after the work on it, or excuses its deliveries.
LEMMA Forgetting ==
    ASSUME WatchTypeOK, DeliveryInv,
           \/ \E e \in DeployEvents : ForgetDeploy(e) \/ Scroll(e)
           \/ \E iss \in Issues : ForgetIssue(iss) \/ CloseGroup(iss)
    PROVE  DeliveryInv'
<1> USE SourcesDiffer DEF DeliveryInv, WatchTypeOK, InProgress, Stages
<1>1. ASSUME NEW e \in DeployEvents, ForgetDeploy(e)
      PROVE  DeliveryInv'
  <2>1. WorkIsMarked'
    BY <1>1 DEF ForgetDeploy, Idle, WorkIsMarked
  <2>2. EventsAreCarried' /\ GenericsDiffer' /\ OneIsRecording'
    BY <1>1 DEF ForgetDeploy, EventsAreCarried, GenericsDiffer, OneIsRecording
  <2>3. AlertedIsRecorded' /\ IncidentsAreGrouped' /\ AlertedOnce'
    BY <1>1 DEF ForgetDeploy, AlertedIsRecorded, IncidentsAreGrouped, AlertedOnce
  <2> QED BY <2>1, <2>2, <2>3
<1>2. ASSUME NEW e \in DeployEvents, Scroll(e)
      PROVE  DeliveryInv'
  <2>1. WorkIsMarked' /\ EventsAreCarried' /\ GenericsDiffer' /\ OneIsRecording'
    BY <1>2 DEF Scroll, WorkIsMarked, EventsAreCarried, GenericsDiffer, OneIsRecording
  <2>2. AlertedIsRecorded'
    BY <1>2 DEF Scroll, AlertedIsRecorded
  <2>3. IncidentsAreGrouped' /\ AlertedOnce'
    BY <1>2 DEF Scroll, IncidentsAreGrouped, AlertedOnce
  <2> QED BY <2>1, <2>2, <2>3
<1>3. ASSUME NEW iss \in Issues, ForgetIssue(iss)
      PROVE  DeliveryInv'
  <2>1. WorkIsMarked' /\ EventsAreCarried' /\ GenericsDiffer' /\ OneIsRecording'
    BY <1>3 DEF ForgetIssue, WorkIsMarked, EventsAreCarried, GenericsDiffer, OneIsRecording
  <2>2. AlertedIsRecorded' /\ IncidentsAreGrouped' /\ AlertedOnce'
    BY <1>3 DEF ForgetIssue, AlertedIsRecorded, IncidentsAreGrouped, AlertedOnce
  <2> QED BY <2>1, <2>2
<1>4. ASSUME NEW iss \in Issues, CloseGroup(iss)
      PROVE  DeliveryInv'
  <2>1. WorkIsMarked' /\ EventsAreCarried' /\ GenericsDiffer' /\ OneIsRecording'
    BY <1>4 DEF CloseGroup, WorkIsMarked, EventsAreCarried, GenericsDiffer, OneIsRecording
  <2>2. AlertedIsRecorded' /\ AlertedOnce'
    BY <1>4 DEF CloseGroup, AlertedIsRecorded, AlertedOnce
  <2>3. IncidentsAreGrouped'
    BY <1>4 DEF CloseGroup, IncidentsAreGrouped, EventsAreCarried
  <2> QED BY <2>1, <2>2, <2>3
<1> QED BY <1>1, <1>2, <1>3, <1>4

\* A crash loses the maps and the deliveries at work; the audit trail stays.
LEMMA CrashKeeps ==
    ASSUME WatchTypeOK, DeliveryInv, WatchCrash
    PROVE  DeliveryInv'
<1> USE SourcesDiffer DEF DeliveryInv, WatchTypeOK, WatchCrash, InProgress, Stages
<1>1. EventsAreCarried'
  BY DEF EventsAreCarried
<1>2. WorkIsMarked' /\ GenericsDiffer' /\ OneIsRecording'
  BY DEF WorkIsMarked, GenericsDiffer, OneIsRecording
<1>3. AlertedIsRecorded' /\ AlertedOnce'
  BY DEF AlertedIsRecorded, AlertedOnce
<1>4. IncidentsAreGrouped'
  BY DEF IncidentsAreGrouped, EventsAreCarried
<1> QED BY <1>1, <1>2, <1>3, <1>4

\* What a step leaves alone keeps the invariant.
LEMMA DeliveriesUnmoved ==
    ASSUME DeliveryInv, UNCHANGED webhookVars
    PROVE  DeliveryInv'
<1> USE DEF DeliveryInv, webhookVars
<1>1. EventsAreCarried' /\ WorkIsMarked' /\ OneIsRecording'
  BY DEF EventsAreCarried, WorkIsMarked, OneIsRecording
<1>2. AlertedIsRecorded' /\ GenericsDiffer' /\ IncidentsAreGrouped' /\ AlertedOnce'
  BY DEF AlertedIsRecorded, GenericsDiffer, IncidentsAreGrouped, AlertedOnce
<1> QED BY <1>1, <1>2

-----------------------------------------------------------------------------
(* The invariant, and what follows from it.                                *)

\* Every step keeps the types of the deliveries.
LEMMA WatchTypeStep ==
    ASSUME WatchInv, [WatchNext]_watchVars, MonitorTypeOK'
    PROVE  WatchTypeOK'
<1> USE SourcesDiffer DEF WatchInv, WatchTypeOK, Stages, InProgress
<1>1. ASSUME NEW d \in Deliveries, NEW e \in WebhookEvents, NEW next \in Stages, Arrive(d, e, next)
      PROVE  event' \in [Deliveries -> WebhookEvents \union {None}] /\ stage' \in [Deliveries -> Stages]
  BY <1>1 DEF Arrive
<1>2. ASSUME NEW d \in Deliveries, NEW e \in DeployEvents, DeliverVercel(d, e)
      PROVE  WatchTypeOK'
  <2>1. Arrive(d, e, IF e \in vercelDedup THEN "duplicate" ELSE "checking")
    BY <1>2 DEF DeliverVercel
  <2> QED BY <1>1, <1>2, <2>1 DEF DeliverVercel
<1>3. ASSUME NEW d \in Deliveries, NEW e \in GenericEvents, DeliverGeneric(d, e)
      PROVE  WatchTypeOK'
  BY <1>1, <1>3 DEF DeliverGeneric
<1>4. ASSUME NEW d \in Deliveries, NEW e \in SentryEvents, DeliverSentry(d, e)
      PROVE  WatchTypeOK'
  <2>1. Arrive(d, e, IF e.of \in sentryDedup /\ ~(e.state = "resolved") THEN "duplicate" ELSE "recording")
    BY <1>4 DEF DeliverSentry
  <2>2. event' \in [Deliveries -> WebhookEvents \union {None}] /\ stage' \in [Deliveries -> Stages]
    BY <1>1, <2>1
  <2> QED BY <1>4, <2>2 DEF DeliverSentry
<1>5. ASSUME NEW d \in Deliveries, Handle(d)
      PROVE  WatchTypeOK'
  <2>1. stage[d] = "checking" => event[d] \in DeployEvents
    BY DEF DeliveryInv, EventsAreCarried
  <2>2. CASE CheckAudit(d) \/ CheckFails(d)
    BY <2>1, <2>2 DEF CheckAudit, CheckFails
  <2>3. CASE Record(d)
    BY <2>3 DEF Record
  <2>4. CASE RecordFails(d) \/ Announce(d) \/ Watch(d) \/ AlertFails(d)
    BY <2>4 DEF RecordFails, Announce, Watch, AlertFails
  <2> QED BY <1>5, <2>2, <2>3, <2>4 DEF Handle
<1>6. ASSUME NEW e \in DeployEvents, ForgetDeploy(e) \/ Scroll(e)
      PROVE  WatchTypeOK'
  BY <1>6 DEF ForgetDeploy, Scroll
<1>7. ASSUME NEW iss \in Issues, ForgetIssue(iss) \/ CloseGroup(iss)
      PROVE  WatchTypeOK'
  BY <1>7 DEF ForgetIssue, CloseGroup
<1>8. CASE WatchCrash
  BY <1>8 DEF WatchCrash
<1>9. CASE UNCHANGED webhookVars
  BY <1>9 DEF webhookVars
<1> QED
  BY <1>2, <1>3, <1>4, <1>5, <1>6, <1>7, <1>8, <1>9 DEF WatchNext, watchVars

\* Every step keeps what the monitors have: a delivery starts one or leaves them alone.
LEMMA WatchMonitorStep ==
    ASSUME WatchInv, [WatchNext]_watchVars
    PROVE  MonitorInv'
<1> USE DEF WatchInv
<1>1. ASSUME NEW d \in Deliveries, Watch(d)
      PROVE  MonitorInv'
  <2>1. PICK base \in Rates \union {0} : Monitor(d, event[d].of, base)
    BY <1>1 DEF Watch
  <2>2. event[d] \in WebhookEvents /\ event[d] \notin SentryEvents
    BY <1>1, SourcesDiffer DEF Watch, WatchTypeOK, DeliveryInv, EventsAreCarried
  <2>3. event[d].of \in Deploys
    BY <2>2, VercelAssumption DEF WebhookEvents, DeployEvents, GenericEvents
  <2> QED BY <2>1, <2>3, MonitorStarts DEF Deliveries
<1>2. CASE \E m \in Monitors : MonitorStep(m)
  BY <1>2, MonitorKeeps
<1>3. CASE WatchCrash
  BY <1>3, LossKeeps DEF WatchCrash
<1>4. CASE UNCHANGED monitorVars
  BY <1>4, MonitorUnmoved
<1>5. (\E d \in Deliveries : Watch(d)) \/ (\E m \in Monitors : MonitorStep(m)) \/ WatchCrash \/ UNCHANGED monitorVars
  BY DEF WatchNext, watchVars, Handle, DeliverVercel, DeliverGeneric, DeliverSentry, CheckAudit, CheckFails,
         Record, RecordFails, Announce, AlertFails, ForgetDeploy, Scroll, ForgetIssue, CloseGroup
<1> QED BY <1>1, <1>2, <1>3, <1>4, <1>5

\* Every step keeps what the deliveries have.
LEMMA WatchDeliveryStep ==
    ASSUME WatchInv, [WatchNext]_watchVars
    PROVE  DeliveryInv'
<1> USE DEF WatchInv
<1>1. ASSUME NEW d \in Deliveries,
             \/ \E e \in DeployEvents : DeliverVercel(d, e)
             \/ \E e \in GenericEvents : DeliverGeneric(d, e)
             \/ \E e \in SentryEvents : DeliverSentry(d, e)
      PROVE  DeliveryInv'
  BY <1>1, VercelArrives, GenericArrives, SentryArrives
<1>2. ASSUME NEW d \in Deliveries, Handle(d)
      PROVE  DeliveryInv'
  BY <1>2, CheckPasses, RecordKeeps, DeliveryEnds DEF Handle
<1>3. CASE \/ \E e \in DeployEvents : ForgetDeploy(e) \/ Scroll(e)
           \/ \E iss \in Issues : ForgetIssue(iss) \/ CloseGroup(iss)
  BY <1>3, Forgetting
<1>4. CASE WatchCrash
  BY <1>4, CrashKeeps
<1>5. CASE UNCHANGED webhookVars
  BY <1>5, DeliveriesUnmoved
<1> QED
  BY <1>1, <1>2, <1>3, <1>4, <1>5 DEF WatchNext, watchVars

\* WatchInv holds in every state.
THEOREM WatchInvariant == WatchSpec => []WatchInv
<1>1. WatchInit => WatchInv
  <2> SUFFICES ASSUME WatchInit PROVE WatchInv
    OBVIOUS
  <2> USE MonitorsAssumption, SourcesDiffer DEF WatchInit, MonitorInit
  <2>1. MonitorInv
    BY RatesAssumption
    DEF MonitorInv, MonitorTypeOK, Awaits, ArmedIsRegistered, StartedIsKnown, ChecksAreStarted, StreakIsBad
  <2>2. WatchTypeOK
    BY <2>1 DEF WatchTypeOK, MonitorInv, Stages
  <2>3. DeliveryInv
    BY DEF DeliveryInv, EventsAreCarried, WorkIsMarked, OneIsRecording, AlertedIsRecorded, GenericsDiffer,
           IncidentsAreGrouped, AlertedOnce
  <2> QED BY <2>1, <2>2, <2>3 DEF WatchInv
<1>2. WatchInv /\ [WatchNext]_watchVars => WatchInv'
  <2> SUFFICES ASSUME WatchInv, [WatchNext]_watchVars PROVE WatchInv'
    OBVIOUS
  <2>1. MonitorInv'
    BY WatchMonitorStep
  <2>2. DeliveryInv'
    BY WatchDeliveryStep
  <2>3. WatchTypeOK'
    BY <2>1, WatchTypeStep DEF MonitorInv
  <2> QED BY <2>1, <2>2, <2>3 DEF WatchInv
<1> QED BY <1>1, <1>2, PTL DEF WatchSpec

\* An event is alerted once, however often and late Vercel or Sentry delivers it, and a
\* monitor whose timers run is the one the map has for its deploy.
THEOREM AlertsAndWatches == WatchSpec => []WebhooksHold
<1>1. WatchInv => WebhooksHold
  BY DEF WatchInv, MonitorInv, DeliveryInv, WebhooksHold
<1> QED BY <1>1, WatchInvariant, PTL

\* A rollback takes two unhealthy counts one after the other, however the checks of a
\* monitor overlap.
THEOREM TwoCountsRollBack == WatchSpec => RollbackNeedsTwoCounts
<1> DEFINE TwoCounts ==
       \A m \in Monitors, k \in Checks :
          check[m][k] = "counting" /\ check'[m][k] = "unhealthy" =>
             lastCount[m] = "unhealthy" /\ lastCount'[m] = "unhealthy"
<1>1. WatchInv /\ [WatchNext]_watchVars => [TwoCounts]_monitorVars
  <2> SUFFICES ASSUME WatchInv, WatchNext PROVE TwoCounts \/ UNCHANGED monitorVars
    BY DEF watchVars
  <2>1. ASSUME NEW n \in Monitors, NEW j \in Checks, EndCount(n, j)
        PROVE  TwoCounts
    <3>1. PICK r \in Readings :
             LET decision == IF Streak(n, r) < 2 THEN "none" ELSE Decide(baseline[n], r) IN
             /\ lastCount' = [lastCount EXCEPT ![n] = IF Unhealthy(r) THEN "unhealthy" ELSE "healthy"]
             /\ check' = [check EXCEPT ![n][j] =
                             CASE decision = "none" -> "idle"
                               [] decision = "rollback" -> "unhealthy"
                               [] OTHER -> "notifying"]
      BY <2>1 DEF EndCount
    <3>2. check'[n][j] = "unhealthy" => Unhealthy(r) /\ consecutive[n] # 0
      BY <3>1 DEF Streak, WatchInv, MonitorInv, MonitorTypeOK
    <3>3. check'[n][j] = "unhealthy" => lastCount[n] = "unhealthy" /\ lastCount'[n] = "unhealthy"
      BY <3>1, <3>2 DEF WatchInv, MonitorInv, MonitorTypeOK, StreakIsBad
    <3>4. \A m \in Monitors, k \in Checks : m # n \/ k # j => check'[m][k] = check[m][k]
      BY <3>1 DEF WatchInv, MonitorInv, MonitorTypeOK
    <3> QED BY <3>3, <3>4
  <2>2. ASSUME NEW n \in Monitors, MonitorStep(n), ~\E j \in Checks : EndCount(n, j)
        PROVE  TwoCounts
    <3> USE DEF WatchInv, MonitorInv, MonitorTypeOK
    <3>1. ASSUME NEW j \in Checks, StartCheck(n, j)
          PROVE  TwoCounts
      BY <3>1 DEF StartCheck
    <3>2. ASSUME NEW j \in Checks, EndRollback(n, j) \/ EndNotice(n, j)
          PROVE  TwoCounts
      <4>1. check' = [check EXCEPT ![n][j] = "idle"]
        BY <3>2 DEF EndRollback, EndNotice
      <4>2. \A m \in Monitors, k \in Checks : check'[m][k] \in {check[m][k], "idle"}
        BY <4>1
      <4> QED BY <4>2
    <3>3. CASE MonitorTimeout(n)
      BY <3>3 DEF MonitorTimeout
    <3> QED BY <2>2, <3>1, <3>2, <3>3 DEF MonitorStep
  <2>3. CASE WatchCrash
    BY <2>3 DEF WatchCrash, MonitorsLost
  <2>4. ASSUME NEW d \in Deliveries, Watch(d)
        PROVE  TwoCounts
    BY <2>4 DEF Watch, Monitor
  <2>5. \/ \E d \in Deliveries : Watch(d)
        \/ \E n \in Monitors : MonitorStep(n)
        \/ WatchCrash
        \/ UNCHANGED monitorVars
    BY DEF WatchNext, Handle, DeliverVercel, DeliverGeneric, DeliverSentry, CheckAudit, CheckFails,
           Record, RecordFails, Announce, AlertFails, ForgetDeploy, Scroll, ForgetIssue, CloseGroup
  <2> QED BY <2>1, <2>2, <2>3, <2>4, <2>5
<1>2. []WatchInv /\ [][WatchNext]_watchVars => [][TwoCounts]_monitorVars
  BY <1>1, PTL
<1> QED BY <1>2, WatchInvariant, PTL DEF WatchSpec, RollbackNeedsTwoCounts
=============================================================================
