---------------------------- MODULE HealthMonitor ----------------------------
(***************************************************************************)
(* Watching a deploy after it succeeded:                                   *)
(* packages/core/src/observability/health-monitor.ts and                   *)
(* rollback-decision.ts.                                                   *)
(*                                                                         *)
(* An interval starts a check, which awaits a count of recent errors and,  *)
(* when it is the second bad one in a row, a callback.  The interval goes  *)
(* on meanwhile, so checks overlap; a timeout ends the watch.  Starting a  *)
(* monitor for a deploy that has one cancels the older.                    *)
(***************************************************************************)
EXTENDS Naturals, FiniteSets, Undefined

CONSTANTS
    Monitors,  \* calls of monitor(), each made once
    Deploys,   \* deploy ids
    Checks,    \* bounds the checks of one monitor in flight
    Overlaps,  \* bounds the monitors whose checks overlap
    Rates      \* error rates that occur, in per cent

ASSUME RatesAssumption == Rates \subseteq 0..100

ASSUME MonitorsAssumption == None \notin Monitors \union Deploys

VARIABLES
    monitors,    \* the map of active monitors
    deployOf,    \* the deploy each monitor watches
    baseline,    \* the error rate before the deploy
    cancelled,   \* monitors cancelled or finished
    armed,       \* monitors whose interval and timeout are set
    consecutive, \* consecutiveUnhealthy; 2 stands for 2 and more
    check,       \* what each check in flight awaits
    lastCount,   \* history: what the last count that ended showed
    verdict      \* what monitor() resolved to

monitorVars == <<monitors, deployOf, baseline, cancelled, armed, consecutive,
                 check, lastCount, verdict>>

Awaits == {"idle", "counting", "unhealthy", "notifying"}

MonitorTypeOK ==
    /\ monitors \in [Deploys -> Monitors \union {None}]
    /\ deployOf \in [Monitors -> Deploys \union {None}]
    /\ baseline \in [Monitors -> Rates \union {0}]
    /\ cancelled \subseteq Monitors
    /\ armed \subseteq Monitors
    /\ consecutive \in [Monitors -> 0..2]
    /\ check \in [Monitors -> [Checks -> Awaits]]
    /\ lastCount \in [Monitors -> {"none", "healthy", "unhealthy"}]
    /\ verdict \in [Monitors -> {"none", "healthy", "unhealthy"}]

MonitorInit ==
    /\ monitors = [d \in Deploys |-> None]
    /\ deployOf = [m \in Monitors |-> None]
    /\ baseline = [m \in Monitors |-> 0]
    /\ cancelled = {}
    /\ armed = {}
    /\ consecutive = [m \in Monitors |-> 0]
    /\ check = [m \in Monitors |-> [k \in Checks |-> "idle"]]
    /\ lastCount = [m \in Monitors |-> "none"]
    /\ verdict = [m \in Monitors |-> "none"]

-----------------------------------------------------------------------------
(* RollbackDecisionEngine.decide.                                          *)

\* What decide() is told of a count: enough requests, the error rate, and
\* whether error types are new or gone.  The monitor never fills in the
\* affected users.
Readings == [enough : BOOLEAN, rate : Rates, new : BOOLEAN, resolved : BOOLEAN]

Unhealthy(r) == r.enough /\ r.rate > 10

HighBaseline(base) == base > 5

\* By more than half of the baseline.
SignificantIncrease(base, rate) ==
    IF base > 0 THEN 2 * rate > 3 * base ELSE rate > 0

Decide(base, r) ==
    CASE ~r.enough -> "ignore"
      [] r.enough /\ HighBaseline(base) /\ ~SignificantIncrease(base, r.rate) /\ ~r.new -> "ignore"
      [] r.enough /\ r.new -> IF r.resolved THEN "monitor" ELSE "rollback"
      [] OTHER -> IF SignificantIncrease(base, r.rate) THEN "monitor" ELSE "ignore"

-----------------------------------------------------------------------------
(* DeployHealthMonitor.                                                    *)

\* Mutant: a monitor the deploy has already is not cancelled.
SupersededNone(d) == {}

\* Mutant: whether the deploy has one is not looked at.
SupersededUnlooked(d) == {monitors[d]}

\* The monitors cancel() ends: the one the map has for the deploy.
Superseded(d) == {monitors[d]} \ {None}

\* monitor(): cancels an older monitor of the deploy and arms the new one.
Monitor(m, d, base) ==
    /\ deployOf[m] = None
    /\ deployOf' = [deployOf EXCEPT ![m] = d]
    /\ baseline' = [baseline EXCEPT ![m] = base]
    /\ monitors' = [monitors EXCEPT ![d] = m]
    /\ cancelled' = cancelled \union Superseded(d)
    /\ armed' = (armed \ Superseded(d)) \union {m}
    /\ UNCHANGED <<consecutive, check, lastCount, verdict>>

\* finish(): the first of the timeout and the checks to get here decides.
Finish(m, healthy) ==
    IF m \in cancelled
       THEN UNCHANGED <<monitors, cancelled, armed, verdict>>
       ELSE /\ cancelled' = cancelled \union {m}
            /\ armed' = armed \ {m}
            /\ monitors' = [monitors EXCEPT ![deployOf[m]] = None]
            /\ verdict' = [verdict EXCEPT ![m] = IF healthy THEN "healthy" ELSE "unhealthy"]

\* The interval fires: runCheck up to the count of errors.
StartCheck(m, k) ==
    /\ m \in armed
    /\ check[m][k] = "idle"
    /\ m \in Overlaps \/ \A j \in Checks : check[m][j] = "idle"
    /\ check' = [check EXCEPT ![m][k] = "counting"]
    /\ UNCHANGED <<monitors, deployOf, baseline, cancelled, armed, consecutive,
                   lastCount, verdict>>

\* Mutant: a healthy count does not break the streak.
StreakUnbroken(m, r) ==
    CASE ~Unhealthy(r) -> consecutive[m]
      [] Unhealthy(r) /\ consecutive[m] = 0 -> 1
      [] OTHER -> 2

Streak(m, r) ==
    CASE ~Unhealthy(r) -> 0
      [] Unhealthy(r) /\ consecutive[m] = 0 -> 1
      [] OTHER -> 2

\* The count is there.  runCheck does not look at `cancelled' again before it
\* calls onUnhealthy, onMonitorExtended or onIgnored.
EndCount(m, k) ==
    /\ check[m][k] = "counting"
    /\ \E r \in Readings :
          LET decision == IF Streak(m, r) < 2 THEN "none" ELSE Decide(baseline[m], r) IN
          /\ lastCount' = [lastCount EXCEPT ![m] = IF Unhealthy(r) THEN "unhealthy" ELSE "healthy"]
          /\ consecutive' = [consecutive EXCEPT ![m] =
                                IF decision \in {"monitor", "ignore"} THEN 0 ELSE Streak(m, r)]
          /\ check' = [check EXCEPT ![m][k] =
                          CASE decision = "none" -> "idle"
                            [] decision = "rollback" -> "unhealthy"
                            [] OTHER -> "notifying"]
    /\ UNCHANGED <<monitors, deployOf, baseline, cancelled, armed, verdict>>

\* onUnhealthy returns or throws.
EndRollback(m, k) ==
    /\ check[m][k] = "unhealthy"
    /\ check' = [check EXCEPT ![m][k] = "idle"]
    /\ Finish(m, FALSE)
    /\ UNCHANGED <<deployOf, baseline, consecutive, lastCount>>

\* onMonitorExtended or onIgnored returns or throws.
EndNotice(m, k) ==
    /\ check[m][k] = "notifying"
    /\ check' = [check EXCEPT ![m][k] = "idle"]
    /\ UNCHANGED <<monitors, deployOf, baseline, cancelled, armed, consecutive,
                   lastCount, verdict>>

\* Mutant: the timeout waits for the checks in flight.
MonitorTimeoutWhenIdle(m) ==
    /\ m \in armed /\ \A k \in Checks : check[m][k] = "idle"
    /\ Finish(m, TRUE)
    /\ UNCHANGED <<deployOf, baseline, consecutive, check, lastCount>>

\* The overall timeout fires: onComplete, and a healthy verdict.
MonitorTimeout(m) ==
    /\ m \in armed
    /\ Finish(m, TRUE)
    /\ UNCHANGED <<deployOf, baseline, consecutive, check, lastCount>>

\* The process ends; its timers and awaits are gone.
MonitorsLost ==
    /\ monitors' = [d \in Deploys |-> None]
    /\ cancelled' = {m \in Monitors : deployOf[m] # None}
    /\ armed' = {}
    /\ consecutive' = [m \in Monitors |-> 0]
    /\ check' = [m \in Monitors |-> [k \in Checks |-> "idle"]]
    /\ lastCount' = [m \in Monitors |-> "none"]
    /\ UNCHANGED <<deployOf, baseline, verdict>>

MonitorStep(m) ==
    \/ \E k \in Checks : StartCheck(m, k) \/ EndCount(m, k) \/ EndRollback(m, k) \/ EndNotice(m, k)
    \/ MonitorTimeout(m)

-----------------------------------------------------------------------------
(* Properties.                                                             *)

\* A monitor whose timers run is the one the map has for its deploy, so a later
\* deploy event finds and cancels it, although late checks of older monitors
\* finish and delete keys of the same map; and no deploy is watched twice.
ArmedIsRegistered ==
    /\ \A m \in armed : m \notin cancelled /\ monitors[deployOf[m]] = m
    /\ \A d \in Deploys : monitors[d] # None => monitors[d] \in armed /\ deployOf[monitors[d]] = d

\* A rollback takes two unhealthy counts one after the other, in the order in
\* which the counts ended, however the checks overlapped.
RollbackNeedsTwoCounts ==
    [][\A m \in Monitors, k \in Checks :
          check[m][k] = "counting" /\ check'[m][k] = "unhealthy" =>
             lastCount[m] = "unhealthy" /\ lastCount'[m] = "unhealthy"]_monitorVars
=============================================================================
