------------------------------ MODULE Scheduler ------------------------------
(***************************************************************************)
(* Recurring tasks: packages/core/src/scheduler/scheduler.ts and the       *)
(* scheduler routes of packages/core/src/server/routes/admin.ts.           *)
(*                                                                         *)
(* schedule() replaces a task of the same name.  It may run the task once  *)
(* before it arms the interval, and awaits that run: a cancel, a shutdown  *)
(* or another schedule() can come in between.  Runs of one task overlap.   *)
(***************************************************************************)
EXTENDS Naturals, Undefined

CONSTANTS
    Schedules, \* calls of schedule(), each made once; they identify the tasks
    TaskNames, \* task names
    MaxRuns    \* bounds the runs of one task in flight

ASSUME MaxRunsAssumption == MaxRuns \in Nat \ {0}

ASSUME SchedulesAssumption == None \notin Schedules \union TaskNames

VARIABLES
    nameOf,     \* the name each task was scheduled under
    scheduled,  \* tasks: the task each name stands for
    timers,     \* timers: the interval each name stands for
    ticking,    \* tasks whose interval has not been cleared
    enabled,    \* tasks that are not paused
    first,      \* tasks whose first run schedule() awaits
    runs,       \* runs in flight
    interrupted \* history: names cancelled or replaced during a first run

schedulerVars == <<nameOf, scheduled, timers, ticking, enabled, first, runs, interrupted>>

SchedulerTypeOK ==
    /\ nameOf \in [Schedules -> TaskNames \union {None}]
    /\ scheduled \in [TaskNames -> Schedules \union {None}]
    /\ timers \in [TaskNames -> Schedules \union {None}]
    /\ ticking \subseteq Schedules
    /\ enabled \subseteq Schedules
    /\ first \subseteq Schedules
    /\ runs \in [Schedules -> 0..MaxRuns]
    /\ interrupted \subseteq TaskNames

SchedulerInit ==
    /\ nameOf = [s \in Schedules |-> None]
    /\ scheduled = [n \in TaskNames |-> None]
    /\ timers = [n \in TaskNames |-> None]
    /\ ticking = {}
    /\ enabled = {}
    /\ first = {}
    /\ runs = [s \in Schedules |-> 0]
    /\ interrupted = {}

-----------------------------------------------------------------------------
\* A first run in progress is not known to cancel().
Interrupts(n) ==
    interrupted' = IF scheduled[n] \in first THEN interrupted \union {n} ELSE interrupted

\* Mutant: cancel() forgets the interval and does not clear it.
ForgottenTimer(n) == ticking

\* cancel(): the intervals left when that of a name is cleared.
ClearedTimer(n) == ticking \ {timers[n]}

\* The task's interval is set, whatever the name stands for by then.
Arm(s, n, left) ==
    /\ ticking' = left \union {s}
    /\ timers' = [timers EXCEPT ![n] = s]

\* schedule() up to its end or its await of the first run.
Schedule(s, n, runImmediately) ==
    /\ nameOf[s] = None
    /\ nameOf' = [nameOf EXCEPT ![s] = n]
    /\ scheduled' = [scheduled EXCEPT ![n] = s]
    /\ enabled' = enabled \union {s}
    /\ Interrupts(n)
    /\ LET left == IF scheduled[n] = None THEN ticking ELSE ClearedTimer(n)
           unset == IF scheduled[n] = None THEN timers ELSE [timers EXCEPT ![n] = None] IN
       IF runImmediately
          THEN /\ first' = first \union {s}
               /\ runs' = [runs EXCEPT ![s] = 1]
               /\ ticking' = left
               /\ timers' = unset
          ELSE /\ Arm(s, n, left)
               /\ UNCHANGED <<first, runs>>

\* The first run ends, well or not, and schedule() goes on.
FinishFirst(s) ==
    /\ s \in first
    /\ first' = first \ {s}
    /\ runs' = [runs EXCEPT ![s] = @ - 1]
    /\ Arm(s, nameOf[s], ticking)
    /\ UNCHANGED <<nameOf, scheduled, enabled, interrupted>>

\* The interval fires, whether or not the run before has ended.
Fire(s) ==
    /\ s \in ticking \intersect enabled
    /\ runs[s] < MaxRuns
    /\ runs' = [runs EXCEPT ![s] = @ + 1]
    /\ UNCHANGED <<nameOf, scheduled, timers, ticking, enabled, first, interrupted>>

EndRun(s) ==
    /\ s \notin first /\ runs[s] > 0
    /\ runs' = [runs EXCEPT ![s] = @ - 1]
    /\ UNCHANGED <<nameOf, scheduled, timers, ticking, enabled, first, interrupted>>

\* DELETE /api/scheduler/:name
Cancel(n) ==
    /\ scheduled[n] # None \/ timers[n] # None
    /\ ticking' = ClearedTimer(n)
    /\ timers' = [timers EXCEPT ![n] = None]
    /\ scheduled' = [scheduled EXCEPT ![n] = None]
    /\ Interrupts(n)
    /\ UNCHANGED <<nameOf, enabled, first, runs>>

\* POST /api/scheduler/:name/pause
Pause(n) ==
    /\ scheduled[n] \in enabled
    /\ enabled' = enabled \ {scheduled[n]}
    /\ UNCHANGED <<nameOf, scheduled, timers, ticking, first, runs, interrupted>>

\* POST /api/scheduler/:name/resume
Resume(n) ==
    /\ scheduled[n] # None /\ scheduled[n] \notin enabled
    /\ enabled' = enabled \union {scheduled[n]}
    /\ UNCHANGED <<nameOf, scheduled, timers, ticking, first, runs, interrupted>>

Shutdown ==
    /\ \E n \in TaskNames : scheduled[n] # None \/ timers[n] # None
    /\ ticking' = ticking \ {timers[n] : n \in TaskNames}
    /\ timers' = [n \in TaskNames |-> None]
    /\ scheduled' = [n \in TaskNames |-> None]
    /\ interrupted' = interrupted \union {n \in TaskNames : scheduled[n] \in first}
    /\ UNCHANGED <<nameOf, enabled, first, runs>>

SchedulerNext ==
    \/ \E s \in Schedules :
          \/ \E n \in TaskNames, now \in BOOLEAN : Schedule(s, n, now)
          \/ FinishFirst(s) \/ Fire(s) \/ EndRun(s)
    \/ \E n \in TaskNames : Cancel(n) \/ Pause(n) \/ Resume(n)
    \/ Shutdown

SchedulerSpec == SchedulerInit /\ [][SchedulerNext]_schedulerVars

-----------------------------------------------------------------------------
(* Properties.                                                             *)

\* An interval starts runs of the task its name stands for only, enabled ones:
\* one that was cancelled, replaced or shut down never runs again, and none ticks
\* that cancel() could not reach, unless that came during a task's first run.
TicksAreRegistered ==
    \A s \in ticking : nameOf[s] \notin interrupted =>
        scheduled[nameOf[s]] = s /\ timers[nameOf[s]] = s
=============================================================================
