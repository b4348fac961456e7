----------------------------- MODULE OutboundPolicy -----------------------------
(***************************************************************************)
(* The policy for calls to agents of others: packages/core/src/a2a/        *)
(* policy.ts.                                                              *)
(*                                                                         *)
(* The repository offers the evaluator and never calls it: who embeds it   *)
(* evaluates a call, makes it, and records what it cost.  An evaluation    *)
(* that ends before the budget is looked at changes nothing and is left    *)
(* out; names, patterns and risks are a choice.  Costs are numbers, time   *)
(* goes in ticks, and a window's age is counted until it is over.          *)
(***************************************************************************)
EXTENDS Integers, FiniteSets, Undefined

CONSTANTS
    PolicyCalls,   \* the calls an embedder may have in flight at once
    HourTicks,     \* ONE_HOUR
    DayTicks,      \* ONE_DAY
    PerCallMax,    \* budget.perCallMax
    HourMaxes,     \* values of budget.perHourMax
    DayMax,        \* budget.perDayMax
    CostAbove,     \* requireApproval.costAbove
    MaxSpend       \* bounds what is recorded in a day

ASSUME PolicyAssumption ==
    /\ HourTicks \in Nat \ {0} /\ DayTicks \in Nat /\ DayTicks >= HourTicks
    /\ PerCallMax \in Nat \ {0} /\ HourMaxes \subseteq Nat /\ HourMaxes # {}
    /\ {DayMax, CostAbove, MaxSpend} \subseteq Nat
    /\ IsFiniteSet(PolicyCalls)

VARIABLES
    perHourMax, \* policy.budget.perHourMax
    hourly,     \* spendTracker.hourly
    daily,      \* spendTracker.daily
    hourAge,    \* ticks since lastHourReset, up to an hour
    dayAge,     \* ticks since lastDayReset, up to a day
    inFlight,   \* calls that were let through and have not been recorded
    atOnce,     \* history: the most calls in flight at one time
    loose       \* history: a cost that had not been estimated was recorded, or a budget cut

policyVars == <<perHourMax, hourly, daily, hourAge, dayAge, inFlight, atOnce, loose>>

CallInFlight == [cost : 1..PerCallMax, pending : BOOLEAN]

ASSUME CallsAssumption == None \notin CallInFlight

PolicyTypeOK ==
    /\ perHourMax \in HourMaxes
    /\ hourly \in 0..MaxSpend /\ daily \in 0..MaxSpend
    /\ hourAge \in 0..HourTicks /\ dayAge \in 0..DayTicks
    /\ inFlight \in [PolicyCalls -> CallInFlight \union {None}]
    /\ atOnce \in 1..(Cardinality(PolicyCalls) + 1)
    /\ loose \in BOOLEAN

PolicyInit ==
    /\ perHourMax \in HourMaxes
    /\ hourly = 0 /\ daily = 0 /\ hourAge = 0 /\ dayAge = 0
    /\ inFlight = [c \in PolicyCalls |-> None]
    /\ atOnce = 1 /\ loose = FALSE

-----------------------------------------------------------------------------
\* The windows after resetSpendWindowsIfNeeded: what is in them, and their ages.
InHour == IF hourAge = HourTicks THEN 0 ELSE hourly
InDay == IF dayAge = DayTicks THEN 0 ELSE daily
ResetAges ==
    /\ hourAge' = IF hourAge = HourTicks THEN 0 ELSE hourAge
    /\ dayAge' = IF dayAge = DayTicks THEN 0 ELSE dayAge

\* Mutant: the call's own cost is not counted.
BudgetLeft(cost) == InHour <= perHourMax /\ InDay <= DayMax

WithinBudget(cost) == InHour + cost <= perHourMax /\ InDay + cost <= DayMax

\* evaluate() of a call with an estimate up to perCallMax; its skill or risk may ask for
\* an approval.
Evaluate(c, cost, asks) ==
    /\ inFlight[c] = None
    /\ ResetAges /\ hourly' = InHour /\ daily' = InDay
    /\ inFlight' = IF WithinBudget(cost)
                      THEN [inFlight EXCEPT ![c] = [cost |-> cost, pending |-> asks \/ cost > CostAbove]]
                      ELSE inFlight
    /\ LET flying == Cardinality({d \in PolicyCalls : inFlight'[d] # None})
       IN  atOnce' = IF flying > atOnce THEN flying ELSE atOnce
    /\ UNCHANGED <<perHourMax, loose>>

\* Someone approves the call.
ApproveCall(c) ==
    /\ inFlight[c] # None /\ inFlight[c].pending
    /\ inFlight' = [inFlight EXCEPT ![c].pending = FALSE]
    /\ UNCHANGED <<perHourMax, hourly, daily, hourAge, dayAge, atOnce, loose>>

\* It is not approved, or fails and costs nothing.
DropCall(c) ==
    /\ inFlight[c] # None
    /\ inFlight' = [inFlight EXCEPT ![c] = None]
    /\ UNCHANGED <<perHourMax, hourly, daily, hourAge, dayAge, atOnce, loose>>

\* recordSpend().
Record(amount) ==
    /\ InDay + amount <= MaxSpend /\ InHour + amount <= MaxSpend
    /\ ResetAges /\ hourly' = InHour + amount /\ daily' = InDay + amount

RecordSpend(c, amount) ==
    /\ inFlight[c] # None /\ ~inFlight[c].pending
    /\ Record(amount)
    /\ inFlight' = [inFlight EXCEPT ![c] = None]
    /\ loose' = (loose \/ amount > inFlight[c].cost)
    /\ UNCHANGED <<perHourMax, atOnce>>

\* The cost of a call that was evaluated without an estimate, which no budget stops.
RecordUnestimated(amount) ==
    /\ Record(amount)
    /\ loose' = TRUE
    /\ UNCHANGED <<perHourMax, inFlight, atOnce>>

\* getSpendSummary().
GetSpendSummary ==
    /\ ResetAges /\ hourly' = InHour /\ daily' = InDay
    /\ UNCHANGED <<perHourMax, inFlight, atOnce, loose>>

\* updatePolicy().
UpdatePolicy(max) ==
    /\ max # perHourMax
    /\ perHourMax' = max
    /\ loose' = (loose \/ max < perHourMax)
    /\ UNCHANGED <<hourly, daily, hourAge, dayAge, inFlight, atOnce>>

PolicyTick ==
    /\ hourAge < HourTicks \/ dayAge < DayTicks
    /\ hourAge' = IF hourAge < HourTicks THEN hourAge + 1 ELSE hourAge
    /\ dayAge' = IF dayAge < DayTicks THEN dayAge + 1 ELSE dayAge
    /\ UNCHANGED <<perHourMax, hourly, daily, inFlight, atOnce, loose>>

PolicyNext ==
    \/ \E c \in PolicyCalls :
          \/ \E cost \in 1..PerCallMax, asks \in BOOLEAN : Evaluate(c, cost, asks)
          \/ ApproveCall(c) \/ DropCall(c)
          \/ \E amount \in 0..PerCallMax : RecordSpend(c, amount)
    \/ \E amount \in 1..PerCallMax : RecordUnestimated(amount)
    \/ \E max \in HourMaxes : UpdatePolicy(max)
    \/ GetSpendSummary \/ PolicyTick

PolicySpec == PolicyInit /\ [][PolicyNext]_policyVars

-----------------------------------------------------------------------------
(* Properties.                                                             *)

\* The budget is compared with what was recorded, and calls in flight are not: what is
\* recorded in an hour or a day exceeds its budget by no more than perCallMax for every
\* other call that was in flight at the same time, and by nothing if there was none.
OverspentByOverlap ==
    ~loose => /\ hourly <= perHourMax + (atOnce - 1) * PerCallMax
              /\ daily <= DayMax + (atOnce - 1) * PerCallMax
=============================================================================
