------------------------------- MODULE RateLimiter -------------------------------
(***************************************************************************)
(* The limit on requests: checkRateLimit and the hook that calls it,       *)
(* packages/core/src/server/webhook-server.ts.                             *)
(*                                                                         *)
(* A key is a kind of route with the peer that calls it.  Time goes in     *)
(* ticks and an entry has an age instead of a time it is reset at.         *)
(***************************************************************************)
EXTENDS Integers, Sequences, Undefined

CONSTANTS
    RateKeys,    \* the keys
    RateLimit,   \* the limit for each key: 30 or 100 in the code
    WindowTicks  \* WINDOW_MS

RateEntry == [count : Nat, age : Nat]

ASSUME RateAssumption ==
    /\ RateLimit \in [RateKeys -> Nat \ {0}] /\ WindowTicks \in Nat \ {0}
    /\ None \notin RateEntry

VARIABLES
    rateLimits, \* the entry of each key: its count, which stays at one over the limit, and age
    passed      \* history: the ages of the requests let through, up to a window, oldest first

rateVars == <<rateLimits, passed>>

Past == WindowTicks + 1

RateTypeOK ==
    /\ \A k \in RateKeys : rateLimits[k] \in [count : 1..(RateLimit[k] + 1), age : 0..Past] \union {None}
    /\ passed \in [RateKeys -> Seq(0..WindowTicks)]

RateInit ==
    /\ rateLimits = [k \in RateKeys |-> None]
    /\ passed = [k \in RateKeys |-> <<>>]

\* Mutant: a new window does not count the request that opens it.
UncountedEntry == [count |-> 0, age |-> 0]

NewEntry == [count |-> 1, age |-> 0]

\* checkRateLimit.
CheckRateLimit(k) ==
    LET entry == rateLimits[k]
        next == IF entry = None \/ entry.age > WindowTicks THEN NewEntry
                ELSE IF entry.count > RateLimit[k] THEN entry ELSE [entry EXCEPT !.count = @ + 1]
    IN  /\ rateLimits' = [rateLimits EXCEPT ![k] = next]
        /\ passed' = IF next.count <= RateLimit[k] THEN [passed EXCEPT ![k] = Append(@, 0)] ELSE passed

\* The interval that cleans up.
CleanUpRates ==
    /\ rateLimits' = [k \in RateKeys |->
                        IF rateLimits[k] # None /\ rateLimits[k].age > WindowTicks THEN None ELSE rateLimits[k]]
    /\ UNCHANGED passed

\* How many of the requests let through, the oldest, were let through a window ago.
Leaving(ages) == CHOOSE n \in 0..Len(ages) : \A i \in DOMAIN ages : i <= n <=> ages[i] >= WindowTicks

RateTick ==
    /\ rateLimits' = [k \in RateKeys |->
                        IF rateLimits[k] = None \/ rateLimits[k].age = Past THEN rateLimits[k]
                        ELSE [rateLimits[k] EXCEPT !.age = @ + 1]]
    /\ passed' = [k \in RateKeys |->
                    LET gone == Leaving(passed[k])
                    IN  [i \in 1..(Len(passed[k]) - gone) |-> passed[k][gone + i] + 1]]

RateNext == (\E k \in RateKeys : CheckRateLimit(k)) \/ CleanUpRates \/ RateTick

RateSpec == RateInit /\ [][RateNext]_rateVars

-----------------------------------------------------------------------------
(* Properties.                                                             *)

\* Windows begin with a request and do not slide, so that two of them lie within the time
\* of one; but never more than two, whenever entries are renewed or cleaned up.
AtMostTwoWindows == \A k \in RateKeys : Len(passed[k]) <= 2 * RateLimit[k]
=============================================================================
