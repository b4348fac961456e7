----------------------------- MODULE ContainerPool -----------------------------
(***************************************************************************)
(* The pool of sandbox containers:                                         *)
(* packages/core/src/execution/container-pool.ts, and its use by           *)
(* executeInDocker of packages/core/src/execution/claude-bridge.ts.        *)
(*                                                                         *)
(* Creating and destroying a container are awaited.  The pool never blocks *)
(* a caller and may grow past its size.  A drain, at shutdown, does not    *)
(* wait for executions that hold a container.                              *)
(***************************************************************************)
EXTENDS Naturals, FiniteSets, Undefined

CONSTANTS
    Containers, \* bounds the containers ever created; their ids differ
    Executions, \* calls of executeInDocker, each made once
    MaxSize     \* maxSize

ASSUME PoolAssumption ==
    /\ MaxSize \in Nat \ {0}
    /\ None \notin Containers
    /\ \A cs \in SUBSET Containers : cs # None

VARIABLES
    created,   \* containers ever created
    destroyed, \* containers stopped and destroyed, as far as Docker would
    available, \* available
    active,    \* active
    warming,   \* creations that warmUp awaits
    exec,      \* what each execution awaits
    holds,     \* the container it has
    drained    \* the containers the drain destroys; None before it

poolVars == <<created, destroyed, available, active, warming, exec, holds, drained>>

ExecStages == {"idle", "creating", "running", "replacing", "dropping", "refilling", "done"}

PoolTypeOK ==
    /\ created \subseteq Containers
    /\ destroyed \subseteq created
    /\ available \subseteq created
    /\ active \subseteq created
    /\ warming \in 0..MaxSize
    /\ exec \in [Executions -> ExecStages]
    /\ holds \in [Executions -> created \union {None}]
    /\ drained = None \/ drained \subseteq created

PoolInit ==
    /\ created = {}
    /\ destroyed = {}
    /\ available = {}
    /\ active = {}
    /\ warming = 0
    /\ exec = [x \in Executions |-> "idle"]
    /\ holds = [x \in Executions |-> None]
    /\ drained = None

-----------------------------------------------------------------------------
\* createPooledContainer answers.
Created(c) ==
    /\ c \notin created
    /\ created' = created \union {c}

\* warmUp, once at start-up: as many creations as there is room for.
WarmUp(count) ==
    /\ warming = 0 /\ created = {}
    /\ LET room == MaxSize - Cardinality(available) - Cardinality(active) IN
       warming' = IF count <= room THEN count ELSE room
    /\ UNCHANGED <<created, destroyed, available, active, exec, holds, drained>>

\* One of them succeeds or fails.
Warmed(c) ==
    /\ warming > 0
    /\ warming' = warming - 1
    /\ \/ Created(c) /\ available' = available \union {c}
       \/ UNCHANGED <<created, available>>
    /\ UNCHANGED <<destroyed, active, exec, holds, drained>>

\* acquire: a container of the pool, or a new one.
Acquire(x) ==
    /\ exec[x] = "idle"
    /\ \/ \E c \in available :
             /\ available' = available \ {c}
             /\ active' = active \union {c}
             /\ holds' = [holds EXCEPT ![x] = c]
             /\ exec' = [exec EXCEPT ![x] = "running"]
       \/ /\ available = {}
          /\ exec' = [exec EXCEPT ![x] = "creating"]
          /\ UNCHANGED <<available, active, holds>>
    /\ UNCHANGED <<created, destroyed, warming, drained>>

Acquired(x, c) ==
    /\ exec[x] = "creating"
    /\ \/ /\ Created(c)
          /\ active' = active \union {c}
          /\ holds' = [holds EXCEPT ![x] = c]
          /\ exec' = [exec EXCEPT ![x] = "running"]
       \/ /\ exec' = [exec EXCEPT ![x] = "done"]
          /\ UNCHANGED <<created, active, holds>>
    /\ UNCHANGED <<destroyed, available, warming, drained>>

\* The execution ends, well or not, and releases its container: there is room
\* for a new one in its place, or it is only destroyed.
Release(x) ==
    /\ exec[x] = "running"
    /\ active' = active \ {holds[x]}
    /\ exec' = [exec EXCEPT ![x] =
                   IF Cardinality(available) < MaxSize THEN "replacing" ELSE "dropping"]
    /\ UNCHANGED <<created, destroyed, available, warming, holds, drained>>

\* destroyContainer returns; it ignores what Docker throws.
Destroyed(x) ==
    /\ exec[x] \in {"replacing", "dropping"}
    /\ destroyed' = destroyed \union {holds[x]}
    /\ holds' = [holds EXCEPT ![x] = None]
    /\ exec' = [exec EXCEPT ![x] = IF @ = "replacing" THEN "refilling" ELSE "done"]
    /\ UNCHANGED <<created, available, active, warming, drained>>

\* Mutant: the container that was used goes back to the pool.
RefilledWithOld(x, c) ==
    /\ exec[x] = "refilling"
    /\ available' = available \union {c}
    /\ exec' = [exec EXCEPT ![x] = "done"]
    /\ c \in created
    /\ UNCHANGED <<created, destroyed, active, warming, holds, drained>>

\* The fresh container is there, or could not be created.
Refilled(x, c) ==
    /\ exec[x] = "refilling"
    /\ exec' = [exec EXCEPT ![x] = "done"]
    /\ \/ Created(c) /\ available' = available \union {c}
       \/ UNCHANGED <<created, available>>
    /\ UNCHANGED <<destroyed, active, warming, holds, drained>>

\* Mutant: containers in use are left alone.
InPool == available

\* What drain() knows of.
Known == available \union active

\* drain(), at shutdown, up to its await of the containers' destruction.
Drain ==
    /\ drained = None
    /\ drained' = Known
    /\ available' = {}
    /\ active' = {}
    /\ UNCHANGED <<created, destroyed, warming, exec, holds>>

DrainDestroys(c) ==
    /\ drained # None /\ c \in drained \ destroyed
    /\ destroyed' = destroyed \union {c}
    /\ UNCHANGED <<created, available, active, warming, exec, holds, drained>>

PoolNext ==
    \/ \E count \in 1..MaxSize : WarmUp(count)
    \/ \E c \in Containers : Warmed(c) \/ DrainDestroys(c)
    \/ \E x \in Executions :
          \/ Acquire(x) \/ Release(x) \/ Destroyed(x)
          \/ \E c \in Containers : Acquired(x, c) \/ Refilled(x, c)
    \/ Drain

PoolSpec == PoolInit /\ [][PoolNext]_poolVars

-----------------------------------------------------------------------------
(* Properties.                                                             *)

HeldBy(stages) == {holds[x] : x \in {x \in Executions : exec[x] \in stages}}

\* No instruction runs in a container another one has, or had: two executions
\* never share one, and the pool offers none that is in use or destroyed,
\* whatever releases, refills and a drain do meanwhile.
ExclusiveUse ==
    /\ \A x, y \in Executions :
          exec[x] = "running" /\ exec[y] = "running" /\ holds[x] = holds[y] => x = y
    /\ available \intersect (destroyed \union active \union HeldBy({"running"})) = {}

\* No container is forgotten: each is in the pool, in use, about to be destroyed
\* by a release or the drain, or destroyed.
NoneForgotten ==
    created \subseteq available \union active \union destroyed
                       \union HeldBy({"replacing", "dropping"})
                       \union (IF drained = None THEN {} ELSE drained)
=============================================================================
