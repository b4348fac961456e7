---------------------------- MODULE MandateGenerator ----------------------------
(***************************************************************************)
(* Mandates as the embedding program issues, checks, uses and revokes      *)
(* them: packages/core/src/mandate/mandate-generator.ts over the in-memory *)
(* backend (in-memory-backend.ts) or over one that answers with promises,  *)
(* and the deny list it may keep beside it (local-denylist.ts).            *)
(*                                                                         *)
(* A backend that answers with promises is taken as one that applies each  *)
(* call in one step, or fails (MandateFile models the one over a file).    *)
(* Signatures and amounts are left out.                                    *)
(***************************************************************************)
EXTENDS Naturals, Sequences, FiniteSets, Undefined

CONSTANTS
    Permits,     \* mandate ids
    PermitCalls, \* calls of the generator, each made once
    MaxDenied    \* maxSize of the deny list

ASSUME PermitsAssumption == None \notin Permits /\ MaxDenied \in Nat

VARIABLES
    promises,    \* the backend answers with promises
    issued,      \* what the backend has of each mandate
    expiredOnes, \* mandates past their expiresAt
    permitKind,  \* what each call asks for
    ofPermit,    \* the mandate it asks it for
    inSync,      \* calls of the synchronous methods
    permitStage, \* where each call stands
    permitAnswer,\* what the caller was told
    revoked,     \* the ids the deny list has
    denyOrder,   \* its queue of ids
    since,       \* history: the ids that the deny list took in after each id
    tooLate      \* history: calls that asked for a use after a revocation was answered

storeVars == <<promises, issued, expiredOnes>>
permitCallVars == <<permitKind, ofPermit, inSync, permitStage, permitAnswer, tooLate>>
denyVars == <<revoked, denyOrder, since>>
permitVars == <<storeVars, permitCallVars, denyVars>>

Permit == [used : BOOLEAN, revoked : BOOLEAN]
Unspent == [used |-> FALSE, revoked |-> FALSE]

\* No mandate and no set of ids is taken for none.
ASSUME PermitAssumption == None \notin Permit /\ \A ids \in SUBSET Permits : ids # None

PermitsTypeOK ==
    /\ promises \in BOOLEAN
    /\ issued \in [Permits -> Permit \union {None}]
    /\ expiredOnes \subseteq Permits
    /\ permitKind \in [PermitCalls -> {"create", "use", "charge", "revoke", None}]
    /\ ofPermit \in [PermitCalls -> Permits \union {None}]
    /\ inSync \subseteq PermitCalls /\ tooLate \subseteq PermitCalls
    /\ permitStage \in [PermitCalls -> {"none", "getting", "checked", "sent", "settled"}]
    /\ permitAnswer \in [PermitCalls -> {"none", "ok", "threw", "invalid"}]
    /\ revoked \subseteq Permits
    /\ \A i \in DOMAIN denyOrder : denyOrder[i] \in Permits
    /\ since \in [Permits -> (SUBSET Permits) \union {None}]

\* Mandates may have been issued before.
PermitsInit ==
    /\ promises \in BOOLEAN
    /\ issued \in [Permits -> {Unspent, None}]
    /\ expiredOnes = {}
    /\ permitKind = [c \in PermitCalls |-> None]
    /\ ofPermit = [c \in PermitCalls |-> None]
    /\ inSync = {} /\ tooLate = {}
    /\ permitStage = [c \in PermitCalls |-> "none"]
    /\ permitAnswer = [c \in PermitCalls |-> "none"]
    /\ revoked = {}
    /\ denyOrder = <<>>
    /\ since = [m \in Permits |-> None]

-----------------------------------------------------------------------------
(* The backend.                                                            *)

\* Mutant: markUsed does not look at usedAt.
UsableAgain(m) == issued[m] # None /\ ~issued[m].revoked /\ m \notin expiredOnes

Usable(m) == issued[m] # None /\ ~issued[m].used /\ ~issued[m].revoked /\ m \notin expiredOnes

\* put, markUsed and markRevoked do not throw.
Accepts(kind, m) ==
    CASE kind = "create" -> issued[m] = None
      [] kind \in {"use", "charge"} -> Usable(m)
      [] kind = "revoke" -> issued[m] # None /\ ~issued[m].revoked

Applied(kind, permit) ==
    CASE kind = "create" -> Unspent
      [] kind \in {"use", "charge"} -> [permit EXCEPT !.used = TRUE]
      [] kind = "revoke" -> [permit EXCEPT !.revoked = TRUE]

ApplyTo(kind, m) == issued' = [issued EXCEPT ![m] = Applied(kind, @)]

-----------------------------------------------------------------------------
(* The generator.                                                          *)

RevocationAnswered(m) ==
    \E c \in PermitCalls : permitKind[c] = "revoke" /\ ofPermit[c] = m /\ permitAnswer[c] = "ok"

BeginCall(c, kind, m, sync) ==
    /\ permitStage[c] = "none"
    /\ permitKind' = [permitKind EXCEPT ![c] = kind]
    /\ ofPermit' = [ofPermit EXCEPT ![c] = m]
    /\ inSync' = IF sync THEN inSync \union {c} ELSE inSync

Settle(c, told) ==
    /\ permitStage' = [permitStage EXCEPT ![c] = "settled"]
    /\ permitAnswer' = [permitAnswer EXCEPT ![c] = told]

\* create, use, revoke and the Async ones hand the call to the backend.  The
\* synchronous ones throw when they get a promise, and the backend goes on.
HandOver(c, kind, m, sync) ==
    /\ tooLate' = IF RevocationAnswered(m) THEN tooLate \union {c} ELSE tooLate
    /\ IF promises
          THEN /\ permitStage' = [permitStage EXCEPT ![c] = "sent"]
               /\ permitAnswer' = [permitAnswer EXCEPT ![c] = IF sync THEN "threw" ELSE "none"]
               /\ UNCHANGED issued
       ELSE IF Accepts(kind, m)
          THEN Settle(c, "ok") /\ ApplyTo(kind, m)
          ELSE Settle(c, "threw") /\ UNCHANGED issued

CallBackend(c, kind, m, sync) ==
    /\ BeginCall(c, kind, m, sync)
    /\ HandOver(c, kind, m, sync)
    /\ UNCHANGED <<promises, expiredOnes, denyVars>>

\* isValid and isValidAsync, asked before a use by a program that also looks at its
\* deny list; the transaction's amount is within maxAmount.
BeginCharge(c, m, sync) ==
    /\ BeginCall(c, "charge", m, sync)
    /\ IF m \in revoked THEN Settle(c, "invalid")
       ELSE IF promises /\ sync THEN Settle(c, "threw")
       ELSE IF promises
          THEN permitStage' = [permitStage EXCEPT ![c] = "getting"] /\ UNCHANGED permitAnswer
       ELSE IF Usable(m)
          THEN permitStage' = [permitStage EXCEPT ![c] = "checked"] /\ UNCHANGED permitAnswer
          ELSE Settle(c, "invalid")
    /\ UNCHANGED <<storeVars, denyVars, tooLate>>

\* The backend's get: the mandate is valid, or it is not, or get fails.
GotPermit(c) ==
    /\ permitStage[c] = "getting"
    /\ \/ /\ Usable(ofPermit[c])
          /\ permitStage' = [permitStage EXCEPT ![c] = "checked"]
          /\ UNCHANGED permitAnswer
       \/ ~Usable(ofPermit[c]) /\ Settle(c, "invalid")
       \/ Settle(c, "threw")
    /\ UNCHANGED <<storeVars, denyVars, permitKind, ofPermit, inSync, tooLate>>

UseChecked(c) ==
    /\ permitStage[c] = "checked"
    /\ HandOver(c, "charge", ofPermit[c], c \in inSync)
    /\ UNCHANGED <<promises, expiredOnes, denyVars, permitKind, ofPermit, inSync>>

\* The backend settles its promise.  A failure may come before or after the change.
BackendSettles(c, fails) ==
    /\ permitStage[c] = "sent"
    /\ LET kind == permitKind[c]
           m == ofPermit[c]
           ok == Accepts(kind, m) /\ ~fails
       IN  /\ Settle(c, IF c \in inSync \/ ~ok THEN "threw" ELSE "ok")
           /\ \/ Accepts(kind, m) /\ ApplyTo(kind, m)
              \/ ~ok /\ UNCHANGED issued
    /\ UNCHANGED <<promises, expiredOnes, denyVars, permitKind, ofPermit, inSync, tooLate>>

ExpirePermit(m) ==
    /\ m \notin expiredOnes
    /\ expiredOnes' = expiredOnes \union {m}
    /\ UNCHANGED <<promises, issued, permitCallVars, denyVars>>

-----------------------------------------------------------------------------
(* The deny list.                                                          *)

\* Mutant: add() does not look whether it has the id.
KnownNone(m) == FALSE

KnownDenied(m) == m \in revoked

\* add(): the oldest ids make room.
Deny(m) ==
    /\ ~KnownDenied(m)
    /\ LET order == Append(denyOrder, m)
           extra == IF Len(order) > MaxDenied THEN Len(order) - MaxDenied ELSE 0
           evicted == {order[i] : i \in 1..extra}
       IN  /\ denyOrder' = SubSeq(order, extra + 1, Len(order))
           /\ revoked' = (revoked \union {m}) \ evicted
    /\ since' = [n \in Permits |-> IF n = m THEN {} ELSE IF since[n] = None THEN None ELSE since[n] \union {m}]
    /\ UNCHANGED <<storeVars, permitCallVars>>

PermitsNext ==
    \/ \E c \in PermitCalls :
          \/ \E m \in Permits, sync \in BOOLEAN :
                \/ \E kind \in {"create", "use", "revoke"} : CallBackend(c, kind, m, sync)
                \/ BeginCharge(c, m, sync)
          \/ GotPermit(c) \/ UseChecked(c)
          \/ \E fails \in BOOLEAN : BackendSettles(c, fails)
    \/ \E m \in Permits : ExpirePermit(m) \/ Deny(m)

PermitsSpec == PermitsInit /\ [][PermitsNext]_permitVars

-----------------------------------------------------------------------------
(* Properties.                                                             *)

UseOf(c, m) == permitKind[c] \in {"use", "charge"} /\ ofPermit[c] = m /\ permitAnswer[c] = "ok"

\* Of the calls that found a mandate valid, and of those that did not ask, one uses it
\* at most, and none does that asked after a revocation was answered.
ChargedOnce ==
    \A m \in Permits :
       /\ Cardinality({c \in PermitCalls : UseOf(c, m)}) <= 1
       /\ \A c \in tooLate : ~UseOf(c, m)

\* The deny list has an id until it has taken in maxSize others after it.
DeniedUntilPushedOut ==
    \A m \in Permits : since[m] # None /\ Cardinality(since[m]) < MaxDenied => m \in revoked

\* A mandate is good for one use, and the deny list keeps what it was told.
PermitsHold == ChargedOnce /\ DeniedUntilPushedOut
=============================================================================
