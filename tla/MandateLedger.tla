---------------------------- MODULE MandateLedger ----------------------------
(***************************************************************************)
(* What a persistent mandate backend promises its callers                  *)
(* (packages/core/src/mandate/types.ts, MandateBackend): a durable ledger  *)
(* in which a mandate is put once, used at most once, never after it was   *)
(* revoked, and from which nothing is ever erased.                         *)
(*                                                                         *)
(* A call is answered "ok" only when its effect is in the ledger.  A call  *)
(* answered with an error may still take effect.                           *)
(***************************************************************************)
CONSTANTS
    Mandates, \* mandate ids
    Calls,    \* invocations of the backend, each made once
    None      \* undefined

VARIABLES
    ledger, \* the durable state of each mandate
    asked,  \* what each call asks for
    answer  \* what became of it

ledgerVars == <<ledger, asked, answer>>

\* The call that put usedAt and the call that put revokedAt on a mandate.
Entries == [usedBy : Calls \union {None}, revokedBy : Calls \union {None}]
Fresh == [usedBy |-> None, revokedBy |-> None]

Kinds == {"put", "use", "revoke", "get"}

\* Call c asked for a `kind' of mandate m and may still take effect.
Eligible(c, kind, m) ==
    /\ asked[c] = [kind |-> kind, id |-> m]
    /\ answer[c] \in {"pending", "failed"}

InLedger(c) ==
    LET m == asked[c].id IN
    CASE asked[c].kind = "put" -> ledger[m] # None
      [] asked[c].kind = "use" -> ledger[m] # None /\ ledger[m].usedBy = c
      [] asked[c].kind = "revoke" -> ledger[m] # None /\ ledger[m].revokedBy = c
      [] asked[c].kind = "get" -> TRUE

LedgerInit ==
    /\ ledger \in [Mandates -> {None, Fresh}]
    /\ asked = [c \in Calls |-> None]
    /\ answer = [c \in Calls |-> "none"]

Ask(c, kind, m) ==
    /\ answer[c] = "none"
    /\ asked' = [asked EXCEPT ![c] = [kind |-> kind, id |-> m]]
    /\ answer' = [answer EXCEPT ![c] = "pending"]
    /\ UNCHANGED ledger

\* Several calls may take effect at once, each on a mandate that allows it.
Advances(m) ==
    \/ ledger'[m] = ledger[m]
    \/ /\ ledger[m] = None => \E c \in Calls : Eligible(c, "put", m)
       /\ LET old == IF ledger[m] = None THEN Fresh ELSE ledger[m]
              new == ledger'[m]
          IN /\ new \in Entries
             /\ \/ new.usedBy = old.usedBy
                \/ /\ old.usedBy = None /\ old.revokedBy = None
                   /\ \E c \in Calls : new.usedBy = c /\ Eligible(c, "use", m)
             /\ \/ new.revokedBy = old.revokedBy
                \/ /\ old.revokedBy = None
                   /\ \E c \in Calls : new.revokedBy = c /\ Eligible(c, "revoke", m)

Commit ==
    /\ ledger' \in [Mandates -> Entries \union {None}]
    /\ \A m \in Mandates : Advances(m)
    /\ UNCHANGED <<asked, answer>>

Answer(c) ==
    /\ answer[c] = "pending"
    /\ \E result \in {"ok", "refused", "failed"} :
          /\ result = "ok" => InLedger(c)
          /\ answer' = [answer EXCEPT ![c] = result]
    /\ UNCHANGED <<ledger, asked>>

\* Calls in flight are lost with the process.
CrashLoses ==
    /\ answer' = [c \in Calls |-> IF answer[c] = "pending" THEN "lost" ELSE answer[c]]
    /\ UNCHANGED <<ledger, asked>>

LedgerNext ==
    \/ \E c \in Calls, kind \in Kinds, m \in Mandates : Ask(c, kind, m)
    \/ \E c \in Calls : Answer(c)
    \/ Commit
    \/ CrashLoses

LedgerSpec == LedgerInit /\ [][LedgerNext]_ledgerVars
=============================================================================
