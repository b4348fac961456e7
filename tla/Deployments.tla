----------------------------- MODULE Deployments -----------------------------
(***************************************************************************)
(* Approved deploys: the ApprovalManager shared by all project agents      *)
(* (packages/core/src/approval/approval-manager.ts), the DeployAgent of    *)
(* each of them (packages/agents/deploy/src/deploy-agent.ts), the deploy   *)
(* branch of the project agent and the dashboard's vote route.             *)
(*                                                                         *)
(* An approving chat message votes, then awaits an audit write, then       *)
(* follows the vote up in the deploy history of the agent it was sent to.  *)
(* Audit writes end in any order and may fail.                             *)
(***************************************************************************)
EXTENDS Naturals, FiniteSets, SequencesExt

CONSTANTS
    Agents,        \* project agents, each with a deploy agent
    Users,         \* people who request and vote
    Environments,  \* the environments they name, as the intent parser spells them
    MaxRequests,   \* bound on the approval requests
    MaxAutoDeploys \* bound on the automatic deploys

ASSUME EnvironmentsAssumption == Environments \subseteq {"staging", "production", "prod"}

ASSUME BoundsAssumption == MaxRequests \in Nat /\ MaxAutoDeploys \in Nat

VARIABLES
    requests, \* the approval requests; a token is a position
    overdue,  \* tokens past their expiresAt
    history,  \* deployHistory of each agent's deploy agent
    fullAuto, \* agents at autonomy level 5
    inFlight, \* approving messages that await their audit write
    strayed   \* history variable: tokens with an accepted vote that the agent
              \* holding the entry did not follow up

deployVars == <<requests, overdue, history, fullAuto, inFlight, strayed>>

\* The approvalToken "" of an entry that was not put to a vote.
NoToken == 0
Tokens == 1..MaxRequests

Votes == [user : Users, vote : {"approve", "deny"}]
Requests == [type : {"deploy", "rollback"}, requestedBy : Users,
             requiredApprovals : {1, 2}, votes : Seq(Votes),
             status : {"pending", "approved", "denied", "expired"}]
Entries == [id : Nat, environment : Environments, token : Tokens \union {NoToken},
            status : {"pending_approval", "deployed", "failed"},
            approvals : SUBSET Users]
FollowUps == [agent : Agents, token : Tokens, user : Users,
              result : {"approved", "denied", "pending"}]

Init ==
    /\ requests = <<>>
    /\ overdue = {}
    /\ history = [a \in Agents |-> <<>>]
    /\ fullAuto = {}
    /\ inFlight = {}
    /\ strayed = {}

-----------------------------------------------------------------------------
(* Voting.                                                                 *)

\* Mutant: one user may vote twice.
MayVoteAgain(t, u) ==
    /\ requests[t].status = "pending"
    /\ t \notin overdue
    /\ requests[t].requiredApprovals > 1 => u # requests[t].requestedBy

\* The checks of vote().
MayVote(t, u) ==
    /\ requests[t].status = "pending"
    /\ t \notin overdue
    /\ requests[t].requiredApprovals > 1 => u # requests[t].requestedBy
    /\ \A v \in ToSet(requests[t].votes) : v.user # u

\* The votes that approve, by their positions.
Approving(votes) == {i \in DOMAIN votes : votes[i].vote = "approve"}

Tally(votes, required) ==
    IF \E v \in ToSet(votes) : v.vote = "deny" THEN "denied"
    ELSE IF Cardinality(Approving(votes)) >= required THEN "approved"
    ELSE "pending"

Result(t, u, vote) ==
    Tally(Append(requests[t].votes, [user |-> u, vote |-> vote]),
          requests[t].requiredApprovals)

CastVote(t, u, vote) ==
    requests' = [requests EXCEPT ![t].votes = Append(@, [user |-> u, vote |-> vote]),
                                 ![t].status = Result(t, u, vote)]

-----------------------------------------------------------------------------
(* Requests.                                                               *)

\* The `autonomy' message, to level 5 or away from it.
SetAutonomy(a) ==
    /\ fullAuto' = IF a \in fullAuto THEN fullAuto \ {a} ELSE fullAuto \union {a}
    /\ UNCHANGED <<requests, overdue, history, inFlight, strayed>>

\* shouldAutoExecute of a deploy intent, whose risk is "high".
ShouldAutoExecute(a, env) == a \in fullAuto /\ env # "production"

Record(a, entry) == history' = [history EXCEPT ![a] = Append(@, entry)]

AutoDeploys ==
    UNION {{a} \X {i \in DOMAIN history[a] : history[a][i].token = NoToken} : a \in Agents}

\* executeDeploy.
AutoDeploy(a, env) ==
    /\ ShouldAutoExecute(a, env)
    /\ Cardinality(AutoDeploys) < MaxAutoDeploys
    /\ Record(a, [id |-> 0, environment |-> env, token |-> NoToken,
                  status |-> "deployed", approvals |-> {}])
    /\ UNCHANGED <<requests, overdue, fullAuto, inFlight, strayed>>

\* createRequest, and the entry that waits for its outcome.
Open(a, u, type, env, required, id) ==
    /\ Len(requests) < MaxRequests
    /\ requests' = Append(requests, [type |-> type, requestedBy |-> u,
                                     requiredApprovals |-> required,
                                     votes |-> <<>>, status |-> "pending"])
    /\ Record(a, [id |-> id, environment |-> env, token |-> Len(requests) + 1,
                  status |-> "pending_approval", approvals |-> {}])
    /\ UNCHANGED <<overdue, fullAuto, inFlight, strayed>>

Required(env) == IF env = "production" THEN 2 ELSE 1

\* handleDeploy.
RequestDeploy(a, u, env) ==
    /\ ~ShouldAutoExecute(a, env)
    /\ Open(a, u, "deploy", env, Required(env), Len(requests) + 1)

RollbackIds(a) ==
    {e.id : e \in {x \in ToSet(history[a]) :
                     x.token # NoToken /\ requests[x.token].type = "rollback"}}

\* handleRollback.  The id is a time stamp, so two rollbacks requested of one
\* agent within a millisecond share it.
RequestRollback(a, u, env) ==
    /\ \E e \in ToSet(history[a]) : e.environment = env /\ e.status = "deployed"
    /\ \E id \in {Len(requests) + 1} \union RollbackIds(a) :
          Open(a, u, "rollback", env, 2, id)

-----------------------------------------------------------------------------
(* Votes and what follows them.                                            *)

\* The entry tokenToDeployId and find() arrive at in an agent's history.
EntryFor(a, t) ==
    {i \in DOMAIN history[a] :
       /\ \E j \in DOMAIN history[a] :
             history[a][j].token = t /\ history[a][i].id = history[a][j].id
       /\ \A k \in 1..(i-1) : history[a][k].id # history[a][i].id}

Holds(a, t) == EntryFor(a, t) # {}

\* handleApprove up to the await: the vote, cast at whichever agent the
\* message was routed to.
Approve(a, u, t) ==
    /\ MayVote(t, u)
    /\ CastVote(t, u, "approve")
    /\ inFlight' = inFlight \union
                     {[agent |-> a, token |-> t, user |-> u, result |-> Result(t, u, "approve")]}
    /\ strayed' = IF Holds(a, t) THEN strayed ELSE strayed \union {t}
    /\ UNCHANGED <<overdue, history, fullAuto>>

\* Mutant: the deploy is left half done.
FollowedUpHalf(entry, user, result) ==
    CASE result = "approved" -> [entry EXCEPT !.status = "deploying",
                                              !.approvals = @ \union {user}]
      [] result = "denied" -> [entry EXCEPT !.status = "failed"]
      [] result = "pending" -> [entry EXCEPT !.approvals = @ \union {user}]

\* Mutant: a vote short of the quorum puts the entry back to waiting.
FollowedUpReopens(entry, user, result) ==
    CASE result = "approved" -> [entry EXCEPT !.status = "deployed",
                                              !.approvals = @ \union {user}]
      [] result = "denied" -> [entry EXCEPT !.status = "failed"]
      [] result = "pending" -> [entry EXCEPT !.status = "pending_approval",
                                             !.approvals = @ \union {user}]

\* Mutant: the deciding vote is not recorded.
FollowedUpUnrecorded(entry, user, result) ==
    CASE result = "approved" -> [entry EXCEPT !.status = "deployed"]
      [] result = "denied" -> [entry EXCEPT !.status = "failed"]
      [] result = "pending" -> [entry EXCEPT !.approvals = @ \union {user}]

FollowedUp(entry, user, result) ==
    CASE result = "approved" -> [entry EXCEPT !.status = "deployed",
                                              !.approvals = @ \union {user}]
      [] result = "denied" -> [entry EXCEPT !.status = "failed"]
      [] result = "pending" -> [entry EXCEPT !.approvals = @ \union {user}]

\* The rest of handleApprove, once the audit write is done.
FinishApprove(f) ==
    /\ f \in inFlight
    /\ inFlight' = inFlight \ {f}
    /\ \/ /\ ~Holds(f.agent, f.token)
          /\ UNCHANGED history
       \/ \E i \in EntryFor(f.agent, f.token) :
             history' = [history EXCEPT ![f.agent][i] = FollowedUp(@, f.user, f.result)]
    /\ UNCHANGED <<requests, overdue, fullAuto, strayed>>

\* The audit write throws, and so does handleApprove.
AuditFails(f) ==
    /\ f \in inFlight
    /\ inFlight' = inFlight \ {f}
    /\ strayed' = strayed \union {f.token}
    /\ UNCHANGED <<requests, overdue, history, fullAuto>>

\* POST /api/approval/vote.
DashboardVote(u, t, vote) ==
    /\ MayVote(t, u)
    /\ CastVote(t, u, vote)
    /\ strayed' = strayed \union {t}
    /\ UNCHANGED <<overdue, history, fullAuto, inFlight>>

\* Time passes the expiresAt of a request; a settled one has no use for it.
Lapse(t) ==
    /\ t \notin overdue
    /\ requests[t].status = "pending"
    /\ overdue' = overdue \union {t}
    /\ UNCHANGED <<requests, history, fullAuto, inFlight, strayed>>

\* A vote on an overdue request is refused and expires it.
LateVote(t) ==
    /\ t \in overdue
    /\ requests[t].status = "pending"
    /\ requests' = [requests EXCEPT ![t].status = "expired"]
    /\ UNCHANGED <<overdue, history, fullAuto, inFlight, strayed>>

-----------------------------------------------------------------------------

Next ==
    \/ \E a \in Agents : SetAutonomy(a)
    \/ \E a \in Agents, env \in Environments : AutoDeploy(a, env)
    \/ \E a \in Agents, u \in Users, env \in Environments :
          RequestDeploy(a, u, env) \/ RequestRollback(a, u, env)
    \/ \E a \in Agents, u \in Users, t \in DOMAIN requests : Approve(a, u, t)
    \/ \E f \in inFlight : FinishApprove(f) \/ AuditFails(f)
    \/ \E u \in Users, t \in DOMAIN requests, vote \in {"approve", "deny"} :
          DashboardVote(u, t, vote)
    \/ \E t \in DOMAIN requests : Lapse(t) \/ LateVote(t)

Spec == Init /\ [][Next]_deployVars

-----------------------------------------------------------------------------
(* Properties.                                                             *)

\* Every variable has its type.
TypeOK ==
    /\ requests \in Seq(Requests)
    /\ overdue \in SUBSET Tokens
    /\ history \in [Agents -> Seq(Entries)]
    /\ fullAuto \in SUBSET Agents
    /\ inFlight \in SUBSET FollowUps
    /\ strayed \in SUBSET Tokens

Approvers(t) == {requests[t].votes[i].user : i \in Approving(requests[t].votes)}

IsDeploy(e) == e.token # NoToken /\ requests[e.token].type = "deploy"

\* A deploy put to a vote happens on a quorum only: enough different people
\* approved it in time, the requester not among them where two are needed,
\* and nobody denied it, on whatever channel and in whatever order their
\* messages were followed up.
DeployedWithQuorum ==
    \A a \in Agents : \A e \in ToSet(history[a]) :
       IsDeploy(e) /\ e.status = "deployed" =>
          LET r == requests[e.token] IN
          /\ r.status = "approved"
          /\ Cardinality(Approvers(e.token)) >= r.requiredApprovals
          /\ r.requiredApprovals > 1 => r.requestedBy \notin Approvers(e.token)
          /\ \A v \in ToSet(r.votes) : v.vote # "deny"

\* What has been deployed stays deployed: the follow-up of an earlier vote
\* that ends after the deciding one takes nothing back.
DeployedIsFinal ==
    [][\A a \in Agents : \A i \in DOMAIN history[a] :
          history[a][i].status = "deployed" => history'[a][i].status = "deployed"]_deployVars

\* When every vote was sent to the agent that holds the deploy and has been
\* followed up, the agent and the approval manager agree on who approved and
\* on whether the deploy may go ahead.
FollowedUpVotesAgree ==
    \A a \in Agents : \A e \in ToSet(history[a]) :
       /\ IsDeploy(e)
       /\ e.token \notin strayed
       /\ \A f \in inFlight : f.token # e.token
       => /\ e.approvals = Approvers(e.token)
          /\ (e.status = "deployed") = (requests[e.token].status = "approved")

\* CHANGELOG.md:108: a production deploy has a quorum of two.
ProductionHasTwoApprovals ==
    \A a \in Agents : \A e \in ToSet(history[a]) :
       e.environment \in {"production", "prod"} /\ e.status = "deployed" =>
          Cardinality(e.approvals) >= 2
=============================================================================
