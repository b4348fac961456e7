--------------------------- MODULE DeploymentsProofs ---------------------------
(***************************************************************************)
(* Theorems about Deployments, for all sets of agents and users and all    *)
(* bounds.                                                                 *)
(***************************************************************************)
EXTENDS Deployments, FiniteSetTheorems, TLAPS

-----------------------------------------------------------------------------
(* Types.                                                                  *)

DeployTypeInv == TypeOK /\ Len(requests) <= MaxRequests

\* A token of a request is a token.
LEMMA TokensOfRequests ==
    ASSUME DeployTypeInv
    PROVE  /\ DOMAIN requests \subseteq Tokens
           /\ \A t \in DOMAIN requests : t # NoToken /\ requests[t] \in Requests
BY BoundsAssumption DEF DeployTypeInv, TypeOK, Tokens, NoToken

\* The outcome of a vote is one of three.
LEMMA ResultType ==
    ASSUME NEW t, NEW u, NEW vote
    PROVE  Result(t, u, vote) \in {"approved", "denied", "pending"}
BY DEF Result, Tally

\* Casting a vote changes a request and no other.
LEMMA CastVoteType ==
    ASSUME DeployTypeInv, NEW t \in DOMAIN requests, NEW u \in Users,
           NEW vote \in {"approve", "deny"}, CastVote(t, u, vote)
    PROVE  /\ requests' \in Seq(Requests)
           /\ DOMAIN requests' = DOMAIN requests
           /\ Len(requests') = Len(requests)
           /\ \A s \in DOMAIN requests \ {t} : requests'[s] = requests[s]
           /\ requests'[t].votes = Append(requests[t].votes, [user |-> u, vote |-> vote])
           /\ requests'[t].status = Result(t, u, vote)
           /\ requests'[t].type = requests[t].type
           /\ requests'[t].requestedBy = requests[t].requestedBy
           /\ requests'[t].requiredApprovals = requests[t].requiredApprovals
<1> DEFINE v == [user |-> u, vote |-> vote]
<1>1. requests \in Seq(Requests) /\ requests[t] \in Requests
  BY DEF DeployTypeInv, TypeOK
<1>2. Append(requests[t].votes, v) \in Seq(Votes)
  BY <1>1 DEF Requests, Votes
<1> DEFINE q == [requests[t] EXCEPT !.votes = Append(requests[t].votes, v),
                                   !.status = Result(t, u, vote)]
<1>3. requests' = [requests EXCEPT ![t] = q]
  <2>1. requests' = [requests EXCEPT ![t].votes = Append(@, v), ![t].status = Result(t, u, vote)]
    BY DEF CastVote
  <2> QED BY <1>1, <2>1
<1>4. Result(t, u, vote) \in {"pending", "approved", "denied", "expired"}
  BY ResultType
<1>5. /\ q \in Requests
      /\ q.votes = Append(requests[t].votes, v) /\ q.status = Result(t, u, vote)
      /\ q.type = requests[t].type /\ q.requestedBy = requests[t].requestedBy
      /\ q.requiredApprovals = requests[t].requiredApprovals
  BY <1>1, <1>2, <1>4 DEF Requests
<1> HIDE DEF q, v
<1>6. requests' \in Seq(Requests) /\ Len(requests') = Len(requests) /\ DOMAIN requests' = DOMAIN requests
  BY <1>1, <1>3, <1>5
<1>7. requests'[t] = q /\ \A s \in DOMAIN requests \ {t} : requests'[s] = requests[s]
  BY <1>1, <1>3
<1> QED BY <1>5, <1>6, <1>7 DEF v

\* A new request takes the next token.
LEMMA OpenType ==
    ASSUME DeployTypeInv, NEW a \in Agents, NEW u \in Users, NEW type \in {"deploy", "rollback"},
           NEW env \in Environments, NEW required \in {1, 2}, NEW id \in Nat,
           Open(a, u, type, env, required, id)
    PROVE  /\ DeployTypeInv'
           /\ DOMAIN requests' = DOMAIN requests \union {Len(requests) + 1}
           /\ Len(requests) + 1 \notin DOMAIN requests
           /\ \A t \in DOMAIN requests : requests'[t] = requests[t]
           /\ requests'[Len(requests) + 1] =
                 [type |-> type, requestedBy |-> u, requiredApprovals |-> required,
                  votes |-> <<>>, status |-> "pending"]
           /\ history' = [history EXCEPT ![a] =
                 Append(@, [id |-> id, environment |-> env, token |-> Len(requests) + 1,
                            status |-> "pending_approval", approvals |-> {}])]
           /\ UNCHANGED inFlight
<1> DEFINE r == [type |-> type, requestedBy |-> u, requiredApprovals |-> required,
                 votes |-> <<>>, status |-> "pending"]
           e == [id |-> id, environment |-> env, token |-> Len(requests) + 1,
                 status |-> "pending_approval", approvals |-> {}]
<1>1. requests \in Seq(Requests) /\ Len(requests) \in Nat /\ Len(requests) < MaxRequests
  BY DEF DeployTypeInv, TypeOK, Open
<1>2. r \in Requests
  BY DEF Requests
<1>3. requests' = Append(requests, r)
  BY DEF Open
<1>4. e \in Entries
  BY <1>1, BoundsAssumption DEF Entries, Tokens
<1>5. history' = [history EXCEPT ![a] = Append(@, e)]
  BY DEF Open, Record
<1>6. history' \in [Agents -> Seq(Entries)]
  BY <1>4, <1>5 DEF DeployTypeInv, TypeOK
<1>7. DeployTypeInv'
  BY <1>1, <1>2, <1>3, <1>6, BoundsAssumption DEF DeployTypeInv, TypeOK, Open
<1> QED BY <1>1, <1>2, <1>3, <1>5, <1>7 DEF Open

\* What follows a vote changes an entry within its type.
LEMMA FollowedUpType ==
    ASSUME NEW e \in Entries, NEW f \in FollowUps
    PROVE  FollowedUp(e, f.user, f.result) \in Entries
BY DEF FollowUps, Entries, FollowedUp

\* Every step keeps the types.
LEMMA DeployTypeStep ==
    DeployTypeInv /\ [Next]_deployVars => DeployTypeInv'
<1> SUFFICES ASSUME DeployTypeInv, [Next]_deployVars PROVE DeployTypeInv'
  OBVIOUS
<1>1. ASSUME NEW a \in Agents, SetAutonomy(a)
      PROVE  DeployTypeInv'
  BY <1>1 DEF SetAutonomy, DeployTypeInv, TypeOK
<1>2. ASSUME NEW a \in Agents, NEW env \in Environments, AutoDeploy(a, env)
      PROVE  DeployTypeInv'
  <2> DEFINE e == [id |-> 0, environment |-> env, token |-> NoToken,
                   status |-> "deployed", approvals |-> {}]
  <2>1. e \in Entries
    BY DEF Entries, NoToken
  <2>2. history' \in [Agents -> Seq(Entries)]
    BY <1>2, <2>1 DEF AutoDeploy, Record, DeployTypeInv, TypeOK
  <2> QED BY <1>2, <2>2 DEF AutoDeploy, DeployTypeInv, TypeOK
<1>3. ASSUME NEW a \in Agents, NEW u \in Users, NEW env \in Environments, RequestDeploy(a, u, env)
      PROVE  DeployTypeInv'
  <2>1. Required(env) \in {1, 2} /\ Len(requests) + 1 \in Nat
    BY DEF Required, DeployTypeInv, TypeOK
  <2> QED BY <1>3, <2>1, OpenType DEF RequestDeploy
<1>4. ASSUME NEW a \in Agents, NEW u \in Users, NEW env \in Environments, RequestRollback(a, u, env)
      PROVE  DeployTypeInv'
  <2>1. \A id \in {Len(requests) + 1} \union RollbackIds(a) : id \in Nat
    <3>1. history[a] \in Seq(Entries)
      BY DEF DeployTypeInv, TypeOK
    <3>2. \A e \in Entries : e.id \in Nat
      BY DEF Entries
    <3>3. \A i \in DOMAIN history[a] : history[a][i].id \in Nat
      BY <3>1, <3>2
    <3>4. \A e \in ToSet(history[a]) : e.id \in Nat
      BY <3>3 DEF ToSet
    <3>5. Len(requests) + 1 \in Nat
      BY DEF DeployTypeInv, TypeOK
    <3> QED BY <3>4, <3>5 DEF RollbackIds
  <2> QED BY <1>4, <2>1, OpenType DEF RequestRollback
<1>5. ASSUME NEW a \in Agents, NEW u \in Users, NEW t \in DOMAIN requests, Approve(a, u, t)
      PROVE  DeployTypeInv'
  <2>1. [agent |-> a, token |-> t, user |-> u, result |-> Result(t, u, "approve")] \in FollowUps
    BY ResultType, TokensOfRequests DEF FollowUps
  <2>2. CastVote(t, u, "approve")
    BY <1>5 DEF Approve
  <2>3. requests' \in Seq(Requests) /\ Len(requests') = Len(requests)
    BY <2>2, CastVoteType
  <2> QED BY <1>5, <2>1, <2>3, TokensOfRequests DEF Approve, DeployTypeInv, TypeOK
<1>6. ASSUME NEW f \in inFlight, FinishApprove(f)
      PROVE  DeployTypeInv'
  <2>1. f \in FollowUps
    BY DEF DeployTypeInv, TypeOK
  <2>2. history' \in [Agents -> Seq(Entries)]
    <3>1. CASE UNCHANGED history
      BY <3>1 DEF DeployTypeInv, TypeOK
    <3>2. ASSUME NEW i \in EntryFor(f.agent, f.token),
                 history' = [history EXCEPT ![f.agent][i] = FollowedUp(@, f.user, f.result)]
          PROVE  history' \in [Agents -> Seq(Entries)]
      <4>1. f.agent \in Agents /\ i \in DOMAIN history[f.agent]
        BY <2>1 DEF FollowUps, EntryFor
      <4>2. history[f.agent] \in Seq(Entries) /\ history[f.agent][i] \in Entries
        BY <4>1 DEF DeployTypeInv, TypeOK
      <4>3. FollowedUp(history[f.agent][i], f.user, f.result) \in Entries
        BY <2>1, <4>2, FollowedUpType
      <4>4. [history[f.agent] EXCEPT ![i] = FollowedUp(history[f.agent][i], f.user, f.result)] \in Seq(Entries)
        BY <4>1, <4>2, <4>3
      <4> QED BY <3>2, <4>4 DEF DeployTypeInv, TypeOK
    <3> QED BY <1>6, <3>1, <3>2 DEF FinishApprove
  <2> QED BY <1>6, <2>2 DEF FinishApprove, DeployTypeInv, TypeOK
<1>7. ASSUME NEW f \in inFlight, AuditFails(f)
      PROVE  DeployTypeInv'
  BY <1>7 DEF AuditFails, DeployTypeInv, TypeOK, FollowUps
<1>8. ASSUME NEW u \in Users, NEW t \in DOMAIN requests, NEW vote \in {"approve", "deny"},
             DashboardVote(u, t, vote)
      PROVE  DeployTypeInv'
  <2>1. CastVote(t, u, vote)
    BY <1>8 DEF DashboardVote
  <2>2. requests' \in Seq(Requests) /\ Len(requests') = Len(requests)
    BY <2>1, CastVoteType
  <2> QED BY <1>8, <2>2, TokensOfRequests DEF DashboardVote, DeployTypeInv, TypeOK
<1>9. ASSUME NEW t \in DOMAIN requests, Lapse(t)
      PROVE  DeployTypeInv'
  BY <1>9, TokensOfRequests DEF Lapse, DeployTypeInv, TypeOK
<1>10. ASSUME NEW t \in DOMAIN requests, LateVote(t)
       PROVE  DeployTypeInv'
  <2>1. [requests[t] EXCEPT !.status = "expired"] \in Requests
    BY TokensOfRequests DEF Requests
  <2> QED BY <1>10, <2>1 DEF LateVote, DeployTypeInv, TypeOK
<1>11. CASE UNCHANGED deployVars
  BY <1>11 DEF deployVars, DeployTypeInv, TypeOK
<1> QED
  BY <1>1, <1>2, <1>3, <1>4, <1>5, <1>6, <1>7, <1>8, <1>9, <1>10, <1>11 DEF Next

-----------------------------------------------------------------------------
(* Votes.  Each user votes once, so that counting votes counts people.     *)

VotesAreSound(r) ==
    /\ \A i, j \in DOMAIN r.votes : r.votes[i].user = r.votes[j].user => i = j
    /\ r.requiredApprovals > 1 => \A i \in DOMAIN r.votes : r.votes[i].user # r.requestedBy
    /\ r.status \in {"pending", "approved"} => \A i \in DOMAIN r.votes : r.votes[i].vote # "deny"
    /\ r.status = "approved" => Cardinality(Approving(r.votes)) >= r.requiredApprovals

RequestsAreSound == \A t \in DOMAIN requests : VotesAreSound(requests[t])

\* A vote that may be cast keeps its request sound; one that approves denies nothing.
LEMMA CastVoteSound ==
    ASSUME DeployTypeInv, RequestsAreSound, NEW t \in DOMAIN requests, NEW u \in Users,
           NEW vote \in {"approve", "deny"}, MayVote(t, u), CastVote(t, u, vote)
    PROVE  /\ RequestsAreSound'
           /\ vote = "approve" => Result(t, u, vote) # "denied"
<1> DEFINE r == requests[t]
           v == [user |-> u, vote |-> vote]
           votes == Append(r.votes, v)
<1>1. r \in Requests /\ r.votes \in Seq(Votes) /\ v \in Votes
  BY TokensOfRequests DEF Requests, Votes
<1>2. /\ DOMAIN votes = DOMAIN r.votes \union {Len(r.votes) + 1}
      /\ Len(r.votes) + 1 \notin DOMAIN r.votes
      /\ \A i \in DOMAIN r.votes : votes[i] = r.votes[i]
      /\ votes[Len(r.votes) + 1] = v
  BY <1>1
<1>3. \A i \in DOMAIN r.votes : r.votes[i].user # u /\ r.votes[i].vote # "deny"
  BY <1>1 DEF MayVote, ToSet, RequestsAreSound, VotesAreSound
<1>4. (\E w \in ToSet(votes) : w.vote = "deny") <=> vote = "deny"
  BY <1>2, <1>3 DEF ToSet
<1>5. /\ Result(t, u, vote) = "denied" <=> vote = "deny"
      /\ Result(t, u, vote) = "approved" => Cardinality(Approving(votes)) >= r.requiredApprovals
  BY <1>4 DEF Result, Tally
<1>6. VotesAreSound(r)
  BY DEF RequestsAreSound
<1>7. r.requiredApprovals > 1 => u # r.requestedBy
  BY DEF MayVote
<1>8. /\ requests'[t].votes = votes /\ requests'[t].status = Result(t, u, vote)
      /\ requests'[t].requestedBy = r.requestedBy
      /\ requests'[t].requiredApprovals = r.requiredApprovals
      /\ DOMAIN requests' = DOMAIN requests
      /\ \A s \in DOMAIN requests \ {t} : requests'[s] = requests[s]
  BY CastVoteType
<1> HIDE DEF r, votes
<1>9. VotesAreSound(requests'[t])
  <2>1. \A i, j \in DOMAIN votes : votes[i].user = votes[j].user => i = j
    BY <1>2, <1>3, <1>6 DEF VotesAreSound
  <2>2. r.requiredApprovals > 1 => \A i \in DOMAIN votes : votes[i].user # r.requestedBy
    BY <1>2, <1>6, <1>7 DEF VotesAreSound
  <2>3. Result(t, u, vote) # "denied" => \A i \in DOMAIN votes : votes[i].vote # "deny"
    BY <1>2, <1>3, <1>5
  <2> QED BY <1>5, <1>8, <2>1, <2>2, <2>3 DEF VotesAreSound
<1>10. RequestsAreSound'
  BY <1>8, <1>9 DEF RequestsAreSound
<1> QED BY <1>5, <1>10

\* As many people approved as there are approving votes.
LEMMA ApproversCounted ==
    ASSUME DeployTypeInv, RequestsAreSound, NEW t \in DOMAIN requests
    PROVE  Cardinality(Approvers(t)) = Cardinality(Approving(requests[t].votes))
<1> DEFINE votes == requests[t].votes
           S == Approving(votes)
           g == [i \in S |-> votes[i].user]
<1>1. votes \in Seq(Votes)
  BY TokensOfRequests DEF Requests
<1>2. IsFiniteSet(1..Len(votes))
  BY <1>1, FS_Interval
<1>3. S \in SUBSET (1..Len(votes))
  BY <1>1 DEF Approving
<1>4. IsFiniteSet(S)
  BY <1>2, <1>3, FS_Subset
<1>5. g \in Surjection(S, Approvers(t))
  BY DEF Surjection, Approvers
<1>6. g \in Injection(S, Approvers(t))
  <2>1. \A i, j \in S : votes[i].user = votes[j].user => i = j
    BY DEF RequestsAreSound, VotesAreSound, Approving
  <2>2. \A i, j \in S : g[i] = g[j] => i = j
    BY <2>1
  <2> QED BY <1>5, <2>2 DEF Surjection, Injection, IsInjective
<1> QED BY <1>4, <1>5, <1>6, FS_Surjection

-----------------------------------------------------------------------------
(* Entries.  The id of a deploy is its token; rollbacks share ids with     *)
(* rollbacks only, so a vote on one is never followed up at a deploy.      *)

EntryIsSound(e) ==
    e.token # NoToken =>
       /\ e.token \in DOMAIN requests
       /\ requests[e.token].type = "deploy" => e.id = e.token
       /\ requests[e.token].type = "rollback" =>
             e.id \in DOMAIN requests /\ requests[e.id].type = "rollback"
       /\ requests[e.token].type = "deploy" /\ e.status = "deployed" =>
             requests[e.token].status = "approved"

EntriesAreSound == \A a \in Agents : \A i \in DOMAIN history[a] : EntryIsSound(history[a][i])

FollowUpsAreSound ==
    \A f \in inFlight :
       /\ f.token \in DOMAIN requests
       /\ f.result # "denied"
       /\ f.result = "approved" => requests[f.token].status = "approved"

\* What the steps keep together.
DeployInv == DeployTypeInv /\ RequestsAreSound /\ EntriesAreSound /\ FollowUpsAreSound

\* Requests that keep their type, and their approval, keep entries and follow-ups sound.
LEMMA SoundnessKept ==
    ASSUME DeployInv, DOMAIN requests \subseteq DOMAIN requests',
           \A t \in DOMAIN requests :
              /\ requests'[t].type = requests[t].type
              /\ requests[t].status = "approved" => requests'[t].status = "approved"
    PROVE  /\ \A e : EntryIsSound(e) => EntryIsSound(e)'
           /\ \A f \in inFlight :
                 /\ f.token \in DOMAIN requests'
                 /\ f.result # "denied"
                 /\ f.result = "approved" => requests'[f.token].status = "approved"
BY DEF EntryIsSound, DeployInv, FollowUpsAreSound

\* A request with a number of its own opens a vote of its own.
LEMMA OpenStep ==
    ASSUME DeployInv, NEW a \in Agents, NEW u \in Users, NEW type \in {"deploy", "rollback"},
           NEW env \in Environments, NEW required \in {1, 2}, NEW id \in Nat,
           Open(a, u, type, env, required, id),
           \/ id = Len(requests) + 1
           \/ type = "rollback" /\ id \in DOMAIN requests /\ requests[id].type = "rollback"
    PROVE  DeployInv'
<1> DEFINE n == Len(requests) + 1
           e == [id |-> id, environment |-> env, token |-> n,
                 status |-> "pending_approval", approvals |-> {}]
<1>1. /\ DeployTypeInv'
      /\ DOMAIN requests' = DOMAIN requests \union {n}
      /\ n \notin DOMAIN requests
      /\ \A t \in DOMAIN requests : requests'[t] = requests[t]
      /\ requests'[n] = [type |-> type, requestedBy |-> u, requiredApprovals |-> required,
                         votes |-> <<>>, status |-> "pending"]
      /\ history' = [history EXCEPT ![a] = Append(@, e)]
      /\ UNCHANGED inFlight
  BY OpenType DEF DeployInv
<1>2. VotesAreSound(requests'[n])
  BY <1>1 DEF VotesAreSound
<1>3. RequestsAreSound'
  BY <1>1, <1>2 DEF DeployInv, RequestsAreSound
<1>4. /\ \A x : EntryIsSound(x) => EntryIsSound(x)'
      /\ FollowUpsAreSound'
  BY <1>1, SoundnessKept DEF FollowUpsAreSound
<1>5. \A x : x = e => EntryIsSound(x)'
  BY <1>1 DEF EntryIsSound
<1>6. EntriesAreSound'
  <2>1. history \in [Agents -> Seq(Entries)]
    BY DEF DeployInv, DeployTypeInv, TypeOK
  <2>2. \A b \in Agents : \A i \in DOMAIN history'[b] :
           history'[b][i] = e \/ (i \in DOMAIN history[b] /\ history'[b][i] = history[b][i])
    BY <1>1, <2>1
  <2> QED BY <1>4, <1>5, <2>2 DEF DeployInv, EntriesAreSound
<1> QED BY <1>1, <1>3, <1>4, <1>6 DEF DeployInv

\* A vote changes no entry; an approving one may put its follow-up in flight.
LEMMA VoteStep ==
    ASSUME DeployInv, NEW t \in DOMAIN requests, NEW u \in Users,
           NEW vote \in {"approve", "deny"}, MayVote(t, u), CastVote(t, u, vote),
           DeployTypeInv', UNCHANGED history,
           \A f \in inFlight' \ inFlight :
              vote = "approve" /\ f.token = t /\ f.result = Result(t, u, vote)
    PROVE  DeployInv'
<1>1. /\ DOMAIN requests' = DOMAIN requests
      /\ requests'[t].type = requests[t].type
      /\ requests'[t].status = Result(t, u, vote)
      /\ \A s \in DOMAIN requests \ {t} : requests'[s] = requests[s]
  BY CastVoteType DEF DeployInv
<1>2. RequestsAreSound' /\ (vote = "approve" => Result(t, u, vote) # "denied")
  BY CastVoteSound DEF DeployInv
<1>3. requests[t].status # "approved"
  BY DEF MayVote
<1>4. /\ \A e : EntryIsSound(e) => EntryIsSound(e)'
      /\ \A f \in inFlight :
            /\ f.token \in DOMAIN requests'
            /\ f.result # "denied"
            /\ f.result = "approved" => requests'[f.token].status = "approved"
  BY <1>1, <1>3, SoundnessKept
<1>5. EntriesAreSound'
  BY <1>4 DEF DeployInv, EntriesAreSound
<1>6. FollowUpsAreSound'
  BY <1>1, <1>2, <1>4 DEF FollowUpsAreSound
<1> QED BY <1>2, <1>5, <1>6 DEF DeployInv

\* The follow-up of a vote reaches an entry of its own request, or of a rollback that
\* shares its id with that request's.
LEMMA FinishStep ==
    ASSUME DeployInv, DeployTypeInv', NEW f \in inFlight, FinishApprove(f)
    PROVE  DeployInv'
<1>1. f \in FollowUps /\ f.token \in DOMAIN requests /\ f.token # NoToken
  BY TokensOfRequests DEF DeployInv, DeployTypeInv, TypeOK, FollowUpsAreSound
<1>2. UNCHANGED requests /\ inFlight' = inFlight \ {f}
  BY DEF FinishApprove
<1>3. RequestsAreSound' /\ FollowUpsAreSound'
  BY <1>2 DEF DeployInv, RequestsAreSound, FollowUpsAreSound
<1>4. \A e : EntryIsSound(e) => EntryIsSound(e)'
  BY <1>2 DEF EntryIsSound
<1>5. EntriesAreSound'
  <2>1. CASE UNCHANGED history
    BY <1>4, <2>1 DEF DeployInv, EntriesAreSound
  <2>2. ASSUME NEW i \in EntryFor(f.agent, f.token),
               history' = [history EXCEPT ![f.agent][i] = FollowedUp(@, f.user, f.result)]
        PROVE  EntriesAreSound'
    <3> DEFINE e == history[f.agent][i]
               n == FollowedUp(e, f.user, f.result)
    <3>1. history \in [Agents -> Seq(Entries)] /\ f.agent \in Agents /\ i \in DOMAIN history[f.agent]
      BY <1>1 DEF DeployInv, DeployTypeInv, TypeOK, FollowUps, EntryFor
    <3>2. e \in Entries /\ EntryIsSound(e)
      BY <3>1 DEF DeployInv, EntriesAreSound
    <3>3. PICK j \in DOMAIN history[f.agent] :
             history[f.agent][j].token = f.token /\ e.id = history[f.agent][j].id
      BY DEF EntryFor
    <3>4. EntryIsSound(history[f.agent][j])
      BY <3>1 DEF DeployInv, EntriesAreSound
    <3>5. requests[f.token].type \in {"deploy", "rollback"}
      BY <1>1, TokensOfRequests DEF DeployInv, Requests
    <3>6. e.token # NoToken /\ requests[e.token].type = "deploy" => e.token = f.token
      BY <1>1, <3>2, <3>3, <3>4, <3>5 DEF EntryIsSound
    <3>7. /\ n.id = e.id /\ n.token = e.token
          /\ n.status = "deployed" => f.result = "approved" \/ e.status = "deployed"
      BY <1>1, <3>2 DEF FollowedUp, Entries, FollowUps
    <3>8. f.result = "approved" => requests[f.token].status = "approved"
      BY DEF DeployInv, FollowUpsAreSound
    <3> HIDE DEF n, e
    <3>9. EntryIsSound(n)
      BY <3>2, <3>6, <3>7, <3>8 DEF EntryIsSound
    <3>10. \A b \in Agents : \A k \in DOMAIN history'[b] :
              history'[b][k] = n \/ (k \in DOMAIN history[b] /\ history'[b][k] = history[b][k])
      BY <2>2, <3>1 DEF n, e
    <3> QED BY <1>4, <3>9, <3>10 DEF DeployInv, EntriesAreSound
  <2> QED BY <2>1, <2>2 DEF FinishApprove
<1> QED BY <1>3, <1>5 DEF DeployInv

\* Every step keeps the invariant.
LEMMA DeployStep ==
    DeployInv /\ [Next]_deployVars => DeployInv'
<1> SUFFICES ASSUME DeployInv, [Next]_deployVars PROVE DeployInv'
  OBVIOUS
<1>1. DeployTypeInv'
  BY DeployTypeStep DEF DeployInv
<1>2. ASSUME UNCHANGED <<requests, history>>, inFlight' \subseteq inFlight
      PROVE  DeployInv'
  BY <1>1, <1>2
  DEF DeployInv, RequestsAreSound, EntriesAreSound, EntryIsSound, FollowUpsAreSound
<1>3. CASE \/ \E a \in Agents : SetAutonomy(a)
           \/ \E f \in inFlight : AuditFails(f)
           \/ \E t \in DOMAIN requests : Lapse(t)
           \/ UNCHANGED deployVars
  BY <1>2, <1>3 DEF SetAutonomy, AuditFails, Lapse, deployVars
<1>4. ASSUME NEW a \in Agents, NEW env \in Environments, AutoDeploy(a, env)
      PROVE  DeployInv'
  <2> DEFINE e == [id |-> 0, environment |-> env, token |-> NoToken,
                   status |-> "deployed", approvals |-> {}]
  <2>1. UNCHANGED <<requests, inFlight>> /\ history' = [history EXCEPT ![a] = Append(@, e)]
    BY <1>4 DEF AutoDeploy, Record
  <2>2. history \in [Agents -> Seq(Entries)]
    BY DEF DeployInv, DeployTypeInv, TypeOK
  <2>3. \A b \in Agents : \A i \in DOMAIN history'[b] :
           history'[b][i] = e \/ (i \in DOMAIN history[b] /\ history'[b][i] = history[b][i])
    BY <2>1, <2>2
  <2>4. RequestsAreSound' /\ FollowUpsAreSound'
    BY <2>1 DEF DeployInv, RequestsAreSound, FollowUpsAreSound
  <2>5. \A x : x = e \/ EntryIsSound(x) => EntryIsSound(x)'
    BY <2>1 DEF EntryIsSound
  <2>6. EntriesAreSound'
    BY <2>3, <2>5 DEF DeployInv, EntriesAreSound
  <2> QED BY <1>1, <2>4, <2>6 DEF DeployInv
<1>5. ASSUME NEW a \in Agents, NEW u \in Users, NEW env \in Environments, RequestDeploy(a, u, env)
      PROVE  DeployInv'
  <2>1. Required(env) \in {1, 2} /\ Len(requests) + 1 \in Nat
    BY DEF Required, DeployInv, DeployTypeInv, TypeOK
  <2> QED BY <1>5, <2>1, OpenStep DEF RequestDeploy
<1>6. ASSUME NEW a \in Agents, NEW u \in Users, NEW env \in Environments, RequestRollback(a, u, env)
      PROVE  DeployInv'
  <2>1. Len(requests) \in Nat /\ DOMAIN requests \subseteq Nat
    BY DEF DeployInv, DeployTypeInv, TypeOK
  <2>2. \A e \in ToSet(history[a]) : EntryIsSound(e)
    BY DEF ToSet, DeployInv, EntriesAreSound
  <2>3. \A id \in RollbackIds(a) : id \in DOMAIN requests /\ requests[id].type = "rollback"
    BY <2>2 DEF RollbackIds, EntryIsSound
  <2>4. PICK id \in {Len(requests) + 1} \union RollbackIds(a) : Open(a, u, "rollback", env, 2, id)
    BY <1>6 DEF RequestRollback
  <2> QED BY <2>1, <2>3, <2>4, OpenStep
<1>7. ASSUME NEW a \in Agents, NEW u \in Users, NEW t \in DOMAIN requests, Approve(a, u, t)
      PROVE  DeployInv'
  BY <1>1, <1>7, VoteStep DEF Approve
<1>8. ASSUME NEW f \in inFlight, FinishApprove(f)
      PROVE  DeployInv'
  BY <1>1, <1>8, FinishStep
<1>9. ASSUME NEW u \in Users, NEW t \in DOMAIN requests, NEW vote \in {"approve", "deny"},
             DashboardVote(u, t, vote)
      PROVE  DeployInv'
  BY <1>1, <1>9, VoteStep DEF DashboardVote
<1>10. ASSUME NEW t \in DOMAIN requests, LateVote(t)
       PROVE  DeployInv'
  <2>1. requests \in Seq(Requests) /\ requests[t] \in Requests
    BY DEF DeployInv, DeployTypeInv, TypeOK
  <2> DEFINE r == [requests[t] EXCEPT !.status = "expired"]
  <2>2. /\ requests' = [requests EXCEPT ![t] = r] /\ requests[t].status = "pending"
        /\ UNCHANGED <<history, inFlight>>
    BY <1>10 DEF LateVote
  <2>3. /\ r.type = requests[t].type /\ r.status = "expired" /\ r.votes = requests[t].votes
        /\ r.requiredApprovals = requests[t].requiredApprovals
        /\ r.requestedBy = requests[t].requestedBy
    BY <2>1 DEF Requests
  <2> HIDE DEF r
  <2>4. /\ DOMAIN requests' = DOMAIN requests /\ requests'[t] = r
        /\ \A s \in DOMAIN requests \ {t} : requests'[s] = requests[s]
    BY <2>1, <2>2
  <2>5. VotesAreSound(r)
    BY <2>3 DEF DeployInv, RequestsAreSound, VotesAreSound
  <2>6. RequestsAreSound'
    BY <2>4, <2>5 DEF DeployInv, RequestsAreSound
  <2>7. /\ \A e : EntryIsSound(e) => EntryIsSound(e)'
        /\ FollowUpsAreSound'
    BY <2>2, <2>3, <2>4, SoundnessKept DEF FollowUpsAreSound
  <2>8. EntriesAreSound'
    BY <2>2, <2>7 DEF DeployInv, EntriesAreSound
  <2> QED BY <1>1, <2>6, <2>7, <2>8 DEF DeployInv
<1> QED
  BY <1>3, <1>4, <1>5, <1>6, <1>7, <1>8, <1>9, <1>10 DEF Next

\* DeployInv holds in every state.
THEOREM DeployInvariant == Spec => []DeployInv
<1>1. Init => DeployInv
  BY BoundsAssumption
  DEF Init, DeployInv, DeployTypeInv, TypeOK, RequestsAreSound, EntriesAreSound, FollowUpsAreSound
<1> QED BY <1>1, DeployStep, PTL DEF Spec

\* The variables of requests, votes and deploys keep their types.
THEOREM DeployTypeCorrect == Spec => []TypeOK
<1>1. DeployInv => TypeOK
  BY DEF DeployInv, DeployTypeInv
<1> QED BY <1>1, DeployInvariant, PTL

\* A deploy put to a vote happens only when as many people as it needs approved it,
\* none of them the requester where two are needed, and nobody denied it.
THEOREM QuorumBeforeDeploy == Spec => []DeployedWithQuorum
<1>1. DeployInv => DeployedWithQuorum
  <2> SUFFICES ASSUME DeployInv, NEW a \in Agents, NEW e \in ToSet(history[a]),
                      IsDeploy(e), e.status = "deployed"
               PROVE  LET r == requests[e.token] IN
                      /\ r.status = "approved"
                      /\ Cardinality(Approvers(e.token)) >= r.requiredApprovals
                      /\ r.requiredApprovals > 1 => r.requestedBy \notin Approvers(e.token)
                      /\ \A v \in ToSet(r.votes) : v.vote # "deny"
    BY DEF DeployedWithQuorum
  <2>1. EntryIsSound(e)
    BY DEF ToSet, DeployInv, EntriesAreSound
  <2>2. e.token \in DOMAIN requests /\ requests[e.token].status = "approved"
    BY <2>1 DEF EntryIsSound, IsDeploy
  <2>3. VotesAreSound(requests[e.token])
    BY <2>2 DEF DeployInv, RequestsAreSound
  <2>4. Cardinality(Approvers(e.token)) = Cardinality(Approving(requests[e.token].votes))
    BY <2>2, ApproversCounted DEF DeployInv
  <2> QED BY <2>2, <2>3, <2>4 DEF VotesAreSound, Approvers, Approving, ToSet
<1> QED BY <1>1, DeployInvariant, PTL

\* What has been deployed stays deployed.
THEOREM DeploysAreFinal == Spec => DeployedIsFinal
<1> DEFINE Final == \A a \in Agents : \A i \in DOMAIN history[a] :
                       history[a][i].status = "deployed" => history'[a][i].status = "deployed"
<1>1. DeployInv /\ [Next]_deployVars => [Final]_deployVars
  <2> SUFFICES ASSUME DeployInv, [Next]_deployVars PROVE [Final]_deployVars
    OBVIOUS
  <2> USE DEF Final
  <2>1. history \in [Agents -> Seq(Entries)]
    BY DEF DeployInv, DeployTypeInv, TypeOK
  <2>2. ASSUME NEW a \in Agents, NEW e, Record(a, e)
        PROVE  Final
    BY <2>1, <2>2 DEF Record
  <2>3. ASSUME NEW f \in inFlight, FinishApprove(f)
        PROVE  Final
    <3>1. f \in FollowUps /\ f.result # "denied"
      BY DEF DeployInv, DeployTypeInv, TypeOK, FollowUpsAreSound
    <3>2. \A e \in Entries : e.status = "deployed" => FollowedUp(e, f.user, f.result).status = "deployed"
      BY <3>1 DEF FollowedUp, FollowUps, Entries
    <3>3. ASSUME NEW i \in EntryFor(f.agent, f.token),
                 history' = [history EXCEPT ![f.agent][i] = FollowedUp(@, f.user, f.result)]
          PROVE  Final
      <4>1. history[f.agent][i] \in Entries /\ i \in DOMAIN history[f.agent] /\ f.agent \in Agents
        BY <2>1, <3>1 DEF EntryFor, FollowUps
      <4> QED BY <2>1, <3>2, <3>3, <4>1
    <3> QED BY <2>3, <3>3 DEF FinishApprove
  <2>4. CASE UNCHANGED history
    BY <2>4
  <2> QED
    BY <2>2, <2>3, <2>4
    DEF Next, SetAutonomy, AutoDeploy, RequestDeploy, RequestRollback, Open, Approve, AuditFails,
        DashboardVote, Lapse, LateVote, deployVars
<1> QED BY <1>1, DeployInvariant, PTL DEF Spec, DeployedIsFinal

-----------------------------------------------------------------------------
(* Following up.  A token has one entry, whose id is no other entry's when  *)
(* it is a deploy's, so the follow-ups of its votes all meet there.         *)

\* No two entries wait on one request, and only entries without one have the id 0.
TokensAreUnique ==
    /\ \A a, b \in Agents : \A i \in DOMAIN history[a], j \in DOMAIN history[b] :
          history[a][i].token = history[b][j].token /\ history[a][i].token # NoToken =>
             a = b /\ i = j
    /\ \A a \in Agents : \A i \in DOMAIN history[a] :
          history[a][i].token = NoToken => history[a][i].id = 0

\* A follow-up is of a vote that counts, at the agent with the entry.
FollowUpsAreAtHolders ==
    \A f \in inFlight :
       f.token \notin strayed =>
          /\ f.user \in Approvers(f.token)
          /\ \E i \in DOMAIN history[f.agent] : history[f.agent][i].token = f.token

\* What the entry of a deploy lacks of its votes is in flight.
EntryIsFollowed(e) ==
    IsDeploy(e) /\ e.token \notin strayed =>
       /\ e.approvals \subseteq Approvers(e.token)
       /\ \A u \in Approvers(e.token) :
             u \in e.approvals \/ \E f \in inFlight : f.token = e.token /\ f.user = u
       /\ requests[e.token].status = "approved" =>
             e.status = "deployed" \/ \E f \in inFlight : f.token = e.token /\ f.result = "approved"

EntriesAreFollowed == \A a \in Agents : \A i \in DOMAIN history[a] : EntryIsFollowed(history[a][i])

FollowInv == DeployInv /\ TokensAreUnique /\ FollowUpsAreAtHolders /\ EntriesAreFollowed

\* Two that agree on the votes of a request agree on who approved it.
LEMMA ApproversSame ==
    ASSUME NEW t, requests'[t].votes = requests[t].votes
    PROVE  Approvers(t)' = Approvers(t)
BY DEF Approvers

\* An approving vote adds one approver to its request and to no other.
LEMMA ApproversAfterVote ==
    ASSUME DeployTypeInv, NEW t \in DOMAIN requests, NEW u \in Users, CastVote(t, u, "approve")
    PROVE  /\ Approvers(t)' = Approvers(t) \union {u}
           /\ \A s \in DOMAIN requests \ {t} : Approvers(s)' = Approvers(s)
<1> DEFINE votes == requests[t].votes
           v == [user |-> u, vote |-> "approve"]
<1>1. votes \in Seq(Votes) /\ v \in Votes
  BY TokensOfRequests DEF Requests, Votes
<1>2. requests'[t].votes = Append(votes, v)
      /\ \A s \in DOMAIN requests \ {t} : requests'[s] = requests[s]
  BY CastVoteType
<1>3. \A s \in DOMAIN requests \ {t} : Approvers(s)' = Approvers(s)
  BY <1>2, ApproversSame
<1>4. /\ DOMAIN Append(votes, v) = DOMAIN votes \union {Len(votes) + 1}
      /\ \A i \in DOMAIN votes : Append(votes, v)[i] = votes[i]
      /\ Append(votes, v)[Len(votes) + 1] = v
  BY <1>1
<1> HIDE DEF votes
<1>5. Approving(Append(votes, v)) = Approving(votes) \union {Len(votes) + 1}
  BY <1>4 DEF Approving
<1>6. Approvers(t) = {votes[i].user : i \in Approving(votes)}
  BY DEF Approvers, votes
<1>7. Approvers(t)' = {Append(votes, v)[i].user : i \in Approving(Append(votes, v))}
  BY <1>2 DEF Approvers
<1>8. \A i \in Approving(votes) : Append(votes, v)[i].user = votes[i].user
  BY <1>4 DEF Approving
<1>9. Append(votes, v)[Len(votes) + 1].user = u
  BY <1>4
<1>10. \A W, S, n : {W[i].user : i \in S \union {n}} = {W[i].user : i \in S} \union {W[n].user}
  OBVIOUS
<1>11. {Append(votes, v)[i].user : i \in Approving(votes)} = {votes[i].user : i \in Approving(votes)}
  BY <1>8
<1>12. Approvers(t)' = Approvers(t) \union {u}
  <2> DEFINE W == Append(votes, v)
             S == Approving(votes)
             n == Len(votes) + 1
  <2>1. Approvers(t)' = {W[i].user : i \in S \union {n}} /\ W[n].user = u
        /\ {W[i].user : i \in S} = Approvers(t)
    BY <1>5, <1>6, <1>7, <1>9, <1>11
  <2> HIDE DEF W, S, n
  <2> QED BY <2>1, <1>10
<1> QED BY <1>3, <1>12

\* Steps that touch no entry and no vote lose follow-ups only of requests given up.
LEMMA StillFollowed ==
    ASSUME FollowInv, DeployInv', UNCHANGED history, inFlight' \subseteq inFlight, strayed \subseteq strayed',
           DOMAIN requests' = DOMAIN requests,
           \A f \in inFlight \ inFlight' : f.token \in strayed',
           \A t \in DOMAIN requests : t \notin strayed' =>
              /\ requests'[t].votes = requests[t].votes
              /\ requests'[t].status = "approved" => requests[t].status = "approved",
           \A t \in DOMAIN requests : requests'[t].type = requests[t].type
    PROVE  FollowInv'
<1>1. TokensAreUnique'
  BY DEF FollowInv, TokensAreUnique
<1>2. \A t \in DOMAIN requests \ strayed' : Approvers(t)' = Approvers(t)
  BY ApproversSame
<1>3. FollowUpsAreAtHolders'
  BY <1>2 DEF FollowInv, DeployInv, FollowUpsAreSound, FollowUpsAreAtHolders
<1>4. ASSUME NEW a \in Agents, NEW i \in DOMAIN history[a], NEW e, e = history[a][i]
      PROVE  EntryIsFollowed(e)'
  <2>1. EntryIsFollowed(e) /\ EntryIsSound(e)
    BY <1>4 DEF FollowInv, EntriesAreFollowed, DeployInv, EntriesAreSound
  <2> SUFFICES ASSUME e.token # NoToken, e.token \notin strayed', requests'[e.token].type = "deploy"
      PROVE  /\ e.approvals \subseteq Approvers(e.token)'
             /\ \A u \in Approvers(e.token)' :
                   u \in e.approvals \/ \E f \in inFlight' : f.token = e.token /\ f.user = u
             /\ requests'[e.token].status = "approved" =>
                   e.status = "deployed" \/ \E f \in inFlight' : f.token = e.token /\ f.result = "approved"
    BY DEF EntryIsFollowed, IsDeploy
  <2>2. e.token \in DOMAIN requests /\ e.token \notin strayed
    BY <2>1 DEF EntryIsSound
  <2>3. Approvers(e.token)' = Approvers(e.token)
    BY <1>2, <2>2
  <2>4. \A f \in inFlight : f.token = e.token => f \in inFlight'
    OBVIOUS
  <2>5. requests[e.token].type = "deploy"
        /\ (requests'[e.token].status = "approved" => requests[e.token].status = "approved")
    BY <2>2
  <2>6. /\ e.approvals \subseteq Approvers(e.token)
        /\ \A u \in Approvers(e.token) :
              u \in e.approvals \/ \E f \in inFlight : f.token = e.token /\ f.user = u
        /\ requests[e.token].status = "approved" =>
              e.status = "deployed" \/ \E f \in inFlight : f.token = e.token /\ f.result = "approved"
    BY <2>1, <2>2, <2>5 DEF EntryIsFollowed, IsDeploy
  <2> QED BY <2>3, <2>4, <2>5, <2>6
<1>5. EntriesAreFollowed'
  BY <1>4 DEF EntriesAreFollowed
<1> QED BY <1>1, <1>3, <1>5 DEF FollowInv

\* A new entry has nothing to follow up.
LEMMA OpenFollowed ==
    ASSUME FollowInv, DeployInv', NEW a \in Agents, NEW u \in Users, NEW type \in {"deploy", "rollback"},
           NEW env \in Environments, NEW required \in {1, 2}, NEW id \in Nat,
           Open(a, u, type, env, required, id)
    PROVE  FollowInv'
<1> DEFINE n == Len(requests) + 1
           e == [id |-> id, environment |-> env, token |-> n,
                 status |-> "pending_approval", approvals |-> {}]
<1>1. /\ DOMAIN requests' = DOMAIN requests \union {n}
      /\ n \notin DOMAIN requests /\ n # NoToken
      /\ \A t \in DOMAIN requests : requests'[t] = requests[t]
      /\ requests'[n] = [type |-> type, requestedBy |-> u, requiredApprovals |-> required,
                         votes |-> <<>>, status |-> "pending"]
      /\ history' = [history EXCEPT ![a] = Append(@, e)]
      /\ UNCHANGED <<inFlight, strayed>>
  <2>1. n # NoToken
    BY DEF FollowInv, DeployInv, DeployTypeInv, TypeOK, NoToken
  <2>2. DeployTypeInv
    BY DEF FollowInv, DeployInv
  <2>3. UNCHANGED strayed
    BY DEF Open
  <2>4. /\ DeployTypeInv'
        /\ DOMAIN requests' = DOMAIN requests \union {n}
        /\ n \notin DOMAIN requests
        /\ \A t \in DOMAIN requests : requests'[t] = requests[t]
        /\ requests'[n] = [type |-> type, requestedBy |-> u, requiredApprovals |-> required,
                           votes |-> <<>>, status |-> "pending"]
        /\ history' = [history EXCEPT ![a] = Append(@, e)]
        /\ UNCHANGED inFlight
    BY <2>2, OpenType
  <2> QED BY <2>1, <2>3, <2>4
<1>2. history \in [Agents -> Seq(Entries)]
  BY DEF FollowInv, DeployInv, DeployTypeInv, TypeOK
<1>3. /\ \A b \in Agents : \A i \in DOMAIN history[b] :
            i \in DOMAIN history'[b] /\ history'[b][i] = history[b][i]
      /\ \A b \in Agents : \A i \in DOMAIN history'[b] :
            \/ i \in DOMAIN history[b] /\ history'[b][i] = history[b][i]
            \/ b = a /\ i = Len(history[a]) + 1 /\ history'[b][i] = e
  BY <1>1, <1>2
<1>4. \A b \in Agents : \A i \in DOMAIN history[b] :
         history[b][i].token = NoToken \/ history[b][i].token \in DOMAIN requests
  BY DEF FollowInv, DeployInv, EntriesAreSound, EntryIsSound
<1>5. e.token = n /\ e.approvals = {} /\ e.id = id
  OBVIOUS
<1> HIDE DEF e, n
<1>6. TokensAreUnique'
  <2>1. ASSUME NEW b \in Agents, NEW d \in Agents, NEW i \in DOMAIN history'[b], NEW j \in DOMAIN history'[d],
               history'[b][i].token = history'[d][j].token, history'[b][i].token # NoToken
        PROVE  b = d /\ i = j
    <3>1. CASE i \in DOMAIN history[b] /\ history'[b][i] = history[b][i]
               /\ j \in DOMAIN history[d] /\ history'[d][j] = history[d][j]
      BY <2>1, <3>1 DEF FollowInv, TokensAreUnique
    <3>2. CASE history'[b][i] = e \/ history'[d][j] = e
      BY <2>1, <3>2, <1>1, <1>3, <1>4, <1>5
    <3> QED BY <3>1, <3>2, <1>3
  <2>2. \A b \in Agents : \A i \in DOMAIN history'[b] :
           history'[b][i].token = NoToken => history'[b][i].id = 0
    BY <1>1, <1>3, <1>5 DEF FollowInv, TokensAreUnique
  <2> QED BY <2>1, <2>2 DEF TokensAreUnique
<1>7. \A t \in DOMAIN requests : Approvers(t)' = Approvers(t)
  BY <1>1, ApproversSame
<1>8. FollowUpsAreAtHolders'
  <2> SUFFICES ASSUME NEW f \in inFlight', f.token \notin strayed'
      PROVE  /\ f.user \in Approvers(f.token)'
             /\ \E i \in DOMAIN history'[f.agent] : history'[f.agent][i].token = f.token
    BY DEF FollowUpsAreAtHolders
  <2>1. f \in inFlight /\ f.token \notin strayed /\ f.token \in DOMAIN requests /\ f.agent \in Agents
    BY <1>1 DEF FollowInv, DeployInv, FollowUpsAreSound, DeployTypeInv, TypeOK, FollowUps
  <2> QED BY <2>1, <1>3, <1>7 DEF FollowInv, FollowUpsAreAtHolders
<1>9. \A t : t = n => Approvers(t)' = {}
  BY <1>1 DEF Approvers, Approving
<1>10. \A x : x = e => EntryIsFollowed(x)'
  BY <1>1, <1>5, <1>9 DEF EntryIsFollowed
<1>11. ASSUME NEW x, EntryIsFollowed(x), x.token = NoToken \/ x.token \in DOMAIN requests
       PROVE  EntryIsFollowed(x)'
  <2>1. CASE x.token = NoToken
    BY <2>1 DEF EntryIsFollowed, IsDeploy
  <2>2. CASE x.token \in DOMAIN requests
    <3>1. Approvers(x.token)' = Approvers(x.token) /\ requests'[x.token] = requests[x.token]
      BY <2>2, <1>1, <1>7
    <3> QED BY <3>1, <1>11, <1>1 DEF EntryIsFollowed, IsDeploy
  <2> QED BY <1>11, <2>1, <2>2
<1>12. EntriesAreFollowed'
  BY <1>3, <1>4, <1>10, <1>11 DEF FollowInv, EntriesAreFollowed
<1> QED BY <1>6, <1>8, <1>12 DEF FollowInv

\* An approving vote is in flight to the agent with the entry, or given up.
LEMMA ApproveFollowed ==
    ASSUME FollowInv, DeployInv', NEW a \in Agents, NEW u \in Users, NEW t \in DOMAIN requests,
           Approve(a, u, t)
    PROVE  FollowInv'
<1> DEFINE g == [agent |-> a, token |-> t, user |-> u, result |-> Result(t, u, "approve")]
<1>1. /\ DOMAIN requests' = DOMAIN requests
      /\ requests'[t].type = requests[t].type
      /\ requests'[t].status = Result(t, u, "approve")
      /\ \A s \in DOMAIN requests \ {t} : requests'[s] = requests[s]
      /\ Approvers(t)' = Approvers(t) \union {u}
      /\ \A s \in DOMAIN requests \ {t} : Approvers(s)' = Approvers(s)
  BY CastVoteType, ApproversAfterVote DEF Approve, FollowInv, DeployInv
<1>2. UNCHANGED history /\ inFlight' = inFlight \union {g} /\ strayed \subseteq strayed'
      /\ (t \notin strayed' => Holds(a, t))
  BY DEF Approve
<1>3. g.agent = a /\ g.token = t /\ g.user = u /\ g.result = Result(t, u, "approve")
  OBVIOUS
<1> HIDE DEF g
<1>4. TokensAreUnique'
  BY <1>2 DEF FollowInv, TokensAreUnique
<1>5. t \notin strayed' => \E i \in DOMAIN history[a] : history[a][i].token = t
  BY <1>2 DEF Holds, EntryFor
<1>6. FollowUpsAreAtHolders'
  <2> SUFFICES ASSUME NEW f \in inFlight', f.token \notin strayed'
      PROVE  /\ f.user \in Approvers(f.token)'
             /\ \E i \in DOMAIN history'[f.agent] : history'[f.agent][i].token = f.token
    BY DEF FollowUpsAreAtHolders
  <2>1. CASE f = g
    BY <2>1, <1>1, <1>2, <1>3, <1>5
  <2>2. CASE f \in inFlight
    <3>1. f.token \in DOMAIN requests
      BY <2>2 DEF FollowInv, DeployInv, FollowUpsAreSound
    <3>2. /\ f.user \in Approvers(f.token)
          /\ \E i \in DOMAIN history[f.agent] : history[f.agent][i].token = f.token
      BY <2>2, <1>2 DEF FollowInv, FollowUpsAreAtHolders
    <3> QED BY <3>1, <3>2, <1>1, <1>2
  <2> QED BY <2>1, <2>2, <1>2
<1>7. ASSUME NEW b \in Agents, NEW i \in DOMAIN history[b], NEW e, e = history[b][i]
      PROVE  EntryIsFollowed(e)'
  <2>1. EntryIsFollowed(e) /\ EntryIsSound(e)
    BY <1>7 DEF FollowInv, EntriesAreFollowed, DeployInv, EntriesAreSound
  <2> SUFFICES ASSUME e.token # NoToken, e.token \notin strayed', requests'[e.token].type = "deploy"
      PROVE  /\ e.approvals \subseteq Approvers(e.token)'
             /\ \A w \in Approvers(e.token)' :
                   w \in e.approvals \/ \E f \in inFlight' : f.token = e.token /\ f.user = w
             /\ requests'[e.token].status = "approved" =>
                   e.status = "deployed" \/ \E f \in inFlight' : f.token = e.token /\ f.result = "approved"
    BY DEF EntryIsFollowed, IsDeploy
  <2>2. e.token \in DOMAIN requests /\ e.token \notin strayed
    BY <1>2, <2>1 DEF EntryIsSound
  <2>3. requests[e.token].type = "deploy"
    BY <1>1, <2>2
  <2>4. /\ e.approvals \subseteq Approvers(e.token)
        /\ \A w \in Approvers(e.token) :
              w \in e.approvals \/ \E f \in inFlight : f.token = e.token /\ f.user = w
        /\ requests[e.token].status = "approved" =>
              e.status = "deployed" \/ \E f \in inFlight : f.token = e.token /\ f.result = "approved"
    BY <2>1, <2>2, <2>3 DEF EntryIsFollowed, IsDeploy
  <2>5. CASE e.token = t
    BY <2>4, <2>5, <1>1, <1>2, <1>3
  <2>6. CASE e.token # t
    BY <2>2, <2>4, <2>6, <1>1, <1>2
  <2> QED BY <2>5, <2>6
<1>8. EntriesAreFollowed'
  BY <1>2, <1>7 DEF EntriesAreFollowed
<1> QED BY <1>4, <1>6, <1>8 DEF FollowInv

\* A vote on a deploy is followed up at the entry of that deploy.
LEMMA EntryForDeploy ==
    ASSUME FollowInv, NEW a \in Agents, NEW j \in DOMAIN history[a], history[a][j].token # NoToken,
           requests[history[a][j].token].type = "deploy"
    PROVE  EntryFor(a, history[a][j].token) = {j}
<1> DEFINE t == history[a][j].token
<1>1. history[a] \in Seq(Entries) /\ j \in 1..Len(history[a]) /\ Len(history[a]) \in Nat
  BY DEF FollowInv, DeployInv, DeployTypeInv, TypeOK
<1>2. t \in DOMAIN requests /\ history[a][j].id = t
  BY DEF FollowInv, DeployInv, EntriesAreSound, EntryIsSound
<1>3. t # 0 /\ requests[t].type = "deploy" /\ requests[t].type # "rollback" /\ t # NoToken
  BY <1>2 DEF NoToken
<1>4. ASSUME NEW i \in DOMAIN history[a], history[a][i].id = t
      PROVE  i = j
  <2>0. EntryIsSound(history[a][i])
    BY DEF FollowInv, DeployInv, EntriesAreSound
  <2>1. history[a][i].token # NoToken
    BY <1>3, <1>4 DEF FollowInv, TokensAreUnique
  <2>2. history[a][i].token \in DOMAIN requests
    BY <2>0, <2>1 DEF EntryIsSound
  <2>3. requests[history[a][i].token].type \in {"deploy", "rollback"}
    BY <2>2, TokensOfRequests DEF FollowInv, DeployInv, Requests
  <2>4. history[a][i].token = t
    BY <2>0, <2>1, <2>3, <1>3, <1>4 DEF EntryIsSound
  <2> QED BY <2>1, <2>4 DEF FollowInv, TokensAreUnique
<1>5. \A k \in 1..(j - 1) : k \in DOMAIN history[a] /\ k # j
  BY <1>1
<1> HIDE DEF t
<1>6. \A i : i \in EntryFor(a, t) => i = j
  <2>1. \A i \in DOMAIN history[a] : history[a][i].token = t => history[a][i].id = t
    <3>1. ASSUME NEW i \in DOMAIN history[a], history[a][i].token = t PROVE history[a][i].id = t
      BY <3>1, <1>2, <1>3 DEF FollowInv, DeployInv, EntriesAreSound, EntryIsSound
    <3> QED BY <3>1
  <2> QED BY <2>1, <1>4 DEF EntryFor
<1>7. j \in EntryFor(a, t)
  BY <1>2, <1>4, <1>5 DEF EntryFor, t
<1> QED BY <1>6, <1>7 DEF t

\* A follow-up brings the entry of its deploy what its vote changed, and touches the
\* entry of no other deploy.
LEMMA FinishFollowed ==
    ASSUME FollowInv, DeployInv', NEW g \in inFlight, FinishApprove(g)
    PROVE  FollowInv'
<1>1. /\ g \in FollowUps /\ g.token \in DOMAIN requests /\ g.token # NoToken /\ g.agent \in Agents
      /\ g.result \in {"approved", "pending"}
  <2>1. DeployTypeInv
    BY DEF FollowInv, DeployInv
  <2> QED BY <2>1, TokensOfRequests
      DEF FollowInv, DeployInv, DeployTypeInv, TypeOK, FollowUpsAreSound, FollowUps
<1>2. UNCHANGED <<requests, strayed>> /\ inFlight' = inFlight \ {g}
  BY DEF FinishApprove
<1>3. history \in [Agents -> Seq(Entries)]
  BY DEF FollowInv, DeployInv, DeployTypeInv, TypeOK
<1>4. \A t : Approvers(t)' = Approvers(t)
  BY <1>2 DEF Approvers
<1>5. ASSUME NEW b \in Agents, NEW i \in DOMAIN history[b],
             history[b][i].token = g.token, g.token \notin strayed, requests[g.token].type = "deploy"
      PROVE  b = g.agent /\ EntryFor(g.agent, g.token) = {i}
  <2>1. PICK j \in DOMAIN history[g.agent] : history[g.agent][j].token = g.token
    BY <1>5 DEF FollowInv, FollowUpsAreAtHolders
  <2>2. b = g.agent /\ i = j
    BY <2>1, <1>1, <1>5 DEF FollowInv, TokensAreUnique
  <2> QED BY <2>2, <1>1, <1>5, EntryForDeploy
<1>6. ASSUME NEW e, EntryIsFollowed(e), e.token # g.token
      PROVE  EntryIsFollowed(e)'
  BY <1>2, <1>4, <1>6 DEF EntryIsFollowed, IsDeploy
<1>7. ASSUME NEW e, e.token = g.token, g.token \in strayed \/ requests[g.token].type # "deploy"
      PROVE  EntryIsFollowed(e)'
  BY <1>2, <1>7 DEF EntryIsFollowed, IsDeploy
<1>8. CASE UNCHANGED history /\ ~Holds(g.agent, g.token)
  <2>1. TokensAreUnique'
    BY <1>8 DEF FollowInv, TokensAreUnique
  <2>2. FollowUpsAreAtHolders'
    BY <1>2, <1>4, <1>8 DEF FollowInv, FollowUpsAreAtHolders
  <2>3. ASSUME NEW b \in Agents, NEW i \in DOMAIN history[b], NEW e, e = history[b][i]
        PROVE  EntryIsFollowed(e)'
    <3>1. EntryIsFollowed(e)
      BY <2>3 DEF FollowInv, EntriesAreFollowed
    <3>2. e.token = g.token => g.token \in strayed \/ requests[g.token].type # "deploy"
      BY <2>3, <1>5, <1>8 DEF Holds
    <3> QED BY <3>1, <3>2, <1>6, <1>7
  <2>4. EntriesAreFollowed'
    BY <1>8, <2>3 DEF EntriesAreFollowed
  <2> QED BY <2>1, <2>2, <2>4 DEF FollowInv
<1>9. ASSUME NEW k \in EntryFor(g.agent, g.token),
             history' = [history EXCEPT ![g.agent][k] = FollowedUp(@, g.user, g.result)]
      PROVE  FollowInv'
  <2> DEFINE o == history[g.agent][k]
             n == FollowedUp(o, g.user, g.result)
  <2>1. k \in DOMAIN history[g.agent] /\ o \in Entries
    BY <1>1, <1>3 DEF EntryFor
  <2>2. /\ n.id = o.id /\ n.token = o.token /\ n.approvals = o.approvals \union {g.user}
        /\ g.result = "approved" => n.status = "deployed"
        /\ g.result = "pending" => n.status = o.status
    BY <1>1, <2>1 DEF FollowedUp, Entries
  <2> HIDE DEF n
  <2>3. \A b \in Agents : /\ DOMAIN history'[b] = DOMAIN history[b]
                         /\ \A i \in DOMAIN history[b] :
                               \/ history'[b][i] = history[b][i] /\ ~(b = g.agent /\ i = k)
                               \/ b = g.agent /\ i = k /\ history'[b][i] = n
    BY <1>1, <1>3, <1>9, <2>1 DEF n
  <2>4. \A b \in Agents : \A i \in DOMAIN history[b] :
           history'[b][i].token = history[b][i].token /\ history'[b][i].id = history[b][i].id
    BY <2>2, <2>3
  <2>5. TokensAreUnique'
    BY <2>3, <2>4 DEF FollowInv, TokensAreUnique
  <2>6. FollowUpsAreAtHolders'
    <3>1. \A f \in inFlight : f.agent \in Agents
      BY DEF FollowInv, DeployInv, DeployTypeInv, TypeOK, FollowUps
    <3> QED BY <3>1, <1>2, <1>4, <2>3, <2>4 DEF FollowInv, FollowUpsAreAtHolders
  <2>7. ASSUME NEW b \in Agents, NEW i \in DOMAIN history[b], NEW e, e = history'[b][i]
        PROVE  EntryIsFollowed(e)'
    <3>1. EntryIsFollowed(history[b][i])
      BY DEF FollowInv, EntriesAreFollowed
    <3>2. CASE e = history[b][i] /\ ~(b = g.agent /\ i = k)
      <4>1. e.token = g.token => g.token \in strayed \/ requests[g.token].type # "deploy"
        BY <3>2, <1>5, <1>9
      <4> QED BY <3>1, <3>2, <4>1, <1>6, <1>7
    <3>3. CASE b = g.agent /\ i = k /\ e = n
      <4> SUFFICES ASSUME e.token # NoToken, e.token \notin strayed, requests[e.token].type = "deploy"
          PROVE  /\ e.approvals \subseteq Approvers(e.token)
                 /\ \A w \in Approvers(e.token) :
                       w \in e.approvals \/ \E f \in inFlight' : f.token = e.token /\ f.user = w
                 /\ requests[e.token].status = "approved" =>
                       e.status = "deployed" \/ \E f \in inFlight' : f.token = e.token /\ f.result = "approved"
        BY <1>2, <1>4 DEF EntryIsFollowed, IsDeploy
      <4>1. e.token = g.token
        <5>1. PICK j \in DOMAIN history[g.agent] :
                 history[g.agent][j].token = g.token /\ o.id = history[g.agent][j].id
          BY DEF EntryFor
        <5>2. EntryIsSound(history[g.agent][j]) /\ EntryIsSound(o)
          BY <1>1, <2>1 DEF FollowInv, DeployInv, EntriesAreSound
        <5>3. requests[g.token].type \in {"deploy", "rollback"}
          BY <1>1, TokensOfRequests DEF FollowInv, DeployInv, Requests
        <5> QED BY <1>1, <2>2, <3>3, <5>1, <5>2, <5>3 DEF EntryIsSound
      <4>2. /\ o.approvals \subseteq Approvers(g.token)
            /\ \A w \in Approvers(g.token) :
                  w \in o.approvals \/ \E f \in inFlight : f.token = g.token /\ f.user = w
            /\ requests[g.token].status = "approved" =>
                  o.status = "deployed" \/ \E f \in inFlight : f.token = g.token /\ f.result = "approved"
        BY <2>2, <3>1, <3>3, <4>1 DEF EntryIsFollowed, IsDeploy
      <4>3. g.user \in Approvers(g.token)
        BY <4>1 DEF FollowInv, FollowUpsAreAtHolders
      <4> QED BY <1>1, <1>2, <2>2, <3>3, <4>1, <4>2, <4>3
    <3> QED BY <2>3, <2>7, <3>2, <3>3
  <2>8. EntriesAreFollowed'
    BY <2>3, <2>7 DEF EntriesAreFollowed
  <2> QED BY <2>5, <2>6, <2>8 DEF FollowInv
<1> QED BY <1>8, <1>9 DEF FinishApprove

\* Every step keeps follow-ups and entries together.
LEMMA FollowStep ==
    FollowInv /\ [Next]_deployVars => FollowInv'
<1> SUFFICES ASSUME FollowInv, [Next]_deployVars PROVE FollowInv'
  OBVIOUS
<1>1. DeployInv'
  BY DeployStep DEF FollowInv
<1>2. CASE \/ \E a \in Agents : SetAutonomy(a)
           \/ \E f \in inFlight : AuditFails(f)
           \/ \E t \in DOMAIN requests : Lapse(t)
           \/ UNCHANGED deployVars
  <2>1. UNCHANGED <<requests, history>> /\ inFlight' \subseteq inFlight /\ strayed \subseteq strayed'
        /\ \A f \in inFlight \ inFlight' : f.token \in strayed'
    BY <1>2 DEF SetAutonomy, AuditFails, Lapse, deployVars
  <2> QED BY <1>1, <2>1, StillFollowed
<1>3. ASSUME NEW a \in Agents, NEW env \in Environments, AutoDeploy(a, env)
      PROVE  FollowInv'
  <2> DEFINE e == [id |-> 0, environment |-> env, token |-> NoToken,
                   status |-> "deployed", approvals |-> {}]
  <2>1. UNCHANGED <<requests, inFlight, strayed>> /\ history' = [history EXCEPT ![a] = Append(@, e)]
    BY <1>3 DEF AutoDeploy, Record
  <2>2. history \in [Agents -> Seq(Entries)]
    BY DEF FollowInv, DeployInv, DeployTypeInv, TypeOK
  <2>3. /\ \A b \in Agents : \A i \in DOMAIN history[b] :
              i \in DOMAIN history'[b] /\ history'[b][i] = history[b][i]
        /\ \A b \in Agents : \A i \in DOMAIN history'[b] :
              history'[b][i] = e \/ (i \in DOMAIN history[b] /\ history'[b][i] = history[b][i])
    BY <2>1, <2>2
  <2>4. e.token = NoToken /\ e.id = 0
    OBVIOUS
  <2> HIDE DEF e
  <2>5. TokensAreUnique'
    BY <2>3, <2>4 DEF FollowInv, TokensAreUnique
  <2>6. \A t : Approvers(t)' = Approvers(t)
    BY <2>1 DEF Approvers
  <2>7. FollowUpsAreAtHolders'
    <3>1. \A f \in inFlight : f.agent \in Agents
      BY DEF FollowInv, DeployInv, DeployTypeInv, TypeOK, FollowUps
    <3> QED BY <3>1, <2>1, <2>3, <2>6 DEF FollowInv, FollowUpsAreAtHolders
  <2>8. \A x : x = e \/ EntryIsFollowed(x) => EntryIsFollowed(x)'
    BY <2>1, <2>4, <2>6 DEF EntryIsFollowed, IsDeploy
  <2>9. EntriesAreFollowed'
    BY <2>3, <2>8 DEF FollowInv, EntriesAreFollowed
  <2> QED BY <1>1, <2>5, <2>7, <2>9 DEF FollowInv
<1>4. ASSUME NEW a \in Agents, NEW u \in Users, NEW env \in Environments,
             RequestDeploy(a, u, env) \/ RequestRollback(a, u, env)
      PROVE  FollowInv'
  <2>1. Required(env) \in {1, 2} /\ Len(requests) + 1 \in Nat
    BY DEF Required, FollowInv, DeployInv, DeployTypeInv, TypeOK
  <2>2. \A id \in RollbackIds(a) : id \in Nat
    <3>1. \A e \in ToSet(history[a]) : EntryIsSound(e)
      BY DEF ToSet, FollowInv, DeployInv, EntriesAreSound
    <3>2. DOMAIN requests \subseteq Nat
      BY DEF FollowInv, DeployInv, DeployTypeInv, TypeOK
    <3> QED BY <3>1, <3>2 DEF RollbackIds, EntryIsSound
  <2> QED BY <1>1, <1>4, <2>1, <2>2, OpenFollowed DEF RequestDeploy, RequestRollback
<1>5. ASSUME NEW a \in Agents, NEW u \in Users, NEW t \in DOMAIN requests, Approve(a, u, t)
      PROVE  FollowInv'
  BY <1>1, <1>5, ApproveFollowed
<1>6. ASSUME NEW f \in inFlight, FinishApprove(f)
      PROVE  FollowInv'
  BY <1>1, <1>6, FinishFollowed
<1>7. ASSUME NEW u \in Users, NEW t \in DOMAIN requests, NEW vote \in {"approve", "deny"},
             DashboardVote(u, t, vote)
      PROVE  FollowInv'
  <2>1. CastVote(t, u, vote) /\ UNCHANGED <<history, inFlight>> /\ strayed' = strayed \union {t}
    BY <1>7 DEF DashboardVote
  <2>2. DOMAIN requests' = DOMAIN requests /\ requests'[t].type = requests[t].type
        /\ \A s \in DOMAIN requests \ {t} : requests'[s] = requests[s]
    BY <2>1, CastVoteType DEF FollowInv, DeployInv
  <2> QED BY <1>1, <2>1, <2>2, StillFollowed
<1>8. ASSUME NEW t \in DOMAIN requests, LateVote(t)
      PROVE  FollowInv'
  <2>1. requests \in Seq(Requests) /\ requests[t] \in Requests
    BY DEF FollowInv, DeployInv, DeployTypeInv, TypeOK
  <2> DEFINE r == [requests[t] EXCEPT !.status = "expired"]
  <2>2. requests' = [requests EXCEPT ![t] = r] /\ UNCHANGED <<history, inFlight, strayed>>
    BY <1>8 DEF LateVote
  <2>3. r.type = requests[t].type /\ r.status = "expired" /\ r.votes = requests[t].votes
    BY <2>1 DEF Requests
  <2> HIDE DEF r
  <2>4. /\ DOMAIN requests' = DOMAIN requests /\ requests'[t] = r
        /\ \A s \in DOMAIN requests \ {t} : requests'[s] = requests[s]
    BY <2>1, <2>2
  <2> QED BY <1>1, <2>2, <2>3, <2>4, StillFollowed
<1> QED BY <1>2, <1>3, <1>4, <1>5, <1>6, <1>7, <1>8 DEF Next

\* When every vote on a deploy was sent to the agent that holds it and was followed
\* up, the agent and the approval manager agree on its approvers and its outcome.
THEOREM VotesAreFollowedUp == Spec => []FollowedUpVotesAgree
<1>1. Init => FollowInv
  <2>1. Init => DeployInv
    BY BoundsAssumption
    DEF Init, DeployInv, DeployTypeInv, TypeOK, RequestsAreSound, EntriesAreSound, FollowUpsAreSound
  <2>2. Init => TokensAreUnique /\ FollowUpsAreAtHolders /\ EntriesAreFollowed
    BY DEF Init, TokensAreUnique, FollowUpsAreAtHolders, EntriesAreFollowed
  <2> QED BY <2>1, <2>2 DEF FollowInv
<1>2. FollowInv => FollowedUpVotesAgree
  <2> SUFFICES ASSUME FollowInv, NEW a \in Agents, NEW e \in ToSet(history[a]), IsDeploy(e),
                      e.token \notin strayed, \A f \in inFlight : f.token # e.token
               PROVE  /\ e.approvals = Approvers(e.token)
                      /\ (e.status = "deployed") = (requests[e.token].status = "approved")
    BY DEF FollowedUpVotesAgree
  <2>1. EntryIsSound(e) /\ EntryIsFollowed(e)
    BY DEF ToSet, FollowInv, DeployInv, EntriesAreSound, EntriesAreFollowed
  <2> QED BY <2>1 DEF EntryIsSound, EntryIsFollowed, IsDeploy
<1> QED BY <1>1, <1>2, FollowStep, PTL DEF Spec
=============================================================================
