\* Two agents share the approval manager: two requests, one automatic deploy.
SPECIFICATION Spec
CONSTANTS
    a1 = a1  a2 = a2  u1 = u1  u2 = u2  u3 = u3
    Agents <- TwoAgents
    Users <- ThreeUsers
    Environments = {"staging", "production"}
    MaxRequests = 2
    MaxAutoDeploys = 1
SYMMETRY AgentUserSymmetry
INVARIANTS DeployedWithQuorum FollowedUpVotesAgree
PROPERTIES DeployedIsFinal
CHECK_DEADLOCK FALSE
