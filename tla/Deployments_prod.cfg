\* One agent, one request; `prod` is one of the spellings.
SPECIFICATION Spec
CONSTANTS
    a1 = a1  a2 = a2  u1 = u1  u2 = u2  u3 = u3
    Agents <- OneAgent
    Users <- ThreeUsers
    Environments = {"staging", "production", "prod"}
    MaxRequests = 1
    MaxAutoDeploys = 1
SYMMETRY AgentUserSymmetry
INVARIANTS ProductionHasTwoApprovals
CHECK_DEADLOCK FALSE
