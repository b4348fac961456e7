\* Two deliveries, of the same event or of two, and the watches they start.
SPECIFICATION WatchFairSpec
CONSTANTS
    d1 = d1  d2 = d2  x = x  y = y  i = i  k1 = k1  k2 = k2  None = None
    Monitors <- TwoDeliveries
    Deploys <- TwoDeploys
    VercelDeploys <- OneOfVercel
    CommitOf <- OneCommit
    Issues <- OneIssue
    Checks <- TwoChecks
    Overlaps <- OneDelivery
    Rates <- OneRate
INVARIANTS WebhooksHold
PROPERTIES RollbackNeedsTwoCounts WatchEnds
CHECK_DEADLOCK FALSE
