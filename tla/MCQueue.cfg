SPECIFICATION Spec
CONSTANTS
    m1 = m1  m2 = m2  n1 = n1  n2 = n2  r1 = r1
    None = None
    Nodes <- NodesTwo
    Matches <- MatchesOne
    Msgs <- MsgsOne
    Linked <- MsgsOne
    Rules = {r1}
    Lease = 2
    Batch = 1
    MaxAttempts = 3
    DelayThreshold = 1
    BaseBackoff = 1
    MaxBackoff = 1
    Timely = FALSE
    StartSlack = 0
    FinishSlack = 0
    MaxWait = 2
    MaxFaults = 1
    MaxAdminOps = 2
    AttemptCap = 4
INVARIANTS ProjectionIsFold FenceIdentifiesAttempt FailureNoticeOnce BudgetLeft
PROPERTY ImplementsLifecycle
