SPECIFICATION FairSpec
CONSTANTS
    m1 = m1  m2 = m2  n1 = n1  n2 = n2  r1 = r1
    None = None
    Nodes <- NodesTwo
    Matches <- MatchesOne
    Msgs <- MsgsTwo
    Linked <- MsgsOne
    Rules = {}
    Lease = 3
    Batch = 2
    MaxAttempts = 1
    DelayThreshold = 1
    BaseBackoff = 1
    MaxBackoff = 1
    Timely = TRUE
    StartSlack = 1
    FinishSlack = 0
    MaxWait = 0
    MaxFaults = 1
    MaxAdminOps = 0
    AttemptCap = 2
INVARIANT NoConcurrentTransmission
PROPERTY EventuallySettled
