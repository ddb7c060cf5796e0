SPECIFICATION FairSpec
CONSTANTS
    n1 = n1  n2 = n2  w1 = w1  w2 = w2  s1 = s1
    None = None
    Nodes = {n1, n2}
    Writers = {w1, w2}
    Subs = {s1}
    Homes <- AllHomes
    Coordinated = {n1}
    Buf = 1
    MaxSeq = 2
    MaxTx = 2
    MaxDrops = 1
    MaxFaults = 1
INVARIANTS ReaderExact OwnNodeDelivered
PROPERTY CatchesUp
CHECK_DEADLOCK FALSE
