SPECIFICATION FairSpec
CONSTANTS
    n1 = n1  n2 = n2  s1 = s1  s2 = s2
    None = None
    Nodes <- NodesTwo
    Servers <- ServersTwo
    MaxEvents = 2
    MaxTenures = 4
INVARIANTS LeaderHasLock CallbacksAlternate
PROPERTIES FencedWriteByLatest EventuallyLed
