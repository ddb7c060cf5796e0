SPECIFICATION FairSpec
CONSTANTS
    r1 = r1  r2 = r2  q1 = q1  b1 = b1  b2 = b2
    w1 = w1  w2 = w2  g1 = g1  g2 = g2
    None = None
    Rows <- RowsTwo
    QRows <- QRowsOne
    Refs <- RefsTwo
    Writers <- WritersTwo
    Collectors <- CollectorsTwo
    Scenes <- ScenesBoth
CHECK_DEADLOCK FALSE
INVARIANT BodyExists
PROPERTY Reclaimed
