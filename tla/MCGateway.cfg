SPECIFICATION Spec
CONSTANTS
    p1 = p1  p2 = p2  t1 = t1  t2 = t2  t3 = t3
    i1 = i1  i2 = i2  n1 = n1  n2 = n2  n3 = n3  slow = slow  fast = fast  None = None
    Calls <- CallsTwo
    Nodes <- NodesTwo
    Ahead <- AheadTwo
    Tokens <- TokensThree
    Idents <- IdentsTwo
    Space <- SpaceTwo
    Names <- NamesThree
    Lifetime = 2
    MaxLifetime = 4
    ClockSkew = 1
    Retention = 3
    MaxMailboxes = 1
    MaxAccounts = 4
    Scenes <- ScenesAll
SYMMETRY Perms
INVARIANTS
    AcceptedOnce
    ProvisionedOnce
