SPECIFICATION Spec
CONSTANTS
    inbox = inbox
    archive = archive
    None = None
    s1 = s1
    s2 = s2
    Box <- Boxes
    Minters <- Sessions
    Start <- StartAll
    Kinds <- KindsAll
    Attr <- AttrAll
    Clients <- ClientsAll
    Sets <- SetsAll
    Sinces <- SincesAll
    Criteria <- CriteriaAll
    SortKeys <- SortKeysAll
    Names <- NamesAll
    Subscribed <- SubscribedAll
    Patterns <- PatternsAll
    Batches <- BatchesAll
    MaxSize = 4
    TLSConfig = TRUE
    MaxFails = 2
    MaxUid = 5
    MaxHead <- HeadBound
    MaxQueue = 2
    MaxKey = 3
INVARIANTS
    SeqAgrees
    
    CommandBounded
    UrlsLive
CHECK_DEADLOCK FALSE
