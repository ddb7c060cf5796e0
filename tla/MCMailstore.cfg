SPECIFICATION Spec
CONSTANTS
    inbox = inbox  other = other  None = None
    Names <- NamesTwo
    Inbox = inbox
    Sizes <- SizesOne
    Quota = 5
    MaxMsgs = 3
    MaxBoxes = 2
    MaxHead = 6
    OpSets <- AllOps
    MaxChanges = 1
CHECK_DEADLOCK FALSE
INVARIANTS CountsAgree ProjectionIsFold  JmapConverges
