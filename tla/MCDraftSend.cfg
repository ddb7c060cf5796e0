SPECIFICATION Spec
CONSTANTS
    Requests = {r1, r2, r3}
    Drafts = {d}
    Keys = {k}
    Emails = {e1, e2, e3}
    Scenes <- ScenesAll
    None = None
SYMMETRY Symmetry
INVARIANTS  AcceptedIsQueued QuietAgrees KeyHasOneDraft
CHECK_DEADLOCK FALSE
