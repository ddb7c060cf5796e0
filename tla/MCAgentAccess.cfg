SPECIFICATION Spec
CONSTANTS
    p1 = p1  p2 = p2  p3 = p3  m1 = m1  m2 = m2  r1 = r1  r2 = r2
    Calls <- CallsThree
    Mailboxes <- MailboxesTwo
    Home <- HomeTwo
    Callers <- CallersTwo
    Requests <- RequestsTwo
    MaxBindings = 2
    Scenes <- ScenesAll
SYMMETRY Perms
INVARIANT AuthorityCurrent
PROPERTY GateHolds
