--------------------------- MODULE MCAgentAccess ----------------------------
(***************************************************************************)
(* Instances of AgentAccess for TLC.                                       *)
(***************************************************************************)
EXTENDS AgentAccess, TLC

CONSTANTS p1, p2, p3, m1, m2, r1, r2

CallsThree == {p1, p2, p3}
MailboxesTwo == {m1, m2}
RequestsTwo == {r1, r2}

\* Two owners of one Space, each with a mailbox.
HomeTwo == [m \in MailboxesTwo |->
              [owner |-> IF m = m1 THEN "o1" ELSE "o2", space |-> "s1"]]
CallersTwo == {HomeTwo[m] : m \in MailboxesTwo}

Counts(f) == [op \in Ops |-> IF op \in DOMAIN f THEN f[op] ELSE 0]

\* Two approvals and two exchanges, with one or two other calls in their way; or one,
\* with a revocation and a deletion.
Both == [approve |-> 2, exchange |-> 2]
One == [approve |-> 1, exchange |-> 1]
ScenesAll == {Counts(One @@ [revoke |-> 1, delete |-> 1, fail |-> 1])} \union
    {Counts(Both @@ f) : f \in {
    [revoke |-> 1, expire |-> 1, fail |-> 1],
    [delete |-> 1, agent |-> 1],
    [mode |-> 1, agent |-> 1],
    [designate |-> 1, undesignate |-> 1, agent |-> 1]}}

Perms == Permutations(CallsThree) \union Permutations(RequestsTwo)

=============================================================================
