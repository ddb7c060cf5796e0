----------------------------- MODULE MCGateway ------------------------------
(***************************************************************************)
(* Instances of Gateway for TLC.                                           *)
(***************************************************************************)
EXTENDS Gateway, TLC

CONSTANTS p1, p2, t1, t2, t3, i1, i2, n1, n2, n3, slow, fast

CallsTwo == {p1, p2}
NodesTwo == {slow, fast}
AheadTwo == (slow :> -1) @@ (fast :> 1)
TokensThree == {t1, t2, t3}
IdentsTwo == {i1, i2}
SpaceTwo == (i1 :> "s1") @@ (i2 :> "s2")
NamesThree == {n1, n2, n3}

Counts(f) == [e \in Events |-> IF e \in DOMAIN f THEN f[e] ELSE 0]

\* Replays while clocks move; then what several users and administrators ask for at once.
ScenesAll == {Counts(f) : f \in {
    [read |-> 2, resend |-> 2, tick |-> 5],
    [ensure |-> 3],
    [ensure |-> 1, create |-> 2],
    [ensure |-> 2, create |-> 1, resend |-> 1],
    [ensure |-> 1, create |-> 1, delete |-> 1, bind |-> 1],
    [ensure |-> 2, bind |-> 1, fail |-> 1],
    [ensure |-> 1, address |-> 2],
    [ensure |-> 1, create |-> 1, address |-> 1],
    [ensure |-> 2, alias |-> 1],
    [ensure |-> 1, alias |-> 1, unalias |-> 1]}}

Perms == Permutations(CallsTwo) \union Permutations(TokensThree)
         \union Permutations(NamesThree)

=============================================================================
