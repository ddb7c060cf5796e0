---------------------------- MODULE MCChangeFeed ----------------------------
(* Instances of ChangeFeed for TLC. *)
EXTENDS ChangeFeed

CONSTANTS n1, n2, w1, w2, s1

\* The subscriber is on n1; both writers are, or one, or none.
AllHomes ==
    {h \in [Writers \cup Subs -> Nodes] : h[s1] = n1 /\ (h[w1] = n2 => h[w2] = n2)}
=============================================================================
