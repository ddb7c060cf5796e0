------------------------------ MODULE MCQueue ------------------------------
(* Small instances of Queue for TLC. *)
EXTENDS Queue

CONSTANTS m1, m2, n1, n2, r1

MsgsOne == {m1}
MsgsTwo == {m1, m2}
NodesTwo == {n1, n2}
MatchesOne == [r \in Rules |-> {m1}]
=============================================================================
