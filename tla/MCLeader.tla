------------------------------ MODULE MCLeader ------------------------------
(***************************************************************************)
(* Instances of Leader for TLC: two nodes and two database servers.        *)
(***************************************************************************)
EXTENDS Leader, TLC

CONSTANTS n1, n2, s1, s2

NodesTwo == {n1, n2}
ServersTwo == {s1, s2}

=============================================================================
