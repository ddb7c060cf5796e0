------------------------------ MODULE MCBlobGC ------------------------------
(***************************************************************************)
(* Instances of BlobGC for TLC.                                            *)
(***************************************************************************)
EXTENDS BlobGC, TLC

CONSTANTS r1, r2, q1, b1, b2, w1, w2, g1, g2

RowsTwo == {r1, r2}
QRowsOne == {q1}
RefsTwo == {b1, b2}
WritersTwo == {w1, w2}
CollectorsTwo == {g1, g2}
ScenesBoth == {[writers |-> WritersTwo, faults |-> 0], [writers |-> {w1}, faults |-> 1]}

=============================================================================
