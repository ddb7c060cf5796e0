---------------------------- MODULE MCDraftSend ----------------------------
(* Instances of DraftSend for model checking. *)
EXTENDS DraftSend, TLC

Once == [request |-> 2, create |-> 0, edit |-> 1, remove |-> 1, sibling |-> 0,
         configure |-> 0, fault |-> 1, review |-> FALSE, kinds |-> {"none"}]

\* Retries of a Draft and of an intent with faults; then edits, siblings, changes
\* of the mode and the terms, and the review of what is sent.
ScenesAll == {f @@ Once : f \in {
    [request |-> 3, create |-> 1, edit |-> 1, fault |-> 2],
    [request |-> 3, kinds |-> {"intent", "reply"}, configure |-> 1, fault |-> 2],
    [request |-> 3, kinds |-> {"intent"}, configure |-> 2, review |-> TRUE],
    [create |-> 1, sibling |-> 1, remove |-> 2, review |-> TRUE, configure |-> 1],
    [request |-> 3, kinds |-> {"draft"}, review |-> TRUE, configure |-> 1],
    [kinds |-> {"intent"}, create |-> 1, edit |-> 1, configure |-> 1]}}

Symmetry == Permutations(Requests)
=============================================================================
