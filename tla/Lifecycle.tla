----------------------------- MODULE Lifecycle -----------------------------
(***************************************************************************)
(* What the outbound queue promises of each recipient of a submission: it  *)
(* is queued at most once, reaches at most one outcome and never leaves    *)
(* it, and the sender is told of a failure at most once.  Module Queue     *)
(* implements this specification.                                          *)
(***************************************************************************)
CONSTANT Msgs

VARIABLES
    phase, \* "new", "queued", an outcome, or "closed" once all is forgotten
    told   \* the messages whose sender was told of the failure

vars == <<phase, told>>

Outcomes == {"delivered", "failed", "dropped"}

Move(S, from, to) ==
    /\ \A m \in S : phase[m] \in from
    /\ phase' = [m \in Msgs |-> IF m \in S THEN to ELSE phase[m]]

Init == phase = [m \in Msgs |-> "new"] /\ told = {}

\* A submission is accepted, for all its recipients at once.
Accept(S) == Move(S, {"new"}, "queued") /\ UNCHANGED told

\* Messages reach their outcome.
Settle(S) == \E k \in Outcomes : Move(S, {"queued"}, k) /\ UNCHANGED told

\* The sender of a failed message is told.
Tell(m) ==
    /\ phase[m] = "failed" /\ m \notin told
    /\ told' = told \cup {m}
    /\ UNCHANGED phase

\* A submission fails, or the history of settled messages is swept.
Close(S) == Move(S, {"new"} \cup Outcomes, "closed") /\ UNCHANGED told

Next ==
    \/ \E S \in SUBSET Msgs : Accept(S) \/ Settle(S) \/ Close(S)
    \/ \E m \in Msgs : Tell(m)

Spec == Init /\ [][Next]_vars
=============================================================================
