----------------------------- MODULE MCAutoMail -----------------------------
(* Two Agent mailboxes whose rules forward to each other; one is on vacation. *)
EXTENDS AutoMail

CONSTANTS boxA, boxB

MCRules == 1 .. 2
MCOwner == <<boxA, boxB>>
MCTargets == <<{boxB}, {boxA}>>
MCBounds == {[msgs |-> 5, emails |-> 4, events |-> 1],
             [msgs |-> 3, emails |-> 2, events |-> 3]}
MCMatchFrom == <<Addresses, Addresses>>
=============================================================================
