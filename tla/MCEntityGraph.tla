--------------------------- MODULE MCEntityGraph ---------------------------
(* Instances of EntityGraph for TLC.                                        *)
EXTENDS EntityGraph, TLC

CONSTANTS a, b, r1, w1, w2

Requests == {[kind |-> "page", entity |-> a], [kind |-> "path", entity |-> a],
             [kind |-> "visualize", entity |-> b], [kind |-> "risk", entity |-> a]}
KnownAtFirst == [e \in Entity |-> [base |-> 4, count |-> 0]]
Jobs == {[op |-> "add_entity", entity |-> a, risk |-> 18],
         [op |-> "add_session_link", ends |-> {a, b}]}
=============================================================================
