---------------------------- MODULE MCAuditChain ----------------------------
(* Instance of AuditChain for TLC: requests are model values.               *)
EXTENDS AuditChain, TLC

\* Requests with a user are interchangeable.
Symmetry == Permutations(Request \ Anonymous)
=============================================================================
