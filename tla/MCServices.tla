----------------------------- MODULE MCServices -----------------------------
(* Instances of Services for TLC.                                           *)
EXTENDS Services

CONSTANTS sa, sb, p1, p2, p3, p4

MCReported == (p1 :> sa) @@ (p2 :> sa) @@ (p3 :> sa) @@ (p4 :> sb)
MCSlug == (1 :> "acme") @@ (2 :> "bank") @@ (3 :> "acme")
MCTarget == [e \in Evacuation |-> "east"]
MCCandidate == (1 :> "v1") @@ (2 :> "v2")
MCRunsIn == (1 :> "api") @@ (2 :> "worker")
MCDirect == (0 :> 0) @@ (1 :> 693) @@ (9 :> 2302) @@ (200 :> 5000)
=============================================================================
