--------------------------- MODULE MCUsageBilling ---------------------------
(* Instances of UsageBilling for TLC: which call belongs to which           *)
(* subscription and endpoint, and the plan limits.                          *)
EXTENDS UsageBilling, TLC

CONSTANTS c1, c2, c3, c4, s1, s2

\* Two scans of s1; a scan and a webhook of s2, which is tenant-scoped.
TwoEach == [c \in {c1, c2, c3, c4} |-> IF c \in {c1, c2} THEN s1 ELSE s2]
OneWebhook == [c \in {c1, c2, c3, c4} |-> IF c = c4 THEN "webhook" ELSE "analyze"]
\* Two scans of a tenant-scoped subscription.
BothScoped == [c \in {c1, c2} |-> s2]
Scans == [c \in {c1, c2} |-> "analyze"]
\* One scan a month, unlimited webhooks.
OneScan == [s \in Sub |-> [e \in Endpoint |-> IF e = "analyze" THEN 1 ELSE -1]]

Symmetry == Permutations({c1, c2})
=============================================================================
