--------------------------- MODULE MCScanPipeline ---------------------------
(* Instances of ScanPipeline for TLC: what is said in three segments.       *)
EXTENDS ScanPipeline

CONSTANTS c1, m1, v1, hello, refund, remote, refundWord, anydeskWord

\* A greeting, a refund offer with a UPI id, and a request to install AnyDesk
\* with its code and several numbers to call.
SaysThree ==
  [g \in Segment |-> CASE g = hello -> {} [] g = refund -> {refundWord}
                       [] OTHER -> {anydeskWord}]
MentionsThree ==
  [g \in Segment |-> CASE g = hello -> {} [] g = refund -> {1} [] OTHER -> 2..8]
Strengths == [k \in Keyword |-> IF k = refundWord THEN 7800 ELSE 9200]

\* A chat of one message, and up to two chunks in a call.
OneAndTwo == [s \in Scan |-> IF s \in Call THEN 2 ELSE 1]
=============================================================================
