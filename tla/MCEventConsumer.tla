-------------------------- MODULE MCEventConsumer --------------------------
(* Instances of EventConsumer for TLC: one event of each kind.              *)
EXTENDS EventConsumer, TLC

CONSTANTS audit, unnamed, notobject, badjson

OneOfEach == [e \in Event |->
  CASE e = audit -> "audit"
    [] e = unnamed -> "unnamed"
    [] e = notobject -> "notobject"
    [] OTHER -> "badjson"]
=============================================================================
