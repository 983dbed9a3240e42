-------------------------- MODULE ReputationLookup --------------------------
(***************************************************************************)
(* One reputation lookup (backend/app/api/v1/reputation.py): the local     *)
(* score (services/intel/reputation_service.py) and its federation over    *)
(* the peer cells (services/intel/cell_federation.py).                     *)
(*                                                                         *)
(* compute_reputation and federated_reputation_lookup call each other: the *)
(* recursion ends when Python refuses a further call (depth MaxDepth), and *)
(* every level it returns through asks all the peers again.  Component     *)
(* scores are in hundredths, weights and risks in tenths.                  *)
(***************************************************************************)
EXTENDS Integers, FiniteSetsExt, Folds

CONSTANTS
  Direct,     \* min(50, 10 ln(1 + n)) in hundredths, for the report counts n used
  Banks,      \* numbers of banks that share an entity
  Risk,       \* propagated risks the graph answers
  Peer,       \* the peer cells of CELL_URLS
  PeerScore,  \* the scores a peer may answer
  Routing,    \* settings.cell_routing_enabled
  MaxDepth    \* bound: levels until RecursionError

Weight == {10, 7, 4, 2, 1}
Reputation == 0..100
MaxDirect == 5000
NoScore == -1

ASSUME DepthAssumption == MaxDepth \in Nat \ {0}
ASSUME PeerScoreAssumption == PeerScore \subseteq Reputation
ASSUME DirectAssumption == 0 \in DOMAIN Direct /\ Direct \in [DOMAIN Direct -> 0..MaxDirect]
ASSUME SignalAssumption == Banks \subseteq Nat /\ Risk \subseteq Nat
ASSUME PeerAssumption == IsFiniteSet(Peer)

VARIABLES
  lookupPc,  \* "new", "descending", "local", "returning", "answered"
  route,     \* who asks
  depth,     \* levels of the recursion that have not returned
  reply,     \* the answer so far: its score, tier, reports and recency weight
  own,       \* history: the local score
  heard      \* history: the scores peers have answered

lookupVars == <<lookupPc, route, depth, reply, own, heard>>

-----------------------------------------------------------------------------
(* Local reputation                                                         *)

Tier(score) ==
  CASE score >= 80 -> "confirmed_scam"
    [] score >= 50 /\ score < 80 -> "suspicious"
    [] score >= 20 /\ score < 50 -> "watch"
    [] OTHER -> "clean"

\* A graph that fails counts as a risk of 0.
PropagatedRisk == Risk \union {0}

\* _get_ring_info looks at `connected' before it connects: no ring is ever found.
RingBump == 0

LocalScore(n, w, risk, banks) ==
  Min({100, ((Direct[n] * w) \div 10 + 300 * risk + 100 * (RingBump + Min({20, 5 * banks})))
              \div 100})

\* An entity nobody reported weighs 0.1.
RecencyWeights(n) == IF n = 0 THEN {1} ELSE Weight

CountBucket(n) ==
  CASE n = 0 -> "none" [] n \in 1..2 -> "few" [] n \in 3..10 -> "several" [] OTHER -> "many"

\* The nightly refresh asks under a key that is prefixed twice, and finds nothing.
ReportsFound(r) == IF r = "refresh" THEN {0} ELSE DOMAIN Direct

-----------------------------------------------------------------------------
(* Federation                                                               *)

SumOf(score) == FoldFunction(+, 0, score)

\* Mutant: the weighted sum is divided by the number of answers.
DividedByCount(local, weight, score) ==
  LET Sum == local * weight + SumOf(score)
      Count == 10 * (1 + Cardinality(DOMAIN score))
  IN  {x \in Reputation : 2 * (Sum - x * Count) <= Count /\ 2 * (x * Count - Sum) <= Count}

\* score is what each peer has answered.  An answer names no last_seen and weighs 0.1,
\* whatever it is.  Python rounds a tie to the even neighbour: either is allowed here.
Aggregated(local, weight, score) ==
  LET Sum == local * weight + SumOf(score)
      Total == weight + Cardinality(DOMAIN score)
  IN  {x \in Reputation : 2 * (Sum - x * Total) <= Total /\ 2 * (x * Total - Sum) <= Total}

-----------------------------------------------------------------------------
Ask(r) ==
  /\ lookupPc = "new" /\ route' = r
  /\ depth' = 0
  /\ lookupPc' = IF Routing THEN "descending" ELSE "local"
  /\ UNCHANGED <<reply, own, heard>>

\* compute_reputation -> federated_reputation_lookup -> compute_reputation ...
Descend ==
  /\ lookupPc = "descending"
  /\ IF depth < MaxDepth THEN depth' = depth + 1 /\ UNCHANGED lookupPc
     ELSE lookupPc' = "local" /\ UNCHANGED depth
  /\ UNCHANGED <<route, reply, own, heard>>

\* RecursionError is caught like any other exception.
ComputeLocalReputation ==
  /\ lookupPc = "local" /\ lookupPc' = "returning"
  /\ \E n \in ReportsFound(route), risk \in PropagatedRisk, banks \in Banks : \E w \in RecencyWeights(n) :
       LET s == LocalScore(n, w, risk, IF route = "refresh" THEN 0 ELSE banks)
       IN  /\ own' = s
           /\ reply' = [score |-> s, tier |-> Tier(s), reports |-> n, weight |-> w]
  /\ UNCHANGED <<route, depth, heard>>

\* One level returns: with no peers the answer stands, a peer that does not answer
\* (or answers no score) is left out.
AskPeers ==
  /\ lookupPc = "returning" /\ depth > 0
  /\ depth' = depth - 1
  /\ \E answered \in SUBSET Peer : \E score \in [answered -> PeerScore] :
       /\ heard' = heard \union Range(score)
       /\ \E s \in Aggregated(reply.score, reply.weight, score) :
            reply' = [reply EXCEPT !.score = IF answered = {} THEN reply.score ELSE s]
  /\ UNCHANGED <<lookupPc, route, own>>

\* tokenize fails, or a peer's answer cannot be read: this level computes the local
\* reputation again (which is the same all through one lookup).
FallBack ==
  /\ lookupPc = "returning" /\ depth > 0
  /\ depth' = depth - 1
  /\ reply' = [reply EXCEPT !.score = own]
  /\ UNCHANGED <<lookupPc, route, own, heard>>

\* The widget's badge, the public reply with its bucket, or all of it.
Answer ==
  /\ lookupPc = "returning" /\ depth = 0 /\ lookupPc' = "answered"
  /\ UNCHANGED <<route, depth, reply, own, heard>>

Badge(score) ==
  CASE score = 0 -> "gray"
    [] score >= 80 -> "green"
    [] score \in 50..79 -> "orange"
    [] OTHER -> "red"

Shown ==
  CASE route = "widget" -> <<Badge(reply.score)>>
    [] route = "public" -> <<reply.tier, reply.score, CountBucket(reply.reports)>>
    [] route = "full" -> <<reply.tier, reply.score, reply.reports>>
    [] OTHER -> <<>>

-----------------------------------------------------------------------------
Route == {"widget", "public", "full", "refresh"}

LookupInit ==
  /\ lookupPc = "new" /\ route = "full" /\ depth = 0
  /\ reply = [score |-> NoScore, tier |-> "clean", reports |-> 0, weight |-> 1]
  /\ own = NoScore /\ heard = {}

LookupNext ==
  \/ \E r \in Route : Ask(r)
  \/ Descend \/ ComputeLocalReputation \/ AskPeers \/ FallBack \/ Answer

LookupSpec == LookupInit /\ [][LookupNext]_lookupVars

-----------------------------------------------------------------------------
(* Properties                                                               *)

LookupTypeOK ==
  /\ lookupPc \in {"new", "descending", "local", "returning", "answered"}
  /\ route \in Route /\ depth \in 0..MaxDepth
  /\ reply.score \in Reputation \union {NoScore} /\ reply.weight \in Weight
  /\ own \in Reputation \union {NoScore} /\ heard \subseteq PeerScore

\* However many levels have aggregated, and whichever of them fell back, the score
\* that is shown lies between the cell's own score and those the peers have
\* answered: it is the cell's own when none has (cell_federation.py:7-8), and the
\* badge is gray only if one of them was 0.
AnswersAreBetween ==
  lookupPc = "answered" =>
    LET known == heard \union {own}
    IN  /\ Min(known) <= reply.score /\ reply.score <= Max(known)
        /\ reply.tier = Tier(own)
        /\ route = "widget" /\ Shown = <<"gray">> => 0 \in known
=============================================================================
