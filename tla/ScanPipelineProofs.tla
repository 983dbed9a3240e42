------------------------- MODULE ScanPipelineProofs -------------------------
(***************************************************************************)
(* Proofs about RiskScoring and ScanPipeline for any scans, texts, models  *)
(* and graph: the thresholds of the scorer, of the action engine and of    *)
(* the warnings agree where it matters.                                    *)
(***************************************************************************)
EXTENDS ScanPipeline, FiniteSetTheorems, TLAPS

-----------------------------------------------------------------------------
(* The scorer and the action engine.                                        *)

\* Each kind of evidence is worth a bounded number of points.
LEMMA PointsOfOne ==
  /\ \A c \in Confidence : ConfidencePoints(c) \in Nat /\ ConfidencePoints(c) <= 21 * Point
  /\ \A n \in Nat : ReportPoints(n) \in Nat /\ (n = 0 => ReportPoints(n) = 0)
  /\ \A n \in Nat : EntityPoints(n) \in Nat /\ EntityPoints(n) <= 4 * Point
<1>1. ASSUME NEW c \in Confidence
      PROVE  ConfidencePoints(c) \in Nat /\ ConfidencePoints(c) <= 21 * Point
  BY SMT DEF Confidence, Certain, ConfidencePoints, TransformerWeight, Point
<1>2. ASSUME NEW n \in Nat
      PROVE  ReportPoints(n) \in Nat /\ (n = 0 => ReportPoints(n) = 0)
  BY SMT DEF ReportPoints, Least, Point
<1>3. ASSUME NEW n \in Nat
      PROVE  EntityPoints(n) \in Nat /\ EntityPoints(n) <= 4 * Point
  BY SMT DEF EntityPoints, Least, GbmWeight, Point
<1> QED
  BY <1>1, <1>2, <1>3

\* Points are a number, and without reports at most seventy.
LEMMA PointsOfAll ==
  ASSUME NEW c \in Confidence, NEW r \in BOOLEAN, NEW u \in BOOLEAN, NEW n \in Nat, NEW m \in Nat
  PROVE  LET x == [conf |-> c, risky |-> r, unknown |-> u, reports |-> n, entities |-> m]
         IN  Points(x) \in Nat /\ (n = 0 => Points(x) <= 70 * Point)
<1> DEFINE x == [conf |-> c, risky |-> r, unknown |-> u, reports |-> n, entities |-> m]
           risky == IF r THEN 25 * Point ELSE 0
           unknown == IF u THEN 20 * Point ELSE 0
<1>1. Points(x) = ConfidencePoints(c) + risky + unknown + ReportPoints(n) + EntityPoints(m)
  BY Zenon DEF Points
<1>2. risky \in {0, 25 * Point} /\ unknown \in {0, 20 * Point}
  OBVIOUS
<1>3. ConfidencePoints(c) \in Nat /\ ConfidencePoints(c) <= 21 * Point
  BY PointsOfOne, Zenon
<1>4. ReportPoints(n) \in Nat /\ (n = 0 => ReportPoints(n) = 0)
  BY PointsOfOne, Zenon
<1>5. EntityPoints(m) \in Nat /\ EntityPoints(m) <= 4 * Point
  BY PointsOfOne, Zenon
<1> HIDE DEF x, risky, unknown
<1>6. Points(x) \in Nat /\ (n = 0 => Points(x) <= 70 * Point)
  BY <1>1, <1>2, <1>3, <1>4, <1>5, SMT DEF Point
<1> QED
  BY <1>6 DEF x

\* A score is a percentage; without prior reports, it is at most 70.
LEMMA ScoreRange ==
  ASSUME NEW c \in Confidence, NEW r \in BOOLEAN, NEW u \in BOOLEAN, NEW n \in Nat, NEW m \in Nat
  PROVE  LET x == [conf |-> c, risky |-> r, unknown |-> u, reports |-> n, entities |-> m]
         IN  Score(x) \in Percent /\ (n = 0 => Score(x) <= 70)
<1> DEFINE x == [conf |-> c, risky |-> r, unknown |-> u, reports |-> n, entities |-> m]
           p == Points(x)
<1>1. p \in Nat /\ (n = 0 => p <= 70 * Point)
  BY PointsOfAll
<1>2. Score(x) = Least(Full, p \div Point)
  BY Zenon DEF Score
<1> HIDE DEF x, p
<1>3. p \div Point \in Nat /\ (n = 0 => p \div Point <= 70)
  BY <1>1, SMT DEF Point
<1>4. Score(x) \in Percent /\ (n = 0 => Score(x) <= 70)
  BY <1>2, <1>3, SMT DEF Least, Percent, Full
<1> QED
  BY <1>4 DEF x

\* The severities, one by one.
LEMMA Severities ==
  /\ Action = {"NONE", "SOFT_WARNING", "HARD_BLOCK", "FREEZE_AND_REPORT", "CRITICAL_REPORT"}
  /\ Severity["NONE"] = 0 /\ Severity["SOFT_WARNING"] = 1 /\ Severity["HARD_BLOCK"] = 2
  /\ Severity["FREEZE_AND_REPORT"] = 3 /\ Severity["CRITICAL_REPORT"] = 4
  BY DEF Action, Severity

\* A score of at most 70 neither is CRITICAL nor recommends to freeze.
LEMMA LowScores ==
  ASSUME NEW n \in Percent
  PROVE  /\ RecommendedAction(n) \in Action
         /\ Level(n) \in {"LOW", "MEDIUM", "HIGH", "CRITICAL"}
         /\ n <= 70 => Level(n) # "CRITICAL" /\ Severity[RecommendedAction(n)] <= 2
         /\ Level(n) \in {"HIGH", "CRITICAL"} <=> n > 50
  BY Severities DEF RecommendedAction, Level, Percent, Full

\* The graph adds at most 20 points, and never takes any.
LEMMA GraphAdds ==
  ASSUME NEW n \in Percent, NEW g \in Percent
  PROVE  /\ Decide(n, g) \in Action
         /\ Severity[Decide(n, g)] \in Bracket[Level(n)]
         /\ Severity[Decide(n, g)] >= 3 => n > 50
<1> DEFINE final == Least(Full, n + (g * 20) \div 100)
<1>1. (g * 20) \div 100 \in 0..20
  BY DEF Percent, Full
<1>2. final \in Percent /\ n <= final /\ final <= n + 20
  BY <1>1 DEF Least, Percent, Full
<1>3. /\ final <= 30 => Decide(n, g) = "NONE"
      /\ final > 30 /\ final <= 50 => Decide(n, g) = "SOFT_WARNING"
      /\ final > 50 /\ final <= 70 => Decide(n, g) = "HARD_BLOCK"
      /\ final > 70 /\ final <= 85 => Decide(n, g) = "FREEZE_AND_REPORT"
      /\ final > 85 => Decide(n, g) = "CRITICAL_REPORT"
  BY <1>2 DEF Decide, Percent, Full
<1> HIDE DEF final
<1>4. Decide(n, g) \in Action /\ (Severity[Decide(n, g)] >= 3 => n > 50)
  BY <1>2, <1>3, Severities DEF Percent, Full
<1>5. /\ Bracket["LOW"] = 0..1 /\ Bracket["MEDIUM"] = 1..2
      /\ Bracket["HIGH"] = 2..4 /\ Bracket["CRITICAL"] = 3..4
  BY DEF Bracket
<1>6. /\ n <= 30 => Level(n) = "LOW"
      /\ n > 30 /\ n <= 50 => Level(n) = "MEDIUM"
      /\ n > 50 /\ n <= 70 => Level(n) = "HIGH"
      /\ n > 70 => Level(n) = "CRITICAL"
  BY DEF Level, Percent, Full
<1>7. Severity[Decide(n, g)] \in Bracket[Level(n)]
  BY <1>2, <1>3, <1>5, <1>6, Severities DEF Percent, Full
<1> QED
  BY <1>4, <1>7

-----------------------------------------------------------------------------
(* Types.                                                                   *)

\* Only chats go beyond the scorer.
ChatStages ==
  \A s \in Scan : pc[s] \in {"scored", "alerting", "logging", "publishing"} => s \in Chat

\* A job in the pool, unless it is an orphan, is one its scan waits for; it is in
\* the queue or in one thread.
JobsAwaited ==
  /\ \A j \in queue : pc[j[1]] = j[2]
  /\ \A t \in Thread : running[t] \in Job =>
       /\ pc[running[t][1]] = running[t][2] /\ running[t] \notin queue
       /\ \A u \in Thread : running[u] = running[t] => u = t

\* The initial states have the types.
LEMMA TypeInit == Init => TypeOK /\ ChatStages
  BY Severities DEF Percent, Full, Init, TypeOK, ChatStages, Stage, Meta

\* What is found in a text, and what the scorer makes of it.
LEMMA EvidenceScore ==
  ASSUME TypeOK, NEW s \in Scan, NEW c \in Confidence
  PROVE  /\ Score(EvidenceOf(s, c)) \in Percent
         /\ meta[s].reports = 0 => Score(EvidenceOf(s, c)) <= 70
<1>1. Found(s) \subseteq Mention
  BY TextAssumption DEF TypeOK, Found, Analyzed
<1>2. Cardinality(Found(s)) \in Nat
  BY <1>1, FiniteAssumption, FS_Subset, FS_CardinalityType
<1>3. meta[s] \in Meta
  BY DEF TypeOK
<1>4. meta[s].reports \in Nat
  <2>1. Reports \union {0} \subseteq Nat
    BY ReportsAssumption
  <2> QED
    BY <1>3, <2>1, Zenon DEF Meta
<1>5. meta[s].unknown \in BOOLEAN
  BY <1>3 DEF Meta
<1>6. (Found(s) \intersect Risky # {}) \in BOOLEAN
  OBVIOUS
<1> QED
  BY <1>2, <1>4, <1>5, <1>6, ScoreRange, Zenon DEF EvidenceOf

\* The classifier's answer and the score that follows from it.
LEMMA ClassifiedStep ==
  ASSUME TypeOK, NEW s \in Scan, NEW c \in Confidence, NEW b \in BOOLEAN,
         NEW t \in {"model", "keywords"}, Classified(s, t, b, c)
  PROVE  \E n \in Percent, p \in {"scored", "answered"} :
           /\ meta[s].reports = 0 => n <= 70
           /\ RecommendedAction(n) \in Action
           /\ tier' = [tier EXCEPT ![s] = t] /\ scam' = [scam EXCEPT ![s] = b]
           /\ score' = [score EXCEPT ![s] = n]
           /\ action' = [action EXCEPT ![s] = RecommendedAction(n)]
           /\ alerted' \in {alerted, alerted \union (Call \intersect {s})}
           /\ pc' = [pc EXCEPT ![s] = p] /\ (p = "scored" <=> s \in Chat)
<1> DEFINE n == Score(EvidenceOf(s, c))
           p == IF s \in Chat THEN "scored" ELSE "answered"
<1>1. n \in Percent /\ (meta[s].reports = 0 => n <= 70)
  BY EvidenceScore
<1>2. RecommendedAction(n) \in Action
  BY <1>1, LowScores
<1>3. /\ tier' = [tier EXCEPT ![s] = t] /\ scam' = [scam EXCEPT ![s] = b]
      /\ score' = [score EXCEPT ![s] = n]
      /\ action' = [action EXCEPT ![s] = RecommendedAction(n)]
      /\ pc' = [pc EXCEPT ![s] = p]
  BY DEF Classified
<1>4. alerted' \in {alerted, alerted \union (Call \intersect {s})}
  BY Zenon DEF Classified
<1>5. p \in {"scored", "answered"} /\ (p = "scored" <=> s \in Chat)
  OBVIOUS
<1> HIDE DEF n, p
<1> QED
  BY <1>1, <1>2, <1>3, <1>4, <1>5

\* A scan that has been classified keeps the types.
LEMMA ClassifiedType ==
  ASSUME TypeOK, ChatStages, NEW s \in Scan, NEW c \in Confidence, NEW b \in BOOLEAN,
         NEW t \in {"model", "keywords"}, Classified(s, t, b, c),
         UNCHANGED <<text, meta, queue, stored>>,
         running' \in [Thread -> Job \union {Idle, Orphan}]
  PROVE  TypeOK' /\ ChatStages'
<1>1. PICK n \in Percent, p \in {"scored", "answered"} :
        /\ RecommendedAction(n) \in Action
        /\ tier' = [tier EXCEPT ![s] = t] /\ scam' = [scam EXCEPT ![s] = b]
        /\ score' = [score EXCEPT ![s] = n]
        /\ action' = [action EXCEPT ![s] = RecommendedAction(n)]
        /\ alerted' \in {alerted, alerted \union (Call \intersect {s})}
        /\ pc' = [pc EXCEPT ![s] = p] /\ (p = "scored" <=> s \in Chat)
  BY ClassifiedStep
<1>2. /\ tier' \in [Scan -> {"none", "model", "keywords"}]
      /\ scam' \in [Scan -> BOOLEAN]
      /\ score' \in [Scan -> Percent]
      /\ action' \in [Scan -> Action]
      /\ alerted' \subseteq Chat \union Call
      /\ pc' \in [Scan -> Stage]
  BY <1>1 DEF TypeOK, Stage
<1>3. ChatStages'
  BY <1>1 DEF ChatStages, TypeOK
<1> QED
  BY <1>2, <1>3 DEF TypeOK, Meta

\* The keywords give a confidence.
LEMMA KeywordConfRange ==
  ASSUME NEW K \in SUBSET Keyword, NEW k \in K
  PROVE  KeywordConf(K, k) \in Confidence
<1>1. IsFiniteSet(K) /\ K # {}
  BY FiniteAssumption, FS_Subset
<1>2. Cardinality(K) \in Nat /\ Cardinality(K) # 0
  BY <1>1, FS_CardinalityType, FS_EmptySet
<1>3. Strength[k] \in Nat
  BY StrengthAssumption
<1>4. KeywordConf(K, k) \in Nat /\ KeywordConf(K, k) <= Certain
  BY <1>2, <1>3, SMT DEF KeywordConf, Least, Certain
<1>5. Certain \in Nat
  BY SMT DEF Certain
<1> QED
  BY <1>4, <1>5, SMT DEF Confidence

\* Every step keeps the types.
LEMMA TypeStep == TypeOK /\ ChatStages /\ JobsAwaited /\ [Next]_vars => TypeOK' /\ ChatStages'
<1> SUFFICES ASSUME TypeOK, ChatStages, JobsAwaited, [Next]_vars PROVE TypeOK' /\ ChatStages'
  OBVIOUS
<1>6. ASSUME NEW s \in Scan, MatchKeywords(s) PROVE TypeOK' /\ ChatStages'
  <2>1. Matched(s) \subseteq Keyword
    BY TextAssumption DEF TypeOK, Matched, Analyzed
  <2>2. PICK k \in Matched(s) : Classified(s, "keywords", TRUE, KeywordConf(Matched(s), k))
    BY <1>6 DEF MatchKeywords
  <2>3. KeywordConf(Matched(s), k) \in Confidence
    BY <2>1, KeywordConfRange
  <2>4. /\ UNCHANGED <<text, meta, queue, stored>>
        /\ running' \in [Thread -> Job \union {Idle, Orphan}]
    BY <1>6 DEF MatchKeywords, poolVars, TypeOK
  <2> QED
    BY <2>2, <2>3, <2>4, ClassifiedType
<1>7. ASSUME NEW s \in Scan, NoKeyword(s) PROVE TypeOK' /\ ChatStages'
  <2>1. PICK c \in NoMatchConf : Classified(s, "keywords", FALSE, c)
    BY <1>7 DEF NoKeyword
  <2>2. c \in Confidence
    BY ConfAssumption DEF Confidence
  <2>3. /\ UNCHANGED <<text, meta, queue, stored>>
        /\ running' \in [Thread -> Job \union {Idle, Orphan}]
    BY <1>7 DEF NoKeyword, poolVars, TypeOK
  <2> QED
    BY <2>1, <2>2, <2>3, ClassifiedType
<1>14. ASSUME NEW t \in Thread, ModelAnswers(t) PROVE TypeOK' /\ ChatStages'
  <2>1. running[t][1] \in Scan
    BY <1>14 DEF ModelAnswers, Job
  <2>2. PICK c \in ModelConf, b \in BOOLEAN : Classified(running[t][1], "model", b, c)
    BY <1>14 DEF ModelAnswers
  <2>3. c \in Confidence
    BY ConfAssumption
  <2>4. /\ UNCHANGED <<text, meta, queue, stored>>
        /\ running' \in [Thread -> Job \union {Idle, Orphan}]
    BY <1>14 DEF ModelAnswers, TypeOK
  <2> QED
    BY <2>1, <2>2, <2>3, <2>4, ClassifiedType
<1> USE DEF TypeOK, ChatStages, poolVars, riskVars, outVars
<1>0. \A m \in Model : NextTier[m] \in {"gbm", "keywords"}
  BY DEF NextTier, Model
<1>1. ASSUME NEW s \in Scan, ReceiveChat(s) PROVE TypeOK' /\ ChatStages'
  <2>1. PICK n \in 1..MaxSegments[s] : \E q \in [1..n -> Segment] : text' = [text EXCEPT ![s] = q]
    BY <1>1 DEF ReceiveChat
  <2>2. PICK q \in Seq(Segment) : text' = [text EXCEPT ![s] = q]
    <3>1. n \in Nat
      BY BoundsAssumption
    <3>2. [1..n -> Segment] \subseteq Seq(Segment)
      <4>1. ASSUME NEW q \in [1..n -> Segment] PROVE q \in Seq(Segment)
        BY <3>1
      <4> QED
        BY <4>1
    <3> QED
      BY <2>1, <3>2, Zenon
  <2>3. PICK u \in BOOLEAN, r \in Reports :
          meta' = [meta EXCEPT ![s] = [unknown |-> u, reports |-> r]]
    BY <1>1 DEF ReceiveChat
  <2>4. [unknown |-> u, reports |-> r] \in Meta
    BY DEF Meta
  <2> QED
    BY <1>1, <2>2, <2>3, <2>4 DEF ReceiveChat, Stage, Model
<1>2. ASSUME NEW s \in Scan, ReceiveSegment(s) PROVE TypeOK' /\ ChatStages'
  BY <1>2 DEF ReceiveSegment, Stage, Model
<1>3. ASSUME NEW s \in Scan, Submit(s) PROVE TypeOK' /\ ChatStages'
  BY <1>3 DEF Submit, JobOf, Job
<1>4. ASSUME NEW s \in Scan, SkipTier(s) PROVE TypeOK' /\ ChatStages'
  BY <1>0, <1>4 DEF SkipTier, Stage, Model
<1>5. ASSUME NEW s \in Scan, TimesOut(s) PROVE TypeOK' /\ ChatStages'
  BY <1>0, <1>5 DEF TimesOut, Abandon, Stage, Model
<1>8. ASSUME NEW s \in Scan, EnrichAndDecide(s) PROVE TypeOK' /\ ChatStages'
  <2>1. PICK g \in GraphRisk \union {0} : action' = [action EXCEPT ![s] = Decide(score[s], g)]
    BY <1>8 DEF EnrichAndDecide
  <2>2. g \in Percent /\ score[s] \in Percent
    BY GraphAssumption DEF Percent, Full
  <2>3. Decide(score[s], g) \in Action
    BY <2>2, GraphAdds
  <2> QED
    BY <1>8, <2>1, <2>3 DEF EnrichAndDecide, Stage
<1>9. ASSUME NEW s \in Scan, EnrichFails(s) PROVE TypeOK' /\ ChatStages'
  BY <1>9 DEF EnrichFails, Stage
<1>10. ASSUME NEW s \in Scan, TriggerAlert(s) PROVE TypeOK' /\ ChatStages'
  BY <1>10 DEF TriggerAlert, Stage
<1>11. ASSUME NEW s \in Scan, LogScanEvent(s) PROVE TypeOK' /\ ChatStages'
  <2>1. [scan |-> s, level |-> Level(score[s]), action |-> action[s]] \in ScanEvent
    BY <1>11, LowScores DEF LogScanEvent, ScanEvent
  <2> QED
    BY <1>11, <2>1 DEF LogScanEvent, Stage
<1>12. ASSUME NEW s \in Scan, Answer(s) PROVE TypeOK' /\ ChatStages'
  BY <1>12 DEF Answer, Stage
<1>13. ASSUME NEW t \in Thread, TakeJob(t) PROVE TypeOK' /\ ChatStages'
  BY <1>13 DEF TakeJob
<1>15. ASSUME NEW t \in Thread, ModelFails(t) PROVE TypeOK' /\ ChatStages'
  <2>1. running[t][1] \in Scan /\ running[t][2] \in Model
    BY <1>15 DEF ModelFails, Job
  <2> QED
    BY <1>0, <1>15, <2>1 DEF ModelFails, JobsAwaited, Stage, Model
<1>16. ASSUME NEW t \in Thread, OrphanEnds(t) PROVE TypeOK' /\ ChatStages'
  BY <1>16 DEF OrphanEnds
<1>17. CASE UNCHANGED vars
  BY <1>17 DEF vars
<1> QED
  BY <1>1, <1>2, <1>3, <1>4, <1>5, <1>6, <1>7, <1>8, <1>9, <1>10, <1>11, <1>12, <1>13, <1>14,
     <1>15, <1>16, <1>17 DEF Next, Progress

-----------------------------------------------------------------------------
(* Jobs.                                                                    *)

\* A job is a scan and a model.
LEMMA JobsArePairs == \A j \in Job : j = <<j[1], j[2]>> /\ j[1] \in Scan /\ j[2] \in Model
  BY DEF Job

\* A scan that does not stand in a tier, or has no job there, has none at all.
LEMMA NoJob ==
  ASSUME TypeOK, JobsAwaited, NEW s \in Scan, pc[s] \notin Model \/ ~ UnderWay(s)
  PROVE  /\ \A j \in queue : j[1] # s
         /\ \A t \in Thread : running[t] \in Job => running[t][1] # s
<1>1. ASSUME NEW j \in queue, j[1] = s PROVE FALSE
  <2>1. pc[s] = j[2] /\ j = <<j[1], j[2]>> /\ j[2] \in Model
    BY <1>1, JobsArePairs DEF JobsAwaited, TypeOK
  <2>2. j = JobOf(s)
    BY <1>1, <2>1 DEF JobOf
  <2> QED
    BY <2>1, <2>2 DEF UnderWay
<1>2. ASSUME NEW t \in Thread, running[t] \in Job, running[t][1] = s PROVE FALSE
  <2> DEFINE j == running[t]
  <2>1. pc[s] = j[2] /\ j = <<j[1], j[2]>> /\ j[2] \in Model
    BY <1>2, JobsArePairs DEF JobsAwaited
  <2>2. j = JobOf(s)
    BY <1>2, <2>1 DEF JobOf
  <2> QED
    BY <2>1, <2>2 DEF UnderWay
<1> QED
  BY <1>1, <1>2

\* A step that moves one scan, none of whose jobs stays in the pool.
LEMMA OneMoves ==
  ASSUME TypeOK, JobsAwaited, NEW s \in Scan, \A r \in Scan : r # s => pc'[r] = pc[r],
         queue' \subseteq queue,
         \A t \in Thread : running'[t] \in {running[t], Idle, Orphan},
         \A j \in queue' : j[1] # s,
         \A t \in Thread : running'[t] \in Job => running'[t][1] # s
  PROVE  JobsAwaited'
<1>1. \A t \in Thread : running'[t] \in Job => running'[t] = running[t]
  BY ThreadAssumption
<1> QED
  BY <1>1, JobsArePairs DEF JobsAwaited, TypeOK

\* Every step keeps jobs with a scan that waits for them.
LEMMA JobsStep == TypeOK /\ JobsAwaited /\ [Next]_vars => JobsAwaited'
<1> SUFFICES ASSUME TypeOK, JobsAwaited, [Next]_vars PROVE JobsAwaited'
  OBVIOUS
<1> USE DEF poolVars, riskVars, outVars
<1>0. \A s \in Scan : pc[s] \notin Model \/ ~ UnderWay(s) =>
        /\ \A j \in queue : j[1] # s
        /\ \A t \in Thread : running[t] \in Job => running[t][1] # s
  BY NoJob
\* The steps of scans without a job.
<1>1. ASSUME NEW s \in Scan, pc[s] \notin Model \/ ~ UnderWay(s), UNCHANGED poolVars,
             \A r \in Scan : r # s => pc'[r] = pc[r]
      PROVE  JobsAwaited'
  BY <1>0, <1>1, OneMoves
<1>2. ASSUME NEW s \in Scan,
             \/ ReceiveChat(s) \/ ReceiveSegment(s) \/ SkipTier(s)
             \/ EnrichAndDecide(s) \/ EnrichFails(s)
             \/ TriggerAlert(s) \/ LogScanEvent(s) \/ Answer(s)
      PROVE  JobsAwaited'
  <2>1. /\ pc[s] \notin Model \/ ~ UnderWay(s)
        /\ UNCHANGED poolVars
        /\ \A r \in Scan : r # s => pc'[r] = pc[r]
    BY <1>2 DEF ReceiveChat, ReceiveSegment, SkipTier, EnrichAndDecide, EnrichFails,
                TriggerAlert, LogScanEvent, Answer, Model, TypeOK
  <2> QED
    BY <1>1, <2>1
<1>3. ASSUME NEW s \in Scan, MatchKeywords(s) \/ NoKeyword(s) PROVE JobsAwaited'
  <2>1. /\ pc[s] \notin Model
        /\ UNCHANGED poolVars
        /\ \A r \in Scan : r # s => pc'[r] = pc[r]
    BY <1>3 DEF MatchKeywords, NoKeyword, Classified, Model, TypeOK
  <2> QED
    BY <1>1, <2>1
<1>4. ASSUME NEW s \in Scan, Submit(s) PROVE JobsAwaited'
  <2>1. /\ queue' = queue \union {JobOf(s)} /\ UNCHANGED <<pc, running>>
        /\ JobOf(s)[1] = s /\ JobOf(s)[2] = pc[s]
    BY <1>4 DEF Submit, JobOf
  <2>2. \A j \in queue' : pc'[j[1]] = j[2]
    BY <2>1 DEF JobsAwaited
  <2>3. ASSUME NEW t \in Thread, running'[t] \in Job
        PROVE  /\ pc'[running'[t][1]] = running'[t][2] /\ running'[t] \notin queue'
               /\ \A u \in Thread : running'[u] = running'[t] => u = t
    BY <1>4, <2>1, <2>3 DEF Submit, UnderWay, JobsAwaited
  <2> QED
    BY <2>2, <2>3 DEF JobsAwaited
<1>5. ASSUME NEW s \in Scan, TimesOut(s) PROVE JobsAwaited'
  <2>1. /\ queue' = queue \ {JobOf(s)}
        /\ running' = [t \in Thread |-> IF running[t] = JobOf(s) THEN Orphan ELSE running[t]]
        /\ \A r \in Scan : r # s => pc'[r] = pc[r]
    BY <1>5 DEF TimesOut, Abandon, TypeOK
  <2>2. \A j \in queue' : j[1] # s
    BY <2>1, JobsArePairs DEF JobsAwaited, JobOf, TypeOK
  <2>3. \A t \in Thread : running'[t] \in Job => running'[t][1] # s
    BY <2>1, JobsArePairs, ThreadAssumption DEF JobsAwaited, JobOf
  <2> QED
    BY <2>1, <2>2, <2>3, OneMoves
<1>6. ASSUME NEW t \in Thread, TakeJob(t) PROVE JobsAwaited'
  BY <1>6, JobsArePairs, ThreadAssumption DEF TakeJob, JobsAwaited, TypeOK
<1>7. ASSUME NEW t \in Thread, ModelAnswers(t) \/ ModelFails(t) PROVE JobsAwaited'
  <2> DEFINE s == running[t][1]
  <2>1. /\ running[t] \in Job /\ s \in Scan
        /\ queue' = queue /\ running' = [running EXCEPT ![t] = Idle]
        /\ \A r \in Scan : r # s => pc'[r] = pc[r]
    BY <1>7, JobsArePairs DEF ModelAnswers, ModelFails, Classified, TypeOK
  <2>2. ASSUME NEW j \in queue', j[1] = s PROVE FALSE
    <3>1. pc[s] = j[2] /\ pc[s] = running[t][2] /\ j \in queue /\ j \in Job
      BY <2>1, <2>2 DEF JobsAwaited, TypeOK
    <3>2. j = running[t]
      BY <2>1, <2>2, <3>1, JobsArePairs
    <3> QED
      BY <2>1, <3>1, <3>2 DEF JobsAwaited
  <2>3. \A u \in Thread : running'[u] \in Job => running'[u][1] # s
    BY <2>1, JobsArePairs, ThreadAssumption DEF JobsAwaited, TypeOK
  <2>4. \A u \in Thread : running'[u] \in {running[u], Idle, Orphan}
    BY <2>1 DEF TypeOK
  <2> HIDE DEF s
  <2> QED
    BY <2>1, <2>2, <2>3, <2>4, OneMoves
<1>8. ASSUME NEW t \in Thread, OrphanEnds(t) PROVE JobsAwaited'
  BY <1>8, ThreadAssumption DEF OrphanEnds, JobsAwaited, TypeOK
<1>9. CASE UNCHANGED vars
  BY <1>9 DEF vars, JobsAwaited
<1> QED
  BY <1>2, <1>3, <1>4, <1>5, <1>6, <1>7, <1>8, <1>9 DEF Next, Progress

-----------------------------------------------------------------------------
(* Scores, actions and alerts.                                              *)

\* What the scorer says of messages and calls, which nobody has reported.
StandaloneScored ==
  \A s \in Message \union Call :
    meta[s].reports = 0 /\ score[s] <= 70 /\ action[s] = RecommendedAction(score[s])

\* A chat that is past the action engine has the action decided from its score.
Decided ==
  \A s \in Chat : pc[s] \in {"alerting", "logging", "publishing", "answered"}
    => \E g \in Percent : action[s] = Decide(score[s], g)

\* Beyond the alert, HIGH and CRITICAL chats had theirs.
AlertedFirst ==
  \A s \in Chat : pc[s] \in {"logging", "publishing", "answered"} /\ score[s] > 50
    => s \in alerted

RiskInv == StandaloneScored /\ Decided /\ AlertedFirst /\ ActionFitsLevel

ScanInv == TypeOK /\ ChatStages /\ JobsAwaited /\ RiskInv

\* At the start no risk is said.
LEMMA RiskInit == Init => RiskInv
<1> SUFFICES ASSUME Init PROVE RiskInv
  OBVIOUS
<1>1. RecommendedAction(0) = "NONE"
  BY DEF RecommendedAction
<1> QED
  BY <1>1 DEF Init, RiskInv, StandaloneScored, Decided, AlertedFirst, ActionFitsLevel, Scan

\* The paths are apart, and so are the stages of a tier and those beyond it.
LEMMA Apart == \A s \in Message \union Call : s \in Scan /\ s \notin Chat
  BY PathsAssumption DEF Scan

\* Classification keeps what is known of the others, and starts a chat over.
LEMMA RiskClassified ==
  ASSUME TypeOK, RiskInv, NEW s \in Scan, NEW c \in Confidence, NEW b \in BOOLEAN,
         NEW t \in {"model", "keywords"}, Classified(s, t, b, c),
         UNCHANGED <<meta, stored>>
  PROVE  RiskInv'
<1>1. PICK n \in Percent, p \in {"scored", "answered"} :
        /\ meta[s].reports = 0 => n <= 70
        /\ score' = [score EXCEPT ![s] = n]
        /\ action' = [action EXCEPT ![s] = RecommendedAction(n)]
        /\ alerted' \in {alerted, alerted \union (Call \intersect {s})}
        /\ pc' = [pc EXCEPT ![s] = p] /\ (p = "scored" <=> s \in Chat)
  BY ClassifiedStep
<1>2. StandaloneScored'
  BY <1>1, Apart DEF RiskInv, StandaloneScored, TypeOK
<1>3. Decided'
  BY <1>1 DEF RiskInv, Decided, TypeOK, Scan
<1>4. AlertedFirst'
  BY <1>1 DEF RiskInv, AlertedFirst, TypeOK, Scan
<1>5. ActionFitsLevel'
  BY DEF RiskInv, ActionFitsLevel
<1> QED
  BY <1>2, <1>3, <1>4, <1>5 DEF RiskInv

\* A scan that moves without a new score or action, to a stage that asks for nothing
\* its old one did not.
LEMMA RiskMoves ==
  ASSUME TypeOK, RiskInv, NEW s \in Scan, UNCHANGED <<score, action, stored>>,
         \A r \in Message \union Call : meta'[r].reports = meta[r].reports,
         \A r \in Scan : r # s => pc'[r] = pc[r],
         alerted \subseteq alerted',
         s \in Chat => \/ pc'[s] \notin {"alerting", "logging", "publishing", "answered"}
                       \/ /\ pc[s] \in {"alerting", "logging", "publishing", "answered"}
                          /\ s \in alerted' \/ pc[s] \in {"logging", "publishing"}
  PROVE  RiskInv'
<1>1. StandaloneScored'
  BY Apart DEF RiskInv, StandaloneScored
<1>2. Decided'
  BY DEF RiskInv, Decided, Scan
<1>3. AlertedFirst'
  BY DEF RiskInv, AlertedFirst, Scan
<1>4. ActionFitsLevel'
  BY DEF RiskInv, ActionFitsLevel
<1> QED
  BY <1>1, <1>2, <1>3, <1>4 DEF RiskInv

\* Every step keeps what is said of a risk.
LEMMA RiskStep ==
  TypeOK /\ ChatStages /\ JobsAwaited /\ RiskInv /\ [Next]_vars => RiskInv'
<1> SUFFICES ASSUME TypeOK, ChatStages, JobsAwaited, RiskInv, [Next]_vars PROVE RiskInv'
  OBVIOUS
<1>1. ASSUME NEW s \in Scan, MatchKeywords(s) PROVE RiskInv'
  <2>1. Matched(s) \subseteq Keyword
    BY TextAssumption DEF TypeOK, Matched, Analyzed
  <2>2. PICK k \in Matched(s) : Classified(s, "keywords", TRUE, KeywordConf(Matched(s), k))
    BY <1>1 DEF MatchKeywords
  <2>3. KeywordConf(Matched(s), k) \in Confidence
    BY <2>1, KeywordConfRange
  <2>4. UNCHANGED <<meta, stored>>
    BY <1>1 DEF MatchKeywords
  <2> QED
    BY <2>2, <2>3, <2>4, RiskClassified
<1>2. ASSUME NEW s \in Scan, NoKeyword(s) PROVE RiskInv'
  <2>1. PICK c \in NoMatchConf : Classified(s, "keywords", FALSE, c)
    BY <1>2 DEF NoKeyword
  <2>2. c \in Confidence /\ UNCHANGED <<meta, stored>>
    BY <1>2, ConfAssumption DEF NoKeyword
  <2> QED
    BY <2>1, <2>2, RiskClassified
<1>3. ASSUME NEW t \in Thread, ModelAnswers(t) PROVE RiskInv'
  <2>1. running[t][1] \in Scan /\ UNCHANGED <<meta, stored>>
    BY <1>3, JobsArePairs DEF ModelAnswers
  <2>2. PICK c \in ModelConf, b \in BOOLEAN : Classified(running[t][1], "model", b, c)
    BY <1>3 DEF ModelAnswers
  <2>3. c \in Confidence
    BY ConfAssumption
  <2> QED
    BY <2>1, <2>2, <2>3, RiskClassified
<1> USE DEF poolVars, riskVars, outVars
<1>4. ASSUME NEW s \in Scan, ReceiveChat(s) PROVE RiskInv'
  <2>1. \A r \in Message \union Call : meta'[r].reports = meta[r].reports
    BY <1>4, Apart DEF ReceiveChat, TypeOK
  <2>2. /\ pc'[s] = "transformer" /\ \A r \in Scan : r # s => pc'[r] = pc[r]
        /\ UNCHANGED <<score, action, alerted, stored>>
    BY <1>4 DEF ReceiveChat, TypeOK
  <2> QED
    BY <2>1, <2>2, RiskMoves
<1>5. ASSUME NEW s \in Scan, ReceiveSegment(s) \/ EnrichFails(s) PROVE RiskInv'
  <2>1. /\ pc'[s] \in {"transformer", "failed"} /\ \A r \in Scan : r # s => pc'[r] = pc[r]
        /\ UNCHANGED <<meta, score, action, alerted, stored>>
    BY <1>5 DEF ReceiveSegment, EnrichFails, TypeOK
  <2> QED
    BY <2>1, RiskMoves
<1>6. ASSUME NEW s \in Scan, SkipTier(s) \/ TimesOut(s) PROVE RiskInv'
  <2>1. /\ pc'[s] \in {"gbm", "keywords"} /\ \A r \in Scan : r # s => pc'[r] = pc[r]
        /\ UNCHANGED <<meta, score, action, alerted, stored>>
    BY <1>6 DEF SkipTier, TimesOut, NextTier, Model, TypeOK
  <2> QED
    BY <2>1, RiskMoves
<1>7. ASSUME NEW t \in Thread, ModelFails(t) PROVE RiskInv'
  <2> DEFINE s == running[t][1]
  <2>1. s \in Scan /\ pc[s] \in Model
    BY <1>7, JobsArePairs DEF ModelFails, JobsAwaited
  <2>2. /\ pc'[s] \in {"gbm", "keywords"} /\ \A r \in Scan : r # s => pc'[r] = pc[r]
        /\ UNCHANGED <<meta, score, action, alerted, stored>>
    BY <1>7, <2>1 DEF ModelFails, NextTier, Model, TypeOK
  <2> HIDE DEF s
  <2> QED
    BY <2>1, <2>2, RiskMoves
<1>8. ASSUME NEW s \in Scan, EnrichAndDecide(s) PROVE RiskInv'
  <2>1. s \in Chat /\ score[s] \in Percent
    BY <1>8 DEF EnrichAndDecide, ChatStages, TypeOK
  <2>2. PICK g \in GraphRisk \union {0} : action' = [action EXCEPT ![s] = Decide(score[s], g)]
    BY <1>8 DEF EnrichAndDecide
  <2>3. g \in Percent
    BY GraphAssumption DEF Percent, Full
  <2>4. pc' = [pc EXCEPT ![s] =
                 IF Level(score[s]) \in {"HIGH", "CRITICAL"} THEN "alerting" ELSE "logging"]
    BY <1>8 DEF EnrichAndDecide
  <2>5. UNCHANGED <<meta, score, alerted, stored>>
    BY <1>8 DEF EnrichAndDecide
  <2>6. pc' = [pc EXCEPT ![s] = IF score[s] > 50 THEN "alerting" ELSE "logging"]
    BY <2>1, <2>4, LowScores
  <2>7. StandaloneScored'
    BY <2>1, <2>2, <2>5, Apart DEF RiskInv, StandaloneScored, TypeOK
  <2>8. Decided'
    BY <2>1, <2>2, <2>3, <2>5, <2>6 DEF RiskInv, Decided, TypeOK, Scan
  <2>9. AlertedFirst'
    BY <2>1, <2>5, <2>6 DEF RiskInv, AlertedFirst, TypeOK, Scan
  <2> QED
    BY <2>5, <2>7, <2>8, <2>9 DEF RiskInv, ActionFitsLevel
<1>9. ASSUME NEW s \in Scan, TriggerAlert(s) \/ Answer(s) PROVE RiskInv'
  <2>1. /\ pc[s] \in {"alerting", "publishing"} /\ \A r \in Scan : r # s => pc'[r] = pc[r]
        /\ UNCHANGED <<meta, score, action, stored>> /\ alerted \subseteq alerted'
        /\ s \in alerted' \/ pc[s] = "publishing"
    BY <1>9 DEF TriggerAlert, Answer, TypeOK
  <2> QED
    BY <2>1, RiskMoves
<1>10. ASSUME NEW s \in Scan, LogScanEvent(s) PROVE RiskInv'
  <2> DEFINE e == [scan |-> s, level |-> Level(score[s]), action |-> action[s]]
  <2>1. /\ pc[s] = "logging" /\ pc' = [pc EXCEPT ![s] = "publishing"]
        /\ stored' \subseteq stored \union {e} /\ UNCHANGED <<meta, score, action, alerted>>
    BY <1>10 DEF LogScanEvent
  <2>2. s \in Chat /\ score[s] \in Percent
    BY <2>1 DEF ChatStages, TypeOK
  <2>3. PICK g \in Percent : action[s] = Decide(score[s], g)
    BY <2>1, <2>2 DEF RiskInv, Decided
  <2>4. Severity[e.action] \in Bracket[e.level]
    BY <2>2, <2>3, GraphAdds
  <2>5. ActionFitsLevel'
    BY <2>1, <2>4 DEF RiskInv, ActionFitsLevel
  <2>6. StandaloneScored'
    BY <2>1 DEF RiskInv, StandaloneScored
  <2>7. Decided' /\ AlertedFirst'
    BY <2>1 DEF RiskInv, Decided, AlertedFirst, TypeOK, Scan
  <2> QED
    BY <2>5, <2>6, <2>7 DEF RiskInv
<1>11. ASSUME UNCHANGED <<pc, meta, riskVars, outVars>> PROVE RiskInv'
  BY <1>11 DEF RiskInv, StandaloneScored, Decided, AlertedFirst, ActionFitsLevel
<1>12. ASSUME NEW s \in Scan, Submit(s) PROVE RiskInv'
  BY <1>11, <1>12 DEF Submit
<1>13. ASSUME NEW t \in Thread, TakeJob(t) \/ OrphanEnds(t) PROVE RiskInv'
  BY <1>11, <1>13 DEF TakeJob, OrphanEnds
<1>14. CASE UNCHANGED vars
  BY <1>11, <1>14 DEF vars
<1> QED
  BY <1>1, <1>2, <1>3, <1>4, <1>5, <1>6, <1>7, <1>8, <1>9, <1>10, <1>12, <1>13, <1>14
     DEF Next, Progress

-----------------------------------------------------------------------------
\* Every step keeps the whole invariant.
LEMMA InvStep == ScanInv /\ [Next]_vars => ScanInv'
  BY TypeStep, JobsStep, RiskStep DEF ScanInv

\* The invariant holds throughout.
LEMMA InvHolds == Spec => []ScanInv
<1>1. Init => ScanInv
  BY TypeInit, RiskInit, ThreadAssumption DEF ScanInv, JobsAwaited, Init
<1> QED
  BY <1>1, InvStep, PTL DEF Spec

\* Every variable keeps its type: scores stay percentages whatever the models
\* answer, and only chats reach the action engine.
THEOREM ScanTypes == Spec => []TypeOK
  BY InvHolds, PTL DEF ScanInv

\* Messages and calls are never CRITICAL, frozen or reported, for any texts,
\* keywords and models: the scorer's points for them stop at 70.
THEOREM StandaloneStopsAtHigh == Spec => []StandaloneNeverCritical
<1>1. ScanInv => StandaloneNeverCritical
  <2> SUFFICES ASSUME ScanInv, NEW s \in Message \union Call
               PROVE  Level(score[s]) # "CRITICAL" /\ Severity[action[s]] <= 2
    BY DEF StandaloneNeverCritical
  <2>1. score[s] \in Percent /\ score[s] <= 70 /\ action[s] = RecommendedAction(score[s])
    BY Apart DEF ScanInv, RiskInv, StandaloneScored, TypeOK
  <2> QED
    BY <2>1, LowScores
<1> QED
  BY <1>1, InvHolds, PTL

\* The action of every stored ScanEvent is one its level allows, whatever risk
\* the graph reports.
THEOREM StoredActionsFit == Spec => []ActionFitsLevel
  BY InvHolds, PTL DEF ScanInv, RiskInv

\* No chat is frozen or reported before its alert was attempted.
THEOREM FreezesAreAlerted == Spec => []FreezeIsAlerted
<1>1. ScanInv => FreezeIsAlerted
  <2> SUFFICES ASSUME ScanInv, NEW s \in Chat, pc[s] \in {"logging", "publishing", "answered"},
                      Severity[action[s]] >= 3
               PROVE  s \in alerted
    BY DEF FreezeIsAlerted
  <2>1. score[s] \in Percent
    BY DEF ScanInv, TypeOK, Scan
  <2>2. PICK g \in Percent : action[s] = Decide(score[s], g)
    BY DEF ScanInv, RiskInv, Decided
  <2>3. score[s] > 50
    BY <2>1, <2>2, GraphAdds
  <2> QED
    BY <2>3 DEF ScanInv, RiskInv, AlertedFirst
<1> QED
  BY <1>1, InvHolds, PTL

\* No chat that is frozen for a recognised scam gets the mild warning.
THEOREM FreezesAreWarned == Spec => []FreezeIsWarned
<1>1. ScanInv => FreezeIsWarned
  <2> SUFFICES ASSUME ScanInv, NEW s \in Chat, pc[s] = "answered", scam[s],
                      Severity[action[s]] >= 3
               PROVE  WarningTier(scam[s], score[s]) \in {"high", "critical"}
    BY DEF FreezeIsWarned
  <2>1. score[s] \in Percent
    BY DEF ScanInv, TypeOK, Scan
  <2>2. PICK g \in Percent : action[s] = Decide(score[s], g)
    BY DEF ScanInv, RiskInv, Decided
  <2>3. score[s] > 50
    BY <2>1, <2>2, GraphAdds
  <2> QED
    BY <2>1, <2>3 DEF WarningTier, Percent, Full
<1> QED
  BY <1>1, InvHolds, PTL

\* Every freeze is alerted and worded as one.
THEOREM FreezesAreAnnounced == Spec => []FreezeIsAnnounced
  BY FreezesAreAlerted, FreezesAreWarned, PTL DEF FreezeIsAnnounced

-----------------------------------------------------------------------------
(* What has been said is not unsaid.                                        *)

\* More certainty, a riskier entity or further ones never make fewer points.
LEMMA PointsGrow ==
  /\ \A c, d \in Confidence : c <= d => ConfidencePoints(c) <= ConfidencePoints(d)
  /\ \A m, n \in Nat : m <= n => EntityPoints(m) <= EntityPoints(n)
<1>1. ASSUME NEW c \in Confidence, NEW d \in Confidence, c <= d
      PROVE  ConfidencePoints(c) <= ConfidencePoints(d)
  BY <1>1, SMT DEF Confidence, Certain, ConfidencePoints, TransformerWeight
<1>2. ASSUME NEW m \in Nat, NEW n \in Nat, m <= n
      PROVE  EntityPoints(m) <= EntityPoints(n)
  BY <1>2, SMT DEF EntityPoints, Least, GbmWeight
<1> QED
  BY <1>1, <1>2

\* Nor a lower score.
LEMMA ScoreGrows ==
  ASSUME NEW c \in Confidence, NEW d \in Confidence, c <= d,
         NEW r \in BOOLEAN, NEW q \in BOOLEAN, r => q,
         NEW m \in Nat, NEW l \in Nat, m <= l, NEW u \in BOOLEAN, NEW n \in Nat
  PROVE  Score([conf |-> c, risky |-> r, unknown |-> u, reports |-> n, entities |-> m])
           <= Score([conf |-> d, risky |-> q, unknown |-> u, reports |-> n, entities |-> l])
<1> DEFINE x == [conf |-> c, risky |-> r, unknown |-> u, reports |-> n, entities |-> m]
           y == [conf |-> d, risky |-> q, unknown |-> u, reports |-> n, entities |-> l]
           risky(b) == IF b THEN 25 * Point ELSE 0
           unknown == IF u THEN 20 * Point ELSE 0
<1>1. /\ Points(x) = ConfidencePoints(c) + risky(r) + unknown + ReportPoints(n) + EntityPoints(m)
      /\ Points(y) = ConfidencePoints(d) + risky(q) + unknown + ReportPoints(n) + EntityPoints(l)
  BY Zenon DEF Points
<1>2. risky(r) \in Nat /\ risky(q) \in Nat /\ risky(r) <= risky(q) /\ unknown \in Nat
  BY DEF Point
<1>3. /\ ConfidencePoints(c) \in Nat /\ ConfidencePoints(d) \in Nat
      /\ ReportPoints(n) \in Nat /\ EntityPoints(m) \in Nat /\ EntityPoints(l) \in Nat
  BY PointsOfOne, Zenon
<1>4. ConfidencePoints(c) <= ConfidencePoints(d) /\ EntityPoints(m) <= EntityPoints(l)
  BY PointsGrow, Zenon
<1>5. Score(x) = Least(Full, Points(x) \div Point) /\ Score(y) = Least(Full, Points(y) \div Point)
  BY Zenon DEF Score
<1> HIDE DEF x, y, risky, unknown
<1>6. Points(x) \in Nat /\ Points(y) \in Nat /\ Points(x) <= Points(y)
  BY <1>1, <1>2, <1>3, <1>4, SMT
<1>7. Score(x) <= Score(y)
  BY <1>5, <1>6, SMT DEF Least, Full, Point
<1> QED
  BY <1>7 DEF x, y

\* What the keyword tier makes of a text that has one of its keywords.
KeywordScore(s, k) == Score(EvidenceOf(s, KeywordConf(Matched(s), k)))

\* A longer text with as strong a keyword is worth no less.
LEMMA ConfGrows ==
  ASSUME NEW K \in SUBSET Keyword, NEW L \in SUBSET Keyword, K \subseteq L,
         NEW k \in K, NEW l \in L, Strength[k] <= Strength[l]
  PROVE  KeywordConf(K, k) <= KeywordConf(L, l)
<1>1. IsFiniteSet(L) /\ IsFiniteSet(K)
  BY FiniteAssumption, FS_Subset
<1>2. /\ Cardinality(K) \in Nat /\ Cardinality(L) \in Nat
      /\ Cardinality(K) <= Cardinality(L)
  BY <1>1, FS_CardinalityType, FS_Subset
<1>3. Strength[k] \in Nat /\ Strength[l] \in Nat
  BY StrengthAssumption
<1> QED
  BY <1>2, <1>3, SMT DEF KeywordConf, Least

\* The evidence of a text and of one that holds it.
LEMMA EvidenceGrows ==
  ASSUME NEW F \in SUBSET Mention, NEW G \in SUBSET Mention, F \subseteq G,
         NEW c \in Confidence, NEW d \in Confidence, c <= d,
         NEW u \in BOOLEAN, NEW n \in Nat
  PROVE  /\ Score([conf |-> c, risky |-> F \intersect Risky # {}, unknown |-> u,
                   reports |-> n, entities |-> Cardinality(F)])
              <= Score([conf |-> d, risky |-> G \intersect Risky # {}, unknown |-> u,
                        reports |-> n, entities |-> Cardinality(G)])
         /\ Score([conf |-> d, risky |-> G \intersect Risky # {}, unknown |-> u,
                   reports |-> n, entities |-> Cardinality(G)]) \in Percent
<1>1. IsFiniteSet(F) /\ IsFiniteSet(G)
  BY FiniteAssumption, FS_Subset
<1>2. /\ Cardinality(F) \in Nat /\ Cardinality(G) \in Nat
      /\ Cardinality(F) <= Cardinality(G)
  BY <1>1, FS_CardinalityType, FS_Subset
<1> DEFINE r == F \intersect Risky # {}
           q == G \intersect Risky # {}
<1>3. r \in BOOLEAN /\ q \in BOOLEAN /\ (r => q)
  OBVIOUS
<1> HIDE DEF r, q
<1>4. Score([conf |-> c, risky |-> r, unknown |-> u, reports |-> n, entities |-> Cardinality(F)])
        <= Score([conf |-> d, risky |-> q, unknown |-> u, reports |-> n,
                  entities |-> Cardinality(G)])
  BY <1>2, <1>3, ScoreGrows, Zenon
<1>5. Score([conf |-> d, risky |-> q, unknown |-> u, reports |-> n,
             entities |-> Cardinality(G)]) \in Percent
  BY <1>2, <1>3, ScoreRange, Zenon
<1> QED
  BY <1>4, <1>5 DEF r, q

\* A call in which the keyword tier recognised a scam still holds a keyword that
\* alone would score it as high.
ScamsStayHeard ==
  \A s \in Call : tier[s] = "keywords" /\ scam[s]
    => \E k \in Matched(s) : score[s] <= KeywordScore(s, k)

\* What is found in a text, and what is added to it with a segment.
LEMMA TextGrows ==
  ASSUME TypeOK, NEW s \in Scan
  PROVE  /\ Matched(s) \subseteq Keyword /\ Found(s) \subseteq Mention
         /\ ReceiveSegment(s) => Matched(s) \subseteq Matched(s)' /\ Found(s) \subseteq Found(s)'
<1>1. Analyzed(s) \subseteq Segment
  BY DEF TypeOK, Analyzed
<1>2. Matched(s) \subseteq Keyword /\ Found(s) \subseteq Mention
  BY <1>1, TextAssumption DEF Matched, Found
<1>3. ASSUME ReceiveSegment(s) PROVE Analyzed(s) \subseteq Analyzed(s)'
  <2>1. PICK g \in Segment : text' = [text EXCEPT ![s] = Append(text[s], g)]
    BY <1>3 DEF ReceiveSegment
  <2>2. text[s] \in Seq(Segment) /\ text'[s] = Append(text[s], g)
    BY <2>1 DEF TypeOK
  <2>3. \A i \in DOMAIN text[s] : i \in DOMAIN text'[s] /\ text'[s][i] = text[s][i]
    BY <2>2
  <2> QED
    BY <2>3 DEF Analyzed
<1> QED
  BY <1>2, <1>3 DEF Matched, Found

\* A stronger keyword of the same text scores no less.
LEMMA CallScores ==
  ASSUME TypeOK, NEW s \in Scan, NEW k \in Matched(s), NEW l \in Matched(s),
         Strength[k] <= Strength[l]
  PROVE  KeywordScore(s, k) <= KeywordScore(s, l)
<1>1. Matched(s) \in SUBSET Keyword /\ Found(s) \in SUBSET Mention
  BY TextGrows
<1>2. /\ KeywordConf(Matched(s), k) \in Confidence
      /\ KeywordConf(Matched(s), l) \in Confidence
      /\ KeywordConf(Matched(s), k) <= KeywordConf(Matched(s), l)
  BY <1>1, KeywordConfRange, ConfGrows
<1>3. meta[s].unknown \in BOOLEAN /\ meta[s].reports \in Nat
  <2>1. meta[s] \in Meta /\ Reports \union {0} \subseteq Nat
    BY ReportsAssumption DEF TypeOK
  <2> QED
    BY <2>1 DEF Meta
<1> QED
  BY <1>1, <1>2, <1>3, EvidenceGrows, Zenon DEF KeywordScore, EvidenceOf

\* A further segment takes no keyword away, and none is worth less for it.
LEMMA ScoreStands ==
  ASSUME TypeOK, NEW s \in Scan, ReceiveSegment(s), NEW k \in Matched(s)
  PROVE  /\ k \in Matched(s)' /\ KeywordScore(s, k) <= KeywordScore(s, k)'
         /\ KeywordScore(s, k)' \in Percent
<1> DEFINE K == Matched(s)
           L == Matched(s)'
           F == Found(s)
           G == Found(s)'
           c == KeywordConf(K, k)
           d == KeywordConf(L, k)
<1>1. L \subseteq Keyword /\ G \subseteq Mention
  <2>1. PICK g \in Segment : text' = [text EXCEPT ![s] = Append(text[s], g)]
    BY DEF ReceiveSegment
  <2>2. text'[s] \in Seq(Segment)
    BY <2>1 DEF TypeOK
  <2>3. Analyzed(s)' \subseteq Segment
    BY <2>2 DEF Analyzed
  <2> QED
    BY <2>3, TextAssumption DEF Matched, Found
<1>2. K \subseteq L /\ F \subseteq G /\ K \subseteq Keyword /\ F \subseteq Mention
  BY TextGrows
<1>3. Strength[k] \in Nat
  BY <1>2, StrengthAssumption
<1>4. c \in Confidence /\ d \in Confidence /\ c <= d
  <2>1. K \in SUBSET Keyword /\ L \in SUBSET Keyword /\ k \in K /\ k \in L /\ Strength[k] <= Strength[k]
    BY <1>1, <1>2, <1>3
  <2> HIDE DEF K, L
  <2> QED
    BY <1>2, <2>1, KeywordConfRange, ConfGrows
<1>5. meta[s].unknown \in BOOLEAN /\ meta[s].reports \in Nat
  <2>1. meta[s] \in Meta /\ Reports \union {0} \subseteq Nat
    BY ReportsAssumption DEF TypeOK
  <2> QED
    BY <2>1 DEF Meta
<1>6. /\ Score([conf |-> c, risky |-> F \intersect Risky # {}, unknown |-> meta[s].unknown,
                reports |-> meta[s].reports, entities |-> Cardinality(F)])
           <= Score([conf |-> d, risky |-> G \intersect Risky # {}, unknown |-> meta[s].unknown,
                     reports |-> meta[s].reports, entities |-> Cardinality(G)])
      /\ Score([conf |-> d, risky |-> G \intersect Risky # {}, unknown |-> meta[s].unknown,
                reports |-> meta[s].reports, entities |-> Cardinality(G)]) \in Percent
  <2>1. F \in SUBSET Mention /\ G \in SUBSET Mention
    BY <1>1, <1>2
  <2>2. PICK u \in BOOLEAN, n \in Nat : u = meta[s].unknown /\ n = meta[s].reports
    BY <1>5, Zenon
  <2> HIDE DEF K, L, F, G, c, d
  <2>3. /\ Score([conf |-> c, risky |-> F \intersect Risky # {}, unknown |-> u,
                  reports |-> n, entities |-> Cardinality(F)])
             <= Score([conf |-> d, risky |-> G \intersect Risky # {}, unknown |-> u,
                       reports |-> n, entities |-> Cardinality(G)])
        /\ Score([conf |-> d, risky |-> G \intersect Risky # {}, unknown |-> u,
                  reports |-> n, entities |-> Cardinality(G)]) \in Percent
    BY <1>2, <1>4, <2>1, EvidenceGrows, Zenon
  <2> QED
    BY <2>2, <2>3, Zenon
<1>7. meta' = meta
  BY DEF ReceiveSegment
<1> QED
  BY <1>2, <1>6, <1>7 DEF KeywordScore, EvidenceOf

\* What a step may do to what is known of a call, and nothing else touches it.
LEMMA CallMoves ==
  ASSUME TypeOK, [Next]_vars, NEW s \in Call
  PROVE  \/ /\ text'[s] = text[s] /\ meta'[s] = meta[s] /\ tier'[s] = tier[s]
            /\ scam'[s] = scam[s] /\ score'[s] = score[s]
         \/ ReceiveSegment(s) \/ MatchKeywords(s) \/ NoKeyword(s)
         \/ tier'[s] = "model"
<1> DEFINE Kept == /\ text'[s] = text[s] /\ meta'[s] = meta[s] /\ tier'[s] = tier[s]
                   /\ scam'[s] = scam[s] /\ score'[s] = score[s]
<1>1. s \in Scan /\ s \notin Chat
  BY PathsAssumption DEF Scan
<1>2. ASSUME NEW r \in Scan, NEW t, NEW b, NEW c, Classified(r, t, b, c),
             UNCHANGED <<text, meta>>, r # s
      PROVE  Kept
  BY <1>1, <1>2 DEF Classified, TypeOK
<1>3. ASSUME NEW r \in Scan, MatchKeywords(r) \/ NoKeyword(r), r # s PROVE Kept
  BY <1>2, <1>3, Zenon DEF MatchKeywords, NoKeyword
<1>4. ASSUME NEW t \in Thread, ModelAnswers(t) PROVE Kept \/ tier'[s] = "model"
  <2>1. running[t][1] \in Scan /\ UNCHANGED <<text, meta>>
    BY <1>4 DEF ModelAnswers, Job
  <2>2. PICK c \in ModelConf, b \in BOOLEAN : Classified(running[t][1], "model", b, c)
    BY <1>4 DEF ModelAnswers
  <2>3. CASE running[t][1] = s
    BY <1>1, <2>2, <2>3 DEF Classified, TypeOK
  <2> QED
    BY <1>2, <2>1, <2>2, <2>3
<1>5. ASSUME NEW r \in Scan, ReceiveSegment(r) PROVE Kept \/ ReceiveSegment(s)
  <2>1. CASE r # s
    BY <1>1, <1>5, <2>1 DEF ReceiveSegment, riskVars, TypeOK
  <2> QED
    BY <1>5, <2>1
<1>6. ASSUME NEW r \in Scan, ReceiveChat(r) PROVE Kept
  BY <1>1, <1>6 DEF ReceiveChat, riskVars, TypeOK
<1>7. ASSUME UNCHANGED <<text, meta, tier, scam, score>> PROVE Kept
  BY <1>7
<1>8. ASSUME NEW r \in Scan, Progress(r) PROVE \/ Kept \/ MatchKeywords(s) \/ NoKeyword(s)
  BY <1>3, <1>7, <1>8 DEF Progress, Submit, SkipTier, TimesOut, EnrichAndDecide, EnrichFails,
     TriggerAlert, LogScanEvent, Answer, riskVars
<1>9. ASSUME NEW t \in Thread, TakeJob(t) \/ ModelFails(t) \/ OrphanEnds(t) PROVE Kept
  BY <1>7, <1>9 DEF TakeJob, ModelFails, OrphanEnds, riskVars
<1>10. ASSUME UNCHANGED vars PROVE Kept
  BY <1>7, <1>10 DEF vars, riskVars
<1> HIDE DEF Kept
<1>11. ASSUME Next
       PROVE  \/ Kept \/ ReceiveSegment(s) \/ MatchKeywords(s) \/ NoKeyword(s)
              \/ tier'[s] = "model"
  BY <1>4, <1>5, <1>6, <1>8, <1>9, <1>11, Zenon DEF Next
<1>12. \/ Kept \/ ReceiveSegment(s) \/ MatchKeywords(s) \/ NoKeyword(s) \/ tier'[s] = "model"
  BY <1>10, <1>11
<1> QED
  BY <1>12 DEF Kept

\* The keyword tier answers with its strongest keyword.
LEMMA StrongestSpeaks ==
  ASSUME TypeOK, NEW s \in Scan, MatchKeywords(s)
  PROVE  /\ \E k \in Matched(s) : score'[s] = KeywordScore(s, k)
         /\ \A k \in Matched(s) : KeywordScore(s, k) <= score'[s]
<1>1. PICK l \in Matched(s) : /\ \A j \in Matched(s) : Strength[j] <= Strength[l]
                              /\ Classified(s, "keywords", TRUE, KeywordConf(Matched(s), l))
  BY DEF MatchKeywords
<1>2. score'[s] = KeywordScore(s, l)
  BY <1>1 DEF Classified, TypeOK, KeywordScore
<1>3. ASSUME NEW k \in Matched(s) PROVE KeywordScore(s, k) <= score'[s]
  BY <1>1, <1>2, CallScores
<1> QED
  BY <1>2, <1>3

\* The scores are percentages.
LEMMA KeywordScoreRange ==
  ASSUME TypeOK, NEW s \in Scan, NEW k \in Matched(s)
  PROVE  KeywordScore(s, k) \in Percent
<1>1. KeywordConf(Matched(s), k) \in Confidence
  BY TextGrows, KeywordConfRange
<1> QED
  BY <1>1, EvidenceScore DEF KeywordScore

\* Every step keeps the scams of a call in what is heard of it.
LEMMA ScamsStep == TypeOK /\ TypeOK' /\ ScamsStayHeard /\ [Next]_vars => ScamsStayHeard'
<1> SUFFICES ASSUME TypeOK, TypeOK', ScamsStayHeard, [Next]_vars, NEW s \in Call,
                    tier'[s] = "keywords", scam'[s]
             PROVE  \E k \in Matched(s)' : score'[s] <= KeywordScore(s, k)'
  BY DEF ScamsStayHeard
<1>0. s \in Scan
  BY DEF Scan
<1> DEFINE Same == text'[s] = text[s] /\ meta'[s] = meta[s]
<1>1. ASSUME Same PROVE /\ Matched(s)' = Matched(s)
                        /\ \A k : KeywordScore(s, k)' = KeywordScore(s, k)
  BY <1>1 DEF Matched, Found, Analyzed, KeywordScore, EvidenceOf
<1>2. CASE /\ Same /\ tier'[s] = tier[s] /\ scam'[s] = scam[s] /\ score'[s] = score[s]
  <2>1. PICK k \in Matched(s) : score[s] <= KeywordScore(s, k)
    BY <1>2 DEF ScamsStayHeard
  <2> HIDE DEF Same
  <2> QED
    BY <1>1, <1>2, <2>1
<1>3. CASE ReceiveSegment(s)
  <2>1. tier'[s] = tier[s] /\ scam'[s] = scam[s] /\ score'[s] = score[s]
    BY <1>3 DEF ReceiveSegment, riskVars
  <2>2. PICK k \in Matched(s) : score[s] <= KeywordScore(s, k)
    BY <2>1 DEF ScamsStayHeard
  <2>3. /\ k \in Matched(s)' /\ KeywordScore(s, k) <= KeywordScore(s, k)'
        /\ KeywordScore(s, k)' \in Percent
    BY <1>0, <1>3, ScoreStands
  <2>4. score[s] \in Percent /\ KeywordScore(s, k) \in Percent
    BY <1>0, KeywordScoreRange DEF TypeOK
  <2> QED
    BY <2>1, <2>2, <2>3, <2>4 DEF Percent, Full
<1>4. CASE MatchKeywords(s)
  <2>1. Same
    BY <1>4 DEF MatchKeywords
  <2>2. PICK k \in Matched(s) : score'[s] = KeywordScore(s, k)
    BY <1>0, <1>4, StrongestSpeaks
  <2>3. KeywordScore(s, k) \in Int
    BY <1>0, KeywordScoreRange DEF Percent, Full
  <2> HIDE DEF Same
  <2> QED
    BY <1>1, <2>1, <2>2, <2>3
<1>5. CASE NoKeyword(s)
  BY <1>0, <1>5 DEF NoKeyword, Classified, TypeOK
<1> QED
  BY <1>2, <1>3, <1>4, <1>5, CallMoves

\* They are in it throughout.
LEMMA ScamsHeard == Spec => []ScamsStayHeard
<1>1. Init => ScamsStayHeard
  BY DEF Init, ScamsStayHeard, Scan
<1> QED
  BY <1>1, InvHolds, ScamsStep, PTL DEF ScanInv, Spec

\* Once the keyword tier has recognised a scam in a call, whatever is said next
\* never lowers the score of its answers: the whole transcript is scored again,
\* and more of it is never worth less (voice_stream_websocket).
THEOREM CallsStayRisky == Spec => CallRiskNeverFalls
<1> DEFINE A == \A s \in Call : tier[s] = "keywords" /\ scam[s] /\ tier'[s] = "keywords"
                  => score'[s] >= score[s]
<1>1. TypeOK /\ ScamsStayHeard /\ [Next]_vars => A
  <2> SUFFICES ASSUME TypeOK, ScamsStayHeard, [Next]_vars, NEW s \in Call,
                      tier[s] = "keywords", scam[s], tier'[s] = "keywords"
               PROVE  score'[s] >= score[s]
    OBVIOUS
  <2>0. s \in Scan /\ score[s] \in Percent
    BY DEF Scan, TypeOK
  <2>1. PICK k \in Matched(s) : score[s] <= KeywordScore(s, k)
    BY DEF ScamsStayHeard
  <2>2. CASE score'[s] = score[s]
    BY <2>0, <2>2 DEF Percent, Full
  <2>3. CASE ReceiveSegment(s)
    BY <2>2, <2>3 DEF ReceiveSegment, riskVars
  <2>4. CASE MatchKeywords(s)
    <3>1. KeywordScore(s, k) <= score'[s]
      BY <2>0, <2>4, StrongestSpeaks
    <3>2. PICK l \in Matched(s) : score'[s] = KeywordScore(s, l)
      BY <2>0, <2>4, StrongestSpeaks
    <3>3. KeywordScore(s, k) \in Int /\ score'[s] \in Int
      BY <2>0, <3>2, KeywordScoreRange DEF Percent, Full
    <3> QED
      BY <2>0, <2>1, <3>1, <3>3 DEF Percent, Full
  <2>5. CASE NoKeyword(s)
    BY <2>1, <2>5 DEF NoKeyword
  <2> QED
    BY <2>2, <2>3, <2>4, <2>5, CallMoves
<1> QED
  BY <1>1, InvHolds, ScamsHeard, PTL DEF ScanInv, CallRiskNeverFalls, Spec
=============================================================================
