---------------------------- MODULE ScanPipeline ----------------------------
(***************************************************************************)
(* The scan paths of the API: chat sessions (POST /analyze), single        *)
(* messages (/scan, /scan-message, /consumer/scan, the WhatsApp webhook)   *)
(* and calls transcribed over a WebSocket (/voice/stream).  They share the *)
(* tiered classifier and its thread pool; a chat goes on to the graph, the *)
(* action engine, the alert, the ScanEvent row and the event bus           *)
(* (backend/app/api/v1/analyze.py, scan.py, consumer.py, whatsapp.py,      *)
(* voice.py; services/nlp/, services/alerting/).                           *)
(*                                                                         *)
(* One event loop serves all scans: they interleave where the code awaits. *)
(* Inference runs in the loop's default executor, whose threads a timeout  *)
(* cannot stop: it cancels a job that still waits for a thread, while one  *)
(* that has a thread keeps it until the model returns.                     *)
(*                                                                         *)
(* A text is a sequence of segments: a chat's messages, a call's chunks.   *)
(***************************************************************************)
EXTENDS RiskScoring, Sequences, FiniteSets

CONSTANTS
  Chat, Message, Call,   \* scans, by the path they take
  Segment,               \* what is said
  Keyword, Strength,     \* SCAM_KEYWORDS and their confidences
  Says,                  \* the keywords of each segment
  Mention, Mentions,     \* occurrences of entities, and those in each segment
  Risky,                 \* AnyDesk, TeamViewer, shortlink and APK entities
  Window,                \* segments in the first 512 words, which clean() keeps
  Reports,               \* prior reports a chat's metadata may hold
  ModelConf, NoMatchConf,  \* confidences of the models, and without a keyword
  GraphRisk,             \* risks the graph may have for an entity, in percent
  Thread, Idle, Orphan,  \* the executor's threads, and what they may hold
  MaxSegments            \* bound: segments of each text

Scan == Chat \union Message \union Call
Model == {"transformer", "gbm"}
Job == Scan \X Model

ASSUME PathsAssumption ==
  Chat \intersect (Message \union Call) = {} /\ Message \intersect Call = {}
ASSUME StrengthAssumption == Strength \in [Keyword -> Nat]
ASSUME TextAssumption ==
  /\ Says \in [Segment -> SUBSET Keyword] /\ Mentions \in [Segment -> SUBSET Mention]
  /\ \A g, h \in Segment : g # h => Mentions[g] \intersect Mentions[h] = {}
ASSUME FiniteAssumption == IsFiniteSet(Mention) /\ IsFiniteSet(Keyword)
ASSUME ReportsAssumption == Reports \subseteq Nat
ASSUME ConfAssumption == ModelConf \subseteq Confidence /\ NoMatchConf \subseteq Confidence
ASSUME GraphAssumption == GraphRisk \subseteq Percent
ASSUME ThreadAssumption == Idle \notin Job /\ Orphan \notin Job /\ Idle # Orphan
ASSUME BoundsAssumption == Window \in Nat \ {0} /\ MaxSegments \in [Scan -> Nat]

VARIABLES
  pc,        \* where each scan stands
  text,      \* what it has been given so far
  meta,      \* unknown contact and prior reports
  queue,     \* inference jobs that wait for a thread, in no order
  running,   \* what each thread works on
  tier, scam, score,   \* the last classification and its risk score
  action,    \* decided for a chat, recommended by the scorer for the others
  alerted,   \* chats whose alert was attempted, calls sent an alert
  stored     \* ScanEvent rows

poolVars == <<queue, running>>
riskVars == <<tier, scam, score, action>>
outVars == <<alerted, stored>>
vars == <<pc, text, meta, poolVars, riskVars, outVars>>

Meta == [unknown : BOOLEAN, reports : Reports \union {0}]
ScanEvent == [scan : Chat, level : {"LOW", "MEDIUM", "HIGH", "CRITICAL"}, action : Action]

\* Mutant: each chunk is analyzed alone.
LastAnalyzed(s) == {text[s][i] : i \in {j \in DOMAIN text[s] : j = Len(text[s])}}

\* What the pipeline gets to see of a text, and what it finds in it.
Analyzed(s) == {text[s][i] : i \in {j \in DOMAIN text[s] : j <= Window}}

Matched(s) == UNION {Says[g] : g \in Analyzed(s)}
Found(s) == UNION {Mentions[g] : g \in Analyzed(s)}

EvidenceOf(s, c) ==
  [conf |-> c, risky |-> Found(s) \intersect Risky # {}, unknown |-> meta[s].unknown,
   reports |-> meta[s].reports, entities |-> Cardinality(Found(s))]

-----------------------------------------------------------------------------
(* The requests                                                             *)

\* analyze_chat: the messages of one session, all at once.
ReceiveChat(s) ==
  /\ s \in Chat /\ pc[s] = "idle"
  /\ \E n \in 1..MaxSegments[s] : \E t \in [1..n -> Segment] :
       /\ \A i, j \in 1..n : t[i] = t[j] => i = j
       /\ text' = [text EXCEPT ![s] = t]
  /\ \E u \in BOOLEAN, r \in Reports : meta' = [meta EXCEPT ![s] = [unknown |-> u, reports |-> r]]
  /\ pc' = [pc EXCEPT ![s] = "transformer"]
  /\ UNCHANGED <<poolVars, riskVars, outVars>>

\* A single message, or the next chunk of a call that has its last result: the
\* whole transcript is analyzed again.
ReceiveSegment(s) ==
  /\ s \in Message \union Call /\ Len(text[s]) < MaxSegments[s]
  /\ pc[s] = "idle" \/ (s \in Call /\ pc[s] = "answered")
  /\ \E g \in Segment :
       /\ \A i \in DOMAIN text[s] : text[s][i] # g
       /\ text' = [text EXCEPT ![s] = Append(@, g)]
  /\ pc' = [pc EXCEPT ![s] = "transformer"]
  /\ UNCHANGED <<meta, poolVars, riskVars, outVars>>

-----------------------------------------------------------------------------
(* ScamClassifier.classify and RiskScorer.score                             *)

\* classify returns and, without an await between, the scorer runs: a message
\* or a call is answered with it, a chat goes on to the graph.
Classified(s, t, isScam, c) ==
  LET risk == Score(EvidenceOf(s, c))
  IN  /\ tier' = [tier EXCEPT ![s] = t]
      /\ scam' = [scam EXCEPT ![s] = isScam]
      /\ score' = [score EXCEPT ![s] = risk]
      /\ action' = [action EXCEPT ![s] = RecommendedAction(risk)]
      /\ alerted' = IF s \in Call /\ risk >= 70 THEN alerted \union {s} ELSE alerted
      /\ pc' = [pc EXCEPT ![s] = IF s \in Chat THEN "scored" ELSE "answered"]

NextTier == [transformer |-> "gbm", gbm |-> "keywords"]

\* The inference that scan s waits for: at most one, in the tier it is at.
JobOf(s) == <<s, pc[s]>>
UnderWay(s) == JobOf(s) \in queue \/ \E t \in Thread : running[t] = JobOf(s)

Submit(s) ==
  /\ pc[s] \in Model /\ ~ UnderWay(s)
  /\ queue' = queue \union {JobOf(s)}
  /\ UNCHANGED <<pc, text, meta, running, riskVars, outVars>>

\* The artifact is missing, or the job cannot be prepared: no tokenizer, or no
\* features.
SkipTier(s) ==
  /\ pc[s] \in Model /\ ~ UnderWay(s)
  /\ pc' = [pc EXCEPT ![s] = NextTier[@]]
  /\ UNCHANGED <<text, meta, poolVars, riskVars, outVars>>

TakeJob(t) ==
  /\ running[t] = Idle
  /\ \E j \in queue :
       /\ queue' = queue \ {j}
       /\ running' = [running EXCEPT ![t] = j]
  /\ UNCHANGED <<pc, text, meta, riskVars, outVars>>

\* The thread cannot be stopped, but nobody waits for what it computes.
Abandon(j) == running' = [t \in Thread |-> IF running[t] = j THEN Orphan ELSE running[t]]

\* Mutant: the clock starts when the job gets its thread.
TimesOutOnThread(s) ==
  /\ pc[s] \in Model /\ \E t \in Thread : running[t] = JobOf(s)
  /\ Abandon(JobOf(s))
  /\ pc' = [pc EXCEPT ![s] = NextTier[@]]
  /\ UNCHANGED <<text, meta, queue, riskVars, outVars>>

\* After 50 ms (transformer) or 20 ms (GBM), the wait for a thread included.
TimesOut(s) ==
  /\ pc[s] \in Model /\ UnderWay(s)
  /\ queue' = queue \ {JobOf(s)}
  /\ Abandon(JobOf(s))
  /\ pc' = [pc EXCEPT ![s] = NextTier[@]]
  /\ UNCHANGED <<text, meta, riskVars, outVars>>

\* Class 0 is no scam, whatever its probability.
ModelAnswers(t) ==
  /\ running[t] \in Job
  /\ \E c \in ModelConf, b \in BOOLEAN : Classified(running[t][1], "model", b, c)
  /\ running' = [running EXCEPT ![t] = Idle]
  /\ UNCHANGED <<text, meta, queue, stored>>

ModelFails(t) ==
  /\ running[t] \in Job
  /\ pc' = [pc EXCEPT ![running[t][1]] = NextTier[@]]
  /\ running' = [running EXCEPT ![t] = Idle]
  /\ UNCHANGED <<text, meta, queue, riskVars, outVars>>

OrphanEnds(t) ==
  /\ running[t] = Orphan
  /\ running' = [running EXCEPT ![t] = Idle]
  /\ UNCHANGED <<pc, text, meta, queue, riskVars, outVars>>

\* The strongest keyword, 0.05 more for each further one up to 0.15, at most 0.99.
KeywordConf(K, k) ==
  Least(9900, Strength[k] + Least(1500, 500 * (Cardinality(K) - 1)))

MatchKeywords(s) ==
  /\ pc[s] = "keywords"
  /\ \E k \in Matched(s) :
       /\ \A j \in Matched(s) : Strength[j] <= Strength[k]
       /\ Classified(s, "keywords", TRUE, KeywordConf(Matched(s), k))
  /\ UNCHANGED <<text, meta, poolVars, stored>>

\* The confidence of a text without a keyword is taken from its hash.
NoKeyword(s) ==
  /\ pc[s] = "keywords" /\ Matched(s) = {}
  /\ \E c \in NoMatchConf : Classified(s, "keywords", FALSE, c)
  /\ UNCHANGED <<text, meta, poolVars, stored>>

-----------------------------------------------------------------------------
(* The rest of analyze_chat                                                 *)

\* The highest risk the graph has for an entity; a failed query counts as 0.
EnrichAndDecide(s) ==
  /\ pc[s] = "scored"
  /\ \E g \in IF Found(s) = {} THEN {0} ELSE GraphRisk \union {0} :
       action' = [action EXCEPT ![s] = Decide(score[s], g)]
  /\ pc' = [pc EXCEPT ![s] =
              IF Level(score[s]) \in {"HIGH", "CRITICAL"} THEN "alerting" ELSE "logging"]
  /\ UNCHANGED <<text, meta, poolVars, tier, scam, score, outVars>>

\* Closing the graph's connections is not guarded: the request ends with 500.
EnrichFails(s) ==
  /\ pc[s] = "scored"
  /\ pc' = [pc EXCEPT ![s] = "failed"]
  /\ UNCHANGED <<text, meta, poolVars, riskVars, outVars>>

\* trigger_alert waits for the webhook, whose failure is only logged.
TriggerAlert(s) ==
  /\ pc[s] = "alerting"
  /\ alerted' = alerted \union {s}
  /\ pc' = [pc EXCEPT ![s] = "logging"]
  /\ UNCHANGED <<text, meta, poolVars, riskVars, stored>>

\* The row holds the scorer's level and the engine's action; it may fail.
LogScanEvent(s) ==
  /\ pc[s] = "logging"
  /\ stored' \in {stored, stored \union
                   {[scan |-> s, level |-> Level(score[s]), action |-> action[s]]}}
  /\ pc' = [pc EXCEPT ![s] = "publishing"]
  /\ UNCHANGED <<text, meta, poolVars, riskVars, alerted>>

\* The dashboard and the event bus are told and their failures passed over; nobody
\* consumes the topic.
Answer(s) ==
  /\ pc[s] = "publishing"
  /\ pc' = [pc EXCEPT ![s] = "answered"]
  /\ UNCHANGED <<text, meta, poolVars, riskVars, alerted, stored>>

-----------------------------------------------------------------------------
Init ==
  /\ pc = [s \in Scan |-> "idle"]
  /\ text = [s \in Scan |-> <<>>]
  /\ meta = [s \in Scan |-> [unknown |-> TRUE, reports |-> 0]]
  /\ queue = {} /\ running = [t \in Thread |-> Idle]
  /\ tier = [s \in Scan |-> "none"] /\ scam = [s \in Scan |-> FALSE]
  /\ score = [s \in Scan |-> 0] /\ action = [s \in Scan |-> "NONE"]
  /\ alerted = {} /\ stored = {}

\* What the event loop does for a scan without waiting for a model or a client.
Progress(s) ==
  \/ Submit(s) \/ SkipTier(s) \/ TimesOut(s)
  \/ MatchKeywords(s) \/ NoKeyword(s)
  \/ EnrichAndDecide(s) \/ EnrichFails(s)
  \/ TriggerAlert(s) \/ LogScanEvent(s) \/ Answer(s)

Next ==
  \/ \E s \in Scan : ReceiveChat(s) \/ ReceiveSegment(s) \/ Progress(s)
  \/ \E t \in Thread : TakeJob(t) \/ ModelAnswers(t) \/ ModelFails(t) \/ OrphanEnds(t)

\* The loop is never blocked, its timers fire and the awaited services answer or
\* time out.  Nothing is assumed of models: a thread may be held for ever.
Spec == Init /\ [][Next]_vars /\ \A s \in Scan : WF_vars(Progress(s))

-----------------------------------------------------------------------------
(* Properties                                                               *)

Stage == Model \union {"idle", "keywords", "scored", "alerting", "logging", "publishing",
                       "answered", "failed"}

\* Every variable ranges over what the pipeline can hold.
TypeOK ==
  /\ pc \in [Scan -> Stage]
  /\ text \in [Scan -> Seq(Segment)]
  /\ meta \in [Scan -> Meta]
  /\ queue \subseteq Job
  /\ running \in [Thread -> Job \union {Idle, Orphan}]
  /\ tier \in [Scan -> {"none", "model", "keywords"}]
  /\ scam \in [Scan -> BOOLEAN]
  /\ score \in [Scan -> Percent]
  /\ action \in [Scan -> Action]
  /\ alerted \subseteq Chat \union Call
  /\ stored \subseteq ScanEvent

\* The graph only adds: the action of a stored ScanEvent is at least what its
\* level calls for, and graph risk alone never blocks a LOW session nor freezes
\* one that was not HIGH (the thresholds of RiskScorer and of ActionEngine).
Bracket == [LOW |-> 0..1, MEDIUM |-> 1..2, HIGH |-> 2..4, CRITICAL |-> 3..4]
ActionFitsLevel == \A e \in stored : Severity[e.action] \in Bracket[e.level]

\* No session is frozen or reported without an alert, though alerts go by the
\* scorer's level and freezes by the engine's action (analyze_chat).
FreezeIsAlerted ==
  \A s \in Chat : pc[s] \in {"logging", "publishing", "answered"}
    /\ Severity[action[s]] >= 3 => s \in alerted

\* A session frozen for a recognised scam is never shown the mild text: its
\* warning comes from the base score and from thresholds of its own
\* (WarningGenerator.generate).
FreezeIsWarned ==
  \A s \in Chat : pc[s] = "answered" /\ scam[s] /\ Severity[action[s]] >= 3
    => WarningTier(scam[s], score[s]) \in {"high", "critical"}

\* Nobody is frozen in silence: the bank has its alert and the victim the words
\* of a freeze, however far the graph has lifted the action over the score.
FreezeIsAnnounced == FreezeIsAlerted /\ FreezeIsWarned

\* Messages and calls have no prior reports and no graph behind them: at the
\* default weights none of them is ever CRITICAL, frozen or reported.
StandaloneNeverCritical ==
  \A s \in Message \union Call :
    Level(score[s]) # "CRITICAL" /\ Severity[action[s]] <= 2

\* As a call goes on its risk does not fall: once the keyword tier has
\* recognised a scam, saying more never lowers what it answers.
CallRiskNeverFalls ==
  [][\A s \in Call : tier[s] = "keywords" /\ scam[s] /\ tier'[s] = "keywords"
       => score'[s] >= score[s]]_vars

\* Every request is answered or refused, even when models hang in all threads.
EveryScanIsAnswered ==
  \A s \in Scan : pc[s] # "idle" ~> pc[s] \in {"answered", "failed"}

\* voice_stream_websocket: "Clients stream transcript chunks and receive instant
\* analysis results", over the accumulated text.  Then no chunk is left out of
\* the result that answers it.
CallIsHeard ==
  \A s \in Call : pc[s] = "answered" => \A i \in DOMAIN text[s] : text[s][i] \in Analyzed(s)
=============================================================================
