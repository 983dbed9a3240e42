--------------------------- MODULE ScanEntrances ---------------------------
(***************************************************************************)
(* The other ways into the assessment of ScanPipeline, each with a context *)
(* and with words of its own: single messages (backend/app/api/v1/scan.py, *)
(* consumer.py, whatsapp.py), batches (batch.py), recorded calls and calls *)
(* streamed as sound (voice.py, services/voice/whisper_service.py); and    *)
(* the two that use tables instead of the scorer: pictures                 *)
(* (image_analysis.py) and payments (analyze.py, the pre-transaction       *)
(* webhook).  What the classifier makes of a text is left open.            *)
(***************************************************************************)
EXTENDS RiskScoring, FiniteSets, Sequences

CONSTANTS
  Submission,   \* requests other than streams
  ClassifierConf, \* confidences the classifier may return
  Mentioned,    \* numbers of entities in a text
  PriorReports, \* prior reports a batch's metadata may hold
  NoAnswer,
  Stream,       \* connections to /voice/stream/audio
  Every,        \* chunks of sound between two transcriptions (50 in the code)
  MaxSound      \* bound: chunks of a stream

ASSUME EntranceAssumption ==
  /\ ClassifierConf \subseteq Confidence /\ Mentioned \subseteq Nat /\ PriorReports \subseteq Nat
  /\ Every \in Nat \ {0} /\ MaxSound \in Nat

VARIABLES
  told,        \* the answer to each submission
  recognizer,  \* the speech recognizer of the process, "unset" before its first use
  sound,       \* of each stream: "closed", "open", "ended", "lost"
  chunks,      \* number of chunks received
  buffer,      \* chunks not transcribed yet
  spoken,      \* chunks whose words are in the accumulated text
  garbled,     \* chunks the recognizer made nothing of
  assessed     \* chunks whose words an assessment has covered

soundVars == <<recognizer, sound, chunks, buffer, spoken, garbled, assessed>>
entranceVars == <<told, soundVars>>

-----------------------------------------------------------------------------
(* Texts                                                                    *)

\* A classified text: its entities are counted apart when redaction hides them.
\* The scam types "listed" have recovery steps; "none" is no scam.
Text == {x \in [conf : ClassifierConf, type : {"none", "listed", "unlisted"},
                plain : Mentioned, hidden : Mentioned, risky : SUBSET {"plain", "hidden"}] :
           /\ "plain" \in x.risky => x.plain > 0
           /\ "hidden" \in x.risky => x.hidden > 0}

IsScam(x) == x.type # "none"

\* Redaction takes out what looks like a phone number, VPA, e-mail, IFSC, Aadhaar
\* or PAN, the ten digits of a remote access code included.
Redacted(x) == [x EXCEPT !.hidden = 0, !.risky = @ \ {"hidden"}]

\* Mutant: the sender of a forwarded message is taken for a known contact.
ScoreOfKnown(x, unknown, reports) ==
  Score([conf |-> x.conf, risky |-> x.risky # {}, unknown |-> FALSE,
         reports |-> reports, entities |-> x.plain + x.hidden])

TextScore(x, unknown, reports) ==
  Score([conf |-> x.conf, risky |-> x.risky # {}, unknown |-> unknown,
         reports |-> reports, entities |-> x.plain + x.hidden])

Recommendation(score) ==
  IF score >= 70 THEN "scam"
  ELSE IF score >= 40 THEN "fraud signs"
  ELSE IF score >= 20 THEN "suspicious" ELSE "appears legitimate"

RecoveryAdvice(x) == IF x.type = "listed" THEN "steps for the type" ELSE "stay cautious"

CallWarning(score) ==
  IF score >= 70 THEN "critical" ELSE IF score >= 40 THEN "warning" ELSE "none"

Told(s, answer) ==
  /\ told[s] = NoAnswer
  /\ told' = [told EXCEPT ![s] = answer]
  /\ UNCHANGED soundVars

\* _do_scan, for /scan and /scan-message: the action is not part of the answer.
ScanMessage(s) ==
  \E x \in Text : LET r == TextScore(x, TRUE, 0) IN
    Told(s, [by |-> "scan", about |-> x, score |-> r, level |-> Level(r), action |-> "unsaid",
             words |-> Recommendation(r), warning |-> WarningTier(IsScam(x), r)])

ConsumerScan(s) ==
  \E x \in Text : LET r == TextScore(x, TRUE, 0) IN
    Told(s, [by |-> "consumer", about |-> x, score |-> r, level |-> Level(r), action |-> "unsaid",
             words |-> RecoveryAdvice(x), warning |-> WarningTier(IsScam(x), r)])

\* The reply is composed and logged; the call that would send it is commented
\* out.  What is not a text, and every error, is answered "ok" as well.
WhatsAppMessage(s) ==
  \E x \in Text : LET r == TextScore(x, TRUE, 0) IN
    Told(s, [by |-> "whatsapp", about |-> x, score |-> r, level |-> Level(r), action |-> "unsaid",
             words |-> "ok", warning |-> WarningTier(IsScam(x), r)])

\* One session of a batch: no graph, alert, ScanEvent or event.
BatchItem(s) ==
  \E x \in Text, u \in BOOLEAN, n \in PriorReports :
    LET r == TextScore(x, u, n)
        a == Decide(r, 0)
    IN  Told(s, [by |-> "batch", about |-> x, score |-> r, level |-> Level(r), action |-> a,
                 words |-> IF a = "NONE" THEN "none" ELSE a,
                 warning |-> IF a = "NONE" THEN "none" ELSE "of the action"])

\* The transcript of a call is redacted before it is analyzed.
AnalyzeVoice(s) ==
  \E x \in Text, incoming \in BOOLEAN :
    LET r == TextScore(Redacted(x), incoming, 0)
    IN  Told(s, [by |-> "voice", about |-> x, score |-> r, level |-> Level(r),
                 action |-> RecommendedAction(r), words |-> CallWarning(r),
                 warning |-> CallWarning(r)])

\* Nothing is retried: the caller has a 500, or the item counts as failed.
EntranceFails(s) ==
  /\ told[s] = NoAnswer
  /\ \E by \in {"scan", "consumer", "batch", "voice", "image", "payment"} :
       told' = [told EXCEPT ![s] = [by |-> by, about |-> NoAnswer]]
  /\ UNCHANGED soundVars

-----------------------------------------------------------------------------
(* Pictures and payments                                                    *)

QrContent == {"upi", "upi with amount", "url", "short url", "nine digits", "text"}

Suspicious(c) == c \in {"upi with amount", "short url", "nine digits"}

\* Mutant: one suspicious code is reported at once.
OneCodeReported == [critical |-> <<90, "CRITICAL", "CRITICAL_REPORT">>,
                    high     |-> <<70, "HIGH", "FREEZE_AND_REPORT">>,
                    medium   |-> <<45, "MEDIUM", "SOFT_WARNING">>,
                    low      |-> <<15, "LOW", "NONE">>]

ImageTable == [critical |-> <<90, "CRITICAL", "CRITICAL_REPORT">>,
               high     |-> <<70, "HIGH", "HARD_BLOCK">>,
               medium   |-> <<45, "MEDIUM", "SOFT_WARNING">>,
               low      |-> <<15, "LOW", "NONE">>]

ImageLevel(codes) ==
  LET n == Cardinality({i \in DOMAIN codes : Suspicious(codes[i])})
  IN  IF n >= 2 THEN "critical" ELSE IF n = 1 THEN "high"
      ELSE IF codes # <<>> THEN "medium" ELSE "low"

\* No code is seen when the decoder is missing, is switched off or fails.
AnalyzeImage(s) ==
  \E n \in 0..2 : \E codes \in [1..n -> QrContent] :
    LET t == ImageTable[ImageLevel(codes)]
    IN  Told(s, [by |-> "image", about |-> codes, score |-> t[1], level |-> t[2],
                 action |-> t[3], words |-> "none", warning |-> "none"])

PaymentScore(p) ==
  (IF p.large THEN 30 ELSE 0) + (IF p.toSelf THEN 50 ELSE 0)
  + (IF p.device THEN 10 ELSE 0) + (IF p.geo THEN 5 ELSE 0)

PaymentVerdict(score) ==
  IF score >= 70 THEN <<"CRITICAL", "BLOCK">>
  ELSE IF score >= 40 THEN <<"HIGH", "REVIEW">>
  ELSE IF score >= 20 THEN <<"MEDIUM", "REVIEW">> ELSE <<"LOW", "PASS">>

PreTransaction(s) ==
  \E p \in [large : BOOLEAN, toSelf : BOOLEAN, device : BOOLEAN, geo : BOOLEAN] :
    LET r == PaymentScore(p)
        v == PaymentVerdict(r)
    IN  Told(s, [by |-> "payment", about |-> p, score |-> r, level |-> v[1], action |-> "unsaid",
                 words |-> v[2], warning |-> "none"])

-----------------------------------------------------------------------------
(* Calls streamed as sound                                                  *)

\* get_whisper_service: one for the process, chosen at the first connection; a
\* provider that is not installed or not configured is the mock for good.
OpenStream(a) ==
  /\ sound[a] = "closed"
  /\ sound' = [sound EXCEPT ![a] = "open"]
  /\ recognizer' \in IF recognizer = "unset" THEN {"mock", "whisper", "deepgram"}
                     ELSE {recognizer}
  /\ UNCHANGED <<told, chunks, buffer, spoken, garbled, assessed>>

\* The buffer is emptied, understood or not.  The mock returns a text that has
\* nothing to do with the sound; an empty or failed transcript is dropped.
Transcribe(a, held, understood) ==
  /\ buffer' = [buffer EXCEPT ![a] = {}]
  /\ recognizer = "mock" => ~ understood
  /\ spoken' = [spoken EXCEPT ![a] = IF understood THEN @ \union held ELSE @]
  /\ garbled' = [garbled EXCEPT ![a] = IF understood THEN @ ELSE @ \union held]

\* Mutant: what a transcription adds is all that is assessed.
AssessedAlone(a, held, understood) ==
  assessed' = [assessed EXCEPT ![a] = IF understood THEN held ELSE @]

\* The text accumulated so far goes through the pipeline when it has grown; with
\* the mock it grows by a text that covers no sound.
Assess(a, held, understood) ==
  assessed' = [assessed EXCEPT ![a] = IF understood THEN spoken'[a] ELSE @]

\* A binary message; every Every-th transcribes what has been held back.
ReceiveSound(a) ==
  /\ sound[a] = "open" /\ chunks[a] < MaxSound
  /\ chunks' = [chunks EXCEPT ![a] = @ + 1]
  /\ LET held == buffer[a] \union {chunks[a] + 1}
     IN  IF (chunks[a] + 1) % Every = 0
         THEN \E b \in BOOLEAN : Transcribe(a, held, b) /\ Assess(a, held, b)
         ELSE /\ buffer' = [buffer EXCEPT ![a] = held]
              /\ UNCHANGED <<spoken, garbled, assessed>>
  /\ UNCHANGED <<told, recognizer, sound>>

\* "end": the rest is transcribed, and its length reported, but not assessed.
EndStream(a) ==
  /\ sound[a] = "open"
  /\ sound' = [sound EXCEPT ![a] = "ended"]
  /\ IF buffer[a] = {} THEN UNCHANGED <<buffer, spoken, garbled>>
     ELSE \E b \in BOOLEAN : Transcribe(a, buffer[a], b)
  /\ UNCHANGED <<told, recognizer, chunks, assessed>>

\* The client goes away, or the pipeline raises and the connection is closed with
\* 1011: what the buffer holds is gone with it.
LoseStream(a) ==
  /\ sound[a] = "open"
  /\ sound' = [sound EXCEPT ![a] = "lost"]
  /\ UNCHANGED <<told, recognizer, chunks, buffer, spoken, garbled, assessed>>

\* The pipeline raises after the transcription.
AssessmentFails(a) ==
  /\ sound[a] = "open" /\ chunks[a] < MaxSound /\ (chunks[a] + 1) % Every = 0
  /\ chunks' = [chunks EXCEPT ![a] = @ + 1]
  /\ \E b \in BOOLEAN : Transcribe(a, buffer[a] \union {chunks[a] + 1}, b)
  /\ sound' = [sound EXCEPT ![a] = "lost"]
  /\ UNCHANGED <<told, recognizer, assessed>>

-----------------------------------------------------------------------------
EntranceInit ==
  /\ told = [s \in Submission |-> NoAnswer]
  /\ recognizer = "unset"
  /\ sound = [a \in Stream |-> "closed"] /\ chunks = [a \in Stream |-> 0]
  /\ buffer = [a \in Stream |-> {}] /\ spoken = [a \in Stream |-> {}]
  /\ garbled = [a \in Stream |-> {}] /\ assessed = [a \in Stream |-> {}]

EntranceNext ==
  \E s \in Submission :
    \/ ScanMessage(s) \/ ConsumerScan(s) \/ WhatsAppMessage(s) \/ BatchItem(s)
    \/ AnalyzeVoice(s) \/ EntranceFails(s) \/ AnalyzeImage(s) \/ PreTransaction(s)

SoundNext ==
  \E a \in Stream :
    OpenStream(a) \/ ReceiveSound(a) \/ EndStream(a) \/ LoseStream(a) \/ AssessmentFails(a)

EntranceSpec == EntranceInit /\ [][EntranceNext \/ SoundNext]_entranceVars

-----------------------------------------------------------------------------
(* Properties                                                               *)

AnsweredSubmissions == {s \in Submission : told[s] # NoAnswer /\ told[s].about # NoAnswer}

EntranceTypeOK ==
  /\ \A s \in AnsweredSubmissions : told[s].score \in Percent
  /\ recognizer \in {"unset", "mock", "whisper", "deepgram"}
  /\ sound \in [Stream -> {"closed", "open", "ended", "lost"}]
  /\ \A a \in Stream : /\ chunks[a] \in 0..MaxSound
                       /\ buffer[a] \union spoken[a] \union garbled[a] \subseteq 1..chunks[a]

Rank == [LOW |-> 0, MEDIUM |-> 1, HIGH |-> 2, CRITICAL |-> 3]

\* Pictures have tables of their own, payments thresholds of their own, batches
\* go through the action engine: what each of them says of a score is what the
\* scorer says of it, and a payment is never rated below (image_analysis.py:
\* 300-321, analyze.py:383-394, batch.py:88).
AnswersFitTheirScore ==
  \A s \in AnsweredSubmissions :
    /\ IF told[s].by = "payment" THEN Rank[told[s].level] >= Rank[Level(told[s].score)]
       ELSE told[s].level = Level(told[s].score)
    /\ told[s].action \in {"unsaid", RecommendedAction(told[s].score)}

\* Nobody is reassured about what another entrance would stop: no sender taken
\* for a stranger is called legitimate, what the scorer would block is announced
\* (of the texts, when a scam was recognised), no payment passes that it would act
\* upon, and a redacted call is never rated higher than a forwarded message with
\* the same words (scan.py:113-144, warning_generator.py:118, voice.py:119-144).
NobodyIsReassured ==
  \A s \in AnsweredSubmissions :
    LET a == told[s]
        blocked == a.score > 50
    IN  /\ a.words # "appears legitimate"
        /\ a.by = "scan" /\ blocked => a.words \in {"scam", "fraud signs"}
        /\ a.by \in {"scan", "consumer", "whatsapp"} /\ blocked /\ IsScam(a.about)
             => a.warning \in {"high", "critical"}
        /\ a.by = "voice" => /\ blocked => a.warning # "none"
                             /\ a.score <= TextScore(a.about, TRUE, 0)
        /\ a.words = "PASS" => RecommendedAction(a.score) = "NONE"

\* While a call goes on, everything but the last chunks, less than a second, has
\* been assessed or could not be understood; only an end, a broken connection or
\* a failed assessment leaves more behind (voice.py:316-382).
SoundIsHeard ==
  \A a \in Stream :
    /\ sound[a] = "open" => 1..chunks[a] = assessed[a] \union garbled[a] \union buffer[a]
    /\ Cardinality((1..chunks[a]) \ (assessed[a] \union garbled[a])) <= Every
    /\ sound[a] # "lost" =>
         Cardinality((1..chunks[a]) \ (assessed[a] \union garbled[a])) < Every

\* The entrances agree with the scorer, reassure nobody and miss no sound.
EntrancesAreSound == AnswersFitTheirScore /\ NobodyIsReassured /\ SoundIsHeard
=============================================================================
