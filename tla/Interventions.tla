--------------------------- MODULE Interventions ---------------------------
(***************************************************************************)
(* What TrustShield does about a fraud besides answering: freeze requests  *)
(* to a bank (backend/app/services/intervention/bank_channel.py), WhatsApp *)
(* warnings (whatsapp_sender.py), cool-offs and callbacks                  *)
(* (api/v1/intervention.py), and the fan-out of every signal to four sinks *)
(* (services/intel/ingest_normalizer.py) with the evaluator behind the     *)
(* last one (action_engine.py).                                            *)
(***************************************************************************)
EXTENDS Integers, FiniteSetsExt

CONSTANTS
  Freeze,    \* requests of POST /banker/request-freeze
  Warning,   \* requests of POST /whatsapp/send-warning
  CoolOff,   \* requests of POST /intervention/cool-off and /callback-request
  Signal,    \* calls of normalize_and_emit
  Reading    \* the risk scores, and ten times the report counts, signals carry

Notice == Freeze \union Warning
Sink == {"graph", "reputation", "intervention", "proactive"}
SignalKind == {"analyze", "report", "webhook", "voice", "image"}
WARNING_ATTEMPTS == 2

ASSUME NoticeAssumption == Freeze \intersect Warning = {}
ASSUME ReadingAssumption == Reading \subseteq Int

VARIABLES
  channels,        \* the settings: outbound WhatsApp, proactive interventions, the bank
  noticePc,        \* each notice: "new", "posting" or its answer
  attempts,        \* POSTs made for it
  delivered,       \* of these, the ones that reached the other side
  interventionLog, \* the requests whose row of intervention_logs is committed
  signalRisk,      \* the risk of each signal's IntelEvent, or -1 before it is made
  pendingSinks,    \* the sink tasks created for a signal that have not run
  published,       \* the sinks that have its event
  evaluated        \* the evaluator's reason: "none" before it has run

noticeVars == <<noticePc, attempts, delivered>>
signalVars == <<signalRisk, pendingSinks, published, evaluated>>
interventionVars == <<channels, noticeVars, interventionLog, signalVars>>

-----------------------------------------------------------------------------
(* Notices                                                                  *)

NoticeAnswered(n, code) == noticePc' = [noticePc EXCEPT ![n] = code]

\* Without a bank, or without its webhook, nothing is sent.
RequestFreeze(f) ==
  /\ noticePc[f] = "new"
  /\ NoticeAnswered(f, CASE channels.bank = "none" -> "error"
                         [] channels.bank = "dashboard" -> "dashboard_only"
                         [] channels.bank = "webhook" -> "posting")
  /\ UNCHANGED <<channels, attempts, delivered, interventionLog, signalVars>>

RequestWarning(w) ==
  /\ noticePc[w] = "new"
  /\ NoticeAnswered(w, IF channels.whatsapp THEN "posting" ELSE "outbound_disabled")
  /\ UNCHANGED <<channels, attempts, delivered, interventionLog, signalVars>>

\* Mutant: only an error status counts as a failure.
SentUnlessRefused(reply) == reply # "refused"

\* The POST counts as sent when it is answered with 2xx (freeze: below 300).
Succeeded(reply) == reply = "accepted"

\* One POST: accepted, refused, or cut off by an error or the timeout, in which
\* case it may have reached the other side.
Post(n, last) ==
  /\ noticePc[n] = "posting"
  /\ attempts' = [attempts EXCEPT ![n] = @ + 1]
  /\ \E reply \in {"accepted", "refused", "unreached", "unanswered"} :
       /\ delivered' = [delivered EXCEPT ![n] =
                          @ + (IF reply \in {"accepted", "unanswered"} THEN 1 ELSE 0)]
       /\ NoticeAnswered(n, IF Succeeded(reply) THEN "sent"
                            ELSE IF last THEN "failed" ELSE "posting")
  /\ UNCHANGED <<channels, interventionLog, signalVars>>

\* Both add a row to the session, which is closed without a commit: the attempt
\* is not in intervention_logs afterwards.
PostFreeze(f) == f \in Freeze /\ Post(f, TRUE)
PostWarning(w) == w \in Warning /\ Post(w, attempts[w] + 1 = WARNING_ATTEMPTS)

\* A row, and nothing else: no bank is told.
TriggerIntervention(c) ==
  /\ c \notin interventionLog
  /\ interventionLog' = interventionLog \union {c}
  /\ UNCHANGED <<channels, noticeVars, signalVars>>

-----------------------------------------------------------------------------
(* Signals                                                                  *)

Clamped(risk) == Min({Max({risk, 0}), 100})

\* The risk each normalizer gives a payload.
RiskOf(kind, p) ==
  CASE kind \in {"analyze", "voice"} -> Clamped(p.reading)
    [] kind = "report" -> Min({p.reading, 100})
    [] kind = "webhook" -> Clamped(Max({p.reading,
                                        IF p.large THEN 70 ELSE p.reading,
                                        IF p.toSelf THEN 80 ELSE p.reading}))
    [] kind = "image" -> [critical |-> 90, high |-> 70, medium |-> 45, low |-> 15][p.level]

Payload == [reading : Reading, large : BOOLEAN, toSelf : BOOLEAN,
            level : {"critical", "high", "medium", "low"}]

\* A payload that IntelEvent rejects creates no task.
NormalizeAndEmit(s) ==
  /\ signalRisk[s] = -1
  /\ \E kind \in SignalKind, p \in Payload :
       /\ RiskOf(kind, p) \in 0..100
       /\ signalRisk' = [signalRisk EXCEPT ![s] = RiskOf(kind, p)]
  /\ pendingSinks' = [pendingSinks EXCEPT ![s] = Sink]
  /\ UNCHANGED <<channels, noticeVars, interventionLog, published, evaluated>>

\* The publisher may fail; a failed sink leaves the others alone.
EmitToSink(s, k) ==
  /\ k \in pendingSinks[s] \ {"proactive"}
  /\ pendingSinks' = [pendingSinks EXCEPT ![s] = @ \ {k}]
  /\ \/ published' = [published EXCEPT ![s] = @ \union {k}]
     \/ UNCHANGED published
  /\ UNCHANGED <<channels, noticeVars, interventionLog, signalRisk, evaluated>>

\* At most 1 is taken for a fraction, so a risk of 1 in 100 counts as certain.
MeetsThreshold(risk) == (IF risk > 1 THEN risk ELSE risk * 100) >= 80

\* An IntelEvent has no field "consented": no signal gets past the consent
\* check, and no proactive warning is logged.
EvaluateIntervention(s) ==
  /\ "proactive" \in pendingSinks[s]
  /\ pendingSinks' = [pendingSinks EXCEPT ![s] = @ \ {"proactive"}]
  /\ evaluated' = [evaluated EXCEPT ![s] =
       IF ~ channels.proactive THEN "disabled"
       ELSE IF MeetsThreshold(signalRisk[s]) THEN "no_consent" ELSE "below"]
  /\ UNCHANGED <<channels, noticeVars, interventionLog, signalRisk, published>>

-----------------------------------------------------------------------------
InterventionInit ==
  /\ channels \in [whatsapp : BOOLEAN, proactive : BOOLEAN,
                   bank : {"none", "dashboard", "webhook"}]
  /\ noticePc = [n \in Notice |-> "new"]
  /\ attempts = [n \in Notice |-> 0]
  /\ delivered = [n \in Notice |-> 0]
  /\ interventionLog = {}
  /\ signalRisk = [s \in Signal |-> -1]
  /\ pendingSinks = [s \in Signal |-> {}]
  /\ published = [s \in Signal |-> {}]
  /\ evaluated = [s \in Signal |-> "none"]

InterventionNext ==
  \/ \E f \in Freeze : RequestFreeze(f) \/ PostFreeze(f)
  \/ \E w \in Warning : RequestWarning(w) \/ PostWarning(w)
  \/ \E c \in CoolOff : TriggerIntervention(c)
  \/ \E s \in Signal :
       \/ NormalizeAndEmit(s) \/ EvaluateIntervention(s)
       \/ \E k \in Sink : EmitToSink(s, k)

InterventionSpec == InterventionInit /\ [][InterventionNext]_interventionVars

-----------------------------------------------------------------------------
(* Properties                                                               *)

InterventionTypeOK ==
  /\ noticePc \in [Notice -> {"new", "posting", "sent", "failed", "error",
                              "dashboard_only", "outbound_disabled"}]
  /\ attempts \in [Notice -> 0..WARNING_ATTEMPTS]
  /\ interventionLog \subseteq CoolOff
  /\ signalRisk \in [Signal -> -1..100]
  /\ evaluated \in [Signal -> {"none", "disabled", "below", "no_consent"}]
  /\ \A s \in Signal : published[s] \subseteq Sink \ pendingSinks[s]

\* A freeze or a warning answered "sent" has reached the bank or WhatsApp; one
\* that ran into a missing bank, webhook or setting has sent nothing; and a
\* freeze reaches the bank at most once, a warning its recipient at most twice
\* (a first POST that arrived but timed out is sent again, bank_channel.py:68-91,
\* whatsapp_sender.py:60-77).
NoticesAreHonest ==
  \A n \in Notice :
    /\ noticePc[n] = "sent" => delivered[n] >= 1
    /\ noticePc[n] \in {"error", "dashboard_only", "outbound_disabled"} => delivered[n] = 0
    /\ delivered[n] <= (IF n \in Freeze THEN 1 ELSE WARNING_ATTEMPTS)
=============================================================================
