--------------------------- MODULE ModelPromotion ---------------------------
(***************************************************************************)
(* The life of a model: shadow predictions (backend/app/services/ml/       *)
(* shadow.py), the guard and the promotion (promotion.py), the registry    *)
(* each process serves from (services/nlp/model_registry.py), and the      *)
(* drift log (drift_worker.py).                                            *)
(*                                                                         *)
(* Rates are in hundredths.  Nothing calls load_from_db: a process serves  *)
(* "unknown" until a promotion swaps its registry.                         *)
(***************************************************************************)
EXTENDS Integers, Sequences, FiniteSets, SequencesExt

CONSTANTS
  Promotion,   \* calls of promote_model
  Candidate,   \* the version each one promotes
  RunsIn,      \* the process each one runs in
  Process,     \* processes, each with a registry of its own
  DriftRun,    \* calls of run_drift_monitoring
  MinSamples,  \* min_samples of get_shadow_agreement_rate (100)
  MaxSamples,  \* bound: shadow predictions of the last seven days
  MaxWeeks     \* bound: weeks whose predictions differ

MIN_AGREEMENT == 95
MIN_F1 == 90
MAX_FP_RATE == 2

ASSUME PromotionAssumption == RunsIn \in [Promotion -> Process]
ASSUME SamplesAssumption ==
  /\ MinSamples \in Nat \ {0}
  /\ MaxSamples \in Nat
  /\ MaxWeeks \in Nat
ASSUME DriftAssumption == IsFiniteSet(DriftRun)

VARIABLES
  activeRow,   \* model_params holds an active row
  serving,     \* the version of each process's registry
  promotionPc, \* "new", "current", "swapping", "refused", "raised", "failed" or "killed"
  goldReport,  \* the F1 and false-positive rate each promotion has loaded
  shadows,     \* the predictions of the last seven days, and those that agree
  evidence,    \* history: the shadows each promotion has seen
  driftPc,     \* "new", "read", "found" or "done"
  driftRead,   \* the week each drift run has read, and then its reference
  driftLog,    \* the week whose values each row of drift_log holds as reference
  overlapped,  \* history: two drift runs overlapped
  week         \* the week whose predictions are the recent ones

promotionVars == <<activeRow, serving, promotionPc, goldReport, evidence>>
driftVars == <<driftPc, driftRead, driftLog, overlapped, week>>
modelVars == <<promotionVars, shadows, driftVars>>

-----------------------------------------------------------------------------
(* Shadow mode                                                              *)

\* Mutant: a shadow prediction is counted as agreeing although its row was not stored.
RunShadowUnstored ==
  /\ shadows.total < MaxSamples
  /\ \E rows, agrees \in {0, 1} :
       shadows' = [total |-> shadows.total + rows, agreed |-> shadows.agreed + agrees]
  /\ UNCHANGED <<promotionVars, driftVars>>

\* A shadow prediction that fails leaves no row.
RunShadow ==
  /\ shadows.total < MaxSamples
  /\ \E agrees \in {0, 1} :
       shadows' = [total |-> shadows.total + 1, agreed |-> shadows.agreed + agrees]
  /\ UNCHANGED <<promotionVars, driftVars>>

ShadowAges ==
  /\ \E agrees \in {0, 1} :
       /\ shadows.agreed >= agrees /\ shadows.total - shadows.agreed >= 1 - agrees
       /\ shadows' = [total |-> shadows.total - 1, agreed |-> shadows.agreed - agrees]
  /\ UNCHANGED <<promotionVars, driftVars>>

\* Mutant: few predictions are judged like many.
AgreesOnAny(s) == s.agreed * 100 >= MIN_AGREEMENT * s.total

\* get_shadow_agreement_rate is None below min_samples.
ShadowAgrees(s) ==
  s.total >= MinSamples /\ s.agreed * 100 >= MIN_AGREEMENT * s.total

-----------------------------------------------------------------------------
(* Promotion                                                                *)

PromotionGoes(p, from, to) ==
  promotionPc[p] = from /\ promotionPc' = [promotionPc EXCEPT ![p] = to]

\* Somebody inserts or activates a row of model_params: promotions never get to it.
ChangeActiveRow ==
  /\ activeRow' = ~ activeRow
  /\ UNCHANGED <<serving, promotionPc, goldReport, evidence, shadows, driftVars>>

\* The report is loaded and the active row is read.  A report that does not load
\* ends the promotion; ModelParams has no gold_f1, so an active row raises.
ReadCurrentModel(p) ==
  /\ \/ PromotionGoes(p, "new", "refused")
     \/ PromotionGoes(p, "new", IF activeRow THEN "raised" ELSE "current")
  /\ \E f1 \in {MIN_F1 - 1, MIN_F1}, fp \in {MAX_FP_RATE, MAX_FP_RATE + 1} :
       goldReport' = [goldReport EXCEPT ![p] = [f1 |-> f1, fp |-> fp]]
  /\ UNCHANGED <<activeRow, serving, evidence, shadows, driftVars>>

GuardPasses(report, s) ==
  report.f1 >= MIN_F1 /\ report.fp <= MAX_FP_RATE /\ ShadowAgrees(s)

CheckPromotionGuard(p) ==
  /\ PromotionGoes(p, "current",
                   IF GuardPasses(goldReport[p], shadows) THEN "swapping" ELSE "refused")
  /\ evidence' = [evidence EXCEPT ![p] = shadows]
  /\ UNCHANGED <<activeRow, serving, goldReport, shadows, driftVars>>

\* hot_swap returns None: the promotion fails on result.get, with the new
\* version in place and before it has written to model_params.
HotSwap(p) ==
  /\ PromotionGoes(p, "swapping", "failed")
  /\ serving' = [serving EXCEPT ![RunsIn[p]] = Candidate[p]]
  /\ UNCHANGED <<activeRow, goldReport, evidence, shadows, driftVars>>

RestartProcess(w) ==
  /\ serving' = [serving EXCEPT ![w] = "unknown"]
  /\ promotionPc' = [p \in Promotion |->
       IF RunsIn[p] = w /\ promotionPc[p] \in {"current", "swapping"}
       THEN "killed" ELSE promotionPc[p]]
  /\ UNCHANGED <<activeRow, goldReport, evidence, shadows, driftVars>>

-----------------------------------------------------------------------------
(* Drift                                                                    *)

\* Fewer than ten predictions skip the run.
ReadRecent(d) ==
  /\ driftPc[d] = "new"
  /\ \E next \in {"read", "done"} : driftPc' = [driftPc EXCEPT ![d] = next]
  /\ driftRead' = [driftRead EXCEPT ![d] = week]
  /\ overlapped' = (overlapped \/ \E c \in DriftRun : driftPc[c] \in {"read", "found"})
  /\ UNCHANGED <<promotionVars, shadows, driftLog, week>>

\* Mutant: the recent values become the next reference.
ReferenceMovesOn(d) == driftRead[d]

\* The reference of the last row, or the recent values on the first run.
Reference(d) == IF driftLog = <<>> THEN driftRead[d] ELSE Last(driftLog)

ReadReference(d) ==
  /\ driftPc[d] = "read"
  /\ driftPc' = [driftPc EXCEPT ![d] = "found"]
  /\ driftRead' = [driftRead EXCEPT ![d] = Reference(d)]
  /\ UNCHANGED <<promotionVars, shadows, driftLog, overlapped, week>>

PersistDriftLog(d) ==
  /\ driftPc[d] = "found"
  /\ driftPc' = [driftPc EXCEPT ![d] = "done"]
  /\ driftLog' = Append(driftLog, driftRead[d])
  /\ UNCHANGED <<promotionVars, shadows, driftRead, overlapped, week>>

NextWeek ==
  /\ week < MaxWeeks /\ week' = week + 1
  /\ UNCHANGED <<promotionVars, shadows, driftPc, driftRead, driftLog, overlapped>>

-----------------------------------------------------------------------------
ModelInit ==
  /\ activeRow = FALSE
  /\ serving = [w \in Process |-> "unknown"]
  /\ promotionPc = [p \in Promotion |-> "new"]
  /\ goldReport = [p \in Promotion |-> [f1 |-> 0, fp |-> 0]]
  /\ shadows = [total |-> 0, agreed |-> 0]
  /\ evidence = [p \in Promotion |-> shadows]
  /\ driftPc = [d \in DriftRun |-> "new"]
  /\ driftRead = [d \in DriftRun |-> 0]
  /\ driftLog = <<>> /\ overlapped = FALSE /\ week = 0

PromotionNext ==
  \/ RunShadow \/ ShadowAges \/ ChangeActiveRow
  \/ \E p \in Promotion : ReadCurrentModel(p) \/ CheckPromotionGuard(p) \/ HotSwap(p)
  \/ \E w \in Process : RestartProcess(w)

DriftNext ==
  \/ NextWeek
  \/ \E d \in DriftRun : ReadRecent(d) \/ ReadReference(d) \/ PersistDriftLog(d)

ModelNext == PromotionNext \/ DriftNext

ModelSpec == ModelInit /\ [][ModelNext]_modelVars

-----------------------------------------------------------------------------
(* Properties                                                               *)

ModelTypeOK ==
  /\ serving \in [Process -> {"unknown"} \union {Candidate[p] : p \in Promotion}]
  /\ promotionPc \in [Promotion -> {"new", "current", "swapping", "refused", "raised",
                                    "failed", "killed"}]
  /\ shadows.agreed \in 0..shadows.total /\ shadows.total <= MaxSamples
  /\ driftPc \in [DriftRun -> {"new", "read", "found", "done"}]
  /\ Len(driftLog) <= Cardinality(DriftRun)

\* Though every promotion reports failure (promotion.py:138-139) and no row of
\* model_params says what is served, a process serves only the candidate of a
\* promotion that ran in it and saw a good report and enough shadow agreement.
ServingIsGuarded ==
  \A w \in Process : serving[w] # "unknown" =>
    \E p \in Promotion :
      /\ RunsIn[p] = w /\ Candidate[p] = serving[w]
      /\ goldReport[p].f1 >= MIN_F1 /\ goldReport[p].fp <= MAX_FP_RATE
      /\ evidence[p].total >= MinSamples
      /\ evidence[p].agreed * 100 >= MIN_AGREEMENT * evidence[p].total

\* The reference distribution that the first drift run has stored is handed from
\* row to row (drift_worker.py:60-66, 77-83): unless runs overlapped, drift is
\* always measured against the same week.
ReferenceStands ==
  overlapped \/ \A i \in 1..Len(driftLog) : driftLog[i] = driftLog[1]

\* Every version that serves has a promotion behind it, and every drift a reference
\* (promotion.py:121-144, drift_worker.py:60-66).
LifecycleIsAccountedFor == ServingIsGuarded /\ ReferenceStands
=============================================================================
