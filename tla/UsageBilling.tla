---------------------------- MODULE UsageBilling ----------------------------
(***************************************************************************)
(* Metered usage: the quota check in front of the metered endpoints, the   *)
(* fire-and-forget recording of each admitted call, the nightly rollup,    *)
(* the Stripe metering and the retention job (backend/app/middleware/      *)
(* billing.py, services/billing/, api/v1/billing.py, services/tenant/      *)
(* query_filter.py).                                                       *)
(*                                                                         *)
(* A call is checked, then recorded by a task with a session of its own:   *)
(* the ledger row is READ in one step and STORED in another, so records of *)
(* several calls, the rollup and the turn of the month come between.  A    *)
(* recorder reads nothing between its flush and its commit, so the two are *)
(* one step; an UPDATE carries the absolute value computed from the read,  *)
(* and an INSERT of a row that exists violates uq_usage_ledger_sub_bucket  *)
(* and takes the call's event down with it.                                *)
(***************************************************************************)
EXTENDS Integers, FiniteSets

CONSTANTS
  Call,         \* API calls to metered endpoints
  Sub,          \* subscriptions
  SubOf,        \* the subscription of each call's bank or user
  EndpointOf,   \* the endpoint of each call
  Limit,        \* the monthly limit of each subscription's plan per endpoint
  Scoped,       \* subscriptions whose calls run under a tenant context
  Retention,    \* months an event is kept: 13 in the code
  MaxMonth,     \* bound: the clock stops in this month
  None          \* no subscription in progress

Endpoint == {"analyze", "webhook"}
Month == 1..MaxMonth
Row == Sub \X Month

ASSUME CallAssumption == IsFiniteSet(Call)
ASSUME SubOfAssumption == SubOf \in [Call -> Sub]
ASSUME EndpointOfAssumption == EndpointOf \in [Call -> Endpoint]
ASSUME LimitAssumption == Limit \in [Sub -> [Endpoint -> Int]]
ASSUME ScopedAssumption == Scoped \subseteq Sub
ASSUME MonthAssumption == MaxMonth \in Nat \ {0} /\ Retention \in Nat
ASSUME NoneAssumption == None \notin Sub

VARIABLES
  month,        \* the current UTC month
  status,       \* subscriptions Stripe has as active or trialing
  pc,           \* where each call stands
  bucket,       \* the month its recorder computed, 0 before
  seen,         \* the counter a recorder at work has read, -1 when it saw no row
  dated,        \* the month of the event it committed, 0 without an event
  purged,       \* events deleted by the retention job
  rows,         \* ledger rows that exist
  ledger,       \* their counters
  billed,       \* scan quantity last set in Stripe, per subscription and month
  rolling, rollMonth, todo, cur, tally, stale, absent   \* the rollup's locals

callVars == <<pc, bucket, seen, dated>>
rollVars == <<rolling, rollMonth, todo, cur, tally, stale, absent>>
vars == <<month, status, callVars, purged, rows, ledger, billed, rollVars>>

\* Mutant: the rollup's count without created_at >= month_start.
EventsOfAnyMonth(s, m, e) ==
  {c \in Call : dated[c] > 0 /\ c \notin purged /\ SubOf[c] = s /\ EndpointOf[c] = e}

\* The raw events of subscription s dated in month m.
Events(s, m, e) ==
  {c \in Call : dated[c] = m /\ c \notin purged /\ SubOf[c] = s /\ EndpointOf[c] = e}

-----------------------------------------------------------------------------
(* check_quota, as require_billing_quota runs it before the handler         *)

\* The tenant filter rewrites every SELECT to the caller's tenant, and nothing
\* sets tenant_id on a ledger row: under a tenant context no row is ever seen.
VisibleRow(s) == s \notin Scoped /\ <<s, month>> \in rows

Used(s, e) == IF VisibleRow(s) THEN ledger[<<s, month>>][e] ELSE 0

\* Mutant: the call being checked is counted as used.
ExhaustedOneEarly(s, e) ==
  s \in status /\ Limit[s][e] > 0 /\ Used(s, e) + 1 >= Limit[s][e]

\* -1 is unlimited; so is 0, since only a positive limit is compared.  Without an
\* active subscription the free plan applies and its usage is always 0.
Exhausted(s, e) == s \in status /\ Limit[s][e] > 0 /\ Used(s, e) >= Limit[s][e]

CheckQuota(c) ==
  /\ pc[c] = "arrived"
  /\ pc' = [pc EXCEPT ![c] =
              IF Exhausted(SubOf[c], EndpointOf[c]) THEN "refused" ELSE "admitted"]
  /\ UNCHANGED <<month, status, bucket, seen, dated, purged, rows, ledger, billed, rollVars>>

-----------------------------------------------------------------------------
(* record_usage, in the task of _record_usage_safe                          *)

Unmetered(c) ==
  /\ pc[c] = "admitted" /\ SubOf[c] \notin status
  /\ pc' = [pc EXCEPT ![c] = "unmetered"]
  /\ UNCHANGED <<month, status, bucket, seen, dated, purged, rows, ledger, billed, rollVars>>

ReadLedger(c) ==
  /\ pc[c] = "admitted" /\ SubOf[c] \in status
  /\ bucket' = [bucket EXCEPT ![c] = month]
  /\ seen' = [seen EXCEPT ![c] =
                IF VisibleRow(SubOf[c]) THEN ledger[<<SubOf[c], month>>][EndpointOf[c]] ELSE -1]
  /\ pc' = [pc EXCEPT ![c] = "counted"]
  /\ UNCHANGED <<month, status, dated, purged, rows, ledger, billed, rollVars>>

NoCounts == [e \in Endpoint |-> 0]

\* Mutant: an inserted row leaves the other counter null.
OnlyOneCounter(e) == [x \in {e} |-> 1]
NewCounters(e) == [x \in Endpoint |-> IF x = e THEN 1 ELSE 0]

\* The event is dated when it is stored, the bucket when the recorder began.
StoreUsage(c) ==
  LET row == <<SubOf[c], bucket[c]>>
  IN  /\ pc[c] = "counted"
      /\ seen[c] >= 0 \/ row \notin rows
      /\ rows' = rows \union {row}
      /\ ledger' = IF seen[c] = -1
                   THEN [ledger EXCEPT ![row] = NewCounters(EndpointOf[c])]
                   ELSE [ledger EXCEPT ![row][EndpointOf[c]] = seen[c] + 1]
      /\ dated' = [dated EXCEPT ![c] = month]
      /\ seen' = [seen EXCEPT ![c] = -1]
      /\ pc' = [pc EXCEPT ![c] = "recorded"]
      /\ UNCHANGED <<month, status, bucket, purged, billed, rollVars>>

\* The insert hits the unique constraint: the exception is swallowed, and the
\* counter and the event are lost together.
DuplicateRow(c) ==
  /\ pc[c] = "counted" /\ seen[c] = -1 /\ <<SubOf[c], bucket[c]>> \in rows
  /\ pc' = [pc EXCEPT ![c] = "dropped"]
  /\ bucket' = [bucket EXCEPT ![c] = 0]
  /\ UNCHANGED <<month, status, seen, dated, purged, rows, ledger, billed, rollVars>>

\* Any other exception, or a restart that loses the task.
RecordFails(c) ==
  /\ pc[c] \in {"admitted", "counted"}
  /\ pc' = [pc EXCEPT ![c] = "failed"]
  /\ bucket' = [bucket EXCEPT ![c] = 0]
  /\ seen' = [seen EXCEPT ![c] = -1]
  /\ UNCHANGED <<month, status, dated, purged, rows, ledger, billed, rollVars>>

-----------------------------------------------------------------------------
(* nightly_usage_rollup: one session, one commit at the end                 *)

\* Its locals go with it, however it ends.
RollupEnds ==
  /\ rolling' = FALSE
  /\ todo' = {} /\ cur' = None /\ stale' = {} /\ absent' = {}
  /\ tally' = [s \in Sub |-> NoCounts]
  /\ rollMonth' = month

RollupStart ==
  /\ ~ rolling
  /\ rolling' = TRUE
  /\ rollMonth' = month
  /\ todo' = {s \in Sub : \E e \in Endpoint : Events(s, month, e) # {}}
  /\ UNCHANGED <<month, status, callVars, purged, rows, ledger, billed, cur, tally, stale, absent>>

\* func.case(..., else_=0) is read as the CASE it stands for.  SQLAlchemy 2 refuses
\* the keyword, and then every run that finds events ends in RollupAbort.
RollupCount(s) ==
  /\ rolling /\ cur = None /\ s \in todo
  /\ cur' = s
  /\ tally' = [tally EXCEPT ![s] =
                 [e \in Endpoint |-> Cardinality(Events(s, rollMonth, e))]]
  /\ UNCHANGED <<month, status, callVars, purged, rows, ledger, billed,
                 rolling, rollMonth, todo, stale, absent>>

\* Mutant: a missing row is not reported.
CompareExistingRows ==
  LET row == <<cur, rollMonth>>
  IN  /\ rolling /\ cur # None
      /\ todo' = todo \ {cur}
      /\ cur' = None
      /\ stale' = IF row \in rows /\ ledger[row] # tally[cur] THEN stale \union {cur} ELSE stale
      /\ UNCHANGED <<month, status, callVars, purged, rows, ledger, billed,
                     rolling, rollMonth, tally, absent>>

\* The row is compared with counts taken in an earlier statement.
RollupCompare ==
  LET row == <<cur, rollMonth>>
  IN  /\ rolling /\ cur # None
      /\ todo' = todo \ {cur}
      /\ cur' = None
      /\ stale' = IF row \in rows /\ ledger[row] # tally[cur] THEN stale \union {cur} ELSE stale
      /\ absent' = IF row \in rows THEN absent ELSE absent \union {cur}
      /\ UNCHANGED <<month, status, callVars, purged, rows, ledger, billed,
                     rolling, rollMonth, tally>>

RollupCommit ==
  LET written == {<<s, rollMonth>> : s \in stale \union absent}
  IN  /\ rolling /\ cur = None /\ todo = {}
      /\ \A s \in absent : <<s, rollMonth>> \notin rows
      /\ rows' = rows \union written
      /\ ledger' = [r \in Row |-> IF r \in written THEN tally[r[1]] ELSE ledger[r]]
      /\ RollupEnds
      /\ UNCHANGED <<month, status, callVars, purged, billed>>

\* An exception at any point, the unique constraint included: nothing is kept.
RollupAbort ==
  /\ rolling
  /\ RollupEnds
  /\ UNCHANGED <<month, status, callVars, purged, rows, ledger, billed>>

-----------------------------------------------------------------------------
(* The other jobs and Stripe's side                                         *)

\* Mutant: action="increment".
SubmitIncrement(s) ==
  /\ s \in status /\ <<s, month>> \in rows
  /\ ledger[<<s, month>>]["analyze"] # 0
  /\ billed[<<s, month>>] <= Cardinality(Call)
  /\ billed' = [billed EXCEPT ![<<s, month>>] = @ + ledger[<<s, month>>]["analyze"]]
  /\ UNCHANGED <<month, status, callVars, purged, rows, ledger, rollVars>>

\* submit_metered_usage_to_stripe for one subscription, with action="set".  A
\* failure is logged and skipped, which is not taking the step.
SubmitMetered(s) ==
  /\ s \in status /\ <<s, month>> \in rows
  /\ ledger[<<s, month>>]["analyze"] # 0
  /\ billed' = [billed EXCEPT ![<<s, month>>] = ledger[<<s, month>>]["analyze"]]
  /\ UNCHANGED <<month, status, callVars, purged, rows, ledger, rollVars>>

CleanupOldUsageEvents ==
  /\ purged' = {c \in Call : c \in purged \/ (dated[c] > 0 /\ dated[c] + Retention < month)}
  /\ purged' # purged
  /\ UNCHANGED <<month, status, callVars, rows, ledger, billed, rollVars>>

\* handle_subscription_updated stores the status of whichever event arrives:
\* Stripe may deliver them late, repeated and out of order.
StripeWebhook(s) ==
  /\ status' \in {status \union {s}, status \ {s}}
  /\ status' # status
  /\ UNCHANGED <<month, callVars, purged, rows, ledger, billed, rollVars>>

NextMonth ==
  /\ month < MaxMonth
  /\ month' = month + 1
  /\ rollMonth' = IF rolling THEN rollMonth ELSE month + 1
  /\ UNCHANGED <<status, callVars, purged, rows, ledger, billed,
                 rolling, todo, cur, tally, stale, absent>>

-----------------------------------------------------------------------------
Init ==
  /\ month = 1 /\ status = Sub
  /\ pc = [c \in Call |-> "arrived"]
  /\ bucket = [c \in Call |-> 0]
  /\ seen = [c \in Call |-> -1]
  /\ dated = [c \in Call |-> 0]
  /\ purged = {} /\ rows = {}
  /\ ledger = [r \in Row |-> NoCounts]
  /\ billed = [r \in Row |-> 0]
  /\ rolling = FALSE /\ rollMonth = 1 /\ todo = {} /\ cur = None
  /\ tally = [s \in Sub |-> NoCounts]
  /\ stale = {} /\ absent = {}

Next ==
  \/ \E c \in Call : \/ CheckQuota(c) \/ Unmetered(c) \/ ReadLedger(c)
                     \/ StoreUsage(c) \/ DuplicateRow(c) \/ RecordFails(c)
  \/ \E s \in Sub : RollupCount(s) \/ SubmitMetered(s) \/ StripeWebhook(s)
  \/ RollupStart \/ RollupCompare \/ RollupCommit \/ RollupAbort
  \/ CleanupOldUsageEvents \/ NextMonth

Spec == Init /\ [][Next]_vars

-----------------------------------------------------------------------------
(* Properties                                                               *)

\* Counters, months and the rollup's locals stay in range.
TypeOK ==
  /\ month \in Month /\ status \subseteq Sub
  /\ pc \in [Call -> {"arrived", "refused", "admitted", "unmetered", "counted",
                      "recorded", "dropped", "failed"}]
  /\ bucket \in [Call -> Month \union {0}]
  /\ seen \in [Call -> Nat \union {-1}]
  /\ dated \in [Call -> Month \union {0}]
  /\ purged \subseteq Call /\ rows \subseteq Row
  /\ ledger \in [Row -> [Endpoint -> Nat]]
  /\ billed \in [Row -> Nat]
  /\ rolling \in BOOLEAN /\ rollMonth \in Month
  /\ todo \subseteq Sub /\ cur \in Sub \union {None}
  /\ tally \in [Sub -> [Endpoint -> Nat]]
  /\ stale \subseteq Sub /\ absent \subseteq Sub

\* The recorded calls that month m may be charged for: their recorder began in
\* m or their event is dated in m.  A call recorded across the turn of the month
\* is one of both months.
Chargeable(s, m, e) ==
  {c \in Call : /\ pc[c] = "recorded" /\ SubOf[c] = s /\ EndpointOf[c] = e
                /\ bucket[c] = m \/ dated[c] = m}

\* Lost updates, failed inserts and a rollup that overwrites newer counts only
\* ever lose usage: no ledger counter exceeds the calls recorded for its month
\* (record_usage, nightly_usage_rollup).
LedgerIsBacked ==
  \A r \in Row : \A e \in Endpoint :
    ledger[r][e] <= Cardinality(Chargeable(r[1], r[2], e))

\* Stripe is never told more scans than were recorded for that month.
MeteringIsBacked ==
  \A r \in Row : billed[r] <= Cardinality(Chargeable(r[1], r[2], "analyze"))

\* A call is refused for quota only when at least as many calls as the plan
\* allows were recorded for this month (check_quota).
RefusedOnlyAtLimit ==
  [][\A c \in Call : pc'[c] = "refused" /\ pc[c] # "refused" =>
       /\ Limit[SubOf[c]][EndpointOf[c]] > 0
       /\ Cardinality(Chargeable(SubOf[c], month, EndpointOf[c]))
            >= Limit[SubOf[c]][EndpointOf[c]]]_vars

EventCounts(s) == [e \in Endpoint |-> Cardinality(Events(s, rollMonth, e))]

\* A rollup that commits before the month turns, and that no record overtook
\* after it counted, leaves every counter equal to the month's events, those it
\* did not have to write included ("reconcile UsageEvent counts with
\* UsageLedger").
RollupReconciles ==
  [][RollupCommit /\ month = rollMonth /\ (\A s \in Sub : tally[s] = EventCounts(s))
     => \A s \in Sub : EventCounts(s) # NoCounts =>
          ledger'[<<s, rollMonth>>] = EventCounts(s)]_vars

\* record_usage: "Increment the monthly usage ledger and insert a raw event."
\* Then a call whose recording ran without an error of the database's own
\* leaves an event behind.
AdmittedCallsLeaveAnEvent == \A c \in Call : pc[c] # "dropped"
=============================================================================
