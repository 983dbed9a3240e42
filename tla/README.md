# TrustShield: specifications, checks and proofs

TrustShield is a fraud-detection service for payments in India: a FastAPI
backend that scans chats, messages and calls for scams, decides on an
intervention, and keeps audit, billing and graph records around that. These
files specify the parts of the backend in which order, concurrency and failure
matter, check them with TLC on small instances, and prove the main properties
with TLAPS for every value of the constants.

* `X.tla` specifies a component; `MCX.tla` supplies what a configuration file
  cannot express; `MCX.cfg` and the other `.cfg` files are the runs;
  `XProofs.tla` holds the theorems about `X`. `CommunityProofs` is about reports, banks,
  reputation, recovery cases and interventions; `ServicesProofs` about webhooks,
  tenants, models and entrances, and about `Services`, which composes them all.
* `PROJECT.json` lists components, runs, mutants, hazards and theorems, and maps
  every definition to the lines it stands for.
* Paths below are relative to `src/backend/app/` unless they start with another
  directory of the repository.

## 1. The system

### Components, their state and how they interact

| Component | State | Operations | Interacts with |
|---|---|---|---|
| Scan paths (`api/v1/analyze.py`, `scan.py`, `consumer.py`, `whatsapp.py`, `voice.py`, `batch.py`, `image_analysis.py`) | per request: text, classification, score, action; per call: the accumulated transcript; `scan_events` rows | receive, clean, classify, score, enrich, decide, alert, log, publish, answer | classifier threads, entity graph, alert webhook, event bus, dashboard sockets |
| Classifier and model loader (`services/nlp/`) | ONNX sessions, registry of the active model, the event loop's thread pool | transformer with 50 ms, GBM with 20 ms, keywords | scan paths, model promotion |
| Risk scoring, action engine, warning texts (`services/nlp/risk_scorer.py`, `services/intervention/action_engine.py`, `services/nlp/warning_generator.py`) | none | pure functions with four tables of thresholds | scan paths |
| Audit chain (`services/audit/`, `middleware/audit.py`) | `audit_logs`, `audit_chain_breaks` | write an entry per state-changing request, verify, record a break, acknowledge it | every request; SLA report |
| Usage metering and billing (`middleware/billing.py`, `services/billing/`, `api/v1/billing.py`) | `billing_subscriptions`, `billing_usage_ledger`, `billing_usage_events` | check quota, record a call, nightly rollup, Stripe metering, retention, Stripe webhooks | metered endpoints, Stripe, tenant filter |
| Tenant filter (`services/tenant/query_filter.py`, `middleware/tenant_context.py`) | the caller's tenant, per request and inherited by its tasks | rewrites every ORM SELECT | all of the above |
| Event bus (`services/events/publisher.py`, `workers/kafka_consumer.py`) | a Kafka topic, committed offsets, Redis keys `event:<id>` | publish, poll, deduplicate, process, commit | scan paths publish; the consumer stands alone |
| Entity graph (`services/graph/`) | Neo4j nodes and links, Redis risk cache and write backlog | upsert, link, read risk through the cache, invalidate, buffer, drain | chats read it; workers propagate risk |
| Webhook dispatch (`services/integration/webhook_dispatcher.py`, `api/v1/webhook_subscriptions.py`) | `webhook_subscriptions` | deliver with retries, disable, create, delete | subscribers |
| Model lifecycle (`services/ml/`, `services/nlp/model_registry.py`) | `model_params`, shadow predictions, a registry per process, `drift_log` | guard, hot swap, shadow, drift | classifier |
| Community reports (`api/v1/report.py`, `services/intel/threat_ingest.py`, `workers/tasks/reputation_tasks.py`) | `flagged_entities`, `entity_reports` | report, confirm, ingest a blocklist, decay | clients, scan paths |
| Cross-bank intelligence (`api/v1/intel.py`) | banks, shared entities, their reports | register, share, compute the joint risk | reputation |
| Reputation and federation (`services/intel/reputation_service.py`, `cell_federation.py`, `api/v1/reputation.py`) | a cache in Redis | local score, lookup over the peers | reports, graph, banks, other cells |
| Authentication (`api/v1/auth.py`, `auth.py`, `services/auth/`, `api/v1/scim.py`) | users, refresh tokens by family, revoked sessions | register, sign in (password, SAML, OIDC), refresh with rotation, logout, SCIM | every endpoint |
| Tenants and cells (`services/tenant/`, `middleware/cell_router.py`, `api/v1/tenant.py`) | tenants with their slug and region | provision, offboard, route, evacuate | other cells |
| Interventions (`services/intervention/`, `services/intel/ingest_normalizer.py`, `api/v1/intervention.py`, `banker.py`) | `intervention_logs`, sink tasks | freeze requests, WhatsApp warnings, cool-offs, fan-out of signals | banks, WhatsApp, graph, reputation |
| Recovery cases and the PII vault (`api/v1/recovery.py`, `services/security/`, `services/compliance/cybercrime_sandbox.py`) | `recovery_cases`, encryption keys | open, advance, draft, submit; encrypt personal fields | the 1930 sandbox |
| Everything else | feedback, compliance and DPDP registers, explanations, dashboards, Celery scheduling, start-up, ML training, front end, mobile SDKs, infrastructure | mostly one row, one file or one page at a time | |

### What is hard here, and what makes each part correct

* **Audit chain.** Reading the last hash, flushing and committing are three
  steps of a transaction, and requests overlap: chains fork, ids commit out of
  order, entries appear behind a verification. Correct means: links never
  dangle, alarms have causes, tampering shows, a recorded break stays true.
* **Metering.** The quota is checked before a call and the call recorded by a
  task of its own, which reads a counter and writes it back; the rollup
  overwrites the same rows; the month turns in the middle; the tenant filter
  hides rows. Correct means: usage may be lost but is never invented, no caller
  is refused or charged for calls that were not made, a rollup reconciles.
* **Consumer.** Crashes, takeovers, redeliveries and a commit that covers a
  position and not a message. Correct means: nothing is passed over that nobody
  finished with, an event is processed once, and a partition drains.
* **Scan paths.** Timeouts that cannot stop the thread, four threshold tables
  that must agree with one another, an alert that goes by one number and a freeze that goes by
  another. Correct means: every scan is answered, a freeze is alerted and
  warned about, the risk of a call does not fall as more is said.
* **Entity graph.** A cache fill races an invalidation; a failing drain pushes
  to one end what it pops from the other; a write may be applied without an
  answer and is then written again. Correct means: a stale risk and a lost or doubled
  write each have one of the causes the code has, and a drain ends.
* **Webhook dispatch.** Minutes of retries for one subscriber while the signature of
  the others ages. Correct means: nobody is disabled for the failure of one other.
* **Community reports, bank network.** Handlers read a row, compute in Python
  and write it back, while tasks do the same. Correct means: reports are lost
  at most, never added, and confirmation has reports behind it.
* **Accounts.** Two refreshes with one token, SCIM changes between read and
  write, sign-ups at once. Correct means: rotation never strands or mixes families.
* **Recovery cases.** Overlapping updates on a stale row, keys that change
  between restarts, a listener that runs on ciphertext. Correct means: nothing is
  encrypted twice, and the case stays consistent.
* **Interventions.** Replies that are lost after delivery. Correct means: "sent"
  was delivered, and no notice more often than its retries allow.
* **Tenants and cells.** One commit for many tenants after calls to another
  region that may fail or time out. Correct means: a tenant moves only where its data is.
* **Model lifecycle.** A swap that reports failure, a table that does not say
  what serves. Correct means: what serves was guarded.
* **Reputation.** A recursion that ends by exhaustion and aggregates on every
  level. Correct means: the answer stays between the scores it was given.

The hazards, each at its line, with the properties that cover them, are listed
in `PROJECT.json`.

## 2. Modules

### AuditChain

Requests `served -> read -> flushed -> committed`, or `skipped` from any of the
first three. `ReadLastHash`, `FlushEntry` are the two halves of `write_audit`;
`CommitEntry` is the commit in `AuditMiddleware.dispatch`; `AuditWriteSkipped`
is its `except`. `link[r]` is the row's `prev_hash`, `id[r]` its primary key,
`late` the rows whose `created_at` is not the timestamp that was hashed.
SHA-256 is ideal: a payload holds the request's own action and timestamp, so a
hash identifies the request. `EntryVerifies`, `ChainValid`, `Window` and
`IsFirstBad` are `verify_chain` (its loop compares a row with the row *before it
in the result*, not with the `prev_hash` column; user 0 is recomputed as an
empty string). `AuditClean` is the check of the SLA report.
`RunAuditVerification` and `AckAuditBreak` are the nightly job and its
acknowledgement. `EditRow` and `RemoveRow` change rows behind the application's
back: they are the environment the chain exists for, as in
`tests/unit/test_audit_forgery.py`.

### UsageBilling

One call goes `arrived -> refused | admitted -> counted -> recorded`, or
`dropped` (the ledger row could not be inserted), `failed`, or `unmetered`.
`CheckQuota` is `require_billing_quota` with `check_quota`; `ReadLedger` and
`StoreUsage` are the two statements of `record_usage`; the rollup is five
actions with its locals as variables, because it reads subscriptions, counts and
rows in separate statements and writes in one commit. An `UPDATE` writes
`seen + 1`: SQLAlchemy sends the value computed in Python. `VisibleRow` is the
tenant filter: nothing sets `tenant_id` on a ledger row, so under a tenant
context none is visible. `StripeWebhook` sets any status in any order. A
subscription of `Scoped` is one whose caller has a tenant and which itself
carries that tenant's id (the migration `j1k2l3m4n5o6` adds the column).

The rollup's `func.case(..., else_=0)` is modelled as the SQL `CASE` it stands
for. SQLAlchemy 2 raises a `TypeError` on it: under the versions
`requirements.txt` allows every run that finds events ends in `RollupAbort`, one
of the behaviours of the model. `RollupReconciles` says what a run achieves
once that call is accepted.

### EventConsumer

One partition, several workers running `start_consumer`. `Assign` gives a worker
the partition at the committed offset; `Poll` fetches a batch; a batch with a
message that does not parse stops the worker, because the deserializer runs
inside the iterator. `Deliver` advances the position, `MarkNew`,
`SkipDuplicate`, `RedisFails`, `NoEventId` and `HandlerCrashes` are the ways
through `_handle_event`, `Process` ends it, `Commit` and `CommitFails` are
`consumer.commit()`. `WorkerDies` may strike anywhere, `Restart` is the process
starting over, and a worker that lost the partition goes on with its batch.
`settled`, `logs`, `bypassed` and `lost` are history for the properties.

### RiskScoring and ScanPipeline

`RiskScoring` has the numbers of the code and no variables: `Points`, `Score`,
`Level`, `RecommendedAction` (scorer), `Decide` (action engine), `WarningTier`
(warning texts). `ScanPipeline` extends it. A text is a sequence of segments, a
chat's messages or a call's chunks; `Analyzed` is what `clean` leaves of it, and
`Matched` and `Found` are the keywords and entities in that. A scan waits in
`transformer` or `gbm` with a job in the executor (`Submit`, `TakeJob`,
`ModelAnswers`, `ModelFails`), or times out (`TimesOut`), which takes a waiting
job back but leaves a running thread to an orphan (`OrphanEnds`). `Classified`
is the classification with the scorer's result; a chat then goes through
`EnrichAndDecide`, `TriggerAlert`, `LogScanEvent` and `Answer`, in the order of
`analyze_chat`. The graph's risk is any member of `GraphRisk`: `EntityGraph` says
which one a reader gets.
Left out, because no caller provides it: behavioral scores, the coached-victim
override, an active UPI session. Kept at the defaults: the model weights, since
`load_from_db` has no caller and `hot_swap` is called with a version only.

### ScanEntrances

The entrances beside the chat, each with a context and words of its own: single messages,
the consumer endpoint, WhatsApp, batches, recorded calls (redacted before they are
analyzed), pictures and payments (tables of their own instead of the scorer). It
extends `RiskScoring`; what the classifier makes of a text is any member of `Text`.
The audio stream keeps chunks in `buffer`, transcribes every `Every`-th, and
assesses what has been `spoken` so far; its end transcribes the rest without an
assessment. A recognizer is chosen once per process.

### EntityGraph

Every caller makes a `FraudEntityGraph` of its own, which connects once
(`Connect`, `conn`). Readers take the steps of `get_entity_risk`: `CacheHit`, or
`ComputeRisk` and then `CacheRisk` as a step of its own; a page of the
investigation API asks twice. Writers go through `WriteNeo4j` and `Invalidate`,
or `WriteFails` and `Buffer`; `WriteFails` may have applied the write. The
drain pops the oldest event (`Pop`) and runs the same steps. `RunTask` is what the
graph tasks do: they test `connected` on a fresh object and skip. Risks are in
twentieths, because a relationship adds 0.05.

### WebhookDispatch

A dispatch reads the active subscriptions once and serves one after the other:
`Delivered`, or up to eight `AttemptFails` with the seconds of timeout and backoff
added to `elapsed`, then `Disable`. `Accepts` is what `verify_signature` does with the
one timestamp of the dispatch.

### CommunityIntel and BankNetwork

`CommunityIntel`: a report, the decay task and the threat-intel file each read
rows, compute and commit; `Written` is the ORM's rule that an unchanged column is
not in the UPDATE. `BankNetwork`: registration under a unique code, and a share as
the flush that holds the unique hash, its commit, the computation over all
reports and the second commit.

### Accounts and SessionFamilies

`Accounts` is one account with its sign-ups, sign-ins, refreshes and SCIM
requests. A pair of tokens is named by the request it answers; `tokenRow` is its
`refresh_tokens` row, and SSO pairs have none until their first exchange
(`AdoptToken`). `SessionFamilies` is the abstract specification of rotation:
families with open and spent tokens, exchanges that are begun, abandoned or
carried out. `Accounts` implements it under the mapping that reads families
off the rows (`Families == INSTANCE SessionFamilies WITH ...`); `SessionsAreKept`
is checked by TLC and proved.

### RecoveryCases

The four personal fields are one field: absent, plain, looking encoded, sealed, or sealed
twice. `Sealed` is the listener on insert and update; `keys` changes at restarts;
with a KMS key the vault gets a coroutine and leaves the field as it is. Nothing decrypts what
is loaded, since the listener's event does not exist.

### Interventions

A notice is `Freeze` or `Warning`; a POST is accepted, refused, unreached, or
delivered without an answer. Neither leaves a row: the session is closed
without a commit. `NormalizeAndEmit` gives a signal its risk and a task per sink; the
evaluator never gets past consent, a field no signal has.

### TenantCells

Provisioning and offboarding against unique slugs and foreign keys; an
evacuation as its loop: read the tenants, export, import at the target, flush the
new region, and one commit. Data is counted in writes: `written` here, `copy` in
the other regions, `readAt` what an evacuation found.

### ModelPromotion

`promote_model` step by step: report and active row, guard, swap. The swap's result
is `None`, so the promotion raises after the version serves. `RestartProcess` brings "unknown" back.
Drift runs read a week, then the reference of the last row, and append it.

### ReputationLookup

`compute_reputation` and `federated_reputation_lookup` call each other until
Python refuses (`MaxDepth`); each level that returns asks the peers again
(`AskPeers`) or falls back to the local score (`FallBack`).

### Services

The union of the services above that share no state (all but `EntityGraph`). A
behaviour lets one of them run (`part`), with all of its own concurrency; since no
variable of one occurs in an action or a property of another, interleaving them would
only multiply states.

## 3. Runs

| Run | Module, cfg | Shows |
|---|---|---|
| `audit_chain` | `MCAuditChain` | the audit properties with four requests, one without a user, and one row edited or removed |
| `audit_recompute` | `MCAuditChain`, `AuditRecompute.cfg` | violation: two readings of the clock make `verify_chain` reject an untouched, serial log |
| `usage_billing` | `MCUsageBilling` | metering with four calls, two subscriptions and a turn of the month |
| `usage_scoped` | `MCUsageBilling`, `UsageScoped.cfg` | violation: the second call of a tenant-scoped subscription loses counter and event |
| `event_consumer` | `MCEventConsumer` | two workers, three messages of four kinds, two faults; safety and draining |
| `consumer_redelivery` | `MCEventConsumer`, `ConsumerRedelivery.cfg` | violation: a crashed message is covered by the next commit |
| `scan_pipeline` | `MCScanPipeline` | a chat and a call sharing one thread |
| `entity_graph` | `MCEntityGraph` | a reader, two writers, the drain and a task, with two faults |
| `graph_tasks` | `MCEntityGraph`, `GraphTasks.cfg` | violation: with Neo4j reachable all along, the propagation task skips |
| `services` | `MCServices` | webhooks, reports, banks, accounts, cases, interventions, tenants, promotion, drift, reputation, entrances, audio streams |
| `logins_usable` | `Accounts`, `LoginsAreUsable.cfg` | violation: after a SCIM deactivation no access token of the account is accepted again |
| `call_heard` | `MCScanPipeline`, `CallHeard.cfg` | violation: a chunk beyond the first 512 words is not in its own result |

What the properties say is written above each of them in its module. In short:

* `LinksPointBack`, `AlarmsHaveACause`, `TamperEvident`,
  `WindowReportsItsFirstEntry`, `SlaAgreesWithValidChain`, `BreaksStayBroken`,
  `BrokenStaysBroken`: the chain is a tree whatever overlaps; verification raises no
  unfounded alarm, shows every change but the removal of the end, and agrees with
  the SLA report; a break neither heals nor moves by itself.
* `LedgerIsBacked`, `MeteringIsBacked`, `RefusedOnlyAtLimit`,
  `RollupReconciles`: counters, Stripe quantities and refusals are backed by
  recorded calls of that month; an undisturbed rollup leaves every counter equal
  to the events.
* `CommittedWasSettled`, `CommitsAdvance`, `ProcessedOnce`, `SkipsHaveACause`,
  `PoisonBlocks`, `OwnedPartitionDrains`: the committed offset passes only what
  a worker finished with and never moves back; an id is processed once more than its key failed at
  most; skips have a reason; a message that does not parse stays ahead of the
  offset; a partition that one worker keeps is drained.
* `ActionFitsLevel`, `FreezeIsAnnounced`, `StandaloneNeverCritical`,
  `CallRiskNeverFalls`, `EveryScanIsAnswered`: the threshold tables agree for
  every score and graph risk; a freeze is alerted and warned about; messages
  and calls stay below CRITICAL; a call's risk does not fall; hung models hold
  up no answer.
* `EntrancesAreSound`: pictures, payments and batches say of a score what the
  scorer says; nobody is reassured about what another entrance would stop; of a
  call that goes on, less than `Every` chunks are unassessed.
* `StaleRiskHasACause`, `WritesAreAccountedFor`, `DrainTerminates`: a cached risk
  below the node's has one of three causes; writes called for and writes
  applied, waiting, under way or given up balance; a drain ends once Neo4j stays up.
* `HealthyEndpointsAreKept`: one hanging subscriber costs 207 of the 300
  seconds a signature lives; it takes two to disable a healthy third.
* `ReputationIsBacked`, `SharesCountThemselves`: counts and confirmations have
  accepted reports behind them; a bank's answer counts its own report.
* `SessionsAreKept`: the refinement of `SessionFamilies`.
* `CaseStaysWhole`, `NoticesAreHonest`, `TenantsFollowTheirData`,
  `LifecycleIsAccountedFor`, `AnswersAreBetween`: as in the list of section 1.

Each property of a passing run has a mutant in `PROJECT.json`: a plausible bug
in the mapped definition under which TLC finds the property violated.

### Bounds

* `audit_chain`: four writes give two overlapping pairs, a fork next to a commit
  out of order, and an entry on either side of a tampered one; `MaxTamper = 1`,
  as one change must already show. Properties quantify over every id range.
* `usage_billing`: two calls of one subscription and endpoint are needed for a
  lost update, two endpoints for a row shared by two counters, two months for a
  record across their boundary. `OneScan` puts the limit within reach.
  `Retention = 0` instead of 13 lets the purge meet events within two months;
  nothing else depends on it, and the theorems hold for every value.
* `event_consumer`: three messages are a settled one, one in hand and one
  behind it; two copies of an event are a producer's retry; two faults give a
  crash together with a takeover, or a Redis failure during a redelivery.
* `scan_pipeline`: one thread makes every other scan wait for it. Three segments
  cover no keyword, one and the strongest, and the eight mentions cover the
  entity bonus up to its cap. `Message` is empty: up to its answer a message
  goes the way of a call's first chunk, and a third scan adds states only.
  `Window` counts segments in place of 512 words.
  `ModelConf = {10000}`, `NoMatchConf = {100}` and `GraphRisk = {100}`
  (with 0 always possible) are extremes; the theorems cover every confidence and
  every risk. `Reports = {0, 4}` are none and the cap.

* `entity_graph` (1.8 million states, about two minutes): two entities for a
  link, two writers for a write that meets another one's invalidation, one reader, which
  can be any of four kinds, and two faults, for an outage with a lost answer.
* `services` (1.0 million states, about two minutes): three endpoints, of which
  two hang; four reports, one beyond the threshold, and a blocklisted entity; two banks after one code and
  three shares; a sign-in with two refreshes, the least for a reused and a
  concurrent exchange; three requests on a case of three steps, two restarts; three
  tenants, two after one slug; two promotions in two processes and three drift
  runs; two levels of recursion, the least for an aggregate of an aggregate; two
  streams of seven chunks with `Every = 3` for the code's 50.

Deadlock checking is off where a bounded instance ends (all requests written,
all messages consumed, every scan answered) and on in the two billing runs,
where Stripe's webhooks go on for ever.

### Fairness

* `EventConsumer`: weak fairness of `Loop(w)`. A worker is one thread that runs
  its loop without waiting for another; each step of it is a call that returns
  or raises. Nothing is assumed of restarts, assignments, publishers, or of
  Redis and commits succeeding: `RedisFails` and `CommitFails` are bounded by
  `MaxFaults` and are no part of `Loop`. `OwnedPartitionDrains` supposes that
  one worker keeps the partition and no unparsable message is in it, since
  nothing in the code restarts a consumer that one has stopped.
* `ScanPipeline`: weak fairness of `Progress(s)`: the event loop runs, its
  timers fire, and the awaited services answer or hit their timeouts (2 s
  connection timeouts of the graph, 5 s of the alert). Nothing is assumed of models or
  threads: `EveryScanIsAnswered` holds with a thread that is held for ever.
* `EntityGraph`: weak fairness of `Pop \/ DrainEnds` and of the drain's writes: a
  drain that was started is a coroutine the loop goes on running. Nothing is
  assumed of Neo4j: `DrainTerminates` supposes that it stays up from some time
  on. The model lets the drain be called again and again.
* The other modules have safety properties only and state no
  fairness: an audit write or a recording may be dropped at any time.

## 4. Proofs

`tlapm` checks every proof from nothing. The constants' assumptions are those
named in the modules: functions have their types, sets that are counted over
(`Call`, `Mention`, `Keyword`, `Subscription`, `DriftRun`, `Peer`) are finite, special
values and names of requests are no members of the sets beside them, scan paths are
disjoint and segments share no occurrence of an entity, bounds are natural numbers,
a direct score is at most the 50 points of `min(50, ...)`. A table of subscriptions, a
configured list of peers and the runs of a behaviour with a bounded log are
finite; none of the assumptions restricts what the code may do.
TLC evaluates each of them in the runs.

Every safety invariant and action property of the passing runs is proved, for every
value of the constants; each invariant below was found as the strengthening
that makes the property inductive.

* **AuditChainProofs.** `LinkInv` is `TypeOK`, `IdsAllocated` (ids are distinct,
  below `nextId`, positive from the flush on, and removed rows were committed) and `LinksPointBack`, which is
  not inductive by itself: that a committed predecessor has the smaller id
  follows only because an id is taken after the link was read, from a sequence
  above all that were given out. `BrokenIsForGood` takes a failing entry and
  shows for each step that it goes on to fail: a row that arrives later has
  another id, which can only separate it further from its predecessor.
  `BreaksAreReal` builds on it. `VerifyShowsTampering`, `SlaAgrees`,
  `WindowsReportOne` and `AlarmsAreCaused` follow from `LinkInv` by reasoning about one
  state. The last needs induction along the chain (`RowsFollow`): the smallest id at which a row does not follow
  its predecessor would have one before it.
* **UsageBillingProofs.** `UsageInv` adds to the types that calls carry their
  bucket in order (`CallsInOrder`), that a value a recorder has read is covered
  by calls recorded *before it*, itself excluded (`SeenIsBacked`), and that the
  rollup's tally is covered likewise (`TallyIsBacked`). They make `LedgerIsBacked`
  inductive: the recorder that stores `seen + 1` contributes itself.
  `RollupReconciles` is about a step, and needs `KeptRowsAgree`: a row that the
  rollup decided not to write agrees with its tally, or an event came after the count, in
  which case the tally is below what is stored and the property asks nothing.
* **EventConsumerProofs.** `ConsumerInv` adds the order of positions
  (`Positions`), that the owner is not behind the committed offset and that
  everything up to its position but the message in hand is settled
  (`OwnerIsCurrent`), and that the owner's batch and what is committed parse
  (`BatchesParse`). A commit is then harmless because only the owner's succeeds,
  and `Assign` restores the invariant by starting at the committed offset.
  `OnceInv` is about keys: an event's key, and each failure of it, allows for one
  worker, which is at work (`Working`), has processed the event or has died
  (`KeysAllowForWork`); and a key that is found set was set by someone who took the event up
  (`KeysHaveACause`).
* **ScanPipelineProofs.** `ScanInv` relates the stages: what a chat in each stage has been
  through (`ChatStages`), that jobs belong to the tier their scan waits in
  (`JobsAwaited`) and, in `RiskInv`, that a chat's action is `Decide` of its score and some graph risk
  (`Decided`), that alerts precede logging (`AlertedFirst`) and that standalone scores have
  no reports behind them (`StandaloneScored`). The agreement of the tables is arithmetic about
  `Level`, `Decide` and `WarningTier` for all scores and risks. `CallsStayRisky`
  compares two states of a call: `ScamsStayHeard` says that the score which stands is that of a keyword
  still heard, the next segment adds keywords and entities and takes none away
  (`TextGrows`), and points, confidence and score grow with them (`ScoreGrows`).
* **EntityGraphProofs.** `GraphTypes` says what each process has in hand where it
  stands. `StaleInv` follows a risk from the reader's hand into the cache (`FreshHand`,
  `FreshCache`): it is not below its node's, or a write overtook it, or a write is about to invalidate it.
  `WritesInv` is the balance of each entity, with the writes under way and in the
  backlog as finite sets (`Busy`, `Places`), of which each step moves one member.

* **AccountsProofs.** `AccountInv` adds to the types that rows belong to pairs that
  were answered, that a family is tracked from the row of its sign-in on, and
  that a token in an exchange was issued (`PairsInOrder`). The refinement has a
  lemma per group of actions: committing a sign-in is `Start`, presenting is `Present`, a
  refused or failed exchange is `Abandon`, a carried out one is `Exchanged`, and everything else
  stutters. The case that needs the invariant is a token without a row: it is a sign-in's
  own, so no token of its family has a row.
* **CommunityProofs.** For cases, `ReadsHold`: what holds of the row holds of
  every stale copy, and a copy that is completed is not ahead of the row. For
  notices, `Counts`: deliveries are at most attempts, attempts at most the limit. For
  reports, `CopyHolds`: a copy is backed however old it is, because accepted reports
  stay, and a commit that adds one is one of them. For shares, `SharesInv`: a
  report is in the table from its commit on. For reputations, `Between`: the sum that
  `FoldFunctionOnSet` computes over the peers exists (`SumsExist`), does not depend on
  the order (`SumsAgree`), and a rounded weighted mean lies between its terms
  (`MeanBetween`).
* **ServicesProofs.** Tenants: `EvacInv` says what an evacuation has carried at each
  step (`Carried`): the pack holds what was written before the start, the target
  has imported the pack before the region is changed; amounts only grow
  (`CarriedGrows`). Models: `ServingInv`, whoever is swapping or has swapped has
  seen what the guard asks for; `DriftInv`, until runs overlap, one runs at a time and holds
  the reference of the rows that are there. Webhooks: `HookInv`; while at most one endpoint has
  failed (`Lonely`), a dispatch has waited for that one only, and `Spent` bounds for how
  long: 207 seconds, when a signature holds for 300. Entrances: `ToldInv` is one case per
  entrance over every text, picture and payment; `SoundInv` says which
  chunks are held back, in the text, assessed or lost, by division with remainder.
  The types of each service (`TenantTypesInv`, `ModelTypesInv`, ...) are invariants of their own.

  The composition: a step of `Services` is for each service a step of its own or a
  stutter (`ServiceSteps`), so `ServicesImplementEach` holds, and `ServicesStaySound`
  and `ServicesStayTyped` carry what is proved of the parts over to the whole.

| Theorem | Property | Run |
|---|---|---|
| `AuditTypes`, `LinksFormATree`, `BrokenIsForGood`, `BreaksAreReal`, `VerifyShowsTampering`, `SlaAgrees`, `WindowsReportOne`, `AlarmsAreCaused` | `TypeOK`, `LinksPointBack`, `BrokenStaysBroken`, `BreaksStayBroken`, `TamperEvident`, `SlaAgreesWithValidChain`, `WindowReportsItsFirstEntry`, `AlarmsHaveACause` | `audit_chain` |
| `UsageTypes`, `LedgerNeverOvercounts`, `StripeNeverOvercharged`, `NoEarlyRefusal`, `RollupsReconcile` | `TypeOK`, `LedgerIsBacked`, `MeteringIsBacked`, `RefusedOnlyAtLimit`, `RollupReconciles` | `usage_billing` |
| `ConsumerTypes`, `NothingPassedOver`, `CommitsNeverRegress`, `PoisonStaysAhead`, `EventsProcessedOnce`, `SkipsAreCaused` | `TypeOK`, `CommittedWasSettled`, `CommitsAdvance`, `PoisonBlocks`, `ProcessedOnce`, `SkipsHaveACause` | `event_consumer` |
| `ScanTypes`, `StandaloneStopsAtHigh`, `StoredActionsFit`, `FreezesAreAnnounced`, `CallsStayRisky` | `TypeOK`, `StandaloneNeverCritical`, `ActionFitsLevel`, `FreezeIsAnnounced`, `CallRiskNeverFalls` | `scan_pipeline` |
| `StaleRisksAreCaused`, `WritesStayAccountedFor` | `StaleRiskHasACause`, `WritesAreAccountedFor` | `entity_graph` |
| `SessionsImplemented`, `CasesStayWhole`, `NoticesStayHonest`, `ReputationStaysBacked`, `SharesAreCounted`, `AnswersStayBetween` | `SessionsAreKept`, `CaseStaysWhole`, `NoticesAreHonest`, `ReputationIsBacked`, `SharesCountThemselves`, `AnswersAreBetween` | `services` |
| `TenantsKeepTheirData`, `LifecycleStaysAccounted`, `HealthyEndpointsStay`, `EntrancesStaySound`, `ServicesStayTyped` | `TenantsFollowTheirData`, `LifecycleIsAccountedFor`, `HealthyEndpointsAreKept`, `EntrancesAreSound`, `ServicesTypeOK` | `services` |

Each of the `services` properties is proved for its own specification and,
by `ServicesStaySound` and `ServicesStayTyped`, for the composition that the run checks.

Model-checked only:

* `OwnedPartitionDrains`, `EveryScanIsAnswered`, `DrainTerminates`: liveness under
  fairness, and `ENABLED`, are out of the prover's reach.
* The violation runs, which are counterexamples.

Induction theorems that take an operator are out of the provers' reach; where a
proof is by induction (along the chain, over the peers), it takes the
least counterexample of a well-founded relation instead.

No module declares a `RECURSIVE` operator, so every module can be proved about.

## 5. Not modelled, and why

* **Numbers.** Floats are exact fractions: points in millionths, confidences in
  1/10000, graph risks in percent or twentieths. Rounding of binary floats is not
  represented.
* **Words.** Keyword and entity matching is by segment: a keyword or an entity
  split between two chunks, or produced by joining them, is not represented.
* **Classifier.** Loading and calibrating models; the scorer's weights are the
  defaults, since nothing loads others.
* **WhatsApp's batches.** Messages of one webhook are scanned one after another, and
  an error drops the rest of the batch; each is a `Message` of its own here.
* **Databases.** PostgreSQL at READ COMMITTED, one statement at a time;
  replication and failover are left out.
* **Accounts.** Roles, groups, API keys and the contents of SAML and OIDC
  messages: an assertion is valid or not.
* **Graph algorithms.** PageRank, components and ring detection stand behind a
  test that is always false. **Billing.** Checkout and portal sessions.
* **Sequential or external code**: feedback labels, compliance reports, DPDP register,
  DLP, change management, explanations, dashboards and demos, retention and dead-letter
  helpers that nothing calls, start-up and configuration, OCR, ML training and data, front end,
  mobile SDKs, infrastructure. They write one row at a time, wrap a library,
  compute numbers or only read.

## 6. Where the code is not what it says

The violation runs show six disagreements of code and documentation, with their lines in
`PROJECT.json`. These were met too; the models follow the code in each case:

* Freeze requests and WhatsApp warnings add an `intervention_logs` row that nobody
  commits; a cool-off answers that the bank was notified, and tells none; a
  risk of exactly 1 in 100 is taken for 1.0 by the proactive evaluator.
* `hot_swap` returns `None` and `ModelParams` has no `gold_f1`; `load_from_db`,
  `promote_model` and `run_drift_monitoring` have no callers; the drift task
  imports a function that does not exist.
* `Mapper` has no event `after_load`: what is encrypted is never decrypted, and drafts and
  PDFs show ciphertext; KMS providers are coroutines that nobody awaits.
* Refresh never reads `is_revoked`: a family revoked for reuse goes on with its open
  token.
* A session link that fails is buffered under names its drain does not know.
* The federated lookup recurses until `RecursionError`; the widget's badge is green
  from 80 up, which is the tier `confirmed_scam`; the nightly reputation refresh stores nothing.
* The last second of an audio stream is transcribed and not analyzed; "appears to
  be legitimate" cannot be reached; a text that is not taken for a scam but scored HIGH
  carries the legitimate warning; the WhatsApp reply is composed and not sent.
* A Tenant that still has rows referring to it cannot be offboarded; the state "offboarding" is
  never stored; `evacuate_cell` has no caller and posts to an endpoint that does not exist.
* `ws_dashboard.broadcast_event` assigns to a module variable inside the function, and
  raises on every call.

## 7. What is left

1. **Theorems**: every safety property that the runs check is proved; what remains
   are the refinements of the next item and lemmas about sequences that several
   proofs state for themselves.
2. **Abstract specifications**: a map of risks with delayed reads that cache and
   graph implement; an at-least-once log that `EventConsumer` implements.
3. **Compositions**: `ScanPipeline`'s enrichment reading `EntityGraph`;
   `ReputationLookup` over `CommunityIntel` and `BankNetwork`.
4. **Components**: roles and groups of SCIM, the batches of a WhatsApp
   webhook, dead letters once a task uses them.
