-------------------------- MODULE WebhookDispatch --------------------------
(***************************************************************************)
(* Outbound webhooks: the subscriptions of a tenant (backend/app/api/v1/   *)
(* webhook_subscriptions.py) and dispatch_event, which signs an event once *)
(* and delivers it to one subscriber after the other                       *)
(* (services/integration/webhook_dispatcher.py).                           *)
(*                                                                         *)
(* Time is counted in seconds since the timestamp a dispatch signed.  The  *)
(* subscribers' endpoints check signatures with verify_signature.          *)
(***************************************************************************)
EXTENDS Integers, Sequences, FiniteSets, SequencesExt

CONSTANTS
  Subscription,  \* ids of subscriptions of the tenant
  Subscribed,    \* the subscriptions whose event_types hold the event
  Dispatch,      \* calls of dispatch_event for that event
  HookMaxFlips   \* bound: endpoints going down or coming back

ASSUME SubscribedAssumption == Subscribed \subseteq Subscription /\ IsFiniteSet(Subscription)
ASSUME HookBoundAssumption == HookMaxFlips \in Nat

MAX_RETRIES == 8
REPLAY_TOLERANCE_SECONDS == 300
Timeout == 10  \* httpx.AsyncClient(timeout=10.0)

VARIABLES
  row,        \* each subscription: "none", "active", "disabled" or "deleted"
  endpoint,   \* each endpoint: "up", "refuses" at once, or "hangs"
  hookPc,     \* each dispatch: "new", "trying", "disabling", "done" or "raised"
  pending,    \* the subscriptions a dispatch has still to serve, the first at hand
  attempt,    \* its attempt at the first of them
  elapsed,    \* seconds since it took its timestamp
  everFailed, \* history: endpoints that were down at some time
  flips

dispatchVars == <<hookPc, pending, attempt, elapsed>>
hookVars == <<row, endpoint, dispatchVars, everFailed, flips>>

-----------------------------------------------------------------------------
\* verify_signature: a delivery older than five minutes is rejected.
Accepts(s, d) == endpoint[s] = "up" /\ elapsed[d] <= REPLAY_TOLERANCE_SECONDS

\* Mutant: the first pause is two seconds.
DoubledBackoff(n) == IF 2^n < 128 THEN 2^n ELSE 128

\* Seconds slept after attempt n.
Backoff(n) == IF 2^(n - 1) < 128 THEN 2^(n - 1) ELSE 128

CreateSubscription(s) ==
  /\ row[s] = "none"
  /\ row' = [row EXCEPT ![s] = "active"]
  /\ UNCHANGED <<endpoint, dispatchVars, everFailed, flips>>

DeleteSubscription(s) ==
  /\ row[s] \in {"active", "disabled"}
  /\ row' = [row EXCEPT ![s] = "deleted"]
  /\ UNCHANGED <<endpoint, dispatchVars, everFailed, flips>>

\* The active subscriptions are read once, in no particular order, and the
\* event is signed once for all of them.
ReadSubscriptions(d) ==
  /\ hookPc[d] = "new"
  /\ \E order \in SetToSeqs({s \in Subscribed : row[s] = "active"}) :
       /\ pending' = [pending EXCEPT ![d] = order]
       /\ hookPc' = [hookPc EXCEPT ![d] = IF order = <<>> THEN "done" ELSE "trying"]
  /\ UNCHANGED <<row, endpoint, attempt, elapsed, everFailed, flips>>

\* The loop goes on to the next subscription.
NextSubscription(d) ==
  /\ pending' = [pending EXCEPT ![d] = Tail(@)]
  /\ hookPc' = [hookPc EXCEPT ![d] = IF Len(pending[d]) = 1 THEN "done" ELSE "trying"]
  /\ attempt' = [attempt EXCEPT ![d] = 1]

Delivered(d) ==
  /\ hookPc[d] = "trying" /\ Accepts(Head(pending[d]), d)
  /\ NextSubscription(d)
  /\ UNCHANGED <<row, endpoint, elapsed, everFailed, flips>>

\* The POST fails, is refused or times out; the next attempt follows a pause.
AttemptFails(d) ==
  /\ hookPc[d] = "trying" /\ ~ Accepts(Head(pending[d]), d)
  /\ elapsed' = [elapsed EXCEPT ![d] = @
       + (IF endpoint[Head(pending[d])] = "hangs" THEN Timeout ELSE 0)
       + (IF attempt[d] < MAX_RETRIES THEN Backoff(attempt[d]) ELSE 0)]
  /\ IF attempt[d] < MAX_RETRIES
     THEN attempt' = [attempt EXCEPT ![d] = @ + 1] /\ UNCHANGED hookPc
     ELSE hookPc' = [hookPc EXCEPT ![d] = "disabling"] /\ UNCHANGED attempt
  /\ UNCHANGED <<row, endpoint, pending, everFailed, flips>>

\* is_active = False is committed on the row read at the start.  When the row
\* has been deleted meanwhile the UPDATE matches nothing and raises, and the
\* subscriptions after it are not served.
Disable(d) ==
  /\ hookPc[d] = "disabling"
  /\ IF row[Head(pending[d])] = "deleted"
     THEN /\ hookPc' = [hookPc EXCEPT ![d] = "raised"]
          /\ UNCHANGED <<row, pending, attempt>>
     ELSE /\ row' = [row EXCEPT ![Head(pending[d])] = "disabled"]
          /\ NextSubscription(d)
  /\ UNCHANGED <<endpoint, elapsed, everFailed, flips>>

EndpointChanges(s) ==
  /\ flips < HookMaxFlips /\ flips' = flips + 1
  /\ \E state \in {"up", "refuses", "hangs"} \ {endpoint[s]} :
       /\ endpoint' = [endpoint EXCEPT ![s] = state]
       /\ everFailed' = IF state = "up" THEN everFailed ELSE everFailed \union {s}
  /\ UNCHANGED <<row, dispatchVars>>

-----------------------------------------------------------------------------
HookInit ==
  /\ row \in [Subscription -> {"none", "active"}]
  /\ endpoint = [s \in Subscription |-> "up"]
  /\ hookPc = [d \in Dispatch |-> "new"]
  /\ pending = [d \in Dispatch |-> <<>>]
  /\ attempt = [d \in Dispatch |-> 1]
  /\ elapsed = [d \in Dispatch |-> 0]
  /\ everFailed = {}
  /\ flips = 0

HookNext ==
  \/ \E s \in Subscription : CreateSubscription(s) \/ DeleteSubscription(s) \/ EndpointChanges(s)
  \/ \E d \in Dispatch :
       ReadSubscriptions(d) \/ Delivered(d) \/ AttemptFails(d) \/ Disable(d)

HookSpec == HookInit /\ [][HookNext]_hookVars

HookTypeOK ==
  /\ row \in [Subscription -> {"none", "active", "disabled", "deleted"}]
  /\ endpoint \in [Subscription -> {"up", "refuses", "hangs"}]
  /\ hookPc \in [Dispatch -> {"new", "trying", "disabling", "done", "raised"}]
  /\ attempt \in [Dispatch -> 1..MAX_RETRIES]
  /\ elapsed \in [Dispatch -> Nat]
  /\ \A d \in Dispatch : hookPc[d] \in {"trying", "disabling"} => pending[d] # <<>>

\* A subscription whose endpoint has been up all along is disabled only when two
\* other endpoints have failed: one subscriber that hangs on all eight attempts
\* delays the next by 207 seconds, within the five minutes a signature is
\* accepted, two do not (webhook_dispatcher.py:116, 131, 148-149, 160).
HealthyEndpointsAreKept ==
  \A s \in Subscription : row[s] = "disabled" /\ s \notin everFailed =>
    Cardinality(everFailed) >= 2
=============================================================================
