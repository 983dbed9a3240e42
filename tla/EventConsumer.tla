--------------------------- MODULE EventConsumer ---------------------------
(***************************************************************************)
(* The audit event consumers: the loop of start_consumer over one Kafka    *)
(* partition, run by the workers of one consumer group, and the Redis SET  *)
(* that removes duplicates (backend/app/workers/kafka_consumer.py; events  *)
(* come from services/events/publisher.py).                                *)
(*                                                                         *)
(* Kafka and kafka-python (2.0.2) are modelled as the code relies on them: *)
(* a worker given the partition starts from the committed offset, iterates *)
(* over the batches it fetches and advances its position with each message *)
(* it yields; commit() without arguments commits that position, and fails  *)
(* for a worker that lost the partition.  A worker that lost it goes on    *)
(* with the batch it holds until its next poll.                            *)
(***************************************************************************)
EXTENDS Integers, Sequences, FiniteSets

CONSTANTS
  Event,       \* event payloads published
  Kind,        \* what each one is to _handle_event
  Worker,      \* processes that run start_consumer
  None,        \* no worker has the partition
  MaxLen,      \* bound: messages in the partition
  MaxCopies,   \* bound: sends of one event, the producer's retries
  MaxFaults    \* bound: crashes, takeovers, Redis and commit failures

\* "audit" has an event_id, "unnamed" has none, "notobject" is JSON without a
\* get() and "badjson" does not parse.
ASSUME KindAssumption == Kind \in [Event -> {"audit", "unnamed", "notobject", "badjson"}]
ASSUME NoneAssumption == None \notin Worker
ASSUME BoundsAssumption == MaxLen \in Nat /\ MaxCopies \in Nat /\ MaxFaults \in Nat

VARIABLES
  topic,       \* the partition's messages
  committed,   \* the group's committed offset: messages before it are done
  owner,       \* the worker the partition is assigned to
  pc,          \* where each worker's loop stands
  pos,         \* messages the worker's iterator has yielded: its position
  fetched,     \* end of the batch it holds
  marks,       \* events with an event:<id> key in Redis
  logs,        \* how often each event was processed
  settled,     \* what happened to each message, over all its deliveries
  bypassed,    \* times an event's key was lost or could not be checked
  lost,        \* events whose worker died between key and processing
  faults

workerVars == <<owner, pc, pos, fetched>>
history == <<logs, settled, bypassed, lost>>
vars == <<topic, committed, workerVars, marks, history, faults>>

Outcome == {"logged", "skipped", "crashed"}
Offset == 1..MaxLen

\* The event a worker has in hand, and what becomes of its message.
InHand(w) == topic[pos[w]]
Settle(w, o) == settled' = [settled EXCEPT ![pos[w]] = @ \union {o}]
Fault == faults < MaxFaults /\ faults' = faults + 1

-----------------------------------------------------------------------------
(* The publisher and the group coordinator                                  *)

\* _publish_kafka sends and forgets; a retried send appends the event again.
Publish(e) ==
  /\ Len(topic) < MaxLen
  /\ Cardinality({i \in DOMAIN topic : topic[i] = e}) < MaxCopies
  /\ topic' = Append(topic, e)
  /\ UNCHANGED <<committed, workerVars, marks, history, faults>>

\* Mutant: the group starts a worker at the end of the partition.
AssignLatest(w) ==
  /\ pc[w] = "polling" /\ owner # w /\ pos[w] = fetched[w]
  /\ IF owner = None THEN UNCHANGED faults ELSE Fault
  /\ owner' = w
  /\ pos' = [pos EXCEPT ![w] = Len(topic)]
  /\ fetched' = [fetched EXCEPT ![w] = Len(topic)]
  /\ UNCHANGED <<topic, committed, pc, marks, history>>

\* A worker joins in its poll, when its batch is used up.  Taking the partition
\* from a live worker is a fault: that one was too slow or cut off.
Assign(w) ==
  /\ pc[w] = "polling" /\ owner # w /\ pos[w] = fetched[w]
  /\ IF owner = None THEN UNCHANGED faults ELSE Fault
  /\ owner' = w
  /\ pos' = [pos EXCEPT ![w] = committed]
  /\ fetched' = [fetched EXCEPT ![w] = committed]
  /\ UNCHANGED <<topic, committed, pc, marks, history>>

-----------------------------------------------------------------------------
(* start_consumer                                                           *)

Poisoned(lo, hi) == \E i \in lo + 1..hi : Kind[topic[i]] = "badjson"

\* Mutant: the iterator drops what does not parse.
PollDropsPoison(w) ==
  /\ pc[w] = "polling" /\ owner = w /\ pos[w] = fetched[w]
  /\ \E hi \in pos[w] + 1..Len(topic) :
       /\ fetched' = [fetched EXCEPT ![w] = hi]
       /\ pos' = [pos EXCEPT ![w] = IF Poisoned(pos[w], hi) THEN hi ELSE @]
  /\ UNCHANGED <<topic, committed, owner, pc, marks, history, faults>>

\* The deserializer runs inside the iterator, outside the loop's try: a batch
\* with a message that does not parse ends start_consumer, though only that
\* message is bad and the except clause for it was written to go on.
Poll(w) ==
  /\ pc[w] = "polling" /\ owner = w /\ pos[w] = fetched[w]
  /\ \E hi \in pos[w] + 1..Len(topic) :
       IF Poisoned(pos[w], hi)
       THEN /\ pc' = [pc EXCEPT ![w] = "stopped"]
            /\ owner' = None
            /\ UNCHANGED fetched
       ELSE /\ fetched' = [fetched EXCEPT ![w] = hi]
            /\ UNCHANGED <<pc, owner>>
  /\ UNCHANGED <<topic, committed, pos, marks, history, faults>>

\* Mutant: one more after the end of the batch.
DeliverOneMore(w) ==
  /\ pc[w] = "polling" /\ pos[w] <= fetched[w]
  /\ pos' = [pos EXCEPT ![w] = @ + 1]
  /\ pc' = [pc EXCEPT ![w] = "handling"]
  /\ UNCHANGED <<topic, committed, owner, fetched, marks, history, faults>>

\* Mutant: the key is set when the message is taken, and checked after it.
DeliverMarks(w) ==
  /\ pc[w] = "polling" /\ pos[w] < fetched[w]
  /\ pos' = [pos EXCEPT ![w] = @ + 1]
  /\ pc' = [pc EXCEPT ![w] = "handling"]
  /\ marks' = marks \union {topic[pos[w] + 1]}
  /\ UNCHANGED <<topic, committed, owner, fetched, history, faults>>

Deliver(w) ==
  /\ pc[w] = "polling" /\ pos[w] < fetched[w]
  /\ pos' = [pos EXCEPT ![w] = @ + 1]
  /\ pc' = [pc EXCEPT ![w] = "handling"]
  /\ UNCHANGED <<topic, committed, owner, fetched, marks, history, faults>>

\* event.get raises, the loop logs it and continues with the next message.
HandlerCrashes(w) ==
  /\ pc[w] = "handling" /\ Kind[InHand(w)] = "notobject"
  /\ Settle(w, "crashed")
  /\ pc' = [pc EXCEPT ![w] = "polling"]
  /\ UNCHANGED <<topic, committed, owner, pos, fetched, marks, logs, bypassed, lost, faults>>

\* Mutant: SET without NX.
MarkAnyway(w) ==
  /\ pc[w] = "handling" /\ Kind[InHand(w)] = "audit"
  /\ marks' = marks \union {InHand(w)}
  /\ pc' = [pc EXCEPT ![w] = "processing"]
  /\ UNCHANGED <<topic, committed, owner, pos, fetched, history, faults>>

\* SET event:<id> NX before the event is processed.
MarkNew(w) ==
  /\ pc[w] = "handling" /\ Kind[InHand(w)] = "audit" /\ InHand(w) \notin marks
  /\ marks' = marks \union {InHand(w)}
  /\ pc' = [pc EXCEPT ![w] = "processing"]
  /\ UNCHANGED <<topic, committed, owner, pos, fetched, history, faults>>

SkipDuplicate(w) ==
  /\ pc[w] = "handling" /\ Kind[InHand(w)] = "audit" /\ InHand(w) \in marks
  /\ Settle(w, "skipped")
  /\ pc' = [pc EXCEPT ![w] = "done"]
  /\ UNCHANGED <<topic, committed, owner, pos, fetched, marks, logs, bypassed, lost, faults>>

\* Fails open; the SET itself may have reached Redis.
RedisFails(w) ==
  /\ pc[w] = "handling" /\ Kind[InHand(w)] = "audit" /\ Fault
  /\ marks' \in {marks, marks \union {InHand(w)}}
  /\ bypassed' = [bypassed EXCEPT ![InHand(w)] = @ + 1]
  /\ pc' = [pc EXCEPT ![w] = "processing"]
  /\ UNCHANGED <<topic, committed, owner, pos, fetched, logs, settled, lost>>

NoEventId(w) ==
  /\ pc[w] = "handling" /\ Kind[InHand(w)] = "unnamed"
  /\ pc' = [pc EXCEPT ![w] = "processing"]
  /\ UNCHANGED <<topic, committed, owner, pos, fetched, marks, history, faults>>

Process(w) ==
  /\ pc[w] = "processing"
  /\ logs' = [logs EXCEPT ![InHand(w)] = @ + 1]
  /\ Settle(w, "logged")
  /\ pc' = [pc EXCEPT ![w] = "done"]
  /\ UNCHANGED <<topic, committed, owner, pos, fetched, marks, bypassed, lost, faults>>

\* Mutant: the end of the batch is committed.
CommitBatch(w) ==
  /\ pc[w] = "done" /\ owner = w
  /\ committed' = fetched[w]
  /\ pc' = [pc EXCEPT ![w] = "polling"]
  /\ UNCHANGED <<topic, owner, pos, fetched, marks, history, faults>>

\* Mutant: a worker that lost the partition can still commit.
CommitAnyway(w) ==
  /\ pc[w] = "done"
  /\ committed' = pos[w]
  /\ pc' = [pc EXCEPT ![w] = "polling"]
  /\ UNCHANGED <<topic, owner, pos, fetched, marks, history, faults>>

\* Whatever happened to earlier messages, the position is committed.
Commit(w) ==
  /\ pc[w] = "done" /\ owner = w
  /\ committed' = pos[w]
  /\ pc' = [pc EXCEPT ![w] = "polling"]
  /\ UNCHANGED <<topic, owner, pos, fetched, marks, history, faults>>

\* Logged like a handler's exception, and the loop continues.
CommitFails(w) ==
  /\ pc[w] = "done"
  /\ IF owner = w THEN Fault ELSE UNCHANGED faults
  /\ pc' = [pc EXCEPT ![w] = "polling"]
  /\ UNCHANGED <<topic, committed, owner, pos, fetched, marks, history>>

-----------------------------------------------------------------------------
(* Failures                                                                 *)

\* The process dies wherever it is; its event is lost if it was marked.
WorkerDies(w) ==
  /\ pc[w] # "stopped" /\ Fault
  /\ pc' = [pc EXCEPT ![w] = "stopped"]
  /\ owner' = IF owner = w THEN None ELSE owner
  /\ lost' = IF pc[w] = "processing" THEN lost \union {InHand(w)} ELSE lost
  /\ UNCHANGED <<topic, committed, pos, fetched, marks, logs, settled, bypassed>>

Restart(w) ==
  /\ pc[w] = "stopped"
  /\ pc' = [pc EXCEPT ![w] = "polling"]
  /\ fetched' = [fetched EXCEPT ![w] = pos[w]]
  /\ UNCHANGED <<topic, committed, owner, pos, marks, history, faults>>

\* The key lives for 86400 seconds.
MarkExpires(e) ==
  /\ e \in marks /\ Fault
  /\ marks' = marks \ {e}
  /\ bypassed' = [bypassed EXCEPT ![e] = @ + 1]
  /\ UNCHANGED <<topic, committed, workerVars, logs, settled, lost>>

-----------------------------------------------------------------------------
Init ==
  /\ topic = <<>> /\ committed = 0 /\ owner = None
  /\ pc = [w \in Worker |-> "polling"]
  /\ pos = [w \in Worker |-> 0]
  /\ fetched = [w \in Worker |-> 0]
  /\ marks = {} /\ lost = {} /\ faults = 0
  /\ logs = [e \in Event |-> 0]
  /\ settled = [i \in Offset |-> {}]
  /\ bypassed = [e \in Event |-> 0]

\* What the loop does by itself once it runs.
Loop(w) ==
  \/ Poll(w) \/ Deliver(w) \/ HandlerCrashes(w)
  \/ MarkNew(w) \/ SkipDuplicate(w) \/ NoEventId(w) \/ Process(w)
  \/ Commit(w)

Next ==
  \/ \E e \in Event : Publish(e) \/ MarkExpires(e)
  \/ \E w \in Worker : \/ Assign(w) \/ Loop(w) \/ RedisFails(w) \/ CommitFails(w)
                       \/ WorkerDies(w) \/ Restart(w)

\* A loop that can go on does: it is one thread that never waits for another.
\* Nothing is assumed of restarts, assignments or publishers.
Spec == Init /\ [][Next]_vars /\ \A w \in Worker : WF_vars(Loop(w))

-----------------------------------------------------------------------------
(* Properties                                                               *)

\* Offsets, keys and histories stay in range.
TypeOK ==
  /\ topic \in Seq(Event) /\ Len(topic) <= MaxLen
  /\ committed \in 0..Len(topic)
  /\ owner \in Worker \union {None}
  /\ pc \in [Worker -> {"polling", "handling", "processing", "done", "stopped"}]
  /\ pos \in [Worker -> 0..Len(topic)] /\ fetched \in [Worker -> 0..Len(topic)]
  /\ marks \subseteq Event /\ lost \subseteq Event
  /\ logs \in [Event -> Nat] /\ bypassed \in [Event -> Nat]
  /\ settled \in [Offset -> SUBSET Outcome]
  /\ faults \in 0..MaxFaults

\* "Manual commit after successful handler": whoever crashes, stalls or takes
\* over, the committed offset never passes a message that no worker has finished
\* with.
CommittedWasSettled == \A i \in 1..committed : settled[i] # {}

\* A worker that lost the partition, or started over, never moves the committed
\* offset back.
CommitsAdvance == [][committed' >= committed]_vars

\* "Event deduplication via Redis SET": however often an event with an id is sent
\* or delivered, it is processed at most once more than its key failed.
ProcessedOnce ==
  \A e \in Event : Kind[e] = "audit" => logs[e] <= 1 + bypassed[e]

\* A message is skipped as a duplicate only if its event was processed, a worker
\* is about to, one died after it had set the key, or Redis failed on it.
SkipsHaveACause ==
  \A i \in DOMAIN topic : "skipped" \in settled[i] =>
    \/ logs[topic[i]] > 0 \/ topic[i] \in lost \/ bypassed[topic[i]] > 0
    \/ \E w \in Worker : pc[w] = "processing" /\ InHand(w) = topic[i]

\* A message that does not parse is never passed: it is not lost, nor sent to a
\* dead-letter queue, and everything behind it in the partition stays put.
PoisonBlocks == \A i \in 1..committed : Kind[topic[i]] # "badjson"

\* While one worker keeps the partition and nothing unparsable is published, it
\* catches up again and again: every message is processed, skipped or given up.
OwnedPartitionDrains ==
  \A w \in Worker :
    <>[](owner = w /\ ~ Poisoned(0, Len(topic)))
      => []<>(\A i \in DOMAIN topic : settled[i] # {})

\* The comment on the except clause: "Do not commit on handler crash -- redeliver
\* on next poll".  Then the committed offset stays before a crashed message.
CrashedIsRedelivered ==
  \A i \in Offset : settled[i] = {"crashed"} => committed < i
=============================================================================
