------------------------ MODULE EventConsumerProofs ------------------------
(***************************************************************************)
(* Proofs about EventConsumer for any workers, events and number of        *)
(* faults: what the committed offset says of the messages before it.       *)
(***************************************************************************)
EXTENDS EventConsumer, SequenceTheorems, FiniteSetTheorems, TLAPS

\* A worker past the poll has a message in hand, and the batch it iterates over
\* reaches to its position at least.
Positions ==
  \A w \in Worker : /\ pc[w] \in {"handling", "processing", "done"} => pos[w] > 0
                    /\ pc[w] # "stopped" => pos[w] <= fetched[w]

\* The message a worker has yielded last, while it is not finished with.
Pending(w) == IF pc[w] \in {"handling", "processing"} THEN {pos[w]} ELSE {}

\* The owner is not behind the committed offset, and everything up to its
\* position is settled but for the message it has in hand.
OwnerIsCurrent ==
  \A w \in Worker : owner = w =>
    /\ pc[w] # "stopped"
    /\ committed <= pos[w]
    /\ \A i \in (1..pos[w]) \ Pending(w) : settled[i] # {}

\* Neither the owner's batch nor what is committed holds an unparsable message.
BatchesParse ==
  /\ PoisonBlocks
  /\ \A w \in Worker : owner = w =>
       \A i \in 1..fetched[w] : Kind[topic[i]] # "badjson"

ConsumerInv ==
  /\ TypeOK /\ Positions
  /\ CommittedWasSettled /\ OwnerIsCurrent /\ BatchesParse

-----------------------------------------------------------------------------
(* Types.                                                                   *)
LEMMA TypeInit == Init => TypeOK /\ Positions
  BY BoundsAssumption, NoneAssumption DEF Init, TypeOK, Positions, Offset, Outcome

\* Appending a message leaves the others where they are.
LEMMA AppendKeeps ==
  ASSUME topic \in Seq(Event), NEW e \in Event, topic' = Append(topic, e)
  PROVE  /\ topic' \in Seq(Event) /\ Len(topic') = Len(topic) + 1
         /\ \A i \in 1..Len(topic) : topic'[i] = topic[i]
  OBVIOUS

\* A settled event keeps its outcomes and gains one.
LEMMA SettleType ==
  ASSUME TypeOK, NEW w, NEW o \in Outcome, Settle(w, o)
  PROVE  /\ settled' \in [Offset -> SUBSET Outcome]
         /\ \A i \in Offset : settled[i] \subseteq settled'[i]
         /\ pos[w] \in Offset => o \in settled'[pos[w]]
  BY DEF TypeOK, Settle

\* Every step keeps the types and the positions.
LEMMA TypeStep == TypeOK /\ Positions /\ [Next]_vars => TypeOK' /\ Positions'
<1> SUFFICES ASSUME TypeOK, Positions, [Next]_vars PROVE TypeOK' /\ Positions'
  OBVIOUS
<1> USE DEF TypeOK, Positions, workerVars, history
<1>0. Len(topic) \in Nat /\ \A i \in 1..Len(topic) : topic[i] \in Event
  OBVIOUS
<1>1. ASSUME NEW e \in Event, Publish(e) PROVE TypeOK' /\ Positions'
  <2>1. topic' \in Seq(Event) /\ Len(topic') = Len(topic) + 1
    BY <1>1, AppendKeeps DEF Publish
  <2>2. Len(topic') <= MaxLen
    BY <1>0, <1>1, <2>1, BoundsAssumption DEF Publish
  <2>3. QED BY <1>0, <1>1, <2>1, <2>2 DEF Publish
<1>2. ASSUME NEW e \in Event, MarkExpires(e) PROVE TypeOK' /\ Positions'
  BY <1>2, BoundsAssumption DEF MarkExpires, Fault
<1>3. ASSUME NEW w \in Worker, Assign(w) PROVE TypeOK' /\ Positions'
  BY <1>0, <1>3, BoundsAssumption DEF Assign, Fault
<1>4. ASSUME NEW w \in Worker, Poll(w) PROVE TypeOK' /\ Positions'
  <2>1. PICK hi \in pos[w] + 1..Len(topic) :
          IF Poisoned(pos[w], hi)
          THEN /\ pc' = [pc EXCEPT ![w] = "stopped"]
               /\ owner' = None
               /\ UNCHANGED fetched
          ELSE /\ fetched' = [fetched EXCEPT ![w] = hi]
               /\ UNCHANGED <<pc, owner>>
    BY <1>4 DEF Poll
  <2>2. CASE Poisoned(pos[w], hi)
    BY <1>4, <2>1, <2>2 DEF Poll
  <2>3. CASE ~ Poisoned(pos[w], hi)
    <3>1. hi \in 0..Len(topic) /\ pos[w] <= hi
      BY <1>0
    <3>2. QED BY <1>4, <2>1, <2>3, <3>1 DEF Poll
  <2>4. QED BY <2>2, <2>3
<1>5. ASSUME NEW w \in Worker, Deliver(w) PROVE TypeOK' /\ Positions'
  <2>1. /\ pos[w] + 1 \in 0..Len(topic) /\ pos[w] + 1 <= fetched[w]
        /\ pos[w] + 1 > 0
    BY <1>0, <1>5 DEF Deliver
  <2>2. /\ pos' = [pos EXCEPT ![w] = pos[w] + 1]
        /\ pc' = [pc EXCEPT ![w] = "handling"]
        /\ UNCHANGED <<topic, committed, owner, fetched, marks, history, faults>>
    BY <1>5 DEF Deliver
  <2>3. TypeOK'
    BY <2>1, <2>2
  <2>4. Positions'
    BY <2>1, <2>2
  <2>5. QED BY <2>3, <2>4
<1>6. ASSUME NEW w \in Worker, HandlerCrashes(w) PROVE TypeOK' /\ Positions'
  BY <1>6, SettleType DEF HandlerCrashes, Outcome
<1>7. ASSUME NEW w \in Worker, MarkNew(w) PROVE TypeOK' /\ Positions'
  BY <1>0, <1>7 DEF MarkNew, InHand
<1>8. ASSUME NEW w \in Worker, SkipDuplicate(w) PROVE TypeOK' /\ Positions'
  BY <1>8, SettleType DEF SkipDuplicate, Outcome
<1>9. ASSUME NEW w \in Worker, RedisFails(w) PROVE TypeOK' /\ Positions'
  BY <1>0, <1>9, BoundsAssumption DEF RedisFails, InHand, Fault
<1>10. ASSUME NEW w \in Worker, NoEventId(w) PROVE TypeOK' /\ Positions'
  BY <1>10 DEF NoEventId
<1>11. ASSUME NEW w \in Worker, Process(w) PROVE TypeOK' /\ Positions'
  <2>1. settled' \in [Offset -> SUBSET Outcome]
    BY <1>11, SettleType DEF Process, Outcome
  <2>2. InHand(w) \in Event
    BY <1>0, <1>11 DEF Process, InHand
  <2>3. logs' \in [Event -> Nat]
    BY <1>11, <2>2 DEF Process
  <2>4. QED BY <1>11, <2>1, <2>3 DEF Process
<1>12. ASSUME NEW w \in Worker, Commit(w) PROVE TypeOK' /\ Positions'
  BY <1>0, <1>12 DEF Commit
<1>13. ASSUME NEW w \in Worker, CommitFails(w) PROVE TypeOK' /\ Positions'
  BY <1>13, BoundsAssumption DEF CommitFails, Fault
<1>14. ASSUME NEW w \in Worker, WorkerDies(w) PROVE TypeOK' /\ Positions'
  BY <1>0, <1>14, BoundsAssumption DEF WorkerDies, Fault, InHand
<1>15. ASSUME NEW w \in Worker, Restart(w) PROVE TypeOK' /\ Positions'
  BY <1>15 DEF Restart
<1>16. CASE UNCHANGED vars
  BY <1>16 DEF vars
<1>17. QED
  BY <1>1, <1>2, <1>3, <1>4, <1>5, <1>6, <1>7, <1>8, <1>9, <1>10, <1>11, <1>12,
     <1>13, <1>14, <1>15, <1>16 DEF Next, Loop

\* Offsets stay within the partition and every record within its type.
THEOREM ConsumerTypes == Spec => []TypeOK
  BY TypeInit, TypeStep, PTL DEF Spec

-----------------------------------------------------------------------------
(* The committed offset.                                                    *)
LEMMA ConsumerInit == Init => ConsumerInv
<1> SUFFICES ASSUME Init PROVE ConsumerInv
  OBVIOUS
<1>1. TypeOK /\ Positions
  BY TypeInit
<1>2. QED
  BY <1>1, NoneAssumption DEF Init, ConsumerInv, CommittedWasSettled,
     OwnerIsCurrent, BatchesParse, PoisonBlocks

\* No step takes an outcome back.
LEMMA SettledGrows ==
  ASSUME TypeOK, [Next]_vars
  PROVE  \A i \in Offset : settled[i] \subseteq settled'[i]
<1> USE DEF TypeOK
<1>1. settled' = settled \/ \E w \in Worker : \E o \in Outcome : Settle(w, o)
  BY DEF Next, Loop, vars, workerVars, history, Publish, Assign, Poll, Deliver,
     HandlerCrashes, MarkNew, SkipDuplicate, RedisFails, NoEventId, Process,
     Commit, CommitFails, WorkerDies, Restart, MarkExpires, Outcome
<1>2. QED BY <1>1, SettleType

\* Every step keeps committed offsets behind what is settled, and moves them forward only.
LEMMA CommitStep == ConsumerInv /\ [Next]_vars => CommittedWasSettled' /\ committed' >= committed
<1> SUFFICES ASSUME ConsumerInv, [Next]_vars
             PROVE  CommittedWasSettled' /\ committed' >= committed
  OBVIOUS
<1>1. TypeOK /\ TypeOK' /\ CommittedWasSettled /\ OwnerIsCurrent
  BY TypeStep DEF ConsumerInv
<1>2. \A i \in Offset : settled[i] \subseteq settled'[i]
  BY <1>1, SettledGrows
<1>3. CASE committed' = committed
  <2>1. committed \in Nat /\ 1..committed \subseteq Offset
    BY <1>1, BoundsAssumption DEF TypeOK, Offset
  <2>2. \A i \in 1..committed : settled'[i] # {}
    BY <1>1, <1>2, <2>1 DEF CommittedWasSettled
  <2>3. QED BY <1>3, <2>1, <2>2 DEF CommittedWasSettled
<1>4. ASSUME NEW w \in Worker, Commit(w)
      PROVE  CommittedWasSettled' /\ committed' >= committed
  <2>1. Pending(w) = {} /\ committed' = pos[w] /\ settled' = settled
    BY <1>4 DEF Commit, Pending, history
  <2>2. QED BY <1>1, <1>4, <2>1 DEF Commit, OwnerIsCurrent, CommittedWasSettled, TypeOK
<1>5. QED
  BY <1>3, <1>4 DEF Next, Loop, vars, workerVars, Publish, Assign, Poll, Deliver,
     HandlerCrashes, MarkNew, SkipDuplicate, RedisFails, NoEventId, Process,
     CommitFails, WorkerDies, Restart, MarkExpires

\* Every step keeps the messages behind the owner settled, or in its batch.
LEMMA OwnerStep == ConsumerInv /\ [Next]_vars => OwnerIsCurrent'
<1> SUFFICES ASSUME ConsumerInv, [Next]_vars, NEW w \in Worker, owner' = w
             PROVE  /\ pc'[w] # "stopped"
                    /\ committed' <= pos'[w]
                    /\ \A i \in (1..pos'[w]) \ Pending(w)' : settled'[i] # {}
  BY DEF OwnerIsCurrent, Pending
<1>1. TypeOK /\ TypeOK' /\ Positions /\ CommittedWasSettled /\ OwnerIsCurrent
  BY TypeStep DEF ConsumerInv
<1>2. \A i \in Offset : settled[i] \subseteq settled'[i]
  BY <1>1, SettledGrows
<1>3. /\ pos[w] \in Nat /\ committed \in Nat /\ w # None
      /\ 1..pos[w] \subseteq Offset /\ 1..committed \subseteq Offset
  BY <1>1, NoneAssumption, BoundsAssumption DEF TypeOK, Offset
<1>4. ASSUME NEW v \in Worker, Assign(v) PROVE
        /\ pc'[w] # "stopped" /\ committed' <= pos'[w]
        /\ \A i \in (1..pos'[w]) \ Pending(w)' : settled'[i] # {}
  <2>1. v = w /\ pc'[w] = "polling" /\ pos'[w] = committed /\ committed' = committed
    BY <1>1, <1>4 DEF Assign, TypeOK
  <2>2. QED BY <1>1, <1>2, <1>3, <2>1 DEF CommittedWasSettled
<1>5. CASE ~ \E v \in Worker : Assign(v)
  <2>1. owner = w
    BY <1>3, <1>5 DEF Next, Loop, vars, workerVars, Publish, Poll, Deliver,
       HandlerCrashes, MarkNew, SkipDuplicate, RedisFails, NoEventId, Process,
       Commit, CommitFails, WorkerDies, Restart, MarkExpires
  <2>2. /\ pc[w] # "stopped" /\ committed <= pos[w]
        /\ \A i \in (1..pos[w]) \ Pending(w) : settled[i] # {}
    BY <1>1, <2>1 DEF OwnerIsCurrent
  <2>3. \A i \in (1..pos[w]) \ Pending(w) : settled'[i] # {}
    BY <1>2, <1>3, <2>2
  <2> DEFINE Goal == /\ pc'[w] # "stopped" /\ committed' <= pos'[w]
                     /\ \A i \in (1..pos'[w]) \ Pending(w)' : settled'[i] # {}
  <2>4. CASE UNCHANGED <<pc[w], pos[w], committed>>
    BY <2>2, <2>3, <2>4 DEF Pending
  <2>5. ASSUME Deliver(w) PROVE Goal
    <3>1. /\ pos'[w] = pos[w] + 1 /\ pc'[w] = "handling" /\ committed' = committed
          /\ Pending(w) = {}
      BY <1>1, <2>5 DEF Deliver, TypeOK, Pending
    <3>2. (1..pos'[w]) \ Pending(w)' = 1..pos[w]
      BY <1>3, <3>1 DEF Pending
    <3>3. QED BY <1>3, <2>2, <2>3, <3>1, <3>2
  <2>6. ASSUME HandlerCrashes(w) \/ SkipDuplicate(w) \/ Process(w) PROVE Goal
    <3>1. PICK o \in Outcome : Settle(w, o)
      BY <2>6 DEF HandlerCrashes, SkipDuplicate, Process, Outcome
    <3>2. pos[w] \in Offset
      <4>1. pc[w] \in {"handling", "processing"}
        BY <2>6 DEF HandlerCrashes, SkipDuplicate, Process
      <4>2. pos[w] > 0
        BY <1>1, <4>1 DEF Positions
      <4>3. QED BY <1>3, <4>2
    <3>3. settled'[pos[w]] # {}
      BY <1>1, <3>1, <3>2, SettleType
    <3>4. UNCHANGED <<pos, committed>> /\ pc'[w] # "stopped"
      BY <1>1, <2>6 DEF HandlerCrashes, SkipDuplicate, Process, TypeOK
    <3>5. \A i \in 1..pos[w] : settled'[i] # {}
      BY <2>3, <3>3 DEF Pending
    <3>6. QED BY <2>2, <3>4, <3>5
  <2>7. ASSUME MarkNew(w) \/ RedisFails(w) \/ NoEventId(w) PROVE Goal
    <3>1. /\ UNCHANGED <<pos, committed>> /\ pc'[w] # "stopped"
          /\ Pending(w)' = Pending(w)
      BY <1>1, <2>7 DEF MarkNew, RedisFails, NoEventId, Pending, TypeOK
    <3>2. QED BY <2>2, <2>3, <3>1
  <2>8. ASSUME Commit(w) \/ CommitFails(w) PROVE Goal
    <3>1. /\ UNCHANGED pos /\ pc'[w] = "polling"
          /\ committed' <= pos[w]
          /\ Pending(w) = {}
      BY <1>1, <1>3, <2>2, <2>8 DEF Commit, CommitFails, Pending, TypeOK
    <3>2. QED BY <2>3, <3>1
  <2>9. ASSUME NEW v \in Worker, v # w, Commit(v) PROVE FALSE
    BY <2>1, <2>9 DEF Commit
  <2>10. ASSUME Poll(w) PROVE Goal
    <3>1. UNCHANGED <<pos, committed>> /\ pc'[w] = pc[w]
      BY <1>1, <1>3, <2>10 DEF Poll, TypeOK
    <3>2. QED BY <2>4, <3>1
  <2>11. ~ WorkerDies(w) /\ ~ Restart(w)
    BY <1>3, <2>1, <2>2 DEF WorkerDies, Restart
  <2>12. ASSUME NEW v \in Worker, v # w,
                Poll(v) \/ Deliver(v) \/ HandlerCrashes(v) \/ MarkNew(v)
                  \/ SkipDuplicate(v) \/ RedisFails(v) \/ NoEventId(v) \/ Process(v)
                  \/ CommitFails(v) \/ WorkerDies(v) \/ Restart(v)
         PROVE  Goal
    <3>1. UNCHANGED <<pc[w], pos[w], committed>>
      BY <1>1, <2>12 DEF Poll, Deliver, HandlerCrashes, MarkNew, SkipDuplicate,
         RedisFails, NoEventId, Process, CommitFails, WorkerDies, Restart, TypeOK
    <3>2. QED BY <2>4, <3>1
  <2>13. CASE \/ UNCHANGED vars \/ \E e \in Event : Publish(e) \/ MarkExpires(e)
    BY <2>4, <2>13 DEF vars, workerVars, Publish, MarkExpires
  <2>14. QED
    BY <1>5, <2>5, <2>6, <2>7, <2>8, <2>9, <2>10, <2>11, <2>12, <2>13 DEF Next, Loop
<1>6. QED BY <1>4, <1>5

\* What is in the topic stays where it is.
LEMMA TopicKeeps ==
  ASSUME TypeOK, [Next]_vars
  PROVE  \A i \in 1..Len(topic) : topic'[i] = topic[i]
<1>1. ASSUME NEW e \in Event, Publish(e)
      PROVE  \A i \in 1..Len(topic) : topic'[i] = topic[i]
  BY <1>1, AppendKeeps DEF Publish, TypeOK
<1>2. topic' = topic \/ \E e \in Event : Publish(e)
  BY DEF Next, Loop, vars, workerVars, Assign, Poll, Deliver, HandlerCrashes, MarkNew,
     SkipDuplicate, RedisFails, NoEventId, Process, Commit, CommitFails,
     WorkerDies, Restart, MarkExpires
<1>3. QED BY <1>1, <1>2

\* Every step keeps the owner's batch, and what is committed, made of events that parse.
LEMMA BatchStep == ConsumerInv /\ [Next]_vars => BatchesParse'
<1> SUFFICES ASSUME ConsumerInv, [Next]_vars PROVE BatchesParse'
  OBVIOUS
<1>1. TypeOK /\ TypeOK' /\ Positions /\ OwnerIsCurrent /\ BatchesParse
  BY TypeStep DEF ConsumerInv
<1>2. \A i \in 1..Len(topic) : topic'[i] = topic[i]
  BY <1>1, TopicKeeps
<1>3. /\ committed \in 0..Len(topic) /\ Len(topic) \in Nat
      /\ \A w \in Worker : fetched[w] \in 0..Len(topic) /\ pos[w] \in 0..Len(topic)
  BY <1>1 DEF TypeOK
<1> DEFINE Parses(n) == \A i \in 1..n : Kind[topic[i]] # "badjson"
<1>4. ASSUME NEW n \in 0..Len(topic), Parses(n) PROVE Parses(n)'
  BY <1>2, <1>3, <1>4
<1>5. PoisonBlocks'
  <2>1. CASE committed' = committed
    <3>1. Parses(committed)
      BY <1>1 DEF BatchesParse, PoisonBlocks
    <3>2. \A i \in 1..committed : topic'[i] = topic[i]
      BY <1>2, <1>3
    <3>3. QED BY <2>1, <3>1, <3>2 DEF PoisonBlocks
  <2>2. ASSUME NEW w \in Worker, Commit(w) PROVE PoisonBlocks'
    <3>1. owner = w /\ committed' = pos[w] /\ pc[w] = "done" /\ topic' = topic
      BY <2>2 DEF Commit
    <3>2. pos[w] <= fetched[w]
      BY <1>1, <3>1 DEF Positions
    <3>3. Parses(fetched[w])
      BY <1>1, <3>1 DEF BatchesParse
    <3>4. Parses(pos[w])
      BY <1>3, <3>2, <3>3
    <3>5. QED BY <3>1, <3>4 DEF PoisonBlocks
  <2>3. QED
    BY <2>1, <2>2 DEF Next, Loop, vars, workerVars, Publish, Assign, Poll, Deliver,
       HandlerCrashes, MarkNew, SkipDuplicate, RedisFails, NoEventId, Process,
       CommitFails, WorkerDies, Restart, MarkExpires
<1>6. ASSUME NEW w \in Worker, owner' = w, NEW n, n = fetched'[w]
      PROVE  \A i \in 1..n : Kind[topic'[i]] # "badjson"
  <2>1. CASE owner = w /\ fetched'[w] = fetched[w]
    <3>1. Parses(fetched[w])
      BY <1>1, <2>1 DEF BatchesParse
    <3>2. \A i \in 1..fetched[w] : topic'[i] = topic[i]
      BY <1>2, <1>3
    <3>3. QED BY <1>6, <2>1, <3>1, <3>2
  <2>2. CASE Assign(w)
    <3>1. n = committed /\ topic' = topic
      BY <1>1, <1>6, <2>2 DEF Assign, TypeOK
    <3>2. QED BY <1>1, <3>1 DEF BatchesParse, PoisonBlocks
  <2>3. CASE Poll(w)
    <3>1. PICK hi \in pos[w] + 1..Len(topic) :
            ~ Poisoned(pos[w], hi) /\ fetched' = [fetched EXCEPT ![w] = hi]
      BY <1>6, <2>3, NoneAssumption DEF Poll
    <3>2. n = hi /\ topic' = topic /\ owner = w /\ fetched[w] = pos[w]
      BY <1>1, <1>6, <2>3, <3>1 DEF Poll, TypeOK
    <3>3. Parses(pos[w])
      BY <1>1, <3>2 DEF BatchesParse
    <3>4. \A i \in pos[w] + 1..hi : Kind[topic[i]] # "badjson"
      BY <3>1 DEF Poisoned
    <3>5. QED BY <1>3, <3>2, <3>3, <3>4
  <2>4. ASSUME Restart(w) PROVE FALSE
    BY <1>1, <1>6, <2>4 DEF Restart, OwnerIsCurrent
  <2>5. ASSUME NEW v \in Worker, v # w, Assign(v) \/ Poll(v) \/ Restart(v)
        PROVE  owner = w /\ fetched'[w] = fetched[w]
    BY <1>1, <1>6, <2>5, NoneAssumption DEF Assign, Poll, Restart, TypeOK
  <2>6. CASE ~ \E v \in Worker : Assign(v) \/ Poll(v) \/ Restart(v)
    <3>1. owner = w /\ fetched' = fetched
      BY <1>6, <2>6, NoneAssumption DEF Next, Loop, vars, workerVars, Publish, Deliver,
         HandlerCrashes, MarkNew, SkipDuplicate, RedisFails, NoEventId, Process,
         Commit, CommitFails, WorkerDies, MarkExpires
    <3>2. QED BY <2>1, <3>1
  <2>7. QED BY <2>1, <2>2, <2>3, <2>4, <2>5, <2>6
<1>7. QED BY <1>5, <1>6 DEF BatchesParse

\* The three parts together are inductive.
LEMMA ConsumerInvariant == Spec => []ConsumerInv
<1>1. ConsumerInv /\ [Next]_vars => ConsumerInv'
  BY TypeStep, CommitStep, OwnerStep, BatchStep DEF ConsumerInv
<1>2. QED BY <1>1, ConsumerInit, PTL DEF Spec

\* Whatever the workers go through, the committed offset never passes a message
\* nobody has finished with ("Manual commit after successful handler").
THEOREM NothingPassedOver == Spec => []CommittedWasSettled
<1>1. ConsumerInv => CommittedWasSettled
  BY DEF ConsumerInv
<1>2. QED BY <1>1, ConsumerInvariant, PTL

\* A worker that takes the partition over is never behind the committed offset,
\* so no commit moves it back.
THEOREM CommitsNeverRegress == Spec => CommitsAdvance
<1>1. ConsumerInv /\ [Next]_vars => [committed' >= committed]_vars
  BY CommitStep
<1>2. QED BY <1>1, ConsumerInvariant, PTL DEF Spec, CommitsAdvance

\* No number of restarts or takeovers gets the group past an unparsable message.
THEOREM PoisonStaysAhead == Spec => []PoisonBlocks
<1>1. ConsumerInv => PoisonBlocks
  BY DEF ConsumerInv, BatchesParse
<1>2. QED BY <1>1, ConsumerInvariant, PTL

-----------------------------------------------------------------------------
(* Events with a key: how often they are processed, and why they are        *)
(* skipped.                                                                 *)

\* The workers between an event's key and its processing.
Working(e) == {w \in Worker : pc[w] = "processing" /\ InHand(w) = e}

\* A key that is set, and every failure of it, allows for one worker: either it
\* is at work, or it has processed the event, or it died.
KeysAllowForWork ==
  \A e \in Event : Kind[e] = "audit" =>
    /\ IsFiniteSet(Working(e))
    /\ logs[e] + Cardinality(Working(e)) <= bypassed[e] + (IF e \in marks THEN 1 ELSE 0)

\* What a worker that finds the key may conclude of the event.
TakenUp(e) == logs[e] > 0 \/ e \in lost \/ bypassed[e] > 0 \/ Working(e) # {}

\* A key is set by a worker that takes the event up, and messages are settled
\* once they are there.
KeysHaveACause ==
  /\ \A e \in marks : TakenUp(e)
  /\ \A i \in Offset : settled[i] # {} => i \in DOMAIN topic
  /\ \A i \in DOMAIN topic : "skipped" \in settled[i] => TakenUp(topic[i])

OnceInv == TypeOK /\ Positions /\ KeysAllowForWork /\ KeysHaveACause

\* A message in hand is one of the partition, and stays the one in hand.
LEMMA HandKeeps ==
  ASSUME TypeOK, Positions, [Next]_vars, NEW w \in Worker,
         pc[w] \in {"handling", "processing"}, pos'[w] = pos[w]
  PROVE  InHand(w) \in Event /\ InHand(w)' = InHand(w) /\ pos[w] \in DOMAIN topic
<1>1. pos[w] \in 1..Len(topic)
  BY DEF TypeOK, Positions
<1>2. QED BY <1>1, TopicKeeps DEF InHand, TypeOK


\* A worker starts on an event when it has set its key, could not, or need not.
Starts(w) == MarkNew(w) \/ RedisFails(w) \/ NoEventId(w)

\* It ends by processing the event, or by dying.
Ends(w) == Process(w) \/ (pc[w] = "processing" /\ WorkerDies(w))

\* A worker that starts on an event had not been working on it.
LEMMA WorkStarts ==
  ASSUME TypeOK, Positions, [Next]_vars, NEW w \in Worker, Starts(w)
  PROVE  /\ w \notin Working(InHand(w)) /\ InHand(w) \in Event
         /\ \A e \in Event : Working(e)' = IF e = InHand(w) THEN Working(e) \union {w}
                                           ELSE Working(e)
<1>1. /\ pc[w] = "handling" /\ pc' = [pc EXCEPT ![w] = "processing"]
      /\ pos' = pos /\ topic' = topic
  BY DEF Starts, MarkNew, RedisFails, NoEventId
<1>2. InHand(w) \in Event /\ \A v \in Worker : InHand(v)' = InHand(v)
  BY <1>1, HandKeeps DEF InHand
<1>3. \A v \in Worker : pc'[v] = "processing" <=> (v = w \/ pc[v] = "processing")
  BY <1>1 DEF TypeOK
<1>4. QED BY <1>1, <1>2, <1>3 DEF Working

\* A worker that ends had been working on the event in its hand.
LEMMA WorkEnds ==
  ASSUME TypeOK, Positions, [Next]_vars, NEW w \in Worker, Ends(w)
  PROVE  /\ w \in Working(InHand(w)) /\ InHand(w) \in Event
         /\ \A e \in Event : Working(e)' = Working(e) \ {w}
<1>1. /\ pc[w] = "processing" /\ pc' \in {[pc EXCEPT ![w] = "done"], [pc EXCEPT ![w] = "stopped"]}
      /\ pos' = pos /\ topic' = topic
  BY DEF Ends, Process, WorkerDies
<1>2. InHand(w) \in Event /\ \A v \in Worker : InHand(v)' = InHand(v)
  BY <1>1, HandKeeps DEF InHand
<1>3. \A v \in Worker : pc'[v] = "processing" <=> (v # w /\ pc[v] = "processing")
  BY <1>1 DEF TypeOK
<1>4. QED BY <1>1, <1>2, <1>3 DEF Working

\* Other steps change no work.
LEMMA WorkStays ==
  ASSUME TypeOK, Positions, [Next]_vars, \A w \in Worker : ~ Starts(w) /\ ~ Ends(w)
  PROVE  \A e \in Event : Working(e)' = Working(e)
<1>1. \A w \in Worker : /\ pc'[w] = "processing" <=> pc[w] = "processing"
                        /\ pc[w] = "processing" => pos'[w] = pos[w]
  <2> USE DEF TypeOK
  <2>1. CASE UNCHANGED <<pc, pos>>
    BY <2>1
  <2>2. ASSUME NEW v \in Worker, \/ Assign(v) \/ Poll(v) \/ Deliver(v) \/ HandlerCrashes(v)
                                 \/ SkipDuplicate(v) \/ Commit(v) \/ CommitFails(v)
                                 \/ WorkerDies(v) \/ Restart(v)
        PROVE  \A w \in Worker : /\ pc'[w] = "processing" <=> pc[w] = "processing"
                                 /\ pc[w] = "processing" => pos'[w] = pos[w]
    <3>1. /\ pc[v] # "processing"
          /\ \/ pc' = pc
             \/ \E s \in {"polling", "handling", "done", "stopped"} : pc' = [pc EXCEPT ![v] = s]
          /\ pos' = pos \/ \E n : pos' = [pos EXCEPT ![v] = n]
      BY <2>2 DEF Ends, Assign, Poll, Deliver, HandlerCrashes, SkipDuplicate, Commit,
         CommitFails, WorkerDies, Restart
    <3>2. QED BY <3>1
  <2>3. QED
    BY <2>1, <2>2 DEF Starts, Ends, Next, Loop, vars, workerVars, Publish, MarkExpires
<1>2. \A w \in Worker : pc[w] = "processing" => InHand(w)' = InHand(w)
  BY <1>1, HandKeeps
<1>3. QED BY <1>1, <1>2 DEF Working

\* At the start nobody works and no key is taken.
LEMMA OnceInit == Init => OnceInv
<1> SUFFICES ASSUME Init PROVE OnceInv
  OBVIOUS
<1>1. TypeOK /\ Positions
  BY TypeInit
<1>2. \A e \in Event : Working(e) = {} /\ logs[e] = 0 /\ bypassed[e] = 0
  BY DEF Init, Working
<1>3. \A e \in Event : IsFiniteSet(Working(e)) /\ Cardinality(Working(e)) = 0
  BY <1>2, FS_EmptySet
<1>4. KeysAllowForWork
  BY <1>2, <1>3 DEF KeysAllowForWork
<1>5. KeysHaveACause
  BY DEF Init, KeysHaveACause
<1>6. QED BY <1>1, <1>4, <1>5 DEF OnceInv

\* Every step keeps the work within what the keys allow.
LEMMA KeysAllowForWorkStep == OnceInv /\ [Next]_vars => KeysAllowForWork'
<1> SUFFICES ASSUME OnceInv, [Next]_vars, NEW e \in Event, Kind[e] = "audit"
             PROVE  /\ IsFiniteSet(Working(e)')
                    /\ logs'[e] + Cardinality(Working(e)')
                         <= bypassed'[e] + (IF e \in marks' THEN 1 ELSE 0)
  BY DEF KeysAllowForWork, Working, InHand
<1>1. /\ TypeOK /\ Positions /\ IsFiniteSet(Working(e))
      /\ logs[e] + Cardinality(Working(e)) <= bypassed[e] + (IF e \in marks THEN 1 ELSE 0)
  BY DEF OnceInv, KeysAllowForWork
<1>2. /\ logs[e] \in Nat /\ bypassed[e] \in Nat /\ Cardinality(Working(e)) \in Nat
      /\ logs \in [Event -> Nat] /\ bypassed \in [Event -> Nat]
  BY <1>1, FS_CardinalityType DEF TypeOK
<1>3. ASSUME NEW w \in Worker, Starts(w)
      PROVE  /\ IsFiniteSet(Working(e)')
             /\ logs'[e] + Cardinality(Working(e)')
                  <= bypassed'[e] + (IF e \in marks' THEN 1 ELSE 0)
  <2>1. logs' = logs
    BY <1>3 DEF Starts, MarkNew, RedisFails, NoEventId, history
  <2>2. CASE e = InHand(w)
    <3>1. /\ IsFiniteSet(Working(e)') /\ Cardinality(Working(e)') = Cardinality(Working(e)) + 1
      BY <1>1, <1>3, <2>2, WorkStarts, FS_AddElement
    <3>2. \/ e \notin marks /\ e \in marks' /\ bypassed' = bypassed
          \/ (e \in marks => e \in marks') /\ bypassed'[e] = bypassed[e] + 1
      BY <1>2, <1>3, <2>2 DEF Starts, MarkNew, RedisFails, NoEventId, history
    <3>3. QED BY <1>1, <1>2, <2>1, <3>1, <3>2
  <2>3. CASE e # InHand(w)
    <3>1. Working(e)' = Working(e)
      BY <1>1, <1>3, <2>3, WorkStarts
    <3>2. (e \in marks => e \in marks') /\ bypassed'[e] = bypassed[e]
      BY <1>2, <1>3, <2>3 DEF Starts, MarkNew, RedisFails, NoEventId, history
    <3>3. QED BY <1>1, <1>2, <2>1, <3>1, <3>2
  <2>4. QED BY <2>2, <2>3
<1>4. ASSUME NEW w \in Worker, Ends(w)
      PROVE  /\ IsFiniteSet(Working(e)')
             /\ logs'[e] + Cardinality(Working(e)')
                  <= bypassed'[e] + (IF e \in marks' THEN 1 ELSE 0)
  <2>1. marks' = marks /\ bypassed' = bypassed
    BY <1>4 DEF Ends, Process, WorkerDies
  <2>2. /\ IsFiniteSet(Working(e)')
        /\ Cardinality(Working(e)') = Cardinality(Working(e)) - (IF w \in Working(e) THEN 1 ELSE 0)
    BY <1>1, <1>2, <1>4, WorkEnds, FS_RemoveElement
  <2>3. logs'[e] = logs[e] \/ (logs'[e] = logs[e] + 1 /\ w \in Working(e))
    BY <1>1, <1>2, <1>4, WorkEnds DEF Ends, Process, WorkerDies
  <2>4. Cardinality(Working(e)') \in Nat
    BY <2>2, FS_CardinalityType
  <2>5. QED BY <1>1, <1>2, <2>1, <2>2, <2>3, <2>4
<1>5. CASE \A w \in Worker : ~ Starts(w) /\ ~ Ends(w)
  <2>1. Working(e)' = Working(e)
    BY <1>1, <1>5, WorkStays
  <2>2. logs' = logs
    BY <1>5 DEF Starts, Ends, Next, Loop, vars, workerVars, history, Publish, Assign, Poll,
       Deliver, HandlerCrashes, SkipDuplicate, Commit, CommitFails, WorkerDies, Restart,
       MarkExpires
  <2>3. CASE \E f \in Event : MarkExpires(f)
    <3>1. \/ (e \in marks => e \in marks') /\ bypassed'[e] = bypassed[e]
          \/ bypassed'[e] = bypassed[e] + 1
      BY <1>2, <2>3 DEF MarkExpires
    <3>2. bypassed'[e] \in Nat
      BY <1>2, <3>1
    <3>3. QED BY <1>1, <1>2, <2>1, <2>2, <3>1, <3>2
  <2>4. CASE ~ \E f \in Event : MarkExpires(f)
    <3>1. marks' = marks /\ bypassed' = bypassed
      BY <1>5, <2>4 DEF Starts, Ends, Next, Loop, vars, workerVars, history, Publish, Assign,
         Poll, Deliver, HandlerCrashes, SkipDuplicate, Commit, CommitFails, WorkerDies, Restart
    <3>2. QED BY <1>1, <2>1, <2>2, <3>1
  <2>5. QED BY <2>3, <2>4
<1>6. QED BY <1>3, <1>4, <1>5

\* Once an event is taken up it stays so: what ends a worker's part is recorded.
LEMMA TakenUpStays ==
  ASSUME OnceInv, [Next]_vars, NEW e \in Event, TakenUp(e)
  PROVE  TakenUp(e)'
<1>1. /\ TypeOK /\ Positions
      /\ logs \in [Event -> Nat] /\ bypassed \in [Event -> Nat]
      /\ logs' \in [Event -> Nat] /\ bypassed' \in [Event -> Nat]
  BY TypeStep DEF OnceInv, TypeOK
<1>2. /\ logs'[e] >= logs[e] /\ bypassed'[e] >= bypassed[e]
      /\ e \in lost => e \in lost'
  <2>1. \/ logs' = logs
        \/ \E f : logs' = [logs EXCEPT ![f] = @ + 1]
    BY DEF Next, Loop, vars, workerVars, history, Publish, Assign, Poll, Deliver,
       HandlerCrashes, MarkNew, SkipDuplicate, RedisFails, NoEventId, Process, Commit,
       CommitFails, WorkerDies, Restart, MarkExpires
  <2>2. \/ bypassed' = bypassed
        \/ \E f : bypassed' = [bypassed EXCEPT ![f] = @ + 1]
    BY DEF Next, Loop, vars, workerVars, history, Publish, Assign, Poll, Deliver,
       HandlerCrashes, MarkNew, SkipDuplicate, RedisFails, NoEventId, Process, Commit,
       CommitFails, WorkerDies, Restart, MarkExpires
  <2>3. lost \subseteq lost'
    BY DEF Next, Loop, vars, workerVars, history, Publish, Assign, Poll, Deliver,
       HandlerCrashes, MarkNew, SkipDuplicate, RedisFails, NoEventId, Process, Commit,
       CommitFails, WorkerDies, Restart, MarkExpires
  <2>4. QED BY <1>1, <2>1, <2>2, <2>3
<1>3. ASSUME Working(e) # {}, Working(e)' = {} PROVE logs'[e] > 0 \/ e \in lost'
  <2>1. PICK w \in Worker : Ends(w)
    BY <1>1, <1>3, WorkStarts, WorkStays
  <2>2. w \in Working(e) /\ e = InHand(w)
    BY <1>1, <1>3, <2>1, WorkEnds DEF Working
  <2>3. QED BY <1>1, <2>1, <2>2 DEF Ends, Process, WorkerDies
<1>4. QED BY <1>1, <1>2, <1>3 DEF TakenUp

\* Every step keeps a cause for every key.
LEMMA KeysHaveACauseStep == OnceInv /\ [Next]_vars => KeysHaveACause'
<1> SUFFICES ASSUME OnceInv, [Next]_vars PROVE KeysHaveACause'
  OBVIOUS
<1>1. TypeOK /\ TypeOK' /\ Positions /\ KeysHaveACause
  BY TypeStep DEF OnceInv
<1>2. \A e \in Event : TakenUp(e) => TakenUp(e)'
  BY TakenUpStays
<1>3. /\ \A i \in DOMAIN topic : topic[i] \in Event /\ i \in DOMAIN topic' /\ topic'[i] = topic[i]
      /\ DOMAIN topic = 1..Len(topic) /\ DOMAIN topic' = 1..Len(topic')
  <2>1. topic' = topic \/ \E e \in Event : topic' = Append(topic, e)
    BY DEF Next, Loop, vars, workerVars, Publish, Assign, Poll, Deliver,
       HandlerCrashes, MarkNew, SkipDuplicate, RedisFails, NoEventId, Process, Commit,
       CommitFails, WorkerDies, Restart, MarkExpires
  <2>2. topic \in Seq(Event) /\ topic' \in Seq(Event)
    BY <1>1 DEF TypeOK
  <2>3. Len(topic) \in Nat /\ Len(topic') \in Nat /\ Len(topic') >= Len(topic)
    BY <2>1, <2>2, AppendKeeps
  <2>4. \A i \in 1..Len(topic) : topic'[i] = topic[i]
    BY <1>1, TopicKeeps
  <2>5. QED BY <2>2, <2>3, <2>4
<1>4. ASSUME NEW e \in marks' PROVE TakenUp(e)'
  <2>1. CASE e \in marks
    BY <1>1, <1>2, <2>1 DEF KeysHaveACause, TypeOK
  <2>2. CASE e \notin marks
    <3>1. PICK w \in Worker : InHand(w) = e /\ Starts(w)
      BY <1>4, <2>2 DEF Starts, Next, Loop, vars, workerVars, history, Publish, Assign, Poll,
         Deliver, HandlerCrashes, MarkNew, SkipDuplicate, RedisFails, NoEventId, Process,
         Commit, CommitFails, WorkerDies, Restart, MarkExpires
    <3>2. Working(e)' # {}
      BY <1>1, <3>1, WorkStarts
    <3>3. QED BY <3>2 DEF TakenUp
  <2>3. QED BY <2>1, <2>2
<1>5. ASSUME NEW i \in Offset, settled'[i] # settled[i]
      PROVE  /\ i \in DOMAIN topic
             /\ "skipped" \in settled'[i] /\ "skipped" \notin settled[i] => topic[i] \in marks
  <2>1. PICK w \in Worker : HandlerCrashes(w) \/ SkipDuplicate(w) \/ Process(w)
    BY <1>5 DEF Next, Loop, vars, workerVars, history, Publish, Assign, Poll, Deliver, MarkNew,
       RedisFails, NoEventId, Commit, CommitFails, WorkerDies, Restart, MarkExpires
  <2>2. pos[w] \in DOMAIN topic
    <3>1. pc[w] \in {"handling", "processing"}
      BY <2>1 DEF HandlerCrashes, SkipDuplicate, Process
    <3>2. QED BY <1>1, <3>1 DEF Positions, TypeOK
  <2>3. i = pos[w]
    BY <1>1, <1>5, <2>1 DEF HandlerCrashes, SkipDuplicate, Process, Settle, TypeOK
  <2>4. ASSUME "skipped" \in settled'[i], "skipped" \notin settled[i] PROVE SkipDuplicate(w)
    BY <1>1, <2>1, <2>3, <2>4 DEF HandlerCrashes, Process, Settle, TypeOK
  <2>5. QED BY <2>2, <2>3, <2>4 DEF SkipDuplicate, InHand
<1>6. ASSUME NEW i \in Offset, settled'[i] # {} PROVE i \in DOMAIN topic'
  BY <1>1, <1>3, <1>5, <1>6 DEF KeysHaveACause
<1>7. ASSUME NEW i \in DOMAIN topic', "skipped" \in settled'[i] PROVE TakenUp(topic[i])'
  <2>1. i \in Offset
    BY <1>1, <1>3, BoundsAssumption DEF TypeOK, Offset
  <2>2. i \in DOMAIN topic
    BY <1>1, <1>5, <1>7, <2>1 DEF KeysHaveACause
  <2>3. PICK e \in Event : topic[i] = e /\ topic'[i] = e
    BY <1>3, <2>2
  <2>4. TakenUp(e)
    BY <1>1, <1>5, <1>7, <2>1, <2>2, <2>3 DEF KeysHaveACause
  <2>5. TakenUp(e)'
    BY <1>2, <2>4
  <2>6. QED BY <2>3, <2>5 DEF TakenUp, Working
<1>8. QED BY <1>4, <1>6, <1>7 DEF KeysHaveACause

\* Keys allow for the work, and have a cause, throughout.
LEMMA OnceInvariant == Spec => []OnceInv
<1>1. OnceInv /\ [Next]_vars => OnceInv'
  BY TypeStep, KeysAllowForWorkStep, KeysHaveACauseStep DEF OnceInv
<1>2. QED BY <1>1, OnceInit, PTL DEF Spec

\* Whatever is sent twice, redelivered, taken over or restarted, an event with an
\* id is processed at most once more than Redis failed on its key.
THEOREM EventsProcessedOnce == Spec => []ProcessedOnce
<1>1. OnceInv => ProcessedOnce
  <2> SUFFICES ASSUME OnceInv, NEW e \in Event, Kind[e] = "audit"
               PROVE  logs[e] <= 1 + bypassed[e]
    BY DEF ProcessedOnce
  <2>1. /\ IsFiniteSet(Working(e)) /\ logs[e] \in Nat /\ bypassed[e] \in Nat
        /\ logs[e] + Cardinality(Working(e)) <= bypassed[e] + (IF e \in marks THEN 1 ELSE 0)
    BY DEF OnceInv, KeysAllowForWork, TypeOK
  <2>2. QED BY <2>1, FS_CardinalityType
<1>2. QED BY <1>1, OnceInvariant, PTL

\* No message is taken for a duplicate of an event nobody has taken up.
THEOREM SkipsAreCaused == Spec => []SkipsHaveACause
<1>1. OnceInv => SkipsHaveACause
  BY DEF OnceInv, KeysHaveACause, TakenUp, Working, SkipsHaveACause
<1>2. QED BY <1>1, OnceInvariant, PTL
=============================================================================
