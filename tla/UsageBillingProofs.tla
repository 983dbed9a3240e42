------------------------- MODULE UsageBillingProofs -------------------------
(***************************************************************************)
(* Proofs about UsageBilling for any calls, subscriptions and limits: the  *)
(* ledger, the quota and the Stripe quantity never exceed the calls that   *)
(* were recorded, however recorders, rollups and months interleave.        *)
(***************************************************************************)
EXTENDS UsageBilling, FiniteSetTheorems, TLAPS

\* A recorder that has read is dated to a month, and only a recorded call has
\* an event.
CallsInOrder ==
  \A c \in Call : /\ pc[c] = "counted" => bucket[c] \in Month
                  /\ dated[c] # 0 => pc[c] = "recorded"

\* What a recorder has read and will write back plus one.
SeenIsBacked ==
  \A c \in Call : pc[c] = "counted" =>
    seen[c] <= Cardinality(Chargeable(SubOf[c], bucket[c], EndpointOf[c]))

\* What the rollup has counted and will write as it is.
TallyIsBacked ==
  /\ \A s \in Sub : \A e \in Endpoint :
       tally[s][e] <= Cardinality(Chargeable(s, rollMonth, e))
  /\ ~ rolling => tally = [s \in Sub |-> NoCounts]

UsageInv ==
  /\ TypeOK /\ CallsInOrder
  /\ SeenIsBacked /\ TallyIsBacked /\ LedgerIsBacked /\ MeteringIsBacked

-----------------------------------------------------------------------------
(* Types.                                                                   *)
LEMMA CountsAreNat ==
  /\ NoCounts \in [Endpoint -> Nat]
  /\ \A e \in Endpoint : NewCounters(e) \in [Endpoint -> Nat]
  BY DEF NoCounts, NewCounters

\* Events and chargeable calls are finitely many.
LEMMA SetsOfCalls ==
  ASSUME NEW s, NEW m, NEW e
  PROVE  /\ IsFiniteSet(Events(s, m, e)) /\ Cardinality(Events(s, m, e)) \in Nat
         /\ IsFiniteSet(Chargeable(s, m, e)) /\ Cardinality(Chargeable(s, m, e)) \in Nat
         /\ Cardinality(Chargeable(s, m, e)') \in Nat
<1>1. /\ Events(s, m, e) \subseteq Call
      /\ Chargeable(s, m, e) \subseteq Call
      /\ Chargeable(s, m, e)' \subseteq Call
  BY DEF Events, Chargeable
<1>2. /\ IsFiniteSet(Events(s, m, e))
      /\ IsFiniteSet(Chargeable(s, m, e))
      /\ IsFiniteSet(Chargeable(s, m, e)')
  BY <1>1, CallAssumption, FS_Subset
<1>3. QED BY <1>2, FS_CardinalityType

\* The initial states have the types.
LEMMA TypeInit == Init => TypeOK /\ CallsInOrder
<1> SUFFICES ASSUME Init PROVE TypeOK /\ CallsInOrder
  OBVIOUS
<1>1. 1 \in Month
  BY MonthAssumption DEF Month
<1>2. QED BY <1>1, CountsAreNat DEF Init, TypeOK, CallsInOrder

\* Every step keeps the types.
LEMMA TypeStep == TypeOK /\ CallsInOrder /\ [Next]_vars => TypeOK'
<1> SUFFICES ASSUME TypeOK, CallsInOrder, [Next]_vars PROVE TypeOK'
  OBVIOUS
<1> USE SubOfAssumption, EndpointOfAssumption DEF TypeOK, callVars, rollVars
<1>1. ASSUME NEW c \in Call, CheckQuota(c) PROVE TypeOK'
  BY <1>1 DEF CheckQuota
<1>2. ASSUME NEW c \in Call, Unmetered(c) PROVE TypeOK'
  BY <1>2 DEF Unmetered
<1>3. ASSUME NEW c \in Call, ReadLedger(c) PROVE TypeOK'
  <2>1. VisibleRow(SubOf[c]) => ledger[<<SubOf[c], month>>][EndpointOf[c]] \in Nat
    BY DEF VisibleRow, Row
  <2>2. seen' \in [Call -> Nat \union {-1}]
    BY <1>3, <2>1 DEF ReadLedger
  <2>3. QED BY <1>3, <2>2 DEF ReadLedger
<1>4. ASSUME NEW c \in Call, StoreUsage(c) PROVE TypeOK'
  <2> DEFINE row == <<SubOf[c], bucket[c]>>
  <2>1. row \in Row
    BY <1>4 DEF StoreUsage, CallsInOrder, Row
  <2>2. rows' \subseteq Row
    BY <1>4, <2>1 DEF StoreUsage
  <2>3. ledger' \in [Row -> [Endpoint -> Nat]]
    <3>1. CASE seen[c] = -1
      BY <1>4, <3>1, CountsAreNat DEF StoreUsage
    <3>2. CASE seen[c] # -1
      <4>1. seen[c] + 1 \in Nat
        BY <3>2
      <4>2. ledger' = [ledger EXCEPT ![row][EndpointOf[c]] = seen[c] + 1]
        BY <1>4, <3>2 DEF StoreUsage
      <4>3. QED BY <4>1, <4>2
    <3>3. QED BY <3>1, <3>2
  <2>4. QED BY <1>4, <2>2, <2>3 DEF StoreUsage
<1>5. ASSUME NEW c \in Call, DuplicateRow(c) PROVE TypeOK'
  BY <1>5 DEF DuplicateRow
<1>6. ASSUME NEW c \in Call, RecordFails(c) PROVE TypeOK'
  BY <1>6 DEF RecordFails
<1>7. ASSUME NEW s \in Sub, RollupCount(s) PROVE TypeOK'
  <2>1. \A e \in Endpoint : Cardinality(Events(s, rollMonth, e)) \in Nat
    BY SetsOfCalls
  <2>2. QED BY <1>7, <2>1 DEF RollupCount
<1>8. ASSUME NEW s \in Sub, SubmitMetered(s) PROVE TypeOK'
  BY <1>8 DEF SubmitMetered, Row, Endpoint
<1>9. ASSUME NEW s \in Sub, StripeWebhook(s) PROVE TypeOK'
  BY <1>9 DEF StripeWebhook
<1>10. ASSUME RollupEnds
       PROVE  /\ rolling' \in BOOLEAN /\ rollMonth' \in Month
              /\ todo' \subseteq Sub /\ cur' \in Sub \union {None}
              /\ tally' \in [Sub -> [Endpoint -> Nat]]
              /\ stale' \subseteq Sub /\ absent' \subseteq Sub
  BY <1>10, CountsAreNat DEF RollupEnds
<1>11. CASE RollupStart
  BY <1>11 DEF RollupStart
<1>12. CASE RollupCompare
  BY <1>12 DEF RollupCompare
<1>13. CASE RollupCommit
  <2>1. {<<s, rollMonth>> : s \in stale \union absent} \subseteq Row
    BY DEF Row
  <2>2. rows' \subseteq Row
    BY <1>13, <2>1 DEF RollupCommit
  <2>3. \A r \in Row : tally[r[1]] \in [Endpoint -> Nat]
    BY DEF Row
  <2>4. ledger' \in [Row -> [Endpoint -> Nat]]
    BY <1>13, <2>3 DEF RollupCommit
  <2>5. QED BY <1>10, <1>13, <2>2, <2>4 DEF RollupCommit
<1>14. CASE RollupAbort
  BY <1>10, <1>14 DEF RollupAbort
<1>15. CASE CleanupOldUsageEvents
  BY <1>15 DEF CleanupOldUsageEvents
<1>16. CASE NextMonth
  <2>1. month + 1 \in Month
    BY <1>16, MonthAssumption DEF NextMonth, Month
  <2>2. QED BY <1>16, <2>1 DEF NextMonth
<1>17. CASE UNCHANGED vars
  BY <1>17 DEF vars
<1>18. QED
  BY <1>1, <1>2, <1>3, <1>4, <1>5, <1>6, <1>7, <1>8, <1>9, <1>11, <1>12, <1>13,
     <1>14, <1>15, <1>16, <1>17 DEF Next

\* What a step may do to the calls, and nothing else touches them.
LEMMA CallSteps ==
  ASSUME TypeOK, CallsInOrder, [Next]_vars, NEW c \in Call
  PROVE  \/ UNCHANGED <<pc[c], bucket[c], seen[c], dated[c]>>
         \/ CheckQuota(c) \/ Unmetered(c) \/ ReadLedger(c)
         \/ StoreUsage(c) \/ DuplicateRow(c) \/ RecordFails(c)
<1> USE DEF TypeOK, callVars, rollVars
<1>1. ASSUME NEW d \in Call, d # c,
             CheckQuota(d) \/ Unmetered(d) \/ ReadLedger(d)
               \/ StoreUsage(d) \/ DuplicateRow(d) \/ RecordFails(d)
      PROVE  UNCHANGED <<pc[c], bucket[c], seen[c], dated[c]>>
  BY <1>1 DEF CheckQuota, Unmetered, ReadLedger, StoreUsage, DuplicateRow, RecordFails
<1>2. CASE \E d \in Call : \/ CheckQuota(d) \/ Unmetered(d) \/ ReadLedger(d)
                           \/ StoreUsage(d) \/ DuplicateRow(d) \/ RecordFails(d)
  BY <1>1, <1>2
<1>3. CASE UNCHANGED callVars
  BY <1>3
<1>4. UNCHANGED callVars \/ \E d \in Call :
        \/ CheckQuota(d) \/ Unmetered(d) \/ ReadLedger(d)
        \/ StoreUsage(d) \/ DuplicateRow(d) \/ RecordFails(d)
  BY DEF Next, vars, RollupCount, SubmitMetered, StripeWebhook, RollupStart,
         RollupCompare, RollupCommit, RollupAbort, CleanupOldUsageEvents, NextMonth
<1>5. QED BY <1>2, <1>3, <1>4

\* Every step keeps the order of the calls.
LEMMA OrderStep == TypeOK /\ CallsInOrder /\ [Next]_vars => CallsInOrder'
<1> SUFFICES ASSUME TypeOK, CallsInOrder, [Next]_vars, NEW c \in Call
             PROVE  /\ pc'[c] = "counted" => bucket'[c] \in Month
                    /\ dated'[c] # 0 => pc'[c] = "recorded"
  BY DEF CallsInOrder
<1>1. QED
  BY CallSteps DEF CallsInOrder, TypeOK, CheckQuota, Unmetered, ReadLedger,
     StoreUsage, DuplicateRow, RecordFails

\* Ledger, statuses and the rollup's locals stay within their types.
THEOREM UsageTypes == Spec => []TypeOK
  BY TypeInit, TypeStep, OrderStep, PTL DEF Spec

-----------------------------------------------------------------------------
(* Recorded calls stay chargeable.                                          *)
LEMMA ChargeableGrows ==
  ASSUME TypeOK, CallsInOrder, [Next]_vars, NEW s, NEW m, NEW e
  PROVE  /\ Chargeable(s, m, e) \subseteq Chargeable(s, m, e)'
         /\ Cardinality(Chargeable(s, m, e)) <= Cardinality(Chargeable(s, m, e)')
<1>1. ASSUME NEW c \in Call, pc[c] = "recorded"
      PROVE  pc'[c] = "recorded" /\ bucket'[c] = bucket[c] /\ dated'[c] = dated[c]
  BY <1>1, CallSteps DEF TypeOK, CheckQuota, Unmetered, ReadLedger, StoreUsage,
     DuplicateRow, RecordFails
<1>2. Chargeable(s, m, e) \subseteq Chargeable(s, m, e)'
  BY <1>1 DEF Chargeable
<1>3. Chargeable(s, m, e)' \subseteq Call
  BY DEF Chargeable
<1>4. IsFiniteSet(Chargeable(s, m, e)')
  BY <1>3, CallAssumption, FS_Subset
<1>5. QED BY <1>2, <1>4, FS_Subset

\* The events of a month are among its chargeable calls.
LEMMA EventsAreChargeable ==
  ASSUME TypeOK, CallsInOrder, NEW s, NEW m \in Month, NEW e
  PROVE  Cardinality(Events(s, m, e)) <= Cardinality(Chargeable(s, m, e))
<1>1. Events(s, m, e) \subseteq Chargeable(s, m, e)
  BY DEF Events, Chargeable, CallsInOrder, Month
<1>2. QED BY <1>1, SetsOfCalls, FS_Subset

\* Storing a call makes it chargeable to its bucket, as one more.
LEMMA StoreAddsOne ==
  ASSUME TypeOK, CallsInOrder, [Next]_vars, NEW c \in Call, StoreUsage(c)
  PROVE  Cardinality(Chargeable(SubOf[c], bucket[c], EndpointOf[c])) + 1
           <= Cardinality(Chargeable(SubOf[c], bucket[c], EndpointOf[c])')
<1> DEFINE s == SubOf[c]
           m == bucket[c]
           e == EndpointOf[c]
           C == Chargeable(s, m, e)
           D == {d \in Call : /\ pc'[d] = "recorded" /\ SubOf[d] = s /\ EndpointOf[d] = e
                              /\ bucket'[d] = m \/ dated'[d] = m}
<1>1. D = Chargeable(SubOf[c], bucket[c], EndpointOf[c])'
  BY DEF StoreUsage, Chargeable
<1>2. pc[c] = "counted" /\ pc'[c] = "recorded" /\ bucket'[c] = bucket[c]
  BY DEF StoreUsage, TypeOK
<1>3. c \notin C
  BY <1>2 DEF Chargeable
<1>4. \A d \in C : d # c /\ pc'[d] = pc[d] /\ bucket'[d] = bucket[d] /\ dated'[d] = dated[d]
  BY <1>3 DEF StoreUsage, TypeOK, Chargeable
<1>5. C \union {c} \subseteq D
  BY <1>2, <1>4 DEF Chargeable
<1>6. IsFiniteSet(C) /\ IsFiniteSet(D)
  <2>1. C \subseteq Call /\ D \subseteq Call
    BY DEF Chargeable
  <2>2. QED BY <2>1, CallAssumption, FS_Subset
<1>7. Cardinality(C \union {c}) = Cardinality(C) + 1
  BY <1>3, <1>6, FS_AddElement
<1>8. Cardinality(C \union {c}) <= Cardinality(D)
  BY <1>5, <1>6, FS_Subset
<1>9. QED BY <1>1, <1>7, <1>8

-----------------------------------------------------------------------------
(* The inductive invariant.                                                 *)
LEMMA UsageInit == Init => UsageInv
<1> SUFFICES ASSUME Init PROVE UsageInv
  OBVIOUS
<1>1. TypeOK /\ CallsInOrder
  BY TypeInit
<1>2. \A s, m, e : Cardinality(Chargeable(s, m, e)) \in Nat
  BY SetsOfCalls
<1>3. SeenIsBacked /\ MeteringIsBacked
  BY <1>2 DEF Init, SeenIsBacked, MeteringIsBacked
<1>4. TallyIsBacked /\ LedgerIsBacked
  BY <1>2 DEF Init, TallyIsBacked, LedgerIsBacked, NoCounts
<1>5. QED BY <1>1, <1>3, <1>4 DEF UsageInv

\* Every step keeps calls behind the count that a recorder has read.
LEMMA SeenStep == UsageInv /\ [Next]_vars => SeenIsBacked'
<1> SUFFICES ASSUME UsageInv, [Next]_vars, NEW c \in Call, pc'[c] = "counted",
                    NEW m, m = bucket'[c]
             PROVE  seen'[c] <= Cardinality(Chargeable(SubOf[c], m, EndpointOf[c])')
  BY DEF SeenIsBacked, Chargeable
<1> DEFINE N == Cardinality(Chargeable(SubOf[c], m, EndpointOf[c]))
<1>1. TypeOK /\ CallsInOrder /\ SeenIsBacked /\ LedgerIsBacked
  BY DEF UsageInv
<1>2. N \in Nat /\ N <= N' /\ N' \in Nat
  BY <1>1, SetsOfCalls, ChargeableGrows
<1>3. CASE UNCHANGED <<pc[c], bucket[c], seen[c], dated[c]>>
  <2>1. pc[c] = "counted" /\ m = bucket[c] /\ seen'[c] = seen[c]
    BY <1>3
  <2>2. seen[c] <= N
    BY <1>1, <2>1 DEF SeenIsBacked
  <2>3. seen[c] \in Int
    BY <1>1 DEF TypeOK
  <2>4. QED BY <1>2, <2>1, <2>2, <2>3
<1>4. CASE ReadLedger(c)
  <2>1. m = month
    BY <1>1, <1>4 DEF ReadLedger, TypeOK
  <2>2. CASE VisibleRow(SubOf[c])
    <3>1. seen'[c] = ledger[<<SubOf[c], month>>][EndpointOf[c]]
      BY <1>1, <1>4, <2>2 DEF ReadLedger, TypeOK
    <3>2. <<SubOf[c], month>> \in Row
      BY <1>1, <2>2 DEF VisibleRow, TypeOK
    <3>3. ledger[<<SubOf[c], month>>][EndpointOf[c]] \in Nat
      BY <1>1, <3>2, EndpointOfAssumption DEF TypeOK
    <3>4. ledger[<<SubOf[c], month>>][EndpointOf[c]] <= N
      BY <1>1, <2>1, <3>2, EndpointOfAssumption DEF LedgerIsBacked
    <3>5. QED BY <1>2, <3>1, <3>3, <3>4
  <2>3. CASE ~ VisibleRow(SubOf[c])
    <3>1. seen'[c] = -1
      BY <1>1, <1>4, <2>3 DEF ReadLedger, TypeOK
    <3>2. QED BY <1>2, <3>1
  <2>4. QED BY <2>2, <2>3
<1>5. CASE CheckQuota(c) \/ Unmetered(c) \/ StoreUsage(c) \/ DuplicateRow(c) \/ RecordFails(c)
  BY <1>1, <1>5 DEF TypeOK, CheckQuota, Unmetered, StoreUsage, DuplicateRow, RecordFails
<1>6. QED BY <1>1, <1>3, <1>4, <1>5, CallSteps

\* The rollup's locals are its own.
LEMMA TallyStep == UsageInv /\ [Next]_vars => TallyIsBacked'
<1> SUFFICES ASSUME UsageInv, [Next]_vars PROVE TallyIsBacked'
  OBVIOUS
<1>1. TypeOK /\ CallsInOrder /\ TallyIsBacked
  BY DEF UsageInv
<1> DEFINE N(s, m, e) == Cardinality(Chargeable(s, m, e))
<1>2. \A s, m, e : N(s, m, e) \in Nat /\ N(s, m, e) <= N(s, m, e)' /\ N(s, m, e)' \in Nat
  BY <1>1, SetsOfCalls, ChargeableGrows
<1>3. \A s \in Sub : \A e \in Endpoint : tally[s][e] \in Nat
  BY <1>1 DEF TypeOK
<1>4. (~ rolling => tally = [s \in Sub |-> NoCounts])'
  <2>1. CASE UNCHANGED <<rolling, tally>>
    BY <1>1, <2>1 DEF TallyIsBacked, NoCounts
  <2>2. CASE RollupEnds
    BY <2>2 DEF RollupEnds, NoCounts
  <2>3. CASE rolling'
    BY <2>3
  <2>4. UNCHANGED <<rolling, tally>> \/ RollupEnds \/ rolling'
    BY <1>1 DEF TypeOK, Next, vars, rollVars, CheckQuota, Unmetered, ReadLedger,
       StoreUsage, DuplicateRow, RecordFails, RollupCount, SubmitMetered,
       StripeWebhook, RollupStart, RollupCompare, RollupCommit, RollupAbort,
       CleanupOldUsageEvents, NextMonth
  <2>5. QED BY <2>1, <2>2, <2>3, <2>4
<1>5. ASSUME NEW s \in Sub, NEW e \in Endpoint, NEW m, m = rollMonth'
      PROVE  tally'[s][e] <= N(s, m, e)'
  <2>0. N(s, m, e) \in Nat /\ N(s, m, e) <= N(s, m, e)' /\ N(s, m, e)' \in Nat
    BY <1>2
  <2>1. CASE UNCHANGED <<rollMonth, tally>>
    <3>1. tally[s][e] <= N(s, m, e)
      BY <1>1, <1>5, <2>1 DEF TallyIsBacked
    <3>2. QED BY <1>3, <2>0, <2>1, <3>1
  <2>2. CASE tally' = [x \in Sub |-> NoCounts]
    BY <2>0, <2>2 DEF NoCounts
  <2>3. ASSUME NEW x \in Sub, RollupCount(x) PROVE tally'[s][e] <= N(s, m, e)'
    <3>1. m = rollMonth /\ m \in Month
      BY <1>1, <1>5, <2>3 DEF RollupCount, TypeOK
    <3>2. CASE s = x
      <4>1. tally'[s][e] = Cardinality(Events(s, m, e))
        BY <1>1, <2>3, <3>1, <3>2 DEF RollupCount, TypeOK
      <4>2. Cardinality(Events(s, m, e)) <= N(s, m, e)
        BY <1>1, <3>1, EventsAreChargeable
      <4>3. Cardinality(Events(s, m, e)) \in Nat
        BY SetsOfCalls
      <4>4. QED BY <2>0, <4>1, <4>2, <4>3
    <3>3. CASE s # x
      <4>1. tally'[s][e] = tally[s][e]
        BY <1>1, <2>3, <3>3 DEF RollupCount, TypeOK
      <4>2. tally[s][e] <= N(s, m, e)
        BY <1>1, <3>1 DEF TallyIsBacked
      <4>3. QED BY <1>3, <2>0, <4>1, <4>2
    <3>4. QED BY <3>2, <3>3
  <2>4. CASE RollupStart \/ NextMonth
    <3>1. CASE rolling
      BY <2>1, <2>4, <3>1 DEF RollupStart, NextMonth
    <3>2. CASE ~ rolling
      BY <1>1, <2>2, <2>4, <3>2 DEF RollupStart, NextMonth, TallyIsBacked
    <3>3. QED BY <3>1, <3>2
  <2>5. CASE RollupEnds
    BY <2>2, <2>5 DEF RollupEnds
  <2>6. QED
    BY <2>1, <2>3, <2>4, <2>5 DEF Next, vars, rollVars, CheckQuota, Unmetered, ReadLedger,
       StoreUsage, DuplicateRow, RecordFails, SubmitMetered, StripeWebhook,
       RollupCompare, RollupCommit, RollupAbort, CleanupOldUsageEvents
<1>6. QED BY <1>4, <1>5 DEF TallyIsBacked, Chargeable

\* Every step keeps calls behind the counts of the ledger.
LEMMA LedgerStep == UsageInv /\ [Next]_vars => LedgerIsBacked'
<1> SUFFICES ASSUME UsageInv, [Next]_vars, NEW r \in Row, NEW e \in Endpoint
             PROVE  ledger'[r][e] <= Cardinality(Chargeable(r[1], r[2], e)')
  BY DEF LedgerIsBacked, Chargeable
<1> DEFINE N == Cardinality(Chargeable(r[1], r[2], e))
<1>1. TypeOK /\ CallsInOrder /\ SeenIsBacked /\ TallyIsBacked /\ LedgerIsBacked
  BY DEF UsageInv
<1>2. N \in Nat /\ N <= N' /\ N' \in Nat
  BY <1>1, SetsOfCalls, ChargeableGrows
<1>3. ledger[r][e] \in Nat /\ ledger[r][e] <= N
  BY <1>1 DEF TypeOK, LedgerIsBacked
<1>4. CASE ledger'[r][e] = ledger[r][e]
  BY <1>2, <1>3, <1>4
<1>5. ASSUME NEW c \in Call, StoreUsage(c) PROVE ledger'[r][e] <= N'
  <2> DEFINE row == <<SubOf[c], bucket[c]>>
  <2>1. row \in Row
    BY <1>1, <1>5, SubOfAssumption DEF StoreUsage, CallsInOrder, Row
  <2>2. CASE r = row /\ e = EndpointOf[c]
    <3>1. r[1] = SubOf[c] /\ r[2] = bucket[c]
      BY <2>2
    <3>0. /\ N = Cardinality(Chargeable(SubOf[c], bucket[c], EndpointOf[c]))
          /\ N' = Cardinality(Chargeable(SubOf[c], bucket[c], EndpointOf[c])')
      BY <1>1, <1>5, <2>2, <3>1 DEF Chargeable, StoreUsage, TypeOK
    <3>2. N + 1 <= N'
      BY <1>1, <1>5, <3>0, StoreAddsOne
    <3>3. seen[c] <= N /\ seen[c] \in Nat \union {-1}
      BY <1>1, <1>5, <2>2, <3>1 DEF SeenIsBacked, StoreUsage, TypeOK
    <3>4. CASE seen[c] = -1
      <4>1. ledger'[r] = NewCounters(e)
        BY <1>1, <1>5, <2>1, <2>2, <3>4 DEF StoreUsage, TypeOK
      <4>2. ledger'[r][e] = 1
        BY <4>1 DEF NewCounters
      <4>3. QED BY <1>2, <3>2, <4>2
    <3>5. CASE seen[c] # -1
      <4>1. ledger'[r][e] = seen[c] + 1
        BY <1>1, <1>5, <2>1, <2>2, <3>5 DEF StoreUsage, TypeOK
      <4>2. QED BY <1>2, <3>2, <3>3, <4>1
    <3>6. QED BY <3>4, <3>5
  <2>3. CASE r = row /\ e # EndpointOf[c]
    <3>1. CASE seen[c] = -1
      <4>1. ledger'[r] = NewCounters(EndpointOf[c])
        BY <1>1, <1>5, <2>1, <2>3, <3>1 DEF StoreUsage, TypeOK
      <4>2. ledger'[r][e] = 0
        BY <2>3, <4>1 DEF NewCounters
      <4>3. QED BY <1>2, <4>2
    <3>2. CASE seen[c] # -1
      BY <1>1, <1>4, <1>5, <2>1, <2>3, <3>2 DEF StoreUsage, TypeOK
    <3>3. QED BY <3>1, <3>2
  <2>4. CASE r # row
    <3>1. ledger'[r] = ledger[r]
      BY <1>1, <1>5, <2>1, <2>4 DEF StoreUsage, TypeOK
    <3>2. QED BY <1>4, <3>1
  <2>5. QED BY <2>2, <2>3, <2>4
<1>6. CASE RollupCommit
  <2>1. r[1] \in Sub
    BY DEF Row
  <2>2. CASE r \in {<<s, rollMonth>> : s \in stale \union absent}
    <3>1. r[2] = rollMonth
      BY <2>2
    <3>2. ledger'[r][e] = tally[r[1]][e]
      BY <1>6, <2>2 DEF RollupCommit
    <3>3. tally[r[1]][e] <= N
      BY <1>1, <2>1, <3>1 DEF TallyIsBacked
    <3>4. tally[r[1]][e] \in Nat
      BY <1>1, <2>1 DEF TypeOK
    <3>5. QED BY <1>2, <3>2, <3>3, <3>4
  <2>3. CASE r \notin {<<s, rollMonth>> : s \in stale \union absent}
    BY <1>4, <1>6, <2>3 DEF RollupCommit
  <2>4. QED BY <2>2, <2>3
<1>7. CASE ledger' = ledger
  BY <1>4, <1>7
<1>8. QED
  BY <1>5, <1>6, <1>7 DEF Next, vars, CheckQuota, Unmetered, ReadLedger,
     DuplicateRow, RecordFails, RollupCount, SubmitMetered, StripeWebhook,
     RollupStart, RollupCompare, RollupAbort, CleanupOldUsageEvents, NextMonth

\* Every step keeps calls behind what is metered.
LEMMA MeteringStep == UsageInv /\ [Next]_vars => MeteringIsBacked'
<1> SUFFICES ASSUME UsageInv, [Next]_vars, NEW r \in Row
             PROVE  billed'[r] <= Cardinality(Chargeable(r[1], r[2], "analyze")')
  BY DEF MeteringIsBacked, Chargeable
<1> DEFINE N == Cardinality(Chargeable(r[1], r[2], "analyze"))
<1>1. TypeOK /\ CallsInOrder /\ LedgerIsBacked /\ MeteringIsBacked
  BY DEF UsageInv
<1>2. N \in Nat /\ N <= N' /\ N' \in Nat
  BY <1>1, SetsOfCalls, ChargeableGrows
<1>3. billed[r] \in Nat /\ billed[r] <= N
  BY <1>1 DEF TypeOK, MeteringIsBacked
<1>4. CASE billed'[r] = billed[r]
  BY <1>2, <1>3, <1>4
<1>5. ASSUME NEW s \in Sub, SubmitMetered(s) PROVE billed'[r] <= N'
  <2>1. CASE r = <<s, month>>
    <3>1. billed'[r] = ledger[r]["analyze"]
      BY <1>1, <1>5, <2>1 DEF SubmitMetered, TypeOK
    <3>2. ledger[r]["analyze"] \in Nat /\ ledger[r]["analyze"] <= N
      BY <1>1 DEF TypeOK, LedgerIsBacked, Endpoint
    <3>3. QED BY <1>2, <3>1, <3>2
  <2>2. CASE r # <<s, month>>
    BY <1>1, <1>4, <1>5, <2>2 DEF SubmitMetered, TypeOK
  <2>3. QED BY <2>1, <2>2
<1>6. CASE billed' = billed
  BY <1>4, <1>6
<1>7. QED
  BY <1>5, <1>6 DEF Next, vars, CheckQuota, Unmetered, ReadLedger, StoreUsage,
     DuplicateRow, RecordFails, RollupCount, StripeWebhook, RollupStart,
     RollupCompare, RollupCommit, RollupAbort, CleanupOldUsageEvents, NextMonth

\* Every step keeps the whole invariant.
LEMMA UsageStep == UsageInv /\ [Next]_vars => UsageInv'
  BY TypeStep, OrderStep, SeenStep, TallyStep, LedgerStep, MeteringStep DEF UsageInv

\* The invariant holds throughout.
LEMMA UsageInvariant == Spec => []UsageInv
  BY UsageInit, UsageStep, PTL DEF Spec

\* No interleaving of recorders, rollups and month turns makes a ledger counter
\* exceed the calls recorded for its month (record_usage, nightly_usage_rollup).
THEOREM LedgerNeverOvercounts == Spec => []LedgerIsBacked
<1>1. UsageInv => LedgerIsBacked
  BY DEF UsageInv
<1>2. QED BY <1>1, UsageInvariant, PTL

\* Stripe is never told more scans than were recorded for the month
\* (submit_metered_usage_to_stripe).
THEOREM StripeNeverOvercharged == Spec => []MeteringIsBacked
<1>1. UsageInv => MeteringIsBacked
  BY DEF UsageInv
<1>2. QED BY <1>1, UsageInvariant, PTL

\* Whatever the limits are, a call is refused only when the calls recorded for
\* this month have reached the limit of its plan (check_quota).
THEOREM NoEarlyRefusal == Spec => RefusedOnlyAtLimit
<1> DEFINE A == \A c \in Call : pc'[c] = "refused" /\ pc[c] # "refused" =>
                  /\ Limit[SubOf[c]][EndpointOf[c]] > 0
                  /\ Cardinality(Chargeable(SubOf[c], month, EndpointOf[c]))
                       >= Limit[SubOf[c]][EndpointOf[c]]
<1>1. UsageInv /\ [Next]_vars => A
  <2> SUFFICES ASSUME UsageInv, [Next]_vars, NEW c \in Call,
                      pc'[c] = "refused", pc[c] # "refused"
               PROVE  /\ Limit[SubOf[c]][EndpointOf[c]] > 0
                      /\ Cardinality(Chargeable(SubOf[c], month, EndpointOf[c]))
                           >= Limit[SubOf[c]][EndpointOf[c]]
    OBVIOUS
  <2> DEFINE s == SubOf[c]
             e == EndpointOf[c]
  <2>1. TypeOK /\ CallsInOrder /\ LedgerIsBacked
    BY DEF UsageInv
  <2>2. CheckQuota(c) /\ Exhausted(s, e)
    BY <2>1, CallSteps DEF TypeOK, CheckQuota, Unmetered, ReadLedger, StoreUsage,
       DuplicateRow, RecordFails
  <2>3. s \in Sub /\ e \in Endpoint /\ Limit[s][e] \in Int
    BY SubOfAssumption, EndpointOfAssumption, LimitAssumption
  <2>4. Limit[s][e] > 0 /\ Used(s, e) >= Limit[s][e]
    BY <2>2 DEF Exhausted
  <2>5. VisibleRow(s) /\ Used(s, e) = ledger[<<s, month>>][e]
    BY <2>3, <2>4 DEF Used
  <2>6. <<s, month>> \in Row
    BY <2>1, <2>5 DEF VisibleRow, TypeOK
  <2>7. ledger[<<s, month>>][e] <= Cardinality(Chargeable(s, month, e))
    BY <2>1, <2>3, <2>6 DEF LedgerIsBacked
  <2>8. ledger[<<s, month>>][e] \in Nat /\ Cardinality(Chargeable(s, month, e)) \in Nat
    BY <2>1, <2>3, <2>6, SetsOfCalls DEF TypeOK
  <2>9. QED BY <2>3, <2>4, <2>5, <2>7, <2>8
<1>2. QED BY <1>1, UsageInvariant, PTL DEF Spec, RefusedOnlyAtLimit

-----------------------------------------------------------------------------
(* The rollup reconciles.                                                   *)

\* Nothing the retention job deleted is a call still to be recorded.
PurgedWereDated == \A c \in purged : dated[c] # 0

Stored(s, e) == Cardinality(Events(s, rollMonth, e))

\* In the month it runs for, a rollup has counted no event too many, and a row
\* it decided to leave alone agrees with its count unless a record came after.
KeptRowsAgree ==
  rolling /\ month = rollMonth =>
    \A s \in Sub :
      /\ \A e \in Endpoint : tally[s][e] <= Stored(s, e)
      /\ tally[s] # NoCounts /\ s # cur /\ s \notin stale \union absent
           => \/ ledger[<<s, rollMonth>>] = tally[s]
              \/ \E e \in Endpoint : tally[s][e] < Stored(s, e)

RollInv == PurgedWereDated /\ rollMonth <= month /\ KeptRowsAgree

\* At the start there is nothing to purge or to roll up.
LEMMA RollInit == Init => RollInv
  BY DEF Init, RollInv, PurgedWereDated, KeptRowsAgree

\* Every step keeps purged events among those that were recorded.
LEMMA PurgedStep == UsageInv /\ RollInv /\ [Next]_vars => PurgedWereDated'
<1> SUFFICES ASSUME UsageInv, RollInv, [Next]_vars, NEW c \in purged' PROVE dated'[c] # 0
  BY DEF PurgedWereDated
<1>1. TypeOK /\ CallsInOrder /\ PurgedWereDated
  BY DEF UsageInv, RollInv
<1>2. CASE c \in purged
  <2>1. c \in Call /\ dated[c] # 0 /\ pc[c] = "recorded"
    BY <1>1, <1>2 DEF TypeOK, PurgedWereDated, CallsInOrder
  <2>2. QED
    BY <1>1, <2>1, CallSteps DEF CheckQuota, Unmetered, ReadLedger, StoreUsage,
       DuplicateRow, RecordFails
<1>3. CASE c \notin purged
  <2>1. CleanupOldUsageEvents
    BY <1>3 DEF Next, vars, callVars, rollVars, CheckQuota, Unmetered, ReadLedger,
       StoreUsage, DuplicateRow, RecordFails, RollupCount, SubmitMetered, StripeWebhook,
       RollupStart, RollupCompare, RollupCommit, RollupAbort, NextMonth
  <2>2. dated'[c] = dated[c] /\ dated[c] > 0
    BY <1>3, <2>1 DEF CleanupOldUsageEvents, callVars
  <2>3. QED BY <2>2
<1>4. QED BY <1>2, <1>3

\* Every step keeps the month being rolled up behind the current one.
LEMMA RollMonthStep == UsageInv /\ RollInv /\ [Next]_vars => (rollMonth <= month)'
<1> SUFFICES ASSUME UsageInv, RollInv, [Next]_vars PROVE rollMonth' <= month'
  OBVIOUS
<1>1. month \in Int /\ rollMonth \in Int /\ rollMonth <= month
  BY DEF UsageInv, TypeOK, RollInv, Month
<1>2. CASE NextMonth
  BY <1>1, <1>2 DEF NextMonth
<1>3. CASE UNCHANGED <<month, rollMonth>>
  BY <1>1, <1>3
<1>4. CASE rollMonth' = month /\ month' = month
  BY <1>1, <1>4
<1>5. QED
  BY <1>2, <1>3, <1>4 DEF Next, vars, callVars, rollVars, CheckQuota, Unmetered,
     ReadLedger, StoreUsage, DuplicateRow, RecordFails, RollupCount, SubmitMetered,
     StripeWebhook, RollupStart, RollupCompare, RollupCommit, RollupAbort, RollupEnds,
     CleanupOldUsageEvents

\* A record of this month adds its event to its subscription's, and no other.
LEMMA StoreAddsEvent ==
  ASSUME TypeOK, CallsInOrder, PurgedWereDated, NEW c \in Call, StoreUsage(c),
         rollMonth = month, NEW s, NEW e
  PROVE  /\ s = SubOf[c] /\ e = EndpointOf[c] => Stored(s, e)' = Stored(s, e) + 1
         /\ s # SubOf[c] \/ e # EndpointOf[c] => Stored(s, e)' = Stored(s, e)
<1> DEFINE E == Events(s, month, e)
           F == {d \in Call : /\ dated'[d] = month /\ d \notin purged
                              /\ SubOf[d] = s /\ EndpointOf[d] = e}
<1>1. Stored(s, e) = Cardinality(E) /\ Stored(s, e)' = Cardinality(F)
  BY DEF StoreUsage, Stored, Events, rollVars
<1>2. /\ dated[c] = 0 /\ dated'[c] = month /\ month # 0
      /\ \A d \in Call : d # c => dated'[d] = dated[d]
  BY DEF StoreUsage, TypeOK, CallsInOrder, Month
<1>3. c \notin purged /\ c \notin E
  BY <1>2 DEF PurgedWereDated, Events
<1>4. ASSUME s = SubOf[c], e = EndpointOf[c] PROVE Stored(s, e)' = Stored(s, e) + 1
  <2>1. F = E \union {c}
    BY <1>2, <1>3, <1>4 DEF Events
  <2>2. QED BY <1>1, <1>3, <2>1, SetsOfCalls, FS_AddElement
<1>5. ASSUME s # SubOf[c] \/ e # EndpointOf[c] PROVE Stored(s, e)' = Stored(s, e)
  <2>1. F = E
    BY <1>2, <1>5 DEF Events
  <2>2. QED BY <1>1, <2>1
<1>6. QED BY <1>4, <1>5

\* The retention job deletes nothing of the current month.
LEMMA RetentionKeepsMonth ==
  ASSUME TypeOK, CleanupOldUsageEvents, rollMonth = month, NEW s, NEW e
  PROVE  Stored(s, e)' = Stored(s, e)
<1>1. month \in Int /\ Retention \in Nat
  BY MonthAssumption DEF TypeOK, Month
<1>2. \A c \in Call : dated[c] = month => (c \in purged' <=> c \in purged)
  BY <1>1 DEF CleanupOldUsageEvents
<1>3. {c \in Call : dated[c] = month /\ c \notin purged /\ SubOf[c] = s /\ EndpointOf[c] = e}
      = {c \in Call : dated[c] = month /\ c \notin purged' /\ SubOf[c] = s /\ EndpointOf[c] = e}
  BY <1>2
<1>4. QED BY <1>3 DEF CleanupOldUsageEvents, Stored, Events, callVars, rollVars

\* Every step keeps the counts of a rollup, and the rows it left alone, within what is stored.
LEMMA KeptRowsStep == UsageInv /\ RollInv /\ [Next]_vars => KeptRowsAgree'
<1> SUFFICES ASSUME UsageInv, RollInv, [Next]_vars, rolling', month' = rollMonth',
                    NEW s \in Sub
             PROVE  /\ \A e \in Endpoint : tally'[s][e] <= Stored(s, e)'
                    /\ tally'[s] # NoCounts /\ s # cur' /\ s \notin stale' \union absent'
                         => \/ ledger'[<<s, rollMonth'>>] = tally'[s]
                            \/ \E e \in Endpoint : tally'[s][e] < Stored(s, e)'
  BY DEF KeptRowsAgree, NoCounts
<1>1. /\ TypeOK /\ CallsInOrder /\ TallyIsBacked
      /\ PurgedWereDated /\ rollMonth <= month /\ KeptRowsAgree
  BY DEF UsageInv, RollInv
<1>2. \A e \in Endpoint : /\ Stored(s, e) \in Nat /\ tally[s][e] \in Nat
  BY <1>1, SetsOfCalls DEF Stored, TypeOK
<1> DEFINE Counted == /\ \A e \in Endpoint : tally[s][e] <= Stored(s, e)
                      /\ tally[s] # NoCounts /\ s # cur /\ s \notin stale \union absent
                           => \/ ledger[<<s, rollMonth>>] = tally[s]
                              \/ \E e \in Endpoint : tally[s][e] < Stored(s, e)
<1>3. rolling /\ month = rollMonth => Counted
  BY <1>1 DEF KeptRowsAgree
<1>4. ASSUME UNCHANGED <<month, rollVars>> PROVE rolling /\ month = rollMonth
  BY <1>4 DEF rollVars
<1>5. ASSUME UNCHANGED <<month, callVars, purged, rollVars, ledger>>
      PROVE  Counted'
  <2>1. Counted
    BY <1>3, <1>4, <1>5
  <2>2. \A e : Stored(s, e)' = Stored(s, e)
    BY <1>5 DEF Stored, Events, callVars, rollVars
  <2>3. QED BY <1>5, <2>1, <2>2 DEF rollVars, NoCounts
<1>6. ASSUME NEW c \in Call, StoreUsage(c) PROVE Counted'
  <2>1. rolling /\ month = rollMonth /\ UNCHANGED rollVars
    BY <1>4, <1>6 DEF StoreUsage
  <2>2. Counted
    BY <1>3, <2>1
  <2>3. CASE s = SubOf[c]
    <3>1. \A e \in Endpoint : Stored(s, e)' = Stored(s, e) \/ Stored(s, e)' = Stored(s, e) + 1
      BY <1>1, <1>6, <2>1, StoreAddsEvent
    <3>2. Stored(s, EndpointOf[c])' = Stored(s, EndpointOf[c]) + 1
      BY <1>1, <1>6, <2>1, <2>3, StoreAddsEvent
    <3>3. \A e \in Endpoint : tally'[s][e] <= Stored(s, e)'
      BY <1>2, <2>1, <2>2, <3>1 DEF rollVars
    <3>4. tally'[s][EndpointOf[c]] < Stored(s, EndpointOf[c])'
      BY <1>2, <2>1, <2>2, <3>2, EndpointOfAssumption DEF rollVars
    <3>5. QED BY <3>3, <3>4, EndpointOfAssumption
  <2>4. CASE s # SubOf[c]
    <3>1. \A e : Stored(s, e)' = Stored(s, e)
      BY <1>1, <1>6, <2>1, <2>4, StoreAddsEvent
    <3>2. ledger'[<<s, rollMonth>>] = ledger[<<s, rollMonth>>]
      <4>1. <<s, rollMonth>> # <<SubOf[c], bucket[c]>>
        BY <2>4
      <4>2. <<s, rollMonth>> \in Row
        BY <1>1 DEF Row, TypeOK
      <4>3. ledger \in [Row -> [Endpoint -> Nat]]
        BY <1>1 DEF TypeOK
      <4>4. QED BY <1>6, <4>1, <4>2, <4>3 DEF StoreUsage
    <3>3. QED BY <2>1, <2>2, <3>1, <3>2 DEF rollVars, NoCounts
  <2>5. QED BY <2>3, <2>4
<1>7. CASE RollupStart
  <2>1. \A e : Stored(s, e)' = Cardinality(Events(s, month, e))
    BY <1>7 DEF RollupStart, Stored, Events, callVars
  <2>2. tally'[s] = NoCounts
    BY <1>1, <1>7 DEF RollupStart, TallyIsBacked
  <2>3. \A e \in Endpoint : 0 <= Stored(s, e)'
    BY <2>1, SetsOfCalls
  <2>4. QED BY <2>2, <2>3 DEF NoCounts
<1>8. ASSUME NEW x \in Sub, RollupCount(x) PROVE Counted'
  <2>1. rolling /\ month = rollMonth /\ rollMonth' = rollMonth
    BY <1>8 DEF RollupCount
  <2>2. Counted
    BY <1>3, <2>1
  <2>3. \A e : Stored(s, e)' = Stored(s, e)
    BY <1>8 DEF RollupCount, Stored, Events, callVars
  <2>4. CASE s = x
    <3>1. \A e \in Endpoint : tally'[s][e] = Stored(s, e)
      BY <1>1, <1>8, <2>4 DEF RollupCount, TypeOK, Stored
    <3>2. cur' = s
      BY <1>8, <2>4 DEF RollupCount
    <3>3. QED BY <1>2, <2>3, <3>1, <3>2
  <2>5. CASE s # x
    <3>1. /\ tally'[s] = tally[s] /\ cur = None
          /\ UNCHANGED <<ledger, stale, absent>>
      BY <1>1, <1>8, <2>5 DEF RollupCount, TypeOK
    <3>2. s # cur
      BY <3>1, NoneAssumption
    <3>3. QED BY <2>1, <2>2, <2>3, <3>1, <3>2 DEF NoCounts
  <2>6. QED BY <2>4, <2>5
<1>9. CASE RollupCompare
  <2>1. /\ rolling /\ month = rollMonth
        /\ UNCHANGED <<rollMonth, tally, ledger>>
    BY <1>9 DEF RollupCompare
  <2>2. Counted
    BY <1>3, <2>1
  <2>3. \A e : Stored(s, e)' = Stored(s, e)
    BY <1>9 DEF RollupCompare, Stored, Events, callVars
  <2>4. stale \subseteq stale' /\ absent \subseteq absent'
    BY <1>9 DEF RollupCompare
  <2>5. CASE s = cur
    <3>1. s \notin stale' \union absent' => ledger[<<s, rollMonth>>] = tally[s]
      BY <1>9, <2>5 DEF RollupCompare
    <3>2. QED BY <2>1, <2>2, <2>3, <3>1
  <2>6. CASE s # cur
    BY <2>1, <2>2, <2>3, <2>4, <2>6 DEF NoCounts
  <2>7. QED BY <2>5, <2>6
<1>10. CASE CleanupOldUsageEvents
  <2>1. rolling /\ month = rollMonth /\ UNCHANGED <<rollVars, ledger>>
    BY <1>4, <1>10 DEF CleanupOldUsageEvents
  <2>2. Counted
    BY <1>3, <2>1
  <2>3. \A e : Stored(s, e)' = Stored(s, e)
    BY <1>1, <1>10, <2>1, RetentionKeepsMonth
  <2>4. QED BY <2>1, <2>2, <2>3 DEF rollVars, NoCounts
<1>11. CASE NextMonth
  <2>1. rolling /\ rollMonth' = rollMonth /\ month' = month + 1
    BY <1>11 DEF NextMonth
  <2>2. month \in Int /\ rollMonth \in Int
    BY <1>1 DEF TypeOK, Month
  <2>3. QED BY <1>1, <2>1, <2>2
<1>12. CASE RollupCommit \/ RollupAbort
  BY <1>12 DEF RollupCommit, RollupAbort, RollupEnds
<1>13. \/ UNCHANGED <<month, callVars, purged, rollVars, ledger>>
       \/ \E c \in Call : StoreUsage(c) \/ CheckQuota(c) \/ Unmetered(c)
                            \/ ReadLedger(c) \/ DuplicateRow(c) \/ RecordFails(c)
       \/ \E x \in Sub : RollupCount(x)
       \/ RollupStart \/ RollupCompare \/ RollupCommit \/ RollupAbort
       \/ CleanupOldUsageEvents \/ NextMonth
  BY DEF Next, vars, SubmitMetered, StripeWebhook
<1>14. ASSUME NEW c \in Call,
              CheckQuota(c) \/ Unmetered(c) \/ ReadLedger(c) \/ DuplicateRow(c) \/ RecordFails(c)
       PROVE  Counted'
  <2>1. UNCHANGED <<month, dated, purged, rollVars, ledger>>
    BY <1>14 DEF CheckQuota, Unmetered, ReadLedger, DuplicateRow, RecordFails
  <2>2. Counted
    BY <1>3, <1>4, <2>1
  <2>3. \A e : Stored(s, e)' = Stored(s, e)
    BY <2>1 DEF Stored, Events, rollVars
  <2>4. QED BY <2>1, <2>2, <2>3 DEF rollVars, NoCounts
<1>15. QED
  BY <1>5, <1>6, <1>7, <1>8, <1>9, <1>10, <1>11, <1>12, <1>13, <1>14

\* Every step keeps the three.
LEMMA RollStep == UsageInv /\ RollInv /\ [Next]_vars => RollInv'
  BY PurgedStep, RollMonthStep, KeptRowsStep DEF RollInv

\* However recorders, the retention job and Stripe interleave with it, a rollup
\* that commits in its month, and that no record overtook after it counted,
\* leaves every counter equal to the events, those it did not have to write
\* included (nightly_usage_rollup).
THEOREM RollupsReconcile == Spec => RollupReconciles
<1> DEFINE A == RollupCommit /\ month = rollMonth /\ (\A s \in Sub : tally[s] = EventCounts(s))
                  => \A s \in Sub : EventCounts(s) # NoCounts =>
                       ledger'[<<s, rollMonth>>] = EventCounts(s)
<1>1. UsageInv /\ RollInv => A
  <2> SUFFICES ASSUME UsageInv, RollInv, RollupCommit, month = rollMonth,
                      NEW s \in Sub, tally[s] = EventCounts(s), EventCounts(s) # NoCounts
               PROVE  ledger'[<<s, rollMonth>>] = tally[s]
    OBVIOUS
  <2>1. rolling /\ cur = None /\ s # cur
    BY NoneAssumption DEF RollupCommit
  <2>2. <<s, rollMonth>> \in Row
    BY DEF UsageInv, TypeOK, Row
  <2>3. CASE s \in stale \union absent
    BY <2>2, <2>3 DEF RollupCommit
  <2>4. CASE s \notin stale \union absent
    <3>1. \A e \in Endpoint : tally[s][e] = Stored(s, e) /\ Stored(s, e) \in Nat
      BY SetsOfCalls DEF EventCounts, Stored
    <3>2. ledger[<<s, rollMonth>>] = tally[s]
      BY <2>1, <2>4, <3>1 DEF RollInv, KeptRowsAgree
    <3>3. <<s, rollMonth>> \notin {<<x, rollMonth>> : x \in stale \union absent}
      BY <2>4
    <3>4. QED BY <2>2, <3>2, <3>3 DEF RollupCommit
  <2>5. QED BY <2>3, <2>4
<1>2. Spec => []RollInv
  BY UsageInvariant, RollInit, RollStep, PTL DEF Spec
<1>3. QED BY <1>1, <1>2, UsageInvariant, PTL DEF RollupReconciles
=============================================================================
