------------------------- MODULE EntityGraphProofs -------------------------
(***************************************************************************)
(* Proofs about EntityGraph for any entities, readers and writers: when a  *)
(* cached risk may be stale, and what becomes of every write.              *)
(***************************************************************************)
EXTENDS EntityGraph, FiniteSetTheorems, SequenceTheorems, TLAPS

\* Where a process can stand, and what it has in hand there.
ReaderHand(r) ==
  /\ graphPc[r] \in {"new", "asking", "lookup", "caching", "done"}
  /\ graphPc[r] = "caching" => inHand[r] \in 1..20
WriterHand(w) ==
  /\ graphPc[w] \in {"new", "writing", "invalidating", "buffering", "done"}
  /\ graphPc[w] # "done" => inHand[w] \in EntityWrite \union LinkWrite
DrainerHand ==
  /\ graphPc[Drainer] \in {"new", "popping", "writing", "invalidating", "buffering"}
  /\ graphPc[Drainer] \in {"writing", "invalidating", "buffering"} =>
       inHand[Drainer] \in EntityWrite

Hands ==
  /\ inHand \in [Reader \union Process -> EntityWrite \union LinkWrite \union 0..20 \union {NoValue}]
  /\ \A r \in Reader : ReaderHand(r)
  /\ \A w \in Writer : WriterHand(w)
  /\ DrainerHand
  /\ \A p \in Process : graphPc[p] = "invalidating" => inHand[p] \in EntityWrite

Accounts ==
  /\ issued \in [Entity -> Nat] /\ gone \in [Entity -> Nat] /\ again \in [Entity -> Nat]

GraphTypes ==
  /\ GraphTypeOK /\ Hands /\ Accounts
  /\ reading \in [Reader -> Request]
  /\ IsFiniteSet(DOMAIN links)

-----------------------------------------------------------------------------
(* Operators.                                                               *)
LEMMA MinOfTwo ==
  ASSUME NEW i \in Int, NEW j \in Int
  PROVE  Min({i, j}) = IF i <= j THEN i ELSE j
BY DEF Min

\* The larger of two numbers, without a choice.
LEMMA MaxOfTwo ==
  ASSUME NEW i \in Int, NEW j \in Int
  PROVE  Max({i, j}) = IF i >= j THEN i ELSE j
BY DEF Max

\* What the two kinds of writes carry.
LEMMA Writes ==
  /\ \A w \in EntityWrite : w.op = "add_entity" /\ w.entity \in Entity /\ w.risk \in 0..20
  /\ \A w \in LinkWrite : w.op = "add_session_link" /\ w.ends \subseteq Entity
BY DEF EntityWrite, LinkWrite

\* An entity has finitely many links, as each is a pair of its own.
LEMMA LinkedFinite ==
  ASSUME IsFiniteSet(DOMAIN links), NEW e \in Entity
  PROVE  IsFiniteSet(Linked(e)) /\ Cardinality(Linked(e)) \in Nat
<1> DEFINE pair == [f \in Linked(e) |-> {e, f}]
<1>1. pair \in Injection(Linked(e), DOMAIN links)
  <2>1. pair \in [Linked(e) -> DOMAIN links]
    BY DEF Linked
  <2>2. \A f, g \in Linked(e) : pair[f] = pair[g] => f = g
    BY DEF Linked
  <2>3. QED BY <2>1, <2>2 DEF Injection, IsInjective
<1>2. QED BY <1>1, FS_Injection, FS_CardinalityType

\* The risk of an entity is at most 1.0 and at least what its node carries.
LEMMA RiskBounds ==
  ASSUME GraphTypeOK, IsFiniteSet(DOMAIN links), NEW e \in Entity
  PROVE  /\ EntityRisk(e) \in 0..20
         /\ e \in Known => node[e].base <= EntityRisk(e)
<1>1. CASE node[e] = NoNode
  BY <1>1 DEF EntityRisk, Known
<1>2. CASE node[e] # NoNode
  <2>1. node[e].base \in 0..20
    BY <1>2 DEF GraphTypeOK
  <2>2. Cardinality(Linked(e)) \in Nat
    BY LinkedFinite
  <2>3. PICK boost \in 0..6 : boost = Min({6, Cardinality(Linked(e))})
    BY <2>2, MinOfTwo
  <2>4. EntityRisk(e) = IF 20 <= node[e].base + boost THEN 20 ELSE node[e].base + boost
    <3>1. EntityRisk(e) = Min({20, node[e].base + boost})
      BY <1>2, <2>3 DEF EntityRisk
    <3>2. QED BY <2>1, <3>1, MinOfTwo
  <2>5. QED BY <2>1, <2>4
<1>3. QED BY <1>1, <1>2

\* Merging keeps a node's type, never lowers its risk and counts one more report.
LEMMA MergedNode ==
  ASSUME NEW n \in [base : 0..20, count : Nat] \union {NoNode}, NEW w \in EntityWrite
  PROVE  /\ Merged(n, w) \in [base : 0..20, count : Nat]
         /\ Reports(Merged(n, w)) = Reports(n) + 1
         /\ Reports(n) \in Nat
<1>1. w.risk \in 0..20
  BY Writes
<1>2. CASE n = NoNode
  BY <1>1, <1>2, GraphValuesAssumption DEF Merged, Reports
<1>3. CASE n # NoNode
  <2>1. n.base \in 0..20 /\ n.count \in Nat
    BY <1>3
  <2>2. Max({n.base, w.risk}) \in 0..20
    BY <1>1, <2>1, MaxOfTwo
  <2>3. Merged(n, w) = [base |-> Max({n.base, w.risk}), count |-> n.count + 1]
    BY <1>3 DEF Merged
  <2>4. QED BY <1>3, <2>1, <2>2, <2>3, GraphValuesAssumption DEF Reports
<1>4. QED BY <1>2, <1>3

\* A merged link joins entities and has been seen once more.
LEMMA MergedLinks ==
  ASSUME GraphTypeOK, IsFiniteSet(DOMAIN links), NEW w \in LinkWrite,
         links' = LinkMerged(links, w)
  PROVE  /\ \A p \in DOMAIN links' : p \subseteq Entity /\ links'[p] \in Nat \ {0}
         /\ IsFiniteSet(DOMAIN links')
<1>1. w.ends \subseteq Entity
  BY Writes
<1>2. CASE w.ends \subseteq Known
  <2>1. DOMAIN links' = DOMAIN links \union {w.ends}
    BY <1>2 DEF LinkMerged
  <2>2. IsFiniteSet(DOMAIN links')
    BY <2>1, FS_AddElement
  <2>3. ASSUME NEW p \in DOMAIN links' PROVE p \subseteq Entity /\ links'[p] \in Nat \ {0}
    <3>1. links'[p] = IF p = w.ends THEN (IF p \in DOMAIN links THEN links[p] + 1 ELSE 1)
                      ELSE links[p]
      BY <1>2, <2>1, <2>3 DEF LinkMerged
    <3>2. p \in DOMAIN links => p \subseteq Entity /\ links[p] \in Nat \ {0}
      BY DEF GraphTypeOK
    <3>3. QED BY <1>1, <2>1, <3>1, <3>2
  <2>4. QED BY <2>2, <2>3
<1>3. CASE ~ (w.ends \subseteq Known)
  BY <1>3 DEF LinkMerged, GraphTypeOK
<1>4. QED BY <1>2, <1>3
-----------------------------------------------------------------------------
(* Types and hands.                                                         *)
LEMMA GraphTypesInit == GraphInit => GraphTypes
<1> SUFFICES ASSUME GraphInit PROVE GraphTypes
  OBVIOUS
<1> USE DEF GraphInit
<1>1. PICK job \in [Writer -> WriteJob] :
        inHand = [p \in Reader \union Process |-> IF p \in Writer THEN job[p] ELSE NoValue]
  OBVIOUS
<1>2. IsFiniteSet(DOMAIN links) /\ DOMAIN links = {} /\ backlog \in Seq(EntityWrite \union LinkWrite)
  BY FS_EmptySet
<1>3. GraphTypeOK
  BY <1>2, GraphValuesAssumption DEF GraphTypeOK, FreshGraph
<1>4. Hands
  BY <1>1, WriterAssumption DEF Hands, ReaderHand, WriterHand, DrainerHand, Process
<1>5. QED BY <1>2, <1>3, <1>4 DEF GraphTypes, Accounts

\* A step of one process leaves the hands of the others as they are.
LEMMA HandsStep ==
  ASSUME Hands, NEW p \in Reader \union Process, NEW where,
         Go(p, where), GraphTypeOK,
         inHand' \in [Reader \union Process -> EntityWrite \union LinkWrite \union 0..20 \union {NoValue}],
         \A q \in Reader \union Process : q # p => inHand'[q] = inHand[q],
         p \in Reader => ReaderHand(p)', p \in Writer => WriterHand(p)',
         p = Drainer => DrainerHand',
         p \in Process /\ where = "invalidating" => inHand'[p] \in EntityWrite
  PROVE  Hands'
<1>1. /\ graphPc'[p] = where
      /\ \A q \in Reader \union Process : q # p => graphPc'[q] = graphPc[q]
  BY DEF Go, GraphTypeOK
<1>2. \A r \in Reader : ReaderHand(r)'
  BY <1>1 DEF Hands, ReaderHand
<1>3. \A w \in Writer : WriterHand(w)'
  BY <1>1 DEF Hands, WriterHand, Process
<1>4. DrainerHand'
  BY <1>1 DEF Hands, DrainerHand, Process
<1>5. \A q \in Process : graphPc'[q] = "invalidating" => inHand'[q] \in EntityWrite
  BY <1>1 DEF Hands
<1>6. QED BY <1>2, <1>3, <1>4, <1>5 DEF Hands

\* The drainer is neither a writer nor a reader, and readers do not write.
LEMMA Disjoint ==
  Drainer \in Process /\ Drainer \notin Writer /\ \A p \in Process : p \notin Reader
BY WriterAssumption DEF Process

\* What leaves the stores, hands and accounts alone.
Frame == UNCHANGED <<node, links, backlog, conn, inHand, reading, raced, accountVars>>

\* A reader that asks, hits the cache or times out leaves everything but itself alone.
LEMMA ReaderStep ==
  ASSUME GraphTypes, NEW r \in Reader,
         \/ AskRisk(r) \/ AskNeighborhood(r) \/ Visualize(r) \/ AskPath(r)
         \/ QueryTimesOut(r) \/ CacheHit(r)
  PROVE  /\ GraphTypes' /\ Frame /\ riskCache' = riskCache
         /\ Go(r, "lookup") \/ Go(r, "done")
<1>1. /\ Frame /\ UNCHANGED <<neo4jUp, everDown, riskCache>>
      /\ graphPc[r] # "caching"
      /\ Go(r, "lookup") \/ Go(r, "done")
  BY DEF AskRisk, AskNeighborhood, Visualize, AskPath, QueryTimesOut, CacheHit, Frame, Asks,
     Answered, Collected, storeVars, readVars, accountVars
<1>2. PICK where \in {"lookup", "done"} : Go(r, where)
  BY <1>1
<1>3. GraphTypeOK'
  BY <1>1, <1>2 DEF GraphTypes, GraphTypeOK, Frame, Go
<1>4. Hands'
  <2>1. ReaderHand(r)'
    BY <1>2 DEF ReaderHand, Go, GraphTypes, GraphTypeOK
  <2>2. inHand' = inHand /\ where # "invalidating" /\ r \notin Process
    BY <1>1, Disjoint DEF Frame
  <2>3. QED BY <1>2, <2>1, <2>2, HandsStep, Disjoint DEF GraphTypes, Hands, Process
<1>5. QED BY <1>1, <1>3, <1>4 DEF GraphTypes, Frame, accountVars, Accounts

\* Readers and writers that get a connection, or none, keep the types.
LEMMA ConnectStep ==
  ASSUME GraphTypes, NEW p \in Reader \union Process, Connect(p)
  PROVE  GraphTypes'
<1>1. PICK where \in {"asking", "popping", "writing"} :
        /\ Go(p, where)
        /\ p \in Reader => where = "asking"
        /\ p \in Writer => where = "writing"
        /\ p = Drainer => where = "popping"
  BY Disjoint DEF Connect, Process
<1>2. UNCHANGED <<storeVars, inHand, reading, raced, everDown>> /\ graphPc[p] = "new"
  BY DEF Connect, readVars
<1>3. GraphTypeOK'
  <2>1. conn' \in [Reader \union Process -> [neo4j : BOOLEAN, redis : BOOLEAN]]
    BY DEF Connect, GraphTypes, GraphTypeOK
  <2>2. QED BY <1>1, <1>2, <2>1 DEF GraphTypes, GraphTypeOK, storeVars, Go
<1>4. Hands'
  <2>1. graphPc'[p] = where
    BY <1>1 DEF Go, GraphTypes, GraphTypeOK
  <2>2. (p \in Reader => ReaderHand(p)') /\ (p \in Writer => WriterHand(p)') /\ (p = Drainer => DrainerHand')
    BY <1>1, <1>2, <2>1 DEF GraphTypes, Hands, ReaderHand, WriterHand, DrainerHand
  <2>3. QED BY <1>1, <1>2, <2>2, HandsStep DEF GraphTypes, Hands
<1>5. Accounts'
  <2>1. gone' = gone /\ again' = again
    BY DEF Connect
  <2>2. CASE p \in Writer /\ inHand[p].op = "add_entity"
    <3>1. inHand[p].entity \in Entity
      BY <1>2, <2>2, Writes DEF GraphTypes, Hands, WriterHand
    <3>2. issued' = [issued EXCEPT ![inHand[p].entity] = @ + 1]
      BY <2>2 DEF Connect
    <3>3. QED BY <2>1, <3>1, <3>2 DEF GraphTypes, Accounts
  <2>3. CASE ~ (p \in Writer /\ inHand[p].op = "add_entity")
    BY <2>1, <2>3 DEF Connect, GraphTypes, Accounts
  <2>4. QED BY <2>2, <2>3
<1>6. QED BY <1>2, <1>3, <1>4, <1>5 DEF GraphTypes, storeVars

\* A reader that computes a risk takes it in hand and changes nothing else.
LEMMA ComputeStep ==
  ASSUME GraphTypes, NEW r \in Reader, ComputeRisk(r)
  PROVE  /\ GraphTypes' /\ UNCHANGED <<storeVars, reading, raced, accountVars>>
         /\ \/ inHand' = inHand /\ (Go(r, "lookup") \/ Go(r, "done"))
            \/ /\ Go(r, "caching")
               /\ inHand' = [inHand EXCEPT ![r] = EntityRisk(reading[r].entity)]
<1> DEFINE e == reading[r].entity
           v == IF conn[r].neo4j /\ neo4jUp THEN EntityRisk(e) ELSE 0
<1>1. e \in Entity
  BY RequestAssumption DEF GraphTypes
<1>2. v \in 0..20
  BY <1>1, RiskBounds DEF GraphTypes
<1>3. /\ UNCHANGED <<storeVars, conn, reading, everDown, raced, accountVars>>
      /\ \/ Go(r, "caching") /\ v > 0 /\ inHand' = [inHand EXCEPT ![r] = v]
         \/ (Go(r, "lookup") \/ Go(r, "done")) /\ inHand' = inHand
  BY DEF ComputeRisk, Collected
<1>4. PICK where \in {"caching", "lookup", "done"} :
        /\ Go(r, where)
        /\ \/ where = "caching" /\ v > 0 /\ inHand' = [inHand EXCEPT ![r] = v]
           \/ where # "caching" /\ inHand' = inHand
  BY <1>3
<1> HIDE DEF v
<1>5. GraphTypeOK'
  BY <1>3, <1>4 DEF GraphTypes, GraphTypeOK, storeVars, Go
<1>6. Hands'
  <2>1. inHand' \in [Reader \union Process -> EntityWrite \union LinkWrite \union 0..20 \union {NoValue}]
    BY <1>2, <1>4 DEF GraphTypes, Hands
  <2>2. \A q \in Reader \union Process : q # r => inHand'[q] = inHand[q]
    BY <1>4 DEF GraphTypes, Hands
  <2>3. ReaderHand(r)'
    BY <1>2, <1>4 DEF ReaderHand, Go, GraphTypes, GraphTypeOK, Hands
  <2>4. r \notin Writer /\ r # Drainer /\ r \notin Process
    BY Disjoint DEF Process
  <2>5. QED BY <1>4, <2>1, <2>2, <2>3, <2>4, HandsStep DEF GraphTypes
<1>7. GraphTypes'
  BY <1>3, <1>5, <1>6 DEF GraphTypes, storeVars, accountVars, Accounts
<1>8. v > 0 => v = EntityRisk(e)
  BY DEF v
<1>9. QED BY <1>3, <1>4, <1>7, <1>8

\* A reader that caches the risk in its hand keeps the types.
LEMMA CacheStep ==
  ASSUME GraphTypes, NEW r \in Reader, CacheRisk(r)
  PROVE  GraphTypes'
<1>1. /\ UNCHANGED <<neo4jUp, node, links, backlog, conn, reading, everDown, raced, accountVars>>
      /\ graphPc[r] = "caching"
      /\ inHand' = [inHand EXCEPT ![r] = NoValue]
      /\ riskCache' = riskCache \/ riskCache' = [riskCache EXCEPT ![reading[r].entity] = inHand[r]]
  BY DEF CacheRisk
<1>2. PICK where \in {"lookup", "done"} : Go(r, where)
  BY DEF CacheRisk, Collected
<1>3. GraphTypeOK'
  <2>1. inHand[r] \in 1..20
    BY <1>1 DEF GraphTypes, Hands, ReaderHand
  <2>2. riskCache' \in [Entity -> 1..20 \union {NoValue}]
    BY <1>1, <2>1 DEF GraphTypes, GraphTypeOK
  <2>3. QED BY <1>1, <1>2, <2>2 DEF GraphTypes, GraphTypeOK, Go
<1>4. Hands'
  <2>1. inHand' \in [Reader \union Process -> EntityWrite \union LinkWrite \union 0..20 \union {NoValue}]
    BY <1>1 DEF GraphTypes, Hands
  <2>2. \A q \in Reader \union Process : q # r => inHand'[q] = inHand[q]
    BY <1>1 DEF GraphTypes, Hands
  <2>3. ReaderHand(r)'
    BY <1>2 DEF ReaderHand, Go, GraphTypes, GraphTypeOK
  <2>4. r \notin Writer /\ r # Drainer /\ r \notin Process
    BY Disjoint DEF Process
  <2>5. QED BY <1>2, <2>1, <2>2, <2>3, <2>4, HandsStep DEF GraphTypes
<1>5. QED BY <1>1, <1>3, <1>4 DEF GraphTypes, accountVars, Accounts

\* Whoever has a write to make or to buffer has one in hand.
LEMMA WriteInHand ==
  ASSUME GraphTypes, NEW p \in Process, graphPc[p] \in {"writing", "buffering", "invalidating"}
  PROVE  inHand[p] \in EntityWrite \union LinkWrite
BY DEF GraphTypes, Hands, WriterHand, DrainerHand, Process

\* A process that has finished a write leaves the hands of the others as they are.
LEMMA FinishedHands ==
  ASSUME GraphTypes, NEW p \in Process, Finished(p)
  PROVE  /\ Hands'
         /\ graphPc' = [graphPc EXCEPT ![p] = IF p = Drainer THEN "popping" ELSE "done"]
<1> DEFINE where == IF p = Drainer THEN "popping" ELSE "done"
<1>1. Go(p, where) /\ inHand' = [inHand EXCEPT ![p] = NoValue]
  BY DEF Finished
<1>2. /\ inHand' \in [Reader \union Process -> EntityWrite \union LinkWrite \union 0..20 \union {NoValue}]
      /\ \A q \in Reader \union Process : q # p => inHand'[q] = inHand[q]
  BY <1>1 DEF GraphTypes, Hands
<1>3. graphPc'[p] = where /\ where # "invalidating" /\ p \notin Reader
  BY <1>1, Disjoint DEF Go, GraphTypes, GraphTypeOK
<1>4. (p \in Writer => WriterHand(p)') /\ (p = Drainer => DrainerHand')
  BY <1>3, Disjoint DEF WriterHand, DrainerHand
<1>5. Hands'
  <2> HIDE DEF where
  <2>1. QED BY <1>1, <1>2, <1>3, <1>4, HandsStep DEF GraphTypes
<1>6. QED BY <1>1, <1>5 DEF Go

\* A write given up is counted for its entity alone.
LEMMA GaveUp ==
  ASSUME GraphTypes, NEW w \in EntityWrite \union LinkWrite, GiveUp(w)
  PROVE  /\ gone' \in [Entity -> Nat]
         /\ \A e \in Entity : gone'[e] = IF w.op = "add_entity" /\ w.entity = e
                                         THEN gone[e] + 1 ELSE gone[e]
BY Writes DEF GiveUp, GraphTypes, Accounts

\* An applied write merges its node, or its link, and marks a race it has lost.
LEMMA AppliedWrite ==
  ASSUME GraphTypes, NEW w \in EntityWrite \union LinkWrite, NEW answered \in BOOLEAN,
         Applied(w, answered)
  PROVE  /\ node' \in [Entity -> [base : 0..20, count : Nat] \union {NoNode}]
         /\ \A q \in DOMAIN links' : q \subseteq Entity /\ links'[q] \in Nat \ {0}
         /\ IsFiniteSet(DOMAIN links')
         /\ raced \subseteq raced' /\ raced' \subseteq Entity
         /\ \A e \in Entity :
              IF w.op = "add_entity" /\ w.entity = e
              THEN /\ node'[e] = Merged(node[e], w) /\ w \in EntityWrite
                   /\ e \in raced' \/ (answered /\ ~ Overtaken(e))
              ELSE node'[e] = node[e]
<1>1. CASE w \in EntityWrite
  <2>1. /\ w.op = "add_entity" /\ w.entity \in Entity
        /\ node' = [node EXCEPT ![w.entity] = Merged(@, w)] /\ links' = links
        /\ raced' = IF Overtaken(w.entity) \/ ~ answered THEN raced \union {w.entity} ELSE raced
    BY <1>1, Writes DEF Applied
  <2>2. Merged(node[w.entity], w) \in [base : 0..20, count : Nat]
    BY <1>1, <2>1, MergedNode DEF GraphTypes, GraphTypeOK
  <2>3. QED BY <1>1, <2>1, <2>2 DEF GraphTypes, GraphTypeOK
<1>2. CASE w \in LinkWrite
  <2>1. /\ w.op # "add_entity" /\ node' = node /\ raced' = raced
        /\ links' = LinkMerged(links, w)
    BY <1>2, Writes DEF Applied
  <2>2. QED BY <1>2, <2>1, MergedLinks DEF GraphTypes, GraphTypeOK
<1>3. QED BY <1>1, <1>2

\* A write that is applied, retried, buffered or given up keeps the types.
LEMMA WriteStep ==
  ASSUME GraphTypes, NEW p \in Process, Write(p)
  PROVE  GraphTypes'
<1> USE DEF readVars
<1>1. CASE WriteUnconnected(p)
  <2>1. /\ UNCHANGED <<storeVars, conn, readVars, everDown, raced, issued, again>>
        /\ GiveUp(inHand[p]) /\ Finished(p) /\ graphPc[p] = "writing"
    BY <1>1 DEF WriteUnconnected
  <2>2. Hands' /\ graphPc' = [graphPc EXCEPT ![p] = IF p = Drainer THEN "popping" ELSE "done"]
    BY <2>1, FinishedHands
  <2>3. gone' \in [Entity -> Nat]
    BY <2>1, GaveUp, WriteInHand
  <2>4. GraphTypeOK'
    BY <2>1, <2>2 DEF GraphTypes, GraphTypeOK, storeVars
  <2>5. QED BY <2>1, <2>2, <2>3, <2>4 DEF GraphTypes, Accounts, storeVars
<1>2. CASE WriteNeo4j(p)
  <2>1. /\ UNCHANGED <<neo4jUp, riskCache, backlog, conn, readVars, everDown, accountVars>>
        /\ Applied(inHand[p], TRUE) /\ graphPc[p] = "writing"
        /\ IF inHand[p].op = "add_entity"
           THEN Go(p, "invalidating") /\ UNCHANGED inHand
           ELSE Finished(p)
    BY <1>2 DEF WriteNeo4j
  <2>2. inHand[p] \in EntityWrite \union LinkWrite
    BY <2>1, WriteInHand
  <2>3. Hands' /\ graphPc' \in {[graphPc EXCEPT ![p] = "invalidating"],
                                [graphPc EXCEPT ![p] = "popping"], [graphPc EXCEPT ![p] = "done"]}
    <3>1. CASE inHand[p].op = "add_entity"
      <4>1. Go(p, "invalidating") /\ inHand' = inHand /\ inHand[p] \in EntityWrite
        BY <2>1, <2>2, <3>1, Writes
      <4>2. graphPc'[p] = "invalidating" /\ p \notin Reader
        BY <4>1, Disjoint DEF Go, GraphTypes, GraphTypeOK
      <4>3. (p \in Writer => WriterHand(p)') /\ (p = Drainer => DrainerHand')
        BY <4>1, <4>2 DEF WriterHand, DrainerHand
      <4>4. Hands'
        BY <4>1, <4>2, <4>3, HandsStep DEF GraphTypes, Hands
      <4>5. QED BY <4>1, <4>4 DEF Go
    <3>2. CASE inHand[p].op # "add_entity"
      BY <2>1, <3>2, FinishedHands
    <3>3. QED BY <3>1, <3>2
  <2>4. GraphTypeOK' /\ IsFiniteSet(DOMAIN links')
    BY <2>1, <2>2, <2>3, AppliedWrite DEF GraphTypes, GraphTypeOK
  <2>5. QED BY <2>1, <2>3, <2>4 DEF GraphTypes, Accounts, accountVars
<1>3. CASE WriteFails(p)
  <2>1. /\ UNCHANGED <<neo4jUp, riskCache, backlog, conn, inHand, readVars, everDown, issued, gone>>
        /\ graphPc[p] = "writing" /\ Go(p, "buffering")
    BY <1>3 DEF WriteFails
  <2>2. inHand[p] \in EntityWrite \union LinkWrite
    BY <2>1, WriteInHand
  <2>3. Hands'
    <3>1. graphPc'[p] = "buffering" /\ p \notin Reader /\ inHand' = inHand
      BY <2>1, Disjoint DEF Go, GraphTypes, GraphTypeOK
    <3>2. p = Drainer => inHand[p] \in EntityWrite
      BY <2>1 DEF GraphTypes, Hands, DrainerHand
    <3>3. (p \in Writer => WriterHand(p)') /\ (p = Drainer => DrainerHand')
      BY <2>2, <3>1, <3>2 DEF WriterHand, DrainerHand
    <3>4. QED BY <2>1, <3>1, <3>3, HandsStep DEF GraphTypes, Hands
  <2>4. /\ node' \in [Entity -> [base : 0..20, count : Nat] \union {NoNode}]
        /\ \A q \in DOMAIN links' : q \subseteq Entity /\ links'[q] \in Nat \ {0}
        /\ IsFiniteSet(DOMAIN links') /\ raced' \subseteq Entity
        /\ again' \in [Entity -> Nat]
    <3>1. CASE UNCHANGED <<node, links, raced, again>>
      BY <3>1 DEF GraphTypes, GraphTypeOK, Accounts
    <3>2. CASE /\ Applied(inHand[p], FALSE)
               /\ again' = IF inHand[p].op = "add_entity"
                           THEN [again EXCEPT ![inHand[p].entity] = @ + 1] ELSE again
      <4>1. again' \in [Entity -> Nat]
        BY <2>2, <3>2, Writes DEF GraphTypes, Accounts
      <4>2. QED BY <2>2, <3>2, <4>1, AppliedWrite
    <3>3. QED BY <1>3, <3>1, <3>2 DEF WriteFails
  <2>5. GraphTypeOK'
    BY <2>1, <2>4 DEF GraphTypes, GraphTypeOK, Go
  <2>6. QED BY <2>1, <2>3, <2>4, <2>5 DEF GraphTypes, Accounts
<1>4. CASE Invalidate(p)
  <2>1. /\ UNCHANGED <<neo4jUp, node, links, backlog, conn, readVars, everDown, accountVars>>
        /\ Finished(p) /\ graphPc[p] = "invalidating"
        /\ riskCache' = riskCache \/ riskCache' = [riskCache EXCEPT ![inHand[p].entity] = NoValue]
        /\ raced' = raced \/ raced' = raced \union {inHand[p].entity}
    BY <1>4 DEF Invalidate
  <2>2. inHand[p].entity \in Entity
    BY <2>1, Writes DEF GraphTypes, Hands
  <2>3. Hands' /\ graphPc' = [graphPc EXCEPT ![p] = IF p = Drainer THEN "popping" ELSE "done"]
    BY <2>1, FinishedHands
  <2>4. GraphTypeOK'
    BY <2>1, <2>2, <2>3 DEF GraphTypes, GraphTypeOK
  <2>5. QED BY <2>1, <2>3, <2>4 DEF GraphTypes, Accounts, accountVars
<1>5. CASE Buffer(p)
  <2>1. /\ UNCHANGED <<neo4jUp, node, links, riskCache, conn, readVars, everDown, raced, issued, again>>
        /\ Finished(p) /\ graphPc[p] = "buffering"
        /\ \/ backlog' = <<inHand[p]>> \o backlog /\ gone' = gone
           \/ GiveUp(inHand[p]) /\ backlog' = backlog
    BY <1>5 DEF Buffer
  <2>2. inHand[p] \in EntityWrite \union LinkWrite
    BY <2>1, WriteInHand
  <2>3. Hands' /\ graphPc' = [graphPc EXCEPT ![p] = IF p = Drainer THEN "popping" ELSE "done"]
    BY <2>1, FinishedHands
  <2>4. backlog' \in Seq(EntityWrite \union LinkWrite) /\ gone' \in [Entity -> Nat]
    <3>1. <<inHand[p]>> \in Seq(EntityWrite \union LinkWrite)
      BY <2>2
    <3>2. backlog \in Seq(EntityWrite \union LinkWrite) /\ gone \in [Entity -> Nat]
      BY DEF GraphTypes, GraphTypeOK, Accounts
    <3>3. <<inHand[p]>> \o backlog \in Seq(EntityWrite \union LinkWrite)
      BY <3>1, <3>2, ConcatProperties
    <3>4. QED BY <2>1, <2>2, <3>2, <3>3, GaveUp
  <2>5. GraphTypeOK'
    BY <2>1, <2>3, <2>4 DEF GraphTypes, GraphTypeOK
  <2>6. QED BY <2>1, <2>3, <2>4, <2>5 DEF GraphTypes, Accounts
<1>6. QED BY <1>1, <1>2, <1>3, <1>4, <1>5 DEF Write

\* The backlog without its last element.
LEMMA PoppedList ==
  ASSUME NEW S, backlog \in Seq(S), backlog # <<>>
  PROVE  /\ Front(backlog) \in Seq(S) /\ Last(backlog) \in S
         /\ Len(backlog) \in Nat \ {0} /\ Len(Front(backlog)) = Len(backlog) - 1
         /\ \A i \in 1..(Len(backlog) - 1) : Front(backlog)[i] = backlog[i]
<1>1. Len(backlog) \in Nat \ {0}
  BY EmptySeq
<1>2. Last(backlog) \in S
  BY <1>1 DEF Last
<1>3. Front(backlog) = SubSeq(backlog, 1, Len(backlog) - 1)
  BY DEF Front
<1>4. PICK n \in Nat : n = Len(backlog) - 1
  BY <1>1
<1>5. \A i \in 1..n : backlog[i] \in S
  BY <1>4
<1>6. /\ Front(backlog) \in Seq(S) /\ Len(Front(backlog)) = n
      /\ \A i \in 1..n : Front(backlog)[i] = backlog[i]
  BY <1>3, <1>4, <1>5
<1>7. QED BY <1>1, <1>2, <1>4, <1>6

\* The drainer takes the oldest write of the backlog.
LEMMA PopStep == ASSUME GraphTypes, Pop PROVE GraphTypes'
<1>1. /\ UNCHANGED <<neo4jUp, node, links, riskCache, conn, readVars, everDown, raced, accountVars>>
      /\ backlog' = Front(backlog) /\ backlog # <<>> /\ graphPc[Drainer] = "popping"
  BY DEF Pop
<1>2. backlog' \in Seq(EntityWrite \union LinkWrite) /\ Last(backlog) \in EntityWrite \union LinkWrite
  BY <1>1, PoppedList DEF GraphTypes, GraphTypeOK
<1>3. PICK where \in {"writing", "new"} :
        /\ Go(Drainer, where)
        /\ \/ /\ where = "writing" /\ Last(backlog) \in EntityWrite
              /\ inHand' = [inHand EXCEPT ![Drainer] = Last(backlog)]
           \/ where = "new" /\ inHand' = inHand
  BY <1>2, Writes DEF Pop
<1>4. Hands'
  <2>1. graphPc'[Drainer] = where /\ Drainer \in Process /\ Drainer \notin Writer /\ Drainer \notin Reader
    BY <1>3, Disjoint DEF Go, GraphTypes, GraphTypeOK, Process
  <2>2. /\ inHand' \in [Reader \union Process -> EntityWrite \union LinkWrite \union 0..20 \union {NoValue}]
        /\ \A q \in Reader \union Process : q # Drainer => inHand'[q] = inHand[q]
        /\ where = "writing" => inHand'[Drainer] \in EntityWrite
    BY <1>3, <2>1 DEF GraphTypes, Hands
  <2>3. DrainerHand'
    BY <2>1, <2>2 DEF DrainerHand
  <2>4. QED BY <1>3, <2>1, <2>2, <2>3, HandsStep DEF GraphTypes
<1>5. GraphTypeOK'
  BY <1>1, <1>2, <1>3 DEF GraphTypes, GraphTypeOK, Go
<1>6. QED BY <1>1, <1>4, <1>5 DEF GraphTypes, Accounts, readVars, accountVars

\* The drainer ends or dies: the types stand.
LEMMA DrainStep ==
  ASSUME GraphTypes, DrainEnds \/ DrainerDies
  PROVE  GraphTypes'
<1>1. /\ UNCHANGED <<neo4jUp, node, links, riskCache, backlog, conn, reading, everDown, issued, again>>
      /\ Go(Drainer, "new")
      /\ inHand' = inHand \/ inHand' = [inHand EXCEPT ![Drainer] = NoValue]
  BY DEF DrainEnds, DrainerDies, storeVars, readVars, accountVars
<1>2. raced' \subseteq Entity /\ gone' \in [Entity -> Nat]
  <2>1. CASE DrainEnds
    BY <2>1 DEF DrainEnds, accountVars, GraphTypes, GraphTypeOK, Accounts
  <2>2. CASE DrainerDies /\ graphPc[Drainer] = "invalidating"
    <3>1. inHand[Drainer].entity \in Entity
      BY <2>2, Disjoint, Writes DEF GraphTypes, Hands
    <3>2. QED BY <2>2, <3>1 DEF DrainerDies, GraphTypes, GraphTypeOK, Accounts
  <2>3. CASE DrainerDies /\ graphPc[Drainer] # "invalidating"
    <3>1. inHand[Drainer] \in EntityWrite \union LinkWrite
      BY <2>3, Disjoint, WriteInHand DEF DrainerDies
    <3>2. GiveUp(inHand[Drainer]) /\ raced' = raced
      BY <2>3 DEF DrainerDies
    <3>3. QED BY <3>1, <3>2, GaveUp DEF GraphTypes, GraphTypeOK
  <2>4. QED BY <2>1, <2>2, <2>3
<1>3. Hands'
  <2>1. graphPc'[Drainer] = "new" /\ Drainer \in Process /\ Drainer \notin Writer /\ Drainer \notin Reader
    BY <1>1, Disjoint DEF Go, GraphTypes, GraphTypeOK, Process
  <2>2. /\ inHand' \in [Reader \union Process -> EntityWrite \union LinkWrite \union 0..20 \union {NoValue}]
        /\ \A q \in Reader \union Process : q # Drainer => inHand'[q] = inHand[q]
    BY <1>1, <2>1 DEF GraphTypes, Hands
  <2>3. DrainerHand'
    BY <2>1 DEF DrainerHand
  <2>4. QED BY <1>1, <2>1, <2>2, <2>3, HandsStep DEF GraphTypes
<1>4. GraphTypeOK'
  BY <1>1, <1>2 DEF GraphTypes, GraphTypeOK, Go
<1>5. QED BY <1>1, <1>2, <1>3, <1>4 DEF GraphTypes, Accounts

\* Tasks, failures and expiries move no process.
StandStill == UNCHANGED <<node, links, backlog, procVars, reading, raced, accountVars>>

\* Tasks that run, Neo4j failing and returning, and expiring entries move no process.
LEMMA StandStillStep ==
  ASSUME GraphTypes,
         \/ (\E t \in Task : RunTask(t)) \/ Neo4jFails \/ Neo4jReturns
         \/ (\E e \in Entity : CacheExpires(e)) \/ UNCHANGED graphVars
  PROVE  /\ GraphTypes' /\ StandStill
         /\ \A e \in Entity : riskCache'[e] \in {riskCache[e], NoValue}
<1>1. /\ StandStill /\ neo4jUp' \in BOOLEAN /\ everDown' \in BOOLEAN
      /\ riskCache' = riskCache \/ \E e \in Entity : riskCache' = [riskCache EXCEPT ![e] = NoValue]
  BY DEF RunTask, Neo4jFails, Neo4jReturns, CacheExpires, graphVars, StandStill, storeVars, readVars,
     GraphTypes, GraphTypeOK
<1>2. GraphTypeOK'
  BY <1>1 DEF StandStill, procVars, GraphTypes, GraphTypeOK
<1>3. Hands'
  BY <1>1 DEF StandStill, procVars, GraphTypes, Hands, ReaderHand, WriterHand, DrainerHand
<1>4. \A e \in Entity : riskCache'[e] \in {riskCache[e], NoValue}
  BY <1>1 DEF GraphTypes, GraphTypeOK
<1>5. QED BY <1>1, <1>2, <1>3, <1>4 DEF StandStill, GraphTypes, Accounts, accountVars

\* Every step keeps the types.
LEMMA GraphTypesStep == GraphTypes /\ [GraphNext]_graphVars => GraphTypes'
BY ConnectStep, ReaderStep, ComputeStep, CacheStep, WriteStep, PopStep, DrainStep, StandStillStep
   DEF GraphNext

\* Nodes, links, cached risks and the backlog keep their types, and everyone has
\* in hand what the place it stands at asks for.
THEOREM GraphTypesHold == GraphSpec => []GraphTypeOK
<1>1. GraphTypes => GraphTypeOK
  BY DEF GraphTypes
<1>2. QED BY <1>1, GraphTypesInit, GraphTypesStep, PTL DEF GraphSpec

-----------------------------------------------------------------------------
(* Stale risks.                                                             *)

\* A write of the entity has yet to invalidate its cached risk.
Invalidating(e) == \E p \in Process : graphPc[p] = "invalidating" /\ inHand[p].entity = e

FreshCache(e) ==
  e \in Known /\ riskCache[e] # NoValue /\ riskCache[e] < node[e].base =>
    e \in raced \/ Invalidating(e)

\* What a reader is about to cache is stale only if a write has overtaken it.
FreshHand(r) ==
  graphPc[r] = "caching" /\ reading[r].entity \in Known =>
    inHand[r] >= node[reading[r].entity].base \/ reading[r].entity \in raced

StaleInv == GraphTypes /\ (\A e \in Entity : FreshCache(e)) /\ (\A r \in Reader : FreshHand(r))

\* At the start nothing is cached and no race was lost.
LEMMA StaleInit == GraphInit => StaleInv
BY GraphTypesInit DEF GraphInit, StaleInv, FreshCache, FreshHand

\* Where nothing was written and no invalidation is skipped, a cache stays fresh.
LEMMA CacheStays ==
  ASSUME NEW e \in Entity, FreshCache(e), node'[e] = node[e],
         riskCache'[e] \in {riskCache[e], NoValue}, raced \subseteq raced',
         \A p \in Process : graphPc[p] = "invalidating" /\ inHand[p].entity = e =>
           \/ e \in raced'
           \/ graphPc'[p] = "invalidating" /\ inHand'[p] = inHand[p]
  PROVE  FreshCache(e)'
BY DEF FreshCache, Invalidating, Known

\* A computed risk stays fresh, or its entity has been raced, while its reader waits.
LEMMA HandStays ==
  ASSUME NEW r \in Reader, FreshHand(r), raced \subseteq raced', reading' = reading,
         graphPc'[r] = "caching" => graphPc[r] = "caching" /\ inHand'[r] = inHand[r],
         graphPc[r] = "caching" =>
           node'[reading[r].entity] = node[reading[r].entity] \/ reading[r].entity \in raced',
         reading[r].entity \in Entity
  PROVE  FreshHand(r)'
BY DEF FreshHand, Known

\* Only the one that moves changes its place or its hand.
LEMMA OneMoves ==
  ASSUME GraphTypes, NEW p \in Reader \union Process, NEW where, Go(p, where),
         inHand' = inHand \/ \E v : inHand' = [inHand EXCEPT ![p] = v]
  PROVE  /\ graphPc'[p] = where
         /\ \A q \in Reader \union Process : q # p => graphPc'[q] = graphPc[q] /\ inHand'[q] = inHand[q]
BY DEF Go, GraphTypes, GraphTypeOK, Hands

\* Readers keep cached and computed risks fresh, or caused.
LEMMA StaleReader ==
  ASSUME StaleInv, NEW r \in Reader,
         \/ AskRisk(r) \/ AskNeighborhood(r) \/ Visualize(r) \/ AskPath(r)
         \/ QueryTimesOut(r) \/ CacheHit(r) \/ ComputeRisk(r) \/ CacheRisk(r)
  PROVE  StaleInv'
<1>0. /\ GraphTypes /\ (\A e \in Entity : FreshCache(e)) /\ (\A q \in Reader : FreshHand(q))
      /\ \A q \in Reader : reading[q].entity \in Entity
  BY RequestAssumption DEF StaleInv, GraphTypes
<1>1. GraphTypes' /\ UNCHANGED <<node, reading, raced>>
  <2>1. CASE CacheRisk(r)
    BY <1>0, <2>1, CacheStep DEF CacheRisk
  <2>2. CASE ComputeRisk(r)
    BY <1>0, <2>2, ComputeStep DEF storeVars
  <2>3. QED BY <1>0, <2>1, <2>2, ReaderStep DEF Frame
<1>2. PICK where \in {"lookup", "done", "caching"} :
        /\ Go(r, where)
        /\ \/ where # "caching" /\ (inHand' = inHand \/ inHand' = [inHand EXCEPT ![r] = NoValue])
           \/ where = "caching" /\ inHand' = [inHand EXCEPT ![r] = EntityRisk(reading[r].entity)]
  <2>1. CASE CacheRisk(r)
    BY <2>1 DEF CacheRisk, Collected
  <2>2. CASE ComputeRisk(r)
    BY <1>0, <2>2, ComputeStep
  <2>3. CASE ~ CacheRisk(r) /\ ~ ComputeRisk(r)
    BY <1>0, <2>3, ReaderStep DEF Frame
  <2>4. QED BY <2>1, <2>2, <2>3
<1>3. /\ graphPc'[r] = where
      /\ \A q \in Reader \union Process : q # r => graphPc'[q] = graphPc[q] /\ inHand'[q] = inHand[q]
  BY <1>0, <1>2, OneMoves
<1>4. ASSUME NEW q \in Reader PROVE FreshHand(q)'
  <2>1. CASE q = r /\ where = "caching"
    <3>1. inHand'[q] = EntityRisk(reading[q].entity)
      BY <1>0, <1>2, <2>1 DEF GraphTypes, Hands
    <3>2. reading[q].entity \in Known => inHand'[q] >= node[reading[q].entity].base
      <4>1. ASSUME reading[q].entity \in Known PROVE inHand'[q] >= node[reading[q].entity].base
        <5>1. /\ node[reading[q].entity].base <= EntityRisk(reading[q].entity)
              /\ EntityRisk(reading[q].entity) \in 0..20
          BY <1>0, <4>1, RiskBounds DEF GraphTypes
        <5>2. node[reading[q].entity].base \in 0..20
          BY <1>0, <4>1 DEF Known, GraphTypes, GraphTypeOK
        <5>3. QED BY <3>1, <5>1, <5>2
      <4>2. QED BY <4>1
    <3>3. QED BY <1>1, <3>2 DEF FreshHand, Known
  <2>2. CASE ~ (q = r /\ where = "caching")
    BY <1>0, <1>1, <1>3, <2>2, HandStays
  <2>3. QED BY <2>1, <2>2
<1>5. ASSUME NEW e \in Entity PROVE FreshCache(e)'
  <2>1. \A p \in Process : graphPc'[p] = graphPc[p] /\ inHand'[p] = inHand[p]
    BY <1>3, Disjoint
  <2>2. CASE riskCache'[e] = riskCache[e]
    BY <1>0, <1>1, <2>1, <2>2, CacheStays
  <2>3. CASE riskCache'[e] # riskCache[e]
    <3>1. CacheRisk(r) /\ graphPc[r] = "caching"
      BY <1>0, <2>3, ReaderStep, ComputeStep DEF CacheRisk, storeVars
    <3>2. e = reading[r].entity /\ riskCache'[e] = inHand[r]
      BY <1>0, <2>3, <3>1 DEF CacheRisk, GraphTypes, GraphTypeOK
    <3>3. e \in Known => inHand[r] >= node[e].base \/ e \in raced
      BY <1>0, <3>1, <3>2 DEF FreshHand
    <3>4. e \in Known => inHand[r] \in 1..20 /\ node[e].base \in 0..20
      BY <1>0, <3>1 DEF Known, GraphTypes, GraphTypeOK, Hands, ReaderHand
    <3>5. QED BY <1>1, <3>2, <3>3, <3>4 DEF FreshCache, Known
  <2>4. QED BY <2>2, <2>3
<1>6. QED BY <1>1, <1>4, <1>5 DEF StaleInv

\* A write moves its process only; whom it overtakes is marked.
LEMMA StaleWriter ==
  ASSUME StaleInv, NEW p \in Process, Write(p)
  PROVE  StaleInv'
<1>0. /\ GraphTypes /\ (\A e \in Entity : FreshCache(e)) /\ (\A q \in Reader : FreshHand(q))
      /\ \A q \in Reader : reading[q].entity \in Entity
      /\ p \notin Reader
  BY RequestAssumption, Disjoint DEF StaleInv, GraphTypes
<1>1. GraphTypes' /\ reading' = reading
  BY <1>0, WriteStep DEF Write, WriteUnconnected, WriteNeo4j, WriteFails, Invalidate, Buffer, readVars
<1>2. PICK where : /\ Go(p, where)
                   /\ inHand' = inHand \/ \E v : inHand' = [inHand EXCEPT ![p] = v]
  BY DEF Write, WriteUnconnected, WriteNeo4j, WriteFails, Invalidate, Buffer, Finished
<1>3. /\ graphPc'[p] = where
      /\ \A q \in Reader \union Process : q # p => graphPc'[q] = graphPc[q] /\ inHand'[q] = inHand[q]
  BY <1>0, <1>2, OneMoves DEF Process
<1> DEFINE Settled(e) ==
      /\ node'[e] # node[e] => e \in raced' \/ (~ Overtaken(e) /\ Invalidating(e)')
      /\ graphPc[p] = "invalidating" /\ inHand[p].entity = e => e \in raced' \/ riskCache'[e] = NoValue
<1>4. /\ raced \subseteq raced'
      /\ \A e \in Entity : Settled(e) /\ riskCache'[e] \in {riskCache[e], NoValue}
  <2>1. CASE WriteUnconnected(p) \/ Buffer(p)
    BY <2>1 DEF WriteUnconnected, Buffer, storeVars
  <2>2. CASE WriteNeo4j(p)
    <3>1. /\ graphPc[p] = "writing" /\ riskCache' = riskCache /\ Applied(inHand[p], TRUE)
          /\ inHand[p] \in EntityWrite \union LinkWrite
      BY <1>0, <2>2, WriteInHand DEF WriteNeo4j
    <3>2. raced \subseteq raced'
      BY <1>0, <3>1, AppliedWrite
    <3>3. ASSUME NEW e \in Entity, node'[e] # node[e], e \notin raced'
          PROVE  ~ Overtaken(e) /\ Invalidating(e)'
      <4>1. inHand[p].op = "add_entity" /\ inHand[p].entity = e /\ ~ Overtaken(e)
        BY <1>0, <3>1, <3>3, AppliedWrite
      <4>2. graphPc'[p] = "invalidating" /\ inHand' = inHand
        BY <1>0, <2>2, <4>1 DEF WriteNeo4j, Go, GraphTypes, GraphTypeOK, Process
      <4>3. QED BY <4>1, <4>2 DEF Invalidating
    <3>4. QED BY <3>1, <3>2, <3>3
  <2>3. CASE WriteFails(p)
    <3>1. /\ graphPc[p] = "writing" /\ riskCache' = riskCache
          /\ (node' = node /\ raced' = raced) \/ Applied(inHand[p], FALSE)
          /\ inHand[p] \in EntityWrite \union LinkWrite
      BY <1>0, <2>3, WriteInHand DEF WriteFails
    <3>2. CASE node' = node /\ raced' = raced
      BY <3>1, <3>2
    <3>3. CASE Applied(inHand[p], FALSE)
      <4>1. raced \subseteq raced' /\ \A e \in Entity : node'[e] # node[e] => e \in raced'
        BY <1>0, <3>1, <3>3, AppliedWrite
      <4>2. QED BY <3>1, <4>1
    <3>4. QED BY <3>1, <3>2, <3>3
  <2>4. CASE Invalidate(p)
    <3>1. /\ node' = node /\ graphPc[p] = "invalidating"
          /\ \/ riskCache' = [riskCache EXCEPT ![inHand[p].entity] = NoValue] /\ raced' = raced
             \/ riskCache' = riskCache /\ raced' = raced \union {inHand[p].entity}
      BY <2>4 DEF Invalidate
    <3>2. QED BY <1>0, <3>1 DEF GraphTypes, GraphTypeOK
  <2>5. QED BY <2>1, <2>2, <2>3, <2>4 DEF Write
<1>5. ASSUME NEW e \in Entity PROVE FreshCache(e)'
  <2>1. CASE node'[e] # node[e]
    BY <1>4, <2>1 DEF FreshCache
  <2>2. CASE node'[e] = node[e] /\ graphPc[p] = "invalidating" /\ inHand[p].entity = e
    BY <1>0, <1>4, <2>2 DEF FreshCache, Known
  <2>3. CASE node'[e] = node[e] /\ ~ (graphPc[p] = "invalidating" /\ inHand[p].entity = e)
    BY <1>0, <1>3, <1>4, <2>3, CacheStays
  <2>4. QED BY <2>1, <2>2, <2>3
<1>6. ASSUME NEW r \in Reader PROVE FreshHand(r)'
  <2>1. graphPc[r] = "caching" =>
          node'[reading[r].entity] = node[reading[r].entity] \/ reading[r].entity \in raced'
    BY <1>0, <1>4 DEF Overtaken
  <2>2. graphPc'[r] = graphPc[r] /\ inHand'[r] = inHand[r]
    BY <1>0, <1>3
  <2>3. QED BY <1>0, <1>1, <1>4, <2>1, <2>2, HandStays
<1>7. QED BY <1>1, <1>5, <1>6 DEF StaleInv

\* The drainer changes no node before it writes.
LEMMA StaleDrain ==
  ASSUME StaleInv, Pop \/ DrainEnds \/ DrainerDies
  PROVE  StaleInv'
<1>0. /\ GraphTypes /\ (\A e \in Entity : FreshCache(e)) /\ (\A q \in Reader : FreshHand(q))
      /\ \A q \in Reader : reading[q].entity \in Entity
      /\ Drainer \in Process /\ Drainer \notin Reader
  BY RequestAssumption, Disjoint DEF StaleInv, GraphTypes
<1>1. /\ GraphTypes' /\ UNCHANGED <<node, riskCache, reading>> /\ raced \subseteq raced'
      /\ graphPc[Drainer] = "invalidating" => inHand[Drainer].entity \in raced'
  BY <1>0, PopStep, DrainStep DEF Pop, DrainEnds, DrainerDies, storeVars, readVars
<1>2. PICK where : /\ Go(Drainer, where)
                   /\ inHand' = inHand \/ \E v : inHand' = [inHand EXCEPT ![Drainer] = v]
  BY DEF Pop, DrainEnds, DrainerDies
<1>3. \A q \in Reader \union Process : q # Drainer => graphPc'[q] = graphPc[q] /\ inHand'[q] = inHand[q]
  BY <1>0, <1>2, OneMoves DEF Process
<1>4. \A e \in Entity : FreshCache(e)'
  BY <1>0, <1>1, <1>3, CacheStays
<1>5. ASSUME NEW r \in Reader PROVE FreshHand(r)'
  <2>1. graphPc'[r] = graphPc[r] /\ inHand'[r] = inHand[r]
    BY <1>0, <1>3
  <2>2. QED BY <1>0, <1>1, <2>1, HandStays
<1>6. QED BY <1>1, <1>4, <1>5 DEF StaleInv

\* Every step keeps cached risks fresh, or caused.
LEMMA StaleStep == StaleInv /\ [GraphNext]_graphVars => StaleInv'
<1> SUFFICES ASSUME StaleInv, [GraphNext]_graphVars PROVE StaleInv'
  OBVIOUS
<1>0. /\ GraphTypes /\ (\A e \in Entity : FreshCache(e)) /\ (\A q \in Reader : FreshHand(q))
      /\ \A q \in Reader : reading[q].entity \in Entity
  BY RequestAssumption DEF StaleInv, GraphTypes
<1>1. ASSUME NEW p \in Reader \union Process, Connect(p) PROVE StaleInv'
  <2>1. GraphTypes' /\ UNCHANGED <<storeVars, inHand, reading, raced>> /\ graphPc[p] = "new"
    BY <1>0, <1>1, ConnectStep DEF Connect, readVars
  <2>2. PICK where \in {"asking", "popping", "writing"} : Go(p, where)
    BY <1>1 DEF Connect
  <2>3. /\ graphPc'[p] = where
        /\ \A q \in Reader \union Process : q # p => graphPc'[q] = graphPc[q]
    BY <1>0, <2>1, <2>2, OneMoves
  <2>4. \A e \in Entity : FreshCache(e)'
    BY <1>0, <2>1, <2>3, CacheStays DEF storeVars
  <2>5. \A r \in Reader : FreshHand(r)'
    BY <1>0, <2>1, <2>3, HandStays DEF storeVars
  <2>6. QED BY <2>1, <2>4, <2>5 DEF StaleInv
<1>2. ASSUME \/ (\E t \in Task : RunTask(t)) \/ Neo4jFails \/ Neo4jReturns
             \/ (\E e \in Entity : CacheExpires(e)) \/ UNCHANGED graphVars
      PROVE  StaleInv'
  <2>1. GraphTypes' /\ StandStill /\ \A e \in Entity : riskCache'[e] \in {riskCache[e], NoValue}
    BY <1>0, <1>2, StandStillStep
  <2>2. \A e \in Entity : FreshCache(e)'
    BY <1>0, <2>1, CacheStays DEF StandStill, procVars
  <2>3. \A r \in Reader : FreshHand(r)'
    BY <1>0, <2>1, HandStays DEF StandStill, procVars
  <2>4. QED BY <2>1, <2>2, <2>3 DEF StaleInv
<1>3. QED BY <1>1, <1>2, StaleReader, StaleWriter, StaleDrain DEF GraphNext

\* A cached risk falls behind its node only while the write is about to
\* invalidate it, or after that write met a reader in between, went unanswered,
\* or could not invalidate.
THEOREM StaleRisksAreCaused == GraphSpec => []StaleRiskHasACause
<1>1. StaleInv => StaleRiskHasACause
  BY DEF StaleInv, FreshCache, Invalidating, StaleRiskHasACause, Known
<1>2. QED BY <1>1, StaleInit, StaleStep, PTL DEF GraphSpec

-----------------------------------------------------------------------------
(* Every write is accounted for.                                            *)

\* An entity write of the entity, the processes that have one in hand, and the
\* places of those in the backlog.
WriteOf(w, e) == w.op = "add_entity" /\ w.entity = e
Busy(e) == {p \in Process : graphPc[p] \in {"writing", "buffering"} /\ WriteOf(inHand[p], e)}
Places(list, e) == {i \in DOMAIN list : WriteOf(list[i], e)}

Balance(e) ==
  /\ IsFiniteSet(Busy(e))
  /\ Applications(e) + Waiting(e) + UnderWay(e) + gone[e] = issued[e] + again[e]

WritesInv == GraphTypes /\ \A e \in Entity : Balance(e)

\* What waits and what is under way, as cardinalities of sets.
LEMMA Counters ==
  ASSUME NEW e \in Entity
  PROVE  Waiting(e) = Cardinality(Places(backlog, e)) /\ UnderWay(e) = Cardinality(Busy(e))
BY DEF Waiting, UnderWay, Places, Busy, WriteOf

\* The backlog is finite; a push adds a place for the write it pushes, a pop
\* takes the one of the write it pops.
LEMMA PlacesFinite ==
  ASSUME NEW S, NEW list \in Seq(S), NEW e
  PROVE  IsFiniteSet(Places(list, e)) /\ Cardinality(Places(list, e)) \in Nat
<1>1. IsFiniteSet(1..Len(list)) /\ Places(list, e) \in SUBSET (1..Len(list))
  BY FS_Interval DEF Places
<1>2. QED BY <1>1, FS_Subset, FS_CardinalityType

\* A write pushed on the backlog waits at one more place, for its own entity only.
LEMMA PushPlaces ==
  ASSUME NEW S, NEW list \in Seq(S), NEW w \in S, NEW e
  PROVE  Cardinality(Places(<<w>> \o list, e)) =
           Cardinality(Places(list, e)) + (IF WriteOf(w, e) THEN 1 ELSE 0)
<1> DEFINE longer == <<w>> \o list
           moved == {i + 1 : i \in Places(list, e)}
           shift == [i \in Places(list, e) |-> i + 1]
<1>1. /\ longer \in Seq(S) /\ Len(longer) = Len(list) + 1 /\ Len(list) \in Nat
      /\ longer[1] = w /\ \A i \in 1..Len(list) : longer[i + 1] = list[i]
  BY ConcatProperties
<1>2. shift \in Bijection(Places(list, e), moved)
  BY DEF Bijection, Injection, Surjection, IsInjective, Places
<1>3. IsFiniteSet(moved) /\ Cardinality(moved) = Cardinality(Places(list, e))
  BY <1>2, PlacesFinite, FS_Bijection DEF ExistsBijection
<1>4. 1 \notin moved
  BY DEF Places
<1>5. Places(longer, e) = IF WriteOf(w, e) THEN moved \union {1} ELSE moved
  <2>1. ASSUME NEW i \in 1..(Len(list) + 1)
        PROVE  WriteOf(longer[i], e) <=> (i = 1 /\ WriteOf(w, e)) \/ i \in moved
    <3>1. CASE i = 1
      BY <1>1, <1>4, <3>1
    <3>2. CASE i # 1
      <4>1. i - 1 \in 1..Len(list) /\ longer[i] = list[i - 1]
        BY <1>1, <3>2
      <4>2. i \in moved <=> i - 1 \in Places(list, e)
        BY DEF Places
      <4>3. i - 1 \in Places(list, e) <=> WriteOf(longer[i], e)
        BY <4>1 DEF Places
      <4>4. QED BY <3>2, <4>2, <4>3
    <3>3. QED BY <3>1, <3>2
  <2>2. moved \subseteq 1..(Len(list) + 1) /\ 1 \in 1..(Len(list) + 1)
    BY <1>1 DEF Places
  <2>3. DOMAIN longer = 1..(Len(list) + 1)
    BY <1>1
  <2> HIDE DEF longer, moved
  <2>4. QED BY <1>4, <2>1, <2>2, <2>3 DEF Places
<1>6. Cardinality(moved \union {1}) = Cardinality(moved) + 1
  <2> HIDE DEF moved
  <2>1. QED BY <1>3, <1>4, FS_AddElement
<1>7. QED
  <2> HIDE DEF moved, longer
  <2>1. Cardinality(Places(longer, e)) =
          Cardinality(Places(list, e)) + (IF WriteOf(w, e) THEN 1 ELSE 0)
    BY <1>3, <1>5, <1>6, PlacesFinite
  <2>2. QED BY <2>1 DEF longer

\* A write popped from the backlog waits at one place fewer.
LEMMA PopPlaces ==
  ASSUME NEW S, backlog \in Seq(S), backlog # <<>>, NEW e
  PROVE  Cardinality(Places(Front(backlog), e)) =
           Cardinality(Places(backlog, e)) - (IF WriteOf(Last(backlog), e) THEN 1 ELSE 0)
<1>1. /\ Front(backlog) \in Seq(S) /\ Len(backlog) \in Nat \ {0}
      /\ Len(Front(backlog)) = Len(backlog) - 1
      /\ \A i \in 1..(Len(backlog) - 1) : Front(backlog)[i] = backlog[i]
  BY PoppedList
<1>2. DOMAIN Front(backlog) = 1..(Len(backlog) - 1) /\ DOMAIN backlog = 1..Len(backlog)
  BY <1>1
<1>3. Places(Front(backlog), e) = Places(backlog, e) \ {Len(backlog)}
  BY <1>1, <1>2 DEF Places
<1>4. Len(backlog) \in Places(backlog, e) <=> WriteOf(Last(backlog), e)
  BY <1>1, <1>2 DEF Places, Last
<1>5. IsFiniteSet(Places(backlog, e)) /\ Cardinality(Places(backlog, e)) \in Nat
  BY PlacesFinite
<1>6. Cardinality(Places(backlog, e) \ {Len(backlog)}) =
        IF Len(backlog) \in Places(backlog, e) THEN Cardinality(Places(backlog, e)) - 1
        ELSE Cardinality(Places(backlog, e))
  BY <1>5, FS_RemoveElement
<1>7. QED BY <1>3, <1>4, <1>5, <1>6

\* The counters are numbers.
LEMMA Numbers ==
  GraphTypes =>
    \A e \in Entity : /\ Applications(e) \in Int /\ Waiting(e) \in Nat
                      /\ gone[e] \in Nat /\ issued[e] \in Nat /\ again[e] \in Nat
<1> SUFFICES ASSUME GraphTypes, NEW e \in Entity
             PROVE  /\ Applications(e) \in Int /\ Waiting(e) \in Nat
                    /\ gone[e] \in Nat /\ issued[e] \in Nat /\ again[e] \in Nat
  OBVIOUS
<1>1. Applications(e) \in Int
  BY GraphValuesAssumption DEF Applications, Reports, GraphTypes, GraphTypeOK
<1>2. Waiting(e) \in Nat
  BY Counters, PlacesFinite DEF GraphTypes, GraphTypeOK
<1>3. QED BY <1>1, <1>2 DEF GraphTypes, Accounts

\* And they are in the next state.
LEMMA NumbersNext ==
  GraphTypes' =>
    \A e \in Entity : /\ Applications(e)' \in Int /\ Waiting(e)' \in Nat
                      /\ gone'[e] \in Nat /\ issued'[e] \in Nat /\ again'[e] \in Nat
<1>1. (GraphTypes =>
        \A e \in Entity : /\ Applications(e) \in Int /\ Waiting(e) \in Nat
                          /\ gone[e] \in Nat /\ issued[e] \in Nat /\ again[e] \in Nat)'
  BY Numbers, PTL
<1>2. QED BY <1>1

\* A step in which at most one process takes up or lays down a write keeps the
\* balance if the changes of the counters add up.
LEMMA BalanceMoves ==
  ASSUME GraphTypes, GraphTypes', NEW e \in Entity, Balance(e), NEW p,
         Busy(e)' \ {p} = Busy(e) \ {p},
         (Applications(e)' - Applications(e)) + (Waiting(e)' - Waiting(e)) + (gone'[e] - gone[e])
           + (IF p \in Busy(e)' THEN 1 ELSE 0) - (IF p \in Busy(e) THEN 1 ELSE 0)
           = (issued'[e] - issued[e]) + (again'[e] - again[e])
  PROVE  Balance(e)'
<1>1. /\ Applications(e) \in Int /\ Waiting(e) \in Nat
      /\ gone[e] \in Nat /\ issued[e] \in Nat /\ again[e] \in Nat
  BY Numbers
<1>2. /\ Applications(e)' \in Int /\ Waiting(e)' \in Nat
      /\ gone'[e] \in Nat /\ issued'[e] \in Nat /\ again'[e] \in Nat
  BY NumbersNext
<1>3. IsFiniteSet(Busy(e)) /\ UnderWay(e) = Cardinality(Busy(e)) /\ UnderWay(e)' = Cardinality(Busy(e)')
  BY Counters DEF Balance, UnderWay, Busy, WriteOf
<1> DEFINE others == Busy(e) \ {p}
<1>4. /\ IsFiniteSet(others) /\ Cardinality(others) \in Nat
      /\ Cardinality(Busy(e)) = Cardinality(others) + (IF p \in Busy(e) THEN 1 ELSE 0)
  BY <1>3, FS_RemoveElement, FS_CardinalityType
<1>5. Busy(e)' = IF p \in Busy(e)' THEN others \union {p} ELSE others
  OBVIOUS
<1>6. /\ IsFiniteSet(Busy(e)')
      /\ Cardinality(Busy(e)') = Cardinality(others) + (IF p \in Busy(e)' THEN 1 ELSE 0)
  <2> HIDE DEF others
  <2>1. p \notin others
    BY DEF others
  <2>2. QED BY <1>4, <1>5, <2>1, FS_AddElement
<1> HIDE DEF others
<1>7. Applications(e) + Waiting(e) + UnderWay(e) + gone[e] = issued[e] + again[e]
  BY DEF Balance
<1>8. PICK was \in 0..1, is \in 0..1 :
        /\ was = IF p \in Busy(e) THEN 1 ELSE 0
        /\ is = IF p \in Busy(e)' THEN 1 ELSE 0
  OBVIOUS
<1>9. /\ UnderWay(e)' = Cardinality(others) + is /\ UnderWay(e) = Cardinality(others) + was
      /\ (Applications(e)' - Applications(e)) + (Waiting(e)' - Waiting(e)) + (gone'[e] - gone[e])
           + is - was = (issued'[e] - issued[e]) + (again'[e] - again[e])
  BY <1>3, <1>4, <1>6, <1>8
<1>10. Applications(e)' + Waiting(e)' + UnderWay(e)' + gone'[e] = issued'[e] + again'[e]
  BY <1>1, <1>2, <1>4, <1>7, <1>9
<1>11. QED BY <1>6, <1>10 DEF Balance

\* Steps that move no write keep the account.
LEMMA BalanceStays ==
  ASSUME GraphTypes, GraphTypes', NEW e \in Entity, Balance(e),
         node' = node, backlog' = backlog, UNCHANGED accountVars,
         \A p \in Process : graphPc[p] \in {"writing", "buffering"} \/ graphPc'[p] \in {"writing", "buffering"} =>
           graphPc'[p] = graphPc[p] /\ inHand'[p] = inHand[p]
  PROVE  Balance(e)'
<1>1. Busy(e)' = Busy(e)
  BY DEF Busy, WriteOf
<1>2. /\ Applications(e)' = Applications(e) /\ Waiting(e)' = Waiting(e) /\ gone'[e] = gone[e]
      /\ issued'[e] = issued[e] /\ again'[e] = again[e] /\ UnderWay(e)' = UnderWay(e)
  BY <1>1, Counters DEF Applications, Waiting, accountVars, UnderWay, Busy, WriteOf
<1>3. QED BY <1>1, <1>2 DEF Balance

\* Only the write of a process that moves can change hands.
LEMMA BusyOthers ==
  ASSUME GraphTypes, NEW p \in Process, NEW where, Go(p, where),
         inHand' = inHand \/ \E v : inHand' = [inHand EXCEPT ![p] = v], NEW e
  PROVE  /\ Busy(e)' \ {p} = Busy(e) \ {p}
         /\ p \in Busy(e)' <=> where \in {"writing", "buffering"} /\ WriteOf(inHand'[p], e)
         /\ p \in Busy(e) <=> graphPc[p] \in {"writing", "buffering"} /\ WriteOf(inHand[p], e)
<1>1. /\ graphPc'[p] = where
      /\ \A q \in Process : q # p => graphPc'[q] = graphPc[q] /\ inHand'[q] = inHand[q]
  BY OneMoves DEF Process
<1>2. QED BY <1>1 DEF Busy, WriteOf

\* An applied write is one application more, of its own entity only.
LEMMA AppliedOnce ==
  ASSUME GraphTypes, NEW w \in EntityWrite \union LinkWrite, NEW answered \in BOOLEAN,
         Applied(w, answered), NEW e \in Entity
  PROVE  Applications(e)' = Applications(e) + (IF WriteOf(w, e) THEN 1 ELSE 0)
<1>1. /\ node[e] \in [base : 0..20, count : Nat] \union {NoNode}
      /\ InitialNode[e] \in [base : 0..20, count : Nat] \union {NoNode}
      /\ Applications(e) \in Int
  BY GraphValuesAssumption, Numbers DEF GraphTypes, GraphTypeOK
<1>2. CASE WriteOf(w, e)
  <2>1. node'[e] = Merged(node[e], w) /\ w \in EntityWrite
    BY <1>2, AppliedWrite DEF WriteOf
  <2>2. Reports(node'[e]) = Reports(node[e]) + 1 /\ Reports(node[e]) \in Nat
    BY <1>1, <2>1, MergedNode
  <2>3. Reports(InitialNode[e]) \in Nat
    BY <1>1 DEF Reports
  <2>4. QED BY <1>2, <2>2, <2>3 DEF Applications
<1>3. CASE ~ WriteOf(w, e)
  <2>1. node'[e] = node[e]
    BY <1>3, AppliedWrite DEF WriteOf
  <2>2. QED BY <1>1, <1>3, <2>1 DEF Applications
<1>4. QED BY <1>2, <1>3

\* A write given up is one more that is gone, of its own entity only.
LEMMA GivenUpOnce ==
  ASSUME GraphTypes, NEW w \in EntityWrite \union LinkWrite, GiveUp(w), NEW e \in Entity
  PROVE  gone'[e] = gone[e] + (IF WriteOf(w, e) THEN 1 ELSE 0)
BY GaveUp, Numbers DEF WriteOf

\* Counters move with the store and the backlog only.
LEMMA SameCounters ==
  ASSUME NEW e \in Entity
  PROVE  /\ node' = node => Applications(e)' = Applications(e)
         /\ backlog' = backlog => Waiting(e)' = Waiting(e)
         /\ Waiting(e)' = Cardinality(Places(backlog', e))
BY DEF Applications, Waiting, Places, WriteOf

\* A write that starts, or is buffered as there is no connection, is accounted for.
LEMMA BalanceConnect ==
  ASSUME GraphTypes, GraphTypes', NEW w \in Writer, Connect(w), NEW e \in Entity, Balance(e)
  PROVE  Balance(e)'
<1>1. /\ UNCHANGED <<node, backlog, inHand, gone, again>> /\ graphPc[w] = "new"
      /\ Go(w, "writing") /\ w \in Process
      /\ issued' = IF inHand[w].op = "add_entity" THEN [issued EXCEPT ![inHand[w].entity] = @ + 1]
                   ELSE issued
  BY Disjoint DEF Connect, storeVars, Process
<1>2. /\ Busy(e)' \ {w} = Busy(e) \ {w} /\ w \notin Busy(e)
      /\ w \in Busy(e)' <=> WriteOf(inHand[w], e)
  BY <1>1, BusyOthers
<1>3. issued'[e] = issued[e] + (IF WriteOf(inHand[w], e) THEN 1 ELSE 0)
  BY <1>1, Numbers DEF WriteOf, GraphTypes, Accounts
<1>4. /\ Applications(e)' = Applications(e) /\ Waiting(e)' = Waiting(e)
      /\ gone'[e] = gone[e] /\ again'[e] = again[e]
  BY <1>1, SameCounters
<1>5. QED BY <1>2, <1>3, <1>4, Numbers, BalanceMoves

\* A write that ends is applied, buffered or gone, or applied and tried again.
LEMMA BalanceWrite ==
  ASSUME GraphTypes, GraphTypes', NEW p \in Process, Write(p), NEW e \in Entity, Balance(e)
  PROVE  Balance(e)'
<1> DEFINE w == inHand[p]
           one == IF WriteOf(w, e) THEN 1 ELSE 0
<1>1. CASE WriteUnconnected(p)
  <2>1. /\ UNCHANGED <<node, backlog, issued, again>> /\ GiveUp(w) /\ graphPc[p] = "writing"
        /\ Finished(p) /\ w \in EntityWrite \union LinkWrite
    BY <1>1, WriteInHand DEF WriteUnconnected, storeVars
  <2>2. Busy(e)' \ {p} = Busy(e) \ {p} /\ p \notin Busy(e)' /\ (p \in Busy(e) <=> WriteOf(w, e))
    <3>1. PICK where \in {"popping", "done"} : Go(p, where) /\ inHand' = [inHand EXCEPT ![p] = NoValue]
      BY <2>1 DEF Finished
    <3>2. QED BY <2>1, <3>1, BusyOthers
  <2>3. gone'[e] = gone[e] + one
    BY <2>1, GivenUpOnce
  <2>4. /\ Applications(e)' = Applications(e) /\ Waiting(e)' = Waiting(e)
        /\ issued'[e] = issued[e] /\ again'[e] = again[e]
    BY <2>1, SameCounters
  <2>5. QED BY <2>2, <2>3, <2>4, Numbers, BalanceMoves
<1>2. CASE WriteNeo4j(p)
  <2>1. /\ UNCHANGED <<backlog, accountVars>> /\ Applied(w, TRUE) /\ graphPc[p] = "writing"
        /\ w \in EntityWrite \union LinkWrite
    BY <1>2, WriteInHand DEF WriteNeo4j
  <2>2. Busy(e)' \ {p} = Busy(e) \ {p} /\ p \notin Busy(e)' /\ (p \in Busy(e) <=> WriteOf(w, e))
    <3>1. PICK where \in {"invalidating", "popping", "done"} :
            Go(p, where) /\ (inHand' = inHand \/ \E v : inHand' = [inHand EXCEPT ![p] = v])
      BY <1>2 DEF WriteNeo4j, Finished
    <3>2. QED BY <2>1, <3>1, BusyOthers
  <2>3. Applications(e)' = Applications(e) + one
    BY <2>1, AppliedOnce
  <2>4. /\ Waiting(e)' = Waiting(e)
        /\ gone'[e] = gone[e] /\ issued'[e] = issued[e] /\ again'[e] = again[e]
    BY <2>1, SameCounters DEF accountVars
  <2>5. QED BY <2>2, <2>3, <2>4, Numbers, BalanceMoves
<1>3. CASE WriteFails(p)
  <2>1. /\ UNCHANGED <<backlog, inHand, issued, gone>> /\ graphPc[p] = "writing" /\ Go(p, "buffering")
        /\ w \in EntityWrite \union LinkWrite
    BY <1>3, WriteInHand DEF WriteFails
  <2>2. /\ Busy(e)' \ {p} = Busy(e) \ {p}
        /\ (p \in Busy(e)' <=> WriteOf(w, e)) /\ (p \in Busy(e) <=> WriteOf(w, e))
    BY <2>1, BusyOthers
  <2>3. /\ Waiting(e)' = Waiting(e) /\ gone'[e] = gone[e] /\ issued'[e] = issued[e]
    BY <2>1, SameCounters
  <2>4. CASE UNCHANGED <<node, again>>
    <3>1. Applications(e)' = Applications(e) /\ again'[e] = again[e]
      BY <2>4, SameCounters
    <3>2. QED BY <2>2, <2>3, <3>1, Numbers, BalanceMoves
  <2>5. CASE /\ Applied(w, FALSE)
             /\ again' = IF w.op = "add_entity" THEN [again EXCEPT ![w.entity] = @ + 1] ELSE again
    <3>1. Applications(e)' = Applications(e) + one
      BY <2>1, <2>5, AppliedOnce
    <3>2. again'[e] = again[e] + one
      BY <2>5, Numbers DEF WriteOf, GraphTypes, Accounts
    <3>3. QED BY <2>2, <2>3, <3>1, <3>2, Numbers, BalanceMoves
  <2>6. QED BY <1>3, <2>4, <2>5 DEF WriteFails
<1>4. CASE Invalidate(p)
  <2>1. /\ UNCHANGED <<node, backlog, accountVars>> /\ graphPc[p] = "invalidating"
        /\ Finished(p)
    BY <1>4 DEF Invalidate
  <2>2. Busy(e)' \ {p} = Busy(e) \ {p} /\ p \notin Busy(e)' /\ p \notin Busy(e)
    <3>1. PICK where \in {"popping", "done"} : Go(p, where) /\ inHand' = [inHand EXCEPT ![p] = NoValue]
      BY <2>1 DEF Finished
    <3>2. QED BY <2>1, <3>1, BusyOthers
  <2>3. /\ Applications(e)' = Applications(e) /\ Waiting(e)' = Waiting(e)
        /\ gone'[e] = gone[e] /\ issued'[e] = issued[e] /\ again'[e] = again[e]
    BY <2>1, SameCounters DEF accountVars
  <2>4. QED BY <2>2, <2>3, Numbers, BalanceMoves
<1>5. CASE Buffer(p)
  <2>1. /\ UNCHANGED <<node, issued, again>> /\ graphPc[p] = "buffering"
        /\ Finished(p)
        /\ w \in EntityWrite \union LinkWrite
    BY <1>5, WriteInHand DEF Buffer
  <2>2. Busy(e)' \ {p} = Busy(e) \ {p} /\ p \notin Busy(e)' /\ (p \in Busy(e) <=> WriteOf(w, e))
    <3>1. PICK where \in {"popping", "done"} : Go(p, where) /\ inHand' = [inHand EXCEPT ![p] = NoValue]
      BY <2>1 DEF Finished
    <3>2. QED BY <2>1, <3>1, BusyOthers
  <2>3. Applications(e)' = Applications(e) /\ issued'[e] = issued[e] /\ again'[e] = again[e]
    BY <2>1, SameCounters
  <2>4. CASE backlog' = <<w>> \o backlog /\ gone' = gone
    <3>1. Waiting(e)' = Waiting(e) + one
      <4>1. backlog \in Seq(EntityWrite \union LinkWrite)
        BY DEF GraphTypes, GraphTypeOK
      <4>2. Cardinality(Places(<<w>> \o backlog, e)) = Cardinality(Places(backlog, e)) + one
        BY <2>1, <4>1, PushPlaces
      <4>3. QED BY <2>4, <4>2, SameCounters, Counters
    <3>2. QED BY <2>2, <2>3, <2>4, <3>1, Numbers, BalanceMoves
  <2>5. CASE GiveUp(w) /\ backlog' = backlog
    <3>1. gone'[e] = gone[e] + one /\ Waiting(e)' = Waiting(e)
      BY <2>1, <2>5, GivenUpOnce, SameCounters
    <3>2. QED BY <2>2, <2>3, <3>1, Numbers, BalanceMoves
  <2>6. QED BY <1>5, <2>4, <2>5 DEF Buffer
<1>6. QED BY <1>1, <1>2, <1>3, <1>4, <1>5 DEF Write

\* A write popped from the backlog is under way.
LEMMA BalancePop ==
  ASSUME GraphTypes, GraphTypes', Pop, NEW e \in Entity, Balance(e)
  PROVE  Balance(e)'
<1>1. /\ UNCHANGED <<node, accountVars>> /\ backlog' = Front(backlog) /\ backlog # <<>>
      /\ backlog \in Seq(EntityWrite \union LinkWrite)
      /\ graphPc[Drainer] = "popping" /\ Drainer \in Process
  BY Disjoint DEF Pop, GraphTypes, GraphTypeOK
<1> DEFINE one == IF WriteOf(Last(backlog), e) THEN 1 ELSE 0
<1>2. Waiting(e)' = Waiting(e) - one
  BY <1>1, PopPlaces, SameCounters, Counters
<1>3. /\ Busy(e)' \ {Drainer} = Busy(e) \ {Drainer} /\ Drainer \notin Busy(e)
      /\ Drainer \in Busy(e)' <=> WriteOf(Last(backlog), e)
  <2>1. CASE Last(backlog).op = "add_entity"
    <3>1. Go(Drainer, "writing") /\ inHand' = [inHand EXCEPT ![Drainer] = Last(backlog)]
      BY <2>1 DEF Pop
    <3>2. inHand'[Drainer] = Last(backlog)
      BY <1>1, <3>1 DEF GraphTypes, Hands
    <3>3. QED BY <1>1, <3>1, <3>2, BusyOthers
  <2>2. CASE Last(backlog).op # "add_entity"
    <3>1. Go(Drainer, "new") /\ inHand' = inHand
      BY <2>2 DEF Pop
    <3>2. QED BY <1>1, <2>2, <3>1, BusyOthers DEF WriteOf
  <2>3. QED BY <2>1, <2>2
<1>4. /\ Applications(e)' = Applications(e)
      /\ gone'[e] = gone[e] /\ issued'[e] = issued[e] /\ again'[e] = again[e]
  BY <1>1, SameCounters DEF accountVars
<1>5. QED BY <1>2, <1>3, <1>4, Numbers, BalanceMoves

\* A drainer that dies gives up the write in its hand, unless it was applied already.
LEMMA BalanceDies ==
  ASSUME GraphTypes, GraphTypes', DrainerDies, NEW e \in Entity, Balance(e)
  PROVE  Balance(e)'
<1>1. /\ UNCHANGED <<node, backlog, issued, again>> /\ Drainer \in Process
      /\ Go(Drainer, "new") /\ inHand' = [inHand EXCEPT ![Drainer] = NoValue]
  BY Disjoint DEF DrainerDies, storeVars
<1>2. /\ Busy(e)' \ {Drainer} = Busy(e) \ {Drainer} /\ Drainer \notin Busy(e)'
      /\ (Drainer \in Busy(e)) <=> (graphPc[Drainer] # "invalidating" /\ WriteOf(inHand[Drainer], e))
  <2>1. graphPc[Drainer] \in {"writing", "buffering", "invalidating"}
    BY DEF DrainerDies
  <2>2. Busy(e)' \ {Drainer} = Busy(e) \ {Drainer} /\ Drainer \notin Busy(e)'
    <3>1. GraphTypes /\ inHand' = [inHand EXCEPT ![Drainer] = NoValue]
      BY <1>1
    <3>2. /\ Busy(e)' \ {Drainer} = Busy(e) \ {Drainer}
          /\ Drainer \in Busy(e)' <=> "new" \in {"writing", "buffering"} /\ WriteOf(inHand'[Drainer], e)
      BY <1>1, <3>1, BusyOthers, Zenon
    <3>3. "new" \notin {"writing", "buffering"}
      OBVIOUS
    <3>4. QED BY <3>2, <3>3, Zenon
  <2>3. QED BY <1>1, <2>1, <2>2 DEF Busy
<1>3. gone'[e] = gone[e] + (IF Drainer \in Busy(e) THEN 1 ELSE 0)
  <2>1. CASE graphPc[Drainer] = "invalidating"
    BY <1>2, <2>1, Numbers DEF DrainerDies
  <2>2. CASE graphPc[Drainer] # "invalidating"
    <3>1. inHand[Drainer] \in EntityWrite \union LinkWrite /\ GiveUp(inHand[Drainer])
      BY <1>1, <2>2, WriteInHand DEF DrainerDies
    <3>2. QED BY <1>2, <2>2, <3>1, GivenUpOnce
  <2>3. QED BY <2>1, <2>2
<1>4. /\ Applications(e)' = Applications(e) /\ Waiting(e)' = Waiting(e)
      /\ issued'[e] = issued[e] /\ again'[e] = again[e]
  BY <1>1, SameCounters
<1>5. QED BY <1>2, <1>3, <1>4, Numbers, BalanceMoves

\* At the start nothing was issued.
LEMMA WritesInit == GraphInit => WritesInv
<1> SUFFICES ASSUME GraphInit, NEW e \in Entity PROVE Balance(e)
  BY GraphTypesInit DEF WritesInv
<1>1. Busy(e) = {} /\ Places(backlog, e) = {}
  BY DEF GraphInit, Busy, Places, Process
<1>2. Waiting(e) = 0 /\ UnderWay(e) = 0 /\ IsFiniteSet(Busy(e))
  BY <1>1, Counters, FS_EmptySet
<1>3. Applications(e) = 0 /\ gone[e] = 0 /\ issued[e] = 0 /\ again[e] = 0
  BY GraphTypesInit, Numbers DEF GraphInit, Applications, Reports, GraphTypes, GraphTypeOK
<1>4. QED BY <1>2, <1>3 DEF Balance

\* Every step keeps the account of every entity.
LEMMA WritesStep == WritesInv /\ [GraphNext]_graphVars => WritesInv'
<1> SUFFICES ASSUME WritesInv, [GraphNext]_graphVars, NEW e \in Entity PROVE Balance(e)'
  BY GraphTypesStep DEF WritesInv
<1>1. GraphTypes /\ GraphTypes' /\ Balance(e)
  BY GraphTypesStep DEF WritesInv
<1>2. ASSUME NEW r \in Reader,
             \/ Connect(r) \/ AskRisk(r) \/ AskNeighborhood(r) \/ Visualize(r) \/ AskPath(r)
             \/ QueryTimesOut(r) \/ CacheHit(r) \/ ComputeRisk(r) \/ CacheRisk(r)
      PROVE  Balance(e)'
  <2>1. UNCHANGED <<node, backlog, accountVars>>
    BY <1>2, Disjoint DEF Connect, AskRisk, AskNeighborhood, Visualize, AskPath, QueryTimesOut, CacheHit,
       ComputeRisk, CacheRisk, storeVars, accountVars, Process
  <2>2. PICK where : Go(r, where)
    BY <1>2 DEF Connect, AskRisk, AskNeighborhood, Visualize, AskPath, QueryTimesOut, CacheHit,
       ComputeRisk, CacheRisk, Collected, Answered
  <2>3. inHand' = inHand \/ \E v : inHand' = [inHand EXCEPT ![r] = v]
    BY <1>2 DEF Connect, AskRisk, AskNeighborhood, Visualize, AskPath, QueryTimesOut, CacheHit,
       ComputeRisk, CacheRisk
  <2>4. \A p \in Process : graphPc'[p] = graphPc[p] /\ inHand'[p] = inHand[p]
    BY <1>1, <2>2, <2>3, OneMoves, Disjoint
  <2>5. QED BY <1>1, <2>1, <2>4, BalanceStays
<1>3. ASSUME Connect(Drainer) \/ DrainEnds PROVE Balance(e)'
  <2>1. /\ UNCHANGED <<node, backlog, inHand, accountVars>>
        /\ graphPc[Drainer] \in {"new", "popping"}
    BY <1>3, Disjoint DEF Connect, DrainEnds, storeVars, accountVars
  <2>2. PICK where \in {"new", "popping"} : Go(Drainer, where)
    BY <1>3, Disjoint DEF Connect, DrainEnds
  <2>3. /\ graphPc'[Drainer] = where
        /\ \A p \in Process : p # Drainer => graphPc'[p] = graphPc[p]
    BY <1>1, <2>1, <2>2, OneMoves, Disjoint DEF Process
  <2>4. QED BY <1>1, <2>1, <2>3, BalanceStays
<1>4. ASSUME \/ (\E t \in Task : RunTask(t)) \/ Neo4jFails \/ Neo4jReturns
             \/ (\E f \in Entity : CacheExpires(f)) \/ UNCHANGED graphVars
      PROVE  Balance(e)'
  BY <1>1, <1>4, StandStillStep, BalanceStays DEF StandStill, procVars
<1>5. QED
  BY <1>1, <1>2, <1>3, <1>4, BalanceConnect, BalanceWrite, BalancePop, BalanceDies
     DEF GraphNext, Process

\* No write is lost or doubled in silence: what was called for is applied, under
\* way, in the backlog or given up, and what was applied without an answer is
\* the only thing applied twice.
THEOREM WritesStayAccountedFor == GraphSpec => []WritesAreAccountedFor
<1>1. WritesInv => WritesAreAccountedFor
  BY DEF WritesInv, Balance, WritesAreAccountedFor
<1>2. QED BY <1>1, WritesInit, WritesStep, PTL DEF GraphSpec
=============================================================================
