---------------------------- MODULE EntityGraph ----------------------------
(***************************************************************************)
(* The fraud entity graph: FraudEntityGraph over Neo4j with a Redis cache  *)
(* of risks and a Redis backlog of failed writes                           *)
(* (backend/app/services/graph/entity_graph.py), the requests that read it *)
(* (api/v1/analyze.py, api/v1/graph.py, services/intel/                    *)
(* reputation_service.py) and the tasks that should enrich it              *)
(* (risk_propagation.py, ring_detection.py, workers/tasks/intel_tasks.py). *)
(*                                                                         *)
(* Every request, writer and task makes a FraudEntityGraph of its own; it  *)
(* connects once, and keeps what it found then (connected, redis).  Risks  *)
(* are counted in twentieths: 20 is 1.0, and one relationship adds 0.05.   *)
(***************************************************************************)
EXTENDS Integers, Sequences, FiniteSets, FiniteSetsExt, SequencesExt

CONSTANTS
  Entity,        \* values of Entity nodes
  Reader,        \* requests that read the graph
  Request,       \* what a reader may ask: a kind of read and an entity
  Writer,        \* callers of add_entity and add_session_link
  WriteJob,      \* what a writer may write
  Drainer,       \* the process that calls drain_backlog
  NoNode,        \* the graph has no node of the entity
  InitialNode,   \* the nodes the graph starts with
  Task,          \* Celery tasks that run on the graph
  NoValue,       \* no cache entry, no answer, no event in hand
  GraphMaxFaults \* bound: outages and crashes

\* A write of an entity names it and the risk it carries; its report_count is
\* the default 0.  A session link names two entities.
EntityWrite == [op : {"add_entity"}, entity : Entity, risk : 0..20]
LinkWrite == [op : {"add_session_link"}, ends : {{a, b} : a, b \in Entity}]

ASSUME RequestAssumption ==
  Request \subseteq [kind : {"risk", "page", "path", "visualize"}, entity : Entity]
ASSUME WriterAssumption ==
  /\ WriteJob \subseteq EntityWrite \union LinkWrite
  /\ \A w \in WriteJob : w.op = "add_session_link" => Cardinality(w.ends) = 2
  /\ Drainer \notin Writer /\ (Writer \union {Drainer}) \intersect Reader = {}
ASSUME GraphValuesAssumption ==
  /\ NoNode \notin [base : 0..20, count : Nat]
  /\ InitialNode \in [Entity -> [base : 0..20, count : Nat] \union {NoNode}]
ASSUME TaskAssumption ==
  Task \subseteq {"propagate_risk_scores", "detect_fraud_rings", "trigger_ring_check"}
ASSUME GraphBoundAssumption == GraphMaxFaults \in Nat

VARIABLES
  neo4jUp,    \* Neo4j answers
  node,       \* Entity nodes: graph_risk_score (base) and report_count
  links,      \* APPEARED_WITH relationships, as pairs with a weight
  riskCache,  \* graph:risk:<hash> keys in Redis
  backlog,    \* the graph_backlog list, its oldest event last
  graphPc,    \* where each reader, each writer and the drainer stands
  reading,    \* what each reader asks
  conn,       \* what each one's FraudEntityGraph found when it connected
  inHand,     \* the write a process has in hand
  score,      \* the risk a reader has computed, and those it has collected
  answer,     \* what each reader was answered
  task,       \* the result of the last run of each task
  everDown,   \* history: Neo4j was down at some time
  raced,      \* history: entities written while a reader held an older risk,
              \* or that were never invalidated
  issued,     \* history: entity writes that were called for
  gone,       \* history: entity writes given up
  again,      \* history: entity writes applied that are written once more
  graphFaults

storeVars == <<neo4jUp, node, links, riskCache, backlog>>
procVars == <<graphPc, conn, inHand>>
readVars == <<reading, score, answer>>
accountVars == <<issued, gone, again>>
graphVars == <<storeVars, procVars, readVars, task, everDown, raced, accountVars, graphFaults>>

Process == Writer \union {Drainer}
Known == {e \in Entity : node[e] # NoNode}
GraphFault == graphFaults < GraphMaxFaults /\ graphFaults' = graphFaults + 1
Go(p, where) == graphPc' = [graphPc EXCEPT ![p] = where]

-----------------------------------------------------------------------------
(* What the queries compute                                                 *)

Linked(e) == {f \in Entity \ {e} : {e, f} \in DOMAIN links}

\* count(m) over (n)--(m), with the boost capped at 0.3; nothing in the
\* application writes pagerank_score, so its share is 0.
EntityRisk(e) ==
  IF node[e] = NoNode THEN 0
  ELSE Min({20, node[e].base + Min({6, Cardinality(Linked(e))})})

\* get_neighborhood: the entity, its neighbours and theirs.  UNWIND over no
\* neighbours leaves no row, so an entity without links has no neighbourhood.
Neighborhood(e) ==
  IF node[e] = NoNode \/ Linked(e) = {} THEN [nodes |-> {}, edges |-> {}]
  ELSE [nodes |-> {e} \union Linked(e) \union UNION {Linked(f) \ {e} : f \in Linked(e)},
        edges |-> {{e, f} : f \in Linked(e)}
                    \union ({{f, g} : f \in Linked(e), g \in Entity \ {e}} \intersect DOMAIN links)]

\* shortestPath((a)-[*..10]-(b)): the entities within n hops of a.
Within(a, n) ==
  LET ball[k \in 0..n] ==
        IF k = 0 THEN {a}
        ELSE ball[k - 1] \union UNION {Linked(f) : f \in ball[k - 1]}
  IN ball[n]

\* path_length counts the nodes of the path; 0 stands for found = False.
PathLength(a, b) ==
  IF node[a] = NoNode \/ node[b] = NoNode \/ b \notin Within(a, 10) THEN 0
  ELSE 1 + Min({n \in 0..10 : b \in Within(a, n)})

\* MERGE of an entity: a new node takes the report_count it is given, a known
\* one counts one report more and keeps the greater risk.
Merged(n, w) ==
  IF n = NoNode THEN [base |-> w.risk, count |-> 0]
  ELSE [base |-> Max({n.base, w.risk}), count |-> n.count + 1]

\* A link needs both its nodes; merging it again adds to its weight.
LinkMerged(l, w) ==
  IF w.ends \subseteq Known
  THEN [p \in DOMAIN l \union {w.ends} |->
          IF p = w.ends THEN (IF p \in DOMAIN l THEN l[p] + 1 ELSE 1) ELSE l[p]]
  ELSE l

-----------------------------------------------------------------------------
(* Connecting                                                               *)

\* __init__ leaves connected False until the first operation connects.
FreshGraph == [neo4j |-> FALSE, redis |-> FALSE]

\* _connect: one attempt, which verifies Neo4j and pings Redis.
Connect(p) ==
  /\ graphPc[p] = "new"
  /\ \E redis \in BOOLEAN :
       /\ conn' = [conn EXCEPT ![p] = [neo4j |-> neo4jUp, redis |-> redis]]
       /\ IF redis THEN UNCHANGED graphFaults ELSE GraphFault
  /\ Go(p, IF p \in Reader THEN "asking" ELSE IF p = Drainer THEN "popping" ELSE "writing")
  /\ issued' = IF p \in Writer /\ inHand[p].op = "add_entity"
               THEN [issued EXCEPT ![inHand[p].entity] = @ + 1] ELSE issued
  /\ UNCHANGED <<storeVars, inHand, readVars, task, everDown, raced, gone, again>>

-----------------------------------------------------------------------------
(* Readers                                                                  *)

Answered(r, a) ==
  /\ answer' = [answer EXCEPT ![r] = a]
  /\ Go(r, "done")

Asks(r, kind) == graphPc[r] = "asking" /\ reading[r].kind = kind
Reachable(r) == conn[r].neo4j /\ neo4jUp
Nothing == [nodes |-> {}, edges |-> {}]

AskRisk(r) ==
  /\ Asks(r, "risk") /\ Go(r, "lookup")
  /\ UNCHANGED <<storeVars, conn, inHand, readVars, task, everDown, raced, accountVars, graphFaults>>

\* A query that fails is answered empty, and the page goes on to the risk.
AskNeighborhood(r) ==
  /\ Asks(r, "page") /\ Go(r, "lookup")
  /\ answer' = [answer EXCEPT ![r] =
       IF Reachable(r) THEN Neighborhood(reading[r].entity) ELSE Nothing]
  /\ UNCHANGED <<storeVars, conn, inHand, reading, score, task, everDown, raced, accountVars, graphFaults>>

\* get_neighbors asks for *1..$depth, which Neo4j rejects: the entity stands alone.
Visualize(r) ==
  /\ Asks(r, "visualize")
  /\ IF conn[r].neo4j
     THEN /\ answer' = [answer EXCEPT ![r] = [Nothing EXCEPT !.nodes = {reading[r].entity}]]
          /\ Go(r, "lookup")
     ELSE Answered(r, Nothing)
  /\ UNCHANGED <<storeVars, conn, inHand, reading, score, task, everDown, raced, accountVars, graphFaults>>

AskPath(r) ==
  /\ Asks(r, "path")
  /\ LET e == reading[r].entity
     IN \E f \in Entity \ {e} :
          Answered(r, [found |-> IF Reachable(r) THEN PathLength(e, f) ELSE 0])
  /\ UNCHANGED <<storeVars, conn, inHand, reading, score, task, everDown, raced, accountVars, graphFaults>>

\* asyncio.wait_for gives the query five seconds: 504, or an empty picture.
QueryTimesOut(r) ==
  /\ graphPc[r] = "asking" /\ reading[r].kind # "risk"
  /\ GraphFault
  /\ Answered(r, IF reading[r].kind = "visualize" THEN Nothing ELSE [status |-> 504])
  /\ UNCHANGED <<storeVars, conn, inHand, reading, score, task, everDown, raced, accountVars>>

\* The page asks for the risk twice, as direct_risk and as propagated_risk.
Collected(r, v) ==
  /\ score' = [score EXCEPT ![r] = Append(@, v)]
  /\ Go(r, IF reading[r].kind = "page" /\ Len(score[r]) = 0 THEN "lookup" ELSE "done")

\* get_entity_risk: a cached risk is returned as it is.
CacheHit(r) ==
  /\ graphPc[r] = "lookup" /\ conn[r].redis
  /\ riskCache[reading[r].entity] # NoValue
  /\ Collected(r, riskCache[reading[r].entity])
  /\ UNCHANGED <<storeVars, conn, inHand, reading, answer, task, everDown, raced, accountVars, graphFaults>>

\* _compute_entity_risk: 0 without Neo4j, and 0 is never cached.
ComputeRisk(r) ==
  /\ graphPc[r] = "lookup"
  /\ \/ (~ conn[r].redis \/ riskCache[reading[r].entity] = NoValue) /\ UNCHANGED graphFaults
     \/ conn[r].redis /\ riskCache[reading[r].entity] # NoValue /\ GraphFault   \* redis.get raises
  /\ LET v == IF conn[r].neo4j /\ neo4jUp THEN EntityRisk(reading[r].entity) ELSE 0
     IN IF conn[r].redis /\ v > 0
        THEN /\ inHand' = [inHand EXCEPT ![r] = v]
             /\ Go(r, "caching")
             /\ UNCHANGED score
        ELSE Collected(r, v) /\ UNCHANGED inHand
  /\ UNCHANGED <<storeVars, conn, reading, answer, task, everDown, raced, accountVars>>

\* setex, or an error it passes over.
CacheRisk(r) ==
  /\ graphPc[r] = "caching"
  /\ \/ riskCache' = [riskCache EXCEPT ![reading[r].entity] = inHand[r]] /\ UNCHANGED graphFaults
     \/ UNCHANGED riskCache /\ GraphFault
  /\ Collected(r, inHand[r])
  /\ inHand' = [inHand EXCEPT ![r] = NoValue]
  /\ UNCHANGED <<neo4jUp, node, links, backlog, conn, reading, answer, task, everDown, raced, accountVars>>

-----------------------------------------------------------------------------
(* Writers                                                                  *)

GiveUp(w) ==
  gone' = IF w.op = "add_entity" THEN [gone EXCEPT ![w.entity] = @ + 1] ELSE gone

\* The raw write returns to its caller, or to the loop of drain_backlog.
Finished(p) ==
  /\ Go(p, IF p = Drainer THEN "popping" ELSE "done")
  /\ inHand' = [inHand EXCEPT ![p] = NoValue]

\* add_entity and add_session_link return silently when they never connected.
WriteUnconnected(p) ==
  /\ graphPc[p] = "writing" /\ p # Drainer /\ ~ conn[p].neo4j
  /\ GiveUp(inHand[p])
  /\ Finished(p)
  /\ UNCHANGED <<storeVars, conn, readVars, task, everDown, raced, issued, again, graphFaults>>

\* Readers that hold a risk computed before this write will cache it after it.
Overtaken(e) == \E r \in Reader : graphPc[r] = "caching" /\ reading[r].entity = e

Applied(w, answered) ==
  IF w.op = "add_entity"
  THEN /\ node' = [node EXCEPT ![w.entity] = Merged(@, w)]
       /\ raced' = IF Overtaken(w.entity) \/ ~ answered THEN raced \union {w.entity} ELSE raced
       /\ UNCHANGED links
  ELSE /\ links' = LinkMerged(links, w)
       /\ UNCHANGED <<node, raced>>

\* Mutant: the cache is left alone after a write.
WriteKeepsCache(p) ==
  /\ graphPc[p] = "writing" /\ conn[p].neo4j /\ neo4jUp
  /\ Applied(inHand[p], TRUE)
  /\ Finished(p)
  /\ UNCHANGED <<neo4jUp, riskCache, backlog, conn, readVars, task, everDown, accountVars, graphFaults>>

\* session.run of the MERGE; only an entity's write invalidates the cache.
WriteNeo4j(p) ==
  /\ graphPc[p] = "writing" /\ conn[p].neo4j /\ neo4jUp
  /\ Applied(inHand[p], TRUE)
  /\ IF inHand[p].op = "add_entity"
     THEN Go(p, "invalidating") /\ UNCHANGED inHand
     ELSE Finished(p)
  /\ UNCHANGED <<neo4jUp, riskCache, backlog, conn, readVars, task, everDown, accountVars, graphFaults>>

\* The write fails: Neo4j is down, or the connection is lost after the server
\* has applied it.
WriteFails(p) ==
  /\ graphPc[p] = "writing" /\ conn[p].neo4j
  /\ \/ ~ neo4jUp /\ UNCHANGED <<node, links, raced, again, graphFaults>>
     \/ /\ neo4jUp /\ GraphFault
        /\ Applied(inHand[p], FALSE)
        /\ again' = IF inHand[p].op = "add_entity"
                    THEN [again EXCEPT ![inHand[p].entity] = @ + 1] ELSE again
  /\ Go(p, "buffering")
  /\ UNCHANGED <<neo4jUp, riskCache, backlog, conn, inHand, readVars, task, everDown, issued, gone>>

\* _invalidate_cache, or an error it passes over.
Invalidate(p) ==
  /\ graphPc[p] = "invalidating"
  /\ LET e == inHand[p].entity
     IN \/ /\ conn[p].redis
           /\ riskCache' = [riskCache EXCEPT ![e] = NoValue]
           /\ UNCHANGED <<raced, graphFaults>>
        \/ /\ UNCHANGED riskCache
           /\ raced' = raced \union {e}
           /\ IF conn[p].redis THEN GraphFault ELSE UNCHANGED graphFaults
  /\ Finished(p)
  /\ UNCHANGED <<neo4jUp, node, links, backlog, conn, readVars, task, everDown, accountVars>>

\* Mutant: the drain does not buffer a write that fails once more.
BufferOnlyNew(p) ==
  /\ graphPc[p] = "buffering"
  /\ backlog' = IF p = Drainer THEN backlog ELSE <<inHand[p]>> \o backlog
  /\ Finished(p)
  /\ UNCHANGED <<neo4jUp, node, links, riskCache, conn, readVars, task, everDown, raced, accountVars, graphFaults>>

\* _buffer_to_backlog pushes the event to the head of the list, if it can.
Buffer(p) ==
  /\ graphPc[p] = "buffering"
  /\ \/ /\ conn[p].redis
        /\ backlog' = <<inHand[p]>> \o backlog
        /\ UNCHANGED <<gone, graphFaults>>
     \/ /\ GiveUp(inHand[p])
        /\ IF conn[p].redis THEN GraphFault ELSE UNCHANGED graphFaults
        /\ UNCHANGED backlog
  /\ Finished(p)
  /\ UNCHANGED <<neo4jUp, node, links, riskCache, conn, readVars, task, everDown, raced, issued, again>>

-----------------------------------------------------------------------------
(* drain_backlog                                                            *)

\* rpop takes the oldest event.  A link's event was buffered under the query's
\* parameter names a_val and b_val: payload["entity_a_id"] raises KeyError, and
\* the event is gone.
Pop ==
  /\ graphPc[Drainer] = "popping" /\ conn[Drainer].neo4j /\ conn[Drainer].redis /\ backlog # <<>>
  /\ backlog' = Front(backlog)
  /\ IF Last(backlog).op = "add_entity"
     THEN /\ inHand' = [inHand EXCEPT ![Drainer] = Last(backlog)]
          /\ Go(Drainer, "writing")
     ELSE Go(Drainer, "new") /\ UNCHANGED inHand
  /\ UNCHANGED <<neo4jUp, node, links, riskCache, conn, readVars, task, everDown, raced, accountVars, graphFaults>>

\* Mutant: an empty backlog is polled on.
DrainPollsOn ==
  /\ graphPc[Drainer] = "popping"
  /\ ~ (conn[Drainer].neo4j /\ conn[Drainer].redis)
  /\ Go(Drainer, "new")
  /\ UNCHANGED <<storeVars, conn, inHand, readVars, task, everDown, raced, accountVars, graphFaults>>

\* Nothing to drain, or no connection to drain with; the drain is called again.
DrainEnds ==
  /\ graphPc[Drainer] = "popping"
  /\ ~ (conn[Drainer].neo4j /\ conn[Drainer].redis) \/ backlog = <<>>
  /\ Go(Drainer, "new")
  /\ UNCHANGED <<storeVars, conn, inHand, readVars, task, everDown, raced, accountVars, graphFaults>>

\* The process dies with the event it has popped.
DrainerDies ==
  /\ graphPc[Drainer] \in {"writing", "buffering", "invalidating"}
  /\ GraphFault
  /\ IF graphPc[Drainer] = "invalidating"
     THEN raced' = raced \union {inHand[Drainer].entity} /\ UNCHANGED gone
     ELSE GiveUp(inHand[Drainer]) /\ UNCHANGED raced
  /\ Go(Drainer, "new")
  /\ inHand' = [inHand EXCEPT ![Drainer] = NoValue]
  /\ UNCHANGED <<storeVars, conn, readVars, task, everDown, issued, again>>

-----------------------------------------------------------------------------
(* Tasks                                                                    *)

\* propagate_risk_scores, detect_fraud_rings and trigger_ring_check test
\* connected on a graph that no operation has connected yet.
RunTask(t) ==
  /\ task' = [task EXCEPT ![t] = IF FreshGraph.neo4j THEN "success" ELSE "skipped"]
  /\ UNCHANGED <<storeVars, procVars, readVars, everDown, raced, accountVars, graphFaults>>

-----------------------------------------------------------------------------
(* Neo4j and Redis                                                          *)

Neo4jFails ==
  /\ neo4jUp /\ GraphFault
  /\ neo4jUp' = FALSE /\ everDown' = TRUE
  /\ UNCHANGED <<node, links, riskCache, backlog, procVars, readVars, task, raced, accountVars>>

Neo4jReturns ==
  /\ ~ neo4jUp /\ neo4jUp' = TRUE
  /\ UNCHANGED <<node, links, riskCache, backlog, procVars, readVars, task, everDown, raced, accountVars, graphFaults>>

\* A cached risk lives six hours.
CacheExpires(e) ==
  /\ riskCache[e] # NoValue
  /\ riskCache' = [riskCache EXCEPT ![e] = NoValue]
  /\ UNCHANGED <<neo4jUp, node, links, backlog, procVars, readVars, task, everDown, raced, accountVars, graphFaults>>

-----------------------------------------------------------------------------
GraphInit ==
  /\ neo4jUp = TRUE /\ everDown = FALSE
  /\ node = InitialNode
  /\ links = <<>>
  /\ riskCache = [e \in Entity |-> NoValue]
  /\ backlog = <<>>
  /\ graphPc = [p \in Reader \union Process |-> "new"]
  /\ conn = [p \in Reader \union Process |-> FreshGraph]
  /\ \E job \in [Writer -> WriteJob] :
       inHand = [p \in Reader \union Process |-> IF p \in Writer THEN job[p] ELSE NoValue]
  /\ reading \in [Reader -> Request]
  /\ score = [r \in Reader |-> <<>>]
  /\ answer = [r \in Reader |-> NoValue]
  /\ task = [t \in Task |-> "never"]
  /\ raced = {}
  /\ issued = [e \in Entity |-> 0]
  /\ gone = [e \in Entity |-> 0]
  /\ again = [e \in Entity |-> 0]
  /\ graphFaults = 0

Write(p) == WriteUnconnected(p) \/ WriteNeo4j(p) \/ WriteFails(p) \/ Invalidate(p) \/ Buffer(p)

GraphNext ==
  \/ \E p \in Reader \union Process : Connect(p)
  \/ \E r \in Reader :
       \/ AskRisk(r) \/ AskNeighborhood(r) \/ Visualize(r) \/ AskPath(r) \/ QueryTimesOut(r)
       \/ CacheHit(r) \/ ComputeRisk(r) \/ CacheRisk(r)
  \/ \E p \in Process : Write(p)
  \/ Pop \/ DrainEnds \/ DrainerDies
  \/ \E t \in Task : RunTask(t)
  \/ Neo4jFails \/ Neo4jReturns
  \/ \E e \in Entity : CacheExpires(e)

\* A drain that has started goes on; nothing makes Neo4j return.
GraphFairness == WF_graphVars(Pop \/ DrainEnds) /\ WF_graphVars(Write(Drainer))

GraphSpec == GraphInit /\ [][GraphNext]_graphVars /\ GraphFairness

-----------------------------------------------------------------------------
(* Properties                                                               *)

GraphTypeOK ==
  /\ neo4jUp \in BOOLEAN /\ everDown \in BOOLEAN
  /\ node \in [Entity -> [base : 0..20, count : Nat] \union {NoNode}]
  /\ \A p \in DOMAIN links : p \subseteq Entity /\ links[p] \in Nat \ {0}
  /\ riskCache \in [Entity -> 1..20 \union {NoValue}]
  /\ backlog \in Seq(EntityWrite \union LinkWrite)
  /\ graphPc \in [Reader \union Process -> {"new", "asking", "lookup", "caching", "writing",
                    "invalidating", "buffering", "popping", "done"}]
  /\ conn \in [Reader \union Process -> [neo4j : BOOLEAN, redis : BOOLEAN]]
  /\ raced \subseteq Entity

\* A cached risk is lower than the risk the entity's node carries only while
\* the write that raised it has yet to invalidate it, or when that write met a
\* reader that had computed and not yet cached, or was applied without an answer
\* or failed to invalidate
\* (entity_graph.py:205-208, 257-263, 291-296: get and setex are not one step).
StaleRiskHasACause ==
  \A e \in Known : riskCache[e] # NoValue /\ riskCache[e] < node[e].base =>
    \/ e \in raced
    \/ \E p \in Process : graphPc[p] = "invalidating" /\ inHand[p].entity = e

\* Every entity write called for is in the graph, under way, in the backlog, or
\* was given up where the code gives up: never connected, not buffered, or dead
\* with the event in hand.  What the graph holds twice was applied without an
\* answer (entity_graph.py:136-210).
Reports(n) == IF n = NoNode THEN 0 ELSE n.count + 1
Applications(e) == Reports(node[e]) - Reports(InitialNode[e])
Waiting(e) ==
  Cardinality({i \in DOMAIN backlog : backlog[i].op = "add_entity" /\ backlog[i].entity = e})
UnderWay(e) ==
  Cardinality({p \in Process : /\ graphPc[p] \in {"writing", "buffering"}
                               /\ inHand[p].op = "add_entity" /\ inHand[p].entity = e})
WritesAreAccountedFor ==
  \A e \in Entity :
    Applications(e) + Waiting(e) + UnderWay(e) + gone[e] = issued[e] + again[e]

\* A drain under way ends once Neo4j stays reachable; while it is down, the
\* drain pops from one end what its failing write pushes to the other
\* (entity_graph.py:147-175, 204-210).
DrainTerminates ==
  <>[]neo4jUp => (graphPc[Drainer] = "popping" ~> graphPc[Drainer] = "new")

\* What the tasks' docstrings and the beat schedule say: with Neo4j reachable
\* all along, a run of a task works on the graph.
TasksReachTheGraph == ~ everDown => \A t \in Task : task[t] # "skipped"
=============================================================================
