-------------------------- MODULE AuditChainProofs --------------------------
(***************************************************************************)
(* Proofs about AuditChain for any set of requests and any amount of       *)
(* tampering: the links of the log, that a broken chain or a recorded      *)
(* break is never mended by entries that commit later, and that no alarm   *)
(* is raised without a cause.                                              *)
(***************************************************************************)
EXTENDS AuditChain, WellFoundedInduction, TLAPS

\* Ids come from a sequence: positive once allocated, below its next value and
\* never shared; only committed rows can be removed.
IdsAllocated ==
  /\ \A r \in Request : id[r] < nextId
  /\ \A r \in Request : pc[r] \in {"flushed", "committed"} => id[r] > 0
  /\ \A r, s \in Request : r # s /\ id[r] > 0 => id[r] # id[s]
  /\ removed \subseteq {r \in Request : pc[r] = "committed"}

LinkInv == TypeOK /\ IdsAllocated /\ LinksPointBack

-----------------------------------------------------------------------------
(* write_audit keeps every variable in range.                               *)
LEMMA TypeInit == Init => TypeOK
  BY DEF Init, TypeOK, Hash, Break

\* Every step keeps the types.
LEMMA TypeStep == TypeOK /\ [Next]_vars => TypeOK'
<1> SUFFICES ASSUME TypeOK, [Next]_vars PROVE TypeOK'
  OBVIOUS
<1> USE DEF TypeOK, Hash
<1>1. ASSUME NEW r \in Request, ReadLastHash(r) PROVE TypeOK'
  BY <1>1 DEF ReadLastHash
<1>2. ASSUME NEW r \in Request, FlushEntry(r) PROVE TypeOK'
  BY <1>2 DEF FlushEntry
<1>3. ASSUME NEW r \in Request, CommitEntry(r) PROVE TypeOK'
  BY <1>3 DEF CommitEntry
<1>4. ASSUME NEW r \in Request, AuditWriteSkipped(r) PROVE TypeOK'
  BY <1>4 DEF AuditWriteSkipped
<1>5. ASSUME NEW r \in Request, EditRow(r) PROVE TypeOK'
  BY <1>5 DEF EditRow, Log
<1>6. ASSUME NEW r \in Request, RemoveRow(r) PROVE TypeOK'
  BY <1>6 DEF RemoveRow, Log
<1>0. ASSUME NEW r \in Request, NEW x \in BOOLEAN
      PROVE  [entry |-> r, resolved |-> x] \in Break
  BY Zenon DEF Break
<1>7. CASE RunAuditVerification
  <2>1. PICK r \in Request : breaks' = breaks \union {[entry |-> r, resolved |-> FALSE]}
    BY <1>7 DEF RunAuditVerification
  <2>2. breaks' \subseteq Break
    BY <1>0, <2>1 DEF Break
  <2>3. QED BY <1>7, <2>2 DEF RunAuditVerification
<1>8. CASE AckAuditBreak
  <2>1. PICK b \in breaks :
          breaks' = (breaks \ {b}) \union {[entry |-> b.entry, resolved |-> TRUE]}
    BY <1>8 DEF AckAuditBreak
  <2>2. b.entry \in Request
    BY <2>1 DEF Break
  <2>3. breaks' \subseteq Break
    BY <1>0, <2>1, <2>2 DEF Break
  <2>4. QED BY <1>8, <2>3 DEF AckAuditBreak
<1>9. CASE UNCHANGED vars
  BY <1>9 DEF vars
<1>10. QED
  BY <1>1, <1>2, <1>3, <1>4, <1>5, <1>6, <1>7, <1>8, <1>9 DEF Next

\* The rows and columns of the audit tables stay within their types.
THEOREM AuditTypes == Spec => []TypeOK
  BY TypeInit, TypeStep, PTL DEF Spec

-----------------------------------------------------------------------------
(* The tree of links.                                                       *)
LEMMA LinkInit == Init => LinkInv
  BY TypeInit, GenesisAssumption DEF Init, LinkInv, IdsAllocated, LinksPointBack

\* Every step keeps the links.
LEMMA LinkStep == LinkInv /\ [Next]_vars => LinkInv'
<1> SUFFICES ASSUME LinkInv, [Next]_vars PROVE IdsAllocated' /\ LinksPointBack'
  BY TypeStep DEF LinkInv
<1>a. TypeOK /\ TypeOK' /\ IdsAllocated /\ LinksPointBack
  BY TypeStep DEF LinkInv
<1>1. ASSUME NEW r \in Request, ReadLastHash(r) PROVE IdsAllocated' /\ LinksPointBack'
  <2>1. IdsAllocated'
    BY <1>1, <1>a DEF ReadLastHash, IdsAllocated, TypeOK
  <2>2. PICK h \in Hash : IsLastHash(h) /\ link' = [link EXCEPT ![r] = h]
    BY <1>1 DEF ReadLastHash
  <2>3. h = Genesis \/ (h \in Request /\ pc[h] = "committed")
    BY <2>2 DEF IsLastHash, Log
  <2>4. ASSUME NEW s \in Request, link'[s] # Genesis
        PROVE  pc'[link'[s]] = "committed"
               /\ (pc'[s] \in {"flushed", "committed"} => id'[link'[s]] < id'[s])
    <3>1. CASE s = r
      BY <1>1, <1>a, <2>2, <2>3, <2>4, <3>1 DEF ReadLastHash, TypeOK
    <3>2. CASE s # r
      BY <1>1, <1>a, <2>2, <2>4, <3>2 DEF ReadLastHash, TypeOK, LinksPointBack, Hash
    <3>3. QED BY <3>1, <3>2
  <2>5. QED BY <2>1, <2>4 DEF LinksPointBack
<1>2. ASSUME NEW r \in Request, FlushEntry(r) PROVE IdsAllocated' /\ LinksPointBack'
  <2>1. IdsAllocated'
    BY <1>2, <1>a DEF FlushEntry, IdsAllocated, TypeOK
  <2>2. LinksPointBack'
    BY <1>2, <1>a DEF FlushEntry, IdsAllocated, TypeOK, LinksPointBack, Hash
  <2>3. QED BY <2>1, <2>2
<1>3. ASSUME NEW r \in Request, CommitEntry(r) PROVE IdsAllocated' /\ LinksPointBack'
  BY <1>3, <1>a DEF CommitEntry, IdsAllocated, TypeOK, LinksPointBack, Hash
<1>4. ASSUME NEW r \in Request, AuditWriteSkipped(r)
      PROVE  IdsAllocated' /\ LinksPointBack'
  BY <1>4, <1>a DEF AuditWriteSkipped, IdsAllocated, TypeOK, LinksPointBack, Hash
<1>5. ASSUME NEW r \in Request, EditRow(r) PROVE IdsAllocated' /\ LinksPointBack'
  BY <1>5, <1>a DEF EditRow, IdsAllocated, LinksPointBack
<1>6. ASSUME NEW r \in Request, RemoveRow(r) PROVE IdsAllocated' /\ LinksPointBack'
  BY <1>6, <1>a DEF RemoveRow, IdsAllocated, LinksPointBack, Log
<1>7. CASE RunAuditVerification
  BY <1>7, <1>a DEF RunAuditVerification, IdsAllocated, LinksPointBack
<1>8. CASE AckAuditBreak
  BY <1>8, <1>a DEF AckAuditBreak, IdsAllocated, LinksPointBack
<1>9. CASE UNCHANGED vars
  BY <1>9, <1>a DEF vars, IdsAllocated, LinksPointBack
<1>10. QED
  BY <1>1, <1>2, <1>3, <1>4, <1>5, <1>6, <1>7, <1>8, <1>9 DEF Next

\* The links hold throughout.
LEMMA LinkInvariant == Spec => []LinkInv
  BY LinkInit, LinkStep, PTL DEF Spec

\* Every entry is chained to genesis or to a committed entry with a smaller id,
\* for any interleaving of any number of writers.
THEOREM LinksFormATree == Spec => []LinksPointBack
  BY LinkInvariant, PTL DEF LinkInv

-----------------------------------------------------------------------------
(* Broken stays broken.                                                     *)

\* A step that removes nothing leaves every row of the log where it is, and
\* only adds rows, late stamps and edits.
LEMMA LogGrows ==
  ASSUME LinkInv, [Next]_vars, removed' = removed
  PROVE  /\ Log \subseteq Log'
         /\ late \subseteq late' /\ edited \subseteq edited'
         /\ \A r \in Log : id'[r] = id[r] /\ link'[r] = link[r]
<1> USE DEF Log, LinkInv, TypeOK
<1>1. ASSUME NEW q \in Request,
             ReadLastHash(q) \/ FlushEntry(q) \/ CommitEntry(q) \/ AuditWriteSkipped(q)
      PROVE  /\ Log \subseteq Log'
             /\ late \subseteq late' /\ edited \subseteq edited'
             /\ \A r \in Log : id'[r] = id[r] /\ link'[r] = link[r]
  BY <1>1 DEF ReadLastHash, FlushEntry, CommitEntry, AuditWriteSkipped
<1>2. ASSUME NEW q \in Request, EditRow(q) \/ RemoveRow(q)
      PROVE  /\ Log \subseteq Log'
             /\ late \subseteq late' /\ edited \subseteq edited'
             /\ \A r \in Log : id'[r] = id[r] /\ link'[r] = link[r]
  BY <1>2 DEF EditRow, RemoveRow
<1>3. CASE RunAuditVerification \/ AckAuditBreak \/ UNCHANGED vars
  BY <1>3 DEF RunAuditVerification, AckAuditBreak, vars
<1>4. QED BY <1>1, <1>2, <1>3 DEF Next

\* An entry that fails verification fails it after every such step: a row
\* committed later can come between it and its predecessor but not become the
\* row it was chained to, which was committed before it was hashed.
LEMMA BadStaysBad ==
  ASSUME LinkInv, [Next]_vars, removed' = removed,
         NEW r \in Log, ~ EntryVerifies(Log, r)
  PROVE  r \in Log' /\ ~ EntryVerifies(Log, r)'
<1>1. /\ Log \subseteq Log'
      /\ late \subseteq late' /\ edited \subseteq edited'
      /\ \A s \in Log : id'[s] = id[s] /\ link'[s] = link[s]
  BY LogGrows
<1>2. r \in Log' /\ r \in Request
  BY <1>1 DEF Log
<1>3. link[r] # Genesis /\ link[r] \in Log' => link[r] \in Log
  <2> SUFFICES ASSUME link[r] # Genesis, link[r] \in Log' PROVE link[r] \in Log
    OBVIOUS
  <2>1. pc[link[r]] = "committed"
    BY <1>2 DEF LinkInv, LinksPointBack
  <2>2. QED BY <2>1 DEF Log
<1>4. CursorMatches(Log, r)' => CursorMatches(Log, r)
  <2> SUFFICES ASSUME CursorMatches(Log, r)' PROVE CursorMatches(Log, r)
    OBVIOUS
  <2>1. CASE link[r] = Genesis
    BY <1>1, <1>2, <2>1 DEF CursorMatches
  <2>2. CASE link[r] # Genesis
    <3>1. link'[r] = link[r] /\ id'[r] = id[r]
      BY <1>1
    <3>2. link[r] \in Log'
      BY <2>2, <3>1 DEF CursorMatches
    <3>3. link[r] \in Log
      BY <1>3, <2>2, <3>2
    <3>4. QED BY <1>1, <2>2, <3>1, <3>3 DEF CursorMatches
  <2>3. QED BY <2>1, <2>2
<1>5. QED
  BY <1>1, <1>2, <1>4 DEF EntryVerifies

\* A log that fails verification goes on failing it until rows are removed.
THEOREM BrokenIsForGood == Spec => BrokenStaysBroken
<1>1. LinkInv /\ [Next]_vars => [removed' = removed /\ ~ ChainValid => ~ ChainValid']_vars
  <2> SUFFICES ASSUME LinkInv, [Next]_vars, removed' = removed, ~ ChainValid
               PROVE  ~ ChainValid'
    OBVIOUS
  <2>1. PICK r \in Log : ~ EntryVerifies(Log, r)
    BY DEF ChainValid
  <2>2. r \in Log' /\ ~ EntryVerifies(Log, r)'
    BY <2>1, BadStaysBad
  <2>3. QED BY <2>2 DEF ChainValid
<1>2. QED
  BY <1>1, LinkInvariant, PTL DEF Spec, BrokenStaysBroken

\* Every recorded break still names an entry that fails verification.
THEOREM BreaksAreReal == Spec => []BreaksStayBroken
<1>1. Init => BreaksStayBroken
  BY DEF Init, BreaksStayBroken
<1>2. LinkInv /\ BreaksStayBroken /\ [Next]_vars => BreaksStayBroken'
  <2> SUFFICES ASSUME LinkInv, BreaksStayBroken, [Next]_vars, removed' = {},
                      NEW b \in breaks'
               PROVE  b.entry \in Log' /\ ~ EntryVerifies(Log, b.entry)'
    BY DEF BreaksStayBroken
  <2>1. removed = {}
    <3>1. removed \subseteq removed'
      BY DEF Next, vars, ReadLastHash, FlushEntry, CommitEntry, AuditWriteSkipped,
             EditRow, RemoveRow, RunAuditVerification, AckAuditBreak
    <3>2. QED BY <3>1
  <2>2. b.entry \in Log /\ ~ EntryVerifies(Log, b.entry)
    <3>1. CASE RunAuditVerification
      BY <2>1, <3>1 DEF RunAuditVerification, BreaksStayBroken, IsFirstBad
    <3>2. CASE AckAuditBreak
      BY <2>1, <3>2 DEF AckAuditBreak, BreaksStayBroken, LinkInv, TypeOK, Break
    <3>3. CASE breaks' = breaks
      BY <2>1, <3>3 DEF BreaksStayBroken
    <3>4. QED
      BY <3>1, <3>2, <3>3 DEF Next, vars, ReadLastHash, FlushEntry, CommitEntry,
         AuditWriteSkipped, EditRow, RemoveRow
  <2>3. QED BY <2>1, <2>2, BadStaysBad
<1>3. QED
  BY <1>1, <1>2, LinkInvariant, PTL DEF Spec

\* A log that verifies shows every edit, and every removal but one at its end.
THEOREM VerifyShowsTampering == Spec => []TamperEvident
<1>1. LinkInv => TamperEvident
  BY GenesisAssumption DEF LinkInv, TypeOK, TamperEvident, ChainValid, EntryVerifies,
     CursorMatches, Log
<1>2. QED BY <1>1, LinkInvariant, PTL

\* The SLA report agrees with a valid chain on every range of ids: a row before
\* r in the range cannot lie between r and its predecessor, so the predecessor
\* is in the range too.
THEOREM SlaAgrees == Spec => []SlaAgreesWithValidChain
<1>1. LinkInv => SlaAgreesWithValidChain
  <2> SUFFICES ASSUME LinkInv, ChainValid, NEW from \in 1..nextId, NEW to \in 1..nextId,
                      NEW r \in {x \in Window(from) : id[x] <= to},
                      link[r] # Genesis,
                      NEW s \in {x \in Window(from) : id[x] <= to}, id[s] < id[r]
               PROVE  CursorMatches({x \in Window(from) : id[x] <= to}, r)
    BY DEF SlaAgreesWithValidChain, AuditClean
  <2>1. /\ link[r] \in Log /\ id[link[r]] < id[r]
        /\ \A x \in Log : ~ (id[link[r]] < id[x] /\ id[x] < id[r])
    BY DEF ChainValid, EntryVerifies, CursorMatches, Window
  <2>2. id \in [Request -> Nat] /\ nextId \in Nat /\ Log \subseteq Request
    BY DEF LinkInv, TypeOK, Log
  <2>3. id[s] <= id[link[r]]
    BY <2>1, <2>2 DEF Window
  <2>4. link[r] \in {x \in Window(from) : id[x] <= to}
    BY <2>1, <2>2, <2>3 DEF Window
  <2>5. QED
    BY <2>1, <2>4 DEF CursorMatches, Window
<1>2. QED BY <1>1, LinkInvariant, PTL

\* On a range that starts inside a valid log, only its first entry fails: any other
\* finds its predecessor in the range.
THEOREM WindowsReportOne == Spec => []WindowReportsItsFirstEntry
<1>1. LinkInv => WindowReportsItsFirstEntry
  <2> SUFFICES ASSUME LinkInv, ChainValid, NEW from \in 1..nextId, NEW r \in Window(from)
               PROVE  EntryVerifies(Window(from), r) <=>
                        (\E s \in Window(from) : id[s] < id[r]) \/ link[r] = Genesis
    BY DEF WindowReportsItsFirstEntry
  <2> DEFINE W == Window(from)
  <2>1. r \in Log /\ EntryVerifies(Log, r) /\ W \subseteq Log
    BY DEF ChainValid, Window
  <2>2. id \in [Request -> Nat] /\ nextId \in Nat /\ Log \subseteq Request
    BY DEF LinkInv, TypeOK, Log
  <2>3. ASSUME link[r] = Genesis PROVE CursorMatches(W, r)
    BY <2>1, <2>3 DEF EntryVerifies, CursorMatches
  <2>4. ASSUME link[r] # Genesis, NEW s \in W, id[s] < id[r] PROVE CursorMatches(W, r)
    <3>1. /\ link[r] \in Log /\ id[link[r]] < id[r]
          /\ \A x \in Log : ~ (id[link[r]] < id[x] /\ id[x] < id[r])
      BY <2>1, <2>4 DEF EntryVerifies, CursorMatches
    <3>2. id[s] <= id[link[r]]
      BY <2>1, <2>2, <2>4, <3>1
    <3>3. link[r] \in W
      BY <2>1, <2>2, <3>1, <3>2 DEF Window
    <3> QED
      BY <2>1, <2>4, <3>1, <3>3 DEF CursorMatches
  <2>5. CursorMatches(W, r) => (\E s \in W : id[s] < id[r]) \/ link[r] = Genesis
    BY DEF CursorMatches
  <2> HIDE DEF W
  <2>6. EntryVerifies(W, r) <=> CursorMatches(W, r)
    BY <2>1 DEF EntryVerifies
  <2>7. EntryVerifies(W, r) <=> (\E s \in W : id[s] < id[r]) \/ link[r] = Genesis
    BY <2>3, <2>4, <2>5, <2>6
  <2> QED
    BY <2>7 DEF W
<1> QED
  BY <1>1, LinkInvariant, PTL

-----------------------------------------------------------------------------
(* No alarm without a cause.                                                *)

\* A set of numbers has a least one.
LEMMA LeastNumber ==
  ASSUME NEW S, S \subseteq Nat, S # {}
  PROVE  \E m \in S : \A n \in S : m <= n
<1>1. PICK m \in S : \A n \in S : ~ (<<n, m>> \in OpToRel(<, Nat))
  BY NatLessThanWellFounded, WFMin
<1>2. ASSUME NEW n \in S PROVE ~ (n < m)
  BY <1>1 DEF OpToRel
<1> QED
  BY <1>2

\* Of the rows of the log with some property, one has the least id.
LEMMA FirstRow ==
  ASSUME TypeOK, NEW S, S \subseteq Log, S # {}
  PROVE  \E r \in S : \A s \in S : id[r] <= id[s]
<1> DEFINE Ids == {id[r] : r \in S}
<1>1. Ids \subseteq Nat /\ Ids # {}
  BY DEF TypeOK, Log
<1>2. PICK n \in Ids : \A m \in Ids : n <= m
  BY <1>1, LeastNumber
<1> QED
  BY <1>2

\* In a log without removals and forks, the rows that nobody else is chained like
\* follow one another: the first row that did not continue the one before it would
\* share its link with the row in between, which does.
LEMMA RowsFollow ==
  ASSUME LinkInv, removed = {}, ~ Forked
  PROVE  \A r \in Log : CursorMatches(Log, r)
<1> DEFINE Bad == {r \in Log : ~ CursorMatches(Log, r)}
<1> SUFFICES ASSUME Bad # {} PROVE FALSE
  OBVIOUS
<1>1. PICK r \in Bad : \A s \in Bad : id[r] <= id[s]
  BY FirstRow DEF LinkInv
<1>2. /\ TypeOK /\ Log \subseteq Request /\ id \in [Request -> Nat] /\ link \in [Request -> Hash]
      /\ \A x, y \in Log : x # y => id[x] # id[y] /\ link[x] # link[y]
  BY DEF LinkInv, TypeOK, IdsAllocated, Log, Forked
<1>3. \A x \in Log : link[x] # Genesis => link[x] \in Log /\ id[link[x]] < id[x]
  BY <1>2 DEF LinkInv, LinksPointBack, Log, Hash
<1>4. r \in Log /\ ~ CursorMatches(Log, r)
  OBVIOUS
<1>5. \A x \in Log : id[x] < id[r] => CursorMatches(Log, x)
  BY <1>1, <1>2
<1>6. CASE link[r] = Genesis
  <2>1. PICK g \in Log : \A s \in Log : id[g] <= id[s]
    BY <1>2, <1>4, FirstRow
  <2>2. link[g] = Genesis
    BY <1>2, <1>3, <2>1
  <2>3. g = r
    BY <1>2, <1>4, <1>6, <2>1, <2>2
  <2> QED
    BY <1>2, <1>4, <1>6, <2>1, <2>3 DEF CursorMatches
<1>7. CASE link[r] # Genesis
  <2> DEFINE p == link[r]
             Between == {s \in Log : id[p] < id[s] /\ id[s] < id[r]}
  <2>1. p \in Log /\ id[p] < id[r]
    BY <1>3, <1>4, <1>7
  <2>2. Between # {}
    BY <1>4, <1>7, <2>1 DEF CursorMatches
  <2>3. PICK s \in Between : \A x \in Between : id[s] <= id[x]
    BY <1>2, <2>2, FirstRow
  <2>4. s \in Log /\ CursorMatches(Log, s) /\ id[p] < id[s] /\ id[s] < id[r]
    BY <1>5, <2>3
  <2>5. link[s] # Genesis
    BY <1>2, <2>1, <2>4 DEF CursorMatches
  <2>6. /\ link[s] \in Log /\ id[link[s]] < id[s]
        /\ ~ (id[link[s]] < id[p] /\ id[p] < id[s])
    BY <2>1, <2>4, <2>5 DEF CursorMatches
  <2>7. id[link[s]] <= id[p]
    BY <1>2, <2>1, <2>3, <2>4, <2>6
  <2>8. link[s] = p
    BY <1>2, <2>1, <2>4, <2>6, <2>7
  <2> QED
    BY <1>2, <1>4, <2>4, <2>8
<1> QED
  BY <1>6, <1>7

\* A log that no row was edited in or removed from, without overlapping writes, late
\* stamps and anonymous entries, verifies, however many requests were skipped.
THEOREM AlarmsAreCaused == Spec => []AlarmsHaveACause
<1>1. LinkInv => AlarmsHaveACause
  <2> SUFFICES ASSUME LinkInv, ~ Tampered, ~ Forked, Log \intersect (late \union Anonymous) = {}
               PROVE  ChainValid
    BY DEF AlarmsHaveACause
  <2>1. \A r \in Log : CursorMatches(Log, r)
    BY RowsFollow DEF Tampered
  <2> QED
    BY <2>1 DEF ChainValid, EntryVerifies, Tampered
<1> QED
  BY <1>1, LinkInvariant, PTL
=============================================================================
