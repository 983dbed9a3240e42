-------------------------- MODULE CommunityProofs --------------------------
(***************************************************************************)
(* Proofs about what the platform does with reports of fraud: recovery     *)
(* cases and notices (RecoveryCases, Interventions), the reputation of     *)
(* what was reported (CommunityIntel, BankNetwork) and its lookup          *)
(* (ReputationLookup).                                                     *)
(***************************************************************************)
EXTENDS RecoveryCases, Interventions, CommunityIntel, BankNetwork, ReputationLookup,
        FiniteSetTheorems, TLAPS

-----------------------------------------------------------------------------
(* Recovery cases                                                           *)

\* What holds of the row holds of every copy of it that a request has read, and
\* a case that was read completed stays completed.
Whole(c) ==
  /\ c.pii # "nested"
  /\ c.pii = "sealed" => everSealed
  /\ c.step <= TotalSteps
  /\ c.step = TotalSteps => c.completed
  /\ c.receipt = c.reference

ReadsHold ==
  \A r \in CaseRequest :
    /\ casePc[r] = "read" => caseRead[r] # NoCase
    /\ caseRead[r] # NoCase =>
         /\ case # NoCase /\ Whole(caseRead[r])
         /\ caseRead[r].completed => case.completed

CaseInv ==
  /\ CaseTypeOK /\ ReadsHold
  /\ keys = "local" => everSealed
  /\ "nested" \notin drafted
  /\ case # NoCase => Whole(case)

\* The fields of a case.
LEMMA CaseFields ==
  ASSUME NEW c \in Case
  PROVE  /\ c.step \in Int /\ c.completed \in BOOLEAN /\ c.pii \in Pii
         /\ c.reference \in CaseRequest \union {NoReference}
         /\ c.receipt \in CaseRequest \union {NoReference}
         /\ c # NoCase
  BY NoCaseAssumption DEF Case

\* The listener never encrypts a ciphertext.
LEMMA SealedOnce ==
  ASSUME NEW v \in Pii \ {"nested"}
  PROVE  /\ Sealed(v) \in Pii \ {"nested"}
         /\ Sealed(v) = "sealed" => v = "sealed" \/ keys = "local"
  BY DEF Sealed, IsEncrypted, EncryptField, Pii

\* There are no cases at the start.
LEMMA CaseInitInv == CaseInit => CaseInv
  BY DEF CaseInit, CaseInv, CaseTypeOK, ReadsHold

\* A row that is whole, and no less completed than what was read, keeps the rest.
LEMMA RowWritten ==
  ASSUME CaseInv, NEW r \in CaseRequest, NEW d \in Case,
         case' = d, Whole(d), case # NoCase => (case.completed => d.completed),
         casePc' = [casePc EXCEPT ![r] = "done"],
         UNCHANGED <<caseRead, keys, drafted, everSealed>>
  PROVE  CaseInv'
<1>1. d # NoCase
  BY CaseFields
<1>2. CaseTypeOK'
  BY DEF CaseInv, CaseTypeOK
<1>3. Whole(d)'
  BY DEF Whole
<1>4. ReadsHold'
  <2> SUFFICES ASSUME NEW q \in CaseRequest
               PROVE  /\ casePc'[q] = "read" => caseRead[q] # NoCase
                      /\ caseRead[q] # NoCase =>
                           /\ d # NoCase /\ Whole(caseRead[q])'
                           /\ caseRead[q].completed => d.completed
    BY DEF ReadsHold
  <2>1. casePc'[q] = "read" => casePc[q] = "read"
    BY DEF CaseInv, CaseTypeOK
  <2>2. caseRead[q] # NoCase => Whole(caseRead[q])'
    BY DEF CaseInv, ReadsHold, Whole
  <2> QED
    BY <1>1, <2>1, <2>2 DEF CaseInv, ReadsHold
<1> QED
  BY <1>1, <1>2, <1>3, <1>4 DEF CaseInv, Whole

\* A new case is at its first step, and no kind of fraud has only one.
LEMMA InitiateKeeps ==
  ASSUME CaseInv, NEW r \in CaseRequest, InitiateRecovery(r)
  PROVE  CaseInv'
<1>1. PICK v \in {"absent", "plain", "encoded"} :
        case' = [step |-> 1, completed |-> FALSE, pii |-> Sealed(v),
                 reference |-> NoReference, receipt |-> NoReference]
  BY DEF InitiateRecovery
<1>2. /\ Sealed(v) \in Pii \ {"nested"}
      /\ Sealed(v) = "sealed" => everSealed
  BY SealedOnce DEF Pii, CaseInv
<1> DEFINE d == [step |-> 1, completed |-> FALSE, pii |-> Sealed(v),
                 reference |-> NoReference, receipt |-> NoReference]
<1>3. d \in Case
  BY <1>2 DEF Case
<1>4. TotalSteps \in Int /\ TotalSteps > 1
  BY StepsAssumption
<1>5. Whole(d)
  BY <1>2, <1>4 DEF Whole
<1>6. /\ case = NoCase /\ casePc' = [casePc EXCEPT ![r] = "done"]
      /\ UNCHANGED <<caseRead, keys, drafted, everSealed>>
  BY DEF InitiateRecovery, CaseAnswered
<1> HIDE DEF d
<1> QED
  BY <1>1, <1>3, <1>5, <1>6, RowWritten DEF d

\* An update works on what it has read, which may be stale, and writes only what
\* it has changed.
LEMMA UpdateKeeps ==
  ASSUME CaseInv, NEW r \in CaseRequest, NEW step \in 0..TotalSteps + 1,
         UpdateRecoveryStatus(r, step)
  PROVE  CaseInv'
<1> DEFINE old == caseRead[r]
           last == Capped(step)
           done == old.completed \/ last >= TotalSteps
<1>1. /\ old \in Case /\ case \in Case /\ Whole(old) /\ Whole(case)
      /\ old.completed => case.completed
  BY DEF UpdateRecoveryStatus, CaseInv, CaseTypeOK, ReadsHold
<1>2. last \in Int /\ last <= TotalSteps /\ TotalSteps \in Int
  BY StepsAssumption DEF Capped
<1>3. PICK s, b, v :
        /\ s = Stored(old.step, last, case.step)
        /\ b = Stored(old.completed, done, case.completed)
        /\ v = Stored(old.pii, Sealed(old.pii), case.pii)
        /\ case' = [case EXCEPT !.step = s, !.completed = b, !.pii = v]
  BY DEF UpdateRecoveryStatus
<1>4. /\ s \in Int /\ s <= TotalSteps
      /\ s = case.step \/ s = last
  BY <1>1, <1>2, <1>3, CaseFields DEF Stored, Whole
<1>5. /\ b \in BOOLEAN
      /\ case.completed => b
      /\ last >= TotalSteps => b
  <2>1. done \in BOOLEAN /\ old.completed \in BOOLEAN /\ case.completed \in BOOLEAN
    BY <1>1, CaseFields
  <2>2. last >= TotalSteps => done
    OBVIOUS
  <2>3. old.completed => done
    OBVIOUS
  <2>4. old.completed => case.completed
    BY <1>1
  <2>5. b = IF done = old.completed THEN case.completed ELSE done
    BY <1>3 DEF Stored
  <2> HIDE DEF done, old
  <2> QED
    BY <2>1, <2>2, <2>3, <2>4, <2>5
<1>6. /\ v \in Pii \ {"nested"}
      /\ v = "sealed" => everSealed
  <2>1. /\ old.pii \in Pii \ {"nested"} /\ case.pii \in Pii \ {"nested"}
        /\ old.pii = "sealed" => everSealed
        /\ case.pii = "sealed" => everSealed
    BY <1>1, CaseFields DEF Whole
  <2>2. /\ Sealed(old.pii) \in Pii \ {"nested"}
        /\ Sealed(old.pii) = "sealed" => everSealed
    BY <2>1, SealedOnce DEF CaseInv
  <2> QED
    BY <1>3, <2>1, <2>2 DEF Stored
<1> DEFINE d == [case EXCEPT !.step = s, !.completed = b, !.pii = v]
<1>7. /\ d \in Case
      /\ d.step = s /\ d.completed = b /\ d.pii = v
      /\ d.reference = case.reference /\ d.receipt = case.receipt
  BY <1>1, <1>4, <1>5, <1>6 DEF Case
<1>8. s = TotalSteps => b
  <2>1. s = TotalSteps => case.completed \/ last >= TotalSteps
    BY <1>1, <1>2, <1>4 DEF Whole
  <2> QED
    BY <1>5, <2>1
<1>9. Whole(d)
  BY <1>1, <1>4, <1>6, <1>7, <1>8 DEF Whole
<1>10. /\ casePc' = [casePc EXCEPT ![r] = "done"]
       /\ UNCHANGED <<caseRead, keys, drafted, everSealed>>
  BY DEF UpdateRecoveryStatus, CaseAnswered
<1>11. case.completed => d.completed
  BY <1>5, <1>7
<1>12. case' = d
  BY <1>3
<1> HIDE DEF d
<1> QED
  BY <1>7, <1>9, <1>10, <1>11, <1>12, RowWritten

\* A submission to the 1930 portal keeps cases whole.
LEMMA SubmitKeeps ==
  ASSUME CaseInv, NEW r \in CaseRequest, SubmitTo1930(r)
  PROVE  CaseInv'
<1> DEFINE old == caseRead[r]
<1>1. old \in Case /\ case \in Case /\ Whole(old) /\ Whole(case)
  BY DEF SubmitTo1930, CaseInv, CaseTypeOK, ReadsHold
<1>2. PICK v :
        /\ v = Stored(old.pii, Sealed(old.pii), case.pii)
        /\ case' = [case EXCEPT !.reference = r, !.receipt = r, !.pii = v]
  BY DEF SubmitTo1930, SandboxReference
<1>3. /\ v \in Pii \ {"nested"}
      /\ v = "sealed" => everSealed
  <2>1. /\ old.pii \in Pii \ {"nested"} /\ case.pii \in Pii \ {"nested"}
        /\ old.pii = "sealed" => everSealed
        /\ case.pii = "sealed" => everSealed
    BY <1>1, CaseFields DEF Whole
  <2>2. /\ Sealed(old.pii) \in Pii \ {"nested"}
        /\ Sealed(old.pii) = "sealed" => everSealed
    BY <2>1, SealedOnce DEF CaseInv
  <2> QED
    BY <1>2, <2>1, <2>2 DEF Stored
<1> DEFINE d == [case EXCEPT !.reference = r, !.receipt = r, !.pii = v]
<1>4. /\ d \in Case
      /\ d.step = case.step /\ d.completed = case.completed /\ d.pii = v
      /\ d.reference = r /\ d.receipt = r
  BY <1>1, <1>3 DEF Case
<1>5. Whole(d)
  BY <1>1, <1>3, <1>4 DEF Whole
<1>6. /\ casePc' = [casePc EXCEPT ![r] = "done"]
      /\ UNCHANGED <<caseRead, keys, drafted, everSealed>>
  BY DEF SubmitTo1930, CaseAnswered
<1>7. case.completed => d.completed
  BY <1>4
<1>8. case' = d
  BY <1>2
<1> HIDE DEF d
<1> QED
  BY <1>4, <1>5, <1>6, <1>7, <1>8, RowWritten

\* The steps that write no case.
LEMMA OtherCaseSteps ==
  ASSUME CaseInv,
         \/ \E r \in CaseRequest : ReadCase(r) \/ DraftComplaint(r) \/ ShowCase(r)
         \/ \E k \in {"none", "local", "kms"} : RestartWithKeys(k)
  PROVE  CaseInv'
<1>1. case' = case
  BY DEF ReadCase, DraftComplaint, ShowCase, RestartWithKeys
<1>2. ASSUME NEW r \in CaseRequest, ReadCase(r)
      PROVE  CaseInv'
  <2>1. /\ caseRead' = [caseRead EXCEPT ![r] = case]
        /\ casePc' = [casePc EXCEPT ![r] = IF case = NoCase THEN "notFound" ELSE "read"]
        /\ UNCHANGED <<keys, drafted, everSealed>>
    BY <1>2 DEF ReadCase, CaseAnswered
  <2>2. CaseTypeOK'
    BY <1>1, <2>1 DEF CaseInv, CaseTypeOK
  <2>3. ReadsHold'
    <3> SUFFICES ASSUME NEW q \in CaseRequest
                 PROVE  /\ casePc'[q] = "read" => caseRead'[q] # NoCase
                        /\ caseRead'[q] # NoCase =>
                             /\ case # NoCase /\ Whole(caseRead'[q])
                             /\ caseRead'[q].completed => case.completed
      BY <1>1, <2>1 DEF ReadsHold, Whole
    <3>1. CASE q = r
      BY <2>1, <3>1 DEF CaseInv, CaseTypeOK
    <3>2. CASE q # r
      BY <2>1, <3>2 DEF CaseInv, CaseTypeOK, ReadsHold
    <3> QED
      BY <3>1, <3>2
  <2> QED
    BY <1>1, <2>1, <2>2, <2>3 DEF CaseInv, Whole
<1>3. ASSUME NEW r \in CaseRequest, DraftComplaint(r)
      PROVE  CaseInv'
  <2>1. /\ UNCHANGED <<caseRead, keys, everSealed>>
        /\ casePc' = [casePc EXCEPT ![r] = "done"] /\ casePc[r] = "read"
    BY <1>3 DEF DraftComplaint, CaseAnswered
  <2>2. PICK shown \in {DraftText(caseRead[r].pii), PdfText(caseRead[r].pii)} :
          drafted' = drafted \union {shown}
    BY <1>3 DEF DraftComplaint
  <2>3. caseRead[r] \in Case /\ Whole(caseRead[r])
    BY <2>1 DEF CaseInv, CaseTypeOK, ReadsHold
  <2>4. caseRead[r].pii \in Pii \ {"nested"}
    BY <2>3, CaseFields DEF Whole
  <2>5. shown \in (Pii \ {"absent", "nested"}) \union {"placeholder", "blank"}
    BY <2>2, <2>4 DEF DraftText, PdfText
  <2>6. CaseTypeOK' /\ "nested" \notin drafted'
    BY <1>1, <2>1, <2>2, <2>5 DEF CaseInv, CaseTypeOK, Pii
  <2>7. ReadsHold'
    BY <1>1, <2>1 DEF CaseInv, CaseTypeOK, ReadsHold, Whole
  <2> QED
    BY <1>1, <2>1, <2>6, <2>7 DEF CaseInv, Whole
<1>4. ASSUME NEW r \in CaseRequest, ShowCase(r)
      PROVE  CaseInv'
  <2>1. /\ UNCHANGED <<caseRead, keys, drafted, everSealed>>
        /\ \E c \in {"done", "notFound"} : casePc' = [casePc EXCEPT ![r] = c]
    BY <1>4 DEF ShowCase, CaseAnswered
  <2>2. CaseTypeOK'
    BY <1>1, <2>1 DEF CaseInv, CaseTypeOK
  <2>3. ReadsHold'
    BY <1>1, <2>1 DEF CaseInv, CaseTypeOK, ReadsHold, Whole
  <2> QED
    BY <1>1, <2>1, <2>2, <2>3 DEF CaseInv, Whole
<1>5. ASSUME NEW k \in {"none", "local", "kms"}, RestartWithKeys(k)
      PROVE  CaseInv'
  <2>1. /\ UNCHANGED <<caseRead, drafted>>
        /\ keys' = k /\ everSealed' = (everSealed \/ k = "local")
        /\ casePc' = [r \in CaseRequest |-> IF casePc[r] = "read" THEN "killed" ELSE casePc[r]]
    BY <1>5 DEF RestartWithKeys
  <2>2. CaseTypeOK'
    BY <1>1, <2>1 DEF CaseInv, CaseTypeOK
  <2>3. everSealed => everSealed'
    BY <2>1
  <2>4. ReadsHold'
    BY <1>1, <2>1, <2>3 DEF CaseInv, ReadsHold, Whole
  <2>5. case # NoCase => Whole(case)'
    BY <1>1, <2>3 DEF CaseInv, Whole
  <2>6. keys' = "local" => everSealed'
    BY <2>1
  <2> QED
    BY <1>1, <2>1, <2>2, <2>4, <2>5, <2>6 DEF CaseInv
<1> QED
  BY <1>2, <1>3, <1>4, <1>5

\* Every step of a case keeps it whole.
LEMMA CasesInvariant == CaseSpec => []CaseInv
<1>1. CaseInv /\ [CaseNext]_caseVars => CaseInv'
  <2> SUFFICES ASSUME CaseInv, [CaseNext]_caseVars
               PROVE  CaseInv'
    OBVIOUS
  <2>1. CASE UNCHANGED caseVars
    BY <2>1 DEF caseVars, CaseInv, CaseTypeOK, ReadsHold, Whole
  <2>2. CASE CaseNext
    BY <2>2, InitiateKeeps, UpdateKeeps, SubmitKeeps, OtherCaseSteps DEF CaseNext
  <2> QED
    BY <2>1, <2>2
<1> QED
  BY <1>1, CaseInitInv, PTL DEF CaseSpec

\* Through any overlap of requests and any change of keys, no personal field is
\* encrypted twice or before the local key was set, a case at its last step is
\* completed, and reference and receipt are of one submission.
THEOREM CasesStayWhole == CaseSpec => []CaseStaysWhole
<1>1. CaseInv => CaseStaysWhole
  BY DEF CaseInv, CaseStaysWhole, Whole
<1> QED
  BY <1>1, CasesInvariant, PTL

-----------------------------------------------------------------------------
(* Notices                                                                  *)

Limit(n) == IF n \in Freeze THEN 1 ELSE WARNING_ATTEMPTS

\* No more arrives than was posted, and no more is posted than the limit.
Counts(n) ==
  /\ attempts[n] \in Nat /\ delivered[n] \in Nat
  /\ delivered[n] <= attempts[n]
  /\ attempts[n] <= Limit(n)
  /\ noticePc[n] = "new" => attempts[n] = 0
  /\ noticePc[n] = "posting" => attempts[n] < Limit(n)
  /\ noticePc[n] = "sent" => delivered[n] >= 1
  /\ noticePc[n] \in {"error", "dashboard_only", "outbound_disabled"} => attempts[n] = 0

NoticeInv ==
  /\ DOMAIN noticePc = Notice /\ DOMAIN attempts = Notice /\ DOMAIN delivered = Notice
  /\ noticePc = [n \in Notice |-> noticePc[n]]
  /\ attempts = [n \in Notice |-> attempts[n]]
  /\ delivered = [n \in Notice |-> delivered[n]]
  /\ channels.bank \in {"none", "dashboard", "webhook"}
  /\ \A n \in Notice : Counts(n)

\* Nothing was requested at the start.
LEMMA NoticeInitInv == InterventionInit => NoticeInv
  BY DEF InterventionInit, NoticeInv, Counts, Limit, WARNING_ATTEMPTS

\* A request for a freeze or a warning keeps notices honest.
LEMMA RequestKeeps ==
  ASSUME NoticeInv,
         (\E f \in Freeze : RequestFreeze(f)) \/ (\E w \in Warning : RequestWarning(w))
  PROVE  NoticeInv'
<1>1. PICK n \in Notice, c \in {"error", "dashboard_only", "posting", "outbound_disabled"} :
        /\ noticePc[n] = "new" /\ noticePc' = [noticePc EXCEPT ![n] = c]
        /\ UNCHANGED <<channels, attempts, delivered>>
  <2>1. channels.bank \in {"none", "dashboard", "webhook"}
    BY DEF NoticeInv
  <2>2. ASSUME NEW f \in Freeze, RequestFreeze(f)
        PROVE  /\ noticePc[f] = "new" /\ UNCHANGED <<channels, attempts, delivered>>
               /\ \E c \in {"error", "dashboard_only", "posting", "outbound_disabled"} :
                    noticePc' = [noticePc EXCEPT ![f] = c]
    BY <2>1, <2>2, Zenon DEF RequestFreeze, NoticeAnswered
  <2>3. ASSUME NEW w \in Warning, RequestWarning(w)
        PROVE  /\ noticePc[w] = "new" /\ UNCHANGED <<channels, attempts, delivered>>
               /\ \E c \in {"error", "dashboard_only", "posting", "outbound_disabled"} :
                    noticePc' = [noticePc EXCEPT ![w] = c]
    BY <2>3 DEF RequestWarning, NoticeAnswered
  <2> QED
    BY <2>2, <2>3 DEF Notice
<1>2. \A m \in Notice : Counts(m)'
  <2> SUFFICES ASSUME NEW m \in Notice
               PROVE  Counts(m)'
    OBVIOUS
  <2>1. Counts(m) /\ Limit(m) > 0
    BY DEF NoticeInv, Limit, WARNING_ATTEMPTS
  <2>2. noticePc'[m] = IF m = n THEN c ELSE noticePc[m]
    BY <1>1 DEF NoticeInv
  <2> QED
    BY <1>1, <2>1, <2>2 DEF Counts, Limit
<1> QED
  BY <1>1, <1>2 DEF NoticeInv

\* The answer of the bank, or its absence, keeps notices honest.
LEMMA PostKeeps ==
  ASSUME NoticeInv,
         (\E f \in Freeze : PostFreeze(f)) \/ (\E w \in Warning : PostWarning(w))
  PROVE  NoticeInv'
<1>1. PICK n \in Notice, last \in BOOLEAN :
        /\ Post(n, last)
        /\ ~ last => attempts[n] + 1 < Limit(n)
  <2>1. ASSUME NEW w \in Warning, PostWarning(w)
        PROVE  ~ (attempts[w] + 1 = WARNING_ATTEMPTS) => attempts[w] + 1 < Limit(w)
    <3>1. w \in Notice /\ Post(w, attempts[w] + 1 = WARNING_ATTEMPTS)
      BY <2>1 DEF PostWarning, Notice
    <3>2. Counts(w) /\ noticePc[w] = "posting"
      BY <3>1 DEF Post, NoticeInv
    <3> QED
      BY <2>1, <3>2, NoticeAssumption DEF Counts, Limit, WARNING_ATTEMPTS
  <2> QED
    BY <2>1 DEF PostFreeze, PostWarning, Notice
<1>2. PICK k \in {0, 1}, c \in {"sent", "failed", "posting"} :
        /\ delivered' = [delivered EXCEPT ![n] = @ + k]
        /\ noticePc' = [noticePc EXCEPT ![n] = c]
        /\ c = "sent" => k = 1
        /\ c = "posting" => ~ last
  BY <1>1 DEF Post, Succeeded, NoticeAnswered
<1>3. /\ noticePc[n] = "posting" /\ attempts' = [attempts EXCEPT ![n] = @ + 1]
      /\ UNCHANGED channels
  BY <1>1 DEF Post
<1>4. \A m \in Notice : Counts(m)'
  <2> SUFFICES ASSUME NEW m \in Notice
               PROVE  Counts(m)'
    OBVIOUS
  <2>1. Counts(m) /\ Counts(n)
    BY DEF NoticeInv
  <2>2. CASE m # n
    <3>1. /\ noticePc'[m] = noticePc[m] /\ attempts'[m] = attempts[m]
          /\ delivered'[m] = delivered[m]
      BY <1>2, <1>3, <2>2 DEF NoticeInv
    <3> QED
      BY <2>1, <3>1 DEF Counts, Limit
  <2>3. CASE m = n
    <3>1. /\ noticePc'[n] = c /\ attempts'[n] = attempts[n] + 1
          /\ delivered'[n] = delivered[n] + k
      BY <1>2, <1>3 DEF NoticeInv
    <3>2. Limit(n) \in Nat
      BY DEF Limit, WARNING_ATTEMPTS
    <3> QED
      BY <1>1, <1>2, <1>3, <2>1, <2>3, <3>1, <3>2 DEF Counts, Limit
  <2> QED
    BY <2>2, <2>3
<1> QED
  BY <1>2, <1>3, <1>4 DEF NoticeInv

\* What is posted and what arrives stays within the limits.
LEMMA NoticesInvariant == InterventionSpec => []NoticeInv
<1>1. NoticeInv /\ [InterventionNext]_interventionVars => NoticeInv'
  <2> SUFFICES ASSUME NoticeInv, [InterventionNext]_interventionVars
               PROVE  NoticeInv'
    OBVIOUS
  <2>1. CASE UNCHANGED <<channels, noticeVars>>
    BY <2>1 DEF noticeVars, NoticeInv, Counts, Limit
  <2>2. CASE InterventionNext
    BY <2>1, <2>2, RequestKeeps, PostKeeps
       DEF InterventionNext, TriggerIntervention, NormalizeAndEmit, EvaluateIntervention,
           EmitToSink, noticeVars
  <2>3. UNCHANGED interventionVars => UNCHANGED <<channels, noticeVars>>
    BY DEF interventionVars
  <2> QED
    BY <2>1, <2>2, <2>3
<1> QED
  BY <1>1, NoticeInitInv, PTL DEF InterventionSpec

\* Whatever the other side answers or fails to answer: "sent" was delivered, an
\* answer that names a missing channel sent nothing, and no notice is delivered
\* more often than its limit.
THEOREM NoticesStayHonest == InterventionSpec => []NoticesAreHonest
<1>1. NoticeInv => NoticesAreHonest
  BY DEF NoticeInv, NoticesAreHonest, Counts, Limit, WARNING_ATTEMPTS
<1> QED
  BY <1>1, NoticesInvariant, PTL

-----------------------------------------------------------------------------
(* Reputation                                                               *)

Accepted(e) == {p \in Report : reportPc[p] = "accepted" /\ Reported[p] = e}

Listed(f) == IF f.source = "threat_intel" THEN 1 ELSE 0

\* What ReputationIsBacked says of one row.
Backed(f, e) ==
  f # NoRow =>
    /\ f.count <= AcceptedReports(e) + Listed(f)
    /\ f.confirmed => Listed(f) = 1 \/ AcceptedReports(e) >= CONFIRMATION_THRESHOLD

\* A copy that was read is backed however old it is, and is of the same source as
\* the row that it will be written to.
CopyHolds(f, e) ==
  f # NoRow => /\ Backed(f, e)
               /\ flagged[e] # NoRow /\ flagged[e].source = f.source

IntelInv ==
  /\ IntelTypeOK
  /\ \A e \in Suspect : /\ IsFiniteSet(Accepted(e))
                        /\ Backed(flagged[e], e)
                        /\ CopyHolds(rowRead[e], e)
                        /\ rowRead[e] # NoRow => rowRead[e].count > 0
  /\ \A p \in Report : CopyHolds(rowRead[p], Reported[p])

\* Finitely many accepted reports have a number.
LEMMA AcceptedCount ==
  ASSUME NEW e, IsFiniteSet(Accepted(e))
  PROVE  AcceptedReports(e) \in Nat
  BY FS_CardinalityType DEF AcceptedReports, Accepted

\* More reports back what fewer did.
LEMMA BackedOn ==
  ASSUME NEW f \in Flagged \union {NoRow}, NEW e,
         IsFiniteSet(Accepted(e)), IsFiniteSet(Accepted(e))',
         AcceptedReports(e)' >= AcceptedReports(e),
         Backed(f, e)
  PROVE  Backed(f, e)'
<1>1. AcceptedReports(e) \in Nat /\ AcceptedReports(e)' \in Nat
  BY AcceptedCount, FS_CardinalityType DEF AcceptedReports, Accepted
<1>2. f # NoRow => f.count \in Nat
  BY DEF Flagged
<1> QED
  BY <1>1, <1>2 DEF Backed, Listed, CONFIRMATION_THRESHOLD

\* A step that writes rows, none of them away or from another source.
LEMMA RowsStayBacked ==
  ASSUME IntelInv, IntelTypeOK',
         \A e \in Suspect : /\ IsFiniteSet(Accepted(e))'
                            /\ AcceptedReports(e)' >= AcceptedReports(e)
                            /\ flagged[e] # NoRow =>
                                 flagged'[e] # NoRow /\ flagged'[e].source = flagged[e].source
                            /\ Backed(flagged[e], e)',
         \A x \in Report \union Suspect : rowRead'[x] \in {rowRead[x], NoRow}
  PROVE  IntelInv'
<1>1. ASSUME NEW x \in Report \union Suspect, NEW e \in Suspect, CopyHolds(rowRead[x], e)
      PROVE  CopyHolds(rowRead[x], e)'
  <2>1. CASE rowRead'[x] = NoRow
    BY <2>1 DEF CopyHolds
  <2>2. CASE rowRead'[x] = rowRead[x] /\ rowRead[x] # NoRow
    <3>1. rowRead[x] \in Flagged \union {NoRow} /\ Backed(rowRead[x], e)
      BY <1>1, <2>2 DEF IntelInv, IntelTypeOK, CopyHolds
    <3>2. PICK f \in Flagged \union {NoRow} : f = rowRead[x]
      BY <3>1
    <3>3. Backed(f, e)'
      BY <3>1, <3>2, BackedOn DEF IntelInv
    <3>4. Backed(rowRead[x], e)'
      BY <2>2, <3>2, <3>3 DEF Backed
    <3> QED
      BY <1>1, <2>2, <3>4 DEF CopyHolds
  <2> QED
    BY <2>1, <2>2
<1>2. \A p \in Report : CopyHolds(rowRead[p], Reported[p])'
  BY <1>1, ReportedAssumption DEF IntelInv
<1>3. \A e \in Suspect : CopyHolds(rowRead[e], e)' /\ (rowRead'[e] # NoRow => rowRead'[e].count > 0)
  BY <1>1 DEF IntelInv
<1> QED
  BY <1>2, <1>3 DEF IntelInv

\* A step that writes no row.
LEMMA RowsAreRead ==
  ASSUME IntelInv, IntelTypeOK', UNCHANGED flagged,
         \A e \in Suspect : Accepted(e)' = Accepted(e),
         \A p \in Report : rowRead'[p] \in {rowRead[p], flagged[Reported[p]], NoRow},
         \A e \in Suspect :
           \/ rowRead'[e] \in {rowRead[e], NoRow}
           \/ rowRead'[e] = flagged[e] /\ flagged[e].count > 0
  PROVE  IntelInv'
<1>1. \A e \in Suspect : /\ IsFiniteSet(Accepted(e))'
                         /\ AcceptedReports(e)' = AcceptedReports(e)
  BY DEF IntelInv, AcceptedReports, Accepted
<1>2. ASSUME NEW f, NEW e \in Suspect
      PROVE  /\ Backed(f, e) => Backed(f, e)'
             /\ CopyHolds(f, e) => CopyHolds(f, e)'
  BY <1>1 DEF Backed, CopyHolds
<1>3. \A e \in Suspect : CopyHolds(flagged[e], e) /\ CopyHolds(NoRow, e)
  BY DEF IntelInv, CopyHolds
<1>4. ASSUME NEW p \in Report PROVE CopyHolds(rowRead[p], Reported[p])'
  <2>1. PICK f : f = rowRead'[p] /\ CopyHolds(f, Reported[p])
    BY <1>3, ReportedAssumption DEF IntelInv
  <2>2. CopyHolds(f, Reported[p])'
    BY <1>2, <2>1, ReportedAssumption
  <2> QED
    BY <2>1, <2>2 DEF CopyHolds, Backed
<1>5. ASSUME NEW e \in Suspect PROVE CopyHolds(rowRead[e], e)'
  <2>1. PICK f : f = rowRead'[e] /\ CopyHolds(f, e)
    BY <1>3 DEF IntelInv
  <2>2. CopyHolds(f, e)'
    BY <1>2, <2>1
  <2> QED
    BY <2>1, <2>2 DEF CopyHolds, Backed
<1>6. \A e \in Suspect : Backed(flagged[e], e)' /\ (rowRead'[e] # NoRow => rowRead'[e].count > 0)
  <2> SUFFICES ASSUME NEW e \in Suspect
               PROVE  Backed(flagged[e], e)' /\ (rowRead'[e] # NoRow => rowRead'[e].count > 0)
    OBVIOUS
  <2>1. PICK f : f = flagged[e] /\ Backed(f, e)
    BY DEF IntelInv
  <2>2. Backed(f, e)'
    BY <1>2, <2>1
  <2> QED
    BY <2>1, <2>2 DEF Backed, IntelInv
<1> QED
  BY <1>1, <1>4, <1>5, <1>6 DEF IntelInv

\* There are no reports at the start.
LEMMA IntelInitInv == IntelInit => IntelInv
<1> SUFFICES ASSUME IntelInit PROVE IntelInv
  OBVIOUS
<1>1. IntelTypeOK
  BY DEF IntelInit, IntelTypeOK
<1>2. \A e \in Suspect : Accepted(e) = {}
  BY DEF IntelInit, Accepted
<1>3. \A e \in Suspect : IsFiniteSet(Accepted(e))
  BY <1>2, FS_EmptySet
<1> QED
  BY <1>1, <1>3, ReportedAssumption DEF IntelInit, IntelInv, Backed, CopyHolds

\* An accepted report counts for its entity, and for no other.
LEMMA AcceptedOnce ==
  ASSUME IntelInv, NEW p \in Report, reportPc[p] = "read",
         reportPc' = [reportPc EXCEPT ![p] = "accepted"]
  PROVE  \A e \in Suspect :
           /\ IsFiniteSet(Accepted(e))'
           /\ AcceptedReports(e)' = AcceptedReports(e) + (IF e = Reported[p] THEN 1 ELSE 0)
<1> SUFFICES ASSUME NEW e \in Suspect
             PROVE  /\ IsFiniteSet(Accepted(e))'
                    /\ AcceptedReports(e)' = AcceptedReports(e) + (IF e = Reported[p] THEN 1 ELSE 0)
  OBVIOUS
<1>1. IsFiniteSet(Accepted(e)) /\ p \notin Accepted(e) /\ AcceptedReports(e) \in Nat
  BY AcceptedCount DEF IntelInv, Accepted
<1>2. CASE e = Reported[p]
  <2>1. Accepted(e)' = Accepted(e) \union {p}
    BY <1>2 DEF IntelInv, IntelTypeOK, Accepted
  <2>2. IsFiniteSet(Accepted(e)') /\ Cardinality(Accepted(e)') = Cardinality(Accepted(e)) + 1
    BY <1>1, <2>1, FS_AddElement
  <2> QED
    BY <1>2, <2>2 DEF AcceptedReports, Accepted
<1>3. CASE e # Reported[p]
  <2>1. Accepted(e)' = Accepted(e)
    BY <1>3 DEF IntelInv, IntelTypeOK, Accepted
  <2>2. AcceptedReports(e)' = AcceptedReports(e)
    BY <2>1 DEF AcceptedReports, Accepted
  <2> QED
    BY <1>1, <1>3, <2>1, <2>2
<1> QED
  BY <1>2, <1>3

\* The row a report commits shows one more report than the copy it had read.
LEMMA CommitKeeps ==
  ASSUME IntelInv, NEW p \in Report, CommitReport(p)
  PROVE  IntelInv'
<1> DEFINE e == Reported[p]
<1>1. /\ e \in Suspect /\ IntelTypeOK /\ reportPc[p] = "read" /\ AcceptedReports(e) \in Nat
      /\ rowRead[p] \in Flagged \union {NoRow} /\ flagged[e] \in Flagged \union {NoRow}
      /\ CopyHolds(rowRead[p], e) /\ Backed(flagged[e], e)
  BY ReportedAssumption, AcceptedCount DEF CommitReport, IntelInv, IntelTypeOK
<1>2. \A x \in Suspect :
        /\ IsFiniteSet(Accepted(x))'
        /\ AcceptedReports(x)' = AcceptedReports(x) + (IF x = e THEN 1 ELSE 0)
        /\ AcceptedReports(x) \in Nat
  BY <1>1, AcceptedOnce, AcceptedCount DEF CommitReport, IntelInv
<1> HIDE DEF e
<1>3. PICK f \in Flagged :
        /\ flagged' = [flagged EXCEPT ![e] = f]
        /\ f.count <= AcceptedReports(e) + 1 + Listed(f)
        /\ f.confirmed => Listed(f) = 1 \/ AcceptedReports(e) + 1 >= CONFIRMATION_THRESHOLD
        /\ flagged[e] # NoRow => f.source = flagged[e].source
  <2>1. CASE rowRead[p] # NoRow /\ flagged' = [flagged EXCEPT ![e] = Counted(rowRead[p], flagged[e])]
    <3>1. /\ rowRead[p] \in Flagged /\ flagged[e] \in Flagged
          /\ Backed(rowRead[p], e) /\ flagged[e].source = rowRead[p].source
      BY <1>1, <2>1 DEF CopyHolds
    <3>2. PICK c \in BOOLEAN :
            /\ Counted(rowRead[p], flagged[e]) =
                 [flagged[e] EXCEPT !.count = rowRead[p].count + 1, !.recent = TRUE, !.confirmed = c]
            /\ c => flagged[e].confirmed \/ rowRead[p].confirmed
                    \/ rowRead[p].count + 1 >= CONFIRMATION_THRESHOLD
      BY <3>1 DEF Counted, Written, Flagged
    <3> DEFINE g == [flagged[e] EXCEPT !.count = rowRead[p].count + 1, !.recent = TRUE, !.confirmed = c]
    <3>3. /\ g \in Flagged /\ g.count = rowRead[p].count + 1 /\ g.confirmed = c
          /\ g.source = flagged[e].source
      <4>1. rowRead[p].count + 1 \in Nat
        BY <3>1 DEF Flagged
      <4>2. PICK a \in Flagged, n \in Nat : a = flagged[e] /\ n = rowRead[p].count + 1
        BY <3>1, <4>1
      <4>3. [a EXCEPT !.count = n, !.recent = TRUE, !.confirmed = c] \in Flagged
        BY DEF Flagged
      <4>4. g \in Flagged
        BY <4>2, <4>3
      <4>5. g.count = n /\ g.confirmed = c /\ g.source = a.source
        BY <4>2 DEF Flagged
      <4> QED
        BY <4>2, <4>4, <4>5
    <3>4. Listed(g) = Listed(rowRead[p]) /\ Listed(g) = Listed(flagged[e]) /\ Listed(g) \in {0, 1}
      BY <3>1, <3>3 DEF Listed
    <3>5. g.count <= AcceptedReports(e) + 1 + Listed(g)
      BY <1>1, <3>1, <3>3, <3>4, NoRowAssumption DEF Backed, Flagged
    <3>6. g.confirmed => Listed(g) = 1 \/ AcceptedReports(e) + 1 >= CONFIRMATION_THRESHOLD
      BY <1>1, <3>1, <3>2, <3>3, <3>4, NoRowAssumption DEF Backed, Flagged, CONFIRMATION_THRESHOLD
    <3>7. flagged' = [flagged EXCEPT ![e] = g]
      BY <2>1, <3>2
    <3> HIDE DEF g
    <3> QED
      BY <3>3, <3>5, <3>6, <3>7
  <2>2. CASE /\ flagged[e] = NoRow
             /\ flagged' = [flagged EXCEPT ![e] =
                  [count |-> 1, confirmed |-> FALSE, recent |-> TRUE, source |-> "user_report"]]
    <3> DEFINE g == [count |-> 1, confirmed |-> FALSE, recent |-> TRUE, source |-> "user_report"]
    <3>1. g \in Flagged /\ g.count = 1 /\ ~ g.confirmed /\ Listed(g) = 0
      BY DEF Flagged, Listed
    <3>2. flagged' = [flagged EXCEPT ![e] = g]
      BY <2>2
    <3>3. g.count <= AcceptedReports(e) + 1 + Listed(g)
      BY <1>1, <3>1
    <3> HIDE DEF g
    <3> QED
      BY <2>2, <3>1, <3>2, <3>3
  <2> QED
    BY <2>1, <2>2 DEF CommitReport, e
<1>4. /\ reportPc' = [reportPc EXCEPT ![p] = "accepted"]
      /\ rowRead' = [rowRead EXCEPT ![p] = NoRow]
      /\ orphans' \subseteq Report /\ UNCHANGED taskVars
  BY <1>1 DEF CommitReport, IntelTypeOK
<1>5. IntelTypeOK'
  BY <1>1, <1>3, <1>4 DEF IntelTypeOK, taskVars
<1>6. \A x \in Suspect :
        flagged[x] # NoRow => flagged'[x] # NoRow /\ flagged'[x].source = flagged[x].source
  BY <1>1, <1>3, NoRowAssumption DEF IntelTypeOK
<1>7. ASSUME NEW x \in Suspect PROVE Backed(flagged[x], x)'
  <2>1. CASE x = e
    BY <1>1, <1>2, <1>3, <2>1 DEF IntelTypeOK, Backed
  <2>2. CASE x # e
    <3>1. flagged'[x] = flagged[x] /\ AcceptedReports(x)' = AcceptedReports(x)
      BY <1>1, <1>2, <1>3, <2>2 DEF IntelTypeOK
    <3> QED
      BY <3>1 DEF Backed, IntelInv
  <2> QED
    BY <2>1, <2>2
<1>8. \A x \in Report \union Suspect : rowRead'[x] \in {rowRead[x], NoRow}
  BY <1>1, <1>4 DEF IntelTypeOK
<1>9. \A x \in Suspect : AcceptedReports(x)' >= AcceptedReports(x)
  BY <1>2
<1> QED
  BY <1>2, <1>5, <1>6, <1>7, <1>8, <1>9, RowsStayBacked

\* A decay counts one report less than the copy it had read.
LEMMA DecayKeeps ==
  ASSUME IntelInv, WriteDecayed
  PROVE  IntelInv'
<1>1. /\ flagged' = [e \in Suspect |->
            IF rowRead[e] # NoRow THEN Decayed(rowRead[e], flagged[e]) ELSE flagged[e]]
      /\ rowRead' = [x \in DOMAIN rowRead |-> IF x \in Suspect THEN NoRow ELSE rowRead[x]]
      /\ UNCHANGED <<reportVars, toAdd>>
  BY DEF WriteDecayed
<1>2. \A e \in Suspect : /\ Accepted(e)' = Accepted(e) /\ AcceptedReports(e)' = AcceptedReports(e)
                         /\ AcceptedReports(e) \in Nat
  BY <1>1, AcceptedCount DEF IntelInv, reportVars, Accepted, AcceptedReports
<1>3. ASSUME NEW e \in Suspect, rowRead[e] # NoRow
      PROVE  /\ flagged[e] # NoRow /\ flagged'[e] \in Flagged
             /\ flagged'[e].source = flagged[e].source
             /\ Backed(flagged'[e], e)
  <2>1. /\ rowRead[e] \in Flagged /\ flagged[e] \in Flagged /\ rowRead[e].count > 0
        /\ Backed(rowRead[e], e) /\ Backed(flagged[e], e) /\ flagged[e].source = rowRead[e].source
    BY <1>3 DEF IntelInv, IntelTypeOK, CopyHolds
  <2>2. PICK c \in BOOLEAN :
          /\ flagged'[e] = [flagged[e] EXCEPT !.count = rowRead[e].count - 1, !.confirmed = c]
          /\ c => flagged[e].confirmed \/ rowRead[e].confirmed
    <3>1. flagged'[e] = Decayed(rowRead[e], flagged[e])
      BY <1>1, <1>3
    <3> QED
      BY <2>1, <3>1 DEF Decayed, Written, Flagged
  <2>3. rowRead[e].count - 1 \in Nat
    BY <2>1 DEF Flagged
  <2> DEFINE g == [flagged[e] EXCEPT !.count = rowRead[e].count - 1, !.confirmed = c]
  <2>4. /\ g \in Flagged /\ g.count = rowRead[e].count - 1 /\ g.confirmed = c
        /\ g.source = flagged[e].source
    BY <2>1, <2>2, <2>3 DEF Flagged
  <2>5. Listed(g) = Listed(rowRead[e]) /\ Listed(g) = Listed(flagged[e]) /\ Listed(g) \in {0, 1}
    BY <2>1, <2>4 DEF Listed
  <2>6. Backed(g, e)
    BY <1>2, <1>3, <2>1, <2>2, <2>4, <2>5, NoRowAssumption DEF Backed, Flagged
  <2> QED
    BY <2>1, <2>2, <2>4, <2>6, NoRowAssumption
<1>4. /\ flagged' \in [Suspect -> Flagged \union {NoRow}]
      /\ rowRead' \in [Report \union Suspect -> Flagged \union {NoRow}]
  BY <1>1, <1>3 DEF IntelInv, IntelTypeOK
<1>5. IntelTypeOK'
  BY <1>1, <1>4 DEF IntelInv, IntelTypeOK, reportVars
<1>6. \A e \in Suspect :
        /\ flagged[e] # NoRow => flagged'[e] # NoRow /\ flagged'[e].source = flagged[e].source
        /\ Backed(flagged'[e], e)
  BY <1>1, <1>3, NoRowAssumption DEF IntelInv
<1>7. \A e \in Suspect : Backed(flagged[e], e)'
  BY <1>2, <1>6 DEF Backed
<1>8. \A x \in Report \union Suspect : rowRead'[x] \in {rowRead[x], NoRow}
  BY <1>1 DEF IntelInv, IntelTypeOK
<1>9. \A e \in Suspect : IsFiniteSet(Accepted(e))' /\ AcceptedReports(e)' >= AcceptedReports(e)
  BY <1>2 DEF IntelInv
<1> QED
  BY <1>5, <1>6, <1>7, <1>8, <1>9, RowsStayBacked

\* The entries of the file are backed by the file, an aged row stays what it was.
LEMMA ListedKeeps ==
  ASSUME IntelInv, AddBlocklist \/ (\E e \in Suspect : Age(e))
  PROVE  IntelInv'
<1>1. UNCHANGED <<reportPc, orphans, rowRead>> /\ toAdd' \subseteq Suspect
  BY DEF AddBlocklist, Age, reportVars, taskVars, IntelInv, IntelTypeOK
<1>2. \A e \in Suspect : /\ Accepted(e)' = Accepted(e) /\ AcceptedReports(e)' = AcceptedReports(e)
                         /\ AcceptedReports(e) \in Nat
  BY <1>1, AcceptedCount DEF IntelInv, Accepted, AcceptedReports
<1>3. /\ flagged' \in [Suspect -> Flagged \union {NoRow}]
      /\ \A e \in Suspect :
           /\ flagged[e] # NoRow => flagged'[e] # NoRow /\ flagged'[e].source = flagged[e].source
           /\ Backed(flagged'[e], e)
  <2>1. CASE AddBlocklist
    <3> DEFINE g == [count |-> 1, confirmed |-> TRUE, recent |-> TRUE, source |-> "threat_intel"]
    <3>1. g \in Flagged /\ \A e \in Suspect : Backed(g, e)
      BY <1>2 DEF Flagged, Backed, Listed
    <3>2. \/ flagged' = flagged
          \/ /\ \A e \in toAdd : flagged[e] = NoRow
             /\ flagged' = [e \in Suspect |-> IF e \in toAdd THEN g ELSE flagged[e]]
      BY <2>1 DEF AddBlocklist
    <3> HIDE DEF g
    <3> QED
      BY <3>1, <3>2 DEF IntelInv, IntelTypeOK
  <2>2. ASSUME NEW x \in Suspect, Age(x)
        PROVE  /\ flagged' \in [Suspect -> Flagged \union {NoRow}]
               /\ \A e \in Suspect :
                    /\ flagged[e] # NoRow =>
                         flagged'[e] # NoRow /\ flagged'[e].source = flagged[e].source
                    /\ Backed(flagged'[e], e)
    <3>1. flagged[x] \in Flagged /\ flagged' = [flagged EXCEPT ![x] = [flagged[x] EXCEPT !.recent = FALSE]]
      BY <2>2 DEF Age, IntelInv, IntelTypeOK
    <3>2. PICK g \in Flagged : /\ flagged' = [flagged EXCEPT ![x] = g] /\ g # NoRow
                               /\ g.source = flagged[x].source /\ g.count = flagged[x].count
                               /\ g.confirmed = flagged[x].confirmed
      <4>1. PICK a \in Flagged : a = flagged[x]
        BY <3>1
      <4> DEFINE g == [a EXCEPT !.recent = FALSE]
      <4>2. /\ g \in Flagged /\ g.source = a.source /\ g.count = a.count
            /\ g.confirmed = a.confirmed
        BY DEF Flagged
      <4>3. flagged' = [flagged EXCEPT ![x] = g]
        BY <3>1, <4>1
      <4> HIDE DEF g
      <4> QED
        BY <4>1, <4>2, <4>3, NoRowAssumption
    <3>3. Backed(g, x)
      BY <2>2, <3>2 DEF Age, IntelInv, Backed, Listed
    <3> QED
      BY <3>2, <3>3 DEF IntelInv, IntelTypeOK
  <2> QED
    BY <2>1, <2>2
<1>4. IntelTypeOK'
  BY <1>1, <1>3 DEF IntelInv, IntelTypeOK
<1>5. \A e \in Suspect : Backed(flagged[e], e)'
  BY <1>2, <1>3 DEF Backed
<1>6. \A e \in Suspect : IsFiniteSet(Accepted(e))' /\ AcceptedReports(e)' >= AcceptedReports(e)
  BY <1>2 DEF IntelInv
<1> QED
  BY <1>1, <1>3, <1>4, <1>5, <1>6, RowsStayBacked

\* What is read is a row as it stands.
LEMMA ReadingKeeps ==
  ASSUME IntelInv,
         \/ \E p \in Report : ReadFlagged(p) \/ SecondInsert(p)
         \/ ReadBlocklist \/ ReadDecayed
  PROVE  IntelInv'
<1>1. UNCHANGED <<flagged, orphans>>
  BY DEF ReadFlagged, SecondInsert, ReadBlocklist, ReadDecayed, reportVars
<1>2. CASE \E p \in Report : ReadFlagged(p) \/ SecondInsert(p)
  <2>1. PICK p \in Report, c \in {"read", "failed"} :
          /\ reportPc[p] \in {"new", "read"} /\ reportPc' = [reportPc EXCEPT ![p] = c]
          /\ rowRead' \in {rowRead, [rowRead EXCEPT ![p] = flagged[Reported[p]]]}
          /\ toAdd' = toAdd
    BY <1>2 DEF ReadFlagged, SecondInsert, taskVars
  <2>2. flagged[Reported[p]] \in Flagged \union {NoRow}
    BY ReportedAssumption DEF IntelInv, IntelTypeOK
  <2>3. /\ rowRead' \in [Report \union Suspect -> Flagged \union {NoRow}]
        /\ \A x \in Report \union Suspect :
             \/ rowRead'[x] = rowRead[x]
             \/ x = p /\ rowRead'[x] = flagged[Reported[p]]
    BY <2>1, <2>2 DEF IntelInv, IntelTypeOK
  <2>4. IntelTypeOK'
    BY <1>1, <2>1, <2>3 DEF IntelInv, IntelTypeOK
  <2>5. \A e \in Suspect : Accepted(e)' = Accepted(e)
    BY <2>1 DEF IntelInv, IntelTypeOK, Accepted
  <2> QED
    BY <1>1, <2>3, <2>4, <2>5, ReportedAssumption, RowsAreRead
<1>3. CASE ReadBlocklist
  <2>1. UNCHANGED <<reportPc, rowRead>> /\ toAdd' \subseteq Suspect
    BY <1>3, BlocklistAssumption DEF ReadBlocklist, reportVars
  <2>2. IntelTypeOK' /\ \A e \in Suspect : Accepted(e)' = Accepted(e)
    BY <1>1, <2>1 DEF IntelInv, IntelTypeOK, Accepted
  <2> QED
    BY <1>1, <2>1, <2>2, RowsAreRead
<1>4. CASE ReadDecayed
  <2>1. /\ UNCHANGED <<reportPc, toAdd>>
        /\ rowRead' = [x \in DOMAIN rowRead |->
             IF x \notin Suspect THEN rowRead[x]
             ELSE IF flagged[x] # NoRow /\ ~ flagged[x].recent /\ flagged[x].count > 0
                  THEN flagged[x] ELSE NoRow]
    BY <1>4 DEF ReadDecayed, reportVars
  <2>2. IntelTypeOK' /\ \A e \in Suspect : Accepted(e)' = Accepted(e)
    BY <1>1, <2>1 DEF IntelInv, IntelTypeOK, Accepted
  <2>3. \A p \in Report : rowRead'[p] = rowRead[p]
    BY <2>1, ReportedAssumption DEF IntelInv, IntelTypeOK
  <2>4. \A e \in Suspect : \/ rowRead'[e] = NoRow
                           \/ rowRead'[e] = flagged[e] /\ flagged[e].count > 0
    BY <2>1 DEF IntelInv, IntelTypeOK
  <2> QED
    BY <1>1, <2>2, <2>3, <2>4, RowsAreRead
<1> QED
  BY <1>2, <1>3, <1>4

\* What tasks have read and what rows hold stays backed by reports.
LEMMA IntelInvariant == IntelSpec => []IntelInv
<1>1. IntelInv /\ [IntelNext]_intelVars => IntelInv'
  <2> SUFFICES ASSUME IntelInv, [IntelNext]_intelVars
               PROVE  IntelInv'
    OBVIOUS
  <2>1. CASE UNCHANGED intelVars
    <3>1. IntelTypeOK' /\ UNCHANGED <<flagged, rowRead>>
          /\ \A e \in Suspect : Accepted(e)' = Accepted(e)
      BY <2>1 DEF intelVars, reportVars, taskVars, IntelInv, IntelTypeOK, Accepted
    <3> QED
      BY <3>1, RowsAreRead
  <2>2. CASE IntelNext
    BY <2>2, CommitKeeps, DecayKeeps, ListedKeeps, ReadingKeeps DEF IntelNext
  <2> QED
    BY <2>1, <2>2
<1> QED
  BY <1>1, IntelInitInv, PTL DEF IntelSpec

\* However reports, decay and the threat-intel file interleave, no entity shows more
\* reports than were accepted (and one for the file), and none is confirmed by fewer
\* than three: report.py:97-104 and reputation_tasks.py:57-66 write what they computed
\* from rows read earlier, which can only lose reports.
THEOREM ReputationStaysBacked == IntelSpec => []ReputationIsBacked
<1>1. IntelInv => ReputationIsBacked
  BY DEF IntelInv, ReputationIsBacked, Backed, Listed
<1> QED
  BY <1>1, IntelInvariant, PTL

-----------------------------------------------------------------------------
(* The bank network                                                         *)

\* A share that has committed has its report in the table, and is the last to
\* count itself.
SharesInv ==
  /\ sharePc = [s \in Share |-> sharePc[s]]
  /\ counted = [s \in Share |-> counted[s]]
  /\ stored \subseteq bankReports /\ bankReports \subseteq Share
  /\ \A s \in Share :
       /\ sharePc[s] \in {"new", "refused", "verified", "sharing", "inserted", "failed",
                          "shared", "scored", "done"}
       /\ s \in bankReports <=> sharePc[s] \in {"shared", "scored", "done"}
       /\ counted[s] \subseteq bankReports
       /\ sharePc[s] \in {"scored", "done"} => s \in counted[s]
       /\ sharePc[s] = "done" => stored # {}

\* Shares stand by the reports they have committed.
LEMMA SharesInvariant == BankSpec => []SharesInv
<1>1. BankInit => SharesInv
  BY DEF BankInit, SharesInv
<1>2. SharesInv /\ [BankNext]_bankVars => SharesInv'
  <2> SUFFICES ASSUME SharesInv, [BankNext]_bankVars
               PROVE  SharesInv'
    OBVIOUS
  <2>1. ASSUME NEW b \in BankRequest, LookUpCode(b) \/ InsertBank(b)
        PROVE  UNCHANGED shareVars
    BY <2>1 DEF LookUpCode, InsertBank
  <2>2. CASE UNCHANGED shareVars
    BY <2>2 DEF shareVars, SharesInv
  <2>3. ASSUME NEW s \in Share, VerifyKey(s) \/ ReadShared(s) \/ FlushShared(s)
        PROVE  SharesInv'
    <3>1. PICK c \in {"verified", "refused", "sharing", "failed", "inserted"} :
            /\ sharePc[s] \in {"new", "verified", "sharing"}
            /\ sharePc' = [sharePc EXCEPT ![s] = c]
            /\ UNCHANGED <<bankReports, counted, stored>>
      BY <2>3 DEF VerifyKey, ReadShared, FlushShared
    <3> QED
      BY <3>1 DEF SharesInv
  <2>4. ASSUME NEW s \in Share, CommitShare(s)
        PROVE  SharesInv'
    BY <2>4 DEF CommitShare, SharesInv
  <2>5. ASSUME NEW s \in Share, ComputeBankRisk(s)
        PROVE  SharesInv'
    BY <2>5 DEF ComputeBankRisk, SharesInv
  <2>6. ASSUME NEW s \in Share, StoreBankRisk(s)
        PROVE  SharesInv'
    BY <2>6 DEF StoreBankRisk, SharesInv
  <2>7. UNCHANGED bankVars => UNCHANGED shareVars
    BY DEF bankVars
  <2> QED
    BY <2>1, <2>2, <2>3, <2>4, <2>5, <2>6, <2>7 DEF BankNext
<1> QED
  BY <1>1, <1>2, PTL DEF BankSpec

\* The answer to a bank's share counts the report it made, and the totals stand only
\* for reports that were made, whatever the order in which shares at once commit,
\* read and store (intel.py:119-123).
THEOREM SharesAreCounted == BankSpec => []SharesCountThemselves
<1>1. SharesInv => SharesCountThemselves
  BY DEF SharesInv, SharesCountThemselves
<1> QED
  BY <1>1, SharesInvariant, PTL

-----------------------------------------------------------------------------
(* Reputation lookups                                                       *)
(*                                                                          *)
(* A fold is a function defined by recursion on sets.  That it is defined,  *)
(* and how large it is, follows by a least counterexample: the finite       *)
(* subsets of a set are well-founded under inclusion.                       *)

\* Among finite sets there is one that contains no other.
LEMMA LeastSet ==
  ASSUME NEW S, NEW B, B \subseteq FiniteSubsetsOf(S), B # {}
  PROVE  \E s \in B : \A r \in B : r \subseteq s => r = s
<1>1. IsWellFoundedOn(StrictSubsetOrdering(S), FiniteSubsetsOf(S))
  BY FS_StrictSubsetOrderingWellFounded
<1>2. PICK s \in B : \A r \in B : ~ (<<r, s>> \in StrictSubsetOrdering(S))
  BY <1>1, WFMin
<1>3. ASSUME NEW r \in B, r \subseteq s, r # s
      PROVE  FALSE
  <2>1. <<r, s>> \in (SUBSET S) \X (SUBSET S)
    BY <1>2 DEF FiniteSubsetsOf
  <2> QED
    BY <1>2, <1>3, <2>1 DEF StrictSubsetOrdering
<1> QED
  BY <1>2, <1>3

First(s) == CHOOSE x \in s : TRUE

\* The function that sums f over the subsets of D.
Sums(f, D, it) ==
  it = [s \in SUBSET D |-> IF s = {} THEN 0 ELSE f[First(s)] + it[s \ {First(s)}]]

\* What First takes from a set is of the set, and the set without it is smaller.
LEMMA FirstIn ==
  ASSUME NEW s, s # {}
  PROVE  First(s) \in s /\ s \ {First(s)} \subseteq s /\ s \ {First(s)} # s
  BY DEF First

\* Two sums by the same rule agree where both are defined: by the least set on which
\* they do not.
LEMMA SumsAgree ==
  ASSUME NEW f, NEW D, NEW E, NEW g, NEW h, IsFiniteSet(D), Sums(f, D, g), Sums(f, E, h)
  PROVE  \A t \in SUBSET (D \cap E) : g[t] = h[t]
<1> DEFINE B == {t \in SUBSET (D \cap E) : g[t] # h[t]}
<1>1. B \subseteq FiniteSubsetsOf(D)
  BY FS_Subset DEF FiniteSubsetsOf
<1> SUFFICES ASSUME B # {} PROVE FALSE
  OBVIOUS
<1>2. PICK t \in B : \A r \in B : r \subseteq t => r = t
  <2> HIDE DEF B
  <2> QED
    BY <1>1, LeastSet
<1>3. t # {}
  BY <1>2 DEF Sums
<1>4. t \ {First(t)} \in SUBSET (D \cap E) /\ t \ {First(t)} \notin B
  BY <1>2, <1>3, FirstIn
<1>5. /\ g[t] = f[First(t)] + g[t \ {First(t)}]
      /\ h[t] = f[First(t)] + h[t \ {First(t)}]
  BY <1>2, <1>3 DEF Sums
<1> QED
  BY <1>2, <1>4, <1>5

\* Every finite set has a sum: by the least set that has none.
LEMMA SumsExist ==
  ASSUME NEW f, NEW D, IsFiniteSet(D)
  PROVE  \E it : Sums(f, D, it)
<1> DEFINE B == {s \in SUBSET D : ~ \E it : Sums(f, s, it)}
<1>1. B \subseteq FiniteSubsetsOf(D)
  BY FS_Subset DEF FiniteSubsetsOf
<1> SUFFICES ASSUME B # {} PROVE FALSE
  OBVIOUS
<1>2. PICK s \in B : \A r \in B : r \subseteq s => r = s
  <2> HIDE DEF B
  <2> QED
    BY <1>1, LeastSet
<1> DEFINE value(t) == CHOOSE v : \E g : Sums(f, t, g) /\ v = g[t]
           it == [t \in SUBSET s |->
                    IF t # s THEN value(t)
                    ELSE IF s = {} THEN 0 ELSE f[First(s)] + value(s \ {First(s)})]
<1>3. ASSUME NEW t \in SUBSET s, t # s, NEW r \in SUBSET t, NEW g, Sums(f, t, g)
      PROVE  value(r) = g[r]
  <2>1. r \in SUBSET D /\ r \notin B /\ IsFiniteSet(r)
    BY <1>2, <1>3, FS_Subset
  <2>2. PICK h : Sums(f, r, h)
    BY <2>1
  <2>3. \E v : \E k : Sums(f, r, k) /\ v = k[r]
    BY <2>2
  <2>4. PICK k : Sums(f, r, k) /\ value(r) = k[r]
    BY <2>3
  <2>5. r \in SUBSET (r \cap t)
    BY <1>3
  <2> QED
    BY <1>3, <2>1, <2>4, <2>5, SumsAgree
<1>4. ASSUME NEW t \in SUBSET s, t # s
      PROVE  value(t) = IF t = {} THEN 0 ELSE f[First(t)] + value(t \ {First(t)})
  <2>1. PICK g : Sums(f, t, g)
    BY <1>2, <1>4
  <2>2. g[t] = IF t = {} THEN 0 ELSE f[First(t)] + g[t \ {First(t)}]
    BY <2>1 DEF Sums
  <2>3. value(t) = g[t]
    BY <1>3, <1>4, <2>1
  <2>4. t # {} => value(t \ {First(t)}) = g[t \ {First(t)}]
    BY <1>3, <1>4, <2>1, FirstIn
  <2> HIDE DEF value
  <2> QED
    BY <2>2, <2>3, <2>4
<1> HIDE DEF value
<1>5. ASSUME NEW t \in SUBSET s
      PROVE  it[t] = IF t = {} THEN 0 ELSE f[First(t)] + it[t \ {First(t)}]
  <2>1. CASE t # s
    <3>1. t # {} => t \ {First(t)} \in SUBSET s /\ t \ {First(t)} # s
      BY FirstIn
    <3> QED
      BY <1>4, <2>1, <3>1
  <2>2. CASE t = s
    <3>1. s # {} => s \ {First(s)} \in SUBSET s /\ s \ {First(s)} # s
      BY FirstIn
    <3> QED
      BY <2>2, <3>1
  <2> QED
    BY <2>1, <2>2
<1>6. it = [t \in SUBSET s |-> IF t = {} THEN 0 ELSE f[First(t)] + it[t \ {First(t)}]]
  <2>1. it = [t \in SUBSET s |-> it[t]]
    OBVIOUS
  <2> HIDE DEF it
  <2> QED
    BY <1>5, <2>1
<1>7. Sums(f, s, it)
  BY <1>6 DEF Sums
<1> HIDE DEF it
<1> QED
  BY <1>2, <1>7

\* SumOf is a sum of the function's values.
LEMMA SumOfSums ==
  ASSUME NEW f, IsFiniteSet(DOMAIN f)
  PROVE  \E it : Sums(f, DOMAIN f, it) /\ SumOf(f) = it[DOMAIN f]
<1> DEFINE it == CHOOSE g : Sums(f, DOMAIN f, g)
<1>1. SumOf(f) = it[DOMAIN f]
  BY DEF SumOf, FoldFunction, FoldFunctionOnSet, MapThenFoldSet, Sums, First
<1>2. Sums(f, DOMAIN f, it)
  BY SumsExist
<1> QED
  BY <1>1, <1>2

\* A sum of n numbers, none below a and none above b, lies between n times a and b.
LEMMA SumBetween ==
  ASSUME NEW D, IsFiniteSet(D), NEW f \in [D -> Int], NEW a \in Int, NEW b \in Int,
         \A x \in D : a <= f[x] /\ f[x] <= b
  PROVE  /\ SumOf(f) \in Int
         /\ a * Cardinality(D) <= SumOf(f) /\ SumOf(f) <= b * Cardinality(D)
<1>1. PICK it : Sums(f, D, it) /\ SumOf(f) = it[D]
  BY SumOfSums
<1> DEFINE Good(t) == /\ it[t] \in Int
                      /\ a * Cardinality(t) <= it[t] /\ it[t] <= b * Cardinality(t)
           B == {t \in SUBSET D : ~ Good(t)}
<1>2. ASSUME B # {} PROVE FALSE
  <2>1. B \subseteq FiniteSubsetsOf(D)
    BY FS_Subset DEF FiniteSubsetsOf
  <2>2. PICK t \in B : \A r \in B : r \subseteq t => r = t
    <3> HIDE DEF B
    <3> QED
      BY <1>2, <2>1, LeastSet
  <2>3. t \in SUBSET D /\ ~ Good(t) /\ IsFiniteSet(t)
    BY <2>2, FS_Subset
  <2>4. t # {}
    <3> SUFFICES ASSUME t = {} PROVE Good(t)
      BY <2>3
    <3>1. it[t] = 0 /\ Cardinality(t) = 0
      BY <1>1, FS_EmptySet DEF Sums
    <3> QED
      BY <3>1
  <2> DEFINE x == First(t)
             r == t \ {x}
  <2>5. x \in t /\ r \in SUBSET D /\ Good(r)
    BY <2>2, <2>3, <2>4, FirstIn
  <2>6. it[t] = f[x] + it[r]
    BY <1>1, <2>3, <2>4 DEF Sums
  <2>7. Cardinality(t) = Cardinality(r) + 1 /\ Cardinality(r) \in Nat
    BY <2>3, <2>5, FS_RemoveElement, FS_CardinalityType, FS_Subset
  <2>8. f[x] \in Int /\ a <= f[x] /\ f[x] <= b
    BY <2>3, <2>5
  <2> HIDE DEF x, r
  <2>9. Good(t)
    BY <2>5, <2>6, <2>7, <2>8
  <2> QED
    BY <2>3, <2>9
<1> QED
  BY <1>1, <1>2

\* A set of scores has a least and a greatest.
LEMMA ScoreBounds ==
  ASSUME NEW T \in SUBSET Reputation, T # {}
  PROVE  /\ Min(T) \in T /\ \A y \in T : Min(T) <= y
         /\ Max(T) \in T /\ \A y \in T : y <= Max(T)
<1>1. \A n \in T : n \in Int /\ 0 <= n /\ n <= 100
  BY DEF Reputation
<1>2. \E x \in T : \A y \in T : x <= y
  <2> DEFINE B == {0..n : n \in T}
  <2>1. ASSUME NEW n \in T PROVE 0..n \in FiniteSubsetsOf(Nat)
    <3>1. IsFiniteSet(0..n)
      BY <1>1, FS_Interval
    <3>2. 0..n \in SUBSET Nat
      BY <1>1
    <3> QED
      BY <3>1, <3>2 DEF FiniteSubsetsOf
  <2>2. PICK s \in B : \A r \in B : r \subseteq s => r = s
    <3>1. B \subseteq FiniteSubsetsOf(Nat) /\ B # {}
      BY <2>1
    <3> HIDE DEF B
    <3> QED
      BY <3>1, LeastSet
  <2>3. PICK x \in T : s = 0..x
    BY <2>2
  <2>4. ASSUME NEW y \in T, y < x PROVE FALSE
    <3>1. 0..y \in B /\ 0..y \subseteq 0..x
      BY <1>1, <2>4
    <3>2. x \in 0..x /\ x \notin 0..y
      BY <1>1, <2>4
    <3> QED
      BY <2>2, <2>3, <3>1, <3>2
  <2> QED
    BY <1>1, <2>4
<1>3. \E x \in T : \A y \in T : x >= y
  <2> DEFINE B == {n..100 : n \in T}
  <2>1. ASSUME NEW n \in T PROVE n..100 \in FiniteSubsetsOf(Nat)
    <3>1. IsFiniteSet(n..100)
      BY <1>1, FS_Interval
    <3>2. n..100 \in SUBSET Nat
      BY <1>1
    <3> QED
      BY <3>1, <3>2 DEF FiniteSubsetsOf
  <2>2. PICK s \in B : \A r \in B : r \subseteq s => r = s
    <3>1. B \subseteq FiniteSubsetsOf(Nat) /\ B # {}
      BY <2>1
    <3> HIDE DEF B
    <3> QED
      BY <3>1, LeastSet
  <2>3. PICK x \in T : s = x..100
    BY <2>2
  <2>4. ASSUME NEW y \in T, y > x PROVE FALSE
    <3>1. y..100 \in B /\ y..100 \subseteq x..100
      BY <1>1, <2>4
    <3>2. x \in x..100 /\ x \notin y..100
      BY <1>1, <2>4
    <3> QED
      BY <2>2, <2>3, <3>1, <3>2
  <2> QED
    BY <1>1, <2>4
<1>4. Min(T) \in T /\ \A y \in T : Min(T) <= y
  BY <1>2 DEF Min
<1>5. Max(T) \in T /\ \A y \in T : y <= Max(T)
  <2>1. Max(T) \in T /\ \A y \in T : Max(T) >= y
    BY <1>3 DEF Max
  <2> QED
    BY <1>1, <2>1
<1> QED
  BY <1>4, <1>5

\* The smaller of two numbers, without a choice.
LEMMA MinOfTwo ==
  ASSUME NEW a \in Int, NEW b \in Int
  PROVE  Min({a, b}) = IF a <= b THEN a ELSE b
<1>1. \E x \in {a, b} : \A y \in {a, b} : x =< y
  OBVIOUS
<1>2. Min({a, b}) \in {a, b} /\ \A y \in {a, b} : Min({a, b}) <= y
  BY <1>1 DEF Min
<1> QED
  BY <1>2

\* The local score is a score.
LEMMA LocalScoreIsScore ==
  ASSUME NEW n, n \in DOMAIN Direct, NEW w \in Weight, NEW risk \in Nat, NEW banks \in Nat
  PROVE  LocalScore(n, w, risk, banks) \in Reputation
<1>1. Direct[n] \in Nat
  BY DirectAssumption
<1>2. (Direct[n] * w) \div 10 \in Nat
  <2>1. PICK d \in Nat : d = Direct[n]
    BY <1>1
  <2>2. (d * w) \in Nat
    BY DEF Weight
  <2> QED
    BY <2>1, <2>2
<1>3. RingBump + Min({20, 5 * banks}) \in Nat
  BY MinOfTwo DEF RingBump
<1> DEFINE total == (Direct[n] * w) \div 10 + 300 * risk + 100 * (RingBump + Min({20, 5 * banks}))
<1>4. total \in Nat
  BY <1>2, <1>3
<1> HIDE DEF total
<1>5. total \div 100 \in Nat
  BY <1>4
<1>6. Min({100, total \div 100}) \in 0..100
  <2>1. PICK t \in Nat : t = total \div 100
    BY <1>5
  <2>2. Min({100, t}) = IF 100 <= t THEN 100 ELSE t
    BY MinOfTwo
  <2> QED
    BY <2>1, <2>2
<1> QED
  BY <1>6 DEF LocalScore, Reputation, total

\* An aggregate is a reputation, within one half of the weighted mean.
LEMMA RoundedMean ==
  ASSUME NEW local, NEW weight, NEW score, NEW x, x \in Aggregated(local, weight, score)
  PROVE  LET sum == local * weight + SumOf(score)
             total == weight + Cardinality(DOMAIN score)
         IN  /\ x \in Reputation
             /\ 2 * (sum - x * total) <= total
             /\ 2 * (x * total - sum) <= total
  BY DEF Aggregated

\* A weighted mean lies between the smallest and the greatest score it is taken of,
\* rounded or not.
LEMMA MeanBetween ==
  ASSUME NEW answered \in SUBSET Peer, NEW score \in [answered -> PeerScore],
         NEW local \in Reputation, NEW weight \in Weight,
         NEW x, x \in Aggregated(local, weight, score)
  PROVE  /\ x \in Reputation
         /\ \E k \in {local} \union Range(score) : k <= x
         /\ \E k \in {local} \union Range(score) : x <= k
<1> DEFINE n == Cardinality(DOMAIN score)
           sum == SumOf(score)
<1>1. /\ IsFiniteSet(answered) /\ n \in Nat /\ weight \in Nat /\ weight >= 1
      /\ local \in 0..100 /\ score \in [answered -> Int]
      /\ \A p \in answered : score[p] \in 0..100 /\ score[p] \in Range(score)
  <2>1. IsFiniteSet(answered)
    BY PeerAssumption, FS_Subset
  <2>2. n \in Nat
    BY <2>1, FS_CardinalityType
  <2>3. \A p \in answered : score[p] \in 0..100 /\ score[p] \in Range(score)
    BY PeerScoreAssumption DEF Reputation, Range
  <2>4. score \in [answered -> Int]
    BY <2>3
  <2> QED
    BY <2>1, <2>2, <2>3, <2>4 DEF Weight, Reputation
<1>2. /\ x \in 0..100
      /\ 2 * ((local * weight + sum) - x * (weight + n)) <= weight + n
      /\ 2 * (x * (weight + n) - (local * weight + sum)) <= weight + n
  <2>1. x \in Reputation
    BY RoundedMean, Zenon
  <2>2. 2 * ((local * weight + sum) - x * (weight + n)) <= weight + n
    BY RoundedMean, Zenon
  <2>3. 2 * (x * (weight + n) - (local * weight + sum)) <= weight + n
    BY RoundedMean, Zenon
  <2> HIDE DEF n, sum
  <2> QED
    BY <2>1, <2>2, <2>3 DEF Reputation
<1>3. ASSUME \A k \in {local} \union Range(score) : ~ (k <= x)
      PROVE  FALSE
  <2>1. \A p \in answered : x + 1 <= score[p] /\ score[p] <= 100
    BY <1>1, <1>2, <1>3
  <2>2. sum \in Int /\ (x + 1) * n <= sum
    BY <1>1, <1>2, <2>1, SumBetween
  <2>3. x + 1 <= local
    BY <1>1, <1>2, <1>3
  <2> HIDE DEF n, sum
  <2>4. (x + 1) * weight <= local * weight
    BY <1>1, <1>2, <2>3
  <2>5. (x + 1) * weight = x * weight + weight /\ (x + 1) * n = x * n + n
        /\ x * (weight + n) = x * weight + x * n
    BY <1>1, <1>2
  <2>6. PICK xw \in Int, xn \in Int, lw \in Int :
          xw = x * weight /\ xn = x * n /\ lw = local * weight
    BY <1>1, <1>2
  <2> QED
    BY <1>1, <1>2, <2>2, <2>4, <2>5, <2>6
<1>4. ASSUME \A k \in {local} \union Range(score) : ~ (x <= k)
      PROVE  FALSE
  <2>1. \A p \in answered : 0 <= score[p] /\ score[p] <= x - 1
    BY <1>1, <1>2, <1>4
  <2>2. sum \in Int /\ sum <= (x - 1) * n
    BY <1>1, <1>2, <2>1, SumBetween
  <2>3. local <= x - 1
    BY <1>1, <1>2, <1>4
  <2> HIDE DEF n, sum
  <2>4. local * weight <= (x - 1) * weight
    BY <1>1, <1>2, <2>3
  <2>5. (x - 1) * weight = x * weight - weight /\ (x - 1) * n = x * n - n
        /\ x * (weight + n) = x * weight + x * n
    BY <1>1, <1>2
  <2>6. PICK xw \in Int, xn \in Int, lw \in Int :
          xw = x * weight /\ xn = x * n /\ lw = local * weight
    BY <1>1, <1>2
  <2> QED
    BY <1>1, <1>2, <2>2, <2>4, <2>5, <2>6
<1> QED
  BY <1>2, <1>3, <1>4 DEF Reputation

Known == heard \union {own}

\* Once there is a local score, the reply lies between scores that are known, and keeps
\* the tier of the local one.
Between(y) == (\E k \in Known : k <= y) /\ (\E k \in Known : y <= k)

LookupInv ==
  /\ heard \subseteq Reputation
  /\ lookupPc \in {"returning", "answered"} =>
       /\ own \in Reputation
       /\ reply = [score |-> reply.score, tier |-> reply.tier,
                   reports |-> reply.reports, weight |-> reply.weight]
       /\ reply.score \in Reputation /\ reply.weight \in Weight
       /\ reply.tier = Tier(own)
       /\ Between(reply.score)

\* Nobody has asked at the start.
LEMMA LookupInitInv == LookupInit => LookupInv
  BY DEF LookupInit, LookupInv

\* The local score lies between its parts.
LEMMA LocalKeeps ==
  ASSUME LookupInv, ComputeLocalReputation
  PROVE  LookupInv'
<1>1. PICK n \in ReportsFound(route), risk \in PropagatedRisk, banks \in Banks :
        \E w \in RecencyWeights(n) :
          LET s == LocalScore(n, w, risk, IF route = "refresh" THEN 0 ELSE banks)
          IN  /\ own' = s
              /\ reply' = [score |-> s, tier |-> Tier(s), reports |-> n, weight |-> w]
  BY DEF ComputeLocalReputation
<1>2. PICK w \in RecencyWeights(n) :
        LET s == LocalScore(n, w, risk, IF route = "refresh" THEN 0 ELSE banks)
        IN  /\ own' = s
            /\ reply' = [score |-> s, tier |-> Tier(s), reports |-> n, weight |-> w]
  BY <1>1
<1>3. PICK b : b = (IF route = "refresh" THEN 0 ELSE banks)
  OBVIOUS
<1>4. n \in DOMAIN Direct /\ w \in Weight /\ risk \in Nat /\ b \in Nat
  <2>1. n \in DOMAIN Direct
    BY DirectAssumption DEF ReportsFound
  <2>2. w \in Weight
    BY DEF RecencyWeights, Weight
  <2>3. risk \in Nat /\ b \in Nat
    BY <1>3, SignalAssumption DEF PropagatedRisk
  <2> QED
    BY <2>1, <2>2, <2>3
<1>5. PICK s \in Reputation :
        own' = s /\ reply' = [score |-> s, tier |-> Tier(s), reports |-> n, weight |-> w]
  <2>1. LocalScore(n, w, risk, b) \in Reputation
    BY <1>4, LocalScoreIsScore
  <2> QED
    BY <1>2, <1>3, <2>1
<1>6. heard' = heard
  BY DEF ComputeLocalReputation
<1>7. Between(reply.score)'
  BY <1>5 DEF Between, Known, Reputation
<1> QED
  BY <1>4, <1>5, <1>6, <1>7 DEF LookupInv

\* One level that asks the peers stays between what was known and what it hears.
LEMMA AskingKeeps ==
  ASSUME LookupInv, AskPeers
  PROVE  LookupInv'
<1>0. PICK answered \in SUBSET Peer : \E score \in [answered -> PeerScore] :
        /\ heard' = heard \union Range(score)
        /\ \E s \in Aggregated(reply.score, reply.weight, score) :
             reply' = [reply EXCEPT !.score = IF answered = {} THEN reply.score ELSE s]
  BY DEF AskPeers
<1>1. PICK score \in [answered -> PeerScore] :
        /\ heard' = heard \union Range(score)
        /\ \E s \in Aggregated(reply.score, reply.weight, score) :
             reply' = [reply EXCEPT !.score = IF answered = {} THEN reply.score ELSE s]
  BY <1>0
<1>2. PICK s \in Aggregated(reply.score, reply.weight, score) :
        reply' = [reply EXCEPT !.score = IF answered = {} THEN reply.score ELSE s]
  BY <1>1
<1>3. /\ own \in Reputation /\ reply.score \in Reputation /\ reply.weight \in Weight
      /\ reply.tier = Tier(own) /\ Between(reply.score)
      /\ reply = [score |-> reply.score, tier |-> reply.tier,
                  reports |-> reply.reports, weight |-> reply.weight]
      /\ own' = own
  BY DEF AskPeers, LookupInv
<1>4. /\ s \in Reputation
      /\ \E k \in {reply.score} \union Range(score) : k <= s
      /\ \E k \in {reply.score} \union Range(score) : s <= k
  BY <1>2, <1>3, MeanBetween
<1>5. Range(score) \subseteq Reputation /\ heard \subseteq Reputation
  BY PeerScoreAssumption DEF Range, LookupInv
<1>6. PICK y : y = (IF answered = {} THEN reply.score ELSE s)
  OBVIOUS
<1>7. y \in Reputation /\ (\E k \in Known' : k <= y) /\ (\E k \in Known' : y <= k)
  <2>1. \A k \in Known \union Range(score) \union {s, y} : k \in Int
    BY <1>3, <1>4, <1>5, <1>6 DEF Known, Reputation
  <2>2. Known' = Known \union Range(score)
    BY <1>1, <1>3 DEF Known
  <2>3. /\ \E k \in Known : k <= reply.score
        /\ \E k \in Known : reply.score <= k
    BY <1>3 DEF Between
  <2>4. reply.score \in Int
    BY <1>3 DEF Reputation
  <2>5. CASE y = reply.score
    BY <1>3, <2>2, <2>3, <2>5
  <2>6. CASE y = s
    BY <1>4, <2>1, <2>2, <2>3, <2>4, <2>6
  <2> QED
    BY <1>6, <2>5, <2>6
<1>8. reply' = [score |-> y, tier |-> reply.tier,
                reports |-> reply.reports, weight |-> reply.weight]
  BY <1>2, <1>3, <1>6
<1>9. Between(reply.score)'
  BY <1>7, <1>8 DEF Between
<1> QED
  BY <1>1, <1>3, <1>5, <1>7, <1>8, <1>9 DEF LookupInv

\* A level that falls back answers the local score again.
LEMMA FallBackKeeps ==
  ASSUME LookupInv, FallBack
  PROVE  LookupInv'
<1>1. /\ own \in Reputation /\ reply.weight \in Weight /\ reply.tier = Tier(own)
      /\ reply = [score |-> reply.score, tier |-> reply.tier,
                  reports |-> reply.reports, weight |-> reply.weight]
      /\ UNCHANGED <<own, heard>> /\ reply' = [reply EXCEPT !.score = own]
  BY DEF FallBack, LookupInv
<1>2. reply' = [score |-> own, tier |-> reply.tier,
                reports |-> reply.reports, weight |-> reply.weight]
  BY <1>1
<1>3. Between(reply.score)'
  BY <1>1, <1>2 DEF Between, Known, Reputation
<1> QED
  BY <1>1, <1>2, <1>3 DEF LookupInv

\* Whatever the level a lookup is at, its reply lies between what it knows.
LEMMA LookupInvariant == LookupSpec => []LookupInv
<1>1. LookupInv /\ [LookupNext]_lookupVars => LookupInv'
  <2> SUFFICES ASSUME LookupInv, [LookupNext]_lookupVars
               PROVE  LookupInv'
    OBVIOUS
  <2>1. CASE (\E r \in Route : Ask(r)) \/ Descend
    <3>1. heard' = heard /\ lookupPc' \notin {"returning", "answered"}
      BY <2>1 DEF Ask, Descend
    <3> QED
      BY <3>1 DEF LookupInv
  <2>2. CASE Answer \/ UNCHANGED lookupVars
    <3>1. /\ UNCHANGED <<reply, own, heard>>
          /\ lookupPc' = lookupPc \/ lookupPc = "returning"
      BY <2>2 DEF Answer, lookupVars
    <3> QED
      BY <3>1 DEF LookupInv, Between, Known
  <2> QED
    BY <2>1, <2>2, LocalKeeps, AskingKeeps, FallBackKeeps DEF LookupNext
<1> QED
  BY <1>1, LookupInitInv, PTL DEF LookupSpec

\* For every number of levels, of peers and of answers: the score shown lies between
\* the cell's own and those the peers have answered, the tier is that of the cell's own,
\* and the badge is gray only if one of them was 0 (reputation_service.py,
\* cell_federation.py:7-8).
THEOREM AnswersStayBetween == LookupSpec => []AnswersAreBetween
<1>1. LookupInv => AnswersAreBetween
  <2> SUFFICES ASSUME LookupInv, lookupPc = "answered"
               PROVE  /\ Min(Known) <= reply.score /\ reply.score <= Max(Known)
                      /\ reply.tier = Tier(own)
                      /\ route = "widget" /\ Shown = <<"gray">> => 0 \in Known
    BY DEF AnswersAreBetween, Known
  <2>1. /\ Known \in SUBSET Reputation /\ Known # {} /\ reply.score \in Reputation
        /\ Between(reply.score) /\ reply.tier = Tier(own)
    BY DEF LookupInv, Known
  <2>2. /\ Min(Known) \in Known /\ \A y \in Known : Min(Known) <= y
        /\ Max(Known) \in Known /\ \A y \in Known : y <= Max(Known)
    BY <2>1, ScoreBounds
  <2>3. /\ Min(Known) <= reply.score /\ reply.score <= Max(Known)
        /\ reply.score = 0 => 0 \in Known
    <3>1. PICK a \in Known, b \in Known : a = Min(Known) /\ b = Max(Known)
      BY <2>2
    <3>2. PICK k \in Known, m \in Known : k <= reply.score /\ reply.score <= m
      BY <2>1 DEF Between
    <3>3. a <= k /\ m <= b
      BY <2>2, <3>1
    <3>4. a \in 0..100 /\ b \in 0..100 /\ k \in 0..100 /\ m \in 0..100 /\ reply.score \in 0..100
      BY <2>1 DEF Reputation
    <3>5. PICK y \in 0..100 : y = reply.score
      BY <3>4
    <3>6. a <= y /\ y <= b /\ (y = 0 => a = 0)
      BY <3>2, <3>3, <3>4, <3>5
    <3> QED
      BY <3>1, <3>5, <3>6
  <2>4. ASSUME route = "widget", Shown = <<"gray">> PROVE reply.score = 0
    <3>1. Shown = <<Badge(reply.score)>>
      BY <2>4 DEF Shown
    <3>2. Badge(reply.score) = "gray"
      BY <2>4, <3>1
    <3> QED
      BY <2>1, <3>2 DEF Badge, Reputation
  <2> QED
    BY <2>1, <2>3, <2>4
<1> QED
  BY <1>1, LookupInvariant, PTL

-----------------------------------------------------------------------------
(* Types                                                                    *)

\* Registrations and shares stand where they can, and rows are of both.
THEOREM BankTypes == BankSpec => []BankTypeOK
<1>1. BankInit => BankTypeOK
  BY DEF BankInit, BankTypeOK
<1>2. BankTypeOK /\ SharesInv /\ [BankNext]_bankVars => BankTypeOK'
  <2> SUFFICES ASSUME BankTypeOK, SharesInv, [BankNext]_bankVars PROVE BankTypeOK'
    OBVIOUS
  <2> USE DEF BankTypeOK, registerVars, shareVars
  <2>1. ASSUME NEW b \in BankRequest, LookUpCode(b) PROVE BankTypeOK'
    BY <2>1 DEF LookUpCode
  <2>2. ASSUME NEW b \in BankRequest, InsertBank(b) PROVE BankTypeOK'
    BY <2>2 DEF InsertBank
  <2>3. ASSUME NEW q \in Share, VerifyKey(q) PROVE BankTypeOK'
    BY <2>3 DEF VerifyKey
  <2>4. ASSUME NEW q \in Share, ReadShared(q) \/ FlushShared(q) PROVE BankTypeOK'
    BY <2>4 DEF ReadShared, FlushShared
  <2>5. ASSUME NEW q \in Share, CommitShare(q) PROVE BankTypeOK'
    BY <2>5 DEF CommitShare
  <2>6. ASSUME NEW q \in Share, ComputeBankRisk(q) PROVE BankTypeOK'
    BY <2>6 DEF ComputeBankRisk
  <2>7. ASSUME NEW q \in Share, StoreBankRisk(q) PROVE BankTypeOK'
    <3>1. counted[q] \subseteq Share
      BY DEF SharesInv
    <3> QED
      BY <2>7, <3>1 DEF StoreBankRisk
  <2>8. CASE UNCHANGED bankVars
    BY <2>8 DEF bankVars
  <2> QED
    BY <2>1, <2>2, <2>3, <2>4, <2>5, <2>6, <2>7, <2>8 DEF BankNext
<1> QED
  BY <1>1, <1>2, SharesInvariant, PTL DEF BankSpec

\* A signal that has not been made has been given to no sink.
SignalsInv ==
  /\ InterventionTypeOK
  /\ pendingSinks \in [Signal -> SUBSET Sink] /\ published = [x \in Signal |-> published[x]]
  /\ \A x \in Signal : signalRisk[x] = -1 => published[x] = {} /\ pendingSinks[x] = {}

\* The answers a notice may get.
LEMMA NoticeTypes ==
  ASSUME NoticeInv, NEW n \in Notice
  PROVE  attempts[n] \in 0..WARNING_ATTEMPTS
<1>1. Counts(n) /\ Limit(n) <= WARNING_ATTEMPTS /\ Limit(n) \in Nat /\ WARNING_ATTEMPTS \in Nat
  BY DEF NoticeInv, Limit, WARNING_ATTEMPTS
<1> QED
  BY <1>1 DEF Counts

\* Notices, signals and the log of requests keep their types; no sink has what is
\* still to be given to it.
THEOREM InterventionTypes == InterventionSpec => []InterventionTypeOK
<1>1. InterventionInit => SignalsInv
  BY DEF InterventionInit, SignalsInv, InterventionTypeOK, WARNING_ATTEMPTS
<1>2. SignalsInv /\ NoticeInv /\ NoticeInv' /\ [InterventionNext]_interventionVars => SignalsInv'
  <2> SUFFICES ASSUME SignalsInv, NoticeInv, NoticeInv', [InterventionNext]_interventionVars
               PROVE  SignalsInv'
    OBVIOUS
  <2> DEFINE Codes == {"new", "posting", "sent", "failed", "error",
                       "dashboard_only", "outbound_disabled"}
  <2>1. ASSUME noticePc' \in [Notice -> Codes], UNCHANGED <<interventionLog, signalVars>>
        PROVE  SignalsInv'
    <3>1. attempts' \in [Notice -> 0..WARNING_ATTEMPTS]
      <4>1. attempts' = [n \in Notice |-> attempts'[n]]
        BY DEF NoticeInv
      <4>2. ASSUME NEW n \in Notice PROVE attempts'[n] \in 0..WARNING_ATTEMPTS
        <5>1. Counts(n)' /\ Limit(n) <= WARNING_ATTEMPTS /\ Limit(n) \in Nat
              /\ WARNING_ATTEMPTS \in Nat
          BY DEF NoticeInv, Limit, WARNING_ATTEMPTS
        <5> QED
          BY <5>1 DEF Counts, Limit
      <4> QED
        BY <4>1, <4>2
    <3> QED
      BY <2>1, <3>1 DEF SignalsInv, InterventionTypeOK, signalVars
  <2>2. noticePc \in [Notice -> Codes]
    BY DEF SignalsInv, InterventionTypeOK
  <2>3. ASSUME NEW f \in Freeze, RequestFreeze(f) \/ PostFreeze(f) PROVE SignalsInv'
    <3>1. noticePc' \in [Notice -> Codes]
      <4>1. channels.bank \in {"none", "dashboard", "webhook"}
        BY DEF NoticeInv
      <4> QED
        BY <2>2, <2>3, <4>1, Zenon DEF RequestFreeze, PostFreeze, Post, NoticeAnswered
    <3> QED
      BY <2>1, <2>3, <3>1 DEF RequestFreeze, PostFreeze, Post
  <2>4. ASSUME NEW w \in Warning, RequestWarning(w) \/ PostWarning(w) PROVE SignalsInv'
    <3>1. noticePc' \in [Notice -> Codes]
      BY <2>2, <2>4 DEF RequestWarning, PostWarning, Post, NoticeAnswered
    <3> QED
      BY <2>1, <2>4, <3>1 DEF RequestWarning, PostWarning, Post
  <2> USE DEF SignalsInv, InterventionTypeOK, noticeVars, signalVars
  <2>5. ASSUME NEW c \in CoolOff, TriggerIntervention(c) PROVE SignalsInv'
    BY <2>5 DEF TriggerIntervention
  <2>6. ASSUME NEW x \in Signal, NormalizeAndEmit(x) PROVE SignalsInv'
    <3>1. PICK r \in 0..100 : signalRisk' = [signalRisk EXCEPT ![x] = r]
      BY <2>6, Zenon DEF NormalizeAndEmit
    <3>2. /\ published[x] = {} /\ published' = published
          /\ pendingSinks' = [pendingSinks EXCEPT ![x] = Sink]
      BY <2>6 DEF NormalizeAndEmit
    <3>3. UNCHANGED <<noticePc, attempts, interventionLog, evaluated>>
      BY <2>6 DEF NormalizeAndEmit
    <3>4. signalRisk' \in [Signal -> -1..100]
      BY <3>1
    <3>5. \A y \in Signal : published'[y] \subseteq Sink \ pendingSinks'[y]
      BY <3>2
    <3>6. \A y \in Signal :
          signalRisk'[y] = -1 => published'[y] = {} /\ pendingSinks'[y] = {}
      BY <3>1, <3>2
    <3> QED
      BY <3>2, <3>3, <3>4, <3>5, <3>6
  <2>7. ASSUME NEW x \in Signal, NEW k \in Sink, EmitToSink(x, k) PROVE SignalsInv'
    <3>1. /\ k \in pendingSinks[x] /\ published[x] \subseteq Sink \ pendingSinks[x]
          /\ pendingSinks' = [pendingSinks EXCEPT ![x] = @ \ {k}]
          /\ UNCHANGED <<noticePc, attempts, interventionLog, signalRisk, evaluated>>
          /\ \/ published' = [published EXCEPT ![x] = @ \union {k}]
             \/ UNCHANGED published
      BY <2>7 DEF EmitToSink
    <3>2. signalRisk[x] # -1
      BY <3>1
    <3> QED
      BY <3>1, <3>2
  <2>8. ASSUME NEW x \in Signal, EvaluateIntervention(x) PROVE SignalsInv'
    BY <2>8 DEF EvaluateIntervention
  <2>9. CASE UNCHANGED interventionVars
    BY <2>9 DEF interventionVars
  <2> QED
    BY <2>3, <2>4, <2>5, <2>6, <2>7, <2>8, <2>9, Zenon DEF InterventionNext
<1>3. SignalsInv => InterventionTypeOK
  BY DEF SignalsInv
<1> QED
  BY <1>1, <1>2, <1>3, NoticesInvariant, PTL DEF InterventionSpec

\* Depths, replies and scores of a lookup stay in range, though every level may
\* aggregate again.
THEOREM LookupTypes == LookupSpec => []LookupTypeOK
<1>1. LookupInit => LookupTypeOK
  BY DepthAssumption DEF LookupInit, LookupTypeOK, Route, Weight
<1>2. LookupTypeOK /\ LookupInv /\ LookupInv' /\ [LookupNext]_lookupVars => LookupTypeOK'
  <2> SUFFICES ASSUME LookupTypeOK, LookupInv', [LookupNext]_lookupVars
               PROVE  LookupTypeOK'
    OBVIOUS
  <2>0. depth \in Nat /\ MaxDepth \in Nat /\ depth <= MaxDepth
    BY DepthAssumption DEF LookupTypeOK
  <2>1. ASSUME NEW r \in Route, Ask(r) PROVE LookupTypeOK'
    BY <2>0, <2>1 DEF Ask, LookupTypeOK
  <2>2. CASE Descend
    <3>1. depth' \in 0..MaxDepth
      BY <2>0, <2>2 DEF Descend
    <3> QED
      BY <2>2, <3>1 DEF Descend, LookupTypeOK
  <2>3. CASE ComputeLocalReputation \/ AskPeers \/ FallBack
    <3>1. /\ lookupPc' = "returning" /\ UNCHANGED route
          /\ depth' \in 0..MaxDepth
      BY <2>0, <2>3 DEF ComputeLocalReputation, AskPeers, FallBack, LookupTypeOK
    <3>2. /\ own' \in Reputation /\ reply'.score \in Reputation /\ reply'.weight \in Weight
      BY <3>1 DEF LookupInv
    <3>3. heard' \subseteq PeerScore
      <4>1. CASE AskPeers
        <5>1. PICK answered \in SUBSET Peer : \E score \in [answered -> PeerScore] :
                heard' = heard \union Range(score)
          BY <4>1 DEF AskPeers
        <5>2. PICK score \in [answered -> PeerScore] : heard' = heard \union Range(score)
          BY <5>1
        <5>3. Range(score) \subseteq PeerScore
          BY DEF Range
        <5> QED
          BY <5>2, <5>3 DEF LookupTypeOK
      <4> QED
        BY <2>3, <4>1 DEF ComputeLocalReputation, FallBack, LookupTypeOK
    <3> QED
      BY <3>1, <3>2, <3>3 DEF LookupTypeOK
  <2>4. CASE Answer \/ UNCHANGED lookupVars
    BY <2>4 DEF Answer, lookupVars, LookupTypeOK
  <2> QED
    BY <2>1, <2>2, <2>3, <2>4 DEF LookupNext
<1> QED
  BY <1>1, <1>2, LookupInvariant, PTL DEF LookupSpec

\* Reports, rows and tasks of the community's reputation keep their types.
THEOREM IntelTypes == IntelSpec => []IntelTypeOK
<1>1. IntelInv => IntelTypeOK
  BY DEF IntelInv
<1> QED
  BY <1>1, IntelInvariant, PTL

\* A case, its requests and its keys keep their types.
THEOREM CaseTypes == CaseSpec => []CaseTypeOK
<1>1. CaseInv => CaseTypeOK
  BY DEF CaseInv
<1> QED
  BY <1>1, CasesInvariant, PTL
=============================================================================
