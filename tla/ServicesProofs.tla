--------------------------- MODULE ServicesProofs ---------------------------
(***************************************************************************)
(* Proofs about the services that the platform runs for its tenants        *)
(* (TenantCells, ModelPromotion, WebhookDispatch, ScanEntrances) and about *)
(* the composition of all services (Services).                             *)
(***************************************************************************)
EXTENDS Services, AccountsProofs, CommunityProofs, FiniteSetTheorems, SequenceTheorems, TLAPS

-----------------------------------------------------------------------------
(* Tenants: one never ends up pinned to a region without its data.          *)

\* What an evacuation has carried at each point: the pack holds what was written
\* before it began, the target has imported the pack before a tenant is re-pinned.
Carried(e) ==
  /\ evacPc[e] = "new" => pinned[e] = {}
  /\ evacPc[e] # "new" => \A t \in Provision : readAt[e][t] <= written[t]
  /\ evacPc[e] \in {"importing", "pinning"} => inHand[e] \in Provision
  /\ evacPc[e] = "importing" => pack[e] >= readAt[e][inHand[e]]
  /\ evacPc[e] = "pinning" => copy[inHand[e]][Target[e]] >= readAt[e][inHand[e]]
  /\ \A t \in pinned[e] : copy[t][Target[e]] >= readAt[e][t]

\* The types that the comparisons need.
Amounts ==
  /\ evacPc \in [Evacuation -> {"new", "looping", "importing", "pinning", "done", "failed"}]
  /\ todo \in [Evacuation -> SUBSET Provision]
  /\ inHand \in [Evacuation -> Provision \union {NoTenant}]
  /\ pinned \in [Evacuation -> SUBSET Provision]
  /\ written \in [Provision -> Nat]
  /\ pack \in [Evacuation -> Nat]
  /\ readAt \in [Evacuation -> [Provision -> Nat]]
  /\ copy \in [Provision -> [Region -> Int]]
  /\ dataRegion \in [Provision -> Region \union {"absent"}]
  /\ born \in [Provision -> Region \union {"absent"}]

EvacInv == Amounts /\ (\A e \in Evacuation : Carried(e)) /\ TenantsFollowTheirData

\* The initial states satisfy the invariant.
LEMMA EvacInitInv == TenantInit => EvacInv
  BY DEF TenantInit, EvacInv, Amounts, Carried, TenantsFollowTheirData

\* Amounts only grow, and what a finished evacuation has done stays done.
LEMMA CarriedGrows ==
  ASSUME EvacInv,
         \A t \in Provision : /\ written'[t] >= written[t]
                              /\ \A r \in Region : copy'[t][r] >= copy[t][r],
         Amounts',
         NEW e \in Evacuation,
         evacPc'[e] = evacPc[e], inHand'[e] = inHand[e], pack'[e] = pack[e],
         readAt'[e] = readAt[e], pinned'[e] = pinned[e]
  PROVE  Carried(e)'
<1>1. Target[e] \in Region
  BY TargetAssumption
<1>2. \A t \in Provision :
        /\ readAt[e][t] \in Int /\ written[t] \in Int /\ written'[t] \in Int
        /\ copy[t][Target[e]] \in Int /\ copy'[t][Target[e]] \in Int
  BY <1>1 DEF EvacInv, Amounts
<1>3. Carried(e) /\ pinned[e] \subseteq Provision
  BY DEF EvacInv, Amounts
<1>4. evacPc'[e] # "new" => \A t \in Provision : readAt'[e][t] <= written'[t]
  BY <1>2, <1>3 DEF Carried
<1>5. evacPc'[e] \in {"importing", "pinning"} => inHand'[e] \in Provision
  BY <1>3 DEF Carried
<1>6. evacPc'[e] = "importing" => pack'[e] >= readAt'[e][inHand'[e]]
  BY <1>3 DEF Carried
<1>7. evacPc'[e] = "pinning" => copy'[inHand'[e]][Target[e]] >= readAt'[e][inHand'[e]]
  BY <1>1, <1>2, <1>3 DEF Carried
<1>8. \A t \in pinned'[e] : copy'[t][Target[e]] >= readAt'[e][t]
  BY <1>1, <1>2, <1>3 DEF Carried
<1>9. evacPc'[e] = "new" => pinned'[e] = {}
  BY <1>3 DEF Carried
<1> QED
  BY <1>4, <1>5, <1>6, <1>7, <1>8, <1>9 DEF Carried

\* A step that moves no region leaves every tenant with its data.
LEMMA RegionsKept ==
  ASSUME EvacInv, Amounts', UNCHANGED born,
         \A t \in Provision : dataRegion'[t] \in {"absent", dataRegion[t]},
         \A t \in Provision : \A r \in Region : copy'[t][r] >= copy[t][r],
         \A e \in Evacuation : evacPc[e] = "done" => evacPc'[e] = "done" /\ readAt'[e] = readAt[e]
  PROVE  TenantsFollowTheirData'
<1> SUFFICES ASSUME NEW t \in Provision, dataRegion'[t] \notin {"absent", born'[t]}
             PROVE  \E e \in Evacuation :
                      /\ evacPc'[e] = "done" /\ Target[e] = dataRegion'[t]
                      /\ copy'[t][dataRegion'[t]] >= readAt'[e][t]
  BY DEF TenantsFollowTheirData
<1>1. dataRegion'[t] = dataRegion[t] /\ dataRegion[t] \in Region
  BY DEF EvacInv, Amounts
<1>2. PICK e \in Evacuation :
        /\ evacPc[e] = "done" /\ Target[e] = dataRegion[t]
        /\ copy[t][dataRegion[t]] >= readAt[e][t]
  BY <1>1 DEF EvacInv, TenantsFollowTheirData
<1>3. /\ copy[t][dataRegion[t]] \in Int /\ copy'[t][dataRegion[t]] \in Int
      /\ readAt[e][t] \in Int
  BY <1>1 DEF EvacInv, Amounts
<1>4. copy'[t][dataRegion[t]] >= readAt'[e][t]
  BY <1>1, <1>2, <1>3
<1> QED
  BY <1>1, <1>2, <1>4

\* Requests and the lifecycle touch no evacuation.
LEMMA TenantRequestSteps ==
  ASSUME EvacInv,
         \/ \E p \in Provision :
              LookUpSlug(p) \/ ProvisionTenant(p) \/ RouteRequest(p) \/ WriteData(p)
         \/ \E o \in Offboard : OffboardTenant(o) \/ \E t \in Provision : MarkOffboarding(o, t)
  PROVE  EvacInv'
<1>1. UNCHANGED <<evacPc, todo, inHand, pinned, pack, readAt, copy>>
  BY DEF LookUpSlug, ProvisionTenant, RouteRequest, WriteData, OffboardTenant, MarkOffboarding,
         evacVars, dataVars
<1>2. /\ written' \in [Provision -> Nat]
      /\ \A t \in Provision : written'[t] >= written[t]
  <2>1. CASE UNCHANGED written
    BY <2>1 DEF EvacInv, Amounts
  <2>2. ASSUME NEW p \in Provision, WriteData(p)
        PROVE  /\ written' \in [Provision -> Nat]
               /\ \A t \in Provision : written'[t] >= written[t]
    <3>1. PICK n \in {written[p], written[p] + 1} : written' = [written EXCEPT ![p] = n]
      BY <2>2 DEF WriteData
    <3>2. written \in [Provision -> Nat] /\ n \in Nat /\ n >= written[p]
      BY <3>1 DEF EvacInv, Amounts
    <3> QED
      BY <3>1, <3>2
  <2> QED
    BY <2>1, <2>2 DEF LookUpSlug, ProvisionTenant, RouteRequest, OffboardTenant, MarkOffboarding,
           dataVars
<1>3. /\ dataRegion' \in [Provision -> Region \union {"absent"}]
      /\ born' \in [Provision -> Region \union {"absent"}]
  <2>1. /\ dataRegion \in [Provision -> Region \union {"absent"}]
        /\ born \in [Provision -> Region \union {"absent"}]
    BY DEF EvacInv, Amounts
  <2>2. ASSUME NEW p \in Provision, ProvisionTenant(p)
        PROVE  /\ dataRegion' \in [Provision -> Region \union {"absent"}]
               /\ born' \in [Provision -> Region \union {"absent"}]
    BY <2>1, <2>2 DEF ProvisionTenant
  <2>3. ASSUME NEW o \in Offboard, OffboardTenant(o)
        PROVE  /\ dataRegion' \in [Provision -> Region \union {"absent"}]
               /\ born' = born
    BY <2>1, <2>3 DEF OffboardTenant
  <2> QED
    BY <2>1, <2>2, <2>3 DEF LookUpSlug, RouteRequest, WriteData, MarkOffboarding, rowState
<1>4. Amounts'
  BY <1>1, <1>2, <1>3 DEF EvacInv, Amounts
<1>5. \A e \in Evacuation : Carried(e)'
  <2>1. \A t \in Provision : \A r \in Region : copy'[t][r] >= copy[t][r]
    BY <1>1 DEF EvacInv, Amounts
  <2> QED
    BY <1>1, <1>2, <1>4, <2>1, CarriedGrows
<1>6. TenantsFollowTheirData'
  <2>1. \A t \in Provision : dataRegion'[t] \notin {"absent", born'[t]} =>
          dataRegion'[t] = dataRegion[t] /\ born'[t] = born[t]
    BY DEF LookUpSlug, ProvisionTenant, RouteRequest, WriteData, OffboardTenant, MarkOffboarding,
           rowState, EvacInv, Amounts
  <2> QED
    BY <1>1, <2>1 DEF EvacInv, TenantsFollowTheirData
<1> QED
  BY <1>4, <1>5, <1>6 DEF EvacInv

\* What a step of one evacuation leaves alone.
LEMMA OneEvacuation ==
  ASSUME EvacInv, Amounts', NEW e \in Evacuation,
         UNCHANGED <<dataRegion, born, written>>,
         \A t \in Provision : \A r \in Region : copy'[t][r] >= copy[t][r],
         \A f \in Evacuation \ {e} :
           /\ evacPc'[f] = evacPc[f] /\ inHand'[f] = inHand[f] /\ pack'[f] = pack[f]
           /\ readAt'[f] = readAt[f] /\ pinned'[f] = pinned[f],
         evacPc[e] # "done",
         Carried(e)'
  PROVE  EvacInv'
<1>1. \A t \in Provision : written'[t] >= written[t]
  BY DEF EvacInv, Amounts
<1>2. \A f \in Evacuation : Carried(f)'
  BY <1>1, CarriedGrows
<1>3. TenantsFollowTheirData'
  BY RegionsKept DEF EvacInv, Amounts
<1> QED
  BY <1>2, <1>3 DEF EvacInv

\* The steps of one evacuation up to its commit.
LEMMA EvacuationSteps ==
  ASSUME EvacInv, NEW e \in Evacuation,
         \/ StartEvacuation(e) \/ ImportToTargetCell(e) \/ RepinTenant(e) \/ EvacuationFails(e)
         \/ \E t \in Provision : ExportTenant(e, t)
  PROVE  EvacInv'
<1>0. Amounts /\ Carried(e) /\ Target[e] \in Region
  BY TargetAssumption DEF EvacInv
<1>1. CASE StartEvacuation(e)
  <2>1. /\ evacPc[e] = "new" /\ evacPc' = [evacPc EXCEPT ![e] = "looping"]
        /\ todo' = [todo EXCEPT ![e] = {t \in Provision : dataRegion[t] = Home}]
        /\ readAt' = [readAt EXCEPT ![e] = written]
        /\ UNCHANGED <<dataRegion, born, inHand, pinned, pack, written, copy>>
    BY <1>1 DEF StartEvacuation, EvacGoes, rowState, dataVars
  <2>2. Amounts'
    BY <1>0, <2>1 DEF Amounts
  <2>3. pinned[e] = {}
    BY <1>0, <2>1 DEF Amounts, Carried
  <2>4. Carried(e)'
    BY <1>0, <2>1, <2>3 DEF Amounts, Carried
  <2> QED
    BY <1>0, <2>1, <2>2, <2>4, OneEvacuation DEF Amounts
<1>2. ASSUME NEW t \in Provision, ExportTenant(e, t)
      PROVE  EvacInv'
  <2>1. /\ evacPc[e] = "looping" /\ t \in todo[e]
        /\ todo' = [todo EXCEPT ![e] = @ \ {t}]
        /\ UNCHANGED <<dataRegion, born, pinned, readAt, written, copy>>
        /\ \/ /\ evacPc' = [evacPc EXCEPT ![e] = "importing"]
              /\ inHand' = [inHand EXCEPT ![e] = t]
              /\ pack' = [pack EXCEPT ![e] = written[t]]
           \/ UNCHANGED <<evacPc, inHand, pack>>
    BY <1>2 DEF ExportTenant, EvacGoes, rowState, dataVars
  <2>2. Amounts'
    <3>1. todo' \in [Evacuation -> SUBSET Provision] /\ written[t] \in Nat
      BY <1>0, <2>1 DEF Amounts
    <3>2. evacPc' \in [Evacuation -> {"new", "looping", "importing", "pinning", "done", "failed"}]
      BY <1>0, <2>1 DEF Amounts
    <3>3. inHand' \in [Evacuation -> Provision \union {NoTenant}]
      BY <1>0, <2>1 DEF Amounts
    <3>4. pack' \in [Evacuation -> Nat]
      BY <1>0, <2>1, <3>1 DEF Amounts
    <3> QED
      BY <1>0, <2>1, <3>1, <3>2, <3>3, <3>4 DEF Amounts
  <2>3. Carried(e)'
    BY <1>0, <2>1 DEF Amounts, Carried
  <2> QED
    BY <1>0, <2>1, <2>2, <2>3, OneEvacuation DEF Amounts
<1>3. CASE ImportToTargetCell(e)
  <2>1. /\ evacPc[e] = "importing"
        /\ UNCHANGED <<dataRegion, born, todo, inHand, pinned, pack, readAt, written>>
        /\ \/ evacPc' = [evacPc EXCEPT ![e] = "pinning"] /\ Imported(e)
           \/ evacPc' = [evacPc EXCEPT ![e] = "looping"] /\ (Imported(e) \/ UNCHANGED copy)
    BY <1>3 DEF ImportToTargetCell, EvacGoes, rowState
  <2>2. inHand[e] \in Provision /\ pack[e] \in Nat
    BY <1>0, <2>1 DEF Amounts, Carried
  <2>3. /\ copy' \in [Provision -> [Region -> Int]]
        /\ \A t \in Provision : \A r \in Region : copy'[t][r] >= copy[t][r]
        /\ Imported(e) => copy'[inHand[e]][Target[e]] >= pack[e]
    <3>1. CASE UNCHANGED copy /\ ~ Imported(e)
      BY <1>0, <3>1 DEF Amounts
    <3>2. CASE Imported(e)
      <4> DEFINE c == copy[inHand[e]][Target[e]]
                 m == IF c < pack[e] THEN pack[e] ELSE c
      <4>1. c \in Int /\ m \in Int /\ m >= c /\ m >= pack[e]
        BY <1>0, <2>2 DEF Amounts
      <4>2. copy' = [copy EXCEPT ![inHand[e]] = [copy[inHand[e]] EXCEPT ![Target[e]] = m]]
        BY <1>0, <2>2, <3>2 DEF Imported, Amounts
      <4> HIDE DEF c, m
      <4>3. /\ copy'[inHand[e]] = [copy[inHand[e]] EXCEPT ![Target[e]] = m]
            /\ \A t \in Provision \ {inHand[e]} : copy'[t] = copy[t]
            /\ copy' \in [Provision -> [Region -> Int]]
        BY <1>0, <2>2, <4>1, <4>2 DEF Amounts
      <4>4. /\ copy'[inHand[e]][Target[e]] = m
            /\ \A r \in Region \ {Target[e]} : copy'[inHand[e]][r] = copy[inHand[e]][r]
        BY <1>0, <2>2, <4>3 DEF Amounts
      <4>5. copy'[inHand[e]][Target[e]] >= c
        BY <4>1, <4>4
      <4>6. ASSUME NEW t \in Provision, NEW r \in Region
            PROVE  copy'[t][r] >= copy[t][r]
        <5>1. copy[t][r] \in Int
          BY <1>0 DEF Amounts
        <5>2. CASE t = inHand[e] /\ r = Target[e]
          BY <4>5, <5>2 DEF c
        <5>3. CASE ~ (t = inHand[e] /\ r = Target[e])
          BY <4>3, <4>4, <5>1, <5>3
        <5> QED
          BY <5>2, <5>3
      <4> QED
        BY <4>1, <4>3, <4>4, <4>6
    <3> QED
      BY <2>1, <3>1, <3>2
  <2>4. Amounts'
    BY <1>0, <2>1, <2>3 DEF Amounts
  <2>5. \A t \in pinned'[e] : copy'[t][Target[e]] >= readAt'[e][t]
    <3> SUFFICES ASSUME NEW t \in pinned[e]
                 PROVE  copy'[t][Target[e]] >= readAt[e][t]
      BY <2>1
    <3>1. t \in Provision /\ readAt[e][t] \in Int /\ copy[t][Target[e]] \in Int
          /\ copy'[t][Target[e]] \in Int
      BY <1>0, <2>3 DEF Amounts
    <3>2. copy[t][Target[e]] >= readAt[e][t]
      BY <1>0 DEF Carried
    <3> QED
      BY <1>0, <2>3, <3>1, <3>2
  <2>6. evacPc'[e] = "pinning" => copy'[inHand'[e]][Target[e]] >= readAt'[e][inHand'[e]]
    <3>1. /\ readAt[e][inHand[e]] \in Int /\ copy'[inHand[e]][Target[e]] \in Int
          /\ pack[e] >= readAt[e][inHand[e]]
      BY <1>0, <2>1, <2>2, <2>3 DEF Amounts, Carried
    <3>2. evacPc'[e] = "pinning" => copy'[inHand[e]][Target[e]] >= pack[e]
      BY <1>0, <2>1, <2>3 DEF Amounts
    <3> QED
      BY <2>1, <2>2, <3>1, <3>2
  <2>7. Carried(e)'
    BY <1>0, <2>1, <2>2, <2>5, <2>6 DEF Amounts, Carried
  <2> QED
    BY <1>0, <2>1, <2>3, <2>4, <2>7, OneEvacuation DEF Amounts
<1>4. CASE RepinTenant(e)
  <2>1. /\ evacPc[e] = "pinning"
        /\ UNCHANGED <<dataRegion, born, todo, inHand, pack, readAt, written, copy>>
        /\ \/ /\ evacPc' = [evacPc EXCEPT ![e] = "looping"]
              /\ pinned' = [pinned EXCEPT ![e] = @ \union {inHand[e]}]
           \/ /\ evacPc' = [evacPc EXCEPT ![e] = "failed"]
              /\ pinned' = [pinned EXCEPT ![e] = {}]
    BY <1>4 DEF RepinTenant, EvacGoes, rowState, dataVars
  <2>2. inHand[e] \in Provision
    BY <1>0, <2>1 DEF Carried
  <2>3. /\ evacPc' \in [Evacuation -> {"new", "looping", "importing", "pinning", "done", "failed"}]
        /\ pinned' \in [Evacuation -> SUBSET Provision]
    <3>1. /\ pinned[e] \union {inHand[e]} \in SUBSET Provision /\ {} \in SUBSET Provision
          /\ pinned \in [Evacuation -> SUBSET Provision]
      BY <1>0, <2>2 DEF Amounts
    <3>2. PICK P \in SUBSET Provision : pinned' = [pinned EXCEPT ![e] = P]
      BY <2>1, <3>1
    <3>3. PICK c \in {"looping", "failed"} : evacPc' = [evacPc EXCEPT ![e] = c]
      BY <2>1
    <3>4. pinned' \in [Evacuation -> SUBSET Provision]
      BY <3>1, <3>2
    <3> QED
      BY <1>0, <3>3, <3>4 DEF Amounts
  <2>4. Amounts'
    BY <1>0, <2>1, <2>3 DEF Amounts
  <2>5. Carried(e)'
    BY <1>0, <2>1 DEF Amounts, Carried
  <2>6. /\ evacPc[e] # "done" /\ UNCHANGED <<dataRegion, born, written, copy>>
        /\ \A f \in Evacuation \ {e} :
             /\ evacPc'[f] = evacPc[f] /\ inHand'[f] = inHand[f] /\ pack'[f] = pack[f]
             /\ readAt'[f] = readAt[f] /\ pinned'[f] = pinned[f]
    BY <1>0, <2>1 DEF Amounts
  <2>7. \A t \in Provision : \A r \in Region : copy'[t][r] >= copy[t][r]
    BY <1>0, <2>6 DEF Amounts
  <2> QED
    BY <2>4, <2>5, <2>6, <2>7, OneEvacuation
<1>5. CASE EvacuationFails(e)
  <2>1. /\ evacPc[e] \in {"looping", "importing", "pinning"}
        /\ evacPc' = [evacPc EXCEPT ![e] = "failed"]
        /\ pinned' = [pinned EXCEPT ![e] = {}]
        /\ UNCHANGED <<dataRegion, born, todo, inHand, pack, readAt, written, copy>>
    BY <1>5 DEF EvacuationFails, rowState, dataVars
  <2>2. Amounts'
    BY <1>0, <2>1 DEF Amounts
  <2>3. Carried(e)'
    BY <1>0, <2>1 DEF Amounts, Carried
  <2> QED
    BY <1>0, <2>1, <2>2, <2>3, OneEvacuation DEF Amounts
<1> QED
  BY <1>1, <1>2, <1>3, <1>4, <1>5

\* The commit re-pins exactly the tenants whose data the target has.
LEMMA CommitStep ==
  ASSUME EvacInv, NEW e \in Evacuation, CommitEvacuation(e)
  PROVE  EvacInv'
<1>1. /\ evacPc[e] = "looping" /\ evacPc' = [evacPc EXCEPT ![e] = "done"]
      /\ dataRegion' = [t \in Provision |-> IF t \in pinned[e] THEN Target[e] ELSE dataRegion[t]]
      /\ pinned' = [pinned EXCEPT ![e] = {}]
      /\ UNCHANGED <<born, todo, inHand, pack, readAt, written, copy>>
  BY DEF CommitEvacuation, EvacGoes, dataVars
<1>2. Amounts /\ Target[e] \in Region /\ Carried(e)
  BY TargetAssumption DEF EvacInv
<1>3. Amounts'
  BY <1>1, <1>2 DEF Amounts
<1>4. /\ \A t \in Provision : written'[t] >= written[t]
      /\ \A t \in Provision : \A r \in Region : copy'[t][r] >= copy[t][r]
  BY <1>1, <1>2 DEF Amounts
<1>5. \A f \in Evacuation \ {e} : Carried(f)'
  BY <1>1, <1>2, <1>3, <1>4, CarriedGrows DEF Amounts
<1>6. Carried(e)'
  BY <1>1, <1>2 DEF Amounts, Carried
<1>7. TenantsFollowTheirData'
  <2> SUFFICES ASSUME NEW t \in Provision, dataRegion'[t] \notin {"absent", born'[t]}
               PROVE  \E f \in Evacuation :
                        /\ evacPc'[f] = "done" /\ Target[f] = dataRegion'[t]
                        /\ copy'[t][dataRegion'[t]] >= readAt'[f][t]
    BY DEF TenantsFollowTheirData
  <2>1. CASE t \in pinned[e]
    BY <1>1, <1>2, <2>1 DEF Amounts, Carried
  <2>2. CASE t \notin pinned[e]
    <3>1. dataRegion[t] \notin {"absent", born[t]} /\ dataRegion'[t] = dataRegion[t]
      BY <1>1, <2>2
    <3>2. PICK f \in Evacuation :
            /\ evacPc[f] = "done" /\ Target[f] = dataRegion[t]
            /\ copy[t][dataRegion[t]] >= readAt[f][t]
      BY <3>1 DEF EvacInv, TenantsFollowTheirData
    <3> QED
      BY <1>1, <1>2, <3>1, <3>2 DEF Amounts
  <2> QED
    BY <2>1, <2>2
<1> QED
  BY <1>3, <1>5, <1>6, <1>7 DEF EvacInv

\* Every step keeps the invariant.
LEMMA EvacStep == EvacInv /\ [TenantNext]_tenantVars => EvacInv'
<1> SUFFICES ASSUME EvacInv, [TenantNext]_tenantVars
             PROVE  EvacInv'
  OBVIOUS
<1>1. CASE UNCHANGED tenantVars
  BY <1>1 DEF tenantVars, rowState, evacVars, dataVars, EvacInv, Amounts, Carried,
              TenantsFollowTheirData
<1>2. CASE TenantNext
  BY <1>2, TenantRequestSteps, EvacuationSteps, CommitStep DEF TenantNext
<1> QED
  BY <1>1, <1>2

\* Whatever evacuations, offboardings, failures and requests overlap, a tenant
\* that was moved is pinned to a region that has imported it with all that was
\* written before the evacuation began.
THEOREM TenantsKeepTheirData == TenantSpec => []TenantsFollowTheirData
<1>1. EvacInv => TenantsFollowTheirData
  BY DEF EvacInv
<1> QED
  BY <1>1, EvacInitInv, EvacStep, PTL DEF TenantSpec

-----------------------------------------------------------------------------
(* Models                                                                   *)

-----------------------------------------------------------------------------
(* Promotion                                                                *)

\* What promotion p has seen passes the guard.
Guarded(p) == GuardPasses(goldReport[p], evidence[p])

\* A promotion that got as far as swapping has seen what the guard asks for, and
\* one that has swapped is answered as failed.
ServingInv ==
  /\ serving = [w \in Process |-> serving[w]]
  /\ promotionPc = [p \in Promotion |-> promotionPc[p]]
  /\ goldReport = [p \in Promotion |-> goldReport[p]]
  /\ evidence = [p \in Promotion |-> evidence[p]]
  /\ \A p \in Promotion : promotionPc[p] \in {"swapping", "failed"} => Guarded(p)
  /\ \A w \in Process : serving[w] # "unknown" =>
       \E p \in Promotion :
         RunsIn[p] = w /\ Candidate[p] = serving[w] /\ promotionPc[p] = "failed"

\* At the start no process serves a candidate.
LEMMA ServingInitInv == ModelInit => ServingInv
  BY DEF ModelInit, ServingInv

\* One promotion has moved on: what the others did stands.
LEMMA PromotionMoves ==
  ASSUME ServingInv, NEW p \in Promotion, NEW c,
         promotionPc[p] # "failed",
         promotionPc' = [promotionPc EXCEPT ![p] = c],
         \/ UNCHANGED serving
         \/ c = "failed" /\ serving' = [serving EXCEPT ![RunsIn[p]] = Candidate[p]],
         \/ UNCHANGED <<goldReport, evidence>>
         \/ (\E g : goldReport' = [goldReport EXCEPT ![p] = g]) /\ UNCHANGED evidence
         \/ (\E v : evidence' = [evidence EXCEPT ![p] = v]) /\ UNCHANGED goldReport,
         c \in {"swapping", "failed"} => Guarded(p)'
  PROVE  ServingInv'
<1>1. RunsIn[p] \in Process
  BY PromotionAssumption
<1>2. /\ serving' = [w \in Process |-> serving'[w]]
      /\ promotionPc' = [q \in Promotion |-> promotionPc'[q]]
      /\ goldReport' = [q \in Promotion |-> goldReport'[q]]
      /\ evidence' = [q \in Promotion |-> evidence'[q]]
  BY DEF ServingInv
<1>3. /\ promotionPc'[p] = c
      /\ \A q \in Promotion \ {p} :
           /\ promotionPc'[q] = promotionPc[q]
           /\ goldReport'[q] = goldReport[q] /\ evidence'[q] = evidence[q]
  BY DEF ServingInv
<1>4. \A q \in Promotion : promotionPc'[q] \in {"swapping", "failed"} => Guarded(q)'
  BY <1>3 DEF ServingInv, Guarded
<1>5. \A w \in Process : serving'[w] # "unknown" =>
        \E q \in Promotion :
          RunsIn[q] = w /\ Candidate[q] = serving'[w] /\ promotionPc'[q] = "failed"
  <2> SUFFICES ASSUME NEW w \in Process, serving'[w] # "unknown"
               PROVE  \E q \in Promotion :
                        RunsIn[q] = w /\ Candidate[q] = serving'[w] /\ promotionPc'[q] = "failed"
    OBVIOUS
  <2>1. CASE serving'[w] = serving[w]
    <3>1. PICK q \in Promotion :
            RunsIn[q] = w /\ Candidate[q] = serving[w] /\ promotionPc[q] = "failed"
      BY <2>1 DEF ServingInv
    <3> QED
      BY <1>3, <2>1, <3>1
  <2>2. CASE serving'[w] # serving[w]
    <3>1. c = "failed" /\ serving' = [serving EXCEPT ![RunsIn[p]] = Candidate[p]]
      BY <2>2
    <3>2. RunsIn[p] = w /\ serving'[w] = Candidate[p]
      BY <1>1, <2>2, <3>1 DEF ServingInv
    <3> QED
      BY <1>3, <3>1, <3>2
  <2> QED
    BY <2>1, <2>2
<1> QED
  BY <1>2, <1>4, <1>5 DEF ServingInv

\* Promotions keep to the guard.
LEMMA PromotionSteps ==
  ASSUME ServingInv, NEW p \in Promotion,
         ReadCurrentModel(p) \/ CheckPromotionGuard(p) \/ HotSwap(p)
  PROVE  ServingInv'
<1>1. CASE ReadCurrentModel(p)
  <2>1. PICK c \in {"refused", "raised", "current"} :
          promotionPc[p] = "new" /\ promotionPc' = [promotionPc EXCEPT ![p] = c]
    BY <1>1 DEF ReadCurrentModel, PromotionGoes
  <2>2. /\ UNCHANGED <<serving, evidence>>
        /\ \E g : goldReport' = [goldReport EXCEPT ![p] = g]
    BY <1>1 DEF ReadCurrentModel
  <2> QED
    BY <2>1, <2>2, PromotionMoves
<1>2. CASE CheckPromotionGuard(p)
  <2>1. PICK c \in {"swapping", "refused"} :
          /\ promotionPc[p] = "current" /\ promotionPc' = [promotionPc EXCEPT ![p] = c]
          /\ c = "swapping" => GuardPasses(goldReport[p], shadows)
    BY <1>2 DEF CheckPromotionGuard, PromotionGoes
  <2>2. /\ UNCHANGED <<serving, goldReport>>
        /\ evidence' = [evidence EXCEPT ![p] = shadows]
    BY <1>2 DEF CheckPromotionGuard
  <2>3. evidence'[p] = shadows
    BY <2>2 DEF ServingInv
  <2>4. c = "swapping" => Guarded(p)'
    BY <2>1, <2>2, <2>3 DEF Guarded, GuardPasses
  <2> QED
    BY <2>1, <2>2, <2>4, PromotionMoves
<1>3. CASE HotSwap(p)
  <2>1. /\ promotionPc[p] = "swapping" /\ promotionPc' = [promotionPc EXCEPT ![p] = "failed"]
        /\ serving' = [serving EXCEPT ![RunsIn[p]] = Candidate[p]]
        /\ UNCHANGED <<goldReport, evidence>>
    BY <1>3 DEF HotSwap, PromotionGoes
  <2>2. Guarded(p)'
    BY <2>1 DEF ServingInv, Guarded, GuardPasses
  <2> QED
    BY <2>1, <2>2, PromotionMoves
<1> QED
  BY <1>1, <1>2, <1>3

\* A restart forgets what is served, and kills the promotions that run in the process.
LEMMA RestartKeeps ==
  ASSUME ServingInv, NEW w \in Process, RestartProcess(w)
  PROVE  ServingInv'
<1>1. /\ serving' = [serving EXCEPT ![w] = "unknown"]
      /\ promotionPc' = [p \in Promotion |->
            IF RunsIn[p] = w /\ promotionPc[p] \in {"current", "swapping"}
            THEN "killed" ELSE promotionPc[p]]
      /\ UNCHANGED <<goldReport, evidence>>
  BY DEF RestartProcess
<1>2. \A v \in Process : serving'[v] \in {"unknown", serving[v]}
  BY <1>1 DEF ServingInv
<1>3. \A p \in Promotion :
        /\ promotionPc[p] = "failed" => promotionPc'[p] = "failed"
        /\ promotionPc'[p] \in {"swapping", "failed"} => promotionPc'[p] = promotionPc[p]
  BY <1>1
<1>4. /\ serving' = [v \in Process |-> serving'[v]]
      /\ promotionPc' = [q \in Promotion |-> promotionPc'[q]]
  BY <1>1 DEF ServingInv
<1>5. \A p \in Promotion : promotionPc'[p] \in {"swapping", "failed"} => Guarded(p)'
  BY <1>1, <1>3 DEF ServingInv, Guarded, GuardPasses
<1>6. \A v \in Process : serving'[v] # "unknown" =>
        \E p \in Promotion :
          RunsIn[p] = v /\ Candidate[p] = serving'[v] /\ promotionPc'[p] = "failed"
  BY <1>2, <1>3 DEF ServingInv
<1> QED
  BY <1>1, <1>4, <1>5, <1>6 DEF ServingInv

\* Though promotions report failure and the table does not say what is served, a
\* process serves only versions that passed the guard in it, after any restarts.
THEOREM ServingStaysGuarded == ModelSpec => []ServingIsGuarded
<1>1. ServingInv => ServingIsGuarded
  BY DEF ServingInv, ServingIsGuarded, Guarded, GuardPasses, ShadowAgrees
<1>2. ServingInv /\ [ModelNext]_modelVars => ServingInv'
  <2> SUFFICES ASSUME ServingInv, [ModelNext]_modelVars
               PROVE  ServingInv'
    OBVIOUS
  <2>1. CASE UNCHANGED <<serving, promotionPc, goldReport, evidence>>
    BY <2>1 DEF ServingInv, Guarded, GuardPasses
  <2>2. CASE ModelNext
    BY <2>1, <2>2, PromotionSteps, RestartKeeps
       DEF ModelNext, PromotionNext, DriftNext, RunShadow, ShadowAges, ChangeActiveRow,
           NextWeek, ReadRecent, ReadReference, PersistDriftLog, promotionVars
  <2>3. UNCHANGED modelVars => UNCHANGED <<serving, promotionPc, goldReport, evidence>>
    BY DEF modelVars, promotionVars
  <2> QED
    BY <2>1, <2>2, <2>3
<1> QED
  BY <1>1, <1>2, ServingInitInv, PTL DEF ModelSpec

-----------------------------------------------------------------------------
(* Drift                                                                    *)

Running(d) == driftPc[d] \in {"read", "found"}

\* While no runs have overlapped, one runs at a time, and what it has found is
\* the reference of the rows that are there.
OneReference ==
  /\ \A i \in 1..Len(driftLog) : driftLog[i] = driftLog[1]
  /\ \A d \in DriftRun : Running(d) => \A c \in DriftRun : Running(c) => c = d
  /\ \A d \in DriftRun : driftPc[d] = "found" /\ driftLog # <<>> => driftRead[d] = driftLog[1]

DriftInv ==
  /\ driftPc = [d \in DriftRun |-> driftPc[d]]
  /\ driftRead \in [DriftRun -> Nat] /\ week \in Nat
  /\ driftLog \in Seq(Nat) /\ overlapped \in BOOLEAN
  /\ overlapped \/ OneReference

\* There is no reference at the start.
LEMMA DriftInitInv == ModelInit => DriftInv
<1> SUFFICES ASSUME ModelInit
             PROVE  DriftInv
  OBVIOUS
<1>1. /\ driftPc = [d \in DriftRun |-> "new"] /\ driftRead = [d \in DriftRun |-> 0]
      /\ driftLog = <<>> /\ overlapped = FALSE /\ week = 0
  BY DEF ModelInit
<1>2. driftLog \in Seq(Nat) /\ Len(driftLog) = 0
  BY <1>1
<1>3. \A d \in DriftRun : driftPc[d] = "new"
  BY <1>1
<1>4. OneReference
  BY <1>2, <1>3 DEF OneReference, Running
<1> QED
  BY <1>1, <1>2, <1>4 DEF DriftInv

\* A run that starts while another runs overlaps with it.
LEMMA ReadRecentKeeps ==
  ASSUME DriftInv, NEW d \in DriftRun, ReadRecent(d)
  PROVE  DriftInv'
<1>1. PICK next \in {"read", "done"} :
        driftPc[d] = "new" /\ driftPc' = [driftPc EXCEPT ![d] = next]
  BY DEF ReadRecent
<1>2. /\ UNCHANGED <<driftLog, week>>
      /\ driftRead' = [driftRead EXCEPT ![d] = week]
      /\ overlapped' = (overlapped \/ \E c \in DriftRun : Running(c))
  BY DEF ReadRecent, Running
<1>3. /\ driftPc' = [c \in DriftRun |-> driftPc'[c]]
      /\ driftRead' \in [DriftRun -> Nat]
      /\ driftPc'[d] = next /\ \A c \in DriftRun \ {d} : driftPc'[c] = driftPc[c]
  BY <1>1, <1>2 DEF DriftInv
<1>4. ASSUME ~ overlapped'
      PROVE  OneReference'
  <2>1. ~ overlapped /\ \A c \in DriftRun : ~ Running(c)
    BY <1>2, <1>4
  <2>2. \A c \in DriftRun : Running(c)' => c = d
    BY <1>3, <2>1 DEF Running
  <2>3. \A c \in DriftRun : driftPc'[c] # "found"
    BY <1>3, <2>1 DEF Running
  <2> QED
    BY <1>2, <2>1, <2>2, <2>3 DEF DriftInv, OneReference
<1>5. overlapped' \in BOOLEAN
  BY <1>2
<1> QED
  BY <1>2, <1>3, <1>4, <1>5 DEF DriftInv

\* The reference read is the one of the last row, or the first of all.
LEMMA ReadReferenceKeeps ==
  ASSUME DriftInv, NEW d \in DriftRun, ReadReference(d)
  PROVE  DriftInv'
<1>1. /\ driftPc[d] = "read" /\ driftPc' = [driftPc EXCEPT ![d] = "found"]
      /\ driftRead' = [driftRead EXCEPT ![d] = Reference(d)]
      /\ UNCHANGED <<driftLog, overlapped, week>>
  BY DEF ReadReference
<1>2. /\ driftLog = <<>> \/ (Reference(d) = driftLog[Len(driftLog)] /\ Len(driftLog) \in 1..Len(driftLog))
      /\ Reference(d) \in Nat
  BY DEF DriftInv, Reference, Last
<1>3. /\ driftPc' = [c \in DriftRun |-> driftPc'[c]]
      /\ driftRead' \in [DriftRun -> Nat] /\ driftRead'[d] = Reference(d)
      /\ \A c \in DriftRun \ {d} : driftRead'[c] = driftRead[c]
      /\ driftPc'[d] = "found" /\ \A c \in DriftRun \ {d} : driftPc'[c] = driftPc[c]
  BY <1>1, <1>2 DEF DriftInv
<1>4. ASSUME ~ overlapped
      PROVE  OneReference'
  <2>1. OneReference
    BY <1>4 DEF DriftInv
  <2>2. \A c \in DriftRun : Running(c)' <=> Running(c)
    BY <1>1, <1>3 DEF Running
  <2>3. driftLog # <<>> => Reference(d) = driftLog[1]
    BY <1>2, <2>1 DEF OneReference
  <2>4. \A c \in DriftRun : driftPc'[c] = "found" /\ driftLog # <<>> => driftRead'[c] = driftLog[1]
    BY <1>3, <2>1, <2>3 DEF OneReference
  <2> QED
    BY <1>1, <2>1, <2>2, <2>4 DEF OneReference
<1> QED
  BY <1>1, <1>3, <1>4 DEF DriftInv

\* The row stored carries the reference that was read.
LEMMA PersistKeeps ==
  ASSUME DriftInv, NEW d \in DriftRun, PersistDriftLog(d)
  PROVE  DriftInv'
<1>1. /\ driftPc[d] = "found" /\ driftPc' = [driftPc EXCEPT ![d] = "done"]
      /\ driftLog' = Append(driftLog, driftRead[d])
      /\ UNCHANGED <<driftRead, overlapped, week>>
  BY DEF PersistDriftLog
<1>2. /\ driftPc' = [c \in DriftRun |-> driftPc'[c]]
      /\ driftPc'[d] = "done" /\ \A c \in DriftRun \ {d} : driftPc'[c] = driftPc[c]
  BY <1>1 DEF DriftInv
<1>3. /\ driftLog \in Seq(Nat) /\ driftRead[d] \in Nat
      /\ driftLog' \in Seq(Nat) /\ Len(driftLog') = Len(driftLog) + 1
      /\ driftLog'[Len(driftLog) + 1] = driftRead[d]
      /\ \A i \in 1..Len(driftLog) : driftLog'[i] = driftLog[i]
  BY <1>1 DEF DriftInv
<1>4. ASSUME ~ overlapped
      PROVE  OneReference'
  <2>1. OneReference
    BY <1>4 DEF DriftInv
  <2>2. driftLog # <<>> => driftRead[d] = driftLog[1] /\ driftLog'[1] = driftLog[1]
    BY <1>1, <1>3, <2>1 DEF OneReference
  <2>3. driftLog = <<>> => Len(driftLog) = 0
    OBVIOUS
  <2>4. \A i \in 1..Len(driftLog') : driftLog'[i] = driftLog'[1]
    BY <1>3, <2>1, <2>2, <2>3 DEF OneReference
  <2>5. \A c \in DriftRun : ~ Running(c)'
    BY <1>1, <1>2, <2>1 DEF OneReference, Running
  <2> QED
    BY <2>4, <2>5 DEF OneReference, Running
<1> QED
  BY <1>1, <1>2, <1>3, <1>4 DEF DriftInv

\* The reference is one until two runs overlap.
LEMMA DriftInvariant == ModelSpec => []DriftInv
<1>1. DriftInv /\ [ModelNext]_modelVars => DriftInv'
  <2> SUFFICES ASSUME DriftInv, [ModelNext]_modelVars
               PROVE  DriftInv'
    OBVIOUS
  <2>1. CASE UNCHANGED <<driftPc, driftRead, driftLog, overlapped>> /\ week' \in {week, week + 1}
    BY <2>1 DEF DriftInv, OneReference, Running
  <2>2. CASE ModelNext
    BY <2>1, <2>2, ReadRecentKeeps, ReadReferenceKeeps, PersistKeeps
       DEF ModelNext, PromotionNext, DriftNext, RunShadow, ShadowAges, ChangeActiveRow,
           NextWeek, ReadCurrentModel, CheckPromotionGuard, HotSwap, RestartProcess, driftVars
  <2>3. UNCHANGED modelVars => UNCHANGED <<driftPc, driftRead, driftLog, overlapped, week>>
    BY DEF modelVars, driftVars
  <2> QED
    BY <2>1, <2>2, <2>3
<1> QED
  BY <1>1, DriftInitInv, PTL DEF ModelSpec

\* Until two runs overlap, every row of drift_log carries the reference that the
\* first run has stored.
THEOREM ReferenceIsKept == ModelSpec => []ReferenceStands
<1>1. DriftInv => ReferenceStands
  BY DEF DriftInv, OneReference, ReferenceStands
<1> QED
  BY <1>1, DriftInvariant, PTL

\* Both together: what serves and what drift is measured against is accounted for.
THEOREM LifecycleStaysAccounted == ModelSpec => []LifecycleIsAccountedFor
<1>1. ServingIsGuarded /\ ReferenceStands => LifecycleIsAccountedFor
  BY DEF LifecycleIsAccountedFor
<1> QED
  BY <1>1, ServingStaysGuarded, ReferenceIsKept, PTL

-----------------------------------------------------------------------------
(* Webhooks                                                                 *)

\* The types, and what ties a dispatch to the subscriptions and their endpoints.
Distinct(s) == \A i, j \in 1..Len(s) : s[i] = s[j] => i = j

HookTypes ==
  /\ HookTypeOK
  /\ IsFiniteSet(everFailed)
  /\ pending \in [Dispatch -> Seq(Subscription)]
  /\ \A d \in Dispatch : Distinct(pending[d])
  /\ \A s \in Subscription : endpoint[s] # "up" => s \in everFailed

TwoFailed == \E x, y \in everFailed : x # y

\* Seconds that a dispatch has spent before its nth attempt at an endpoint that hangs.
Spent(n) == <<0, 11, 23, 37, 55, 81, 123, 197>>[n]

\* With at most one endpoint failing, a dispatch waits for that one alone: not before
\* its turn, and 207 seconds at most.
Prompt(d) ==
  /\ elapsed[d] <= 207
  /\ hookPc[d] = "new" \/ everFailed = {} => elapsed[d] = 0
  /\ hookPc[d] = "disabling" => pending[d][1] \in everFailed
  /\ hookPc[d] = "trying" /\ pending[d][1] \in everFailed => elapsed[d] <= Spent(attempt[d])
  /\ \A i \in 2..Len(pending[d]) : pending[d][i] \in everFailed => elapsed[d] = 0

Lonely ==
  /\ \A d \in Dispatch : Prompt(d)
  /\ \A s \in Subscription : row[s] = "disabled" => s \in everFailed

HookInv == HookTypes /\ (TwoFailed \/ Lonely)

\* The tail of a sequence without repetitions.
LEMMA TailOf ==
  ASSUME NEW S, NEW s \in Seq(S), s # <<>>, Distinct(s)
  PROVE  /\ Tail(s) \in Seq(S) /\ Len(Tail(s)) = Len(s) - 1 /\ Len(s) \in Nat \ {0}
         /\ \A i \in 1..(Len(s) - 1) : Tail(s)[i] = s[i + 1]
         /\ Distinct(Tail(s)) /\ s[1] \in S /\ Head(s) = s[1]
<1>1. /\ Tail(s) \in Seq(S) /\ Len(Tail(s)) = Len(s) - 1 /\ Len(s) \in Nat \ {0}
      /\ \A i \in 1..(Len(s) - 1) : Tail(s)[i] = s[i + 1]
  OBVIOUS
<1>2. Distinct(Tail(s))
  <2> SUFFICES ASSUME NEW i \in 1..(Len(s) - 1), NEW j \in 1..(Len(s) - 1), s[i + 1] = s[j + 1]
               PROVE  i = j
    BY <1>1 DEF Distinct
  <2>1. i + 1 \in 1..Len(s) /\ j + 1 \in 1..Len(s)
    BY <1>1
  <2>2. i + 1 = j + 1
    BY <2>1 DEF Distinct
  <2> QED
    BY <2>2
<1> QED
  BY <1>1, <1>2

\* What an attempt that fails costs at most.
LEMMA AttemptCosts ==
  ASSUME NEW n \in 1..MAX_RETRIES
  PROVE  /\ Spent(n) \in Nat /\ Backoff(n) \in Nat /\ Spent(1) = 0
         /\ n < MAX_RETRIES => Spent(n) + Timeout + Backoff(n) = Spent(n + 1)
         /\ n = MAX_RETRIES => Spent(n) + Timeout = 207
         /\ Spent(n) <= 207
<1> DEFINE Goal == /\ Spent(n) \in Nat /\ Backoff(n) \in Nat /\ Spent(1) = 0
                   /\ n < MAX_RETRIES => Spent(n) + Timeout + Backoff(n) = Spent(n + 1)
                   /\ n = MAX_RETRIES => Spent(n) + Timeout = 207
                   /\ Spent(n) <= 207
<1>1. n \in {1, 2, 3, 4, 5, 6, 7, 8}
  BY DEF MAX_RETRIES
<1>2. CASE n = 1
  BY <1>2 DEF Spent, Backoff, Timeout, MAX_RETRIES
<1>3. CASE n = 2
  BY <1>3 DEF Spent, Backoff, Timeout, MAX_RETRIES
<1>4. CASE n = 3
  BY <1>4 DEF Spent, Backoff, Timeout, MAX_RETRIES
<1>5. CASE n = 4
  BY <1>5 DEF Spent, Backoff, Timeout, MAX_RETRIES
<1>6. CASE n = 5
  BY <1>6 DEF Spent, Backoff, Timeout, MAX_RETRIES
<1>7. CASE n = 6
  BY <1>7 DEF Spent, Backoff, Timeout, MAX_RETRIES
<1>8. CASE n = 7
  BY <1>8 DEF Spent, Backoff, Timeout, MAX_RETRIES
<1>9. CASE n = 8
  BY <1>9 DEF Spent, Backoff, Timeout, MAX_RETRIES
<1> QED
  BY <1>1, <1>2, <1>3, <1>4, <1>5, <1>6, <1>7, <1>8, <1>9

\* At the start no endpoint has failed and nobody waits.
LEMMA HookInitInv == HookInit => HookInv
<1> SUFFICES ASSUME HookInit PROVE HookInv
  OBVIOUS
<1>1. HookTypes
  BY FS_EmptySet DEF HookInit, HookTypes, HookTypeOK, Distinct, MAX_RETRIES
<1>2. Lonely
  BY DEF HookInit, Lonely, Prompt
<1> QED
  BY <1>1, <1>2 DEF HookInv

\* Requests of tenants write rows, but disable none.
LEMMA RowsWritten ==
  ASSUME HookInv, NEW s \in Subscription, CreateSubscription(s) \/ DeleteSubscription(s)
  PROVE  HookInv'
<1>1. PICK state \in {"active", "deleted"} :
        /\ row' = [row EXCEPT ![s] = state]
        /\ UNCHANGED <<endpoint, dispatchVars, everFailed, flips>>
  BY DEF CreateSubscription, DeleteSubscription
<1>2. HookTypes'
  BY <1>1 DEF HookInv, HookTypes, HookTypeOK, dispatchVars, Distinct
<1>3. TwoFailed => TwoFailed'
  BY <1>1 DEF TwoFailed
<1>4. Lonely => Lonely'
  BY <1>1 DEF HookInv, HookTypes, HookTypeOK, Lonely, Prompt, dispatchVars
<1> QED
  BY <1>2, <1>3, <1>4 DEF HookInv

\* An endpoint that fails is remembered as such.
LEMMA EndpointMoves ==
  ASSUME HookInv, NEW s \in Subscription, EndpointChanges(s)
  PROVE  HookInv'
<1>1. PICK state \in {"up", "refuses", "hangs"} :
        /\ endpoint' = [endpoint EXCEPT ![s] = state]
        /\ everFailed' = IF state = "up" THEN everFailed ELSE everFailed \union {s}
        /\ UNCHANGED <<row, hookPc, pending, attempt, elapsed>>
  BY DEF EndpointChanges, dispatchVars
<1>2. IsFiniteSet(everFailed')
  BY <1>1, FS_AddElement DEF HookInv, HookTypes
<1>3. HookTypes'
  BY <1>1, <1>2 DEF HookInv, HookTypes, HookTypeOK, Distinct
<1>4. CASE everFailed' = everFailed
  BY <1>1, <1>3, <1>4 DEF HookInv, TwoFailed, Lonely, Prompt
<1>5. CASE everFailed = {} /\ everFailed' = {s}
  <2>1. Lonely
    BY <1>5 DEF HookInv, TwoFailed
  <2>2. ASSUME NEW d \in Dispatch PROVE Prompt(d)'
    <3>1. elapsed[d] = 0 /\ hookPc[d] # "disabling" /\ attempt[d] \in 1..MAX_RETRIES
      BY <1>5, <2>1 DEF Lonely, Prompt, HookInv, HookTypes, HookTypeOK
    <3>2. Spent(attempt[d]) \in Nat
      BY <3>1, AttemptCosts
    <3> QED
      BY <1>1, <3>1, <3>2 DEF Prompt
  <2> QED
    BY <1>1, <1>3, <1>5, <2>1, <2>2 DEF HookInv, Lonely
<1>6. CASE everFailed # {} /\ everFailed' # everFailed
  <2>1. TwoFailed'
    BY <1>1, <1>6 DEF TwoFailed
  <2> QED
    BY <1>3, <2>1 DEF HookInv
<1> QED
  BY <1>1, <1>4, <1>5, <1>6

\* A dispatch starts on the subscriptions that are active, each once.
LEMMA SubscriptionsRead ==
  ASSUME HookInv, NEW d \in Dispatch, ReadSubscriptions(d)
  PROVE  HookInv'
<1>1. PICK order \in SetToSeqs({s \in Subscribed : row[s] = "active"}), c \in {"done", "trying"} :
        /\ hookPc[d] = "new"
        /\ pending' = [pending EXCEPT ![d] = order]
        /\ hookPc' = [hookPc EXCEPT ![d] = c]
        /\ c = "trying" => order # <<>>
        /\ UNCHANGED <<row, endpoint, attempt, elapsed, everFailed>>
  BY DEF ReadSubscriptions
<1>2. order \in Seq(Subscription) /\ Distinct(order)
  <2> DEFINE A == {s \in Subscribed : row[s] = "active"}
  <2>1. A \subseteq Subscription /\ IsFiniteSet(A)
    BY SubscribedAssumption, FS_Subset
  <2>2. Cardinality(A) \in Nat
    BY <2>1, FS_CardinalityType
  <2>3. /\ order \in [1..Cardinality(A) -> A]
        /\ \A i, j \in 1..Cardinality(A) : i # j => order[i] # order[j]
    BY <1>1 DEF SetToSeqs
  <2> HIDE DEF A
  <2>4. order \in Seq(Subscription) /\ Len(order) = Cardinality(A)
    BY <2>1, <2>2, <2>3
  <2> QED
    BY <2>3, <2>4 DEF Distinct
<1>3. HookTypes'
  <2>1. /\ pending' \in [Dispatch -> Seq(Subscription)]
        /\ \A x \in Dispatch : pending'[x] = IF x = d THEN order ELSE pending[x]
    BY <1>1, <1>2 DEF HookInv, HookTypes
  <2>2. \A x \in Dispatch : Distinct(pending'[x])
    BY <1>2, <2>1 DEF HookInv, HookTypes
  <2>3. HookTypeOK'
    BY <1>1, <2>1 DEF HookInv, HookTypes, HookTypeOK
  <2> QED
    BY <1>1, <2>1, <2>2, <2>3 DEF HookInv, HookTypes, Distinct
<1>4. ASSUME Lonely PROVE Lonely'
  <2>1. ASSUME NEW x \in Dispatch PROVE Prompt(x)'
    <3>1. CASE x # d
      <4>1. pending'[x] = pending[x] /\ hookPc'[x] = hookPc[x]
        BY <1>1, <3>1 DEF HookInv, HookTypes, HookTypeOK
      <4> QED
        BY <1>1, <1>4, <4>1 DEF Lonely, Prompt
    <3>2. CASE x = d
      <4>1. elapsed[d] = 0 /\ attempt[d] \in 1..MAX_RETRIES
        BY <1>1, <1>4 DEF Lonely, Prompt, HookInv, HookTypes, HookTypeOK
      <4>2. Spent(attempt[d]) \in Nat
        BY <4>1, AttemptCosts
      <4>3. hookPc'[d] = c
        BY <1>1 DEF HookInv, HookTypes, HookTypeOK
      <4> QED
        BY <1>1, <3>2, <4>1, <4>2, <4>3 DEF Prompt
    <3> QED
      BY <3>1, <3>2
  <2> QED
    BY <1>1, <1>4, <2>1 DEF Lonely
<1> QED
  BY <1>1, <1>3, <1>4 DEF HookInv, TwoFailed

\* The loop goes on: what is left has waited as long as what was served.
LEMMA LoopGoesOn ==
  ASSUME HookInv, NEW d \in Dispatch, NextSubscription(d),
         hookPc[d] \in {"trying", "disabling"}, UNCHANGED <<endpoint, elapsed, everFailed>>,
         row' \in [Subscription -> {"none", "active", "disabled", "deleted"}],
         \/ TwoFailed
         \/ \A s \in Subscription : row'[s] = "disabled" => s \in everFailed
  PROVE  HookInv'
<1>1. PICK c \in {"done", "trying"} :
        /\ pending' = [pending EXCEPT ![d] = Tail(@)]
        /\ hookPc' = [hookPc EXCEPT ![d] = c]
        /\ attempt' = [attempt EXCEPT ![d] = 1]
        /\ c = "trying" => Len(pending[d]) # 1
  BY DEF NextSubscription
<1>2. /\ pending[d] \in Seq(Subscription) /\ pending[d] # <<>> /\ Distinct(pending[d])
      /\ HookTypes /\ HookTypeOK
  BY DEF HookInv, HookTypes, HookTypeOK
<1>3. PICK t : t = Tail(pending[d])
  OBVIOUS
<1>4. /\ t \in Seq(Subscription) /\ Distinct(t)
      /\ Len(t) = Len(pending[d]) - 1 /\ Len(pending[d]) \in Nat \ {0}
      /\ \A i \in 1..Len(t) : t[i] = pending[d][i + 1]
  BY <1>2, <1>3, TailOf
<1>5. /\ pending' \in [Dispatch -> Seq(Subscription)]
      /\ hookPc' \in [Dispatch -> {"new", "trying", "disabling", "done", "raised"}]
      /\ attempt' \in [Dispatch -> 1..MAX_RETRIES]
      /\ pending'[d] = t /\ hookPc'[d] = c /\ attempt'[d] = 1
      /\ \A x \in Dispatch : x # d =>
           pending'[x] = pending[x] /\ hookPc'[x] = hookPc[x] /\ attempt'[x] = attempt[x]
  BY <1>1, <1>2, <1>3, <1>4 DEF HookTypes, HookTypeOK, MAX_RETRIES
<1>6. c = "trying" => t # <<>>
  <2>1. c = "trying" => Len(t) # 0
    BY <1>1, <1>4
  <2>2. t = <<>> => Len(t) = 0
    OBVIOUS
  <2> QED
    BY <2>1, <2>2
<1>7. HookTypes'
  <2>1. \A x \in Dispatch : Distinct(pending'[x])
    BY <1>2, <1>4, <1>5 DEF HookTypes
  <2>2. \A x \in Dispatch : hookPc'[x] \in {"trying", "disabling"} => pending'[x] # <<>>
    BY <1>2, <1>5, <1>6 DEF HookTypeOK
  <2> QED
    BY <1>2, <1>5, <2>1, <2>2 DEF HookTypes, HookTypeOK, Distinct
<1>8. ASSUME Lonely, \A s \in Subscription : row'[s] = "disabled" => s \in everFailed
      PROVE  Lonely'
  <2>1. ASSUME NEW x \in Dispatch PROVE Prompt(x)'
    <3>1. CASE x # d
      BY <1>5, <1>8, <3>1 DEF Lonely, Prompt
    <3>2. CASE x = d
      <4>1. Prompt(d)
        BY <1>8 DEF Lonely
      <4>2. \A i \in 1..Len(t) : t[i] \in everFailed => elapsed[d] = 0
        <5> SUFFICES ASSUME NEW i \in 1..Len(t), t[i] \in everFailed PROVE elapsed[d] = 0
          OBVIOUS
        <5>1. i + 1 \in 2..Len(pending[d]) /\ t[i] = pending[d][i + 1]
          BY <1>4
        <5> QED
          BY <4>1, <5>1 DEF Prompt
      <4>3. Spent(1) = 0
        BY AttemptCosts DEF MAX_RETRIES
      <4>4. c = "trying" => 1 \in 1..Len(t)
        BY <1>4, <1>6
      <4>5. 2..Len(t) \subseteq 1..Len(t)
        BY <1>4
      <4>6. hookPc'[d] = "trying" /\ pending'[d][1] \in everFailed' => elapsed'[d] <= Spent(attempt'[d])
        BY <1>5, <4>2, <4>3, <4>4
      <4>7. \A i \in 2..Len(pending'[d]) : pending'[d][i] \in everFailed' => elapsed'[d] = 0
        BY <1>5, <4>2, <4>5
      <4> QED
        BY <1>5, <3>2, <4>1, <4>6, <4>7 DEF Prompt
    <3> QED
      BY <3>1, <3>2
  <2> QED
    BY <1>8, <2>1 DEF Lonely
<1> QED
  BY <1>7, <1>8 DEF HookInv, TwoFailed

\* Who is alone with its failures stays below 207 seconds, and makes no other fail.
LEMMA AttemptKeeps ==
  ASSUME HookInv, NEW d \in Dispatch, AttemptFails(d)
  PROVE  HookInv'
<1>1. /\ pending[d] \in Seq(Subscription) /\ pending[d] # <<>> /\ Distinct(pending[d])
      /\ HookTypes /\ HookTypeOK /\ hookPc[d] = "trying" /\ attempt[d] \in 1..MAX_RETRIES
      /\ elapsed[d] \in Nat
  BY DEF AttemptFails, HookInv, HookTypes, HookTypeOK
<1>2. /\ Len(pending[d]) \in Nat \ {0} /\ Head(pending[d]) = pending[d][1]
      /\ pending[d][1] \in Subscription
  BY <1>1, TailOf
<1>3. PICK wait \in {0, Timeout}, pause \in Nat :
        /\ elapsed' = [elapsed EXCEPT ![d] = @ + wait + pause]
        /\ pause = IF attempt[d] < MAX_RETRIES THEN Backoff(attempt[d]) ELSE 0
  <2>1. Backoff(attempt[d]) \in Nat
    BY <1>1, AttemptCosts
  <2>2. PICK wait \in {0, Timeout} : wait = IF endpoint[Head(pending[d])] = "hangs" THEN Timeout ELSE 0
    OBVIOUS
  <2>3. PICK pause \in Nat : pause = IF attempt[d] < MAX_RETRIES THEN Backoff(attempt[d]) ELSE 0
    BY <2>1
  <2> QED
    BY <2>2, <2>3 DEF AttemptFails
<1>4. PICK c \in {"trying", "disabling"}, n \in 1..MAX_RETRIES :
        /\ hookPc' = [hookPc EXCEPT ![d] = c]
        /\ attempt' = [attempt EXCEPT ![d] = n]
        /\ c = "trying" => attempt[d] < MAX_RETRIES /\ n = attempt[d] + 1
        /\ c = "disabling" => attempt[d] = MAX_RETRIES
  <2>1. CASE attempt[d] < MAX_RETRIES
    <3>1. attempt[d] + 1 \in 1..MAX_RETRIES /\ hookPc' = [hookPc EXCEPT ![d] = "trying"]
          /\ attempt' = [attempt EXCEPT ![d] = attempt[d] + 1]
      BY <1>1, <2>1 DEF AttemptFails, MAX_RETRIES, HookTypeOK
    <3> QED
      BY <2>1, <3>1
  <2>2. CASE ~ (attempt[d] < MAX_RETRIES)
    <3>1. attempt[d] = MAX_RETRIES /\ hookPc' = [hookPc EXCEPT ![d] = "disabling"]
          /\ attempt' = [attempt EXCEPT ![d] = MAX_RETRIES]
      BY <1>1, <2>2 DEF AttemptFails, MAX_RETRIES, HookTypeOK
    <3> QED
      BY <3>1 DEF MAX_RETRIES
  <2> QED
    BY <2>1, <2>2
<1>5. UNCHANGED <<row, endpoint, pending, everFailed>>
  BY DEF AttemptFails
<1>6. HookTypes'
  <2>1. elapsed[d] + wait + pause \in Nat
    BY <1>1 DEF Timeout
  <2> QED
    BY <1>1, <1>3, <1>4, <1>5, <2>1 DEF HookTypes, HookTypeOK, Distinct
<1>7. ASSUME Lonely, ~ TwoFailed PROVE Lonely'
  <2>1. Prompt(d)
    BY <1>7 DEF Lonely
  <2>2. pending[d][1] \in everFailed
    <3>1. ~ Accepts(pending[d][1], d) /\ elapsed[d] <= 207
      BY <1>2, <2>1 DEF AttemptFails, Prompt
    <3>2. endpoint[pending[d][1]] # "up"
      BY <1>1, <3>1 DEF Accepts, REPLAY_TOLERANCE_SECONDS
    <3> QED
      BY <1>1, <1>2, <3>2 DEF HookTypes
  <2>3. elapsed[d] <= Spent(attempt[d])
    BY <1>1, <2>1, <2>2 DEF Prompt
  <2>4. /\ c = "trying" => elapsed[d] + wait + pause <= Spent(n)
        /\ elapsed[d] + wait + pause <= 207
    <3>1. PICK a \in 1..MAX_RETRIES : a = attempt[d]
      BY <1>1
    <3>2. /\ Spent(a) \in Nat /\ elapsed[d] <= Spent(a)
          /\ a < MAX_RETRIES => Spent(a) + Timeout + Backoff(a) = Spent(a + 1)
          /\ a = MAX_RETRIES => Spent(a) + Timeout = 207
      BY <2>3, <3>1, AttemptCosts
    <3>3. Spent(n) \in Nat /\ Spent(n) <= 207
      BY AttemptCosts
    <3>4. Timeout = 10 /\ wait \in {0, 10}
      BY DEF Timeout
    <3>5. CASE c = "trying"
      <4>1. Spent(a) + 10 + pause = Spent(n)
        BY <1>3, <1>4, <3>1, <3>2, <3>4, <3>5
      <4> QED
        BY <1>1, <3>2, <3>3, <3>4, <3>5, <4>1
    <3>6. CASE c = "disabling"
      <4>1. pause = 0 /\ Spent(a) + 10 = 207
        BY <1>3, <1>4, <3>1, <3>2, <3>4, <3>6 DEF MAX_RETRIES
      <4> QED
        BY <1>1, <3>2, <3>4, <3>6, <4>1
    <3> QED
      BY <3>5, <3>6
  <2>5. \A i \in 2..Len(pending[d]) : pending[d][i] \notin everFailed
    <3> SUFFICES ASSUME NEW i \in 2..Len(pending[d]) PROVE pending[d][i] # pending[d][1]
      BY <1>7, <2>2 DEF TwoFailed
    <3>1. i \in 1..Len(pending[d]) /\ 1 \in 1..Len(pending[d]) /\ i # 1
      BY <1>2
    <3> QED
      BY <1>1, <3>1 DEF Distinct
  <2>6. /\ hookPc'[d] = c /\ attempt'[d] = n /\ elapsed'[d] = elapsed[d] + wait + pause
        /\ pending'[d] = pending[d] /\ everFailed' = everFailed
        /\ \A x \in Dispatch : x # d =>
             /\ pending'[x] = pending[x] /\ hookPc'[x] = hookPc[x]
             /\ attempt'[x] = attempt[x] /\ elapsed'[x] = elapsed[x]
    BY <1>1, <1>3, <1>4, <1>5 DEF HookTypeOK
  <2>7. ASSUME NEW x \in Dispatch PROVE Prompt(x)'
    <3>1. CASE x # d
      BY <1>7, <2>6, <3>1 DEF Lonely, Prompt
    <3>2. CASE x = d
      BY <2>2, <2>4, <2>5, <2>6, <3>2 DEF Prompt
    <3> QED
      BY <3>1, <3>2
  <2> QED
    BY <1>5, <1>7, <2>7 DEF Lonely
<1> QED
  BY <1>5, <1>6, <1>7 DEF HookInv, TwoFailed

\* What fails eight times is disabled, unless its row is gone.
LEMMA DisableKeeps ==
  ASSUME HookInv, NEW d \in Dispatch, Disable(d)
  PROVE  HookInv'
<1>1. /\ pending[d] \in Seq(Subscription) /\ pending[d] # <<>> /\ Distinct(pending[d])
      /\ HookTypes /\ HookTypeOK /\ hookPc[d] = "disabling"
  BY DEF Disable, HookInv, HookTypes, HookTypeOK
<1>2. Head(pending[d]) = pending[d][1] /\ pending[d][1] \in Subscription
  BY <1>1, TailOf
<1>3. UNCHANGED <<endpoint, elapsed, everFailed>>
  BY DEF Disable
<1>4. CASE row[Head(pending[d])] = "deleted"
  <2>1. /\ hookPc' = [hookPc EXCEPT ![d] = "raised"]
        /\ UNCHANGED <<row, pending, attempt>>
    BY <1>4 DEF Disable
  <2>2. HookTypes'
    BY <1>1, <1>3, <2>1 DEF HookTypes, HookTypeOK, Distinct
  <2>3. Lonely => Lonely'
    BY <1>1, <1>3, <2>1 DEF HookTypeOK, Lonely, Prompt
  <2> QED
    BY <1>3, <2>2, <2>3 DEF HookInv, TwoFailed
<1>5. CASE row[Head(pending[d])] # "deleted"
  <2>1. /\ row' = [row EXCEPT ![pending[d][1]] = "disabled"]
        /\ NextSubscription(d)
    BY <1>2, <1>5 DEF Disable
  <2>2. row' \in [Subscription -> {"none", "active", "disabled", "deleted"}]
    BY <1>1, <2>1 DEF HookTypeOK
  <2>3. Lonely => \A s \in Subscription : row'[s] = "disabled" => s \in everFailed
    BY <1>1, <1>2, <2>1 DEF HookTypeOK, Lonely, Prompt
  <2> QED
    BY <1>1, <1>3, <2>1, <2>2, <2>3, LoopGoesOn DEF HookInv
<1> QED
  BY <1>4, <1>5

\* Dispatches wait for failing endpoints only, and not for long.
LEMMA HooksInvariant == HookSpec => []HookInv
<1>1. HookInv /\ [HookNext]_hookVars => HookInv'
  <2> SUFFICES ASSUME HookInv, [HookNext]_hookVars
               PROVE  HookInv'
    OBVIOUS
  <2>1. CASE UNCHANGED hookVars
    BY <2>1 DEF hookVars, dispatchVars, HookInv, HookTypes, HookTypeOK, Distinct, TwoFailed,
                Lonely, Prompt
  <2>2. ASSUME NEW d \in Dispatch, Delivered(d)
        PROVE  HookInv'
    <3>1. /\ NextSubscription(d) /\ hookPc[d] = "trying" /\ UNCHANGED <<row, endpoint, elapsed, everFailed>>
      BY <2>2 DEF Delivered
    <3>2. /\ row \in [Subscription -> {"none", "active", "disabled", "deleted"}]
          /\ Lonely => \A s \in Subscription : row[s] = "disabled" => s \in everFailed
      BY DEF HookInv, HookTypes, HookTypeOK, Lonely
    <3> QED
      BY <3>1, <3>2, LoopGoesOn DEF HookInv
  <2> QED
    BY <2>1, <2>2, RowsWritten, EndpointMoves, SubscriptionsRead, AttemptKeeps, DisableKeeps
       DEF HookNext
<1> QED
  BY <1>1, HookInitInv, PTL DEF HookSpec

\* One failing endpoint, however it fails and however often the event is dispatched,
\* never gets the subscription of another disabled: 207 seconds of attempts end within
\* the five minutes that a signature holds (webhook_dispatcher.py:116-160).
THEOREM HealthyEndpointsStay == HookSpec => []HealthyEndpointsAreKept
<1>1. HookInv => HealthyEndpointsAreKept
  <2> SUFFICES ASSUME HookInv, NEW s \in Subscription, row[s] = "disabled", s \notin everFailed
               PROVE  Cardinality(everFailed) >= 2
    BY DEF HealthyEndpointsAreKept
  <2>1. PICK x \in everFailed, y \in everFailed : x # y
    BY DEF HookInv, Lonely, TwoFailed
  <2>2. IsFiniteSet({x}) /\ Cardinality({x}) = 1
    BY FS_Singleton
  <2>3. IsFiniteSet({x} \union {y}) /\ Cardinality({x} \union {y}) = 2
    <3>1. y \notin {x}
      BY <2>1
    <3>2. IsFiniteSet({x} \union {y}) /\ Cardinality({x} \union {y}) = Cardinality({x}) + 1
      BY <2>2, <3>1, FS_AddElement, Zenon
    <3> QED
      BY <2>2, <3>2
  <2>4. {x} \union {y} \subseteq everFailed /\ IsFiniteSet(everFailed)
    BY <2>1 DEF HookInv, HookTypes
  <2>5. Cardinality({x} \union {y}) <= Cardinality(everFailed)
    BY <2>4, FS_Subset
  <2> QED
    BY <2>3, <2>4, <2>5, FS_CardinalityType
<1> QED
  BY <1>1, HooksInvariant, PTL

-----------------------------------------------------------------------------
(* The entrances: what each says of a score, and what is heard of a call.   *)

\* More evidence, of one kind or another, never makes fewer points.
LEMMA PointsGrow ==
  /\ \A c \in Confidence : ConfidencePoints(c) \in Nat
  /\ \A n \in Nat : ReportPoints(n) \in Nat
  /\ \A n \in Nat : EntityPoints(n) \in Nat
  /\ \A m, n \in Nat : m <= n => EntityPoints(m) <= EntityPoints(n)
<1>1. ASSUME NEW c \in Confidence PROVE ConfidencePoints(c) \in Nat
  BY SMT DEF Confidence, Certain, ConfidencePoints, TransformerWeight
<1>2. ASSUME NEW n \in Nat PROVE ReportPoints(n) \in Nat
  BY SMT DEF ReportPoints, Least, Point
<1>3. ASSUME NEW n \in Nat PROVE EntityPoints(n) \in Nat
  BY SMT DEF EntityPoints, Least, GbmWeight
<1>4. ASSUME NEW m \in Nat, NEW n \in Nat, m <= n
      PROVE  EntityPoints(m) <= EntityPoints(n)
  BY <1>4, SMT DEF EntityPoints, Least, GbmWeight
<1> QED
  BY <1>1, <1>2, <1>3, <1>4

\* A score is a percentage, at least 20 for a stranger, and grows with what it
\* is made of.
LEMMA ScoreGrows ==
  ASSUME NEW c \in Confidence, NEW n \in Nat,
         NEW r \in BOOLEAN, NEW u \in BOOLEAN, NEW m \in Nat,
         NEW r2 \in BOOLEAN, NEW u2 \in BOOLEAN, NEW m2 \in Nat
  PROVE  LET x == [conf |-> c, risky |-> r, unknown |-> u, reports |-> n, entities |-> m]
             y == [conf |-> c, risky |-> r2, unknown |-> u2, reports |-> n, entities |-> m2]
         IN  /\ Score(x) \in Percent
             /\ u => Score(x) >= 20
             /\ (r => r2) /\ (u => u2) /\ m <= m2 => Score(x) <= Score(y)
<1> DEFINE x == [conf |-> c, risky |-> r, unknown |-> u, reports |-> n, entities |-> m]
           y == [conf |-> c, risky |-> r2, unknown |-> u2, reports |-> n, entities |-> m2]
           p == Points(x)
           q == Points(y)
<1> DEFINE i(b) == IF b THEN 25 * Point ELSE 0
           j(b) == IF b THEN 20 * Point ELSE 0
<1>1. p = ConfidencePoints(c) + i(r) + j(u) + ReportPoints(n) + EntityPoints(m)
  BY Zenon DEF Points
<1>2. q = ConfidencePoints(c) + i(r2) + j(u2) + ReportPoints(n) + EntityPoints(m2)
  BY Zenon DEF Points
<1>3. /\ i(r) \in Nat /\ i(r2) \in Nat /\ ((r => r2) => i(r) <= i(r2))
      /\ j(u) \in Nat /\ j(u2) \in Nat /\ ((u => u2) => j(u) <= j(u2))
      /\ u => j(u) = 20 * Point
  BY DEF Point
<1>5. Score(x) = Least(Full, p \div Point) /\ Score(y) = Least(Full, q \div Point)
  BY Zenon DEF Score
<1> HIDE DEF x, y, p, q, i, j
<1>6. /\ ConfidencePoints(c) \in Nat /\ ReportPoints(n) \in Nat
      /\ EntityPoints(m) \in Nat /\ EntityPoints(m2) \in Nat
      /\ m <= m2 => EntityPoints(m) <= EntityPoints(m2)
  BY PointsGrow, Zenon
<1>7. /\ p \in Nat /\ q \in Nat /\ (u => p >= 20 * Point)
      /\ (r => r2) /\ (u => u2) /\ m <= m2 => p <= q
  BY <1>1, <1>2, <1>3, <1>6, SMT DEF Point
<1>8. /\ p \div Point \in Nat /\ q \div Point \in Nat
      /\ u => p \div Point >= 20
      /\ p <= q => p \div Point <= q \div Point
  BY <1>7, SMT DEF Point
<1>9. /\ Score(x) \in Percent /\ (u => Score(x) >= 20)
      /\ (r => r2) /\ (u => u2) /\ m <= m2 => Score(x) <= Score(y)
  BY <1>5, <1>7, <1>8, SMT DEF Least, Percent, Full
<1> QED
  BY <1>9 DEF x, y

\* The fields of a text.
LEMMA TextFields ==
  ASSUME NEW x, x \in Text
  PROVE  /\ x.conf \in Confidence /\ x.plain \in Nat /\ x.hidden \in Nat
         /\ x = [conf |-> x.conf, type |-> x.type, plain |-> x.plain,
                 hidden |-> x.hidden, risky |-> x.risky]
<1>1. x \in [conf : ClassifierConf, type : {"none", "listed", "unlisted"},
             plain : Mentioned, hidden : Mentioned, risky : SUBSET {"plain", "hidden"}]
  BY Zenon DEF Text
<1>2. x.conf \in ClassifierConf /\ x.plain \in Mentioned /\ x.hidden \in Mentioned
  BY <1>1
<1>3. x = [conf |-> x.conf, type |-> x.type, plain |-> x.plain,
                 hidden |-> x.hidden, risky |-> x.risky]
  BY <1>1
<1> QED
  BY <1>2, <1>3, EntranceAssumption

\* The score of a text from a stranger is at least 20, and redaction of the text
\* never raises it.
LEMMA TextScores ==
  ASSUME NEW x, x \in Text, NEW u \in BOOLEAN, NEW n \in Nat
  PROVE  /\ TextScore(x, u, n) \in Percent
         /\ TextScore(x, TRUE, n) >= 20
         /\ TextScore(Redacted(x), u, n) \in Percent
         /\ TextScore(Redacted(x), u, n) <= TextScore(x, TRUE, n)
<1>1. /\ x.conf \in Confidence /\ x.plain \in Nat /\ x.hidden \in Nat
      /\ x = [conf |-> x.conf, type |-> x.type, plain |-> x.plain,
              hidden |-> x.hidden, risky |-> x.risky]
  BY TextFields
<1> DEFINE r == x.risky # {}
           r2 == x.risky \ {"hidden"} # {}
           m == x.plain + x.hidden
<1>2. /\ Redacted(x).conf = x.conf /\ Redacted(x).plain = x.plain /\ Redacted(x).hidden = 0
      /\ Redacted(x).risky = x.risky \ {"hidden"}
  <2>1. x \in [conf : ClassifierConf, type : {"none", "listed", "unlisted"},
               plain : Mentioned, hidden : Mentioned, risky : SUBSET {"plain", "hidden"}]
    BY Zenon DEF Text
  <2> DEFINE y == [x EXCEPT !.hidden = 0]
  <2>2. /\ y \in [conf : ClassifierConf, type : {"none", "listed", "unlisted"},
                  plain : Mentioned, hidden : Nat, risky : SUBSET {"plain", "hidden"}]
        /\ y.conf = x.conf /\ y.plain = x.plain /\ y.hidden = 0 /\ y.risky = x.risky
    BY <2>1
  <2>3. Redacted(x) = [y EXCEPT !.risky = x.risky \ {"hidden"}]
    BY Zenon DEF Redacted
  <2> HIDE DEF y
  <2> QED
    BY <2>2, <2>3
<1>3. \A v \in BOOLEAN :
        /\ TextScore(x, v, n) = Score([conf |-> x.conf, risky |-> r, unknown |-> v,
                                       reports |-> n, entities |-> m])
        /\ TextScore(Redacted(x), v, n) =
             Score([conf |-> x.conf, risky |-> r2, unknown |-> v,
                    reports |-> n, entities |-> x.plain])
  <2> TAKE v \in BOOLEAN
  <2>1. x.plain + 0 = x.plain
    BY <1>1
  <2> QED
    BY <1>2, <2>1, Zenon DEF TextScore
<1>4. r \in BOOLEAN /\ r2 \in BOOLEAN /\ m \in Nat /\ x.plain <= m /\ (r2 => r)
  BY <1>1
<1> HIDE DEF r, r2, m
<1>5. ASSUME NEW v \in BOOLEAN, NEW w \in BOOLEAN, w => v
      PROVE  /\ TextScore(x, v, n) \in Percent /\ (v => TextScore(x, v, n) >= 20)
             /\ TextScore(Redacted(x), w, n) \in Percent
             /\ TextScore(Redacted(x), w, n) <= TextScore(x, v, n)
  <2> DEFINE a == [conf |-> x.conf, risky |-> r, unknown |-> v, reports |-> n, entities |-> m]
             b == [conf |-> x.conf, risky |-> r2, unknown |-> w, reports |-> n, entities |-> x.plain]
  <2>1. Score(a) \in Percent /\ (v => Score(a) >= 20)
    BY <1>1, <1>4, ScoreGrows, Zenon
  <2>2. /\ Score(b) \in Percent
        /\ (r2 => r) /\ (w => v) /\ x.plain <= m => Score(b) <= Score(a)
    BY <1>1, <1>4, ScoreGrows, Zenon
  <2>3. TextScore(x, v, n) = Score(a) /\ TextScore(Redacted(x), w, n) = Score(b)
    BY <1>3, Zenon
  <2> HIDE DEF a, b
  <2> QED
    BY <1>4, <1>5, <2>1, <2>2, <2>3, Zenon
<1>6. /\ TextScore(x, u, n) \in Percent /\ TextScore(x, TRUE, n) >= 20
      /\ TextScore(Redacted(x), u, n) \in Percent
      /\ TextScore(Redacted(x), u, n) <= TextScore(x, TRUE, n)
  BY <1>5, Zenon
<1> QED
  BY <1>6

\* What the two properties ask of one answer.
AnswerIsSound(a) ==
  LET blocked == a.score > 50
  IN  /\ a.score \in Percent
      /\ IF a.by = "payment" THEN Rank[a.level] >= Rank[Level(a.score)]
         ELSE a.level = Level(a.score)
      /\ a.action \in {"unsaid", RecommendedAction(a.score)}
      /\ a.words # "appears legitimate"
      /\ a.by = "scan" /\ blocked => a.words \in {"scam", "fraud signs"}
      /\ a.by \in {"scan", "consumer", "whatsapp"} /\ blocked /\ IsScam(a.about)
           => a.warning \in {"high", "critical"}
      /\ a.by = "voice" => /\ blocked => a.warning # "none"
                           /\ a.score <= TextScore(a.about, TRUE, 0)
      /\ a.words = "PASS" => RecommendedAction(a.score) = "NONE"

ToldInv == DOMAIN told = Submission /\ \A s \in AnsweredSubmissions : AnswerIsSound(told[s])

\* The invariant on answers is what the two properties ask.
LEMMA ToldMeansSound == ToldInv => AnswersFitTheirScore /\ NobodyIsReassured
  BY Zenon DEF ToldInv, AnswerIsSound, AnswersFitTheirScore, NobodyIsReassured

\* Nothing is answered at the start.
LEMMA ToldInitInv == EntranceInit => ToldInv
  BY DEF EntranceInit, ToldInv, AnsweredSubmissions

\* One more sound answer keeps the invariant.
LEMMA TellKeeps ==
  ASSUME ToldInv, NEW s, s \in Submission, NEW answer, Told(s, answer), AnswerIsSound(answer)
  PROVE  ToldInv'
<1>1. DOMAIN told' = Submission /\ told'[s] = answer
      /\ \A d \in Submission \ {s} : told'[d] = told[d]
  BY DEF ToldInv, Told
<1>2. ASSUME NEW d, d \in AnsweredSubmissions' PROVE AnswerIsSound(told'[d])
  <2>1. d = s \/ d \in AnsweredSubmissions
    BY <1>1, <1>2 DEF AnsweredSubmissions
  <2>2. CASE d = s
    BY <1>1, <2>2, Zenon
  <2>3. CASE d # s /\ d \in AnsweredSubmissions
    <3>1. d \in Submission \ {s}
      BY <2>3 DEF AnsweredSubmissions
    <3>2. told'[d] = told[d]
      BY <1>1, <3>1, Zenon
    <3> QED
      BY <2>3, <3>2, Zenon DEF ToldInv
  <2> QED
    BY <2>1, <2>2, <2>3
<1>3. \A d \in AnsweredSubmissions' : AnswerIsSound(told'[d])
  BY <1>2, Zenon
<1>4. (\A d \in AnsweredSubmissions : AnswerIsSound(told[d]))'
  BY <1>3, Zenon DEF AnswerIsSound
<1> QED
  BY <1>1, <1>4, Zenon DEF ToldInv

\* The scorer's thresholds and those of the entrances.
LEMMA Thresholds ==
  ASSUME NEW r \in Percent
  PROVE  /\ Decide(r, 0) = RecommendedAction(r)
         /\ RecommendedAction(r) \notin {"appears legitimate", "PASS", "unsaid"}
         /\ r >= 20 => Recommendation(r) \notin {"appears legitimate", "PASS"}
         /\ r > 50 => Recommendation(r) \in {"scam", "fraud signs"}
         /\ r > 50 => WarningTier(TRUE, r) \in {"high", "critical"}
         /\ CallWarning(r) \notin {"appears legitimate", "PASS"}
         /\ r > 50 => CallWarning(r) # "none"
<1>1. Least(Full, r + (0 * 20) \div 100) = r
  BY SMT DEF Least, Percent, Full
<1>2. Decide(r, 0) = RecommendedAction(r)
  <2>1. Decide(r, 0) = RecommendedAction(Least(Full, r + (0 * 20) \div 100))
    BY Zenon DEF Decide, RecommendedAction
  <2> QED
    BY <1>1, <2>1, Zenon
<1>3. RecommendedAction(r) \notin {"appears legitimate", "PASS", "unsaid"}
  BY DEF RecommendedAction
<1>4. /\ r >= 20 => Recommendation(r) \notin {"appears legitimate", "PASS"}
      /\ r > 50 => Recommendation(r) \in {"scam", "fraud signs"}
  BY DEF Recommendation, Percent, Full
<1>5. r > 50 => WarningTier(TRUE, r) \in {"high", "critical"}
  BY DEF WarningTier, Percent, Full
<1>6. /\ CallWarning(r) \notin {"appears legitimate", "PASS"}
      /\ r > 50 => CallWarning(r) # "none"
  BY DEF CallWarning, Percent, Full
<1> QED
  BY <1>2, <1>3, <1>4, <1>5, <1>6, Zenon

\* An answer about a text.
OfText(by, x, r, act, words, warning) ==
  [by |-> by, about |-> x, score |-> r, level |-> Level(r), action |-> act,
   words |-> words, warning |-> warning]

SaidOfText(by, x, r, act, words, warning) ==
  /\ x \in Text /\ r \in Percent
  /\ by \in {"scan", "consumer", "whatsapp", "batch", "voice"}
  /\ act \in {"unsaid", RecommendedAction(r)}
  /\ words \notin {"appears legitimate", "PASS"}
  /\ by = "scan" /\ r > 50 => words \in {"scam", "fraud signs"}
  /\ by \in {"scan", "consumer", "whatsapp"} => warning = WarningTier(IsScam(x), r)
  /\ by = "voice" => (r > 50 => warning # "none") /\ r <= TextScore(x, TRUE, 0)

\* An answer about a text is sound when it says what is asked of it.
LEMMA TextAnswer ==
  ASSUME NEW x, NEW r, NEW by, NEW act, NEW words, NEW warning,
         SaidOfText(by, x, r, act, words, warning)
  PROVE  AnswerIsSound(OfText(by, x, r, act, words, warning))
<1> DEFINE a == OfText(by, x, r, act, words, warning)
<1>1. /\ a.by = by /\ a.about = x /\ a.score = r /\ a.level = Level(r) /\ a.action = act
      /\ a.words = words /\ a.warning = warning
  BY DEF OfText
<1> HIDE DEF a
<1>2. by # "payment"
  BY DEF SaidOfText
<1>3. by \in {"scan", "consumer", "whatsapp"} /\ r > 50 /\ IsScam(x)
        => warning \in {"high", "critical"}
  BY Thresholds DEF WarningTier, SaidOfText
<1>4. AnswerIsSound(a)
  BY <1>1, <1>2, <1>3, Zenon DEF AnswerIsSound, SaidOfText
<1> QED
  BY <1>4 DEF a

\* The five entrances for texts give sound answers.
LEMMA TextsKeep ==
  ASSUME ToldInv, NEW s, s \in Submission,
         \/ ScanMessage(s) \/ ConsumerScan(s) \/ WhatsAppMessage(s) \/ BatchItem(s)
         \/ AnalyzeVoice(s)
  PROVE  ToldInv'
<1> SUFFICES \E by, x, r, act, words, warning :
               /\ Told(s, OfText(by, x, r, act, words, warning))
               /\ SaidOfText(by, x, r, act, words, warning)
  BY TextAnswer, TellKeeps, Zenon
<1>1. ASSUME NEW x, x \in Text
      PROVE  TextScore(x, TRUE, 0) \in Percent /\ TextScore(x, TRUE, 0) >= 20
  BY <1>1, TextScores
<1>2. CASE ScanMessage(s)
  <2>1. PICK x \in Text : LET r == TextScore(x, TRUE, 0) IN
          Told(s, OfText("scan", x, r, "unsaid", Recommendation(r), WarningTier(IsScam(x), r)))
    BY <1>2, Zenon DEF ScanMessage, OfText
  <2>2. PICK r \in Percent : r = TextScore(x, TRUE, 0) /\ r >= 20
    BY <1>1
  <2>3. Recommendation(r) \notin {"appears legitimate", "PASS"}
        /\ (r > 50 => Recommendation(r) \in {"scam", "fraud signs"})
    BY <2>2, Thresholds
  <2>4. SaidOfText("scan", x, r, "unsaid", Recommendation(r), WarningTier(IsScam(x), r))
    BY <2>1, <2>2, <2>3 DEF SaidOfText
  <2>5. Told(s, OfText("scan", x, r, "unsaid", Recommendation(r), WarningTier(IsScam(x), r)))
    BY <2>1, <2>2, Zenon
  <2> QED
    BY <2>4, <2>5, Zenon
<1>3. CASE ConsumerScan(s)
  <2>1. PICK x \in Text : LET r == TextScore(x, TRUE, 0) IN
          Told(s, OfText("consumer", x, r, "unsaid", RecoveryAdvice(x), WarningTier(IsScam(x), r)))
    BY <1>3, Zenon DEF ConsumerScan, OfText
  <2>2. PICK r \in Percent : r = TextScore(x, TRUE, 0)
    BY <1>1
  <2>3. RecoveryAdvice(x) \notin {"appears legitimate", "PASS"}
    BY DEF RecoveryAdvice
  <2>4. SaidOfText("consumer", x, r, "unsaid", RecoveryAdvice(x), WarningTier(IsScam(x), r))
    BY <2>1, <2>2, <2>3 DEF SaidOfText
  <2>5. Told(s, OfText("consumer", x, r, "unsaid", RecoveryAdvice(x), WarningTier(IsScam(x), r)))
    BY <2>1, <2>2, Zenon
  <2> QED
    BY <2>4, <2>5, Zenon
<1>4. CASE WhatsAppMessage(s)
  <2>1. PICK x \in Text : LET r == TextScore(x, TRUE, 0) IN
          Told(s, OfText("whatsapp", x, r, "unsaid", "ok", WarningTier(IsScam(x), r)))
    BY <1>4, Zenon DEF WhatsAppMessage, OfText
  <2>2. PICK r \in Percent : r = TextScore(x, TRUE, 0)
    BY <1>1
  <2>3. SaidOfText("whatsapp", x, r, "unsaid", "ok", WarningTier(IsScam(x), r))
    BY <2>1, <2>2 DEF SaidOfText
  <2>4. Told(s, OfText("whatsapp", x, r, "unsaid", "ok", WarningTier(IsScam(x), r)))
    BY <2>1, <2>2, Zenon
  <2> QED
    BY <2>3, <2>4, Zenon
<1>5. CASE BatchItem(s)
  <2>1. PICK x \in Text : \E u \in BOOLEAN, n \in PriorReports :
          LET r == TextScore(x, u, n)
              a == Decide(r, 0)
          IN  Told(s, OfText("batch", x, r, a, IF a = "NONE" THEN "none" ELSE a,
                             IF a = "NONE" THEN "none" ELSE "of the action"))
    BY <1>5, Zenon DEF BatchItem, OfText
  <2>2. PICK u \in BOOLEAN, n \in PriorReports :
          LET r == TextScore(x, u, n)
              a == Decide(r, 0)
          IN  Told(s, OfText("batch", x, r, a, IF a = "NONE" THEN "none" ELSE a,
                             IF a = "NONE" THEN "none" ELSE "of the action"))
    BY <2>1, Zenon
  <2>3. PICK r \in Percent : r = TextScore(x, u, n)
    BY EntranceAssumption, TextScores
  <2>4. Decide(r, 0) = RecommendedAction(r)
        /\ RecommendedAction(r) \notin {"appears legitimate", "PASS", "unsaid"}
    BY Thresholds
  <2> DEFINE w == IF RecommendedAction(r) = "NONE" THEN "none" ELSE RecommendedAction(r)
             v == IF RecommendedAction(r) = "NONE" THEN "none" ELSE "of the action"
  <2>5. Told(s, OfText("batch", x, r, RecommendedAction(r), w, v))
    BY <2>2, <2>3, <2>4, Zenon
  <2>6. w \notin {"appears legitimate", "PASS"}
    BY <2>4
  <2> HIDE DEF w, v
  <2>7. SaidOfText("batch", x, r, RecommendedAction(r), w, v)
    BY <2>5, <2>6 DEF SaidOfText
  <2> QED
    BY <2>5, <2>7, Zenon
<1>6. CASE AnalyzeVoice(s)
  <2>1. PICK x \in Text : \E incoming \in BOOLEAN :
          LET r == TextScore(Redacted(x), incoming, 0)
          IN  Told(s, OfText("voice", x, r, RecommendedAction(r), CallWarning(r), CallWarning(r)))
    BY <1>6, Zenon DEF AnalyzeVoice, OfText
  <2>2. PICK incoming \in BOOLEAN :
          LET r == TextScore(Redacted(x), incoming, 0)
          IN  Told(s, OfText("voice", x, r, RecommendedAction(r), CallWarning(r), CallWarning(r)))
    BY <2>1, Zenon
  <2>3. PICK r \in Percent : r = TextScore(Redacted(x), incoming, 0) /\ r <= TextScore(x, TRUE, 0)
    BY TextScores
  <2>4. CallWarning(r) \notin {"appears legitimate", "PASS"} /\ (r > 50 => CallWarning(r) # "none")
    BY Thresholds
  <2>5. SaidOfText("voice", x, r, RecommendedAction(r), CallWarning(r), CallWarning(r))
    BY <2>2, <2>3, <2>4 DEF SaidOfText
  <2>6. Told(s, OfText("voice", x, r, RecommendedAction(r), CallWarning(r), CallWarning(r)))
    BY <2>2, <2>3, Zenon
  <2> QED
    BY <2>5, <2>6, Zenon
<1> QED
  BY <1>2, <1>3, <1>4, <1>5, <1>6

\* An entrance that fails gives no score.
LEMMA FailureKeeps ==
  ASSUME ToldInv, NEW s, s \in Submission, EntranceFails(s)
  PROVE  ToldInv'
<1>1. PICK by : told' = [told EXCEPT ![s] = [by |-> by, about |-> NoAnswer]]
  BY Zenon DEF EntranceFails
<1> DEFINE answer == [by |-> by, about |-> NoAnswer]
<1>2. DOMAIN told' = Submission /\ told'[s] = answer
      /\ \A d \in Submission \ {s} : told'[d] = told[d]
  BY <1>1 DEF ToldInv
<1>3. answer.about = NoAnswer
  OBVIOUS
<1> HIDE DEF answer
<1>4. ASSUME NEW d, d \in AnsweredSubmissions' PROVE AnswerIsSound(told'[d])
  <2>1. d \in AnsweredSubmissions /\ told'[d] = told[d]
    BY <1>2, <1>3, <1>4 DEF AnsweredSubmissions
  <2> QED
    BY <2>1, Zenon DEF ToldInv
<1>5. (\A d \in AnsweredSubmissions : AnswerIsSound(told[d]))'
  BY <1>4, Zenon DEF AnswerIsSound
<1> QED
  BY <1>2, <1>5, Zenon DEF ToldInv

\* The tables for pictures agree with the scorer.
LEMMA ImageKeeps ==
  ASSUME ToldInv, NEW s, s \in Submission, AnalyzeImage(s)
  PROVE  ToldInv'
<1>1. PICK codes : LET t == ImageTable[ImageLevel(codes)]
        IN  Told(s, [by |-> "image", about |-> codes, score |-> t[1], level |-> t[2],
                     action |-> t[3], words |-> "none", warning |-> "none"])
  BY Zenon DEF AnalyzeImage
<1> DEFINE t == ImageTable[ImageLevel(codes)]
<1>2. t[1] \in Percent /\ t[2] = Level(t[1]) /\ t[3] = RecommendedAction(t[1])
  <2>1. ImageLevel(codes) \in {"critical", "high", "medium", "low"}
    BY DEF ImageLevel
  <2>2. /\ ImageTable["critical"] = <<90, "CRITICAL", "CRITICAL_REPORT">>
        /\ ImageTable["high"] = <<70, "HIGH", "HARD_BLOCK">>
        /\ ImageTable["medium"] = <<45, "MEDIUM", "SOFT_WARNING">>
        /\ ImageTable["low"] = <<15, "LOW", "NONE">>
    BY DEF ImageTable
  <2>3. PICK line : line = t
    OBVIOUS
  <2>4. line \in {<<90, "CRITICAL", "CRITICAL_REPORT">>, <<70, "HIGH", "HARD_BLOCK">>,
                 <<45, "MEDIUM", "SOFT_WARNING">>, <<15, "LOW", "NONE">>}
    BY <2>1, <2>2, <2>3
  <2>5. /\ Level(90) = "CRITICAL" /\ RecommendedAction(90) = "CRITICAL_REPORT"
        /\ Level(70) = "HIGH" /\ RecommendedAction(70) = "HARD_BLOCK"
        /\ Level(45) = "MEDIUM" /\ RecommendedAction(45) = "SOFT_WARNING"
        /\ Level(15) = "LOW" /\ RecommendedAction(15) = "NONE"
    BY DEF Level, RecommendedAction
  <2>6. line[1] \in Percent /\ line[2] = Level(line[1]) /\ line[3] = RecommendedAction(line[1])
    BY <2>4, <2>5 DEF Percent, Full
  <2> QED
    BY <2>3, <2>6
<1> DEFINE a == [by |-> "image", about |-> codes, score |-> t[1], level |-> t[2],
                 action |-> t[3], words |-> "none", warning |-> "none"]
<1>3. Told(s, a)
  BY <1>1, Zenon
<1>4. /\ a.by = "image" /\ a.score = t[1] /\ a.level = t[2] /\ a.action = t[3]
      /\ a.words = "none" /\ a.warning = "none"
  OBVIOUS
<1> HIDE DEF a, t
<1>5. AnswerIsSound(a)
  BY <1>2, <1>4, Zenon DEF AnswerIsSound
<1> QED
  BY <1>3, <1>5, TellKeeps, Zenon

\* A payment is never rated below what the scorer says.
LEMMA PaymentKeeps ==
  ASSUME ToldInv, NEW s, s \in Submission, PreTransaction(s)
  PROVE  ToldInv'
<1>1. PICK p \in [large : BOOLEAN, toSelf : BOOLEAN, device : BOOLEAN, geo : BOOLEAN] :
        LET r == PaymentScore(p)
            v == PaymentVerdict(r)
        IN  Told(s, [by |-> "payment", about |-> p, score |-> r, level |-> v[1],
                     action |-> "unsaid", words |-> v[2], warning |-> "none"])
  BY Zenon DEF PreTransaction
<1>2. PICK r \in Percent : r = PaymentScore(p)
  <2> DEFINE i == IF p.large THEN 30 ELSE 0
             j == IF p.toSelf THEN 50 ELSE 0
             k == IF p.device THEN 10 ELSE 0
             l == IF p.geo THEN 5 ELSE 0
  <2>1. i \in {0, 30} /\ j \in {0, 50} /\ k \in {0, 10} /\ l \in {0, 5}
    OBVIOUS
  <2>2. PaymentScore(p) = i + j + k + l
    BY Zenon DEF PaymentScore
  <2> HIDE DEF i, j, k, l
  <2>3. i + j + k + l \in Percent
    BY <2>1 DEF Percent, Full
  <2> QED
    BY <2>2, <2>3
<1> DEFINE v == PaymentVerdict(r)
<1>3. /\ v[2] \in {"BLOCK", "REVIEW", "PASS"}
      /\ Rank[v[1]] >= Rank[Level(r)]
      /\ v[2] = "PASS" => RecommendedAction(r) = "NONE"
  <2>1. Rank["LOW"] = 0 /\ Rank["MEDIUM"] = 1 /\ Rank["HIGH"] = 2 /\ Rank["CRITICAL"] = 3
    BY DEF Rank
  <2>2. /\ r > 50 \/ Level(r) \in {"LOW", "MEDIUM"}
        /\ r > 70 \/ Level(r) # "CRITICAL"
        /\ r > 30 \/ (Level(r) = "LOW" /\ RecommendedAction(r) = "NONE")
        /\ Level(r) \in {"LOW", "MEDIUM", "HIGH", "CRITICAL"}
    BY DEF Level, RecommendedAction, Percent, Full
  <2>3. /\ r >= 70 => v = <<"CRITICAL", "BLOCK">>
        /\ r >= 40 /\ r < 70 => v = <<"HIGH", "REVIEW">>
        /\ r >= 20 /\ r < 40 => v = <<"MEDIUM", "REVIEW">>
        /\ r < 20 => v = <<"LOW", "PASS">>
    BY DEF PaymentVerdict, Percent, Full
  <2> HIDE DEF v
  <2> QED
    BY <2>1, <2>2, <2>3 DEF Percent, Full
<1> DEFINE a == [by |-> "payment", about |-> p, score |-> r, level |-> v[1],
                 action |-> "unsaid", words |-> v[2], warning |-> "none"]
<1>4. Told(s, a)
  BY <1>1, <1>2, Zenon
<1>5. /\ a.by = "payment" /\ a.score = r /\ a.level = v[1] /\ a.action = "unsaid"
      /\ a.words = v[2]
  OBVIOUS
<1> HIDE DEF a, v
<1>6. v[2] # "appears legitimate"
  BY <1>3
<1>7. AnswerIsSound(a)
  BY <1>3, <1>5, <1>6, Zenon DEF AnswerIsSound
<1> QED
  BY <1>4, <1>7, TellKeeps, Zenon

\* Every step of the entrances keeps the invariant.
LEMMA EntranceStep == ToldInv /\ [EntranceNext]_told => ToldInv'
<1> SUFFICES ASSUME ToldInv, [EntranceNext]_told PROVE ToldInv'
  OBVIOUS
<1>1. CASE told' = told
  BY <1>1, Zenon DEF ToldInv, AnsweredSubmissions, AnswerIsSound
<1>2. CASE EntranceNext
  <2>1. PICK s \in Submission :
          \/ ScanMessage(s) \/ ConsumerScan(s) \/ WhatsAppMessage(s) \/ BatchItem(s)
          \/ AnalyzeVoice(s) \/ EntranceFails(s) \/ AnalyzeImage(s) \/ PreTransaction(s)
    BY <1>2, Zenon DEF EntranceNext
  <2> QED
    BY <2>1, TextsKeep, FailureKeeps, ImageKeeps, PaymentKeeps, Zenon
<1> QED
  BY <1>1, <1>2

\* Counting modulo the number of chunks between two transcriptions.
LEMMA NextRemainder ==
  ASSUME NEW n \in Nat, NEW k \in Nat \ {0}
  PROVE  /\ n % k \in 0..k - 1
         /\ (n + 1) % k = 0 => n % k = k - 1
         /\ (n + 1) % k # 0 => (n + 1) % k = (n % k) + 1
<1>1. n = k * (n \div k) + (n % k) /\ n % k \in 0..k - 1 /\ n \div k \in Int
  OBVIOUS
<1>2. /\ n + 1 = k * ((n + 1) \div k) + ((n + 1) % k)
      /\ (n + 1) % k \in 0..k - 1 /\ (n + 1) \div k \in Int
  OBVIOUS
<1>3. PICK q \in Int, r \in Int : q = n \div k /\ r = n % k
  BY <1>1
<1>4. PICK p \in Int, s \in Int : p = (n + 1) \div k /\ s = (n + 1) % k
  BY <1>2
<1>5. n = k * q + r /\ r \in 0..k - 1
  BY <1>1, <1>3
<1>6. n + 1 = k * p + s /\ s \in 0..k - 1
  BY <1>2, <1>4
<1>7. k * p = k * q + (r + 1 - s)
  <2> DEFINE a == k * p
             b == k * q
  <2>1. a \in Int /\ b \in Int
    OBVIOUS
  <2> HIDE DEF a, b
  <2>2. n = b + r /\ n + 1 = a + s
    BY <1>5, <1>6 DEF a, b
  <2>3. a = b + (r + 1 - s)
    BY <2>1, <2>2
  <2> QED
    BY <2>3 DEF a, b
<1>8. CASE p <= q - 1
  <2>1. k * p <= k * (q - 1)
    BY <1>8
  <2>2. k * (q - 1) = k * q - k
    OBVIOUS
  <2> QED
    BY <2>1, <2>2, <1>5, <1>6, <1>7
<1>9. CASE p = q
  BY <1>9, <1>3, <1>4, <1>5, <1>6, <1>7
<1>10. CASE p = q + 1
  <2>1. k * p = k * q + k
    BY <1>10
  <2> QED
    BY <2>1, <1>3, <1>4, <1>5, <1>6, <1>7
<1>11. CASE p >= q + 2
  <2>1. k * p >= k * (q + 2)
    BY <1>11
  <2>2. k * (q + 2) = k * q + 2 * k
    OBVIOUS
  <2> QED
    BY <2>1, <2>2, <1>5, <1>6, <1>7
<1> QED
  BY <1>8, <1>9, <1>10, <1>11

\* A remainder is at most what it is left from.
LEMMA RemainderIsLess ==
  ASSUME NEW n \in Nat, NEW k \in Nat \ {0}
  PROVE  n % k <= n
<1>1. n = k * (n \div k) + (n % k) /\ n \div k \in Nat /\ n % k \in Nat
  OBVIOUS
<1>2. k * (n \div k) \in Nat
  BY <1>1
<1> QED
  BY <1>1, <1>2

\* The chunks held back after so many, and those before them.
Pending(n) == ((n - (n % Every)) + 1)..n
Before(n) == 1..(n - (n % Every))

\* The chunks received are those held back and those before, and every so many none is
\* held back.
LEMMA ChunksParted ==
  ASSUME NEW n \in Nat
  PROVE  /\ Before(n) \union Pending(n) = 1..n
         /\ Cardinality(Pending(n)) < Every
         /\ (n + 1) % Every = 0 => Before(n + 1) = 1..n + 1 /\ Pending(n + 1) = {}
         /\ (n + 1) % Every # 0 => /\ Before(n + 1) = Before(n)
                                   /\ Pending(n + 1) = Pending(n) \union {n + 1}
         /\ 1..(n - Every) \subseteq Before(n)
         /\ (n + 1) % Every = 0 => 1..((n + 1) - Every) \subseteq Before(n)
<1>1. Every \in Nat \ {0}
  BY EntranceAssumption
<1>2. PICK r \in Nat : r = n % Every /\ r < Every /\ r <= n
  BY <1>1, NextRemainder, RemainderIsLess
<1>3. PICK s \in Nat : /\ s = (n + 1) % Every /\ s <= n + 1
                       /\ s = 0 => r = Every - 1
                       /\ s # 0 => s = r + 1
  <2>1. n + 1 \in Nat
    OBVIOUS
  <2>2. (n + 1) % Every \in Nat /\ (n + 1) % Every <= n + 1
    <3> DEFINE m == n + 1
    <3>1. m \in Nat
      OBVIOUS
    <3> HIDE DEF m
    <3>2. m % Every \in 0..Every - 1 /\ m % Every <= m
      BY <3>1, <1>1, NextRemainder, RemainderIsLess
    <3> QED
      BY <3>2, <1>1 DEF m
  <2> QED
    BY <2>2, <1>1, <1>2, NextRemainder
<1>4. Before(n) = 1..n - r /\ Pending(n) = ((n - r) + 1)..n
  BY <1>2, Zenon DEF Before, Pending
<1>5. Before(n + 1) = 1..(n + 1) - s /\ Pending(n + 1) = (((n + 1) - s) + 1)..(n + 1)
  BY <1>3, Zenon DEF Before, Pending
<1>6. Before(n) \union Pending(n) = 1..n
  BY <1>2, <1>4
<1>7. Cardinality(Pending(n)) < Every
  <2>1. (n - r) + 1 \in Int /\ n \in Int
    OBVIOUS
  <2>2. Cardinality(Pending(n)) = IF (n - r) + 1 > n THEN 0 ELSE n - ((n - r) + 1) + 1
    BY <2>1, <1>4, FS_Interval
  <2> QED
    BY <2>2, <1>1, <1>2
<1>8. s = 0 => Before(n + 1) = 1..n + 1 /\ Pending(n + 1) = {}
  BY <1>5
<1>9. s # 0 => Before(n + 1) = Before(n) /\ Pending(n + 1) = Pending(n) \union {n + 1}
  BY <1>1, <1>2, <1>3, <1>4, <1>5
<1>10. 1..(n - Every) \subseteq Before(n)
  BY <1>1, <1>2, <1>4
<1>11. s = 0 => 1..((n + 1) - Every) \subseteq Before(n)
  BY <1>1, <1>2, <1>3, <1>4
<1> QED
  BY <1>3, <1>6, <1>7, <1>8, <1>9, <1>10, <1>11

SoundTypes ==
  /\ recognizer \in {"unset", "mock", "whisper", "deepgram"}
  /\ sound \in [Stream -> {"closed", "open", "ended", "lost"}]
  /\ chunks \in [Stream -> 0..MaxSound]
  /\ buffer \in [Stream -> SUBSET Nat] /\ spoken \in [Stream -> SUBSET Nat]
  /\ garbled \in [Stream -> SUBSET Nat] /\ assessed \in [Stream -> SUBSET Nat]

\* Of a stream: its state, the chunks received, held back, in the text, lost on
\* the recognizer and assessed.
HeardOf(state, c, held, words, lost, done) ==
  /\ held \union words \union lost \union done \subseteq 1..c
  /\ state \in {"closed", "open"} =>
       held = Pending(c) /\ done \union lost = Before(c) /\ words = done
  /\ state = "ended" => Before(c) \subseteq done \union lost
  /\ state = "lost" => 1..(c - Every) \subseteq done \union lost

Heard(a) == HeardOf(sound[a], chunks[a], buffer[a], spoken[a], garbled[a], assessed[a])

SoundInv == SoundTypes /\ \A a \in Stream : Heard(a)

\* Nothing was received at the start.
LEMMA SoundInitInv == EntranceInit => SoundInv
<1> SUFFICES ASSUME EntranceInit PROVE SoundInv
  OBVIOUS
<1>1. SoundTypes
  BY EntranceAssumption DEF EntranceInit, SoundTypes
<1>2. ASSUME NEW a \in Stream PROVE Heard(a)
  <2>1. Before(0) \union Pending(0) = 1..0
    BY ChunksParted
  <2>2. Before(0) = {} /\ Pending(0) = {}
    BY <2>1
  <2>3. /\ sound[a] = "closed" /\ chunks[a] = 0 /\ buffer[a] = {} /\ spoken[a] = {}
        /\ garbled[a] = {} /\ assessed[a] = {}
    BY DEF EntranceInit
  <2> QED
    BY <2>2, <2>3 DEF Heard, HeardOf
<1> QED
  BY <1>1, <1>2 DEF SoundInv

Moved(a, held, b) ==
  /\ buffer' \in [Stream -> SUBSET Nat] /\ spoken' \in [Stream -> SUBSET Nat]
  /\ garbled' \in [Stream -> SUBSET Nat]
  /\ buffer'[a] = {}
  /\ b => spoken'[a] = spoken[a] \union held /\ garbled'[a] = garbled[a]
  /\ ~ b => spoken'[a] = spoken[a] /\ garbled'[a] = garbled[a] \union held
  /\ \A d \in Stream \ {a} :
       buffer'[d] = buffer[d] /\ spoken'[d] = spoken[d] /\ garbled'[d] = garbled[d]

\* A transcription takes the buffer, either into the text or to the garbled ones.
LEMMA TranscribeMoves ==
  ASSUME SoundTypes, NEW a \in Stream, NEW held, held \in SUBSET Nat, NEW b \in BOOLEAN,
         Transcribe(a, held, b)
  PROVE  Moved(a, held, b)
  BY DEF SoundTypes, Transcribe, Moved

\* What is heard of one stream changes nothing for the others.
LEMMA OtherStreams ==
  ASSUME SoundInv, SoundTypes', NEW a \in Stream, Heard(a)',
         \A d \in Stream \ {a} :
           /\ sound'[d] = sound[d] /\ chunks'[d] = chunks[d] /\ buffer'[d] = buffer[d]
           /\ spoken'[d] = spoken[d] /\ garbled'[d] = garbled[d] /\ assessed'[d] = assessed[d]
  PROVE  SoundInv'
<1>1. ASSUME NEW d \in Stream \ {a} PROVE Heard(d)'
  BY <1>1, Zenon DEF SoundInv, Heard
<1> QED
  BY <1>1, Zenon DEF SoundInv

\* A chunk is held back, or taken with those held back and assessed.
LEMMA ReceiveKeeps ==
  ASSUME SoundInv, NEW a \in Stream, ReceiveSound(a)
  PROVE  SoundInv'
<1> DEFINE c == chunks[a]
           held == buffer[a] \union {c + 1}
<1>1. SoundTypes /\ Heard(a) /\ sound[a] = "open" /\ c \in Nat /\ c < MaxSound
  BY EntranceAssumption DEF SoundInv, SoundTypes, ReceiveSound
<1>2. /\ chunks' = [chunks EXCEPT ![a] = c + 1]
      /\ recognizer' = recognizer /\ sound' = sound
  BY DEF ReceiveSound
<1>3. /\ held \in SUBSET Nat
      /\ buffer[a] = Pending(c) /\ assessed[a] \union garbled[a] = Before(c)
      /\ spoken[a] = assessed[a]
  BY <1>1 DEF SoundTypes, Heard, HeardOf
<1>4. chunks' \in [Stream -> 0..MaxSound] /\ chunks'[a] = c + 1
      /\ \A d \in Stream \ {a} : chunks'[d] = chunks[d]
  BY <1>1, <1>2, EntranceAssumption DEF SoundTypes
<1>5. Before(c) \union Pending(c) = 1..c /\ 1..c \union {c + 1} = 1..(c + 1)
  BY <1>1, ChunksParted
<1>6. CASE (c + 1) % Every = 0
  <2>1. PICK b \in BOOLEAN : Transcribe(a, held, b) /\ Assess(a, held, b)
    BY <1>6, Zenon DEF ReceiveSound
  <2>2. Moved(a, held, b)
    BY <1>1, <1>3, <2>1, TranscribeMoves, Zenon
  <2>3. /\ assessed' \in [Stream -> SUBSET Nat]
        /\ assessed'[a] = spoken'[a]
        /\ \A d \in Stream \ {a} : assessed'[d] = assessed[d]
    BY <1>1, <1>3, <2>1, <2>2 DEF SoundTypes, Assess, Moved
  <2>4. SoundTypes'
    BY <1>1, <1>2, <1>4, <2>2, <2>3 DEF SoundTypes, Moved
  <2>5. Before(c + 1) = 1..(c + 1) /\ Pending(c + 1) = {}
    BY <1>1, <1>6, ChunksParted
  <2>6. assessed'[a] \union garbled'[a] = 1..(c + 1)
    BY <1>3, <1>5, <2>2, <2>3 DEF Moved
  <2>7. Heard(a)'
    BY <1>1, <1>2, <1>4, <2>2, <2>3, <2>5, <2>6 DEF Heard, HeardOf, Moved
  <2> QED
    BY <1>2, <1>4, <2>2, <2>3, <2>4, <2>7, OtherStreams DEF Moved
<1>7. CASE (c + 1) % Every # 0
  <2>1. buffer' = [buffer EXCEPT ![a] = held] /\ UNCHANGED <<spoken, garbled, assessed>>
    BY <1>7, Zenon DEF ReceiveSound
  <2>2. SoundTypes'
    BY <1>1, <1>2, <1>3, <1>4, <2>1 DEF SoundTypes
  <2>3. Before(c + 1) = Before(c) /\ Pending(c + 1) = Pending(c) \union {c + 1}
    BY <1>1, <1>7, ChunksParted
  <2>4. buffer'[a] = held
    BY <1>1, <2>1 DEF SoundTypes
  <2>5. Heard(a)'
    <3>1. held \union spoken[a] \union garbled[a] \union assessed[a] \subseteq 1..(c + 1)
      BY <1>3, <1>5
    <3> QED
      BY <3>1, <1>1, <1>2, <1>3, <1>4, <2>1, <2>3, <2>4 DEF Heard, HeardOf
  <2> QED
    BY <1>2, <1>4, <2>1, <2>2, <2>5, OtherStreams DEF Moved
<1> QED
  BY <1>6, <1>7

\* A stream that opens has heard nothing yet, one that is lost drops only what is held back.
LEMMA OpenAndLoseKeep ==
  ASSUME SoundInv, NEW a \in Stream, OpenStream(a) \/ LoseStream(a)
  PROVE  SoundInv'
<1>1. /\ sound[a] \in {"closed", "open"} /\ sound' \in [Stream -> {"closed", "open", "ended", "lost"}]
      /\ sound'[a] \in {"open", "lost"} /\ \A d \in Stream \ {a} : sound'[d] = sound[d]
  BY DEF SoundInv, SoundTypes, OpenStream, LoseStream
<1>2. UNCHANGED <<chunks, buffer, spoken, garbled, assessed>>
  BY DEF OpenStream, LoseStream
<1>3. SoundTypes'
  BY <1>1, <1>2 DEF SoundInv, SoundTypes, OpenStream, LoseStream
<1>4. chunks[a] \in Nat
  BY EntranceAssumption DEF SoundInv, SoundTypes
<1>5. 1..(chunks[a] - Every) \subseteq Before(chunks[a])
  BY <1>4, ChunksParted
<1>6. Heard(a)
  BY DEF SoundInv
<1>7. Heard(a)'
  BY <1>1, <1>2, <1>5, <1>6 DEF Heard, HeardOf
<1> QED
  BY <1>1, <1>2, <1>3, <1>7, OtherStreams

\* The end of a stream takes what was held back.
LEMMA EndKeeps ==
  ASSUME SoundInv, NEW a \in Stream, EndStream(a)
  PROVE  SoundInv'
<1>1. SoundTypes /\ Heard(a) /\ sound[a] = "open"
  BY DEF SoundInv, EndStream
<1>2. /\ sound' \in [Stream -> {"closed", "open", "ended", "lost"}]
      /\ sound'[a] = "ended" /\ \A d \in Stream \ {a} : sound'[d] = sound[d]
  BY <1>1 DEF SoundTypes, EndStream
<1>3. UNCHANGED <<recognizer, chunks, assessed>>
  BY DEF EndStream
<1>4. buffer[a] \in SUBSET Nat
  BY <1>1 DEF SoundTypes
<1>5. /\ buffer' \in [Stream -> SUBSET Nat] /\ spoken' \in [Stream -> SUBSET Nat]
      /\ garbled' \in [Stream -> SUBSET Nat]
      /\ buffer'[a] = {} /\ spoken'[a] \subseteq spoken[a] \union buffer[a]
      /\ garbled[a] \subseteq garbled'[a] /\ garbled'[a] \subseteq garbled[a] \union buffer[a]
      /\ \A d \in Stream \ {a} :
           buffer'[d] = buffer[d] /\ spoken'[d] = spoken[d] /\ garbled'[d] = garbled[d]
  <2>1. CASE buffer[a] = {}
    BY <2>1, <1>1 DEF SoundTypes, EndStream
  <2>2. CASE buffer[a] # {}
    <3>1. PICK b \in BOOLEAN : Transcribe(a, buffer[a], b)
      BY <2>2, Zenon DEF EndStream
    <3>2. Moved(a, buffer[a], b)
      BY <1>1, <1>4, <3>1, TranscribeMoves, Zenon
    <3> QED
      BY <3>2 DEF Moved
  <2> QED
    BY <2>1, <2>2
<1>6. SoundTypes'
  BY <1>1, <1>2, <1>3, <1>5 DEF SoundTypes
<1>7. Heard(a)'
  BY <1>1, <1>2, <1>3, <1>5 DEF Heard, HeardOf
<1> QED
  BY <1>2, <1>3, <1>5, <1>6, <1>7, OtherStreams

\* An assessment that fails loses the stream, fewer than so many chunks unheard.
LEMMA FailedAssessmentKeeps ==
  ASSUME SoundInv, NEW a \in Stream, AssessmentFails(a)
  PROVE  SoundInv'
<1> DEFINE c == chunks[a]
           held == buffer[a] \union {c + 1}
<1>1. /\ SoundTypes /\ Heard(a) /\ sound[a] = "open" /\ c \in Nat /\ c < MaxSound
      /\ (c + 1) % Every = 0
  BY EntranceAssumption DEF SoundInv, SoundTypes, AssessmentFails
<1>2. UNCHANGED <<recognizer, assessed>>
  BY DEF AssessmentFails
<1>3. /\ held \in SUBSET Nat
      /\ buffer[a] = Pending(c) /\ assessed[a] \union garbled[a] = Before(c)
      /\ spoken[a] = assessed[a]
  BY <1>1 DEF SoundTypes, Heard, HeardOf
<1>4. /\ chunks' \in [Stream -> 0..MaxSound] /\ chunks'[a] = c + 1
      /\ sound' \in [Stream -> {"closed", "open", "ended", "lost"}] /\ sound'[a] = "lost"
      /\ \A d \in Stream \ {a} : chunks'[d] = chunks[d] /\ sound'[d] = sound[d]
  BY <1>1, EntranceAssumption DEF SoundTypes, AssessmentFails
<1>5. Before(c) \union Pending(c) = 1..c /\ 1..c \union {c + 1} = 1..(c + 1)
  BY <1>1, ChunksParted
<1>6. PICK b \in BOOLEAN : Transcribe(a, held, b)
  BY Zenon DEF AssessmentFails
<1>7. /\ buffer' \in [Stream -> SUBSET Nat] /\ spoken' \in [Stream -> SUBSET Nat]
      /\ garbled' \in [Stream -> SUBSET Nat]
      /\ buffer'[a] = {} /\ spoken'[a] \subseteq spoken[a] \union held
      /\ garbled[a] \subseteq garbled'[a] /\ garbled'[a] \subseteq garbled[a] \union held
      /\ \A d \in Stream \ {a} :
           buffer'[d] = buffer[d] /\ spoken'[d] = spoken[d] /\ garbled'[d] = garbled[d]
  <2>1. Moved(a, held, b)
    BY <1>1, <1>3, <1>6, TranscribeMoves, Zenon
  <2> QED
    BY <2>1 DEF Moved
<1>8. SoundTypes'
  BY <1>1, <1>2, <1>4, <1>7 DEF SoundTypes
<1>9. 1..((c + 1) - Every) \subseteq Before(c)
  BY <1>1, ChunksParted
<1>10. /\ buffer'[a] \union spoken'[a] \union garbled'[a] \union assessed'[a] \subseteq 1..(c + 1)
       /\ Before(c) \subseteq assessed'[a] \union garbled'[a]
  BY <1>2, <1>3, <1>5, <1>7
<1>11. Heard(a)'
  BY <1>4, <1>9, <1>10 DEF Heard, HeardOf
<1> QED
  BY <1>2, <1>4, <1>7, <1>8, <1>11, OtherStreams

\* Every step of the streams keeps the invariant.
LEMMA SoundStep == SoundInv /\ [SoundNext]_soundVars => SoundInv'
<1> SUFFICES ASSUME SoundInv, [SoundNext]_soundVars PROVE SoundInv'
  OBVIOUS
<1>1. CASE UNCHANGED soundVars
  BY <1>1, Zenon DEF SoundInv, SoundTypes, Heard, soundVars
<1>2. ASSUME NEW a \in Stream, OpenStream(a) \/ LoseStream(a) PROVE SoundInv'
  BY <1>2, OpenAndLoseKeep
<1>3. ASSUME NEW a \in Stream, ReceiveSound(a) PROVE SoundInv'
  BY <1>3, ReceiveKeeps
<1>4. ASSUME NEW a \in Stream, EndStream(a) PROVE SoundInv'
  BY <1>4, EndKeeps
<1>5. ASSUME NEW a \in Stream, AssessmentFails(a) PROVE SoundInv'
  BY <1>5, FailedAssessmentKeeps
<1> QED
  BY <1>1, <1>2, <1>3, <1>4, <1>5, Zenon DEF SoundNext

\* The invariant on streams is what the property asks.
LEMMA HeardOnTime == SoundInv => SoundIsHeard
<1> SUFFICES ASSUME SoundInv, NEW a \in Stream
             PROVE  LET missed == (1..chunks[a]) \ (assessed[a] \union garbled[a])
                    IN  /\ sound[a] = "open" => 1..chunks[a] = assessed[a] \union garbled[a] \union buffer[a]
                        /\ Cardinality(missed) <= Every
                        /\ sound[a] # "lost" => Cardinality(missed) < Every
  BY Zenon DEF SoundIsHeard
<1> DEFINE c == chunks[a]
           missed == (1..c) \ (assessed[a] \union garbled[a])
<1>1. /\ Heard(a) /\ c \in Nat /\ sound[a] \in {"closed", "open", "ended", "lost"}
      /\ Every \in Nat \ {0}
  BY EntranceAssumption DEF SoundInv, SoundTypes
<1>2. Before(c) \union Pending(c) = 1..c /\ Cardinality(Pending(c)) < Every
  BY <1>1, ChunksParted
<1>3. sound[a] = "open" => 1..c = assessed[a] \union garbled[a] \union buffer[a]
  BY <1>1, <1>2 DEF Heard, HeardOf
<1>4. sound[a] # "lost" => Cardinality(missed) < Every
  <2> SUFFICES ASSUME sound[a] # "lost" PROVE Cardinality(missed) < Every
    OBVIOUS
  <2>1. missed \subseteq Pending(c)
    BY <1>1, <1>2 DEF Heard, HeardOf
  <2>2. Pending(c) \subseteq 1..c
    BY <1>2
  <2>3. IsFiniteSet(Pending(c))
    <3>1. IsFiniteSet(1..c)
      BY <1>1, FS_Interval
    <3> QED
      BY <2>2, <3>1, FS_Subset
  <2>4. /\ Cardinality(missed) <= Cardinality(Pending(c))
        /\ Cardinality(missed) \in Nat /\ Cardinality(Pending(c)) \in Nat
    BY <2>1, <2>3, FS_Subset, FS_CardinalityType
  <2> QED
    BY <2>4, <1>1, <1>2
<1>5. sound[a] = "lost" => Cardinality(missed) <= Every
  <2> SUFFICES ASSUME sound[a] = "lost" PROVE Cardinality(missed) <= Every
    OBVIOUS
  <2> DEFINE last == ((c - Every) + 1)..c
  <2>1. missed \subseteq last
    BY <1>1 DEF Heard, HeardOf
  <2>2. IsFiniteSet(last) /\ Cardinality(last) = Every
    <3>1. PICK i \in Int : i = (c - Every) + 1
      BY <1>1
    <3>2. IsFiniteSet(i..c) /\ Cardinality(i..c) = IF i > c THEN 0 ELSE c - i + 1
      BY <1>1, FS_Interval
    <3>3. (c - i) + 1 = Every /\ i <= c
      BY <1>1, <3>1
    <3> QED
      BY <1>1, <3>1, <3>2, <3>3
  <2>3. Cardinality(missed) <= Cardinality(last) /\ Cardinality(missed) \in Nat
    BY <2>1, <2>2, FS_Subset, FS_CardinalityType
  <2> QED
    BY <2>2, <2>3
<1>6. Cardinality(missed) <= Every
  <2>1. sound[a] # "lost" => Cardinality(missed) <= Every
    <3> SUFFICES ASSUME sound[a] # "lost" PROVE Cardinality(missed) <= Every
      OBVIOUS
    <3>1. missed \subseteq 1..c /\ IsFiniteSet(1..c)
      BY <1>1, FS_Interval
    <3>2. Cardinality(missed) \in Nat
      BY <3>1, FS_Subset, FS_CardinalityType
    <3> QED
      BY <1>1, <1>4, <3>2
  <2> QED
    BY <1>5, <2>1
<1> QED
  BY <1>3, <1>4, <1>6

\* The answers to submissions and the sound of streams are apart.
LEMMA EntrancesApart ==
  /\ EntranceNext => UNCHANGED soundVars
  /\ SoundNext => UNCHANGED told
<1>1. ASSUME NEW s \in Submission,
             \/ ScanMessage(s) \/ ConsumerScan(s) \/ WhatsAppMessage(s) \/ BatchItem(s)
             \/ AnalyzeVoice(s) \/ EntranceFails(s) \/ AnalyzeImage(s) \/ PreTransaction(s)
      PROVE  UNCHANGED soundVars
  BY <1>1, Zenon DEF ScanMessage, ConsumerScan, WhatsAppMessage, BatchItem, AnalyzeVoice,
                     EntranceFails, AnalyzeImage, PreTransaction, Told
<1>2. ASSUME NEW a \in Stream,
             OpenStream(a) \/ ReceiveSound(a) \/ EndStream(a) \/ LoseStream(a) \/ AssessmentFails(a)
      PROVE  UNCHANGED told
  BY <1>2, Zenon DEF OpenStream, ReceiveSound, EndStream, LoseStream, AssessmentFails
<1> QED
  BY <1>1, <1>2, Zenon DEF EntranceNext, SoundNext

\* Answers and streams keep to their invariants, which share no variable.
LEMMA EntrancesInvariant == EntranceSpec => [](ToldInv /\ SoundInv)
<1>1. EntranceInit => ToldInv /\ SoundInv
  BY ToldInitInv, SoundInitInv
<1>2. ToldInv /\ SoundInv /\ [EntranceNext \/ SoundNext]_entranceVars => (ToldInv /\ SoundInv)'
  <2> SUFFICES ASSUME ToldInv, SoundInv, [EntranceNext \/ SoundNext]_entranceVars
               PROVE  ToldInv' /\ SoundInv'
    BY Zenon
  <2>1. CASE EntranceNext
    BY <2>1, EntrancesApart, EntranceStep, SoundStep, Zenon
  <2>2. CASE SoundNext
    BY <2>2, EntrancesApart, EntranceStep, SoundStep, Zenon
  <2>3. CASE UNCHANGED entranceVars
    <3>1. UNCHANGED told /\ UNCHANGED soundVars
      BY <2>3 DEF entranceVars
    <3> QED
      BY <3>1, EntranceStep, SoundStep, Zenon
  <2> QED
    BY <2>1, <2>2, <2>3
<1> QED
  BY <1>1, <1>2, PTL DEF EntranceSpec

\* Whatever the entrance, the words and the order of the chunks, the answer agrees
\* with the scorer, reassures nobody about what another entrance would stop, and
\* less than a second of a call is missed (scan.py, consumer.py, whatsapp.py,
\* batch.py, voice.py, image_analysis.py, analyze.py).
THEOREM EntrancesStaySound == EntranceSpec => []EntrancesAreSound
<1>1. ToldInv /\ SoundInv => EntrancesAreSound
  BY ToldMeansSound, HeardOnTime, Zenon DEF EntrancesAreSound
<1> QED
  BY <1>1, EntrancesInvariant, PTL

-----------------------------------------------------------------------------
(* Types                                                                    *)

\* A tenant is in hand while it is imported or pinned, and no pack holds more than
\* may be written.
TenantTypesInv ==
  /\ TenantTypeOK
  /\ pack \in [Evacuation -> 0..MaxTenantWrites]
  /\ inHand = [e \in Evacuation |-> inHand[e]]
  /\ \A e \in Evacuation : evacPc[e] \in {"importing", "pinning"} => inHand[e] \in Provision

\* The initial states have the types.
LEMMA TenantTypesInit == TenantInit => TenantTypesInv
  BY TenantBoundAssumption DEF TenantInit, TenantTypesInv, TenantTypeOK

\* Every step keeps them.
LEMMA TenantTypesStep == TenantTypesInv /\ [TenantNext]_tenantVars => TenantTypesInv'
<1> SUFFICES ASSUME TenantTypesInv, [TenantNext]_tenantVars PROVE TenantTypesInv'
  OBVIOUS
<1>0. MaxTenantWrites \in Nat
  BY TenantBoundAssumption
<1>1. ASSUME NEW p \in Provision, LookUpSlug(p) PROVE TenantTypesInv'
  BY <1>1 DEF LookUpSlug, TenantTypesInv, TenantTypeOK, offboardVars, evacVars, dataVars
<1>2. ASSUME NEW p \in Provision, ProvisionTenant(p) PROVE TenantTypesInv'
  BY <1>2 DEF ProvisionTenant, TenantTypesInv, TenantTypeOK, offboardVars, evacVars, dataVars
<1>3. ASSUME NEW p \in Provision, RouteRequest(p) PROVE TenantTypesInv'
  BY <1>3 DEF RouteRequest, TenantTypesInv, TenantTypeOK, rowState, offboardVars, evacVars
<1>4. ASSUME NEW p \in Provision, WriteData(p) PROVE TenantTypesInv'
  <2>1. written' \in [Provision -> 0..MaxTenantWrites]
    BY <1>0, <1>4 DEF WriteData, TenantTypesInv, TenantTypeOK
  <2> QED
    BY <1>4, <2>1 DEF WriteData, TenantTypesInv, TenantTypeOK, rowState, offboardVars, evacVars
<1>5. ASSUME NEW o \in Offboard, NEW t \in Provision, MarkOffboarding(o, t) PROVE TenantTypesInv'
  BY <1>5 DEF MarkOffboarding, TenantTypesInv, TenantTypeOK, rowState, evacVars, dataVars
<1>6. ASSUME NEW o \in Offboard, OffboardTenant(o) PROVE TenantTypesInv'
  BY <1>6 DEF OffboardTenant, TenantTypesInv, TenantTypeOK, evacVars, dataVars
<1>7. ASSUME NEW e \in Evacuation, StartEvacuation(e) PROVE TenantTypesInv'
  BY <1>7 DEF StartEvacuation, EvacGoes, TenantTypesInv, TenantTypeOK, rowState, offboardVars, dataVars
<1>8. ASSUME NEW e \in Evacuation, NEW t \in Provision, ExportTenant(e, t) PROVE TenantTypesInv'
  <2>1. written[t] \in 0..MaxTenantWrites
    BY DEF TenantTypesInv, TenantTypeOK
  <2> QED
    BY <1>8, <2>1 DEF ExportTenant, EvacGoes, TenantTypesInv, TenantTypeOK, rowState,
                      offboardVars, dataVars
<1>9. ASSUME NEW e \in Evacuation, ImportToTargetCell(e) PROVE TenantTypesInv'
  <2> DEFINE t == inHand[e]
             r == Target[e]
  <2>1. pack[e] \in -1..MaxTenantWrites /\ evacPc[e] = "importing" /\ t \in Provision
    BY <1>0, <1>9 DEF ImportToTargetCell, EvacGoes, TenantTypesInv
  <2>2. r \in Region
    BY TargetAssumption
  <2>3. copy' \in [Provision -> [Region -> -1..MaxTenantWrites]]
    <3>1. copy \in [Provision -> [Region -> -1..MaxTenantWrites]]
      BY DEF TenantTypesInv, TenantTypeOK
    <3>2. CASE copy' = copy
      BY <3>1, <3>2
    <3>3. CASE Imported(e)
      <4>1. copy' = [copy EXCEPT ![t][r] = IF @ < pack[e] THEN pack[e] ELSE @]
        BY <3>3 DEF Imported
      <4>2. (IF copy[t][r] < pack[e] THEN pack[e] ELSE copy[t][r]) \in -1..MaxTenantWrites
        BY <2>1, <2>2, <3>1
      <4> HIDE DEF t, r
      <4> QED
        BY <2>1, <2>2, <3>1, <4>1, <4>2
    <3> QED
      BY <1>9, <3>2, <3>3 DEF ImportToTargetCell
  <2>4. /\ evacPc' = [evacPc EXCEPT ![e] = "pinning"] \/ evacPc' = [evacPc EXCEPT ![e] = "looping"]
        /\ UNCHANGED <<rowState, offboardVars, todo, inHand, pinned, pack, readAt, written, admitted>>
    BY <1>9 DEF ImportToTargetCell, EvacGoes
  <2> HIDE DEF t, r
  <2> QED
    BY <2>1, <2>3, <2>4 DEF TenantTypesInv, TenantTypeOK, rowState, offboardVars, t
<1>10. ASSUME NEW e \in Evacuation, RepinTenant(e) PROVE TenantTypesInv'
  <2>1. inHand[e] \in Provision
    BY <1>10 DEF RepinTenant, TenantTypesInv
  <2>2. PICK c \in {"looping", "failed"}, Q \in SUBSET Provision :
          evacPc' = [evacPc EXCEPT ![e] = c] /\ pinned' = [pinned EXCEPT ![e] = Q]
    <3>1. CASE Exists(inHand[e])
      BY <1>10, <2>1, <3>1 DEF RepinTenant, EvacGoes, TenantTypesInv, TenantTypeOK
    <3>2. CASE ~ Exists(inHand[e])
      BY <1>10, <3>2 DEF RepinTenant, EvacGoes
    <3> QED
      BY <3>1, <3>2
  <2>3. UNCHANGED <<rowState, offboardVars, todo, inHand, pack, readAt, dataVars>>
    BY <1>10 DEF RepinTenant
  <2> QED
    BY <2>2, <2>3 DEF TenantTypesInv, TenantTypeOK, rowState, offboardVars, dataVars
<1>11. ASSUME NEW e \in Evacuation, CommitEvacuation(e) PROVE TenantTypesInv'
  <2>1. Target[e] \in Region
    BY TargetAssumption
  <2>2. dataRegion' \in [Provision -> Region \union {"absent"}]
    BY <1>11, <2>1 DEF CommitEvacuation, TenantTypesInv, TenantTypeOK
  <2> QED
    BY <1>11, <2>2 DEF CommitEvacuation, EvacGoes, TenantTypesInv, TenantTypeOK,
                       offboardVars, dataVars
<1>12. ASSUME NEW e \in Evacuation, EvacuationFails(e) PROVE TenantTypesInv'
  BY <1>12 DEF EvacuationFails, TenantTypesInv, TenantTypeOK, rowState, offboardVars, dataVars
<1>13. CASE UNCHANGED tenantVars
  BY <1>13 DEF tenantVars, TenantTypesInv, TenantTypeOK, rowState, offboardVars, evacVars, dataVars
<1> QED
  BY <1>1, <1>2, <1>3, <1>4, <1>5, <1>6, <1>7, <1>8, <1>9, <1>10, <1>11, <1>12, <1>13, Zenon
     DEF TenantNext

\* Regions, copies and evacuations keep their types.
THEOREM TenantTypes == TenantSpec => []TenantTypeOK
<1>1. TenantTypesInv => TenantTypeOK
  BY DEF TenantTypesInv
<1> QED
  BY <1>1, TenantTypesInit, TenantTypesStep, PTL DEF TenantSpec

\* Every row of drift_log was written by a run that is done.
Ended == {d \in DriftRun : driftPc[d] = "done"}

ModelTypesInv ==
  /\ serving \in [Process -> {"unknown"} \union {Candidate[p] : p \in Promotion}]
  /\ promotionPc \in [Promotion -> {"new", "current", "swapping", "refused", "raised",
                                    "failed", "killed"}]
  /\ shadows.agreed \in Nat /\ shadows.total \in Nat
  /\ shadows.agreed <= shadows.total /\ shadows.total <= MaxSamples
  /\ driftPc \in [DriftRun -> {"new", "read", "found", "done"}]
  /\ Len(driftLog) <= Cardinality(Ended)

\* The initial states have the types.
LEMMA ModelTypesInit == ModelInit => ModelTypesInv
<1> SUFFICES ASSUME ModelInit PROVE ModelTypesInv
  OBVIOUS
<1>1. Len(driftLog) = 0 /\ Ended = {}
  BY DEF ModelInit, Ended
<1>2. Cardinality(Ended) = 0
  BY <1>1, FS_EmptySet
<1> QED
  BY <1>1, <1>2, SamplesAssumption DEF ModelInit, ModelTypesInv

\* A run that reaches "done" is one more that has ended; one that moves on before is none.
LEMMA RunEnds ==
  ASSUME driftPc \in [DriftRun -> {"new", "read", "found", "done"}], NEW d \in DriftRun,
         driftPc[d] # "done", NEW c \in {"read", "found", "done"},
         driftPc' = [driftPc EXCEPT ![d] = c]
  PROVE  /\ driftPc' \in [DriftRun -> {"new", "read", "found", "done"}]
         /\ Cardinality(Ended) \in Nat
         /\ c = "done" => Cardinality(Ended') = Cardinality(Ended) + 1
         /\ c # "done" => Ended' = Ended
<1>1. IsFiniteSet(Ended)
  BY FS_Subset, DriftAssumption DEF Ended
<1>2. c = "done" => Ended' = Ended \union {d}
  BY DEF Ended
<1>3. c # "done" => Ended' = Ended
  BY DEF Ended
<1>4. d \notin Ended
  BY DEF Ended
<1> QED
  BY <1>1, <1>2, <1>3, <1>4, FS_AddElement, FS_CardinalityType

\* Drift runs keep them: a row more, a run more that has ended.
LEMMA DriftTypesStep ==
  ASSUME ModelTypesInv, DriftInv, DriftNext
  PROVE  ModelTypesInv'
<1>1. ASSUME NEW d \in DriftRun, ReadRecent(d) PROVE ModelTypesInv'
  <2>1. PICK c \in {"read", "done"} :
          driftPc[d] = "new" /\ driftPc' = [driftPc EXCEPT ![d] = c]
    BY <1>1 DEF ReadRecent
  <2>2. UNCHANGED <<serving, promotionPc, shadows, driftLog>>
    BY <1>1 DEF ReadRecent, promotionVars
  <2>3. /\ driftPc' \in [DriftRun -> {"new", "read", "found", "done"}]
        /\ Cardinality(Ended) \in Nat
        /\ Cardinality(Ended') = Cardinality(Ended) + 1 \/ Cardinality(Ended') = Cardinality(Ended)
    BY <2>1, RunEnds DEF ModelTypesInv
  <2>4. Len(driftLog) \in Nat
    BY DEF DriftInv
  <2> QED
    BY <2>2, <2>3, <2>4 DEF ModelTypesInv
<1>2. ASSUME NEW d \in DriftRun, ReadReference(d) PROVE ModelTypesInv'
  <2>1. driftPc[d] = "read" /\ driftPc' = [driftPc EXCEPT ![d] = "found"]
    BY <1>2 DEF ReadReference
  <2>2. UNCHANGED <<serving, promotionPc, shadows, driftLog>>
    BY <1>2 DEF ReadReference, promotionVars
  <2>3. driftPc' \in [DriftRun -> {"new", "read", "found", "done"}] /\ Ended' = Ended
    BY <2>1, RunEnds DEF ModelTypesInv
  <2> QED
    BY <2>2, <2>3 DEF ModelTypesInv
<1>3. ASSUME NEW d \in DriftRun, PersistDriftLog(d) PROVE ModelTypesInv'
  <2>1. driftPc[d] = "found" /\ driftPc' = [driftPc EXCEPT ![d] = "done"]
    BY <1>3 DEF PersistDriftLog
  <2>2. UNCHANGED <<serving, promotionPc, shadows>> /\ driftLog' = Append(driftLog, driftRead[d])
    BY <1>3 DEF PersistDriftLog, promotionVars
  <2>3. /\ driftPc' \in [DriftRun -> {"new", "read", "found", "done"}]
        /\ Cardinality(Ended) \in Nat /\ Cardinality(Ended') = Cardinality(Ended) + 1
    BY <2>1, RunEnds DEF ModelTypesInv
  <2>4. Len(driftLog) \in Nat /\ Len(driftLog') = Len(driftLog) + 1
    BY <2>2 DEF DriftInv
  <2> QED
    BY <2>2, <2>3, <2>4 DEF ModelTypesInv
<1>4. ASSUME NextWeek PROVE ModelTypesInv'
  BY <1>4 DEF NextWeek, ModelTypesInv, Ended, promotionVars
<1> QED
  BY <1>1, <1>2, <1>3, <1>4 DEF DriftNext

\* Shadow predictions, promotions and restarts keep them.
LEMMA PromotionTypesStep ==
  ASSUME ModelTypesInv, PromotionNext
  PROVE  ModelTypesInv'
<1> DEFINE Codes == {"new", "current", "swapping", "refused", "raised", "failed", "killed"}
           Versions == {"unknown"} \union {Candidate[p] : p \in Promotion}
<1>1. CASE RunShadow
  <2>1. PICK n \in {0, 1} : shadows' = [total |-> shadows.total + 1, agreed |-> shadows.agreed + n]
    BY <1>1 DEF RunShadow
  <2>2. shadows.total < MaxSamples /\ UNCHANGED <<serving, promotionPc, driftPc, driftLog>>
    BY <1>1 DEF RunShadow, promotionVars, driftVars
  <2> QED
    BY <2>1, <2>2, SamplesAssumption DEF ModelTypesInv, Ended
<1>2. CASE ShadowAges
  <2>1. PICK n \in {0, 1} :
          /\ shadows.agreed >= n /\ shadows.total - shadows.agreed >= 1 - n
          /\ shadows' = [total |-> shadows.total - 1, agreed |-> shadows.agreed - n]
    BY <1>2 DEF ShadowAges
  <2>2. UNCHANGED <<serving, promotionPc, driftPc, driftLog>>
    BY <1>2 DEF ShadowAges, promotionVars, driftVars
  <2> QED
    BY <2>1, <2>2, SamplesAssumption DEF ModelTypesInv, Ended
<1>3. CASE ChangeActiveRow
  BY <1>3 DEF ChangeActiveRow, ModelTypesInv, Ended, driftVars
<1>4. ASSUME NEW p \in Promotion, ReadCurrentModel(p) \/ CheckPromotionGuard(p) PROVE ModelTypesInv'
  <2>1. PICK c \in Codes : promotionPc' = [promotionPc EXCEPT ![p] = c]
    BY <1>4 DEF ReadCurrentModel, CheckPromotionGuard, PromotionGoes
  <2>2. UNCHANGED <<serving, shadows, driftPc, driftLog>>
    BY <1>4 DEF ReadCurrentModel, CheckPromotionGuard, driftVars
  <2> QED
    BY <2>1, <2>2 DEF ModelTypesInv, Ended
<1>5. ASSUME NEW p \in Promotion, HotSwap(p) PROVE ModelTypesInv'
  <2>1. /\ promotionPc' = [promotionPc EXCEPT ![p] = "failed"]
        /\ serving' = [serving EXCEPT ![RunsIn[p]] = Candidate[p]]
    BY <1>5 DEF HotSwap, PromotionGoes
  <2>2. UNCHANGED <<shadows, driftPc, driftLog>>
    BY <1>5 DEF HotSwap, driftVars
  <2>3. serving' \in [Process -> Versions]
    BY <2>1 DEF ModelTypesInv
  <2> QED
    BY <2>1, <2>2, <2>3 DEF ModelTypesInv, Ended
<1>6. ASSUME NEW w \in Process, RestartProcess(w) PROVE ModelTypesInv'
  <2>1. /\ serving' = [serving EXCEPT ![w] = "unknown"]
        /\ UNCHANGED <<shadows, driftPc, driftLog>>
    BY <1>6 DEF RestartProcess, driftVars
  <2>2. promotionPc' \in [Promotion -> Codes]
    BY <1>6 DEF RestartProcess, ModelTypesInv
  <2>3. serving' \in [Process -> Versions]
    BY <2>1 DEF ModelTypesInv
  <2> QED
    BY <2>1, <2>2, <2>3 DEF ModelTypesInv, Ended
<1> QED
  BY <1>1, <1>2, <1>3, <1>4, <1>5, <1>6 DEF PromotionNext

\* A process serves a candidate or nothing, no more predictions agree than there are,
\* and each drift run stores one row.
THEOREM ModelTypes == ModelSpec => []ModelTypeOK
<1>1. ModelTypesInv /\ DriftInv /\ [ModelNext]_modelVars => ModelTypesInv'
  <2>1. ModelTypesInv /\ UNCHANGED modelVars => ModelTypesInv'
    BY DEF modelVars, promotionVars, driftVars, ModelTypesInv, Ended
  <2> QED
    BY <2>1, DriftTypesStep, PromotionTypesStep, Zenon DEF ModelNext
<1>2. ModelTypesInv /\ DriftInv => ModelTypeOK
  <2> SUFFICES ASSUME ModelTypesInv, DriftInv PROVE ModelTypeOK
    OBVIOUS
  <2>1. IsFiniteSet(DriftRun) /\ Ended \subseteq DriftRun
    BY DriftAssumption DEF Ended
  <2>2. /\ Cardinality(Ended) <= Cardinality(DriftRun)
        /\ Cardinality(Ended) \in Nat /\ Cardinality(DriftRun) \in Nat
    BY <2>1, FS_Subset, FS_CardinalityType
  <2>3. Len(driftLog) \in Nat
    BY DEF DriftInv
  <2> QED
    BY <2>2, <2>3 DEF ModelTypesInv, ModelTypeOK
<1> QED
  BY <1>1, <1>2, ModelTypesInit, DriftInvariant, PTL DEF ModelSpec

\* Rows, endpoints and attempts keep their types.
THEOREM HooksStayTyped == HookSpec => []HookTypeOK
<1>1. HookInv => HookTypeOK
  BY DEF HookInv, HookTypes
<1> QED
  BY <1>1, HooksInvariant, PTL

\* Answers carry scores, and of a call no more is held or transcribed than was received.
THEOREM EntranceTypes == EntranceSpec => []EntranceTypeOK
<1>1. ToldInv /\ SoundInv => EntranceTypeOK
  <2> SUFFICES ASSUME ToldInv, SoundInv PROVE EntranceTypeOK
    OBVIOUS
  <2>1. \A s \in AnsweredSubmissions : told[s].score \in Percent
    BY Zenon DEF ToldInv, AnswerIsSound
  <2>2. \A a \in Stream : buffer[a] \union spoken[a] \union garbled[a] \subseteq 1..chunks[a]
    BY DEF SoundInv, Heard, HeardOf
  <2>3. \A a \in Stream : chunks[a] \in 0..MaxSound
    BY DEF SoundInv, SoundTypes
  <2> QED
    BY <2>1, <2>2, <2>3 DEF EntranceTypeOK, SoundInv, SoundTypes
<1> QED
  BY <1>1, EntrancesInvariant, PTL

-----------------------------------------------------------------------------
(* The services together: each behaves by its own specification.            *)

\* A step of the services is, for each of them, a step of its own or none.
LEMMA ServiceSteps ==
  ASSUME [ServicesNext]_serviceVars
  PROVE  /\ [HookNext]_hookVars /\ [IntelNext]_intelVars /\ [BankNext]_bankVars
         /\ [AccountNext]_accountVars /\ [CaseNext]_caseVars
         /\ [InterventionNext]_interventionVars /\ [TenantNext]_tenantVars
         /\ [ModelNext]_modelVars /\ [LookupNext]_lookupVars
         /\ [EntranceNext \/ SoundNext]_entranceVars
<1>1. CASE UNCHANGED serviceVars
  BY <1>1, Zenon DEF serviceVars
<1>2. CASE ServicesNext
  <2>1. /\ [HookNext]_hookVars /\ [IntelNext]_intelVars /\ [BankNext]_bankVars
        /\ [AccountNext]_accountVars /\ [CaseNext]_caseVars
        /\ [InterventionNext]_interventionVars /\ [TenantNext]_tenantVars
        /\ [LookupNext]_lookupVars
    BY <1>2, Zenon DEF ServicesNext
  <2>2. [ModelNext]_modelVars
    BY <1>2, Zenon DEF ServicesNext, ModelNext, modelVars
  <2>3. [EntranceNext \/ SoundNext]_entranceVars
    BY <1>2, Zenon DEF ServicesNext
  <2> QED
    BY <2>1, <2>2, <2>3
<1> QED
  BY <1>1, <1>2

\* The composition implements the specification of each service.
THEOREM ServicesImplementEach ==
  ServicesSpec =>
    /\ HookSpec /\ IntelSpec /\ BankSpec /\ AccountSpec /\ CaseSpec /\ InterventionSpec
    /\ TenantSpec /\ ModelSpec /\ LookupSpec /\ EntranceSpec
<1>1. ServicesInit =>
        /\ HookInit /\ IntelInit /\ BankInit /\ AccountInit /\ CaseInit /\ InterventionInit
        /\ TenantInit /\ ModelInit /\ LookupInit /\ EntranceInit
  BY Zenon DEF ServicesInit
<1>2. [ServicesNext]_serviceVars =>
        /\ [HookNext]_hookVars /\ [IntelNext]_intelVars /\ [BankNext]_bankVars
        /\ [AccountNext]_accountVars /\ [CaseNext]_caseVars
        /\ [InterventionNext]_interventionVars /\ [TenantNext]_tenantVars
        /\ [ModelNext]_modelVars /\ [LookupNext]_lookupVars
        /\ [EntranceNext \/ SoundNext]_entranceVars
  BY ServiceSteps
<1> QED
  BY <1>1, <1>2, PTL DEF ServicesSpec, HookSpec, IntelSpec, BankSpec, AccountSpec, CaseSpec,
                         InterventionSpec, TenantSpec, ModelSpec, LookupSpec, EntranceSpec

\* What the services promise, each for its own state, holds of the whole: endpoints
\* that answer stay subscribed, reputations and totals are backed, cases whole,
\* notices honest, tenants with their data, the serving model guarded, answers
\* about a reputation between those they are made of, entrances sound, and refresh
\* tokens in families.
THEOREM ServicesStaySound ==
  ServicesSpec =>
    /\ [](/\ HealthyEndpointsAreKept /\ ReputationIsBacked /\ SharesCountThemselves
          /\ CaseStaysWhole /\ NoticesAreHonest /\ TenantsFollowTheirData
          /\ LifecycleIsAccountedFor /\ AnswersAreBetween /\ EntrancesAreSound)
    /\ SessionsAreKept
  BY ServicesImplementEach, HealthyEndpointsStay, ReputationStaysBacked, SharesAreCounted,
     CasesStayWhole, NoticesStayHonest, TenantsKeepTheirData, LifecycleStaysAccounted,
     AnswersStayBetween, EntrancesStaySound, SessionsImplemented, PTL

\* In every behaviour of the whole each service keeps its types, whichever runs.
THEOREM ServicesStayTyped == ServicesSpec => []ServicesTypeOK
<1>1. ServicesInit => part \in Part
  BY DEF ServicesInit
<1>2. part \in Part /\ [ServicesNext]_serviceVars => (part \in Part)'
  <2>1. [ServicesNext]_serviceVars => part' = part
    BY Zenon DEF ServicesNext, serviceVars
  <2> QED
    BY <2>1
<1>3. ServicesSpec => [](part \in Part)
  BY <1>1, <1>2, PTL DEF ServicesSpec
<1>4. AccountInv => AccountTypeOK
  BY Zenon DEF AccountInv
<1>5. /\ part \in Part
      /\ HookTypeOK /\ IntelTypeOK /\ BankTypeOK /\ AccountTypeOK /\ CaseTypeOK
      /\ InterventionTypeOK /\ TenantTypeOK /\ ModelTypeOK /\ LookupTypeOK
      /\ EntranceTypeOK
      => ServicesTypeOK
  BY Zenon DEF ServicesTypeOK
<1> QED
  BY <1>3, <1>4, <1>5, ServicesImplementEach, HooksStayTyped, IntelTypes, BankTypes,
     PairsAreInOrder, CaseTypes, InterventionTypes, TenantTypes, ModelTypes, LookupTypes,
     EntranceTypes, PTL
=============================================================================
