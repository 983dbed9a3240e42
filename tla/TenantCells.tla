---------------------------- MODULE TenantCells ----------------------------
(***************************************************************************)
(* Tenants of one cell: provisioning and offboarding (backend/app/services/*)
(* tenant/lifecycle.py, api/v1/tenant.py), the evacuation of the cell to   *)
(* another region (services/tenant/evacuation.py) and the routing of       *)
(* requests by a tenant's region (middleware/cell_router.py).              *)
(*                                                                         *)
(* A tenant is named by the request that provisions it.                    *)
(***************************************************************************)
EXTENDS Integers, FiniteSets

CONSTANTS
  Provision,      \* requests of POST /tenant/provision
  Slug,           \* the slug each one asks for
  Offboard,       \* requests of POST /tenant/{id}/offboard
  Evacuation,     \* calls of evacuate_cell
  Target,         \* the region each one moves the tenants to
  Region,         \* regions
  Home,           \* settings.cell_region of this cell
  CellUrl,        \* the regions that settings.cell_urls knows
  NoTenant,       \* nothing read, or no tenant in hand
  MaxTenantWrites \* bound: writes of one tenant's data in this cell

ASSUME HomeAssumption == Home \in Region /\ CellUrl \subseteq Region
ASSUME TargetAssumption == Target \in [Evacuation -> Region \ {Home}]
ASSUME NoTenantAssumption == NoTenant \notin Provision
ASSUME TenantBoundAssumption == MaxTenantWrites \in Nat

VARIABLES
  provisionPc, \* "new", "free" (no such slug), "done", "conflict" or "failed"
  dataRegion,  \* data_region of each tenant's row, "absent" when there is none
  born,        \* the region each was provisioned with
  offboarded,  \* the tenant each offboarding has flushed, and so locked
  offboardPc,  \* "new", "deleting", "done" or "failed"
  evacPc,      \* "new", "looping", "importing", "pinning", "done" or "failed"
  todo,        \* the tenants an evacuation has read and not yet tried
  inHand,      \* the one it is at
  pinned,      \* those it has re-pinned and flushed, not committed
  written,     \* writes of each tenant's data in this cell
  admitted,    \* tenants with a request that the router has let through
  pack,        \* what the pack an evacuation holds contains of the tenant's data
  readAt,      \* history: written, as each evacuation found it
  copy         \* what each region has imported of each tenant's data, -1 for none
               \* (packs add rows and remove none)

rowState == <<provisionPc, dataRegion, born>>
offboardVars == <<offboarded, offboardPc>>
evacVars == <<evacPc, todo, inHand, pinned, pack, readAt>>
dataVars == <<written, admitted, copy>>
tenantVars == <<rowState, offboardVars, evacVars, dataVars>>

Exists(t) == dataRegion[t] # "absent"

\* Nobody else has an uncommitted change of the tenant's row.
Unlocked(t, e) ==
  /\ \A o \in Offboard : offboarded[o] # t
  /\ \A f \in Evacuation \ {e} : t \notin pinned[f]

-----------------------------------------------------------------------------
(* Lifecycle                                                                *)

LookUpSlug(p) ==
  /\ provisionPc[p] = "new"
  /\ provisionPc' = [provisionPc EXCEPT ![p] =
       IF \E t \in Provision : Exists(t) /\ Slug[t] = Slug[p] THEN "conflict" ELSE "free"]
  /\ UNCHANGED <<dataRegion, born, offboardVars, evacVars, dataVars>>

\* Tenant, admin user and roles in one transaction; slugs are unique.
ProvisionTenant(p) ==
  /\ provisionPc[p] = "free"
  /\ IF \E t \in Provision : Exists(t) /\ Slug[t] = Slug[p]
     THEN /\ provisionPc' = [provisionPc EXCEPT ![p] = "failed"]
          /\ UNCHANGED <<dataRegion, born>>
     ELSE \E r \in Region :
            /\ provisionPc' = [provisionPc EXCEPT ![p] = "done"]
            /\ dataRegion' = [dataRegion EXCEPT ![p] = r]
            /\ born' = [born EXCEPT ![p] = r]
  /\ UNCHANGED <<offboardVars, evacVars, dataVars>>

MarkOffboarding(o, t) ==
  /\ offboardPc[o] = "new" /\ Exists(t)
  /\ Unlocked(t, NoTenant)
  /\ offboarded' = [offboarded EXCEPT ![o] = t]
  /\ offboardPc' = [offboardPc EXCEPT ![o] = "deleting"]
  /\ UNCHANGED <<rowState, evacVars, dataVars>>

\* The rows go with the tenant, in one transaction; a row that still refers to
\* the tenant (a recovery case, an SSO set-up) fails all of it.
OffboardTenant(o) ==
  /\ offboardPc[o] = "deleting"
  /\ \/ /\ dataRegion' = [dataRegion EXCEPT ![offboarded[o]] = "absent"]
        /\ offboardPc' = [offboardPc EXCEPT ![o] = "done"]
     \/ /\ offboardPc' = [offboardPc EXCEPT ![o] = "failed"]
        /\ UNCHANGED dataRegion
  /\ offboarded' = [offboarded EXCEPT ![o] = NoTenant]
  /\ UNCHANGED <<provisionPc, born, evacVars, dataVars>>

-----------------------------------------------------------------------------
(* Routing                                                                  *)

\* A tenant of another region is redirected to its cell, when its URL is known.
ServedHere(t) == dataRegion[t] \in {Home} \union (Region \ CellUrl)

RouteRequest(t) ==
  /\ Exists(t) /\ ServedHere(t) /\ t \notin admitted
  /\ admitted' = admitted \union {t}
  /\ UNCHANGED <<rowState, offboardVars, evacVars, written, copy>>

WriteData(t) ==
  /\ t \in admitted /\ written[t] < MaxTenantWrites
  /\ admitted' = admitted \ {t}
  /\ written' = [written EXCEPT ![t] = IF Exists(t) THEN @ + 1 ELSE @]
  /\ UNCHANGED <<rowState, offboardVars, evacVars, copy>>

-----------------------------------------------------------------------------
(* Evacuation                                                               *)

EvacGoes(e, from, to) == evacPc[e] = from /\ evacPc' = [evacPc EXCEPT ![e] = to]

StartEvacuation(e) ==
  /\ EvacGoes(e, "new", "looping")
  /\ todo' = [todo EXCEPT ![e] = {t \in Provision : dataRegion[t] = Home}]
  /\ readAt' = [readAt EXCEPT ![e] = written]
  /\ UNCHANGED <<rowState, offboardVars, inHand, pinned, pack, dataVars>>

\* The pack is generated twice, the second one is sent; when that fails the
\* tenant is left where it is.
ExportTenant(e, t) ==
  /\ t \in todo[e]
  /\ todo' = [todo EXCEPT ![e] = @ \ {t}]
  /\ \/ /\ EvacGoes(e, "looping", "importing")
        /\ inHand' = [inHand EXCEPT ![e] = t]
        /\ pack' = [pack EXCEPT ![e] = written[t]]
     \/ evacPc[e] = "looping" /\ UNCHANGED <<evacPc, inHand, pack>>
  /\ UNCHANGED <<rowState, offboardVars, pinned, readAt, dataVars>>

Imported(e) ==
  /\ Target[e] \in CellUrl
  /\ copy' = [copy EXCEPT ![inHand[e]][Target[e]] = IF @ < pack[e] THEN pack[e] ELSE @]

\* Mutant: a failed import is not the end of it.
ImportOrNot(e) ==
  /\ EvacGoes(e, "importing", "pinning")
  /\ Imported(e) \/ UNCHANGED copy
  /\ UNCHANGED <<rowState, offboardVars, todo, inHand, pinned, pack, readAt, written, admitted>>

\* Without a URL, or without a 200 from the target, the tenant is left where it
\* is; a call that timed out may have imported it all the same.
ImportToTargetCell(e) ==
  /\ \/ EvacGoes(e, "importing", "pinning") /\ Imported(e)
     \/ EvacGoes(e, "importing", "looping") /\ (Imported(e) \/ UNCHANGED copy)
  /\ UNCHANGED <<rowState, offboardVars, todo, inHand, pinned, pack, readAt, written, admitted>>

\* The flush waits for the row; a tenant deleted meanwhile fails it, and with it
\* the session and all it has flushed.
RepinTenant(e) ==
  /\ evacPc[e] = "pinning" /\ Unlocked(inHand[e], e)
  /\ IF Exists(inHand[e])
     THEN /\ EvacGoes(e, "pinning", "looping")
          /\ pinned' = [pinned EXCEPT ![e] = @ \union {inHand[e]}]
     ELSE /\ EvacGoes(e, "pinning", "failed")
          /\ pinned' = [pinned EXCEPT ![e] = {}]
  /\ UNCHANGED <<rowState, offboardVars, todo, inHand, pack, readAt, dataVars>>

CommitEvacuation(e) ==
  /\ todo[e] = {} /\ EvacGoes(e, "looping", "done")
  /\ dataRegion' = [t \in Provision |-> IF t \in pinned[e] THEN Target[e] ELSE dataRegion[t]]
  /\ pinned' = [pinned EXCEPT ![e] = {}]
  /\ UNCHANGED <<provisionPc, born, offboardVars, todo, inHand, pack, readAt, dataVars>>

\* The database fails a statement or the commit, or the process dies.
EvacuationFails(e) ==
  /\ evacPc[e] \in {"looping", "importing", "pinning"}
  /\ evacPc' = [evacPc EXCEPT ![e] = "failed"]
  /\ pinned' = [pinned EXCEPT ![e] = {}]
  /\ UNCHANGED <<rowState, offboardVars, todo, inHand, pack, readAt, dataVars>>

-----------------------------------------------------------------------------
TenantInit ==
  /\ provisionPc = [p \in Provision |-> "new"]
  /\ dataRegion = [p \in Provision |-> "absent"]
  /\ born = [p \in Provision |-> "absent"]
  /\ offboarded = [o \in Offboard |-> NoTenant]
  /\ offboardPc = [o \in Offboard |-> "new"]
  /\ evacPc = [e \in Evacuation |-> "new"]
  /\ todo = [e \in Evacuation |-> {}]
  /\ inHand = [e \in Evacuation |-> NoTenant]
  /\ pinned = [e \in Evacuation |-> {}]
  /\ written = [t \in Provision |-> 0]
  /\ admitted = {}
  /\ pack = [e \in Evacuation |-> 0]
  /\ readAt = [e \in Evacuation |-> written]
  /\ copy = [t \in Provision |-> [r \in Region |-> -1]]

TenantNext ==
  \/ \E p \in Provision :
       LookUpSlug(p) \/ ProvisionTenant(p) \/ RouteRequest(p) \/ WriteData(p)
  \/ \E o \in Offboard : OffboardTenant(o) \/ \E t \in Provision : MarkOffboarding(o, t)
  \/ \E e \in Evacuation :
       \/ StartEvacuation(e) \/ ImportToTargetCell(e) \/ RepinTenant(e)
       \/ CommitEvacuation(e) \/ EvacuationFails(e)
       \/ \E t \in Provision : ExportTenant(e, t)

TenantSpec == TenantInit /\ [][TenantNext]_tenantVars

-----------------------------------------------------------------------------
(* Properties                                                               *)

TenantTypeOK ==
  /\ provisionPc \in [Provision -> {"new", "free", "done", "conflict", "failed"}]
  /\ dataRegion \in [Provision -> Region \union {"absent"}]
  /\ offboarded \in [Offboard -> Provision \union {NoTenant}]
  /\ offboardPc \in [Offboard -> {"new", "deleting", "done", "failed"}]
  /\ evacPc \in [Evacuation -> {"new", "looping", "importing", "pinning", "done", "failed"}]
  /\ todo \in [Evacuation -> SUBSET Provision]
  /\ pinned \in [Evacuation -> SUBSET Provision]
  /\ written \in [Provision -> 0..MaxTenantWrites]
  /\ admitted \subseteq Provision
  /\ copy \in [Provision -> [Region -> -1..MaxTenantWrites]]

\* Whatever evacuations, offboardings, failures and requests overlap, a tenant
\* whose region has changed is pinned to a region that has imported it, with all
\* that was written before the evacuation began; what its own cell admits during
\* the evacuation may be missing there (evacuation.py:136-179).
TenantsFollowTheirData ==
  \A t \in Provision : dataRegion[t] \notin {"absent", born[t]} =>
    \E e \in Evacuation :
      /\ evacPc[e] = "done" /\ Target[e] = dataRegion[t]
      /\ copy[t][dataRegion[t]] >= readAt[e][t]
=============================================================================
