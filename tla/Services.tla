------------------------------ MODULE Services ------------------------------
(***************************************************************************)
(* The services of the backend that share no state with one another.  A    *)
(* behaviour lets one of them run, with all of its own concurrency: their  *)
(* interleaving with the others changes nothing that a property speaks of. *)
(* EntityGraph, ScanPipeline, EventConsumer, AuditChain and UsageBilling   *)
(* have runs of their own.                                                 *)
(***************************************************************************)
EXTENDS WebhookDispatch, CommunityIntel, BankNetwork, Accounts, RecoveryCases,
        Interventions, TenantCells, ModelPromotion, ReputationLookup, ScanEntrances

VARIABLE part  \* the service that runs

Part == {"webhooks", "intel", "banks", "accounts", "cases", "interventions",
         "tenants", "promotion", "drift", "reputation", "scans", "sound"}

serviceVars == <<part, hookVars, intelVars, bankVars, accountVars, caseVars,
                 interventionVars, tenantVars, modelVars, lookupVars, entranceVars>>

\* A service that does not run starts in one of its initial states only.
ServicesInit ==
  /\ part \in Part
  /\ HookInit /\ (part # "webhooks" => row = [s \in Subscription |-> "none"])
  /\ CaseInit /\ (part # "cases" => keys = "local")
  /\ InterventionInit
  /\ part # "interventions" =>
       channels = [whatsapp |-> FALSE, proactive |-> FALSE, bank |-> "none"]
  /\ IntelInit /\ BankInit /\ AccountInit /\ TenantInit /\ ModelInit /\ LookupInit
  /\ EntranceInit

ServicesNext ==
  /\ UNCHANGED part
  /\ IF part = "webhooks" THEN HookNext ELSE UNCHANGED hookVars
  /\ IF part = "intel" THEN IntelNext ELSE UNCHANGED intelVars
  /\ IF part = "banks" THEN BankNext ELSE UNCHANGED bankVars
  /\ IF part = "accounts" THEN AccountNext ELSE UNCHANGED accountVars
  /\ IF part = "cases" THEN CaseNext ELSE UNCHANGED caseVars
  /\ IF part = "interventions" THEN InterventionNext ELSE UNCHANGED interventionVars
  /\ IF part = "tenants" THEN TenantNext ELSE UNCHANGED tenantVars
  /\ IF part = "promotion" THEN PromotionNext /\ UNCHANGED driftVars
     ELSE IF part = "drift" THEN DriftNext ELSE UNCHANGED modelVars
  /\ IF part = "reputation" THEN LookupNext ELSE UNCHANGED lookupVars
  /\ IF part = "scans" THEN EntranceNext
     ELSE IF part = "sound" THEN SoundNext ELSE UNCHANGED entranceVars

ServicesSpec == ServicesInit /\ [][ServicesNext]_serviceVars

\* The type invariants of the services.
ServicesTypeOK ==
  /\ part \in Part
  /\ HookTypeOK /\ IntelTypeOK /\ BankTypeOK /\ AccountTypeOK /\ CaseTypeOK
  /\ InterventionTypeOK /\ TenantTypeOK /\ ModelTypeOK /\ LookupTypeOK
  /\ EntranceTypeOK
=============================================================================
