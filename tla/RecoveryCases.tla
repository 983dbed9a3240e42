--------------------------- MODULE RecoveryCases ---------------------------
(***************************************************************************)
(* A victim's recovery case (backend/app/api/v1/recovery.py) and the       *)
(* encryption of its personal fields: the listeners of                     *)
(* services/security/encryption_listeners.py, the vault they call          *)
(* (pii_vault.py) and its key providers (kms_provider.py).                 *)
(*                                                                         *)
(* The four personal fields are treated alike: one stands for them.        *)
(***************************************************************************)
EXTENDS Integers

CONSTANTS
  CaseRequest,     \* requests for the case
  TotalSteps,      \* the steps of its kind of fraud
  NoCase,          \* the case does not exist, or was not read
  NoReference,     \* no complaint was filed
  MaxCaseRestarts  \* bound: restarts of the application

ASSUME StepsAssumption == TotalSteps \in 3..6
ASSUME CaseBoundAssumption == MaxCaseRestarts \in Nat
ASSUME NoReferenceAssumption == NoReference \notin CaseRequest

\* What a personal field holds: "encoded" is plaintext that happens to decode
\* as base64 with a first byte of 1, "nested" a ciphertext encrypted again.
Pii == {"absent", "plain", "encoded", "sealed", "nested"}

\* recovery_cases; the reference names the request that filed the complaint.
Case == [step : Int, completed : BOOLEAN, pii : Pii,
         reference : CaseRequest \union {NoReference},
         receipt : CaseRequest \union {NoReference}]
ASSUME NoCaseAssumption == NoCase \notin Case

VARIABLES
  case,          \* the row, or NoCase
  caseRead,      \* the row as each request has read it
  casePc,        \* each request: "new", "read", "done", "notFound" or "killed"
  keys,          \* PII_ENCRYPTION_KEY and kms_key_id: "none", "local" or "kms"
  drafted,       \* what the drafts and PDFs so far showed of the field
  everSealed,    \* history: the local key was set at some time
  caseRestarts

caseVars == <<case, caseRead, casePc, keys, drafted, everSealed, caseRestarts>>

-----------------------------------------------------------------------------
(* The vault                                                                *)

\* is_encrypted: base64 of a blob that begins with the version byte.
IsEncrypted(v) == v \in {"encoded", "sealed", "nested"}

\* encrypt_field; KMSKeyProvider.generate_dek is a coroutine that nobody awaits,
\* so with a KMS key the vault answers None and the field is left as it is.
EncryptField(v) ==
  IF keys # "local" THEN v ELSE IF v = "sealed" THEN "nested" ELSE "sealed"

\* Mutant: whatever the field holds is encrypted.
SealAlways(v) == IF v = "absent" THEN v ELSE EncryptField(v)

\* before_insert and before_update.  (Mapper has no event "after_load": nothing
\* decrypts what is loaded.)
Sealed(v) == IF v = "absent" \/ IsEncrypted(v) THEN v ELSE EncryptField(v)

-----------------------------------------------------------------------------
(* The endpoints                                                            *)

CaseAnswered(r, code) == casePc' = [casePc EXCEPT ![r] = code]

InitiateRecovery(r) ==
  /\ casePc[r] = "new" /\ case = NoCase
  /\ \E v \in {"absent", "plain", "encoded"} :
       case' = [step |-> 1, completed |-> FALSE, pii |-> Sealed(v),
                reference |-> NoReference, receipt |-> NoReference]
  /\ CaseAnswered(r, "done")
  /\ UNCHANGED <<caseRead, keys, drafted, everSealed, caseRestarts>>

ReadCase(r) ==
  /\ casePc[r] = "new"
  /\ caseRead' = [caseRead EXCEPT ![r] = case]
  /\ CaseAnswered(r, IF case = NoCase THEN "notFound" ELSE "read")
  /\ UNCHANGED <<case, keys, drafted, everSealed, caseRestarts>>

\* The ORM writes a column only when the handler has changed what it read.
Stored(read, new, now) == IF new = read THEN now ELSE new

Capped(step) == IF step < TotalSteps THEN step ELSE TotalSteps

\* The last step completes a case; nothing reopens it.
UpdateRecoveryStatus(r, step) ==
  /\ casePc[r] = "read"
  /\ LET old == caseRead[r]
         done == old.completed \/ Capped(step) >= TotalSteps
     IN case' = [case EXCEPT !.step = Stored(old.step, Capped(step), @),
                             !.completed = Stored(old.completed, done, @),
                             !.pii = Stored(old.pii, Sealed(old.pii), @)]
  /\ CaseAnswered(r, "done")
  /\ UNCHANGED <<caseRead, keys, drafted, everSealed, caseRestarts>>

\* The sandbox answers, whatever URL is configured, and makes up a reference for
\* every submission.
SandboxReference(r) == r

\* Files a complaint, a new one each time, and keeps the receipt of the last.
SubmitTo1930(r) ==
  /\ casePc[r] = "read"
  /\ case' = [case EXCEPT !.reference = SandboxReference(r), !.receipt = SandboxReference(r),
                          !.pii = Stored(caseRead[r].pii, Sealed(caseRead[r].pii), @)]
  /\ CaseAnswered(r, "done")
  /\ UNCHANGED <<caseRead, keys, drafted, everSealed, caseRestarts>>

\* Both show a field as it was loaded.  The draft has a placeholder for one that
\* is absent; the PDF has lines to fill in as defaults, but is handed "" instead.
DraftText(v) == IF v = "absent" THEN "placeholder" ELSE v
PdfText(v) == IF v = "absent" THEN "blank" ELSE v

\* complaint-draft and complaint-pdf.
DraftComplaint(r) ==
  /\ casePc[r] = "read"
  /\ \E shown \in {DraftText(caseRead[r].pii), PdfText(caseRead[r].pii)} :
       drafted' = drafted \union {shown}
  /\ CaseAnswered(r, "done")
  /\ UNCHANGED <<case, caseRead, keys, everSealed, caseRestarts>>

\* status and submission-receipt; without a submission the receipt is 404.
ShowCase(r) ==
  /\ casePc[r] = "read"
  /\ \/ CaseAnswered(r, "done")
     \/ caseRead[r].reference = NoReference /\ CaseAnswered(r, "notFound")
  /\ UNCHANGED <<case, caseRead, keys, drafted, everSealed, caseRestarts>>

\* A restart, perhaps with other keys, ends the requests under way.
RestartWithKeys(k) ==
  /\ caseRestarts < MaxCaseRestarts /\ caseRestarts' = caseRestarts + 1
  /\ keys' = k
  /\ everSealed' = (everSealed \/ k = "local")
  /\ casePc' = [r \in CaseRequest |-> IF casePc[r] = "read" THEN "killed" ELSE casePc[r]]
  /\ UNCHANGED <<case, caseRead, drafted>>

-----------------------------------------------------------------------------
CaseInit ==
  /\ case = NoCase
  /\ caseRead = [r \in CaseRequest |-> NoCase]
  /\ casePc = [r \in CaseRequest |-> "new"]
  /\ keys \in {"none", "local", "kms"}
  /\ everSealed = (keys = "local")
  /\ drafted = {} /\ caseRestarts = 0

CaseNext ==
  \/ \E r \in CaseRequest :
       \/ InitiateRecovery(r) \/ ReadCase(r) \/ SubmitTo1930(r)
       \/ DraftComplaint(r) \/ ShowCase(r)
       \/ \E step \in 0..TotalSteps + 1 : UpdateRecoveryStatus(r, step)
  \/ \E k \in {"none", "local", "kms"} : RestartWithKeys(k)

CaseSpec == CaseInit /\ [][CaseNext]_caseVars

-----------------------------------------------------------------------------
(* Properties                                                               *)

CaseTypeOK ==
  /\ case \in Case \union {NoCase}
  /\ caseRead \in [CaseRequest -> Case \union {NoCase}]
  /\ casePc \in [CaseRequest -> {"new", "read", "done", "notFound", "killed"}]
  /\ keys \in {"none", "local", "kms"}
  /\ drafted \subseteq (Pii \ {"absent"}) \union {"placeholder", "blank"} /\ everSealed \in BOOLEAN

\* Through any overlap of updates and submissions and any change of keys, a
\* personal field is encrypted at most once (every update runs the listener on
\* the ciphertext it has loaded, and loading never decrypts), and never before
\* the local key was set; no draft shows a field encrypted twice; a case at its
\* last step is completed, and the stored reference is that of the stored receipt.
CaseStaysWhole ==
  /\ "nested" \notin drafted
  /\ case # NoCase =>
       /\ case.pii # "nested"
       /\ case.pii = "sealed" => everSealed
       /\ case.step <= TotalSteps
       /\ case.step = TotalSteps => case.completed
       /\ case.receipt = case.reference
=============================================================================
