---------------------------- MODULE BankNetwork ----------------------------
(***************************************************************************)
(* The cross-bank intelligence network (backend/app/api/v1/intel.py over   *)
(* the tables of models/intel.py): banks register under a unique code, and *)
(* share reports of an entity, whose joint risk is computed after each.    *)
(***************************************************************************)
EXTENDS Integers, FiniteSets

CONSTANTS
  BankRequest,  \* requests of POST /intel/register-bank
  BankCode,     \* the codes they may ask for
  Share,        \* requests of POST /intel/share-entity, about one entity
  NoBank        \* no bank: not registered, or not yet asked

VARIABLES
  bankPc,     \* each registration: "new", "free", "registered" or "refused"
  codeOf,     \* the code each one asks for, or NoBank
  bankRows,   \* the registrations that have an intel_banks row
  sharer,     \* the registration whose key each share uses
  sharedRow,  \* the entity has an intel_shared_entities row
  bankReports,\* intel_cross_bank_reports, by the request that wrote them
  sharePc,    \* where each share stands
  rowSeen,    \* the share found the row when it looked
  counted,    \* the reports its score was computed from
  stored      \* the reports the row's totals and score stand for

registerVars == <<bankPc, codeOf, bankRows, sharer>>
shareVars == <<sharedRow, bankReports, sharePc, rowSeen, counted, stored>>
bankVars == <<registerVars, shareVars>>

-----------------------------------------------------------------------------
(* Registration                                                             *)

\* A known code is answered 400.
LookUpCode(b) ==
  /\ bankPc[b] = "new"
  /\ \E code \in BankCode :
       /\ codeOf' = [codeOf EXCEPT ![b] = code]
       /\ bankPc' = [bankPc EXCEPT ![b] =
            IF \E o \in bankRows : codeOf[o] = code THEN "refused" ELSE "free"]
  /\ UNCHANGED <<bankRows, sharer, shareVars>>

\* bank_code is unique: of two registrations at once the second fails.
InsertBank(b) ==
  /\ bankPc[b] = "free"
  /\ LET taken == \E o \in bankRows : codeOf[o] = codeOf[b]
     IN /\ bankRows' = IF taken THEN bankRows ELSE bankRows \union {b}
        /\ bankPc' = [bankPc EXCEPT ![b] = IF taken THEN "refused" ELSE "registered"]
  /\ UNCHANGED <<codeOf, sharer, shareVars>>

-----------------------------------------------------------------------------
(* Sharing                                                                  *)

\* verify_bank_api_key finds the bank of the key, or answers 401.
VerifyKey(s) ==
  /\ sharePc[s] = "new"
  /\ \/ \E b \in bankRows :
          /\ sharer' = [sharer EXCEPT ![s] = b]
          /\ sharePc' = [sharePc EXCEPT ![s] = "verified"]
     \/ /\ sharePc' = [sharePc EXCEPT ![s] = "refused"]
        /\ UNCHANGED sharer
  /\ UNCHANGED <<bankPc, codeOf, bankRows, sharedRow, bankReports, rowSeen, counted, stored>>

ReadShared(s) ==
  /\ sharePc[s] = "verified"
  /\ rowSeen' = [rowSeen EXCEPT ![s] = sharedRow]
  /\ sharePc' = [sharePc EXCEPT ![s] = "sharing"]
  /\ UNCHANGED <<registerVars, sharedRow, bankReports, counted, stored>>

\* The flush of a new row takes its unique hash until the transaction ends; a
\* second insert waits for it, and fails when it has committed.
Inserts(s) == sharePc[s] = "inserted" /\ ~ rowSeen[s]
FlushShared(s) ==
  /\ sharePc[s] = "sharing"
  /\ rowSeen[s] \/ ~ \E q \in Share : Inserts(q)
  /\ sharePc' = [sharePc EXCEPT ![s] = IF ~ rowSeen[s] /\ sharedRow THEN "failed" ELSE "inserted"]
  /\ UNCHANGED <<registerVars, sharedRow, bankReports, rowSeen, counted, stored>>

CommitShare(s) ==
  /\ sharePc[s] = "inserted"
  /\ sharedRow' = TRUE
  /\ bankReports' = bankReports \union {s}
  /\ sharePc' = [sharePc EXCEPT ![s] = "shared"]
  /\ UNCHANGED <<registerVars, rowSeen, counted, stored>>

\* Mutant: the score is computed before the share's own report is committed.
ScoreBeforeCommit(s) ==
  /\ sharePc[s] = "shared"
  /\ counted' = [counted EXCEPT ![s] = bankReports \ {s}]
  /\ sharePc' = [sharePc EXCEPT ![s] = "scored"]
  /\ UNCHANGED <<registerVars, sharedRow, bankReports, rowSeen, stored>>

\* _compute_cross_bank_risk reads all reports of the entity ...
ComputeBankRisk(s) ==
  /\ sharePc[s] = "shared"
  /\ counted' = [counted EXCEPT ![s] = bankReports]
  /\ sharePc' = [sharePc EXCEPT ![s] = "scored"]
  /\ UNCHANGED <<registerVars, sharedRow, bankReports, rowSeen, stored>>

\* ... and the second commit stores what they come to, over what another share
\* may have stored meanwhile.
StoreBankRisk(s) ==
  /\ sharePc[s] = "scored"
  /\ stored' = counted[s]
  /\ sharePc' = [sharePc EXCEPT ![s] = "done"]
  /\ UNCHANGED <<registerVars, sharedRow, bankReports, rowSeen, counted>>

-----------------------------------------------------------------------------
BankInit ==
  /\ bankPc = [b \in BankRequest |-> "new"]
  /\ codeOf = [b \in BankRequest |-> NoBank]
  /\ bankRows = {}
  /\ sharer = [s \in Share |-> NoBank]
  /\ sharedRow = FALSE /\ bankReports = {}
  /\ sharePc = [s \in Share |-> "new"]
  /\ rowSeen = [s \in Share |-> FALSE]
  /\ counted = [s \in Share |-> {}]
  /\ stored = {}

BankNext ==
  \/ \E b \in BankRequest : LookUpCode(b) \/ InsertBank(b)
  \/ \E s \in Share : \/ VerifyKey(s) \/ ReadShared(s) \/ FlushShared(s)
                       \/ CommitShare(s) \/ ComputeBankRisk(s) \/ StoreBankRisk(s)

BankSpec == BankInit /\ [][BankNext]_bankVars

-----------------------------------------------------------------------------
(* Properties                                                               *)

BankTypeOK ==
  /\ bankPc \in [BankRequest -> {"new", "free", "registered", "refused"}]
  /\ codeOf \in [BankRequest -> BankCode \union {NoBank}]
  /\ bankRows \subseteq BankRequest
  /\ sharer \in [Share -> BankRequest \union {NoBank}]
  /\ sharedRow \in BOOLEAN
  /\ bankReports \subseteq Share /\ stored \subseteq Share
  /\ sharePc \in [Share -> {"new", "refused", "verified", "sharing", "inserted", "failed",
                            "shared", "scored", "done"}]

\* The answer to a bank's share counts the report it made, and every report the
\* row's totals stand for is one a bank has made; two shares at once may leave
\* totals without one of theirs (intel.py:119-123).
SharesCountThemselves ==
  /\ \A s \in Share : sharePc[s] \in {"scored", "done"} => s \in counted[s]
  /\ stored \subseteq bankReports
  /\ (\A s \in Share : sharePc[s] \in {"new", "refused", "done", "failed"}) /\ bankReports # {} => stored # {}
=============================================================================
