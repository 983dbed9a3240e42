--------------------------- MODULE CommunityIntel ---------------------------
(***************************************************************************)
(* What is known of an entity: the flagged_entities that user reports      *)
(* (backend/app/api/v1/report.py), threat-intel files (services/intel/     *)
(* threat_ingest.py) and the decay task (workers/tasks/                    *)
(* reputation_tasks.py) write (models/entity.py).                          *)
(*                                                                         *)
(* Every handler reads its rows, computes in Python and commits: the ORM   *)
(* writes the columns it has changed, with the values it has computed.     *)
(***************************************************************************)
EXTENDS Integers, FiniteSets, FiniteSetsExt

CONSTANTS
  Suspect,       \* entities, by their type and value
  Report,        \* requests of POST /report
  Reported,      \* the entity each one reports
  Blocklist,     \* the entries of the threat-intel file
  NoRow,         \* no row, or nothing read
  MaxDecays      \* bound: runs of the decay task

CONFIRMATION_THRESHOLD == 3

ASSUME ReportedAssumption == Reported \in [Report -> Suspect] /\ Report \cap Suspect = {}
ASSUME BlocklistAssumption == Blocklist \subseteq Suspect
ASSUME IntelBoundAssumption == MaxDecays \in Nat

\* flagged_entities: recent says whether last_seen is within the decay window.
Flagged == [count : Nat, confirmed : BOOLEAN, recent : BOOLEAN,
            source : {"user_report", "threat_intel"}]
ASSUME NoRowAssumption == NoRow \notin Flagged

VARIABLES
  flagged,    \* the rows of flagged_entities
  orphans,    \* entity_reports rows without an entity_id
  reportPc,   \* each report: "new", "read", "accepted" or "failed"
  rowRead,    \* the row each report, and each decay, has read
  ingest,     \* the threat-intel task: "idle", or "adding" after its reads
  toAdd,      \* the entries it found no row for
  decay,      \* the decay task: "idle" or "writing"
  decays      \* its runs so far

reportVars == <<orphans, reportPc>>
taskVars == <<ingest, toAdd, decay, decays>>
intelVars == <<flagged, reportVars, rowRead, taskVars>>

-----------------------------------------------------------------------------
(* Reports                                                                  *)

ReadFlagged(p) ==
  /\ reportPc[p] = "new"
  /\ rowRead' = [rowRead EXCEPT ![p] = flagged[Reported[p]]]
  /\ reportPc' = [reportPc EXCEPT ![p] = "read"]
  /\ UNCHANGED <<flagged, orphans, taskVars>>

\* A column whose value the handler leaves as it read it is not written.
Written(read, new, now) == IF new = read THEN now ELSE new

\* Mutant: the threshold is one too low.
ConfirmOneEarly(read, now) ==
  [now EXCEPT !.count = read.count + 1, !.recent = TRUE,
              !.confirmed = @ \/ read.count + 2 >= CONFIRMATION_THRESHOLD]

\* The row after one more report.
Counted(read, now) ==
  [now EXCEPT !.count = read.count + 1, !.recent = TRUE,
              !.confirmed = Written(read.confirmed,
                 read.confirmed \/ read.count + 1 >= CONFIRMATION_THRESHOLD, @)]

\* The first report of an entity inserts it; the report's entity_id is taken
\* before the insert has given the row its id.
CommitReport(p) ==
  /\ reportPc[p] = "read"
  /\ LET e == Reported[p]
     IN \/ /\ rowRead[p] # NoRow
           /\ flagged' = [flagged EXCEPT ![e] = Counted(rowRead[p], @)]
           /\ UNCHANGED orphans
        \/ /\ rowRead[p] = NoRow /\ flagged[e] = NoRow
           /\ flagged' = [flagged EXCEPT ![e] =
                [count |-> 1, confirmed |-> FALSE, recent |-> TRUE, source |-> "user_report"]]
           /\ orphans' = orphans \union {p}
  /\ reportPc' = [reportPc EXCEPT ![p] = "accepted"]
  /\ rowRead' = [rowRead EXCEPT ![p] = NoRow]
  /\ UNCHANGED <<taskVars>>

\* entity_value is unique: of two first reports the second is rolled back, 500.
SecondInsert(p) ==
  /\ reportPc[p] = "read" /\ rowRead[p] = NoRow /\ flagged[Reported[p]] # NoRow
  /\ reportPc' = [reportPc EXCEPT ![p] = "failed"]
  /\ UNCHANGED <<flagged, orphans, rowRead, taskVars>>

-----------------------------------------------------------------------------
(* Tasks                                                                    *)

\* _ingest_entries looks each entry up, and adds the unknown ones with one
\* commit.
ReadBlocklist ==
  /\ ingest = "idle"
  /\ toAdd' = {e \in Blocklist : flagged[e] = NoRow}
  /\ ingest' = "adding"
  /\ UNCHANGED <<flagged, reportVars, rowRead, decay, decays>>

\* A row inserted meanwhile fails the whole file.
AddBlocklist ==
  /\ ingest = "adding"
  /\ flagged' = IF \E e \in toAdd : flagged[e] # NoRow THEN flagged
                ELSE [e \in Suspect |-> IF e \in toAdd
                       THEN [count |-> 1, confirmed |-> TRUE, recent |-> TRUE,
                             source |-> "threat_intel"]
                       ELSE flagged[e]]
  /\ ingest' = "idle" /\ toAdd' = {}
  /\ UNCHANGED <<reportVars, rowRead, decay, decays>>

\* last_seen leaves the window of reputation_decay_days.
Age(e) ==
  /\ flagged[e] # NoRow /\ flagged[e].recent
  /\ flagged' = [flagged EXCEPT ![e].recent = FALSE]
  /\ UNCHANGED <<reportVars, rowRead, taskVars>>

\* _reputation_decay reads the rows that are due.
ReadDecayed ==
  /\ decay = "idle" /\ decays < MaxDecays
  /\ rowRead' = [x \in DOMAIN rowRead |->
       IF x \notin Suspect THEN rowRead[x]
       ELSE IF flagged[x] # NoRow /\ ~ flagged[x].recent /\ flagged[x].count > 0
            THEN flagged[x] ELSE NoRow]
  /\ decay' = "writing" /\ decays' = decays + 1
  /\ UNCHANGED <<flagged, reportVars, ingest, toAdd>>

\* An entity decayed to no report is no longer confirmed.
Decayed(read, now) ==
  [now EXCEPT !.count = read.count - 1,
              !.confirmed = Written(read.confirmed, read.confirmed /\ read.count > 1, @)]

WriteDecayed ==
  /\ decay = "writing"
  /\ flagged' = [e \in Suspect |->
       IF rowRead[e] # NoRow THEN Decayed(rowRead[e], flagged[e]) ELSE flagged[e]]
  /\ rowRead' = [x \in DOMAIN rowRead |-> IF x \in Suspect THEN NoRow ELSE rowRead[x]]
  /\ decay' = "idle"
  /\ UNCHANGED <<reportVars, ingest, toAdd, decays>>

-----------------------------------------------------------------------------
IntelInit ==
  /\ flagged = [e \in Suspect |-> NoRow]
  /\ orphans = {}
  /\ reportPc = [p \in Report |-> "new"]
  /\ rowRead = [x \in Report \union Suspect |-> NoRow]
  /\ ingest = "idle" /\ toAdd = {}
  /\ decay = "idle" /\ decays = 0

IntelNext ==
  \/ \E p \in Report : ReadFlagged(p) \/ CommitReport(p) \/ SecondInsert(p)
  \/ ReadBlocklist \/ AddBlocklist \/ ReadDecayed \/ WriteDecayed
  \/ \E e \in Suspect : Age(e)

IntelSpec == IntelInit /\ [][IntelNext]_intelVars

-----------------------------------------------------------------------------
(* Properties                                                               *)

IntelTypeOK ==
  /\ flagged \in [Suspect -> Flagged \union {NoRow}]
  /\ orphans \subseteq Report
  /\ reportPc \in [Report -> {"new", "read", "accepted", "failed"}]
  /\ rowRead \in [Report \union Suspect -> Flagged \union {NoRow}]
  /\ toAdd \subseteq Suspect

\* Reports of an entity that were answered 201.
AcceptedReports(e) == Cardinality({p \in Report : reportPc[p] = "accepted" /\ Reported[p] = e})

\* However reports, decay and the threat-intel file interleave, an entity shows
\* no more reports than were accepted (and one for a threat-intel entry), and a
\* reported one is confirmed only after three: the lost updates of report.py:97-104
\* and reputation_tasks.py:57-66 lose reports and never add any.
ReputationIsBacked ==
  \A e \in Suspect : flagged[e] # NoRow =>
    LET listed == IF flagged[e].source = "threat_intel" THEN 1 ELSE 0
    IN /\ flagged[e].count <= AcceptedReports(e) + listed
       /\ flagged[e].confirmed =>
            listed = 1 \/ AcceptedReports(e) >= CONFIRMATION_THRESHOLD
=============================================================================
