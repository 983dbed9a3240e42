----------------------------- MODULE AuditChain -----------------------------
(***************************************************************************)
(* The hash-chained audit log: the middleware that writes one entry for    *)
(* every state-changing request, the verification of the chain, the SLA    *)
(* engine's own view of it and the break records of the nightly job        *)
(* (backend/app/middleware/audit.py, services/audit/, services/            *)
(* governance/sla.py).                                                     *)
(*                                                                         *)
(* Requests are served concurrently and each audit entry is written in a   *)
(* database transaction of its own: the previous hash is READ, the row is  *)
(* FLUSHED (which allocates its id) and the transaction is COMMITTED, with *)
(* other requests between any two of these steps.  PostgreSQL's READ       *)
(* COMMITTED isolation and its sequences are what the steps rely on: a     *)
(* read sees committed rows only, and an id, once allocated, is not given  *)
(* out again, so ids are allocated in flush order and may commit in any.   *)
(*                                                                         *)
(* SHA-256 is an ideal hash.  Every payload holds the request's own action *)
(* and timestamp, so a hash identifies the request whose entry it is:      *)
(* the hash of r's entry is r, and a recomputed hash equals the stored one *)
(* exactly when every hashed field is unchanged.                           *)
(***************************************************************************)
EXTENDS Integers, FiniteSets

CONSTANTS
  Request,     \* state-changing requests, one audit entry each
  Anonymous,   \* those without a user: middleware and jobs pass user_id = 0
  Genesis,     \* prev_hash of an entry written into an empty log
  MaxTamper    \* bound: rows edited or removed behind the application's back

ASSUME GenesisAssumption == Genesis \notin Request
ASSUME AnonymousAssumption == Anonymous \subseteq Request
ASSUME TamperAssumption == MaxTamper \in Nat

VARIABLES
  pc,          \* where each request's audit write stands
  link,        \* prev_hash of r's entry: the request whose hash it is
  id,          \* primary key of r's row, 0 before the flush
  nextId,      \* the id sequence of audit_logs
  late,        \* entries whose created_at differs from the hashed timestamp
  edited,      \* rows with a hashed column changed after they were written
  removed,     \* rows deleted after they were written
  breaks       \* audit_chain_breaks; identical rows count once

vars == <<pc, link, id, nextId, late, edited, removed, breaks>>

Hash == Request \union {Genesis}
Break == [entry : Request, resolved : BOOLEAN]

\* The committed rows: what every SELECT on audit_logs ranges over.
Log == {r \in Request : pc[r] = "committed"} \ removed

-----------------------------------------------------------------------------
(* write_audit, run by AuditMiddleware.dispatch after the response          *)

\* Mutant: rows of open transactions are read too.
DirtyIsLastHash(h) ==
  LET Seen == {r \in Request : pc[r] \in {"flushed", "committed"}} \ removed
  IN  IF Seen = {} THEN h = Genesis
      ELSE h \in Seen /\ \A s \in Seen : id[s] <= id[h]

\* get_last_hash: entry_hash of the committed row with the highest id.
IsLastHash(h) ==
  IF Log = {} THEN h = Genesis
  ELSE h \in Log /\ \A s \in Log : id[s] <= id[h]

ReadLastHash(r) ==
  /\ pc[r] = "served"
  /\ \E h \in Hash : IsLastHash(h) /\ link' = [link EXCEPT ![r] = h]
  /\ pc' = [pc EXCEPT ![r] = "read"]
  /\ UNCHANGED <<id, nextId, late, edited, removed, breaks>>

\* The entry is hashed with one now() and stored with another: whether the two
\* are the same microsecond is up to the clock.
FlushEntry(r) ==
  /\ pc[r] = "read"
  /\ id' = [id EXCEPT ![r] = nextId]
  /\ nextId' = nextId + 1
  /\ late' \in {late, late \union {r}}
  /\ pc' = [pc EXCEPT ![r] = "flushed"]
  /\ UNCHANGED <<link, edited, removed, breaks>>

CommitEntry(r) ==
  /\ pc[r] = "flushed"
  /\ pc' = [pc EXCEPT ![r] = "committed"]
  /\ UNCHANGED <<link, id, nextId, late, edited, removed, breaks>>

\* Any exception (no database, a path too long for action's 50 characters, a
\* failed commit) is logged at debug level and the entry is never retried.
AuditWriteSkipped(r) ==
  /\ pc[r] \in {"served", "read", "flushed"}
  /\ pc' = [pc EXCEPT ![r] = "skipped"]
  /\ UNCHANGED <<link, id, nextId, late, edited, removed, breaks>>

-----------------------------------------------------------------------------
(* verify_chain, over the rows W that its id range selects                  *)

\* Mutant: each row is checked against its own prev_hash column.
OwnColumnMatches(W, r) == r \in W

\* The loop's running prev_hash is the hash of the row before r in W, or
\* genesis at the first one; r's own prev_hash column is not consulted.
CursorMatches(W, r) ==
  IF link[r] = Genesis
  THEN \A s \in W : id[s] >= id[r]
  ELSE /\ link[r] \in W
       /\ id[link[r]] < id[r]
       /\ \A s \in W : ~ (id[link[r]] < id[s] /\ id[s] < id[r])

\* User 0 is hashed as "0" and recomputed as "": str(entry.user_id or "").
EntryVerifies(W, r) ==
  /\ CursorMatches(W, r)
  /\ r \notin late \union Anonymous \union edited

Window(from) == {r \in Log : id[r] >= from}
ChainValid == \A r \in Log : EntryVerifies(Log, r)

IsFirstBad(r) ==
  /\ r \in Log /\ ~ EntryVerifies(Log, r)
  /\ \A s \in Log : id[s] < id[r] => EntryVerifies(Log, s)

\* Mutant: the first row of the month is compared with genesis.
CleanFromTheFirstRow(W) == \A r \in W : CursorMatches(W, r)

\* compute_sla_attainment compares neighbouring rows only, and skips a row
\* whose prev_hash is null.
AuditClean(W) ==
  \A r \in W : (link[r] # Genesis /\ \E s \in W : id[s] < id[r]) => CursorMatches(W, r)

\* Mutant: the break names the row that the bad one is chained to.
BreakNamesPredecessor ==
  /\ \E r \in Request :
       IsFirstBad(r) /\ breaks' = breaks \union {[entry |-> link[r], resolved |-> FALSE]}
  /\ UNCHANGED <<pc, link, id, nextId, late, edited, removed>>

\* run_audit_verification: nothing is stored for a valid chain, and a row per
\* run for a broken one.
RunAuditVerification ==
  /\ \E r \in Request : IsFirstBad(r) /\ breaks' = breaks \union {[entry |-> r, resolved |-> FALSE]}
  /\ UNCHANGED <<pc, link, id, nextId, late, edited, removed>>

AckAuditBreak ==
  /\ \E b \in breaks :
       /\ ~ b.resolved
       /\ breaks' = (breaks \ {b}) \union {[entry |-> b.entry, resolved |-> TRUE]}
  /\ UNCHANGED <<pc, link, id, nextId, late, edited, removed>>

-----------------------------------------------------------------------------
(* Changes made behind the application's back, which the chain must show    *)

EditRow(r) ==
  /\ r \in Log \ edited
  /\ Cardinality(edited \union removed) < MaxTamper
  /\ edited' = edited \union {r}
  /\ UNCHANGED <<pc, link, id, nextId, late, removed, breaks>>

RemoveRow(r) ==
  /\ r \in Log
  /\ Cardinality(edited \union removed) < MaxTamper
  /\ removed' = removed \union {r}
  /\ UNCHANGED <<pc, link, id, nextId, late, edited, breaks>>

-----------------------------------------------------------------------------
Init ==
  /\ pc = [r \in Request |-> "served"]
  /\ link = [r \in Request |-> Genesis]
  /\ id = [r \in Request |-> 0]
  /\ nextId = 1
  /\ late = {} /\ edited = {} /\ removed = {} /\ breaks = {}

Next ==
  \/ \E r \in Request :
       \/ ReadLastHash(r) \/ FlushEntry(r) \/ CommitEntry(r)
       \/ AuditWriteSkipped(r) \/ EditRow(r) \/ RemoveRow(r)
  \/ RunAuditVerification
  \/ AckAuditBreak

Spec == Init /\ [][Next]_vars

-----------------------------------------------------------------------------
(* Properties                                                               *)

\* Every variable ranges over the values the tables and the write can hold.
TypeOK ==
  /\ pc \in [Request -> {"served", "read", "flushed", "committed", "skipped"}]
  /\ link \in [Request -> Hash]
  /\ id \in [Request -> Nat]
  /\ nextId \in Nat \ {0}
  /\ late \subseteq Request /\ edited \subseteq Request /\ removed \subseteq Request
  /\ breaks \subseteq Break

\* However writes interleave, fail and commit out of order, an entry is chained
\* to the start of the log or to an entry that was committed and has a smaller
\* id: the log is a tree rooted at genesis and never holds a dangling link or a
\* cycle (write_audit, get_last_hash).
LinksPointBack ==
  \A r \in Request : link[r] # Genesis =>
    /\ pc[link[r]] = "committed"
    /\ pc[r] \in {"flushed", "committed"} => id[link[r]] < id[r]

\* Two entries were chained to the same one: their transactions overlapped.
Forked == \E r, s \in Log : r # s /\ link[r] = link[s]
Tampered == edited # {} \/ removed # {}

\* verify_chain raises no alarm without one of these causes: a row was changed
\* or removed, two writes overlapped, an entry's two timestamps differ or an
\* entry has no user.
AlarmsHaveACause ==
  ChainValid \/ Tampered \/ Forked \/ Log \intersect (late \union Anonymous) # {}

\* A log that verifies holds no edited row, and a removed row has left no
\* survivor that was chained to it: only the end of the log can go unnoticed.
TamperEvident ==
  ChainValid => /\ Log \intersect edited = {}
                /\ \A r \in Log : link[r] \notin removed

\* verify_chain on a range that starts inside a valid log reports exactly its
\* first entry as broken, since it restarts from genesis there.
WindowReportsItsFirstEntry ==
  ChainValid => \A from \in 1..nextId : \A r \in Window(from) :
    EntryVerifies(Window(from), r) <=>
      (\E s \in Window(from) : id[s] < id[r]) \/ link[r] = Genesis

\* The SLA report never calls a log dirty that verify_chain finds valid,
\* whatever range of ids its month covers.
SlaAgreesWithValidChain ==
  ChainValid => \A from, to \in 1..nextId :
    AuditClean({r \in Window(from) : id[r] <= to})

\* Entries that commit later with smaller ids cannot explain a recorded break
\* away: while no row is removed, the entry of every break record still fails
\* (run_audit_verification, "A break must NOT be auto-corrected").
BreaksStayBroken ==
  removed = {} => \A b \in breaks : b.entry \in Log /\ ~ EntryVerifies(Log, b.entry)

\* No later write repairs a broken log: it verifies again only if rows are
\* taken out of it.
BrokenStaysBroken == [][removed' = removed /\ ~ ChainValid => ~ ChainValid']_vars

\* The comment in write_audit: hash and row use the same timestamp "so
\* verify_chain can recompute the hash exactly".  It must then accept a log
\* written by one request at a time, each with a user, and left alone.
RecomputableWhenSerial ==
  Tampered \/ Forked \/ Log \intersect Anonymous # {} \/ ChainValid
=============================================================================
