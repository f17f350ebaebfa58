------------------------------ MODULE AuditLog ------------------------------
(***************************************************************************)
(* SqlAuditLog::record and append_locked (server/audit/SqlAuditLog.cpp),   *)
(* one action per call on the shared connection.  A caller enters with     *)
(* CallAudit, naming the event and the labels at which it goes on when     *)
(* record returns and when it throws.                                      *)
(***************************************************************************)
EXTENDS SqliteConn, Integers, Sequences

CONSTANTS Requests,  \* the HTTP requests of the run, each served by a thread
          NoOne      \* no holder of mu_

ASSUME RequestsAssumption == NoOne \notin Requests

VARIABLES pc,    \* pc[r]: the step request r is at
          mu,    \* holder of SqlAuditLog::mu_
          call,  \* call[r]: the record() call r is in
          head   \* head[r]: prev_hash and head seq that append_locked has read

auditVars == <<pc, mu, call, head>>

NoCall == [evt |-> <<>>, ok |-> "none", fail |-> "none"]
NoHead == [seq |-> 0, hash |-> <<>>]

-----------------------------------------------------------------------------
(* The table audit_log is a function from seq (its primary key) to rows.   *)

\* BLAKE2b-256 of the canonical bytes is taken to be collision free: the
\* hash of a row is the list of everything it commits to.
EntryHash(seq, evt, prev) == Append(prev, <<seq, evt>>)

Row(seq, evt, prev) ==
  [evt |-> evt, prev |-> prev, hash |-> EntryHash(seq, evt, prev)]

AddRow(table, seq, row) ==
  [s \in DOMAIN table \union {seq} |-> IF s = seq THEN row ELSE table[s]]

\* SELECT seq, entry_hash ... ORDER BY seq DESC LIMIT 1
LastSeq(table) ==
  CHOOSE s \in DOMAIN table : \A t \in DOMAIN table : t <= s

HeadOfNoHash(table) ==
  IF DOMAIN table = {} THEN NoHead ELSE [seq |-> LastSeq(table), hash |-> <<>>]

HeadOf(table) ==
  IF DOMAIN table = {} THEN NoHead
  ELSE [seq |-> LastSeq(table), hash |-> table[LastSeq(table)].hash]

-----------------------------------------------------------------------------
Goto(r, label) == pc' = [pc EXCEPT ![r] = label]

CallAudit(r, evt, ok, fail) ==
  /\ call' = [call EXCEPT ![r] = [evt |-> evt, ok |-> ok, fail |-> fail]]
  /\ Goto(r, "aud_lock")
  /\ UNCHANGED <<mu, head>>

\* The lock_guard goes out of scope: record returns or throws to the caller.
Leave(r, label) ==
  /\ mu' = NoOne
  /\ call' = [call EXCEPT ![r] = NoCall]
  /\ head' = [head EXCEPT ![r] = NoHead]
  /\ Goto(r, label)

AudLock(r) ==
  /\ pc[r] = "aud_lock"
  /\ mu = NoOne
  /\ mu' = r
  /\ Goto(r, "aud_begin")
  /\ UNCHANGED <<connVars, call, head>>

AudBeginKeepsLock(r) ==
  /\ pc[r] = "aud_begin"
  /\ IF BeginOK
     THEN Begin /\ Goto(r, "aud_read") /\ UNCHANGED <<mu, call, head>>
     ELSE Goto(r, call[r].fail) /\ UNCHANGED <<connVars, mu, call, head>>

\* The BEGIN stands before the try block: when it throws, nothing is rolled back.
AudBegin(r) ==
  /\ pc[r] = "aud_begin"
  /\ IF BeginOK
     THEN Begin /\ Goto(r, "aud_read") /\ UNCHANGED <<mu, call, head>>
     ELSE Leave(r, call[r].fail) /\ UNCHANGED connVars

\* Any result but SQLITE_ROW is taken for an empty table.
AudRead(r) ==
  /\ pc[r] = "aud_read"
  /\ \/ head' = [head EXCEPT ![r] = HeadOf(live.audit)]
     \/ ReadMayFail /\ head' = [head EXCEPT ![r] = NoHead]
  /\ Goto(r, "aud_insert")
  /\ UNCHANGED <<connVars, mu, call>>

InsertRow(r, seq) ==
  Write([live EXCEPT !.audit =
           AddRow(live.audit, seq, Row(seq, call[r].evt, head[r].hash))], 1)

\* An upsert that forgets to advance the sequence number.
AudInsertReplaces(r) ==
  /\ pc[r] = "aud_insert"
  /\ IF WriteOK
     THEN InsertRow(r, IF head[r].seq = 0 THEN 1 ELSE head[r].seq)
          /\ Goto(r, "aud_commit")
     ELSE WriteFails /\ Goto(r, "aud_rollback")
  /\ UNCHANGED <<mu, call, head>>

\* The INSERT binds seq explicitly, so the primary key refuses a stale head.
AudInsert(r) ==
  /\ pc[r] = "aud_insert"
  /\ LET seq == head[r].seq + 1
     IN  IF WriteOK /\ seq \notin DOMAIN live.audit
         THEN InsertRow(r, seq) /\ Goto(r, "aud_commit")
         ELSE WriteFails /\ Goto(r, "aud_rollback")
  /\ UNCHANGED <<mu, call, head>>

AudCommit(r) ==
  /\ pc[r] = "aud_commit"
  /\ IF CommitOK
     THEN Commit /\ Leave(r, call[r].ok)
     ELSE Goto(r, "aud_rollback") /\ UNCHANGED <<connVars, mu, call, head>>

\* The catch block: roll back whatever is open, rethrow.
AudRollback(r) ==
  /\ pc[r] = "aud_rollback"
  /\ Rollback
  /\ Leave(r, call[r].fail)

AuditStep(r) ==
  \/ AudLock(r) \/ AudBegin(r) \/ AudRead(r)
  \/ AudInsert(r) \/ AudCommit(r) \/ AudRollback(r)

\* The steps at which a request holds mu_, and of these the ones inside the
\* transaction that append_locked opened.
AudTxnLabels == {"aud_read", "aud_insert", "aud_commit", "aud_rollback"}
HoldsMu == {"aud_begin"} \union AudTxnLabels

-----------------------------------------------------------------------------
(* What verify_chain (tests/test_audit_replay.cpp) checks of a stored chain. *)
ChainLinear(table) ==
  /\ HeadOf(table).seq \in Nat
  /\ DOMAIN table = 1 .. HeadOf(table).seq
  /\ \A s \in DOMAIN table :
       /\ table[s].prev = IF s = 1 THEN <<>> ELSE table[s - 1].hash
       /\ table[s].hash = EntryHash(s, table[s].evt, table[s].prev)
=============================================================================
