----------------------------- MODULE SqliteConn -----------------------------
(***************************************************************************)
(* The one sqlite3 connection of the server (server/main.cpp opens a       *)
(* single Database and hands it to every handler, the audit log and the    *)
(* Plaid scheduler).  SQLite itself is external: these operators are what  *)
(* the code relies on when it calls sqlite3_exec and sqlite3_step on a     *)
(* serialized connection in rollback-journal mode.                         *)
(*                                                                         *)
(*   inTxn    a BEGIN IMMEDIATE is open on the connection                  *)
(*   live     what a statement on this connection reads and writes         *)
(*   disk     what survives a ROLLBACK or a crash                          *)
(*   changes  sqlite3_changes(): rows touched by the last finished write   *)
(*   fileLock the lock another process (the admin CLI) has on the file     *)
(*                                                                         *)
(* A transaction belongs to the connection, not to the thread that opened  *)
(* it: nothing here knows which request is calling.                        *)
(***************************************************************************)
VARIABLES inTxn, live, disk, changes, fileLock

connVars == <<inTxn, live, disk, changes>>

FileLocks == {"none", "shared", "reserved"}

ConnInit(image) ==
  /\ inTxn = FALSE
  /\ live = image
  /\ disk = image
  /\ changes = 0

\* BEGIN IMMEDIATE fails inside a transaction, and with SQLITE_BUSY when
\* another process is writing (no busy_timeout is ever set).
BeginOK == ~inTxn /\ fileLock # "reserved"

Begin ==
  /\ inTxn' = TRUE
  /\ UNCHANGED <<live, disk, changes>>

\* COMMIT fails outside a transaction, and with SQLITE_BUSY when another
\* process is reading; a busy COMMIT leaves the transaction open.
CommitOK == inTxn /\ fileLock # "shared"

Commit ==
  /\ inTxn' = FALSE
  /\ disk' = live
  /\ UNCHANGED <<live, changes>>

\* ROLLBACK takes back everything written since BEGIN, whoever wrote it.
\* Outside a transaction it fails, and live = disk already.
Rollback ==
  /\ inTxn' = FALSE
  /\ live' = disk
  /\ UNCHANGED <<disk, changes>>

\* Outside a transaction a write commits by itself and needs the file lock.
WriteOK == inTxn \/ fileLock = "none"

Write(image, rows) ==
  /\ live' = image
  /\ disk' = IF inTxn THEN disk ELSE image
  /\ changes' = rows
  /\ UNCHANGED inTxn

\* A refused write changes nothing.  When it could not even start, because
\* another process is writing, sqlite3_changes still tells of the write before.
WriteFails ==
  /\ changes' = IF ~inTxn /\ fileLock = "reserved" THEN changes ELSE 0
  /\ UNCHANGED <<inTxn, live, disk>>

\* Outside a transaction a SELECT may also be refused while another process
\* commits; callers that test for SQLITE_ROW then see "no row".
ReadMayFail == ~inTxn /\ fileLock = "reserved"

\* The process dies: the connection is gone and its open transaction with it.
ConnCrash ==
  /\ inTxn' = FALSE
  /\ live' = disk
  /\ changes' = 0
  /\ UNCHANGED disk
=============================================================================
