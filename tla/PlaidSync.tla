------------------------------ MODULE PlaidSync ------------------------------
(***************************************************************************)
(* PlaidSyncScheduler (server/plaid): the worker thread that syncs every   *)
(* linked account in turn, and POST /accounts/:id/sync, which runs the     *)
(* same sync_account on a thread of the pool.  Plaid keeps, per account,   *)
(* the versions of its transaction list; a cursor is a version number, and *)
(* 0 the empty cursor.  Every INSERT, UPDATE and DELETE is an autocommit   *)
(* statement on the shared connection, and so part of any transaction that *)
(* a handler happens to have open.  The audit table is module AuditLog;    *)
(* here record() returns or throws.                                        *)
(***************************************************************************)
EXTENDS SqliteConn, Integers, Sequences

CONSTANTS Accounts, Txs, Vals,
          None,       \* no such transaction
          AccountOf,  \* AccountOf[t]: the account t belongs to
          Worker,     \* the scheduler's thread
          Requests,   \* force-sync requests
          NoToken,    \* accounts whose encrypted_token is NULL
          BadToken,   \* accounts whose token does not decrypt
          MaxVersions, MaxCrashes,  \* bounds
          TakeTurns,  \* callers never sync one account twice at once
          Foreign,    \* do other handlers run transactions meanwhile?
          CliEnabled  \* is the admin CLI used meanwhile?

NoAccount == "none"

ASSUME SyncAssumption ==
  /\ NoAccount \notin Accounts
  /\ AccountOf \in [Txs -> Accounts]
  /\ None \notin Vals
  /\ Worker \notin Requests
  /\ NoToken \subseteq Accounts /\ BadToken \subseteq Accounts
  /\ MaxVersions \in Nat /\ MaxCrashes \in Nat
  /\ TakeTurns \in BOOLEAN /\ Foreign \in BOOLEAN /\ CliEnabled \in BOOLEAN

VARIABLES bank,     \* bank[a]: the versions of a's transaction list at Plaid
          pc, acct, \* acct[s]: the account that s is syncing
          from,     \* from[s]: the cursor that s has read
          page,     \* page[s]: what is left to apply of Plaid's answer
          todo,     \* account ids the worker has still to visit
          stopping, \* stop_flag_
          crashes

syncVars == <<pc, acct, from, page, todo>>
vars == <<connVars, fileLock, bank, syncVars, stopping, crashes>>

Syncers == {Worker} \union Requests
TxsOf(a) == {t \in Txs : AccountOf[t] = a}
Empty == [t \in Txs |-> None]
Latest(a) == Len(bank[a]) - 1
At(a, n) == bank[a][n + 1]

NoPage == [to |-> 0, current |-> 0, added |-> {}, modified |-> {}, removed |-> {}]

SeedImage ==
  [accounts |-> Accounts, rows |-> Empty,
   cursor |-> [a \in Accounts |-> 0], balance |-> [a \in Accounts |-> 0]]

Init ==
  /\ ConnInit(SeedImage)
  /\ fileLock = "none"
  /\ bank = [a \in Accounts |-> <<Empty>>]
  /\ pc = [s \in Syncers |-> IF s = Worker THEN "sleep" ELSE "new"]
  /\ acct = [s \in Syncers |-> NoAccount]
  /\ from = [s \in Syncers |-> 0]
  /\ page = [s \in Syncers |-> NoPage]
  /\ todo = {}
  /\ stopping = FALSE
  /\ crashes = 0

-----------------------------------------------------------------------------
Goto(s, label) == pc' = [pc EXCEPT ![s] = label]

\* sync_account is over: the worker goes to its next account, a request answers.
Leave(s, answer) ==
  /\ Goto(s, IF s = Worker THEN "next" ELSE answer)
  /\ acct' = [acct EXCEPT ![s] = NoAccount]
  /\ from' = [from EXCEPT ![s] = 0]
  /\ page' = [page EXCEPT ![s] = NoPage]
  /\ UNCHANGED todo

Return(s) == Leave(s, "200")

\* The exception aborts the cycle: the accounts left are dropped.
ThrowAborts(s) ==
  /\ Goto(s, IF s = Worker THEN "sleep" ELSE "500")
  /\ acct' = [acct EXCEPT ![s] = NoAccount]
  /\ from' = [from EXCEPT ![s] = 0]
  /\ page' = [page EXCEPT ![s] = NoPage]
  /\ todo' = IF s = Worker THEN {} ELSE todo

\* The exception leaves the worker's loop for good.
ThrowEscapes(s) ==
  /\ Goto(s, "500")
  /\ acct' = [acct EXCEPT ![s] = NoAccount]
  /\ from' = [from EXCEPT ![s] = 0]
  /\ page' = [page EXCEPT ![s] = NoPage]
  /\ UNCHANGED todo

\* sync_all_accounts catches per account, handle_sync_account answers 500.
Throw(s) == Leave(s, "500")

Begins(s, a) ==
  /\ TakeTurns => \A u \in Syncers : acct[u] # a
  /\ acct' = [acct EXCEPT ![s] = a]
  /\ Goto(s, "check")

WorkerIgnoresStop ==
  /\ pc[Worker] = "sleep"
  /\ Goto(Worker, "list")
  /\ UNCHANGED <<connVars, acct, from, page, todo>>

\* The wait between two cycles, in which stop_flag_ is looked at.
WorkerWakes ==
  /\ pc[Worker] = "sleep"
  /\ Goto(Worker, IF stopping THEN "ended" ELSE "list")
  /\ UNCHANGED <<connVars, acct, from, page, todo>>

\* SELECT id FROM accounts WHERE is_plaid_linked = 1
WorkerLists ==
  /\ pc[Worker] = "list"
  /\ \/ todo' = live.accounts
     \/ ReadMayFail /\ todo' = {}
  /\ Goto(Worker, "next")
  /\ UNCHANGED <<connVars, acct, from, page>>

WorkerPicks ==
  /\ pc[Worker] = "next"
  /\ \/ /\ todo = {}
        /\ Goto(Worker, "sleep")
        /\ UNCHANGED <<acct, todo>>
     \/ \E a \in todo : Begins(Worker, a) /\ todo' = todo \ {a}
  /\ UNCHANGED <<connVars, from, page>>

\* handle_sync_account, up to its call of sync_account.
RequestArrives(r) ==
  /\ pc[r] = "new"
  /\ ~stopping
  /\ \E a \in Accounts :
       \/ a \in live.accounts /\ Begins(r, a)
       \/ (a \notin live.accounts \/ ReadMayFail) /\ Goto(r, "404") /\ UNCHANGED acct
  /\ UNCHANGED <<connVars, from, page, todo>>

-----------------------------------------------------------------------------
(* sync_account                                                             *)

Check(s) ==
  /\ pc[s] = "check"
  /\ \/ acct[s] \in live.accounts /\ Goto(s, "token") /\ UNCHANGED <<acct, from, page, todo>>
     \/ (acct[s] \notin live.accounts \/ ReadMayFail) /\ Throw(s)
  /\ UNCHANGED connVars

\* withDecryptedToken
FetchToken(s) ==
  /\ pc[s] = "token"
  /\ LET found == acct[s] \in live.accounts \ NoToken
     IN  \/ /\ found /\ acct[s] \notin BadToken
            /\ Goto(s, "cursor")
            /\ UNCHANGED <<acct, from, page, todo>>
         \/ found /\ acct[s] \in BadToken /\ Throw(s)
         \/ (~found \/ ReadMayFail) /\ (Return(s) \/ Throw(s))
  /\ UNCHANGED connVars

\* A refused SELECT is taken for "no cursor yet".
GetCursor(s) ==
  /\ pc[s] = "cursor"
  /\ \/ from' = [from EXCEPT ![s] = live.cursor[acct[s]]]
     \/ ReadMayFail /\ from' = [from EXCEPT ![s] = 0]
  /\ Goto(s, "fetch")
  /\ UNCHANGED <<connVars, acct, page, todo>>

\* Plaid's answer from version c to version n: what was touched in between, by
\* what it was at c and is at n.
Answer(a, c, n) ==
  LET touched == {t \in TxsOf(a) : \E k \in c .. n : At(a, k)[t] # At(a, n)[t]}
      present(k) == {t \in Txs : At(a, k)[t] # None}
  IN  [to       |-> n,
       current  |-> Latest(a),
       added    |-> (touched \intersect present(n)) \ present(c),
       modified |-> (touched \intersect present(n)) \intersect present(c),
       removed  |-> touched \ present(n)]

\* One page of /transactions/sync: has_more is not looked at.  The balances that
\* come with it are today's.
FetchPage(s) ==
  /\ pc[s] = "fetch"
  /\ \E n \in from[s] .. Latest(acct[s]) :
       /\ n = from[s] => n = Latest(acct[s])
       /\ page' = [page EXCEPT ![s] = Answer(acct[s], from[s], n)]
  /\ Goto(s, "apply")
  /\ UNCHANGED <<connVars, acct, from, todo>>

\* Transport error, HTTP status or an error in the body.
FetchFails(s) ==
  /\ pc[s] = "fetch"
  /\ Return(s) \/ Throw(s)
  /\ UNCHANGED connVars

\* A statement whose failure is logged or ignored.
Try(legal, image, rows) ==
  IF WriteOK /\ legal THEN Write(image, rows) ELSE WriteFails

SetRow(t, v) == [live EXCEPT !.rows[t] = v]

ApplyAddedOnce(s) ==
  /\ pc[s] = "apply"
  /\ \E t \in page[s].added :
       /\ Try(acct[s] \in live.accounts,
              IF live.rows[t] = None THEN SetRow(t, At(acct[s], page[s].to)[t]) ELSE live, 1)
       /\ page' = [page EXCEPT ![s].added = @ \ {t}]
  /\ UNCHANGED <<pc, acct, from, todo>>

\* A refused row is tried again, for as long as it takes.
ApplyAddedRetries(s) ==
  /\ pc[s] = "apply"
  /\ \E t \in page[s].added :
       LET legal == WriteOK /\ acct[s] \in live.accounts
       IN  /\ Try(legal, SetRow(t, At(acct[s], page[s].to)[t]), 1)
           /\ page' = IF legal THEN [page EXCEPT ![s].added = @ \ {t}] ELSE page
  /\ UNCHANGED <<pc, acct, from, todo>>

\* upsert_transaction; account_id REFERENCES accounts(id).
ApplyAdded(s) ==
  /\ pc[s] = "apply"
  /\ \E t \in page[s].added :
       /\ Try(acct[s] \in live.accounts, SetRow(t, At(acct[s], page[s].to)[t]), 1)
       /\ page' = [page EXCEPT ![s].added = @ \ {t}]
  /\ UNCHANGED <<pc, acct, from, todo>>

ApplyModified(s) ==
  /\ pc[s] = "apply"
  /\ page[s].added = {}
  /\ \E t \in page[s].modified :
       /\ IF live.rows[t] = None
          THEN Try(TRUE, live, 0)
          ELSE Try(TRUE, SetRow(t, At(acct[s], page[s].to)[t]), 1)
       /\ page' = [page EXCEPT ![s].modified = @ \ {t}]
  /\ UNCHANGED <<pc, acct, from, todo>>

ApplyRemoved(s) ==
  /\ pc[s] = "apply"
  /\ page[s].added = {} /\ page[s].modified = {}
  /\ \E t \in page[s].removed :
       /\ Try(TRUE, SetRow(t, None), IF live.rows[t] = None THEN 0 ELSE 1)
       /\ page' = [page EXCEPT ![s].removed = @ \ {t}]
  /\ UNCHANGED <<pc, acct, from, todo>>

\* The cursor is stored before the page's rows are.
StoreCursorFirst(s) ==
  /\ pc[s] = "apply"
  /\ IF page[s].to = 0
     THEN UNCHANGED connVars
     ELSE Try(TRUE, [live EXCEPT !.cursor[acct[s]] = page[s].to], 1)
  /\ IF page[s].added \union page[s].modified \union page[s].removed = {}
     THEN Goto(s, "balance")
     ELSE UNCHANGED pc
  /\ UNCHANGED <<acct, from, page, todo>>

\* store_cursor, unless next_cursor is empty.  Its result is ignored.
StoreCursor(s) ==
  /\ pc[s] = "apply"
  /\ page[s].added \union page[s].modified \union page[s].removed = {}
  /\ IF page[s].to = 0
     THEN UNCHANGED connVars
     ELSE Try(TRUE, [live EXCEPT !.cursor[acct[s]] = page[s].to], 1)
  /\ Goto(s, "balance")
  /\ UNCHANGED <<acct, from, page, todo>>

\* UPDATE accounts SET balance_cents; its failure is ignored.  The bank's answer lists
\* the account (an empty list, on which the step is skipped, is not modelled).
UpdateBalance(s) ==
  /\ pc[s] = "balance"
  /\ IF acct[s] \in live.accounts
     THEN Try(TRUE, [live EXCEPT !.balance[acct[s]] = page[s].current], 1)
     ELSE Try(TRUE, live, 0)
  /\ Goto(s, "audit")
  /\ UNCHANGED <<acct, from, page, todo>>

Audit(s) ==
  /\ pc[s] = "audit"
  /\ Return(s) \/ Throw(s)
  /\ UNCHANGED connVars

SyncAccount(s) ==
  \/ Check(s) \/ FetchToken(s) \/ GetCursor(s) \/ FetchPage(s) \/ FetchFails(s)
  \/ ApplyAdded(s) \/ ApplyModified(s) \/ ApplyRemoved(s)
  \/ StoreCursor(s) \/ UpdateBalance(s) \/ Audit(s)

WorkerStep == WorkerWakes \/ WorkerLists \/ WorkerPicks \/ SyncAccount(Worker)

-----------------------------------------------------------------------------
(* The world around the scheduler                                           *)

\* At the bank a transaction appears once, changes, and goes for good.
BankPosts(a) ==
  /\ Latest(a) < MaxVersions
  /\ \E t \in TxsOf(a), v \in Vals \union {None} :
       LET was == At(a, Latest(a))[t]
       IN  /\ v # was
           /\ was = None => \A n \in 0 .. Latest(a) : At(a, n)[t] = None
           /\ bank' = [bank EXCEPT ![a] = Append(@, [At(a, Latest(a)) EXCEPT ![t] = v])]
  /\ UNCHANGED <<connVars, fileLock, syncVars, stopping, crashes>>

\* DELETE /accounts/:id; refused while transactions refer to the account.
UserDeletesAccount(a) ==
  /\ a \in live.accounts
  /\ WriteOK
  /\ \A t \in TxsOf(a) : live.rows[t] = None
  /\ Write([live EXCEPT !.accounts = @ \ {a}], 1)
  /\ UNCHANGED <<fileLock, bank, syncVars, stopping, crashes>>

\* The transactions of other handlers (module AuthServer).
ForeignTxn ==
  /\ Foreign
  /\ \/ BeginOK /\ Begin
     \/ CommitOK /\ Commit
     \/ inTxn /\ Rollback
  /\ UNCHANGED <<fileLock, bank, syncVars, stopping, crashes>>

\* The admin CLI in its own process writes to the file.
CliLocks ==
  /\ CliEnabled
  /\ \/ fileLock = "none" /\ ~inTxn /\ fileLock' = "reserved"
     \/ fileLock = "reserved" /\ fileLock' = "none"
  /\ UNCHANGED <<connVars, bank, syncVars, stopping, crashes>>

\* main() after the listener is down: no request is in flight any more.
Stop ==
  /\ ~stopping
  /\ \A r \in Requests : acct[r] = NoAccount
  /\ stopping' = TRUE
  /\ UNCHANGED <<connVars, fileLock, bank, syncVars, crashes>>

Crash ==
  /\ crashes < MaxCrashes
  /\ ~stopping
  /\ crashes' = crashes + 1
  /\ ConnCrash
  /\ pc' = [s \in Syncers |-> IF s = Worker THEN "sleep"
                              ELSE IF acct[s] = NoAccount THEN pc[s] ELSE "lost"]
  /\ acct' = [s \in Syncers |-> NoAccount]
  /\ from' = [s \in Syncers |-> 0]
  /\ page' = [s \in Syncers |-> NoPage]
  /\ todo' = {}
  /\ UNCHANGED <<fileLock, bank, stopping>>

Halted == pc[Worker] = "ended" /\ UNCHANGED vars

Sync ==
  /\ WorkerStep \/ \E r \in Requests : RequestArrives(r) \/ SyncAccount(r)
  /\ UNCHANGED <<fileLock, bank, stopping, crashes>>

Next ==
  \/ Sync
  \/ \E a \in Accounts : BankPosts(a) \/ UserDeletesAccount(a)
  \/ ForeignTxn \/ CliLocks \/ Stop \/ Crash \/ Halted

Spec == Init /\ [][Next]_vars

\* The threads keep running, and Plaid, asked for an account again and again,
\* answers some day.
FairSpec ==
  /\ Spec
  /\ WF_vars(WorkerStep /\ UNCHANGED <<fileLock, bank, stopping, crashes>>)
  /\ \A r \in Requests :
       WF_vars(SyncAccount(r) /\ UNCHANGED <<fileLock, bank, stopping, crashes>>)
  /\ \A a \in Accounts :
       SF_vars(/\ acct[Worker] = a /\ FetchPage(Worker)
               /\ UNCHANGED <<fileLock, bank, stopping, crashes>>)

-----------------------------------------------------------------------------
SyncLabels == {"check", "token", "cursor", "fetch", "apply", "balance", "audit"}
WorkerLabels == {"sleep", "list", "next", "ended"} \union SyncLabels
RequestLabels == {"new", "200", "404", "500", "lost"} \union SyncLabels

ImageType ==
  [accounts : SUBSET Accounts, rows : [Txs -> Vals \union {None}],
   cursor : [Accounts -> Nat], balance : [Accounts -> Nat]]

PageType ==
  [to : Nat, current : Nat,
   added : SUBSET Txs, modified : SUBSET Txs, removed : SUBSET Txs]

ToApply(s) == page[s].added \union page[s].modified \union page[s].removed

\* Cursors, balances and pages are versions that the bank has had.
Image(i) ==
  /\ i \in ImageType
  /\ \A a \in Accounts : i.cursor[a] <= Latest(a) /\ i.balance[a] <= Latest(a)

\* A thread has an account exactly while it is inside sync_account.
Place(s) ==
  /\ pc[s] \in IF s = Worker THEN WorkerLabels ELSE RequestLabels
  /\ acct[s] \in IF pc[s] \in SyncLabels THEN Accounts ELSE {NoAccount}
  /\ acct[s] \in Accounts =>
       /\ from[s] <= Latest(acct[s])
       /\ page[s].to <= Latest(acct[s]) /\ page[s].current <= Latest(acct[s])
       /\ ToApply(s) \subseteq TxsOf(acct[s])
  /\ acct[s] = NoAccount => from[s] = 0 /\ page[s] = NoPage

\* The types of the scheduler's state and of the tables it writes.
TypeOK ==
  /\ inTxn \in BOOLEAN /\ changes \in {0, 1} /\ fileLock \in FileLocks
  /\ bank \in [Accounts -> Seq([Txs -> Vals \union {None}])]
  /\ \A a \in Accounts : Len(bank[a]) > 0
  /\ Image(live) /\ Image(disk)
  /\ pc \in [Syncers -> WorkerLabels \union RequestLabels]
  /\ acct \in [Syncers -> Accounts \union {NoAccount}]
  /\ from \in [Syncers -> Nat]
  /\ page \in [Syncers -> PageType]
  /\ \A s \in Syncers : Place(s)
  /\ todo \subseteq Accounts
  /\ stopping \in BOOLEAN /\ crashes \in Nat

\* What the scheduler is for: whatever the bank had done by the version that the
\* stored cursor names is in the transactions table, so that the next sync, which
\* asks only for what came later, misses nothing.  A row may be ahead of the cursor
\* (a crash before store_cursor) but never behind it.
RowsNotBehind ==
  \A a \in disk.accounts : \A t \in TxsOf(a) :
    \E n \in disk.cursor[a] .. Latest(a) : disk.rows[t] = At(a, n)[t]

\* The same when no sync is under way, so that none of them can still mend it.  It
\* fails when two syncs of an account overlap or the CLI has the file: README, section 5.
RestNotBehind == (\A s \in Syncers : acct[s] = NoAccount) => RowsNotBehind

\* t's row is what the bank had at version n or at a later one.
RowSince(a, t, n) == \E k \in n .. Latest(a) : live.rows[t] = At(a, k)[t]

\* The connection when nobody but the scheduler writes.
Calm == ~inTxn /\ live = disk /\ fileLock = "none"

\* A transaction that is gone from the bank does not come back.
GoneForGood ==
  \A a \in Accounts : \A t \in TxsOf(a) : \A i, j, k \in 0 .. Latest(a) :
    /\ i <= j /\ j <= k
    /\ At(a, i)[t] # None /\ At(a, j)[t] = None
    => At(a, k)[t] = None

\* While a page is being applied nobody else moves the cursor it starts from; what
\* has been applied, or needed no change, is at the page's version or later.
Applying(s) ==
  /\ pc[s] \in {"fetch", "apply"} => from[s] = live.cursor[acct[s]]
  /\ pc[s] = "apply" =>
       /\ from[s] <= page[s].to
       /\ \A t \in page[s].modified :
            At(acct[s], from[s])[t] # None /\ At(acct[s], page[s].to)[t] # None
       /\ \A t \in page[s].removed : At(acct[s], page[s].to)[t] = None
       /\ acct[s] \in live.accounts =>
            \A t \in TxsOf(acct[s]) \ ToApply(s) : RowSince(acct[s], t, page[s].to)

\* Why the cursor stays behind the rows: one thread per account, whose page brings
\* every row from the old cursor to the new one before the new one is stored.
SyncInv ==
  /\ Calm
  /\ GoneForGood
  /\ \A s, u \in Syncers : acct[s] = acct[u] /\ acct[s] \in Accounts => s = u
  /\ \A a \in live.accounts : \A t \in TxsOf(a) : RowSince(a, t, live.cursor[a])
  /\ \A s \in Syncers : Applying(s)

UpToDate(a) ==
  /\ disk.cursor[a] = Latest(a)
  /\ disk.balance[a] = Latest(a)
  /\ \A t \in TxsOf(a) : disk.rows[t] = At(a, Latest(a))[t]

\* PlaidSyncScheduler.h, F-3: "one bad account does not abort the sync".  As long as
\* the server is not stopped every account with a usable token catches up with the
\* bank, one page per cycle, in spite of crashes, failing calls and of other
\* accounts that always throw.
CatchesUp ==
  []~stopping =>
    <>[](\A a \in live.accounts \ (NoToken \union BadToken) : UpToDate(a))

\* Whoever asks for a sync gets an answer, or the process has died meanwhile: not
\* even an account deleted under the sync, or another handler's transaction, keeps
\* sync_account from its end.
SyncIsAnswered ==
  \A r \in Requests : pc[r] \in SyncLabels ~> pc[r] \in {"200", "404", "500", "lost"}

\* main() joins the worker on shutdown, so it must come to its end.
StopEnds == stopping ~> pc[Worker] = "ended"
=============================================================================
