# GREYLOCK in TLA+

Specifications of the GREYLOCK (TerminalFinance) server and client, checked with
TLC on small instances and, where it matters most, proved with TLAPS for every
instance. Paths are relative to the repository's root; `server/...` is the HTTPS
backend, `src/...` the terminal client.

## 1. The system

| Part | Code | State | Operations | Hard behaviour |
|---|---|---|---|---|
| Database connection | `server/db/Database.h` | one `sqlite3*`, shared by every thread | `exec`, `prepare`/`step`, `sqlite3_changes` | transactions belong to the connection, not to a thread; no busy timeout; a second process (admin CLI) locks the file |
| Audit log | `server/audit/SqlAuditLog.cpp`, `CanonicalBytes.cpp` | table `audit_log`, mutex `mu_` | `record` | head read, hash, insert and commit on the shared connection |
| Sanitizer | `server/audit/Sanitizer.cpp` | none | `sanitize` | recursion depth, size, key list, token heuristics |
| Auth handlers | `server/auth/AuthHandlers.cpp`, `Session.cpp`, `EnrollmentToken.cpp` | `users`, `sessions`, `enrollment_tokens` | enroll, login, logout, whoami | effects first, audit after; rollbacks that hit another request; expiry against the wall clock |
| Rate limiter | `rate_limit_check` in `AuthHandlers.cpp` | `g_rate_buckets` | check | cap, sweep, fixed windows, stale clock readings, restarts |
| Data handlers | `server/data/*Handler.cpp` | accounts, transactions, budgets, categories, entities, v3 objects | list, create, update, delete | several autocommit statements per request, ignored failures, foreign keys |
| Plaid sync | `server/plaid/PlaidSyncScheduler.cpp` | cursor per account, worker thread | sync one, sync all, start, stop | cursor advanced although rows failed; manual and scheduled sync of one account at once |
| Plaid link, token broker, API client | `PlaidLinkHandler.cpp`, `PlaidTokenBroker.cpp`, `PlaidApiClient.cpp` | pending links, sealed tokens | init, page, callback, store, load | a callback without a session; the link consumed at the end only; an exchange cannot be undone; an account deleted meanwhile |
| Boot, migrations, admin CLI | `server/main.cpp`, `server/db/Migrations.cpp` | the file and its key, `schema_migrations` | serve, mint token, list users, `apply_pending` | two processes migrate at once; a crash between steps; key policy; shutdown order |
| Client auth and HTTP | `src/services/AuthService.cpp`, `BackendClient.cpp`, `CurlHttpClient.cpp` | session token, cache | login, enroll, logout, whoami | an answer that is lost after the server acted; two processes with one token store |
| Secret store | `src/services/secret_store` | one file per key | put, get, remove | one temporary name for all writers; crash between write and rename |
| Client storage | `RemoteBackendStorageService.cpp`, `StorageService.cpp`, `src/models/DataStore.cpp` | in-memory lists, JSON file and backup | load, save | a load is many requests; a save truncates the only copy |
| v0.1 migrator | `src/migration/V01Migrator.cpp` | none | migrate | what the server's routes do with each row it posts |
| Terminal UI | `src/main.cpp`, `FocusController.cpp`, `CommandPalette.cpp`, `utils/fuzzy_match.h` | focus level, palette, help, tab, current entity | key events | level and dialogs that must fit; a selection that a reload outdates; a search with a budget |
| Everything else | section 6 | | | |

How they meet. `server/main.cpp` opens one `Database` and hands it to the thread
pool of cpp-httplib (every handler), to `SqlAuditLog`, to the Plaid token broker
and to the Plaid scheduler's own thread. SQLite serializes single calls; nothing
serializes the calls of one handler against those of another. Each handler
changes its tables first and calls `record` afterwards. Every data and Plaid route
begins with a session check that opens and ends a transaction on the same
connection. The admin CLI is a second process on the same file. The client talks
to the server over HTTPS only; its processes share a token store and a JSON file.

What makes each part correct:

* database connection, audit log: the table is one gapless hash chain, only ever
  appended to; a row whose `record` returned stays;
* auth routes: user and spent token come together or not at all; a login that
  answered 200 has a session, and a logout has ended one (one request at a time); what was
  done is recorded; no transaction is left open; every request is answered;
* rate limiter: the map is bounded; nobody is let through more often than the
  windows allow; nobody is pardoned early by somebody else's call;
* data routes: whoever writes is still a member of the row's entity; the tree of
  rows has no orphans; an entity always has an owner; a 2xx answer and its event
  mean that the change is in the tables, whole;
* Plaid sync: the stored cursor never runs ahead of the rows; a healthy account
  catches up whatever the others do; shutdown ends;
* Plaid link: a token gets to an account by a member's permission only; a link is
  redeemed once; `is_plaid_linked` and the token agree;
* boot and migrations: each migration is there whole or not at all, without gaps,
  also when several processes start together or die; nobody works on an old
  schema; what died does not keep a server down;
* client: a token that was reported as revoked stays out of the store; a load that
  succeeds is whole; the local file keeps its rows; what is migrated arrives (it
  does not: section 5);
* terminal UI: focus level, drill, tab and open dialogs agree; Esc closes one thing
  at a time; the palette misses no command that matches, and puts an alias that is
  typed in full first, although its search gives up early; what is shown belongs to
  the current entity.

The hazards behind these, with the line where each bites and the properties that
would catch it, are listed in `PROJECT.json`. Two have no property: amounts in
floating point (outside TLA+) and the contents of a list's pages. Where a hazard
does go wrong, a property says so that fails (section 5), and the property that holds
says what it exempts.

## 2. Modules

| Module | Models | Notes |
|---|---|---|
| `SqliteConn` | the shared connection (external: SQLite as the code relies on it) | `live` is what a statement sees, `disk` what survives; `fileLock` is the other process |
| `AuditLog` | `SqlAuditLog::record` and `append_locked`, one action per call | a caller enters with `CallAudit` and names where it goes on when `record` returns or throws |
| `AuditChain` | abstract: a log that only grows | refined by `AuthServer` |
| `Sanitizer` | `sanitize`: which details an event may carry | used by `DataApi` |
| `AuthServer` | the four auth routes over `AuditLog`, the admin CLI, crash, clock | `pc[r]` names the call a request is about to make; answered requests sit at their HTTP status |
| `RateLimiter` | `rate_limit_check` and the handlers that call it | history variable `admitted` records who was let through when |
| `DataApi` | the data routes: session check, lookup, membership check and each statement of create, update and delete; reads | over `AuditLog`; the auth routes' transactions (`ForeignTxn`), the CLI and a crash are actions, switched by `regime` |
| `PlaidSync` | the scheduler's worker, the force-sync route, `sync_account` statement by statement, Plaid as a list of versions per account | over `SqliteConn`; other handlers' transactions and the CLI are actions switched by `Foreign` and `CliEnabled` |
| `PlaidLink` | link init, the page with its script, the callback, token store | over `SqliteConn`; account deletion, CLI, clock and crashes are actions |
| `Boot` | processes of `greylock-server`: arguments, key policy, opening, migrating, wiring, binding, stopping | several processes on one file |
| `FuzzyMatch` | `fuzzy_match.h` | functions: the search with its limit on calls, and the exhaustive search it is compared with |
| `Ui` | the event loop's keys: `FocusController`, `CommandPalette`, `HelpOverlay`, dispatch, tabs, current entity; the ranking of `CommandRegistry.cpp` | over `FuzzyMatch` |
| `SecretStore` | `FileSecretStore::put`, `get`, `remove`: temporary file, handles, rename | shared by processes; history variable `puts` records which puts have met another |
| `TokenCell` | abstract: a cell whose puts take effect whole, in one instant, unless they meet | implemented by `Client` through `SecretStore` |
| `JsonStorage` | `StorageService`: load, backup, save in its two steps | a file is one of seven contents |
| `Client` | the command-line commands, the application's load, refresh, save, the migrator, the server as the client sees it | over `SecretStore` and `JsonStorage` |
| `MC*` | instances of `AuthServer`, `RateLimiter`, `DataApi`, `PlaidSync`, `PlaidLink`, `Boot`, `Ui`, `Client` for TLC | |
| `*_proofs` | TLAPS proofs about `AuditLog`, `AuthServer`, `RateLimiter`, `DataApi`, `PlaidSync`, `PlaidLink`, `Boot`, `Ui`, `Client` | |

Most modules also hold operators that no specification uses (`AudBeginKeepsLock`,
`StoreUnchecked`, `FetchSkips`, ...): a step as a plausible mistake would have it, a
dropped guard, a lock that is kept, a list that is skipped. `PROJECT.json` names, for
each property, the one that it notices.

Correspondence, `AuthServer`. One action per call that touches shared state;
whatever a handler does between two such calls is local and part of the action.
The labels of `pc` are prefixed by route (`e_`, `l_`, `o_`, `w_`, and `aud_`
inside `record`). A `try/catch` is the pair of labels an operator such as
`ExecBegin(r, next, fail)` takes. Email, token and session id are model values; a
session id is the request that minted it; a user row is identified by its email
(its random id adds nothing unless the same email is enrolled twice). Passphrase
and TOTP checks are an input of the request (`good`). Hashing is collision free:
`EntryHash` is the list of what the hash commits to. Requests that are refused
before their first shared call (bad JSON, missing header) touch nothing and are
left out. An email has an `@` and a dot, which the sanitizer takes for no token, so
`record` does not refuse the events of enroll and login; the handlers do not check
the form of an email, and one that is a word of 32 letters would have its event
replaced by `audit_record_rejected`, as `DataApi` has it of names.

Correspondence, `RateLimiter`. `Enter` is `now_unix()` on entry of
`handle_login`; `Deny`, `Trip` and `Admit` are the three ways through
`rate_limit_check`, which runs under `g_rate_mutex` and is one step. Between the
two a handler may lie for up to `MaxStall` seconds. The key is the email, as in
the code (`V0_2_PLAN.md:279` says user id and endpoint).

Correspondence, `DataApi`. The five tables are one function `rows` from id to
kind (entity, account, tx, budget, category), parent and columns. A row created in the run has the id of the request that
made it, a column the request that wrote it last, so that "whose write is this" is
a state predicate. The routes of one handler file are told apart by `op` and
`kind`: `Find` is the lookup of the row in the path (none for an entity id),
`Access` the membership check and the parsing of the body, `Insert`, `Update` and
`Delete` one statement each, `Audit` the call of `record`, whose event passes the
`Sanitizer` first. `Details` are the leaves of the event that the route emits for its
kind of row: name and kind of an account or category, which are any text, name and
kind of an entity, whose kind is one of six words, the amount of a budget, the
account's id of a transaction. An account, transaction, budget or category is updated by one
UPDATE per field (`todo`), an entity by one for all. `POST /entities` is the only
route with a transaction of its own (`Create...`). The session check is
`validate_and_touch_session` with the sessions table left to `AuthServer`: a
request has a valid session or not. A body the handler refuses is answered `400`
after the check, before any statement. Which rows a list contains, and its pages,
are not modelled here. A request is named when it arrives, so that renaming
requests gives no new states.

Correspondence, `Sanitizer`. A payload is the set of its leaves, each with the keys
on its path; a key is its lower-case name and the denied words in it, a text its
length and alphabet. The code's walk stops at the first leaf it objects to, so the
answer does not depend on the order, and a set is enough.

Correspondence, `PlaidSync`. A cursor is a version number, 0 the empty cursor
that the code passes for "none stored". `Answer` is what Plaid sends for a cursor:
what was touched since, as added, modified or removed. One page is applied row by
row (`ApplyAdded`, `ApplyModified`, `ApplyRemoved`), each an autocommit statement
whose failure the code swallows (`Try`), then `StoreCursor`, `UpdateBalance` and
the audit call. Plaid's page names the account's balance; a page with an empty list
of accounts (`PlaidSyncScheduler.cpp:190`), which would leave the balance alone, is
left out, and no property looks at a balance. Amounts, names and dates of a transaction are one value of `Vals`.

Correspondence, `PlaidLink`. `op` is the route, `init` or `redeem`. A link token
has the name of the init it was minted for, an item (public token, access token,
institution) the name of the callback that exchanged it: Plaid never issues the
same twice. `SessionBegin` to `SessionCatch` are the session check with its
transaction; the callback's other way in is `Reap` and `Resolve`, the lookup of
the link token in its body. `Check` is the membership check, `Mint` and `Exchange`
are Plaid's answers, `Stash`, `StoreToken`, `MarkLinked` and `Consume` one statement
each, in the order of the code. The page is a tab (`tab[b]`) that may send its
callback again after a failure or a lost answer, as the script does. These routes
write no audit event.

Correspondence, `Boot`. A process is its launch (arguments, key, port, Plaid
credentials, certificate); `Role` is `main`'s loop over `argv`. `Policy`, `Open`,
`Ensure`, `ReadVersion`, `BeginMigration`, `Up`, `RecordVersion`,
`CommitMigration`, `Wire`, `Bind`, `StopScheduler` are the calls in their order. A
migration is the set of tables and columns it adds; it fails if one of them is
there, since none of the statements says IF NOT EXISTS. A file is absent, empty,
plain or of a key. COMMIT may be refused while another process is alive, because
that one may be reading; and so may any statement that reads, the opening's first
query included, because that one may be writing (`FileBusy`).

Correspondence, `Ui`. One step is one key, taken by the palette, by the help, by
the focus controller or by the rest of `CatchEvent`, in this order, or the answer
to a command (`Refresh`, which may bring another list). `focus` has the
controller's five fields. The commands are the program's 28, and `Find` is the
palette's list for a query, computed by `FuzzyMatch` with the program's limit of ten
calls; `Worth`, `Cut` and `Hits` are, for each query, what an exhaustive search makes
of each command, the commands whose search was cut short, and those that match at
all. Texts are sequences of letters, as `islower` and `isupper` see them. What can be
typed is `Queries`, closed under erasing; the texts that the program takes for
a verb are `VerbTexts` (`main.cpp:1432`). `Drawn`, `Marked` and `OnTop` say what is on
the screen. `phase = "undefined"` is an index past the end of the entities.

Correspondence, `Client`. One action per call of the server, of the store or of
the file. `Answers` are the kinds of result `map_response` tells apart; a call that
fails may have taken effect. A load is a list of requests (`todo`) that grows with
the entities and accounts that the answers bring. A save opens (and truncates) the
file and writes it in a second step. The server is what its routes do: `Logout`
answers 200 to any token and may or may not have ended the session, as
`handle_logout` does; `PostEntity` takes the six kinds of `valid_entity_kind` and
`PostRefused` the rest, with the other rows of a migration, whose paths or routes the
server does not have. A file that the program wrote has an entity's type in
`Entity::type_to_string`'s lower-case words (`MCWrittenRows`); the file
of the run has one of the server's words, as an edited file may, so that posts that
are taken happen as well. Other clients change the server's
data at any time. The requests for categories and budgets are made and may fail, but
what they bring is not kept.

Correspondence, `SecretStore` and `JsonStorage`. A handle is where its file is by
now: the temporary name, the final name (another process has renamed it) or
nowhere. A put is its calls: open, write, chmod, rename, and the remove after a
failed one, each of which names the temporary file anew and so may meet another
put's, or none. As a `TokenCell`, a process is putting its token from the open to the end of
its put. A write lays its bytes over what the file holds; shorter over longer is
torn.

## 3. Runs

| Run | Question | Bounds and why they suffice |
|---|---|---|
| `AuthPair` | is the audit chain linear and append-only, does every transaction end, do sessions keep their users, is every request answered? | two requests give every pair of routes in every interleaving, which is what one foreign ROLLBACK or COMMIT needs; one crash, the clock, the CLI; tokens and sessions that expire within the run |
| `AuthSerial` | are the client-visible promises kept if requests are served one at a time? | three requests: one effect, one that observes it, one after a failure; one crash |
| `AuthEnrollSplit` | is an enrollment one transaction? | expected violation, section 5; two requests, the least that shows it |
| `Rate` | map bound, no early pardon, long-run and sliding rate | two emails for a map of one bucket, so that every arrival of the other evicts or is refused; windows of three seconds in five seconds of run: a boundary and a whole window; two handlers stalling a second; one restart |
| `PlaidTurns` | cursor behind rows, catching up, shutdown | two accounts, the second of which always throws; two transactions and two values, two versions: enough for added, modified and removed in one page, and for a page that stops half way; one force-sync, one crash |
| `PlaidHostile` | does every sync end with an answer? | worker and force-sync at once, an account without token, account deletion, other handlers' transactions and the CLI |
| `PlaidOverlap` | is the cursor ahead of the rows after two syncs of one account at once? | expected violation; one force-sync beside the worker, two versions |
| `Data` | no orphans, no shared transactions, authority at the time of the write, success kept; every request answered | two requests by an owner, a member and a stranger: every operation and every kind of row, on seeded rows and on the row that the first made (not every pair of the two); their statements in every order, each request by itself, beside the CLI, two at once beside the CLI, and two at once beside the auth routes' transactions; an account with a transaction, so that one DELETE is refused and one is not; two columns, the least that can be half written; a name and a kind that look like keys; a crash anywhere |
| `Link` | tokens by permission, links spent, linked accounts with tokens | three requests: an init, a callback and its retry, or two inits and a callback; an owner of both accounts, a member of one, an ended session, no session; links expire within the run (`TTL = 0`, a clock of one tick); one at a time with a crash, beside the CLI, or two at once |
| `Boot` | whole and current schema, and does a server alone come up? | three processes: two that race and one that finds what they left; two migrations, one that makes tables and one that needs the first; seven launches, with each way of calling the program wrongly; a file that is busy at every read and write; one crash |
| `Ui` | level, tab and dialogs; Esc; the palette; what is shown | any keys; the program's 28 commands, 8 lines and limit of ten calls; what is typed on the way to each verb, to three aliases, one of them with a separator, and to "Swit", whose searches are cut short; from these queries every kind of dispatch is reached; two entities that reloads take away and bring back. `PaletteLists` holds of all 203 queries on the way to the 28 aliases, "Switch" and "Drill into" as well (`Queries <- MCAliasQueries`, `Lists <- MCNoLists`, `Entities = {}`) |
| `Client` | revoked tokens, atomic puts, whole loads, the file's rows | two processes and two tokens, so that two puts may overlap; four commands: log in, log out, log in again, and use; two outside changes, so that a load may meet one and a session end; an account with more rows than a page; a crash anywhere |

`SuccessIsKept` joins five promises of a 2xx answer: the entity has its owner, the
event is recorded, the row is there, its columns were written together, or it is
gone. `LimitsKept` joins `MapBounded`, `LongRunRate` and `SlidingBound`. `LongRunRate` is
stated with the shortest window a stall can leave, `kRateLimitWindowSecs -
MaxStall`: with no stalls it is the plain bound of `kRateLimitMax` per window.
`SlidingBound` is what fixed windows give, twice the limit in a window's time, not
the limit.

The regimes of `Data` and `Link` are an initial choice of how many requests are in
flight at once and of who else uses the file; one run covers all of them, and a
property that holds in some only says so (`Settled`).

Fairness. `AuthServer`'s `FairSpec` asks weak fairness of each request's handler:
a thread of the pool that can run does run. It is enough because `mu_` is free
again after every pass and a request takes it at most twice. `DataApi`'s is the
same. `PlaidSync`'s asks weak fairness of the worker's thread and of the thread of
each force-sync, and strong fairness of the worker's successful fetch of each
account: Plaid, asked in every cycle, does not fail for ever. The page Plaid
chooses to send is not constrained beyond moving on when there is something new.
Nothing is assumed of clients, of the CLI, of the clock, of other handlers or of
the success of a statement. `PlaidLink`, `Boot`, `Ui` and `Client` state safety
only: a callback, a boot or a command ends by running out of statements, and what
keeps it from ending, an answer that never comes, is curl's timeout.

Deadlock is checked in all runs but `Ui` and the client's; when nothing is in
flight the servers idle (`Idle`), a worker that has ended stays so (`Halted`), and
so do processes that are over (`Over`). The application of `Ui` ends, and the user
of `Client` has a bounded number of commands: there the system does stop.

Bounds are the constants `Max...` and the fields `max...` of a regime; they only
disable the clock, crashes, restarts, arrivals, commands, longer queries and new
versions at the bank.

## 4. Proofs

`AuthServer_proofs`, for any sets of requests, emails and tokens and any number of
concurrent requests:

* `TypeCorrect` - `TypeOK`, which also says that a request at a step of a route
  is a request for that route;
* `AuditInvariant`, `AuditChainLinear` - the chain is linear although the
  transaction may be anybody's. `AuditLinear` alone is not inductive: what is
  needed is that `mu_` has one holder, that outside a transaction `live = disk`,
  that the rows on the connection are at most one ahead of the disk and only
  while somebody is between its INSERT and the end of `record`, and that the head
  about to be linked is the present head or the empty one, which the primary key
  refuses. That is `AuditInv`;
* `AuditRefinesChain` - the table on disk implements `AuditChain`: a step appends
  one event or stutters;
* `TransactionsEnd` - `TxnHasOwner`; `SessionsReferToUsers` - `SessionsHaveUsers`;
* `StoredStays` - no user, session, revocation or audit row that is on disk is ever
  taken away, at any concurrency: outside a COMMIT the disk changes only with the
  connection, which is `Ahead` of it.

Three more say what the handlers promise when they are served one at a time
(`MaxConcurrent = 1`), for which the runs with more expect a violation or section 5
has one:

* `EnrollmentIsAtomic` - `EnrollAtomic`, the CLI's locks included. With nobody else
  inside a transaction (`Alone`), what is on the connection differs from the disk by
  the user and the token of the one who enrolls, in the order of the handler
  (`AtomicInv`: `SpentOn`, `Matches`, `Unsettled`);
* `AnswersHold` - `AnswersAreTrue`, without the CLI, whose lock makes an
  autocommitted statement fail with nobody looking. `SessionInv` follows the user
  and the session of a request from the INSERT to the answer;
* `EffectsHold` - `EffectsAreRecorded`, without the CLI: `record` then never fails
  (`RecordInv`), and what a request owes the audit log, from the write to the answer,
  is `Keeping`.

The argument is organised by what a step may touch: a step of a handler outside
`record` leaves the audit rows of `live` alone unless it is a COMMIT or ROLLBACK
(lemmas `HandlerFrame`, `ConnStepTables`), so the invariant needs one case for
handlers, one per step of `record`, and one for the world. `Turn` states once what
each step does to the tables, and the invariants of the promises are shown from it.

`RateLimiter_proofs`, for any number of emails, callers, stalls and restarts:

* `TypeCorrect`, `MapStaysBounded` and `AttemptsAreKept`;
* `AdmissionsAreLimited` - `LimitsKept`: `MapStaysBounded` and both rates. The code
  keeps a window and a count; the invariant `Recent` relates them to the history of admissions, which
  it does not keep: those since a window began are its count, and those since any
  base time fit into as many full buckets as shortest windows have passed since
  (`Paced`), one more for each restart. The admissions being `Sorted` and the windows
  `Apart`, more than two buckets' worth cannot lie closer than a shortest window.
  The bound is for the shortest window a stall can leave.

`PlaidSync_proofs`, for any number of accounts, transactions, force-syncs,
versions and crashes:

* `TypeCorrect`, whatever other handlers and the CLI do;
* `SyncInvariant` and from it `RowsKept` (`RowsNotBehind`), where callers take
  turns on an account and nobody else has a transaction or a lock open
  (`Undisturbed`); section 5 shows that none of these conditions can be dropped.
  `RowsNotBehind` is not inductive: between the first row and the cursor the table
  is of mixed versions. `SyncInv` adds that a thread has its account to itself, so
  the cursor it read is still the stored one, and that every row no longer on its
  page is at the page's version or a later one; and, from the bank, that a removed
  transaction does not come back, without which an old page could put a row back
  that a newer version has removed.

`DataApi_proofs`, for any requests, users, inputs and seeded rows:

* `TypeCorrect`;
* `TreeStaysWhole` - `NoOrphans`, whoever else uses the connection. The foreign
  keys refuse an INSERT without its parent and a DELETE of a parent, but that is
  not inductive by itself: an INSERT must not land on an id that is in use, on the
  connection or in what a ROLLBACK would bring back. `IdsAreFresh` says so;
* `TransactionsStayApart` - `TransactionsDoNotMix`, as long as the auth routes
  leave the connection alone. Every step of a route opens the transaction as it
  enters the labels inside one, closes whatever is open as it leaves them, or does
  neither (`TxnTurn`); so "somebody is inside" and "one is open" stay the same
  thing, and nobody enters while it is;
* `MembersOnlyWrite` - `OnlyMembersWrite`, under the same condition. The membership
  is read from `live`, which another request's ROLLBACK may take back before the
  write comes. `AuthInv` says what a ROLLBACK can do (`Reversible`: it moves no row,
  and takes a membership only with its entity), that the entity noted for the row in
  the path is the right one in `live` and in `disk` alike (`Anchored`), and that the
  user is a member of it or it is gone for good (`Entitled`, `Gone`). An entity with
  members cannot be deleted, so no other step takes a membership away;
* `SuccessStays` - `SuccessIsKept`, with one request at a time and an idle CLI. Each
  call of a route has one `Effect` on the tables (`Quiet`, `Commit`, `Rollback` or
  `Change`), and each promise its invariant: `OwnersCome`, `RecordsCome`,
  `AtMostOne`, `CreatedStays`, `LeavesGo`, `UpdatesCome`. That the event is recorded
  is promised of what the sanitizer takes, and `Speakable` says what that is: no
  transaction (its event holds an id); of an account, category or entity, no name or
  kind that looks like a token and no payload beyond `MAX_TOTAL_BYTES`, neither of
  which the routes refuse. The lemma behind it shows that the sanitizer accepts every
  other event of every route; of those `ChangesAreRecorded` fails (section 5).

`PlaidLink_proofs`, for any requests, tabs, users, memberships and number of
callbacks at once, crashes and the CLI included:

* `TypeCorrect`;
* `TokensByPermission` - `TokenByPermission`, which looks at a stored token and
  asks who brought it. A callback by link carries no session, so the invariant
  `LinkInv` has to follow the permission from the init to the table: every stashed
  link is what an answered init of that user was granted (`GrantOK`), a request
  that came in "by link" came with such a link, in time (`ByOK`), and every stored
  token has a `Bearer`, a callback for this account past the check and the store.
  It holds of `live` and `disk` both, since a ROLLBACK may bring either back. That
  the facts about a finished request stay true is one lemma (`Advances`,
  `InOrder`): labels only move forward;
* `LinksAreSpentOnce` - `SpentOnce`. With one request at a time and no CLI a redeemed
  link is in neither `live` nor `disk` (`SpentInv`), so neither a ROLLBACK nor a crash
  can make it redeemable again;
* `LinkedHaveTokens` - `LinkedHasToken`, beside the CLI too. Token and flag come with
  one UPDATE (`PlaidTokenBroker.cpp:171`) outside any transaction; the handler's second
  one (`PlaidLinkHandler.cpp:368`) sets the flag again, with the institution, and may
  fail unnoticed. With one request at a time (`OneOpen`) no other's ROLLBACK can take
  the first and leave the second. `LinkedInv` says that the two go together in `live`
  and in `disk` (`Fitting`), that a bearer's account is `LinkedIn` once it is
  `Brought`, and what a tab was told (`TabTrue`).

`Boot_proofs`, for any processes, launches, keys, crashes and selection of the nine
migrations:

* `TypeCorrect`;
* `SchemaStaysWhole` - `SchemaWhole`. `apply_pending` reads the version once,
  outside any transaction, so a process may hold an old one; what saves the schema
  is that its `up()` then fails on a table that exists. The invariant says what a
  process knows (`Knows`): its version is one that is applied with all before it,
  and the draft of the one in a transaction is the committed schema and a part of
  its own next migration. So COMMIT publishes whole migrations, and only the next;
* `BootedIsCurrent` - `ServesCurrent`: nothing pending beyond a version that is
  applied with all before it means that all are;
* `SoleBootComesUp` - `SoleBootSucceeds`, if what a migration needs comes from an
  earlier one (`BootNeedsAssumption`, true of the nine). A process that has been
  alone since its launch is the only one alive, so the file is as it met or left it,
  nobody else holds the lock, no version is applied that it has not read, and the next
  migration can be made because no two make the same table (`SoleInv`,
  `NextCanBeMade`). What remains for failing is its key or the file that it met
  (`Excused`).

`Ui_proofs`, for any command table, letters, entities and lists:

* `LevelsAgree` - `FocusCoherent`, the conjunct of `TypeOK` that relates level,
  focused widget, drill, tab and dialogs. It is inductive once the palette is known
  to stay a record of its four fields (`Coherence`); one lemma per taker of keys;
* `EscAscends` - `EscPopsOne`, from that invariant: at most one dialog is open and
  a modal level always has one, so Esc finds exactly one thing to close. With nothing
  open it leaves the program from every view but the home one. Of the home view the
  property says nothing there: the documents want a no-op and the code leaves,
  and `EscAtHomeIsNoOp` fails (section 5);
* `PaletteFollowsQuery` - the palette shows what the search finds for its query, and
  the selection is one of the results (`Listing`), so Enter never reads past them;
  with it and what a key can do to the other variables, `TypeCorrect` - all of
  `TypeOK`, the selection within `kMaxVisibleResults` included (`FindFits`: the list
  is no longer than that, whatever the search finds);
* `ScreenIsCurrent` - `ShownIsCurrent`: every step that changes entities, accounts or
  the current index ends with `UpdateViews` (`DataTurns`, `ViewsUpdate`), and only the
  first widget is ever drilled into (`DrillDrawn`).

`Client_proofs`, for any number of processes and commands, any tokens, any entities
and accounts of a finite number and any storage file:

* `TypeCorrect` - `TypeOK`, by what each command leaves alone of the other processes
  (`Frame`, lemma `StepFrame`) and what it makes of its own (`ProcTypes`). With it
  no request and no row is ever taken from an empty list;
* `RevokedStaysOut` - `LoggedOutStaysOut`, which is about the store and assumes
  nothing of the server: once `--logout` has had its 200, whether or not the session
  ended (`LogoutRevokes` fails), the token is in neither of the store's files again. The
  temporary file is shared, so a token could come back by another process's rename.
  `StoreInv` says that it cannot: a token on its way into the store is in nobody
  else's memory and neither in the file nor in its temporary (`Carries`), the two
  never hold the same token, and a process that has a token and is not putting it
  there never finds it in the temporary (`Holds`), so that a logout, which removes
  only the file, leaves none behind;
* `PutsAreAtomic` - `PutIsAtomic`, the implementation of `TokenCell`: open and write
  stutter, the rename is the instant of the put, a failed write and a crash end it
  without effect. `PutInv` is why: a put that has met no other has the temporary name
  to itself, on its open file first and on its whole token after. Whatever a put that
  ended early left under that name is truncated by the next. Puts that meet are no
  more than `Clash` allows: they may leave another's token or an empty file, as
  section 5 says, but none of them removes the file; a failed put removes whatever
  has the temporary name, which is a put's own unless it has met another;
* `FileIsKept` - `SavedIsKept`. Until something strikes a save there is one writer
  at most and its file is empty (`FileKept`), nobody meets a file that does not
  parse, and the lists of an application without a server are what the file had
  (`FromFile`); those with a server never come to a dump (`AppInv`);
* `LoadedIsWhole` - `LoadIsWhole`. What the lists of a load still lack is among what
  the requests not yet made will bring (`Pending`), unless the data has changed since
  it began; one answer takes one request off and keeps that true (`OneAnswer`, by
  `EntityRequests` and `AccountRequests`, which say that every entity and every
  account is asked about), and with no request left nothing is lacking.

The assumptions are the named ASSUMEs of the modules; TLC evaluates them on every
run. The theorems are about every value of the constants, the bounds included.

Only model-checked: everything under fairness (`EveryRequestAnswered`,
`CatchesUp`, `SyncIsAnswered`, `StopEnds`), which no backend here can prove; that the
search misses nothing and where the results stand (`PaletteLists`), which is what a
recursive definition computes.

## 5. What the violations show

Two runs are expected to end with a violation:

* `AuthEnrollSplit`: a ROLLBACK in a `catch` (`AuthHandlers.cpp:362`) ends another
  request's transaction; the rest of that enrollment autocommits statement by
  statement. The comments at `:268` and `:346` say one transaction.
* `PlaidOverlap`: worker and force-sync on one account (`AccountsHandler.cpp:398`).
  The older page is applied last, the newer cursor is stored last, both syncs are
  over, and none that follows asks for that change again. `V0_2_PLAN.md:407` says
  "TUIs see updated transactions on next refresh".

More are reached by changing constants of a run and checking the property named, in
place of its own; the specifications define all of them. Most of the server's come
from one decision, a single SQLite connection for all threads with transactions that
belong to the connection, and from statements whose result nobody looks at:

| Property | In | Change | What happens |
|---|---|---|---|
| `RecordIsKept` | `AuthSerial` | `MaxConcurrent = 3`, `MaxCrashes = 0` | a handler's ROLLBACK (`AuthHandlers.cpp:362`) takes the row of another thread's `record`, whose COMMIT then ends a third request's transaction: it returns normally, 200 is answered, and the event is gone; `SqlAuditLog.h:7` says `record()` is safe to call concurrently |
| `AnswersAreTrue`, `EffectsAreRecorded` | `AuthSerial` | `MaxConcurrent = 2` | a logout or login answers 200 and its write is rolled back later; `sqlite3_changes()` is overwritten between UPDATE and query, and the revocation is not audited |
| `RevokeIsTruthful` | `AuthSerial` | `CliEnabled = TRUE`, `SeedTokens = {tokA}` | the UPDATE fails because the CLI writes, and `sqlite3_changes()` still reports the write before it (`Session.cpp:221`; `Session.h:83` says "a row was found and updated") |
| `RestNotBehind` | `PlaidTurns` | `CliEnabled = TRUE` | a refused row is skipped and the cursor moves past it (`PlaidSyncScheduler.cpp:157`), so that clients never see it |
| `RowsNotBehind` | `PlaidTurns` | `Foreign = TRUE` | another handler's ROLLBACK takes rows back and leaves the cursor |
| `ChangesAreRecorded` | `Data` | `Regimes <- MCAlone` | the event of a created transaction holds the account's id, 32 hex digits, which the sanitizer takes for a token: `record` writes `audit_record_rejected` in its place and returns normally, and 201 is answered. The same goes for a name or a kind that is a word of 32 letters (`AccountsHandler.cpp:244`, `CategoriesHandler.cpp:209`); `docs/THREAT_MODEL.md:159` says that every sensitive data operation writes an audit row with its action |
| `DeletedIsGone` | `Data` | `Regimes <- MCAlone` | an entity's owner is a membership row that refers to the entity, so the DELETE always fails on the foreign key; it is answered 200 and audited as `entity_deleted` (`EntitiesHandler.cpp:351`; `EntitiesHandler.h:10` says "delete entity"). An account that has transactions fares the same |
| `UpdatedWholeBesideCli` | `Data` | `Regimes <- MCBesideCli` | one of an account's UPDATEs is refused, the other done; 200, audited as a success |
| `CreatedIsKeptBeside` | `Data` | `Regimes <- MCPair` | a request without a session rolls back the INSERT of another, which has answered 201; `Database.h:92` says that threads must not share a `Database` |
| `OneShot` | `Link` | `Regimes <- MCPair` | two callbacks of one link: both resolve it, then both consume it (`PlaidLinkHandler.cpp:384`); `:106` says one-shot |
| `PaletteRanks` | `Ui` | none | `kRecursionLimit` counts the calls of a search in total (`fuzzy_match.h:111`), not its depth (`:53`): typing "Swit" a search is cut before its best placement, and its command stands behind worse ones |
| `EscAtHomeIsNoOp` | `Ui` | none | Esc on the home view with nothing open leaves the program without saving (`FocusController.cpp:181`); `docs/UI_REDESIGN_V0.3.md:212` and the comments at `FocusController.cpp:160` and `main.cpp:1565` say no-op |
| `LogoutRevokes` | `Client` | none | `handle_logout` answers 200 always (`AuthHandlers.cpp:546`), also when its UPDATE was refused, and the client reports the session as revoked; `AuthService.h:80` says "true on successful revocation" |
| `LoadIsComplete` | `Client` | none | a load takes the first page of each list and ignores `next_cursor` (`RemoteBackendStorageService.cpp:253`); its header says "Fetch all" (`RemoteBackendStorageService.h:24`) |
| `MigrationArrives` | `Client` | `FileRows <- MCWrittenRows` | the migrator posts a file's `llc` as the kind, which the server refuses with 400 (`EntitiesHandler.cpp:185`); accounts and transactions are posted under ids the server does not have, categories and budgets to routes it does not have. Nothing of a file that the program wrote arrives; `tests/test_v01_migrator.cpp:170` expects an entity of type `individual` to be created |

The sanitizer's key list is not "closed by default" (`docs/ARCHITECTURE.md:138`): an
unknown key is allowed unless it contains a denied word (`Sanitizer.cpp:89-104`). A
failure to write even `audit_record_rejected` is swallowed, which is why
`SuccessIsRecorded` leaves refused events out altogether.

Where the models follow code that does other than a comment or a document says, or
than one would expect:

* boot: `server/main.cpp:191` says that an existing file without a key is a hard
  failure; the code accepts a plain SQLite file (`:284`). A process killed between
  `sqlite3_open` and its first write leaves an empty file, which a server without a
  key then refuses (the exception in `SoleBootSucceeds`);
* UI: help opened from the palette leaves the controller's level off Modal while it
  is open; two of the widget commands focus another widget than the one they name (`src/main.cpp:661`); a refresh that
  brings fewer entities leaves an index past the end (`phase = "undefined"`), after
  which the code's behaviour is undefined and the model stops. The limit of the palette's search reorders its list for "Swit" and
  the like ("Switc", "Drill int"), for 27 of the three-letter queries, and
  hides no command; an alias typed in full is first (`PaletteLists`);
* client: two applications on the local file, a crash or a full disk within a save
  lose the file (`struck`); budgets come back without their entity; a save to the
  server is a stub; two logins at once share one temporary file and can leave an
  empty secret (`Void`), although `FileSecretStore.cpp:68` relies on the rename;
  `--logout` reports every failure as a transport error, also when the cache was
  cleared (`src/main.cpp:1136`); a session that ends between whoami and the first
  load makes the application fall back to the local file silently;
* migrator: of a file whose types are the server's words (none that the program
  wrote) the entities arrive, under ids that the server gives them. It never answers
  409, so a second migration of such a file makes them twice, although
  `V01Migrator.h:6` and `docs/MIGRATION_V0.1_TO_V0.2.md:125-132` say idempotent.

## 6. Not modelled, and what is left

| Part | Why |
|---|---|
| TOTP and passphrase (`Totp.cpp`, `PassphraseHash.cpp`) | HMAC and Argon2id are a Boolean input of a login |
| Client models (`src/models`) | sums and filters over in-memory lists of floating-point amounts, recomputed at every call: no control; what is loaded into them is in `Client` |
| Consolidation, client Plaid service | used by tests only; decided by similarity of strings and floating-point amounts |
| Envelope encryption | libsodium on byte strings; decryption is a choice of token, none or failure |
| Keychain and DPAPI stores | single calls of other operating systems |
| Lists and their pages (`TransactionsHandler.cpp:199`) | what a list contains; that its cursor is an offset into newest-first rows is a hazard without a property. `Client` knows the first page of an account's transactions as what a load brings |
| cpp-httplib, curl, TLS, `/healthz` | libraries, and constants |
| Views, drills, widgets, client utilities | rendering, wording, validation of strings |
| Stub audit log, `tools/monitor`, build files, tests | a test double, a separate program that only reads, no part of the running system |

Floating-point amounts (`PlaidApiClient.cpp:196` truncates, `:254` rounds) are
outside TLA+.

What would be worth adding to this: the pages of a list against inserts between
them.
