-------------------------------- MODULE Boot --------------------------------
(***************************************************************************)
(* Processes of greylock-server on one database file: server boots and the *)
(* admin CLI (server/main.cpp), each of which opens the file (Database.h)  *)
(* and migrates it (db/Migrations.cpp) before it does anything else.       *)
(*                                                                         *)
(* A process is its arguments and its environment; what a mint or a list   *)
(* does with the open database is module AuthServer's.  A migration is the *)
(* tables (with their indexes) and columns that it adds.                   *)
(***************************************************************************)
EXTENDS Integers, Sequences, FiniteSets

CONSTANTS Procs,
          Versions,   \* the registered migrations, of 1 .. 9
          Keys,       \* well-formed values of TF_MASTER_KEY
          NoKey, BadKey,  \* unset, and anything that is not 64 hex digits
          Launches,   \* what operators start, see LaunchType
          MaxCrashes  \* bound

Words == {"--mint-enrollment-token", "--ttl", "--list-users", "email", "", "60", "soon"}
Numbers == {"60"}

LaunchType ==
  [args : Seq(Words), key : Keys \union {NoKey, BadKey}, port : Int,
   plaid : BOOLEAN, cert : BOOLEAN]

VARIABLES pc,
          env,    \* env[p]: how p was launched
          cur,    \* cur[p]: the version that p has read
          alone,  \* alone[p]: no other process has run while p did
          met,    \* met[p]: the file as p met it when it was launched
          file,   \* "absent", "empty" (0 bytes), "plain", or the key it has
          schema, \* what is committed
          draft,  \* what the process in a transaction sees
          writer, \* the process in a transaction, which has the file's lock
          sched,  \* the processes whose Plaid scheduler is running
          crashes

vars == <<pc, env, cur, alone, met, file, schema, draft, writer, sched, crashes>>

Nobody == "nobody"
Final == {"exit0", "exit1", "dead"}
Alive == {p \in Procs : pc[p] \notin Final \union {"new"}}

(* What the migrations add.  No statement of theirs says IF NOT EXISTS.      *)
M001_initial_schema ==
  {"users", "entities", "entity_memberships", "accounts", "transactions", "audit_log",
   "sessions", "enrollment_tokens"}
M002_categories_table == {"categories"}
M003_budgets_table == {"budgets"}
M004_plaid_sync_state == {"plaid_sync_state"}
M005_plaid_pending_links == {"plaid_pending_links"}
M006_account_institution == {"accounts.institution"}
M007_reimbursements == {"reimbursements"}
M008_v3_workflow ==
  {"actions", "edges", "notes", "note_tags", "note_links", "decisions", "tasks", "events"}
M009_v4_intelligence ==
  {"embeddings", "inferences", "pending_extractions", "targets", "relationships",
   "real_estate"}

Adds ==
  <<M001_initial_schema, M002_categories_table, M003_budgets_table,
    M004_plaid_sync_state, M005_plaid_pending_links, M006_account_institution,
    M007_reimbursements, M008_v3_workflow, M009_v4_intelligence>>

AllTables == (UNION {Adds[v] : v \in DOMAIN Adds}) \union {"schema_migrations"}

\* ALTER TABLE needs its table.
Needs(v) == IF v = 6 THEN {"accounts"} ELSE {}

ASSUME BootAssumption == Versions \subseteq DOMAIN Adds /\ Nobody \notin Procs

\* What a migration needs comes from an earlier one.
ASSUME BootNeedsAssumption ==
  \A v \in Versions : Needs(v) \subseteq UNION {Adds[w] : w \in {u \in Versions : u < v}}

\* A key is neither a state of the file nor what stands for a bad one.
ASSUME BootKeysAssumption ==
  /\ (Keys \union {NoKey, BadKey}) \intersect {"absent", "empty", "plain"} = {}
  /\ NoKey \notin Keys /\ BadKey \notin Keys /\ NoKey # BadKey
  /\ \A l \in Launches : l.key \in Keys \union {NoKey, BadKey}

\* What exists, and the versions recorded.
NoSchema == [made |-> {}, applied |-> {}]

Init ==
  /\ pc = [p \in Procs |-> "new"]
  /\ env = [p \in Procs |-> "none"]
  /\ cur = [p \in Procs |-> 0]
  /\ alone = [p \in Procs |-> TRUE]
  /\ met = [p \in Procs |-> "absent"]
  /\ file = "absent"
  /\ schema = NoSchema /\ draft = NoSchema
  /\ writer = Nobody /\ sched = {} /\ crashes = 0

Goto(p, label) == pc' = [pc EXCEPT ![p] = label]

-----------------------------------------------------------------------------
(* Arguments and environment                                                *)

TakesValue == {"--mint-enrollment-token", "--ttl"}

\* main's loop over argv: a flag that takes a value swallows the next word, whatever
\* it is; without a next word it is ignored like any word main does not know.
IsFlag(args) ==
  LET at[i \in DOMAIN args] == i = 1 \/ ~(at[i - 1] /\ args[i - 1] \in TakesValue)
  IN  at

Given(args, flag) == {i \in DOMAIN args : IsFlag(args)[i] /\ args[i] = flag}
Values(args, flag) == {args[i + 1] : i \in Given(args, flag) \ {Len(args)}}
Email(args) ==
  LET at == Given(args, "--mint-enrollment-token") \ {Len(args)}
  IN  args[1 + (CHOOSE i \in at : \A j \in at : j <= i)]

Role(args) ==
  CASE ~(Values(args, "--ttl") \subseteq Numbers) -> "exit1"
    [] Values(args, "--mint-enrollment-token") # {}
         -> IF Email(args) = "" THEN "exit1" ELSE "mint"
    [] Given(args, "--list-users") # {} -> "list"
    [] OTHER -> "server"

\* TF_SERVER_PORT, 0 standing for a value that is no number.
DefaultPort == 8443
EnvPort(val) == IF val < 1 \/ val > 65535 THEN DefaultPort ELSE val

\* A process runs main with the file in whatever state it finds it.
Launch(p) ==
  /\ pc[p] = "new"
  /\ \E l \in Launches :
       /\ env' = [env EXCEPT ![p] = l]
       /\ Goto(p, CASE Role(l.args) = "exit1" -> "exit1"
                    [] Role(l.args) = "server" /\ l.key = NoKey -> "policy"
                    [] OTHER -> "open")
  /\ met' = [met EXCEPT ![p] = file]
  /\ alone' = [q \in Procs |-> alone[q] /\ (q \notin Alive \union {p} \/ Alive = {})]
  /\ UNCHANGED <<cur, file, schema, draft, writer, sched, crashes>>

PolicyExisting(p) ==
  /\ pc[p] = "policy"
  /\ Goto(p, IF file = "absent" THEN "open" ELSE "exit1")
  /\ UNCHANGED <<env, cur, alone, met, file, schema, draft, writer, sched, crashes>>

\* Without a key a server refuses a file that has not the magic of plain SQLite.
Policy(p) ==
  /\ pc[p] = "policy"
  /\ Goto(p, IF file \in {"absent", "plain"} THEN "open" ELSE "exit1")
  /\ UNCHANGED <<env, cur, alone, met, file, schema, draft, writer, sched, crashes>>

-----------------------------------------------------------------------------
(* The constructor of Database, and apply_pending                           *)

Key(p) == env[p].key

\* The key is validated before the file is touched; sqlite3_open creates the file;
\* PRAGMA key and the sanity query need the file to be new or of that key.
Open(p) ==
  /\ pc[p] = "open"
  /\ IF Key(p) = BadKey
     THEN Goto(p, "exit1") /\ UNCHANGED file
     ELSE /\ file' = IF file = "absent" THEN "empty" ELSE file
          /\ Goto(p, IF Key(p) \in Keys /\ file \notin {"absent", "empty", Key(p)}
                     THEN "exit1" ELSE "ensure")
  /\ UNCHANGED <<env, cur, alone, met, schema, draft, writer, sched, crashes>>

\* What a statement needs: a file of its key, and, to write, the lock.  No
\* busy_timeout is set: SQLITE_BUSY is thrown at once.
Readable(p) == file \in {"empty", IF Key(p) = NoKey THEN "plain" ELSE Key(p)}
Free == writer = Nobody

\* CREATE TABLE IF NOT EXISTS schema_migrations: the first write gives the file
\* its format.
Ensure(p) ==
  /\ pc[p] = "ensure"
  /\ IF Readable(p) /\ ("schema_migrations" \in schema.made \/ Free)
     THEN /\ file' = IF Key(p) = NoKey THEN "plain" ELSE Key(p)
          /\ schema' = [schema EXCEPT !.made = @ \union {"schema_migrations"}]
          /\ Goto(p, "version")
     ELSE Goto(p, "exit1") /\ UNCHANGED <<file, schema>>
  /\ UNCHANGED <<env, cur, alone, met, draft, writer, sched, crashes>>

Newest(versions) == CHOOSE v \in versions \union {0} : \A w \in versions : w <= v

\* current_version, read once and before any transaction.
ReadVersion(p) ==
  /\ pc[p] = "version"
  /\ cur' = [cur EXCEPT ![p] = Newest(schema.applied)]
  /\ Goto(p, "loop")
  /\ UNCHANGED <<env, alone, met, file, schema, draft, writer, sched, crashes>>

Pending(p) == {v \in Versions : v > cur[p]}
NextPending(p) == CHOOSE v \in Pending(p) : \A w \in Pending(p) : v <= w

BeginOrSkip(p) ==
  /\ pc[p] = "loop" /\ Pending(p) # {}
  /\ IF Free
     THEN writer' = p /\ draft' = schema /\ Goto(p, "up") /\ UNCHANGED cur
     ELSE /\ cur' = [cur EXCEPT ![p] = NextPending(p)]
          /\ UNCHANGED <<pc, writer, draft>>
  /\ UNCHANGED <<env, alone, met, file, schema, sched, crashes>>

\* BEGIN IMMEDIATE is outside the try block.
BeginMigration(p) ==
  /\ pc[p] = "loop" /\ Pending(p) # {}
  /\ IF Free
     THEN writer' = p /\ draft' = schema /\ Goto(p, "up")
     ELSE Goto(p, "exit1") /\ UNCHANGED <<writer, draft>>
  /\ UNCHANGED <<env, cur, alone, met, file, schema, sched, crashes>>

Rollback(p) ==
  /\ writer' = Nobody /\ draft' = NoSchema
  /\ Goto(p, "exit1")
  /\ UNCHANGED schema

CannotAdd(v) == Adds[v] \intersect draft.made # {} \/ ~(Needs(v) \subseteq draft.made)

UpWithoutTransaction(p) ==
  /\ pc[p] = "up"
  /\ LET v == NextPending(p)
     IN  IF CannotAdd(v)
         THEN Rollback(p)
         ELSE /\ draft' = [draft EXCEPT !.made = @ \union Adds[v]]
              /\ schema' = draft'
              /\ Goto(p, "record") /\ UNCHANGED writer
  /\ UNCHANGED <<env, cur, alone, met, file, sched, crashes>>

\* up() fails if another process has made the table since.
Up(p) ==
  /\ pc[p] = "up"
  /\ LET v == NextPending(p)
     IN  IF CannotAdd(v)
         THEN Rollback(p)
         ELSE /\ draft' = [draft EXCEPT !.made = @ \union Adds[v]]
              /\ Goto(p, "record")
              /\ UNCHANGED <<schema, writer>>
  /\ UNCHANGED <<env, cur, alone, met, file, sched, crashes>>

RecordVersion(p) ==
  /\ pc[p] = "record"
  /\ draft' = [draft EXCEPT !.applied = @ \union {NextPending(p)}]
  /\ Goto(p, "commit")
  /\ UNCHANGED <<env, cur, alone, met, file, schema, writer, sched, crashes>>

CommitKeepsLock(p) ==
  /\ pc[p] = "commit"
  /\ schema' = draft
  /\ cur' = [cur EXCEPT ![p] = NextPending(p)]
  /\ Goto(p, "loop")
  /\ UNCHANGED <<env, alone, met, file, draft, writer, sched, crashes>>

\* COMMIT, which another process that happens to read can make fail.
CommitMigration(p) ==
  /\ pc[p] = "commit"
  /\ \/ /\ schema' = draft
        /\ draft' = NoSchema /\ writer' = Nobody
        /\ cur' = [cur EXCEPT ![p] = NextPending(p)]
        /\ Goto(p, "loop")
     \/ Alive # {p} /\ Rollback(p) /\ UNCHANGED cur
  /\ UNCHANGED <<env, alone, met, file, sched, crashes>>

\* SQLITE_BUSY outside a transaction: another process writes or commits just when p
\* reads the file with its key, the version or the users, or is about to write.
FileBusy(p) ==
  /\ Alive # {p} /\ file # "absent"
  /\ \/ pc[p] = "open" /\ Key(p) \in Keys
     \/ pc[p] \in {"ensure", "version", "cli"}
     \/ pc[p] = "loop" /\ Pending(p) # {}
  /\ Goto(p, "exit1")
  /\ UNCHANGED <<env, cur, alone, met, file, schema, draft, writer, sched, crashes>>

\* All pending migrations are applied.
Migrated(p) ==
  /\ pc[p] = "loop" /\ Pending(p) = {}
  /\ Goto(p, IF Role(env[p].args) = "server" THEN "wire" ELSE "cli")
  /\ UNCHANGED <<env, cur, alone, met, file, schema, draft, writer, sched, crashes>>

\* --mint-enrollment-token writes a row and fails if it cannot; --list-users reads.
Cli(p) ==
  /\ pc[p] = "cli"
  /\ Goto(p, IF Role(env[p].args) = "mint" /\ ~Free THEN "exit1" ELSE "exit0")
  /\ UNCHANGED <<env, cur, alone, met, file, schema, draft, writer, sched, crashes>>

-----------------------------------------------------------------------------
(* The rest of a server's boot                                              *)

\* The scheduler needs the broker, which needs the key, and Plaid's credentials.
HasScheduler(p) == env[p].plaid /\ Key(p) # NoKey

\* Server's constructor throws on a bad certificate, and nobody catches; routes are
\* registered and the scheduler is started before the port is bound.
Wire(p) ==
  /\ pc[p] = "wire"
  /\ IF env[p].cert
     THEN Goto(p, "bind") /\ sched' = IF HasScheduler(p) THEN sched \union {p} ELSE sched
     ELSE Goto(p, "dead") /\ UNCHANGED sched
  /\ UNCHANGED <<env, cur, alone, met, file, schema, draft, writer, crashes>>

Port(p) == EnvPort(env[p].port)
Listening == {p \in Procs : pc[p] = "serve"}

Bind(p) ==
  /\ pc[p] = "bind"
  /\ Goto(p, IF \E q \in Listening : Port(q) = Port(p) THEN "stop1" ELSE "serve")
  /\ UNCHANGED <<env, cur, alone, met, file, schema, draft, writer, sched, crashes>>

\* SIGINT or SIGTERM: the listener comes back from start().
Signal(p) ==
  /\ pc[p] = "serve"
  /\ Goto(p, "stop0")
  /\ UNCHANGED <<env, cur, alone, met, file, schema, draft, writer, sched, crashes>>

\* The scheduler is stopped, and joined, whether the port was bound or not.
StopScheduler(p) ==
  /\ pc[p] \in {"stop0", "stop1"}
  /\ sched' = sched \ {p}
  /\ Goto(p, IF pc[p] = "stop0" THEN "exit0" ELSE "exit1")
  /\ UNCHANGED <<env, cur, alone, met, file, schema, draft, writer, crashes>>

-----------------------------------------------------------------------------
\* A process is killed; SQLite's journal takes its transaction back.
Crash(p) ==
  /\ crashes < MaxCrashes
  /\ p \in Alive
  /\ crashes' = crashes + 1
  /\ Goto(p, "dead")
  /\ writer' = IF writer = p THEN Nobody ELSE writer
  /\ draft' = IF writer = p THEN NoSchema ELSE draft
  /\ sched' = sched \ {p}
  /\ UNCHANGED <<env, cur, alone, met, file, schema>>

Main(p) ==
  \/ Policy(p) \/ Open(p) \/ FileBusy(p) \/ Ensure(p) \/ ReadVersion(p)
  \/ BeginMigration(p) \/ Up(p) \/ RecordVersion(p) \/ CommitMigration(p) \/ Migrated(p)
  \/ Cli(p) \/ Wire(p) \/ Bind(p) \/ StopScheduler(p)

Over == (\A p \in Procs : pc[p] \in Final) /\ UNCHANGED vars

Next == (\E p \in Procs : Launch(p) \/ Main(p) \/ Signal(p) \/ Crash(p)) \/ Over

Spec == Init /\ [][Next]_vars
-----------------------------------------------------------------------------
Formats == {"absent", "empty", "plain"} \union Keys
Booting == {"policy", "open", "ensure", "version", "loop", "up", "record", "commit"}
Booted == {"cli", "wire", "bind", "serve", "stop0", "stop1"}

Opened == (Booting \ {"policy", "open"}) \union Booted

\* The types, and that whoever is inside a migration has the lock and nobody has
\* opened the file with a malformed key.
TypeOK ==
  /\ pc \in [Procs -> {"new"} \union Booting \union Booted \union Final]
  /\ DOMAIN env = Procs
  /\ \A p \in Procs : pc[p] = "new" \/ env[p] \in Launches
  /\ \A p \in Procs : pc[p] \in Opened => Key(p) # BadKey
  /\ cur \in [Procs -> Versions \union {0}]
  /\ alone \in [Procs -> BOOLEAN] /\ met \in [Procs -> Formats]
  /\ file \in Formats
  /\ schema \in [made : SUBSET AllTables, applied : SUBSET Versions]
  /\ draft \in [made : SUBSET AllTables, applied : SUBSET Versions]
  /\ \A p \in Procs : pc[p] \in {"up", "record", "commit"} <=> writer = p
  /\ sched \subseteq Procs /\ crashes \in Nat

\* However many processes migrate at once and wherever they die: the tables that
\* exist are those of the versions recorded, which have no gap.  So a later boot
\* neither misses a migration nor stumbles over half of one.
SchemaWhole ==
  /\ schema.made \ {"schema_migrations"} = UNION {Adds[v] : v \in schema.applied}
  /\ \A v \in schema.applied : \A w \in Versions : w < v => w \in schema.applied

\* Nobody serves, mints or lists on an old schema, or on a file that has not his
\* key; without one only on a plain file.
ServesCurrent ==
  \A p \in Procs : pc[p] \in Booted =>
    /\ schema.applied = Versions
    /\ file = IF Key(p) = NoKey THEN "plain" ELSE Key(p)

\* A server that has the file to itself and the right key comes up, whatever
\* crashed before it.  The exception: a process killed between sqlite3_open and its
\* first write leaves an empty file, which a server without a key refuses.
SoleBootSucceeds ==
  \A p \in Procs :
    /\ pc[p] = "exit1"
    /\ Role(env[p].args) # "exit1"
    /\ alone[p]
    => \/ Key(p) = BadKey
       \/ met[p] \notin {"absent", IF Key(p) = NoKey THEN "plain" ELSE Key(p)}
            /\ (met[p] = "empty" => Key(p) = NoKey)
=============================================================================
