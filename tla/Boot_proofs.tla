---------------------------- MODULE Boot_proofs ----------------------------
(***************************************************************************)
(* Theorems about Boot for any processes, launches, keys and crashes, and  *)
(* any selection of the nine migrations.                                   *)
(***************************************************************************)
EXTENDS Boot, TLAPS

InTxn == {"up", "record", "commit"}

-----------------------------------------------------------------------------
(* The migrations                                                           *)

LEMMA AddsDomain == DOMAIN Adds = 1 .. 9
BY DEF Adds

LEMMA VersionsAreInts == Versions \subseteq 1 .. 9 /\ \A v \in Versions : v \in Int
<1>1. Versions \subseteq 1 .. 9
  BY AddsDomain, BootAssumption
<1> QED BY <1>1

LEMMA AddsTables ==
  ASSUME NEW v \in Versions
  PROVE  Adds[v] \subseteq AllTables /\ "schema_migrations" \notin Adds[v]
<1>1. v \in DOMAIN Adds
  BY BootAssumption
<1>2. Adds[v] \subseteq AllTables
  BY <1>1, Zenon DEF AllTables
<1>3. "schema_migrations" \notin Adds[v]
  BY <1>1, AddsDomain
  DEF Adds, M001_initial_schema, M002_categories_table, M003_budgets_table,
      M004_plaid_sync_state, M005_plaid_pending_links, M006_account_institution,
      M007_reimbursements, M008_v3_workflow, M009_v4_intelligence
<1> QED BY <1>2, <1>3

\* A set of versions has a greatest element, or none, and a least.
LEMMA Extremes ==
  ASSUME NEW S \in SUBSET (1 .. 9)
  PROVE  /\ \E v \in S \union {0} : \A w \in S : w <= v
         /\ S # {} => \E v \in S : \A w \in S : v <= w
<1>1. \E v \in S \union {0} : \A w \in S : w <= v
  <2> DEFINE m == IF 9 \in S THEN 9 ELSE IF 8 \in S THEN 8 ELSE IF 7 \in S THEN 7
                  ELSE IF 6 \in S THEN 6 ELSE IF 5 \in S THEN 5 ELSE IF 4 \in S THEN 4
                  ELSE IF 3 \in S THEN 3 ELSE IF 2 \in S THEN 2 ELSE IF 1 \in S THEN 1 ELSE 0
  <2>1. m \in S \union {0} /\ \A w \in S : w <= m
    OBVIOUS
  <2> HIDE DEF m
  <2> QED BY <2>1, Zenon
<1>2. ASSUME NEW x \in S
      PROVE  \E v \in S : \A w \in S : v <= w
  <2> DEFINE m == IF 1 \in S THEN 1 ELSE IF 2 \in S THEN 2 ELSE IF 3 \in S THEN 3
                  ELSE IF 4 \in S THEN 4 ELSE IF 5 \in S THEN 5 ELSE IF 6 \in S THEN 6
                  ELSE IF 7 \in S THEN 7 ELSE IF 8 \in S THEN 8 ELSE 9
  <2>1. x \in 1 .. 9
    OBVIOUS
  <2>2. m \in S
    BY <2>1
  <2>3. \A w \in S : m <= w
    OBVIOUS
  <2> HIDE DEF m
  <2> QED BY <2>2, <2>3, Zenon
<1> QED BY <1>1, <1>2

LEMMA NewestFacts ==
  ASSUME NEW S \in SUBSET Versions
  PROVE  Newest(S) \in S \union {0} /\ \A w \in S : w <= Newest(S)
BY VersionsAreInts, Extremes DEF Newest

LEMMA CurIsInt ==
  ASSUME TypeOK, NEW p \in Procs
  PROVE  cur[p] \in Int
<1>1. cur[p] \in Versions \union {0}
  BY DEF TypeOK
<1>2. CASE cur[p] \in Versions
  BY <1>2, VersionsAreInts, Zenon
<1> QED BY <1>1, <1>2

\* The next migration is the first one past the version that was read.
LEMMA NextFacts ==
  ASSUME NEW p \in Procs, cur[p] \in Versions \union {0}, Pending(p) # {}
  PROVE  /\ NextPending(p) \in Versions /\ cur[p] < NextPending(p)
         /\ \A v \in Versions : v < NextPending(p) => v <= cur[p]
<1> DEFINE n == NextPending(p)
<1>1. Pending(p) \in SUBSET (1 .. 9) /\ Pending(p) \subseteq Versions
  BY VersionsAreInts DEF Pending
<1>2. n \in Pending(p) /\ \A w \in Pending(p) : n <= w
  <2>1. \E v \in Pending(p) : \A w \in Pending(p) : v <= w
    BY <1>1, Extremes
  <2> HIDE DEF Pending
  <2> QED BY <2>1, Zenon DEF NextPending
<1> HIDE DEF n
<1>3. n \in Versions /\ n > cur[p]
  BY <1>2 DEF Pending
<1>4. ASSUME NEW v \in Versions, v < n
      PROVE  v <= cur[p]
  <2>1. v \notin Pending(p)
    BY <1>2, <1>3, <1>4, VersionsAreInts
  <2>2. v \in Int
    BY VersionsAreInts
  <2>3. ~(v > cur[p])
    BY <2>1 DEF Pending
  <2>4. cur[p] \in Int
    <3>1. CASE cur[p] = 0
      BY <3>1
    <3>2. CASE cur[p] \in Versions
      BY <3>2, VersionsAreInts, Zenon
    <3> QED BY <3>1, <3>2
  <2> QED BY <2>2, <2>3, <2>4
<1> QED BY <1>3, <1>4, VersionsAreInts DEF n

-----------------------------------------------------------------------------
(* Types                                                                    *)

SchemaType == [made : SUBSET AllTables, applied : SUBSET Versions]

LEMMA TypeInit == Init => TypeOK
<1> SUFFICES ASSUME Init PROVE TypeOK
  OBVIOUS
<1>1. NoSchema \in SchemaType
  BY DEF NoSchema, SchemaType
<1>2. \A p \in Procs : pc[p] = "new"
  BY DEF Init
<1>3. writer \notin Procs
  BY BootAssumption DEF Init
<1> QED BY <1>1, <1>2, <1>3 DEF Init, TypeOK, SchemaType, Formats, Opened, Booting, Booted

\* The steps before the tables are touched, and after.
LEMMA OutsideTypes ==
  ASSUME TypeOK, NEW p \in Procs,
         Launch(p) \/ Policy(p) \/ Open(p) \/ ReadVersion(p) \/ Migrated(p) \/ Cli(p)
           \/ FileBusy(p) \/ Wire(p) \/ Bind(p) \/ Signal(p) \/ StopScheduler(p)
  PROVE  TypeOK'
<1>1. UNCHANGED <<schema, draft, writer, crashes>>
  BY DEF Launch, Policy, Open, ReadVersion, Migrated, Cli, FileBusy, Wire, Bind, Signal, StopScheduler
<1>2. /\ pc' \in [Procs -> {"new"} \union Booting \union Booted \union Final]
      /\ pc[p] \notin InTxn /\ pc'[p] \notin InTxn
      /\ \A q \in Procs : q # p => pc'[q] = pc[q]
      /\ env' = env \/ Launch(p)
  BY DEF Launch, Policy, Open, ReadVersion, Migrated, Cli, FileBusy, Wire, Bind, Signal, StopScheduler,
         TypeOK, Goto, InTxn, Booting, Booted, Final
<1>3. \A q \in Procs : pc'[q] = "new" \/ env'[q] \in Launches
  <2>1. CASE Launch(p)
    BY <1>2, <2>1 DEF Launch, TypeOK
  <2>2. CASE env' = env
    <3>1. pc[p] # "new" \/ Launch(p)
      BY DEF Policy, Open, ReadVersion, Migrated, Cli, FileBusy, Wire, Bind, Signal, StopScheduler
    <3> QED BY <1>2, <2>1, <2>2, <3>1 DEF TypeOK
  <2> QED BY <1>2, <2>1, <2>2
<1>4. cur' \in [Procs -> Versions \union {0}]
  <2>1. CASE ReadVersion(p)
    BY <2>1, NewestFacts DEF ReadVersion, TypeOK
  <2>2. CASE UNCHANGED cur
    BY <2>2 DEF TypeOK
  <2> QED BY <2>1, <2>2
          DEF Launch, Policy, Open, Migrated, Cli, FileBusy, Wire, Bind, Signal, StopScheduler
<1>5. /\ alone' \in [Procs -> BOOLEAN] /\ met' \in [Procs -> Formats]
      /\ file' \in Formats /\ sched' \subseteq Procs
  <2>1. CASE Launch(p)
    BY <2>1 DEF Launch, TypeOK
  <2>2. CASE Open(p)
    BY <2>2 DEF Open, TypeOK, Formats
  <2>3. CASE Wire(p) \/ StopScheduler(p)
    BY <2>3 DEF Wire, StopScheduler, TypeOK
  <2>4. CASE UNCHANGED <<alone, met, file, sched>>
    BY <2>4 DEF TypeOK
  <2> QED BY <2>1, <2>2, <2>3, <2>4 DEF Policy, ReadVersion, Migrated, Cli, FileBusy, Bind, Signal
<1>6. \A q \in Procs : pc'[q] \in InTxn <=> writer' = q
  BY <1>1, <1>2 DEF TypeOK, InTxn
<1>7. DOMAIN env' = Procs
  BY DEF Launch, Policy, Open, ReadVersion, Migrated, Cli, FileBusy, Wire, Bind, Signal, StopScheduler, TypeOK
<1>8. \A q \in Procs : pc'[q] \in Opened => Key(q)' # BadKey
  <2>1. pc'[p] \in Opened => /\ env' = env
                             /\ pc[p] \in Opened \/ (Open(p) /\ Key(p) # BadKey)
    BY DEF Launch, Policy, Open, ReadVersion, Migrated, Cli, FileBusy, Wire, Bind, Signal, StopScheduler,
           TypeOK, Goto, Opened, Booting, Booted
  <2>2. \A q \in Procs : q # p => env'[q] = env[q]
    BY DEF Launch, Policy, Open, ReadVersion, Migrated, Cli, FileBusy, Wire, Bind, Signal, StopScheduler, TypeOK
  <2> QED BY <1>2, <2>1, <2>2 DEF TypeOK, Key
<1> QED BY <1>1, <1>2, <1>3, <1>4, <1>5, <1>6, <1>7, <1>8 DEF TypeOK, InTxn, SchemaType

LEMMA EnsureTypes ==
  ASSUME TypeOK, NEW p \in Procs, Ensure(p)
  PROVE  TypeOK'
<1>1. "schema_migrations" \in AllTables
  <2>1. \A S : "schema_migrations" \in S \union {"schema_migrations"}
    OBVIOUS
  <2> QED BY <2>1, Zenon DEF AllTables
<1>2. schema' \in SchemaType
  BY <1>1 DEF Ensure, TypeOK, SchemaType
<1>3. pc[p] = "ensure" /\ (pc' = [pc EXCEPT ![p] = "version"] \/ pc' = [pc EXCEPT ![p] = "exit1"])
  BY DEF Ensure, Goto
<1>4. pc' \in [Procs -> {"new"} \union Booting \union Booted \union Final]
  BY <1>3 DEF TypeOK, Booting, Final
<1>5. file' \in Formats
  <2>1. Key(p) \in Keys \union {NoKey}
    BY <1>3, BootKeysAssumption DEF TypeOK, Key, Opened, Booting
  <2>2. file' = file \/ (Readable(p) /\ file' = IF Key(p) = NoKey THEN "plain" ELSE Key(p))
    BY DEF Ensure
  <2> QED BY <2>1, <2>2, BootKeysAssumption DEF TypeOK, Formats, Readable
<1>6. UNCHANGED <<env, cur, alone, met, draft, writer, sched, crashes>>
  BY DEF Ensure
<1>7. \A q \in Procs : pc'[q] \in InTxn <=> writer' = q
  BY <1>3, <1>6 DEF TypeOK, InTxn
<1>8. \A q \in Procs : pc'[q] = "new" \/ env'[q] \in Launches
  BY <1>3, <1>6 DEF TypeOK
<1>9. \A q \in Procs : pc'[q] \in Opened => Key(q)' # BadKey
  BY <1>3, <1>6 DEF TypeOK, Opened, Booting, Booted, Key
<1> QED BY <1>2, <1>4, <1>5, <1>6, <1>7, <1>8, <1>9 DEF TypeOK, SchemaType, InTxn

LEMMA MigrationTypes ==
  ASSUME TypeOK, NEW p \in Procs,
         BeginMigration(p) \/ Up(p) \/ RecordVersion(p) \/ CommitMigration(p) \/ Crash(p),
         pc[p] \in InTxn => Pending(p) # {}
  PROVE  TypeOK'
<1> DEFINE n == NextPending(p)
<1>1. pc[p] \in InTxn => n \in Versions
  BY NextFacts DEF TypeOK
<1> HIDE DEF n
<1>2. NoSchema \in SchemaType /\ Nobody \notin Procs
  BY BootAssumption DEF NoSchema, SchemaType
<1>3. schema' \in SchemaType /\ draft' \in SchemaType
  <2>1. CASE Up(p)
    BY <1>1, <1>2, <2>1, AddsTables DEF Up, n, InTxn, Rollback, TypeOK, SchemaType
  <2>2. CASE RecordVersion(p)
    BY <1>1, <2>2 DEF RecordVersion, n, InTxn, TypeOK, SchemaType
  <2>3. CASE BeginMigration(p) \/ CommitMigration(p) \/ Crash(p)
    BY <1>2, <2>3 DEF BeginMigration, CommitMigration, Crash, Rollback, TypeOK, SchemaType
  <2> QED BY <2>1, <2>2, <2>3
<1>4. /\ pc' \in [Procs -> {"new"} \union Booting \union Booted \union Final]
      /\ pc[p] # "new" /\ (pc'[p] \in Opened => pc[p] \in Opened)
      /\ \A q \in Procs : q # p => pc'[q] = pc[q]
  BY DEF BeginMigration, Up, RecordVersion, CommitMigration, Crash, Rollback, Goto, TypeOK,
         Booting, Booted, Final, Opened, Alive
<1>5. UNCHANGED <<env, alone, met, file>>
  BY DEF BeginMigration, Up, RecordVersion, CommitMigration, Crash
<1>6. cur' \in [Procs -> Versions \union {0}]
  BY <1>1 DEF BeginMigration, Up, RecordVersion, CommitMigration, Crash, n, InTxn, TypeOK
<1>7. sched' \subseteq Procs /\ crashes' \in Nat
  BY DEF BeginMigration, Up, RecordVersion, CommitMigration, Crash, TypeOK
<1>8. \A q \in Procs : pc'[q] \in InTxn <=> writer' = q
  <2>1. CASE BeginMigration(p)
    BY <1>2, <2>1 DEF BeginMigration, Free, Goto, TypeOK, InTxn
  <2>2. CASE Up(p)
    BY <1>2, <2>2 DEF Up, Rollback, Goto, TypeOK, InTxn
  <2>3. CASE RecordVersion(p)
    BY <2>3 DEF RecordVersion, Goto, TypeOK, InTxn
  <2>4. CASE CommitMigration(p)
    BY <1>2, <2>4 DEF CommitMigration, Rollback, Goto, TypeOK, InTxn
  <2>5. CASE Crash(p)
    BY <1>2, <2>5 DEF Crash, Goto, TypeOK, InTxn
  <2> QED BY <2>1, <2>2, <2>3, <2>4, <2>5
<1> QED BY <1>3, <1>4, <1>5, <1>6, <1>7, <1>8 DEF TypeOK, InTxn, SchemaType, Key

\* A process in a transaction has a migration to apply.
HasPending == \A p \in Procs : pc[p] \in InTxn => Pending(p) # {}

LEMMA HasPendingKept ==
  ASSUME TypeOK, HasPending, [Next]_vars
  PROVE  HasPending'
<1> SUFFICES ASSUME NEW q \in Procs, pc'[q] \in InTxn
             PROVE  Pending(q)' # {}
  BY DEF HasPending
<1>1. cur'[q] = cur[q] /\ (pc[q] \in InTxn \/ Pending(q) # {})
  <2>1. ASSUME NEW p \in Procs, Launch(p) \/ Main(p) \/ Signal(p) \/ Crash(p)
        PROVE  /\ p # q => pc'[q] = pc[q] /\ cur'[q] = cur[q]
               /\ p = q => cur'[q] = cur[q] /\ (pc[q] \in InTxn \/ Pending(q) # {})
    BY <2>1 DEF Launch, Main, Policy, Open, Ensure, ReadVersion, BeginMigration, Up, RecordVersion,
           CommitMigration, Rollback, Migrated, Cli, FileBusy, Wire, Bind, StopScheduler, Signal, Crash,
           Goto, TypeOK, InTxn
  <2>2. CASE UNCHANGED vars
    BY <2>2 DEF vars
  <2> QED BY <2>1, <2>2 DEF Next, Over
<1>2. Pending(q)' = Pending(q)
  BY <1>1 DEF Pending
<1> QED BY <1>1, <1>2 DEF HasPending

LEMMA TypeStep ==
  ASSUME TypeOK, HasPending, [Next]_vars
  PROVE  TypeOK'
<1>1. ASSUME NEW p \in Procs, Launch(p) \/ Main(p) \/ Signal(p) \/ Crash(p)
      PROVE  TypeOK'
  BY <1>1, OutsideTypes, EnsureTypes, MigrationTypes DEF Main, HasPending
<1>2. CASE UNCHANGED vars
  BY <1>2 DEF TypeOK, vars, Key
<1> QED BY <1>1, <1>2 DEF Next, Over

\* Every variable of Boot keeps its type, the lock its holder, and no process gets
\* past opening the file with a malformed key.
THEOREM TypeCorrect == Spec => []TypeOK
<1>1. Init => TypeOK /\ HasPending
  BY TypeInit DEF Init, HasPending, InTxn
<1>2. TypeOK /\ HasPending /\ [Next]_vars => (TypeOK /\ HasPending)'
  BY TypeStep, HasPendingKept
<1> QED BY <1>1, <1>2, PTL DEF Spec

-----------------------------------------------------------------------------
(* The schema                                                               *)

\* The format or key that p needs the file to have.
Needed(p) == IF Key(p) = NoKey THEN "plain" ELSE Key(p)

\* What p knows: its file, that it has not read a version which is not recorded, and,
\* in a transaction, that its draft is the committed schema and what it has added.
Knows(p) ==
  /\ pc[p] \in Opened \ {"ensure"} => file = Needed(p)
  /\ pc[p] \in Opened \ {"ensure", "version"} =>
       \A v \in Versions : v <= cur[p] => v \in schema.applied
  /\ pc[p] = "up" => draft = schema
  /\ pc[p] \in {"record", "commit"} =>
       /\ draft.made = schema.made \union Adds[NextPending(p)]
       /\ draft.applied =
            schema.applied \union (IF pc[p] = "commit" THEN {NextPending(p)} ELSE {})
  /\ pc[p] \in Booted => schema.applied = Versions

SchemaInv == SchemaWhole /\ \A p \in Procs : Knows(p)

LEMMA NeededFacts ==
  ASSUME TypeOK, NEW p \in Procs, pc[p] \in Opened
  PROVE  Needed(p) \notin {"absent", "empty"}
<1>1. Key(p) \in Keys \union {NoKey}
  BY BootKeysAssumption DEF TypeOK, Key, Opened, Booting, Booted
<1> QED BY <1>1, BootKeysAssumption DEF Needed

\* A step of p that changes neither schema nor file, nor anybody's draft.
LEMMA QuietKnows ==
  ASSUME TypeOK, SchemaInv, NEW p \in Procs, NEW q \in Procs, q # p,
         pc'[q] = pc[q], cur'[q] = cur[q], env'[q] = env[q],
         schema' = schema, file' = file \/ file \in {"absent", "empty"},
         draft' = draft \/ pc[q] \notin InTxn
  PROVE  Knows(q)'
<1>1. Needed(q)' = Needed(q) /\ NextPending(q)' = NextPending(q)
  BY DEF Needed, Key, NextPending, Pending
<1>2. pc[q] \in Opened \ {"ensure"} => file' = Needed(q)
  BY NeededFacts DEF SchemaInv, Knows
<1>3. Knows(q)
  BY DEF SchemaInv
<1> HIDE DEF Needed, NextPending, SchemaInv
<1> QED BY <1>1, <1>2, <1>3 DEF Knows, InTxn

LEMMA QuietWhole ==
  ASSUME SchemaWhole, schema' = schema
  PROVE  SchemaWhole'
BY DEF SchemaWhole

\* Only one process is in a transaction.
LEMMA OneWriter ==
  ASSUME TypeOK, NEW p \in Procs, NEW q \in Procs, q # p, pc[p] \in InTxn \/ writer \notin Procs
  PROVE  pc[q] \notin InTxn
BY DEF TypeOK, InTxn

LEMMA OutsideSchema ==
  ASSUME TypeOK, SchemaInv, NEW p \in Procs,
         Launch(p) \/ Policy(p) \/ Open(p) \/ ReadVersion(p) \/ Migrated(p) \/ Cli(p)
           \/ FileBusy(p) \/ Wire(p) \/ Bind(p) \/ Signal(p) \/ StopScheduler(p)
  PROVE  SchemaInv'
<1>1. UNCHANGED <<schema, draft>>
  BY DEF Launch, Policy, Open, ReadVersion, Migrated, Cli, FileBusy, Wire, Bind, Signal, StopScheduler
<1>2. \A q \in Procs : q # p => pc'[q] = pc[q] /\ cur'[q] = cur[q] /\ env'[q] = env[q]
  BY DEF Launch, Policy, Open, ReadVersion, Migrated, Cli, FileBusy, Wire, Bind, Signal, StopScheduler,
         TypeOK, Goto
<1>3. file' = file \/ (file \in {"absent", "empty"} /\ Open(p))
  BY DEF Launch, Policy, Open, ReadVersion, Migrated, Cli, FileBusy, Wire, Bind, Signal, StopScheduler
<1>4. \A q \in Procs : q # p => Knows(q)'
  BY <1>1, <1>2, <1>3, QuietKnows
<1>5. Knows(p)'
  <2>1. Knows(p)
    BY DEF SchemaInv
  <2>2. CASE Launch(p) \/ Policy(p) \/ Open(p)
    BY <2>2 DEF Launch, Policy, Open, TypeOK, Goto, Knows, Opened, Booting, Booted
  <2>3. CASE ReadVersion(p)
    <3>1. pc[p] = "version" /\ pc' = [pc EXCEPT ![p] = "loop"] /\ UNCHANGED <<env, file>>
      BY <2>3 DEF ReadVersion, Goto
    <3>2. pc'[p] = "loop"
      BY <3>1 DEF TypeOK
    <3>3. file' = Needed(p)'
      BY <2>1, <3>1 DEF Knows, Needed, Key, Opened, Booting
    <3>4. \A v \in Versions : v <= cur'[p] => v \in schema.applied
      <4> DEFINE m == Newest(schema.applied)
      <4>1. cur'[p] = m
        BY <2>3 DEF ReadVersion, TypeOK
      <4>2. schema.applied \subseteq Versions
        BY DEF TypeOK
      <4>3. m \in schema.applied \union {0}
        BY <4>2, NewestFacts
      <4> HIDE DEF m
      <4>4. ASSUME NEW v \in Versions, v <= m
            PROVE  v \in schema.applied
        <5>1. m # 0 /\ m \in Versions
          BY <4>2, <4>3, <4>4, VersionsAreInts
        <5>2. v = m \/ v < m
          BY <4>4, <5>1, VersionsAreInts
        <5> QED BY <4>3, <5>1, <5>2 DEF SchemaInv, SchemaWhole
      <4> QED BY <4>1, <4>4
    <3> QED BY <1>1, <3>2, <3>3, <3>4 DEF Knows, Booted
  <2>4. CASE Migrated(p)
    <3>1. pc[p] = "loop" /\ Pending(p) = {} /\ UNCHANGED <<env, file, cur>>
      BY <2>4 DEF Migrated
    <3>2. pc'[p] \in {"wire", "cli"}
      BY <2>4 DEF Migrated, Goto, TypeOK
    <3>3. \A v \in Versions : v <= cur[p]
      <4>1. ASSUME NEW v \in Versions
            PROVE  v <= cur[p]
        <5>1. ~(v > cur[p]) /\ v \in Int
          BY <3>1, VersionsAreInts DEF Pending
        <5>2. cur[p] \in Int
          <6>1. CASE cur[p] = 0
            BY <6>1
          <6>2. CASE cur[p] \in Versions
            BY <6>2, VersionsAreInts, Zenon
          <6> QED BY <6>1, <6>2 DEF TypeOK
        <5> QED BY <5>1, <5>2
      <4> QED BY <4>1
    <3>4. schema.applied = Versions
      BY <2>1, <3>1, <3>3 DEF Knows, Opened, Booting, TypeOK
    <3>5. file' = Needed(p)'
      BY <2>1, <3>1 DEF Knows, Needed, Key, Opened, Booting
    <3> QED BY <1>1, <3>2, <3>4, <3>5 DEF Knows
  <2>5. CASE Cli(p) \/ Wire(p) \/ Bind(p) \/ Signal(p) \/ StopScheduler(p)
    <3>1. pc[p] \in Booted /\ pc'[p] \in Booted \union Final /\ UNCHANGED <<env, file, cur>>
      BY <2>5 DEF Cli, Wire, Bind, Signal, StopScheduler, Goto, TypeOK, Booted, Final
    <3>2. Needed(p)' = Needed(p)
      BY <3>1 DEF Needed, Key
    <3> QED BY <1>1, <2>1, <3>1, <3>2 DEF Knows, Opened, Booting, Booted, Final
  <2>6. CASE FileBusy(p)
    <3>1. pc'[p] = "exit1"
      BY <2>6 DEF FileBusy, Goto, TypeOK
    <3> QED BY <3>1 DEF Knows, Opened, Booting, Booted
  <2> QED BY <2>2, <2>3, <2>4, <2>5, <2>6
<1>6. SchemaWhole'
  BY <1>1, QuietWhole DEF SchemaInv
<1> QED BY <1>4, <1>5, <1>6 DEF SchemaInv

LEMMA EnsureSchema ==
  ASSUME TypeOK, SchemaInv, NEW p \in Procs, Ensure(p)
  PROVE  SchemaInv'
<1>1. UNCHANGED <<env, cur, draft, writer>> /\ pc[p] = "ensure"
  BY DEF Ensure
<1>2. \A q \in Procs : q # p => pc'[q] = pc[q]
  BY DEF Ensure, Goto, TypeOK
<1>3. CASE pc'[p] = "exit1"
  <2>1. UNCHANGED <<file, schema>>
    BY <1>3 DEF Ensure, Goto, TypeOK
  <2>2. \A q \in Procs : q # p => Knows(q)'
    BY <1>1, <1>2, <2>1, QuietKnows
  <2>3. Knows(p)'
    BY <1>3 DEF Knows, Opened, Booting, Booted
  <2> QED BY <2>1, <2>2, <2>3, QuietWhole DEF SchemaInv
<1>4. CASE pc'[p] # "exit1"
  <2>1. /\ Readable(p) /\ ("schema_migrations" \in schema.made \/ Free)
        /\ file' = Needed(p)
        /\ schema' = [schema EXCEPT !.made = @ \union {"schema_migrations"}]
        /\ pc'[p] = "version"
    BY <1>4 DEF Ensure, Goto, TypeOK, Needed
  <2>2. schema.applied' = schema.applied
    BY <2>1 DEF TypeOK
  <2>3. schema.made' \ {"schema_migrations"} = schema.made \ {"schema_migrations"}
    BY <2>1 DEF TypeOK
  <2>4. SchemaWhole'
    BY <2>2, <2>3 DEF SchemaInv, SchemaWhole
  <2>5. Knows(p)'
    BY <1>1, <2>1 DEF Knows, Opened, Booting, Booted, Needed, Key
  <2>6. ASSUME NEW q \in Procs, q # p
        PROVE  Knows(q)'
    <3>1. Needed(q)' = Needed(q) /\ NextPending(q)' = NextPending(q)
      BY <1>1 DEF Needed, Key, NextPending, Pending
    <3>2. Knows(q)
      BY DEF SchemaInv
    <3>3. pc[q] \in Opened \ {"ensure"} => file' = Needed(q)
      <4>1. ASSUME pc[q] \in Opened \ {"ensure"}
            PROVE  file' = Needed(q)
        <5>1. file = Needed(q) /\ file \notin {"absent", "empty"}
          BY <3>2, <4>1, NeededFacts DEF Knows
        <5> QED BY <2>1, <5>1 DEF Readable, Needed
      <4> QED BY <4>1
    <3>4. pc[q] \in InTxn => schema' = schema
      <4>1. ASSUME pc[q] \in InTxn
            PROVE  schema' = schema
        <5>1. writer = q
          BY <4>1 DEF TypeOK, InTxn
        <5>2. "schema_migrations" \in schema.made
          BY <2>1, <5>1, BootAssumption DEF Free
        <5> QED BY <2>1, <5>2 DEF TypeOK
      <4> QED BY <4>1
    <3> HIDE DEF Needed, NextPending
    <3> QED BY <1>1, <1>2, <2>2, <2>6, <3>1, <3>2, <3>3, <3>4 DEF Knows, InTxn
  <2> QED BY <2>4, <2>5, <2>6 DEF SchemaInv
<1> QED BY <1>3, <1>4

\* Steps inside a transaction, before its COMMIT, and its end without one.
LEMMA DraftSchema ==
  ASSUME TypeOK, HasPending, SchemaInv, NEW p \in Procs,
         BeginMigration(p) \/ Up(p) \/ RecordVersion(p) \/ Crash(p)
           \/ (CommitMigration(p) /\ Rollback(p) /\ UNCHANGED cur)
  PROVE  SchemaInv'
<1>1. UNCHANGED <<env, cur, file, schema>>
  BY DEF BeginMigration, Up, RecordVersion, CommitMigration, Crash, Rollback
<1>2. \A q \in Procs : q # p => pc'[q] = pc[q]
  BY DEF BeginMigration, Up, RecordVersion, Crash, Rollback, Goto, TypeOK
<1>3. draft' = draft \/ pc[p] \in InTxn \/ writer \notin Procs
  BY BootAssumption DEF BeginMigration, Up, RecordVersion, CommitMigration, Crash, Rollback, Free,
         InTxn, TypeOK
<1>4. \A q \in Procs : q # p => Knows(q)'
  BY <1>1, <1>2, <1>3, QuietKnows, OneWriter
<1>5. Knows(p)'
  <2>1. Knows(p)
    BY DEF SchemaInv
  <2>2. Needed(p)' = Needed(p) /\ NextPending(p)' = NextPending(p)
    BY <1>1 DEF Needed, Key, NextPending, Pending
  <2>3. CASE pc'[p] \in Final
    BY <2>3 DEF Knows, Opened, Booting, Booted, Final
  <2>4. CASE BeginMigration(p) /\ pc'[p] \notin Final
    <3>1. pc[p] = "loop" /\ pc'[p] = "up" /\ draft' = schema
      BY <2>4 DEF BeginMigration, Goto, TypeOK, Final
    <3> QED BY <1>1, <2>1, <2>2, <3>1 DEF Knows, Opened, Booting, Booted
  <2>5. CASE Up(p) /\ pc'[p] \notin Final
    <3>1. /\ pc[p] = "up" /\ pc'[p] = "record"
          /\ draft' = [draft EXCEPT !.made = @ \union Adds[NextPending(p)]]
      BY <2>5 DEF Up, Rollback, Goto, TypeOK, Final
    <3>2. draft'.made = schema.made \union Adds[NextPending(p)] /\ draft'.applied = schema.applied
      BY <2>1, <3>1 DEF Knows, TypeOK
    <3> HIDE DEF Needed, NextPending
    <3> QED BY <1>1, <2>1, <2>2, <3>1, <3>2 DEF Knows, Opened, Booting, Booted
  <2>6. CASE RecordVersion(p)
    <3>1. /\ pc[p] = "record" /\ pc'[p] = "commit"
          /\ draft' = [draft EXCEPT !.applied = @ \union {NextPending(p)}]
      BY <2>6 DEF RecordVersion, Goto, TypeOK
    <3>2. /\ draft'.made = schema.made \union Adds[NextPending(p)]
          /\ draft'.applied = schema.applied \union {NextPending(p)}
      BY <2>1, <3>1 DEF Knows, TypeOK
    <3> HIDE DEF Needed, NextPending
    <3> QED BY <1>1, <2>1, <2>2, <3>1, <3>2 DEF Knows, Opened, Booting, Booted
  <2>7. pc'[p] \in Final \/ BeginMigration(p) \/ Up(p) \/ RecordVersion(p)
    BY DEF Crash, Rollback, Goto, TypeOK, Final
  <2> QED BY <2>3, <2>4, <2>5, <2>6, <2>7
<1> QED BY <1>1, <1>4, <1>5, QuietWhole DEF SchemaInv

\* The COMMIT that succeeds.
LEMMA CommitSchema ==
  ASSUME TypeOK, HasPending, SchemaInv, NEW p \in Procs,
         CommitMigration(p), schema' = draft, cur' = [cur EXCEPT ![p] = NextPending(p)],
         pc' = [pc EXCEPT ![p] = "loop"]
  PROVE  SchemaInv'
<1> DEFINE n == NextPending(p)
<1>1. pc[p] = "commit" /\ UNCHANGED <<env, file>>
  BY DEF CommitMigration
<1>2. /\ n \in Versions
      /\ \A v \in Versions : v < n => v <= cur[p]
  BY <1>1, NextFacts DEF TypeOK, HasPending, InTxn
<1>3. Knows(p)
  BY DEF SchemaInv
<1>4. /\ schema'.made = schema.made \union Adds[n]
      /\ schema'.applied = schema.applied \union {n}
  BY <1>1, <1>3 DEF Knows
<1>5. \A v \in Versions : v < n => v \in schema.applied
  BY <1>1, <1>2, <1>3 DEF Knows, Opened, Booting
<1> HIDE DEF n
<1>6. SchemaWhole'
  <2>1. schema'.made \ {"schema_migrations"} = UNION {Adds[v] : v \in schema'.applied}
    <3>1. (schema.made \union Adds[n]) \ {"schema_migrations"}
            = (schema.made \ {"schema_migrations"}) \union Adds[n]
      BY <1>2, AddsTables
    <3>2. schema.made \ {"schema_migrations"} = UNION {Adds[v] : v \in schema.applied}
      BY DEF SchemaInv, SchemaWhole
    <3>3. UNION {Adds[v] : v \in schema.applied \union {n}}
            = (UNION {Adds[v] : v \in schema.applied}) \union Adds[n]
      OBVIOUS
    <3> QED BY <1>4, <3>1, <3>2, <3>3
  <2>2. \A v \in schema'.applied : \A w \in Versions : w < v => w \in schema'.applied
    BY <1>4, <1>5 DEF SchemaInv, SchemaWhole
  <2> QED BY <2>1, <2>2 DEF SchemaWhole
<1>7. Knows(p)'
  <2>1. pc'[p] = "loop" /\ cur'[p] = n
    BY DEF TypeOK, n
  <2>2. \A v \in Versions : v <= n => v \in schema'.applied
    <3>1. ASSUME NEW v \in Versions, v <= n
          PROVE  v = n \/ v < n
      BY <1>2, <3>1, VersionsAreInts
    <3> QED BY <1>4, <1>5, <3>1
  <2>3. file' = Needed(p)'
    BY <1>1, <1>3 DEF Knows, Needed, Key, Opened, Booting
  <2> QED BY <2>1, <2>2, <2>3 DEF Knows, Booted
<1>8. ASSUME NEW q \in Procs, q # p
      PROVE  Knows(q)'
  <2>1. pc'[q] = pc[q] /\ cur'[q] = cur[q] /\ pc[q] \notin InTxn
    BY <1>1, <1>8, OneWriter DEF TypeOK, InTxn
  <2>2. Needed(q)' = Needed(q)
    BY <1>1 DEF Needed, Key
  <2>3. Knows(q)
    BY DEF SchemaInv
  <2>4. schema.applied = Versions => schema'.applied = Versions
    BY <1>2, <1>4
  <2> HIDE DEF Needed
  <2> QED BY <1>1, <1>4, <2>1, <2>2, <2>3, <2>4 DEF Knows, InTxn
<1> QED BY <1>6, <1>7, <1>8 DEF SchemaInv

LEMMA SchemaStep ==
  ASSUME TypeOK, HasPending, SchemaInv, [Next]_vars
  PROVE  SchemaInv'
<1>1. ASSUME NEW p \in Procs, Launch(p) \/ Main(p) \/ Signal(p) \/ Crash(p)
      PROVE  SchemaInv'
  <2>1. CASE CommitMigration(p)
    BY <2>1, DraftSchema, CommitSchema DEF CommitMigration, Goto
  <2> QED BY <1>1, <2>1, OutsideSchema, EnsureSchema, DraftSchema DEF Main
<1>2. CASE UNCHANGED vars
  BY <1>2 DEF SchemaInv, SchemaWhole, Knows, vars, Needed, Key, NextPending, Pending
<1> QED BY <1>1, <1>2 DEF Next, Over

LEMMA SchemaInit == Init => SchemaInv
BY DEF Init, SchemaInv, SchemaWhole, Knows, NoSchema, Opened, Booting, Booted

LEMMA SchemaAlways == Spec => [](TypeOK /\ SchemaInv)
<1>1. Init => TypeOK /\ HasPending /\ SchemaInv
  BY TypeInit, SchemaInit DEF Init, HasPending, InTxn
<1>2. TypeOK /\ HasPending /\ SchemaInv /\ [Next]_vars => (TypeOK /\ HasPending /\ SchemaInv)'
  BY TypeStep, HasPendingKept, SchemaStep
<1> QED BY <1>1, <1>2, PTL DEF Spec

\* What is committed is whole migrations without a gap, however many processes
\* migrate at once and wherever they die.
THEOREM SchemaStaysWhole == Spec => []SchemaWhole
<1>1. SchemaInv => SchemaWhole
  BY DEF SchemaInv
<1> QED BY <1>1, SchemaAlways, PTL

\* Whoever serves, mints or lists does so on the newest schema and on a file of its key.
THEOREM BootedIsCurrent == Spec => []ServesCurrent
<1>1. SchemaInv => ServesCurrent
  <2>1. ASSUME SchemaInv, NEW p \in Procs, pc[p] \in Booted
        PROVE  schema.applied = Versions /\ file = Needed(p)
    BY <2>1 DEF SchemaInv, Knows, Opened, Booted
  <2> QED BY <2>1 DEF ServesCurrent, Needed
<1> QED BY <1>1, SchemaAlways, PTL
-----------------------------------------------------------------------------
(* A server that has the file to itself                                     *)

\* Why a process may fail: its key, or the file that it met.
Excused(p) ==
  \/ Key(p) = BadKey
  \/ met[p] \notin {"absent", Needed(p)} /\ (met[p] = "empty" => Key(p) = NoKey)

\* What p can count on while nobody else runs: the file is as it left it, no version
\* is applied but those it has read, and its port is free.
Undisturbed(p) ==
  /\ pc[p] = "policy" => Key(p) = NoKey
  /\ pc[p] \in {"policy", "open"} => file = met[p]
  /\ pc[p] = "ensure" =>
       /\ file = IF met[p] = "absent" THEN "empty" ELSE met[p]
       /\ Key(p) \in Keys => met[p] \in {"absent", "empty", Key(p)}
  /\ pc[p] \in Opened \ {"ensure", "version"} => \A v \in schema.applied : v <= cur[p]
  /\ pc[p] # "stop1"
  /\ pc[p] = "exit1" => Role(env[p].args) = "exit1" \/ Excused(p)

SoleInv ==
  /\ writer \in Procs \union {Nobody}
  /\ \A p \in Procs : alone[p] => /\ p \in Alive => Alive = {p}
                                  /\ Undisturbed(p)

\* What no step of p touches.
LEMMA OthersStay ==
  ASSUME TypeOK, NEW p \in Procs, Launch(p) \/ Main(p) \/ Signal(p) \/ Crash(p)
  PROVE  /\ \A q \in Procs : q # p =>
              pc'[q] = pc[q] /\ cur'[q] = cur[q] /\ env'[q] = env[q] /\ met'[q] = met[q]
         /\ Launch(p) \/ UNCHANGED <<alone, env, met>>
         /\ Launch(p) \/ p \in Alive
         /\ writer' \in {writer, p, Nobody}
<1>1. \A q \in Procs : q # p => pc'[q] = pc[q] /\ cur'[q] = cur[q]
  BY DEF Launch, Main, Policy, Open, Ensure, ReadVersion, BeginMigration, Up, RecordVersion,
         CommitMigration, Rollback, Migrated, Cli, FileBusy, Wire, Bind, StopScheduler, Signal, Crash,
         Goto, TypeOK
<1>2. Launch(p) \/ UNCHANGED <<alone, env, met>>
  BY DEF Main, Policy, Open, Ensure, ReadVersion, BeginMigration, Up, RecordVersion,
         CommitMigration, Rollback, Migrated, Cli, FileBusy, Wire, Bind, StopScheduler, Signal, Crash
<1>3. \A q \in Procs : q # p => env'[q] = env[q] /\ met'[q] = met[q]
  BY <1>2 DEF Launch, TypeOK
<1>4. Launch(p) \/ p \in Alive
  BY DEF Main, Policy, Open, Ensure, ReadVersion, BeginMigration, Up, RecordVersion,
         CommitMigration, Migrated, Cli, FileBusy, Wire, Bind, StopScheduler, Signal, Crash, Alive, Final
<1>5. writer' \in {writer, p, Nobody}
  BY DEF Launch, Main, Policy, Open, Ensure, ReadVersion, BeginMigration, Up, RecordVersion,
         CommitMigration, Rollback, Migrated, Cli, FileBusy, Wire, Bind, StopScheduler, Signal, Crash
<1> QED BY <1>1, <1>2, <1>3, <1>4, <1>5

\* A process that was alone, and whose process has taken a step alone, still is.
LEMMA AloneStays ==
  ASSUME TypeOK, SoleInv, NEW p \in Procs, Launch(p) \/ Main(p) \/ Signal(p) \/ Crash(p)
  PROVE  /\ writer' \in Procs \union {Nobody}
         /\ \A q \in Procs : q # p /\ alone'[q] => q \notin Alive /\ alone[q]
         /\ alone'[p] => /\ Alive' \subseteq {p} /\ Alive \subseteq {p}
                         /\ Launch(p) \/ alone[p]
<1>1. writer' \in Procs \union {Nobody}
  BY OthersStay DEF SoleInv
<1>2. CASE Launch(p)
  <2>1. \A q \in Procs : alone'[q] <=> alone[q] /\ (q \notin Alive \union {p} \/ Alive = {})
    BY <1>2 DEF Launch
  <2>2. alone'[p] => Alive = {}
    BY <2>1
  <2>3. Alive' \subseteq Alive \union {p}
    BY OthersStay DEF Alive
  <2>4. \A q \in Procs : q # p /\ alone'[q] => q \notin Alive /\ alone[q]
    BY <2>1
  <2> QED BY <1>1, <1>2, <2>2, <2>3, <2>4
<1>3. CASE ~Launch(p)
  <2>1. p \in Alive /\ alone' = alone
    BY <1>3, OthersStay
  <2>2. \A q \in Procs : alone[q] /\ q \in Alive => q = p
    BY <2>1 DEF SoleInv
  <2>3. alone[p] => Alive = {p}
    BY <2>1 DEF SoleInv
  <2>4. Alive' \subseteq Alive \union {p}
    BY OthersStay DEF Alive
  <2> QED BY <1>1, <2>1, <2>2, <2>3, <2>4
<1> QED BY <1>2, <1>3

\* Alone, p finds the lock free unless it has it.
LEMMA AloneIsFree ==
  ASSUME TypeOK, SoleInv, NEW p \in Procs, Alive \subseteq {p}, pc[p] \notin InTxn
  PROVE  Free
<1>1. ASSUME writer \in Procs
      PROVE  FALSE
  <2>1. pc[writer] \in InTxn
    BY <1>1 DEF TypeOK, InTxn
  <2>2. writer \in Alive
    BY <1>1, <2>1 DEF Alive, InTxn, Final
  <2> QED BY <2>1, <2>2
<1> QED BY <1>1 DEF SoleInv, Free

\* No migration makes what another one makes.
LEMMA AddsApart ==
  ASSUME NEW v \in Versions, NEW w \in Versions, v # w
  PROVE  Adds[v] \intersect Adds[w] = {}
<1>1. v \in 1 .. 9 /\ w \in 1 .. 9
  BY VersionsAreInts
<1> QED BY <1>1
    DEF Adds, M001_initial_schema, M002_categories_table, M003_budgets_table,
        M004_plaid_sync_state, M005_plaid_pending_links, M006_account_institution,
        M007_reimbursements, M008_v3_workflow, M009_v4_intelligence

\* Where all that is applied has been read, the next migration can be made.
LEMMA NextCanBeMade ==
  ASSUME TypeOK, HasPending, SchemaInv, NEW p \in Procs, pc[p] = "up",
         \A v \in schema.applied : v <= cur[p]
  PROVE  ~CannotAdd(NextPending(p))
<1> DEFINE n == NextPending(p)
<1>1. n \in Versions /\ cur[p] < n /\ \A v \in Versions : v < n => v <= cur[p]
  BY NextFacts DEF TypeOK, HasPending, InTxn
<1>2. Knows(p) /\ SchemaWhole
  BY DEF SchemaInv
<1>3. draft = schema /\ \A v \in Versions : v <= cur[p] => v \in schema.applied
  BY <1>2 DEF Knows, Opened, Booting
<1>4. schema.applied \subseteq Versions
  BY DEF TypeOK
<1> HIDE DEF n
<1>5. ASSUME NEW x \in Adds[n], x \in schema.made
      PROVE  FALSE
  <2>1. x # "schema_migrations"
    BY <1>1, AddsTables
  <2>2. x \in UNION {Adds[v] : v \in schema.applied}
    BY <1>2, <1>5, <2>1 DEF SchemaWhole
  <2>3. PICK v \in schema.applied : x \in Adds[v]
    BY <2>2
  <2>4. v # n
    <3>1. cur[p] \in Int /\ n \in Int /\ v \in Int
      BY <1>1, <1>4, VersionsAreInts, CurIsInt
    <3>2. v <= cur[p]
      OBVIOUS
    <3> QED BY <1>1, <3>1, <3>2
  <2> QED BY <1>1, <1>4, <1>5, <2>3, <2>4, AddsApart
<1>6. Needs(n) \subseteq schema.made
  <2>1. ASSUME NEW x \in Needs(n)
        PROVE  x \in schema.made
    <3>1. Needs(n) \subseteq UNION {Adds[w] : w \in {u \in Versions : u < n}}
      BY <1>1, BootNeedsAssumption
    <3>2. PICK w \in Versions : w < n /\ x \in Adds[w]
      BY <3>1, <2>1
    <3>3. w \in schema.applied
      BY <1>1, <1>3, <3>2
    <3>4. x \in UNION {Adds[v] : v \in schema.applied}
      BY <3>2, <3>3
    <3> QED BY <1>2, <3>4 DEF SchemaWhole
  <2> QED BY <2>1
<1>7. Adds[n] \intersect draft.made = {} /\ Needs(n) \subseteq draft.made
  BY <1>3, <1>5, <1>6
<1> QED BY <1>7 DEF CannotAdd, n

\* Whatever happens to others, one that is over stays as it ended.
LEMMA OverStaysSo ==
  ASSUME TypeOK, SoleInv, NEW p \in Procs, Launch(p) \/ Main(p) \/ Signal(p) \/ Crash(p),
         NEW q \in Procs, q # p, alone'[q]
  PROVE  q \notin Alive' /\ Undisturbed(q)'
<1>1. q \notin Alive /\ alone[q]
  BY AloneStays
<1>2. pc'[q] = pc[q] /\ env'[q] = env[q] /\ met'[q] = met[q]
  BY OthersStay
<1>3. pc[q] \in Final \union {"new"}
  BY <1>1 DEF Alive
<1>4. Excused(q)' <=> Excused(q)
  BY <1>2 DEF Excused, Key, Needed
<1>5. Undisturbed(q)
  BY <1>1 DEF SoleInv
<1>6. q \notin Alive'
  BY <1>2, <1>3 DEF Alive
<1> HIDE DEF Excused
<1>7. pc'[q] \in Final \union {"new"} /\ (pc'[q] = "exit1" => Role(env'[q].args) = "exit1" \/ Excused(q)')
  BY <1>2, <1>3, <1>4, <1>5 DEF Undisturbed
<1> HIDE DEF Role
<1> QED BY <1>6, <1>7 DEF Undisturbed, Opened, Booting, Booted, Final

\* p's own steps while it is alone.
LEMMA LaunchesUndisturbed ==
  ASSUME TypeOK, NEW p \in Procs, Launch(p)
  PROVE  Undisturbed(p)'
<1>1. PICK l \in Launches :
        /\ env' = [env EXCEPT ![p] = l]
        /\ Goto(p, CASE Role(l.args) = "exit1" -> "exit1"
                     [] Role(l.args) = "server" /\ l.key = NoKey -> "policy"
                     [] OTHER -> "open")
  BY Zenon DEF Launch
<1>2. env'[p] = l /\ met'[p] = file /\ file' = file
  BY <1>1 DEF Launch, TypeOK
<1>3. \/ pc'[p] = "exit1" /\ Role(l.args) = "exit1"
      \/ pc'[p] = "policy" /\ l.key = NoKey
      \/ pc'[p] = "open"
  <2> DEFINE role == Role(l.args)
  <2> HIDE DEF role
  <2>1. pc' = [pc EXCEPT ![p] = CASE role = "exit1" -> "exit1"
                     [] role = "server" /\ l.key = NoKey -> "policy"
                     [] OTHER -> "open"]
    BY <1>1 DEF Goto, role
  <2>2. \/ pc'[p] = "exit1" /\ role = "exit1"
        \/ pc'[p] = "policy" /\ l.key = NoKey
        \/ pc'[p] = "open"
    BY <2>1 DEF TypeOK
  <2> QED BY <2>2 DEF role
<1> HIDE DEF Role, Excused
<1> QED BY <1>2, <1>3 DEF Undisturbed, Key, Opened, Booting, Booted

LEMMA OpensUndisturbed ==
  ASSUME TypeOK, NEW p \in Procs, Policy(p) \/ Open(p), Undisturbed(p), UNCHANGED <<env, met>>
  PROVE  Undisturbed(p)'
<1>1. Key(p)' = Key(p) /\ met'[p] = met[p] /\ Needed(p)' = Needed(p)
  BY DEF Key, Needed
<1>2. CASE Policy(p)
  <2>1. /\ pc[p] = "policy" /\ Key(p) = NoKey /\ file = met[p] /\ file' = file
        /\ pc'[p] = IF file \in {"absent", "plain"} THEN "open" ELSE "exit1"
    BY <1>2 DEF Policy, Goto, TypeOK, Undisturbed
  <2>2. pc'[p] = "exit1" => Excused(p)'
    BY <1>1, <2>1 DEF Excused, Needed
  <2> HIDE DEF Excused, Role
  <2> QED BY <1>1, <2>1, <2>2 DEF Undisturbed, Opened, Booting, Booted
<1>3. CASE Open(p)
  <2>1. pc[p] = "open" /\ file = met[p]
    BY <1>3 DEF Open, Undisturbed
  <2>2. Key(p) \in Keys \union {NoKey, BadKey}
    BY <2>1, BootKeysAssumption DEF TypeOK, Key
  <2>3. CASE pc'[p] = "exit1"
    <3>1. Key(p) = BadKey \/ (Key(p) \in Keys /\ file \notin {"absent", "empty", Key(p)})
      BY <1>3, <2>3 DEF Open, Goto, TypeOK
    <3>2. Excused(p)'
      BY <1>1, <2>1, <3>1, BootKeysAssumption DEF Excused, Needed
    <3> HIDE DEF Excused, Role
    <3> QED BY <2>3, <3>2 DEF Undisturbed, Opened, Booting, Booted
  <2>4. CASE pc'[p] # "exit1"
    <3>1. /\ pc'[p] = "ensure" /\ file' = IF file = "absent" THEN "empty" ELSE file
          /\ Key(p) \in Keys => file \in {"absent", "empty", Key(p)}
      BY <1>3, <2>4 DEF Open, Goto, TypeOK
    <3>2. /\ file' = IF met'[p] = "absent" THEN "empty" ELSE met'[p]
          /\ Key(p)' \in Keys => met'[p] \in {"absent", "empty", Key(p)'}
      BY <1>1, <2>1, <3>1
    <3> HIDE DEF Excused, Role
    <3> QED BY <3>1, <3>2 DEF Undisturbed, Opened, Booting, Booted
  <2> QED BY <2>3, <2>4
<1> QED BY <1>2, <1>3

LEMMA EnsureUndisturbed ==
  ASSUME TypeOK, NEW p \in Procs, Ensure(p) \/ ReadVersion(p), Undisturbed(p), Free,
         UNCHANGED <<env, met>>
  PROVE  Undisturbed(p)'
<1>1. Key(p)' = Key(p) /\ met'[p] = met[p] /\ Needed(p)' = Needed(p)
  BY DEF Key, Needed
<1>2. CASE Ensure(p)
  <2>1. /\ pc[p] = "ensure"
        /\ file = IF met[p] = "absent" THEN "empty" ELSE met[p]
        /\ Key(p) \in Keys => met[p] \in {"absent", "empty", Key(p)}
    BY <1>2 DEF Ensure, Undisturbed
  <2>2. Key(p) \in Keys \union {NoKey}
    BY <2>1, BootKeysAssumption DEF TypeOK, Key, Opened, Booting
  <2>3. pc'[p] = IF Readable(p) THEN "version" ELSE "exit1"
    BY <1>2 DEF Ensure, Goto, TypeOK
  <2>4. ~Readable(p) => Excused(p)'
    BY <1>1, <2>1, <2>2, BootKeysAssumption DEF Readable, Excused, Needed
  <2> HIDE DEF Excused, Role, Readable
  <2> QED BY <2>3, <2>4 DEF Undisturbed, Opened, Booting, Booted
<1>3. CASE ReadVersion(p)
  <2>1. pc'[p] = "loop" /\ cur'[p] = Newest(schema.applied) /\ schema' = schema
    BY <1>3 DEF ReadVersion, Goto, TypeOK
  <2>2. \A v \in schema.applied : v <= Newest(schema.applied)
    BY NewestFacts DEF TypeOK
  <2> HIDE DEF Excused, Role
  <2> QED BY <2>1, <2>2 DEF Undisturbed, Opened, Booting, Booted
<1> QED BY <1>2, <1>3

LEMMA MigratesUndisturbed ==
  ASSUME TypeOK, HasPending, SchemaInv, NEW p \in Procs,
         BeginMigration(p) \/ Up(p) \/ RecordVersion(p) \/ CommitMigration(p),
         Undisturbed(p), Alive = {p}, pc[p] \notin InTxn => Free, UNCHANGED <<env, met>>
  PROVE  Undisturbed(p)'
<1> DEFINE n == NextPending(p)
<1>1. \A v \in schema.applied : v <= cur[p]
  BY DEF BeginMigration, Up, RecordVersion, CommitMigration, Undisturbed, Opened, Booting
<1>2. CASE CommitMigration(p)
  <2>1. pc[p] = "commit"
    BY <1>2 DEF CommitMigration
  <2>2. n \in Versions /\ cur[p] < n
    BY <2>1, NextFacts DEF TypeOK, HasPending, InTxn
  <2>3. draft.applied = schema.applied \union {n}
    BY <2>1 DEF SchemaInv, Knows
  <2>4. pc'[p] = "loop" /\ cur'[p] = n /\ schema'.applied = schema.applied \union {n}
    BY <1>2, <2>3 DEF CommitMigration, Goto, TypeOK
  <2> HIDE DEF n
  <2>5. \A v \in schema'.applied : v <= n
    <3>1. n \in Int /\ cur[p] \in Int /\ schema.applied \subseteq Int
      BY <2>2, VersionsAreInts, CurIsInt DEF TypeOK
    <3>2. \A v \in schema.applied : v <= n
      BY <1>1, <2>2, <3>1
    <3> QED BY <2>4, <3>1, <3>2
  <2> HIDE DEF Excused, Role
  <2> QED BY <2>4, <2>5 DEF Undisturbed, Opened, Booting, Booted
<1>3. CASE ~CommitMigration(p)
  <2>1. UNCHANGED <<schema, cur>>
    BY <1>3 DEF BeginMigration, Up, RecordVersion, Rollback
  <2>2. pc'[p] \in {"up", "record", "commit"}
    <3>1. CASE BeginMigration(p)
      BY <3>1 DEF BeginMigration, Goto, TypeOK, InTxn
    <3>2. CASE Up(p)
      <4>1. pc[p] = "up"
        BY <3>2 DEF Up
      <4>2. ~CannotAdd(NextPending(p))
        BY <1>1, <4>1, NextCanBeMade
      <4> QED BY <3>2, <4>2 DEF Up, Goto, TypeOK
    <3>3. CASE RecordVersion(p)
      BY <3>3 DEF RecordVersion, Goto, TypeOK
    <3> QED BY <1>3, <3>1, <3>2, <3>3
  <2> HIDE DEF Excused, Role
  <2> QED BY <1>1, <2>1, <2>2 DEF Undisturbed, Opened, Booting, Booted
<1> QED BY <1>2, <1>3

\* The CLI, the rest of the boot, and the end.
LEMMA ServesUndisturbed ==
  ASSUME TypeOK, NEW p \in Procs,
         Migrated(p) \/ Cli(p) \/ Wire(p) \/ Bind(p) \/ Signal(p) \/ StopScheduler(p) \/ Crash(p),
         Undisturbed(p), Alive = {p}, pc[p] \notin InTxn => Free
  PROVE  Undisturbed(p)'
<1>1. pc[p] \notin {"new", "exit1"} /\ UNCHANGED <<schema, cur>>
  BY DEF Migrated, Cli, Wire, Bind, Signal, StopScheduler, Crash, Alive, Final
<1>2. pc'[p] \in {"wire", "cli", "exit0", "bind", "dead", "serve", "stop0"}
  <2>1. CASE Migrated(p)
    <3> HIDE DEF Role
    <3> QED BY <2>1 DEF Migrated, Goto, TypeOK
  <2>2. CASE Cli(p)
    <3> HIDE DEF Role
    <3> QED BY <2>2 DEF Cli, Goto, TypeOK, InTxn
  <2>3. CASE Bind(p)
    <3>1. Listening = {}
      <4>1. Listening \subseteq Alive
        BY DEF Listening, Alive, Final
      <4>2. p \notin Listening
        BY <2>3 DEF Bind, Listening
      <4> QED BY <4>1, <4>2
    <3> QED BY <2>3, <3>1 DEF Bind, Goto, TypeOK
  <2>4. CASE StopScheduler(p)
    BY <2>4 DEF StopScheduler, Goto, TypeOK, Undisturbed
  <2>5. CASE Wire(p) \/ Signal(p) \/ Crash(p)
    BY <2>5 DEF Wire, Signal, Crash, Goto, TypeOK
  <2> QED BY <2>1, <2>2, <2>3, <2>4, <2>5
<1>3. pc'[p] \in Opened => pc[p] \in Opened \ {"ensure", "version"}
  BY DEF Migrated, Cli, Wire, Bind, Signal, StopScheduler, Crash, Goto, TypeOK, Opened, Booting, Booted
<1>4. pc'[p] \in Opened => \A v \in schema'.applied : v <= cur'[p]
  BY <1>1, <1>3 DEF Undisturbed
<1> HIDE DEF Excused, Role
<1> QED BY <1>2, <1>4 DEF Undisturbed, Booting

LEMMA SoleStep ==
  ASSUME TypeOK, HasPending, SchemaInv, SoleInv, [Next]_vars
  PROVE  SoleInv'
<1>1. ASSUME NEW p \in Procs, Launch(p) \/ Main(p) \/ Signal(p) \/ Crash(p)
      PROVE  SoleInv'
  <2>1. \A q \in Procs : q # p /\ alone'[q] => q \notin Alive' /\ Undisturbed(q)'
    BY <1>1, OverStaysSo
  <2>2. ASSUME alone'[p]
        PROVE  (p \in Alive' => Alive' = {p}) /\ Undisturbed(p)'
    <3>1. Alive' \subseteq {p} /\ Alive \subseteq {p} /\ (Launch(p) \/ alone[p])
      BY <1>1, <2>2, AloneStays
    <3>2. pc[p] \notin InTxn => Free
      BY <3>1, AloneIsFree
    <3>3. Launch(p) \/ (UNCHANGED <<alone, env, met>> /\ Alive = {p})
      BY <1>1, <3>1, OthersStay
    <3>4. alone[p] => Undisturbed(p)
      BY DEF SoleInv
    <3>5. Undisturbed(p)'
      <4>1. CASE Launch(p)
        BY <4>1, LaunchesUndisturbed
      <4>2. CASE ~Launch(p)
        <5>1. UNCHANGED <<alone, env, met>> /\ Alive = {p} /\ Undisturbed(p)
          BY <3>1, <3>3, <3>4, <4>2
        <5>2. Ensure(p) \/ ReadVersion(p) => Free
          BY <3>2 DEF Ensure, ReadVersion, InTxn
        <5>3. ~FileBusy(p)
          BY <5>1 DEF FileBusy
        <5> QED BY <1>1, <3>2, <4>2, <5>1, <5>2, <5>3, OpensUndisturbed, EnsureUndisturbed,
                   MigratesUndisturbed, ServesUndisturbed DEF Main
      <4> QED BY <4>1, <4>2
    <3> QED BY <3>1, <3>5
  <2>3. writer' \in Procs \union {Nobody}
    BY <1>1, AloneStays
  <2> QED BY <2>1, <2>2, <2>3 DEF SoleInv
<1>2. CASE UNCHANGED vars
  BY <1>2 DEF SoleInv, Undisturbed, Excused, Needed, Key, Alive, vars
<1> QED BY <1>1, <1>2 DEF Next, Over

\* A server or a command that has the file to itself, with the right key, does not
\* fail, whatever crashed before it and whatever versions it finds.
THEOREM SoleBootComesUp == Spec => []SoleBootSucceeds
<1>1. Init => TypeOK /\ HasPending /\ SchemaInv /\ SoleInv
  <2>1. Init => SoleInv
    BY DEF Init, SoleInv, Undisturbed, Alive, Opened, Booting, Booted
  <2> QED BY <2>1, TypeInit, SchemaInit DEF Init, HasPending, InTxn
<1>2. TypeOK /\ HasPending /\ SchemaInv /\ SoleInv /\ [Next]_vars
        => (TypeOK /\ HasPending /\ SchemaInv /\ SoleInv)'
  BY TypeStep, HasPendingKept, SchemaStep, SoleStep
<1>3. SoleInv => SoleBootSucceeds
  BY DEF SoleInv, Undisturbed, Excused, Needed, SoleBootSucceeds
<1> QED BY <1>1, <1>2, <1>3, PTL DEF Spec
=============================================================================
