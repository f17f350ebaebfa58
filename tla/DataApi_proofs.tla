--------------------------- MODULE DataApi_proofs ---------------------------
(***************************************************************************)
(* Theorems about DataApi for every set of requests, users, inputs and     *)
(* seeded rows.  Step says once what any step of a request may do to the   *)
(* connection, to its own place and to what it has noted; each handler is  *)
(* shown to take such steps, and the invariants then treat them as one.    *)
(***************************************************************************)
EXTENDS DataApi, FiniteSetTheorems, WellFoundedInduction, TLAPS

\* sqlite3_changes() of a statement about one row is 0 or 1.
LEMMA OneRow ==
  ASSUME NEW x, NEW S
  PROVE  Cardinality({x} \intersect S) \in {0, 1}
<1>1. CASE x \in S
  <2>1. {x} \intersect S = {x}
    BY <1>1
  <2> QED BY <2>1, FS_Singleton
<1>2. CASE x \notin S
  <2>1. {x} \intersect S = {}
    BY <1>2
  <2> QED BY <2>1, FS_EmptySet
<1> QED BY <1>1, <1>2

Sound(i) == ImageType(i) /\ TreeIsWhole(i)

\* The steps of a request that has not yet put its row in the tree.
Before ==
  {"new", "s_begin", "s_select", "s_reject", "s_touch", "s_commit", "s_catch",
   "find", "access", "exists", "insert", "c_begin", "c_entity"}

\* The id of a row to be created is nobody's yet: not on the connection, and
\* not on disk, from where a ROLLBACK could bring it back.
IdsAreFresh ==
  \A r \in Requests :
    pc[r] \in Before => r \notin DOMAIN live.rows /\ r \notin DOMAIN disk.rows

DataInv == TypeOK /\ NoOrphans /\ IdsAreFresh

-----------------------------------------------------------------------------
(* What one step of a request may do                                        *)

\* No row is moved in the tree.
SamePlaces(i, j) ==
  \A x \in DOMAIN i.rows \intersect DOMAIN j.rows :
    j.rows[x].kind = i.rows[x].kind /\ j.rows[x].parent = i.rows[x].parent

\* From i to j memberships come, of the entity that r creates, and never go.
MembersGrow(r, i, j) ==
  /\ i.members \subseteq j.members
  /\ \A m \in j.members \ i.members : m.entity = r /\ pc[r] = "c_member"

\* A write: a sound image, with no new row but the request's own.
RequestWrite(r, image, rows) ==
  /\ WriteOK /\ Write(image, rows)
  /\ Sound(image) /\ rows \in {0, 1}
  /\ SamePlaces(live, image) /\ MembersGrow(r, live, image)
  /\ DOMAIN image.rows \subseteq DOMAIN live.rows \union {r}
  /\ pc[r] \notin Before => DOMAIN image.rows \subseteq DOMAIN live.rows
  /\ pc'[r] \in Before => DOMAIN image.rows \subseteq DOMAIN live.rows

ConnStep(r) ==
  \/ UNCHANGED connVars
  \/ BeginOK /\ Begin
  \/ CommitOK /\ Commit
  \/ Rollback
  \/ WriteFails
  \/ \E image, rows : RequestWrite(r, image, rows)

\* The request opens a transaction as it enters the steps inside one, closes
\* whatever is open as it leaves them, and otherwise does neither.
TxnTurn(r) ==
  \/ inTxn' = inTxn /\ (pc[r] \in TxnLabels <=> pc'[r] \in TxnLabels)
  \/ ~inTxn /\ inTxn' /\ pc[r] \notin TxnLabels /\ pc'[r] \in TxnLabels
  \/ ~inTxn' /\ pc[r] \in TxnLabels /\ pc'[r] \notin TxnLabels

Step(r) ==
  /\ ConnStep(r)
  /\ TxnTurn(r)
  /\ \E label \in Labels \ {"new"} : Goto(r, label)
  /\ pc'[r] \in Before => pc[r] \in Before
  /\ pc'[r] = "c_member" => pc[r] = "c_entity"
  /\ mu' \in Requests \union {NoOne}
  /\ call' \in [Requests -> Calls \union {NoCall}]
  /\ \A s \in Requests \ {r} : call'[s] = call[s]
  /\ pc'[r] \in AuditLabels => call'[r] \in Calls
  /\ DOMAIN head' = Requests
  /\ req' = req
  /\ ent' \in [Requests -> Ids \union {NoOne}]
  /\ \A s \in Requests \ {r} : ent'[s] = ent[s]
  /\ todo' \in [Requests -> SUBSET Columns]
  /\ OnItsRoute(r)'

-----------------------------------------------------------------------------
(* Rows                                                                     *)

\* INSERT under a parent that is there.
LEMMA InsertIsSound ==
  ASSUME NEW i, Sound(i), NEW id \in Ids \ DOMAIN i.rows, NEW row \in RowType,
         IF row.kind = "entity" THEN row.parent = NoOne
         ELSE Exists(i, row.parent, ParentKind(row.kind))
  PROVE  LET j == [i EXCEPT !.rows = AddTo(i.rows, id, row)]
         IN  /\ Sound(j) /\ SamePlaces(i, j) /\ j.members = i.members
             /\ DOMAIN j.rows = DOMAIN i.rows \union {id}
<1> DEFINE j == [i EXCEPT !.rows = AddTo(i.rows, id, row)]
<1>1. /\ DOMAIN j = DOMAIN i /\ j.rows = AddTo(i.rows, id, row)
      /\ j.members = i.members /\ j.audit = i.audit
  BY DEF Sound, ImageType
<1>2. /\ DOMAIN j.rows = DOMAIN i.rows \union {id}
      /\ j.rows[id] = row
      /\ \A x \in DOMAIN i.rows : j.rows[x] = i.rows[x]
  BY <1>1 DEF AddTo
<1>3. j.rows \in [DOMAIN j.rows -> RowType]
  BY <1>1, <1>2 DEF AddTo, Sound, ImageType
<1> HIDE DEF j
<1>4. ImageType(j)
  BY <1>1, <1>2, <1>3 DEF Sound, ImageType
<1>5. TreeIsWhole(j)
  BY <1>1, <1>2 DEF Sound, TreeIsWhole, Exists
<1>6. SamePlaces(i, j)
  BY <1>2 DEF SamePlaces
<1> QED BY <1>1, <1>2, <1>4, <1>5, <1>6 DEF Sound, j

\* UPDATE keeps every row's kind and parent.
LEMMA UpdateIsSound ==
  ASSUME NEW i, Sound(i), NEW id, NEW cols, NEW r \in Requests
  PROVE  LET j == SetColumns(i, id, cols, r)
         IN  /\ Sound(j) /\ SamePlaces(i, j) /\ j.members = i.members
             /\ DOMAIN j.rows = DOMAIN i.rows
<1>1. CASE id \notin DOMAIN i.rows
  BY <1>1 DEF SetColumns, SamePlaces
<1>2. CASE id \in DOMAIN i.rows
  <2> DEFINE val == [c \in Columns |-> IF c \in cols THEN r ELSE i.rows[id].val[c]]
             row == [i.rows[id] EXCEPT !.val = val]
             rows == [i.rows EXCEPT ![id] = row]
             j == [i EXCEPT !.rows = rows]
  <2>1. SetColumns(i, id, cols, r) = j
    <3>1. i.rows[id].val \in [Columns -> Requests \union {NoOne}]
      BY <1>2 DEF Sound, ImageType, RowType
    <3> QED BY <1>2, <3>1 DEF SetColumns, Sound, ImageType
  <2>2. row \in RowType /\ row.kind = i.rows[id].kind /\ row.parent = i.rows[id].parent
    <3>1. i.rows[id] \in RowType
      BY <1>2 DEF Sound, ImageType
    <3>2. val \in [Columns -> Requests \union {NoOne}]
      BY <3>1 DEF RowType
    <3> HIDE DEF val
    <3> QED BY <3>1, <3>2 DEF RowType
  <2> HIDE DEF row
  <2>3. /\ DOMAIN j = DOMAIN i /\ j.rows = rows
        /\ j.members = i.members /\ j.audit = i.audit
    BY DEF Sound, ImageType
  <2>4. /\ DOMAIN j.rows = DOMAIN i.rows
        /\ j.rows \in [DOMAIN j.rows -> RowType]
        /\ \A x \in DOMAIN i.rows :
             j.rows[x].kind = i.rows[x].kind /\ j.rows[x].parent = i.rows[x].parent
    BY <2>2, <2>3 DEF Sound, ImageType
  <2> HIDE DEF j
  <2>5. ImageType(j) /\ TreeIsWhole(j)
    BY <2>3, <2>4 DEF Sound, ImageType, TreeIsWhole
  <2>6. SamePlaces(i, j)
    BY <2>4 DEF SamePlaces
  <2> QED BY <2>1, <2>3, <2>4, <2>5, <2>6 DEF Sound
<1> QED BY <1>1, <1>2

\* DELETE of a row that nothing refers to.
LEMMA DeleteIsSound ==
  ASSUME NEW i, Sound(i), NEW id, id \in DOMAIN i.rows => ~Referenced(i, id)
  PROVE  LET j == [i EXCEPT !.rows = RowsWithout(i, id)]
         IN  /\ Sound(j) /\ SamePlaces(i, j) /\ j.members = i.members
             /\ DOMAIN j.rows \subseteq DOMAIN i.rows
<1> DEFINE j == [i EXCEPT !.rows = RowsWithout(i, id)]
<1>1. /\ DOMAIN j = DOMAIN i /\ j.rows = RowsWithout(i, id)
      /\ j.members = i.members /\ j.audit = i.audit
  BY DEF Sound, ImageType
<1>2. /\ DOMAIN j.rows = DOMAIN i.rows \ {id}
      /\ \A x \in DOMAIN j.rows : j.rows[x] = i.rows[x]
      /\ j.rows \in [DOMAIN j.rows -> RowType]
  BY <1>1 DEF RowsWithout, Sound, ImageType
<1> HIDE DEF j
<1>3. ImageType(j)
  BY <1>1, <1>2 DEF Sound, ImageType
<1>4. \A x \in DOMAIN i.rows : i.rows[x].kind # "entity" => i.rows[x].parent \in DOMAIN i.rows
  BY DEF Sound, TreeIsWhole
<1>5. TreeIsWhole(j)
  BY <1>1, <1>2, <1>4 DEF Sound, TreeIsWhole, Referenced
<1>6. SamePlaces(i, j)
  BY <1>2 DEF SamePlaces
<1> QED BY <1>1, <1>2, <1>3, <1>5, <1>6 DEF Sound, j

LEMMA MemberIsSound ==
  ASSUME NEW i, Sound(i), NEW m \in MemberType, Exists(i, m.entity, "entity")
  PROVE  LET j == [i EXCEPT !.members = @ \union {m}]
         IN  Sound(j) /\ j.rows = i.rows /\ j.members = i.members \union {m}
BY DEF Sound, ImageType, TreeIsWhole, Exists

LEMMA EventIsSound ==
  ASSUME NEW i, Sound(i), NEW seq, NEW evt \in Events, NEW prev
  PROVE  LET j == [i EXCEPT !.audit = AddRow(i.audit, seq, Row(seq, evt, prev))]
         IN  Sound(j) /\ j.rows = i.rows /\ j.members = i.members
<1> DEFINE j == [i EXCEPT !.audit = AddRow(i.audit, seq, Row(seq, evt, prev))]
<1>1. /\ DOMAIN j = DOMAIN i /\ j.rows = i.rows /\ j.members = i.members
      /\ j.audit = AddRow(i.audit, seq, Row(seq, evt, prev))
  BY DEF Sound, ImageType
<1>2. \A s \in DOMAIN j.audit : j.audit[s].evt \in Events
  BY <1>1 DEF AddRow, Row, Sound, ImageType
<1> HIDE DEF j
<1> QED BY <1>1, <1>2 DEF Sound, ImageType, TreeIsWhole, j

-----------------------------------------------------------------------------
(* Every handler takes such steps                                           *)

\* What a request that has arrived may hold, by its operation.
LEMMA InputFacts ==
  ASSUME NEW i \in Inputs
  PROVE  /\ i.user \in Users \union {NoOne}
         /\ i.op \in {"create", "update", "delete", "get", "list", "browse"}
         /\ i.op # "browse" => i.kind \in Kinds /\ PathId(i) \in Ids \union {NoOne}
         /\ i.op \in {"update", "delete", "get", "list"} => i.id \in Ids
         /\ i.op = "create" => i.parent \in Ids \union {NoOne}
         /\ i.op = "update" => i.cols \subseteq Columns
BY DataInputsAssumption DEF PathId

LEMMA SessionFrame ==
  ASSUME DataInv, NEW r \in Requests, Session(r)
  PROVE  Step(r)
<1> USE DEF DataInv, TypeOK, Step, OnItsRoute, TxnTurn, Goto, localVars, ConnStep, connVars,
            Labels, Statuses, TxnLabels, SessionTxn, CreateTxn, AuditLabels, HoldsMu,
            AudTxnLabels, Checked, Before
<1>1. CASE SessionBegin(r)
  BY <1>1 DEF SessionBegin, ExecBegin, Begin, BeginOK
<1>2. CASE SessionSelect(r)
  BY <1>2, InputFacts DEF SessionSelect, Look
<1>3. CASE SessionReject(r)
  BY <1>3 DEF SessionReject, ExecRollback, Rollback
<1>4. CASE SessionTouch(r)
  <2>1. Sound(live)
    BY DEF NoOrphans, Sound
  <2>2. pc' = [pc EXCEPT ![r] = "s_commit"]
    BY <1>4 DEF SessionTouch, Statement
  <2>3. ConnStep(r)
    BY <1>4, <2>1
    DEF SessionTouch, Statement, RequestWrite, WriteFails, SamePlaces, MembersGrow
  <2>4. inTxn' = inTxn
    BY <1>4 DEF SessionTouch, Statement, Write, WriteFails
  <2> QED BY <1>4, <2>2, <2>3, <2>4 DEF SessionTouch, Statement
<1>5. CASE SessionCommit(r)
  <2>1. /\ Route(req[r]) \in {"read", "c_begin", "find"}
        /\ Route(req[r]) = "c_begin" => req[r].op = "create" /\ req[r].kind = "entity"
    BY DEF Route
  <2>2. ExecCommit(r, Route(req[r]), "s_catch") /\ pc[r] = "s_commit"
    BY <1>5 DEF SessionCommit
  <2>3. CASE CommitOK
    BY <2>1, <2>2, <2>3 DEF ExecCommit, Commit, CommitOK
  <2>4. CASE ~CommitOK
    BY <2>2, <2>4 DEF ExecCommit
  <2> QED BY <2>3, <2>4
<1>6. CASE SessionCatch(r)
  BY <1>6 DEF SessionCatch, CatchRollback, Rollback
<1> QED BY <1>1, <1>2, <1>3, <1>4, <1>5, <1>6 DEF Session

\* The entity of a row in a sound tree.
LEMMA EntityOfRow ==
  ASSUME NEW i, Sound(i), NEW id \in DOMAIN i.rows
  PROVE  EntityOf(i, id) \in Ids \union {NoOne}
<1>1. i.rows[id] \in RowType /\ id \in Ids
  BY DEF Sound, ImageType
<1>2. CASE i.rows[id].kind = "tx"
  <2>1. i.rows[id].parent \in DOMAIN i.rows
    BY <1>2 DEF Sound, TreeIsWhole
  <2>2. i.rows[i.rows[id].parent] \in RowType
    BY <2>1 DEF Sound, ImageType
  <2> QED BY <1>2, <2>2 DEF EntityOf, RowType
<1>3. CASE i.rows[id].kind # "tx"
  BY <1>1, <1>3 DEF EntityOf, RowType
<1> QED BY <1>2, <1>3

LEMMA CheckFrame ==
  ASSUME DataInv, NEW r \in Requests, Check(r)
  PROVE  Step(r)
<1> USE DEF DataInv, TypeOK, Step, OnItsRoute, TxnTurn, Goto, localVars, ConnStep, connVars,
            Labels, Statuses, TxnLabels, SessionTxn, CreateTxn, AuditLabels, HoldsMu,
            AudTxnLabels, Checked, Before, Look
<1>1. CASE Find(r)
  <2>1. req[r] \in Inputs /\ req[r].op # "browse" /\ PathId(req[r]) \in Ids \union {NoOne}
    BY <1>1, InputFacts DEF Find, Route
  <2>2. ent' \in [Requests -> Ids \union {NoOne}]
    BY <1>1, <2>1, EntityOfRow DEF Find, Exists, NoOrphans, Sound
  <2> QED BY <1>1, <2>2 DEF Find
<1>2. CASE Access(r)
  <2>1. req[r] \in Inputs /\ pc[r] = "access" /\ Route(req[r]) = "find" /\ req[r].user \in Users
    BY <1>2 DEF Access
  <2>2. PICK next \in AfterCheck(req[r]) \union {"403"} : pc' = [pc EXCEPT ![r] = next]
    BY <1>2 DEF Access
  <2>3. /\ next \in {"insert", "exists", "audit", "update", "delete", "read", "400", "403"}
        /\ next = "insert" => req[r].op = "create" /\ req[r].kind # "entity"
        /\ next \in {"exists", "update"} => req[r].op = "update"
        /\ next = "delete" => req[r].op = "delete"
        /\ next = "audit" => req[r].op \in {"create", "update", "delete"}
    BY <2>1, InputFacts DEF AfterCheck, FirstStep, Route
  <2>4. todo' \in [Requests -> SUBSET Columns]
    BY <1>2, <2>1, InputFacts DEF Access
  <2> QED BY <1>2, <2>1, <2>2, <2>3, <2>4 DEF Access
<1>3. CASE EntityExists(r)
  BY <1>3 DEF EntityExists
<1>4. CASE Read(r)
  BY <1>4 DEF Read
<1> QED BY <1>1, <1>2, <1>3, <1>4 DEF Check

LEMMA SameMembers ==
  ASSUME NEW r, NEW i, NEW j, j.members = i.members
  PROVE  MembersGrow(r, i, j)
BY DEF MembersGrow

\* What Statement gives once its image is known to be one the request may write.
LEMMA StatementFrame ==
  ASSUME NEW r \in Requests, NEW legal, NEW image, NEW rows, NEW next, NEW onFail,
         Statement(r, legal, image, rows, next, onFail),
         DOMAIN pc = Requests,
         WriteOK /\ legal =>
           /\ Sound(image) /\ rows \in {0, 1}
           /\ SamePlaces(live, image) /\ MembersGrow(r, live, image)
           /\ DOMAIN image.rows \subseteq DOMAIN live.rows \union {r}
           /\ pc[r] \notin Before => DOMAIN image.rows \subseteq DOMAIN live.rows,
         next \notin Before
  PROVE  /\ ConnStep(r) /\ inTxn' = inTxn
         /\ UNCHANGED <<mu, call, head>>
         /\ \E label \in {next, onFail} : Goto(r, label)
<1>1. CASE WriteOK /\ legal
  <2>1. Goto(r, next) /\ Write(image, rows)
    BY <1>1 DEF Statement
  <2>2. pc'[r] \notin Before
    BY <2>1 DEF Goto
  <2>3. RequestWrite(r, image, rows)
    BY <1>1, <2>1, <2>2 DEF RequestWrite
  <2> QED BY <2>1, <2>3 DEF ConnStep, Write, Statement
<1>2. CASE ~(WriteOK /\ legal)
  BY <1>2 DEF Statement, ConnStep, WriteFails
<1> QED BY <1>1, <1>2

LEMMA MutateFrame ==
  ASSUME DataInv, NEW r \in Requests, Mutate(r)
  PROVE  Step(r)
<1> USE DEF DataInv, TypeOK, Labels, Statuses, TxnLabels, SessionTxn, CreateTxn, AuditLabels,
            HoldsMu, AudTxnLabels, Checked, Before
<1>1. /\ Sound(live) /\ r \in Ids /\ DOMAIN pc = Requests
      /\ pc[r] \in Before => r \in Ids \ DOMAIN live.rows
  BY DEF NoOrphans, Sound, Ids, IdsAreFresh
<1>2. CASE Insert(r)
  <2>1. /\ pc[r] = "insert" /\ req[r] \in Inputs /\ req[r].op = "create"
        /\ req[r].kind # "entity"
    BY <1>2 DEF Insert, OnItsRoute
  <2>2. NewRow(r) \in RowType /\ NewRow(r).kind = req[r].kind /\ NewRow(r).parent = req[r].parent
    BY <2>1, InputFacts DEF NewRow, RowType
  <2> DEFINE image == [live EXCEPT !.rows = AddTo(live.rows, r, NewRow(r))]
             legal == Exists(live, req[r].parent, ParentKind(req[r].kind))
  <2>3. legal => /\ Sound(image) /\ SamePlaces(live, image) /\ MembersGrow(r, live, image)
                 /\ DOMAIN image.rows \subseteq DOMAIN live.rows \union {r}
    <3>1. r \in Ids \ DOMAIN live.rows /\ Sound(live)
      BY <1>1, <2>1
    <3> HIDE DEF DataInv
    <3>2. legal => /\ Sound(image) /\ SamePlaces(live, image) /\ image.members = live.members
                   /\ DOMAIN image.rows \subseteq DOMAIN live.rows \union {r}
      <4> SUFFICES ASSUME legal
                   PROVE  /\ Sound(image) /\ SamePlaces(live, image)
                          /\ image.members = live.members
                          /\ DOMAIN image.rows \subseteq DOMAIN live.rows \union {r}
        OBVIOUS
      <4> DEFINE row == NewRow(r)
      <4>1. /\ row \in RowType
            /\ IF row.kind = "entity" THEN row.parent = NoOne
               ELSE Exists(live, row.parent, ParentKind(row.kind))
        BY <2>1, <2>2
      <4>2. image = [live EXCEPT !.rows = AddTo(live.rows, r, row)]
        OBVIOUS
      <4> HIDE DEF legal, image, row
      <4> QED BY <3>1, <4>1, <4>2, InsertIsSound
    <3> HIDE DEF image, legal
    <3> QED BY <3>2, SameMembers
  <2>4. Statement(r, legal, image, 1, "audit", "500") /\ UNCHANGED localVars
    BY <1>2 DEF Insert
  <2> HIDE DEF image, legal
  <2>5. /\ ConnStep(r) /\ inTxn' = inTxn /\ UNCHANGED <<mu, call, head>>
        /\ \E label \in {"audit", "500"} : Goto(r, label)
    <3>1. pc[r] \in Before /\ "audit" \notin Before
      BY <2>1
    <3> HIDE DEF DataInv, Before
    <3> QED BY <1>1, <2>3, <2>4, <3>1, StatementFrame
  <2> QED BY <2>1, <2>4, <2>5 DEF Step, TxnTurn, Goto, OnItsRoute, localVars
<1>3. CASE Update(r)
  <2> DEFINE cols == IF req[r].kind = "entity" THEN todo[r] ELSE {FirstColumn(todo[r])}
             on == IF todo[r] \ cols = {} THEN "audit" ELSE "update"
             image == SetColumns(live, req[r].id, cols, r)
             rows == Cardinality({req[r].id} \intersect DOMAIN live.rows)
             legal == TRUE
  <2>1. /\ pc[r] = "update" /\ UNCHANGED <<req, ent>>
        /\ Statement(r, legal, image, rows, on, on)
        /\ todo' = [todo EXCEPT ![r] = todo[r] \ cols]
    BY <1>3 DEF Update, Set
  <2>2. /\ Sound(image) /\ SamePlaces(live, image) /\ MembersGrow(r, live, image)
        /\ DOMAIN image.rows \subseteq DOMAIN live.rows
    <3>1. /\ Sound(image) /\ SamePlaces(live, image) /\ image.members = live.members
          /\ DOMAIN image.rows \subseteq DOMAIN live.rows
      BY <1>1, UpdateIsSound
    <3> HIDE DEF image
    <3> QED BY <3>1, SameMembers
  <2>3. rows \in {0, 1} /\ on \in {"audit", "update"}
    BY OneRow
  <2>4. todo' \in [Requests -> SUBSET Columns]
    BY <2>1
  <2> HIDE DEF image, rows, on, cols, legal
  <2>5. /\ ConnStep(r) /\ inTxn' = inTxn /\ UNCHANGED <<mu, call, head>>
        /\ Goto(r, on)
    <3> HIDE DEF DataInv
    <3> QED BY <1>1, <2>1, <2>2, <2>3, StatementFrame
  <2> QED BY <2>1, <2>3, <2>4, <2>5 DEF Step, TxnTurn, Goto, OnItsRoute
<1>4. CASE Delete(r)
  <2> DEFINE hit == {req[r].id} \intersect DOMAIN live.rows
             legal == hit = {} \/ ~Referenced(live, req[r].id)
             image == [live EXCEPT !.rows = RowsWithout(live, req[r].id)]
  <2>1. /\ pc[r] = "delete" /\ UNCHANGED localVars
        /\ Statement(r, legal, image, Cardinality(hit), "audit", "audit")
    BY <1>4 DEF Delete
  <2>2. legal => (req[r].id \in DOMAIN live.rows => ~Referenced(live, req[r].id))
    OBVIOUS
  <2>3. Cardinality(hit) \in {0, 1}
    BY OneRow
  <2> HIDE DEF hit, legal
  <2>4. legal => /\ Sound(image) /\ SamePlaces(live, image) /\ MembersGrow(r, live, image)
                 /\ DOMAIN image.rows \subseteq DOMAIN live.rows
    <3>1. legal => /\ Sound(image) /\ SamePlaces(live, image) /\ image.members = live.members
                   /\ DOMAIN image.rows \subseteq DOMAIN live.rows
      BY <1>1, <2>2, DeleteIsSound
    <3> HIDE DEF image
    <3> QED BY <3>1, SameMembers
  <2> HIDE DEF image
  <2>5. /\ ConnStep(r) /\ inTxn' = inTxn /\ UNCHANGED <<mu, call, head>>
        /\ Goto(r, "audit")
    <3> HIDE DEF DataInv
    <3> QED BY <1>1, <2>1, <2>3, <2>4, StatementFrame
  <2> QED BY <2>1, <2>5 DEF Step, TxnTurn, Goto, OnItsRoute, localVars
<1>5. CASE Audit(r)
  <2>1. PICK fail \in Statuses :
          /\ CallAudit(r, Event(req[r], r), Success(req[r]), fail)
          /\ pc[r] = "audit" /\ UNCHANGED <<connVars, localVars>>
    BY <1>5 DEF Audit, Success
  <2>2. [evt |-> Event(req[r], r), ok |-> Success(req[r]), fail |-> fail] \in Calls
    BY <2>1 DEF Calls, Events, Event, Success, OnItsRoute
  <2> QED BY <2>1, <2>2 DEF Step, ConnStep, TxnTurn, CallAudit, Goto, OnItsRoute,
                            connVars, localVars
<1> QED BY <1>2, <1>3, <1>4, <1>5 DEF Mutate

LEMMA CreateFrame ==
  ASSUME DataInv, NEW r \in Requests, CreateEntityStep(r)
  PROVE  Step(r)
<1> USE DEF DataInv, TypeOK, Labels, Statuses, TxnLabels, SessionTxn, CreateTxn, AuditLabels,
            HoldsMu, AudTxnLabels, Checked, Before
<1>1. /\ Sound(live) /\ r \in Ids /\ DOMAIN pc = Requests
      /\ pc[r] \in Before => r \in Ids \ DOMAIN live.rows
  BY DEF NoOrphans, Sound, Ids, IdsAreFresh
<1>2. CASE CreateBegin(r)
  BY <1>2 DEF CreateBegin, ExecBegin, Begin, BeginOK, Step, TxnTurn, ConnStep, Goto,
              OnItsRoute, connVars, localVars
<1>3. CASE CreateEntity(r)
  <2>1. /\ pc[r] = "c_entity" /\ req[r] \in Inputs /\ req[r].op = "create"
        /\ req[r].kind = "entity"
    BY <1>3 DEF CreateEntity, OnItsRoute
  <2>2. NewRow(r) \in RowType /\ NewRow(r).kind = "entity" /\ NewRow(r).parent = NoOne
    BY <2>1, InputFacts DEF NewRow, RowType
  <2> DEFINE image == [live EXCEPT !.rows = AddTo(live.rows, r, NewRow(r))]
  <2>3. /\ Sound(image) /\ SamePlaces(live, image) /\ MembersGrow(r, live, image)
        /\ DOMAIN image.rows \subseteq DOMAIN live.rows \union {r}
    <3>1. r \in Ids \ DOMAIN live.rows
      BY <1>1, <2>1
    <3> HIDE DEF DataInv
    <3>2. NewRow(r) \in RowType /\ (IF NewRow(r).kind = "entity" THEN NewRow(r).parent = NoOne
            ELSE Exists(live, NewRow(r).parent, ParentKind(NewRow(r).kind)))
      BY <2>2
    <3>3. Sound(live)
      BY <1>1
    <3> HIDE DEF TypeOK, Labels, Statuses, TxnLabels, SessionTxn, CreateTxn, AuditLabels,
                 HoldsMu, AudTxnLabels, Checked, Before
    <3>4. /\ Sound(image) /\ SamePlaces(live, image) /\ image.members = live.members
          /\ DOMAIN image.rows = DOMAIN live.rows \union {r}
      BY <3>1, <3>2, <3>3, InsertIsSound
    <3> HIDE DEF image
    <3> QED BY <3>4, SameMembers
  <2> DEFINE legal == TRUE
  <2>4. Statement(r, legal, image, 1, "c_member", "c_undo") /\ UNCHANGED localVars
    BY <1>3 DEF CreateEntity
  <2> HIDE DEF image, legal
  <2>5. /\ ConnStep(r) /\ inTxn' = inTxn /\ UNCHANGED <<mu, call, head>>
        /\ \E label \in {"c_member", "c_undo"} : Goto(r, label)
    <3>1. pc[r] \in Before /\ "c_member" \notin Before
      BY <2>1
    <3> HIDE DEF DataInv, Before
    <3> QED BY <1>1, <2>3, <2>4, <3>1, StatementFrame
  <2> QED BY <2>1, <2>4, <2>5 DEF Step, TxnTurn, Goto, OnItsRoute, localVars
<1>4. CASE CreateMember(r)
  <2> DEFINE m == [user |-> req[r].user, entity |-> r, role |-> "owner"]
             legal == Exists(live, r, "entity")
             image == [live EXCEPT !.members = @ \union {m}]
  <2>1. pc[r] = "c_member" /\ req[r].user \in Users
    BY <1>4 DEF CreateMember, OnItsRoute
  <2>2. m \in MemberType /\ m.entity = r
    BY <1>1, <2>1 DEF MemberType, Roles
  <2> HIDE DEF m
  <2>3. legal => /\ Sound(image) /\ image.rows = live.rows
                 /\ SamePlaces(live, image) /\ MembersGrow(r, live, image)
    BY <1>1, <2>1, <2>2, MemberIsSound DEF MembersGrow, SamePlaces
  <2>4. Statement(r, legal, image, 1, "c_commit", "c_undo") /\ UNCHANGED localVars
    BY <1>4 DEF CreateMember, m
  <2> HIDE DEF image, legal
  <2>5. /\ ConnStep(r) /\ inTxn' = inTxn /\ UNCHANGED <<mu, call, head>>
        /\ \E label \in {"c_commit", "c_undo"} : Goto(r, label)
    <3> HIDE DEF DataInv
    <3> QED BY <1>1, <2>3, <2>4, StatementFrame
  <2> QED BY <2>1, <2>4, <2>5 DEF Step, TxnTurn, Goto, OnItsRoute, localVars
<1>5. CASE CreateUndo(r)
  BY <1>5 DEF CreateUndo, ExecRollback, Rollback, Step, TxnTurn, ConnStep, Goto,
              OnItsRoute, connVars, localVars
<1>6. CASE CreateCommit(r)
  BY <1>6 DEF CreateCommit, ExecCommit, Commit, Step, TxnTurn, ConnStep, Goto,
              OnItsRoute, connVars, localVars
<1>7. CASE CreateCatch(r)
  BY <1>7 DEF CreateCatch, CatchRollback, Rollback, Step, TxnTurn, ConnStep, Goto,
              OnItsRoute, connVars, localVars
<1> QED BY <1>2, <1>3, <1>4, <1>5, <1>6, <1>7 DEF CreateEntityStep

LEMMA AuditFrame ==
  ASSUME DataInv, NEW r \in Requests, AuditStep(r), UNCHANGED localVars
  PROVE  Step(r)
<1> USE DEF DataInv, TypeOK, Labels, Statuses, TxnLabels, SessionTxn, CreateTxn, AuditLabels,
            HoldsMu, AudTxnLabels, Checked, Before, Step, TxnTurn, ConnStep, Goto, Leave,
            OnItsRoute, connVars, localVars
<1>1. pc[r] \in AuditLabels
  BY DEF AuditStep, AudLock, AudBegin, AudRead, AudInsert, AudCommit, AudRollback
<1>2. /\ call[r] \in Calls /\ call[r].ok \in Statuses /\ call[r].fail \in Statuses
      /\ call[r].evt \in Events
  BY <1>1 DEF Calls
<1>3. CASE AudLock(r)
  BY <1>2, <1>3 DEF AudLock
<1>4. CASE AudBegin(r)
  BY <1>2, <1>4 DEF AudBegin, Begin, BeginOK
<1>5. CASE AudRead(r)
  BY <1>2, <1>5 DEF AudRead
<1>6. CASE AudInsert(r)
  <2> DEFINE seq == head[r].seq + 1
             image == [live EXCEPT !.audit =
                         AddRow(live.audit, seq, Row(seq, call[r].evt, head[r].hash))]
  <2>1. /\ Sound(image) /\ image.rows = live.rows
        /\ SamePlaces(live, image) /\ MembersGrow(r, live, image)
    <3>1. Sound(live)
      BY DEF NoOrphans, Sound
    <3> HIDE DEF DataInv
    <3> QED BY <1>2, <3>1, EventIsSound DEF MembersGrow, SamePlaces
  <2>2. Statement(r, seq \notin DOMAIN live.audit, image, 1, "aud_commit", "aud_rollback")
    BY <1>6 DEF AudInsert, InsertRow, Statement
  <2> HIDE DEF image, seq
  <2>3. /\ ConnStep(r) /\ inTxn' = inTxn /\ UNCHANGED <<mu, call, head>>
        /\ \E label \in {"aud_commit", "aud_rollback"} : Goto(r, label)
    <3>1. DOMAIN pc = Requests
      OBVIOUS
    <3> HIDE DEF ConnStep, Goto, DataInv
    <3> QED BY <2>1, <2>2, <3>1, StatementFrame
  <2> HIDE DEF ConnStep
  <2> QED BY <1>2, <1>6, <2>3 DEF AudInsert
<1>7. CASE AudCommit(r)
  BY <1>2, <1>7 DEF AudCommit, Commit
<1>8. CASE AudRollback(r)
  BY <1>2, <1>8 DEF AudRollback, Rollback
<1> QED BY <1>3, <1>4, <1>5, <1>6, <1>7, <1>8 DEF AuditStep

LEMMA HandleFrame ==
  ASSUME DataInv, NEW r \in Requests, Handle(r)
  PROVE  Step(r)
BY AuditFrame, SessionFrame, CheckFrame, MutateFrame, CreateFrame DEF Handle

-----------------------------------------------------------------------------
(* Types, the tree of rows, and the ids of rows to come                     *)

LEMMA InitIsSound == Init => DataInv
<1> SUFFICES ASSUME Init PROVE DataInv
  OBVIOUS
<1>1. Sound(SeedImage)
  BY DataAssumption DEF Sound, ImageType, SeedImage, Ids
<1>2. live = SeedImage /\ disk = SeedImage
  BY DEF Init, ConnInit
<1>3. IdsAreFresh
  BY <1>2, DataAssumption DEF IdsAreFresh, SeedImage
<1>4. \A r \in Requests : pc[r] = "new" /\ OnItsRoute(r)
  BY DEF Init, OnItsRoute, CreateTxn, Checked
<1>5. TypeOK
  BY <1>1, <1>2, <1>4, DataAssumption
  DEF Init, ConnInit, TypeOK, Sound, FileLocks, Labels, AuditLabels, HoldsMu, AudTxnLabels
<1> QED BY <1>1, <1>2, <1>3, <1>5 DEF DataInv, NoOrphans, Sound

LEMMA StepKeepsInv ==
  ASSUME DataInv, NEW r \in Requests, Step(r), UNCHANGED worldVars
  PROVE  DataInv'
<1>1. /\ Sound(live) /\ Sound(disk) /\ pc \in [Requests -> Labels] /\ changes \in {0, 1}
      /\ inTxn \in BOOLEAN
  BY DEF DataInv, TypeOK, NoOrphans, Sound
<1>2. PICK label \in Labels \ {"new"} : pc' = [pc EXCEPT ![r] = label]
  BY DEF Step, Goto
<1>3. Sound(live') /\ Sound(disk') /\ changes' \in {0, 1} /\ inTxn' \in BOOLEAN
  BY <1>1 DEF Step, ConnStep, connVars, Begin, Commit, Rollback, WriteFails,
              RequestWrite, Write
<1>4. \A s \in Requests : OnItsRoute(s)'
  <2>1. ASSUME NEW s \in Requests \ {r} PROVE OnItsRoute(s)'
    BY <1>1, <1>2, <2>1 DEF Step, DataInv, TypeOK, OnItsRoute
  <2> QED BY <2>1 DEF Step
<1>5. \A s \in Requests : pc'[s] \in AuditLabels => call'[s] \in Calls
  BY <1>1, <1>2 DEF Step, DataInv, TypeOK
<1>6. TypeOK'
  BY <1>1, <1>2, <1>3, <1>4, <1>5 DEF Step, DataInv, TypeOK, Sound, worldVars
<1>7. IdsAreFresh'
  <2> SUFFICES ASSUME NEW s \in Requests, pc'[s] \in Before
               PROVE  s \notin DOMAIN live'.rows /\ s \notin DOMAIN disk'.rows
    BY DEF IdsAreFresh
  <2>1. pc[s] \in Before
    BY <1>1, <1>2 DEF Step
  <2>2. s \notin DOMAIN live.rows /\ s \notin DOMAIN disk.rows
    BY <2>1 DEF DataInv, IdsAreFresh
  <2>3. CASE \E image, rows : RequestWrite(r, image, rows)
    BY <2>2, <2>3 DEF RequestWrite, Write
  <2>4. CASE ~\E image, rows : RequestWrite(r, image, rows)
    BY <2>2, <2>4 DEF Step, ConnStep, connVars, Begin, Commit, Rollback, WriteFails
  <2> QED BY <2>3, <2>4
<1> QED BY <1>3, <1>6, <1>7 DEF DataInv, NoOrphans, Sound

LEMMA NextKeepsInv == DataInv /\ [Next]_vars => DataInv'
<1> SUFFICES ASSUME DataInv, [Next]_vars PROVE DataInv'
  OBVIOUS
<1> USE DEF Labels, Statuses, TxnLabels, SessionTxn, CreateTxn, AuditLabels, HoldsMu,
            AudTxnLabels, Checked, Before
<1>1. CASE UNCHANGED vars
  BY <1>1 DEF vars, connVars, auditVars, localVars, DataInv, TypeOK, NoOrphans, IdsAreFresh,
              ImageType, TreeIsWhole, OnItsRoute
<1>2. ASSUME NEW r \in Requests, Arrive(r), UNCHANGED worldVars PROVE DataInv'
  <2>1. PICK i \in Inputs : req' = [req EXCEPT ![r] = i]
    BY <1>2 DEF Arrive
  <2>2. pc[r] = "new" /\ pc' = [pc EXCEPT ![r] = "s_begin"]
    BY <1>2 DEF Arrive, Goto
  <2>3. \A s \in Requests : OnItsRoute(s)'
    BY <2>1, <2>2 DEF DataInv, TypeOK, OnItsRoute
  <2>4. \A s \in Requests :
          /\ pc'[s] \in Before => pc[s] \in Before
          /\ pc'[s] \in AuditLabels => pc[s] \in AuditLabels
    BY <2>2 DEF DataInv, TypeOK
  <2>5. TypeOK'
    BY <1>2, <2>1, <2>2, <2>3, <2>4 DEF Arrive, DataInv, TypeOK, ImageType, connVars, worldVars
  <2>6. IdsAreFresh' /\ NoOrphans'
    BY <1>2, <2>4 DEF Arrive, DataInv, IdsAreFresh, NoOrphans, TreeIsWhole, connVars
  <2> QED BY <2>5, <2>6 DEF DataInv
<1>3. ASSUME NEW r \in Requests, Handle(r), UNCHANGED worldVars PROVE DataInv'
  BY <1>3, HandleFrame, StepKeepsInv
<1>4. CASE ForeignTxn
  <2>1. Sound(live') /\ Sound(disk') /\ changes' = changes /\ inTxn' \in BOOLEAN
    BY <1>4 DEF ForeignTxn, Begin, Commit, Rollback, DataInv, TypeOK, NoOrphans, Sound
  <2>2. TypeOK'
    BY <1>4, <2>1 DEF ForeignTxn, DataInv, TypeOK, OnItsRoute, Sound, auditVars, localVars
  <2>3. IdsAreFresh'
    BY <1>4 DEF ForeignTxn, Begin, Commit, Rollback, DataInv, IdsAreFresh, auditVars
  <2> QED BY <2>1, <2>2, <2>3 DEF DataInv, NoOrphans, Sound
<1>5. CASE CliLocks
  BY <1>5 DEF CliLocks, connVars, auditVars, localVars, DataInv, TypeOK, NoOrphans,
              IdsAreFresh, ImageType, TreeIsWhole, OnItsRoute, FileLocks
<1>6. CASE Crash
  <2>1. pc' = [r \in Requests |-> IF r \in InFlight THEN "lost" ELSE pc[r]]
    BY <1>6 DEF Crash
  <2>2. \A s \in Requests :
          \/ pc'[s] = "lost" /\ pc[s] # "new"
          \/ pc'[s] = pc[s] /\ pc[s] \in Answered \union {"new"}
    <3> HIDE DEF Statuses
    <3> QED BY <2>1 DEF InFlight
  <2>3. \A s \in Requests : OnItsRoute(s)'
    BY <1>6, <2>2 DEF Crash, DataInv, TypeOK, OnItsRoute, Answered, localVars
  <2>4. Sound(live') /\ Sound(disk')
    BY <1>6 DEF Crash, ConnCrash, DataInv, TypeOK, NoOrphans, Sound
  <2>5. /\ pc' \in [Requests -> Labels]
        /\ \A s \in Requests : pc'[s] \notin AuditLabels
    BY <2>1, <2>2 DEF DataInv, TypeOK, Answered
  <2>6. TypeOK'
    <3> HIDE DEF Labels, AuditLabels
    <3>1. ImageType(live') /\ ImageType(disk') /\ inTxn' = FALSE /\ changes' = 0
      BY <1>6, <2>4 DEF Crash, ConnCrash, Sound
    <3>2. /\ mu' = NoOne /\ call' = [r \in Requests |-> NoCall]
          /\ DOMAIN head' = Requests /\ crashes' = crashes + 1
          /\ UNCHANGED <<req, ent, todo, fileLock, regime>>
      BY <1>6 DEF Crash, localVars
    <3>3. /\ call' \in [Requests -> Calls \union {NoCall}]
          /\ mu' \in Requests \union {NoOne}
      BY <3>2
    <3>4. crashes' \in Nat /\ fileLock' \in FileLocks /\ regime' \in Regimes
      BY <3>2 DEF DataInv, TypeOK
    <3>5. /\ DOMAIN req' = Requests
          /\ ent' \in [Requests -> Ids \union {NoOne}]
          /\ todo' \in [Requests -> SUBSET Columns]
      BY <3>2 DEF DataInv, TypeOK
    <3> HIDE DEF DataInv
    <3> QED BY <2>3, <2>5, <3>1, <3>2, <3>3, <3>4, <3>5 DEF TypeOK
  <2>7. IdsAreFresh'
    BY <1>6, <2>2 DEF Crash, ConnCrash, DataInv, IdsAreFresh, Answered
  <2> QED BY <2>4, <2>6, <2>7 DEF DataInv, NoOrphans, Sound
<1> QED BY <1>1, <1>2, <1>3, <1>4, <1>5, <1>6 DEF Next, Idle

LEMMA InvHolds == Spec => []DataInv
<1> QED BY InitIsSound, NextKeepsInv, PTL DEF Spec

\* The types of the data routes' variables, for any number of requests.
THEOREM TypeCorrect == Spec => []TypeOK
<1>1. DataInv => TypeOK
  BY DEF DataInv
<1> QED BY <1>1, InvHolds, PTL

\* The tree of rows keeps no orphans, on the connection and on disk, whatever
\* requests, crashes, foreign transactions and CLI locks come between a lookup
\* and the INSERT or DELETE that relies on it.
THEOREM TreeStaysWhole == Spec => []NoOrphans
<1>1. DataInv => NoOrphans
  BY DEF DataInv
<1> QED BY <1>1, InvHolds, PTL

-----------------------------------------------------------------------------
(* Transactions                                                             *)

\* As long as only data routes use the connection, a step of one of them keeps
\* its transactions apart from the others'.
LEMMA StepKeepsApart ==
  ASSUME DataInv, TransactionsDoNotMix, NEW r \in Requests, Step(r), UNCHANGED worldVars
  PROVE  TransactionsDoNotMix'
<1> SUFFICES ASSUME ~regime.foreign
             PROVE  /\ \A q, s \in Requests :
                         pc'[q] \in TxnLabels /\ pc'[s] \in TxnLabels => q = s
                    /\ inTxn' <=> \E q \in Requests : pc'[q] \in TxnLabels
  BY DEF TransactionsDoNotMix, worldVars
<1>1. /\ \A q, s \in Requests : pc[q] \in TxnLabels /\ pc[s] \in TxnLabels => q = s
      /\ inTxn <=> \E q \in Requests : pc[q] \in TxnLabels
  BY DEF TransactionsDoNotMix
<1>2. \A s \in Requests \ {r} : pc'[s] = pc[s]
  BY DEF Step, Goto, DataInv, TypeOK
<1>3. TxnTurn(r)
  BY DEF Step
<1> HIDE DEF TxnLabels
<1> QED BY <1>1, <1>2, <1>3 DEF TxnTurn

LEMMA NextKeepsApart ==
  DataInv /\ TransactionsDoNotMix /\ [Next]_vars => TransactionsDoNotMix'
<1> SUFFICES ASSUME DataInv, TransactionsDoNotMix, [Next]_vars PROVE TransactionsDoNotMix'
  OBVIOUS
<1> USE DEF TransactionsDoNotMix
<1>1. CASE UNCHANGED vars
  BY <1>1 DEF vars, connVars, auditVars
<1>2. ASSUME NEW r \in Requests, Arrive(r), UNCHANGED worldVars PROVE TransactionsDoNotMix'
  <2>1. \A s \in Requests : pc'[s] \in TxnLabels <=> pc[s] \in TxnLabels
    BY <1>2 DEF Arrive, Goto, DataInv, TypeOK, TxnLabels, SessionTxn, CreateTxn, AudTxnLabels
  <2> QED BY <1>2, <2>1 DEF Arrive, connVars, worldVars
<1>3. ASSUME NEW r \in Requests, Handle(r), UNCHANGED worldVars PROVE TransactionsDoNotMix'
  BY <1>3, HandleFrame, StepKeepsApart
<1>4. CASE ForeignTxn
  BY <1>4 DEF ForeignTxn
<1>5. CASE CliLocks
  BY <1>5 DEF CliLocks, connVars, auditVars
<1>6. CASE Crash
  <2>1. \A s \in Requests : pc'[s] \notin TxnLabels
    BY <1>6 DEF Crash, InFlight, Answered, Statuses, TxnLabels, SessionTxn, CreateTxn, AudTxnLabels
  <2> QED BY <1>6, <2>1 DEF Crash, ConnCrash
<1> QED BY <1>1, <1>2, <1>3, <1>4, <1>5, <1>6 DEF Next, Idle

\* No COMMIT or ROLLBACK of a data route is ever another request's, for any
\* number of requests at once, as long as the auth routes leave the connection
\* alone.
THEOREM TransactionsStayApart == Spec => []TransactionsDoNotMix
<1>1. Init => TransactionsDoNotMix
  BY DEF Init, ConnInit, TransactionsDoNotMix, TxnLabels, SessionTxn, CreateTxn, AudTxnLabels
<1> QED BY <1>1, NextKeepsApart, InvHolds, PTL DEF Spec

-----------------------------------------------------------------------------
(* Authority                                                                *)

Looked == {"access"} \union Checked

\* An id that is in no table, and is nobody's to come.
Gone(x) ==
  /\ x \notin DOMAIN live.rows /\ x \notin DOMAIN disk.rows
  /\ ~(x \in Requests /\ pc[x] \in Before)

\* What r has noted as the entity of its row is so in both tables.
Anchored(r) ==
  LET id == PathId(req[r])
  IN  IF PathKind(req[r]) = "entity" THEN ent[r] = id
      ELSE /\ ~(id \in Requests /\ pc[id] \in Before)
           /\ \A image \in {live, disk} :
                id \in DOMAIN image.rows => EntityOf(image, id) = ent[r]

Entitled(r) == MayAct(live, req[r], ent[r]) \/ Gone(ent[r])

\* What a ROLLBACK takes back: no row's place, and no membership of an entity that
\* stays.
Reversible ==
  /\ SamePlaces(live, disk)
  /\ disk.members \subseteq live.members
  /\ \A m \in live.members \ disk.members : m.entity \notin DOMAIN disk.rows
  /\ \A r \in Requests : pc[r] = "c_member" => r \notin DOMAIN disk.rows

AuthInv ==
  ~regime.foreign =>
    /\ Reversible
    /\ \A r \in Requests :
         /\ pc[r] \in Looked => Anchored(r)
         /\ pc[r] \in Checked => Entitled(r)

\* The entity of a row is the same in two sound tables that have it.
LEMMA EntityKept ==
  ASSUME NEW i, NEW j, Sound(i), Sound(j), SamePlaces(i, j),
         NEW id \in DOMAIN i.rows \intersect DOMAIN j.rows
  PROVE  EntityOf(j, id) = EntityOf(i, id)
<1>1. j.rows[id].kind = i.rows[id].kind /\ j.rows[id].parent = i.rows[id].parent
  BY DEF SamePlaces
<1>2. CASE i.rows[id].kind = "tx"
  <2>1. i.rows[id].parent \in DOMAIN i.rows \intersect DOMAIN j.rows
    BY <1>1, <1>2 DEF Sound, TreeIsWhole
  <2>2. j.rows[i.rows[id].parent].parent = i.rows[i.rows[id].parent].parent
    BY <2>1 DEF SamePlaces
  <2> QED BY <1>1, <1>2, <2>2 DEF EntityOf
<1>3. CASE i.rows[id].kind # "tx"
  BY <1>1, <1>3 DEF EntityOf
<1> QED BY <1>2, <1>3

\* How a step of r may leave the two tables.
Grown(r) ==
  /\ SamePlaces(live, live') /\ MembersGrow(r, live, live')
  /\ DOMAIN live'.rows \subseteq DOMAIN live.rows \union {r}
  /\ pc[r] \notin Before => DOMAIN live'.rows \subseteq DOMAIN live.rows

Moves(r) ==
  \/ live' = live /\ disk' = disk
  \/ live' = live /\ disk' = live
  \/ live' = disk /\ disk' = disk
  \/ Grown(r) /\ (disk' = disk \/ disk' = live')

LEMMA StepMoves ==
  ASSUME NEW r \in Requests, Step(r)
  PROVE  Moves(r)
BY DEF Step, ConnStep, Moves, Grown, RequestWrite, Write, Begin, Commit, Rollback, WriteFails, connVars

\* No id comes into a table but that of a request on its way to put it there.
LEMMA GoneStays ==
  ASSUME NEW r \in Requests, Moves(r), NEW x, Gone(x),
         \A s \in Requests : pc'[s] \in Before => pc[s] \in Before
  PROVE  Gone(x)'
BY DEF Moves, Grown, Gone

LEMMA AnchoredStays ==
  ASSUME NEW r \in Requests, Moves(r), Sound(live), Sound(disk), Sound(live'), Sound(disk'),
         \A s \in Requests : pc'[s] \in Before => pc[s] \in Before,
         NEW q \in Requests, Anchored(q), req'[q] = req[q], ent'[q] = ent[q]
  PROVE  Anchored(q)'
<1> DEFINE id == PathId(req[q])
<1>1. PathId(req'[q]) = id /\ PathKind(req'[q]) = PathKind(req[q])
  OBVIOUS
<1>2. CASE PathKind(req[q]) = "entity"
  BY <1>1, <1>2 DEF Anchored
<1>3. CASE PathKind(req[q]) # "entity"
  <2>1. /\ ~(id \in Requests /\ pc[id] \in Before)
        /\ id \in DOMAIN live.rows => EntityOf(live, id) = ent[q]
        /\ id \in DOMAIN disk.rows => EntityOf(disk, id) = ent[q]
    BY <1>3 DEF Anchored
  <2>2. ~(id \in Requests /\ pc'[id] \in Before)
    BY <2>1
  <2>3. id \in DOMAIN live'.rows => EntityOf(live', id) = ent[q]
    <3>1. CASE live' \in {live, disk}
      BY <2>1, <3>1
    <3>2. CASE Grown(r)
      <4>1. id \in DOMAIN live'.rows => id \in DOMAIN live.rows
        BY <2>1, <3>2 DEF Grown
      <4> QED BY <2>1, <3>2, <4>1, EntityKept DEF Grown
    <3> QED BY <3>1, <3>2 DEF Moves
  <2>4. id \in DOMAIN disk'.rows => EntityOf(disk', id) = ent[q]
    BY <2>1, <2>3 DEF Moves
  <2> HIDE DEF id
  <2> QED BY <1>1, <1>3, <2>2, <2>3, <2>4 DEF Anchored
<1> QED BY <1>2, <1>3

LEMMA EntitledStays ==
  ASSUME DataInv, Reversible, NEW r \in Requests, Moves(r),
         \A s \in Requests : pc'[s] \in Before => pc[s] \in Before,
         NEW q \in Requests, Entitled(q), req'[q] = req[q], ent'[q] = ent[q]
  PROVE  Entitled(q)'
<1>1. CASE Gone(ent[q])
  <2>1. Gone(ent[q])'
    BY <1>1, GoneStays
  <2> QED BY <2>1 DEF Entitled, Gone
<1>2. CASE MayAct(live, req[q], ent[q])
  <2>1. PICK m \in live.members :
          /\ m.user = req[q].user /\ m.entity = ent[q]
          /\ req[q].op = "delete" /\ req[q].kind = "entity" => m.role = "owner"
    BY <1>2 DEF MayAct
  <2>2. CASE m \in live'.members
    BY <2>1, <2>2 DEF Entitled, MayAct
  <2>3. CASE m \notin live'.members
    <3>1. live' = disk /\ disk' = disk /\ m \notin disk.members
      BY <2>3 DEF Moves, Grown, MembersGrow
    <3>2. ent[q] \notin DOMAIN disk.rows
      BY <2>1, <3>1 DEF Reversible
    <3>3. ent[q] \in DOMAIN live.rows
      BY <2>1 DEF DataInv, NoOrphans, TreeIsWhole
    <3>4. ~(ent[q] \in Requests /\ pc'[ent[q]] \in Before)
      BY <3>3 DEF DataInv, IdsAreFresh
    <3> QED BY <3>1, <3>2, <3>4 DEF Entitled, Gone
  <2> QED BY <2>2, <2>3
<1> QED BY <1>1, <1>2 DEF Entitled

\* A transaction that stays open keeps the disk as it is, whoever steps.
LEMMA DiskStays ==
  ASSUME DataInv, TransactionsDoNotMix, ~regime.foreign, NEW r \in Requests, Step(r),
         NEW q \in Requests, pc[q] \in TxnLabels, pc'[q] \in TxnLabels
  PROVE  disk' = disk
<1>1. inTxn
  BY DEF TransactionsDoNotMix
<1>2. inTxn'
  BY <1>1 DEF Step, TxnTurn, TransactionsDoNotMix
<1> QED BY <1>1, <1>2 DEF Step, ConnStep, connVars, Begin, Commit, Rollback, WriteFails,
                           RequestWrite, Write

LEMMA StepIsReversible ==
  ASSUME DataInv, TransactionsDoNotMix, ~regime.foreign, Reversible,
         NEW r \in Requests, Step(r)
  PROVE  Reversible'
<1>1. Moves(r)
  BY StepMoves
<1>2. \A q \in Requests : pc[q] \in Before =>
        q \notin DOMAIN live.rows /\ q \notin DOMAIN disk.rows
  BY DEF DataInv, IdsAreFresh
<1>3. SamePlaces(live', disk')
  BY <1>1, <1>2 DEF Moves, Grown, Reversible, SamePlaces
<1>4. /\ disk'.members \subseteq live'.members
      /\ \A m \in live'.members \ disk'.members : m.entity \notin DOMAIN disk'.rows
  BY <1>1 DEF Moves, Grown, MembersGrow, Reversible
<1>5. ASSUME NEW q \in Requests, pc'[q] = "c_member" PROVE q \notin DOMAIN disk'.rows
  <2>1. /\ pc[q] \in {"c_entity", "c_member"}
        /\ pc[q] = "c_entity" => pc[q] \in Before
    BY <1>5 DEF Step, Goto, DataInv, TypeOK, Before
  <2>2. q \notin DOMAIN disk.rows
    BY <1>2, <2>1 DEF Reversible
  <2>3. pc[q] \in TxnLabels /\ pc'[q] \in TxnLabels
    BY <1>5, <2>1 DEF TxnLabels, CreateTxn
  <2> QED BY <2>2, <2>3, DiskStays
<1> QED BY <1>3, <1>4, <1>5 DEF Reversible

\* How a request comes to what it has looked up, and past the check.
NoteTurn(r) ==
  \/ pc'[r] \notin Looked
  \/ pc[r] = "find" /\ pc'[r] = "access" /\ Anchored(r)'
  \/ /\ pc[r] = "access" /\ pc'[r] \in Checked /\ ent'[r] = ent[r] /\ live' = live
     /\ MayAct(live, req[r], ent[r])
  \/ pc[r] \in Checked /\ pc'[r] \in Checked /\ ent'[r] = ent[r]

LEMMA FindNotes ==
  ASSUME DataInv, Reversible, NEW r \in Requests, Find(r), pc'[r] = "access"
  PROVE  Anchored(r)'
<1> DEFINE id == PathId(req[r])
<1>1. UNCHANGED <<connVars, req>>
  BY DEF Find, Look
<1>2. PathId(req'[r]) = id /\ PathKind(req'[r]) = PathKind(req[r])
  BY <1>1
<1>3. /\ PathKind(req[r]) = "entity" \/ Exists(live, id, PathKind(req[r]))
      /\ ent' = [ent EXCEPT ![r] = IF PathKind(req[r]) = "entity" THEN id ELSE EntityOf(live, id)]
      /\ pc' = [pc EXCEPT ![r] = "access"]
  BY DEF Find, Look, Goto, DataInv, TypeOK
<1>4. ent'[r] = IF PathKind(req[r]) = "entity" THEN id ELSE EntityOf(live, id)
  BY <1>3 DEF DataInv, TypeOK
<1> HIDE DEF id
<1>5. CASE PathKind(req[r]) = "entity"
  BY <1>2, <1>4, <1>5 DEF Anchored
<1>6. CASE PathKind(req[r]) # "entity"
  <2>1. id \in DOMAIN live.rows
    BY <1>3, <1>6 DEF Exists
  <2>2. ~(id \in Requests /\ pc'[id] \in Before)
    BY <1>3, <2>1 DEF DataInv, TypeOK, IdsAreFresh, Before, Find
  <2>3. live' = live /\ disk' = disk
    BY <1>1 DEF connVars
  <2>4. id \in DOMAIN disk.rows => EntityOf(disk, id) = EntityOf(live, id)
    BY <2>1, EntityKept DEF Reversible, DataInv, TypeOK, NoOrphans, Sound
  <2> QED BY <1>2, <1>4, <1>6, <2>2, <2>3, <2>4 DEF Anchored
<1> QED BY <1>5, <1>6

LEMMA NoteTurns ==
  ASSUME DataInv, Reversible, NEW r \in Requests, Handle(r)
  PROVE  NoteTurn(r)
<1> USE DEF NoteTurn, Goto, Looked, Checked
<1>1. pc \in [Requests -> Labels]
  BY DEF DataInv, TypeOK
<1>2. CASE AuditStep(r)
  <2>1. pc[r] \in AuditLabels
    BY <1>2 DEF AuditStep, AudLock, AudBegin, AudRead, AudInsert, AudCommit, AudRollback,
                AuditLabels, HoldsMu, AudTxnLabels
  <2>2. call[r].ok \in Statuses /\ call[r].fail \in Statuses
    BY <2>1 DEF DataInv, TypeOK, Calls
  <2>3. CASE AudInsert(r)
    BY <1>1, <2>3 DEF AudInsert, InsertRow
  <2> QED BY <1>1, <1>2, <2>2, <2>3
      DEF AuditStep, AudLock, AudBegin, AudRead, AudCommit, AudRollback, Leave, Statuses
<1>3. CASE Session(r)
  BY <1>1, <1>3
  DEF Session, SessionBegin, SessionSelect, SessionReject, SessionTouch, SessionCommit,
      SessionCatch, ExecBegin, ExecCommit, ExecRollback, CatchRollback, Statement, Look, Route
<1>4. CASE Check(r)
  <2>1. CASE Find(r)
    <3>1. pc'[r] \in {"access", "404"} /\ pc[r] = "find"
      BY <1>1, <2>1 DEF Find, Look
    <3> QED BY <2>1, <3>1, FindNotes
  <2>2. CASE Access(r)
    <3>1. /\ pc[r] = "access" /\ ent' = ent /\ live' = live
          /\ \/ pc' = [pc EXCEPT ![r] = "403"]
             \/ /\ MayAct(live, req[r], ent[r])
                /\ \E next \in AfterCheck(req[r]) : pc' = [pc EXCEPT ![r] = next]
      BY <2>2 DEF Access, connVars
    <3>2. \A next \in AfterCheck(req[r]) : next # "access"
      BY DEF AfterCheck, FirstStep
    <3> QED BY <1>1, <3>1, <3>2
  <2>3. CASE EntityExists(r)
    BY <1>1, <2>3 DEF EntityExists, Look
  <2>4. CASE Read(r)
    BY <1>1, <2>4 DEF Read, Look
  <2> QED BY <1>4, <2>1, <2>2, <2>3, <2>4 DEF Check
<1>5. CASE Mutate(r)
  BY <1>1, <1>5
  DEF Mutate, Insert, Update, Set, Delete, Audit, CallAudit, Statement, Success, localVars
<1>6. CASE CreateEntityStep(r)
  BY <1>1, <1>6
  DEF CreateEntityStep, CreateBegin, CreateEntity, CreateMember, CreateUndo, CreateCommit,
      CreateCatch, ExecBegin, ExecCommit, ExecRollback, CatchRollback, Statement
<1> QED BY <1>2, <1>3, <1>4, <1>5, <1>6 DEF Handle

LEMMA StepKeepsAuth ==
  ASSUME DataInv, TransactionsDoNotMix, AuthInv, NEW r \in Requests, Handle(r),
         UNCHANGED worldVars
  PROVE  AuthInv'
<1> SUFFICES ASSUME ~regime.foreign
             PROVE  /\ Reversible'
                    /\ \A q \in Requests :
                         /\ pc'[q] \in Looked => Anchored(q)'
                         /\ pc'[q] \in Checked => Entitled(q)'
  BY DEF AuthInv, worldVars
<1>1. /\ Step(r) /\ Moves(r) /\ Reversible /\ Reversible' /\ NoteTurn(r)
      /\ DataInv'
  BY HandleFrame, StepMoves, StepIsReversible, StepKeepsInv, NoteTurns DEF AuthInv
<1>2. /\ Sound(live) /\ Sound(disk) /\ Sound(live') /\ Sound(disk')
  BY <1>1 DEF DataInv, TypeOK, NoOrphans, Sound
<1>3. /\ req' = req
      /\ \A s \in Requests \ {r} : pc'[s] = pc[s] /\ ent'[s] = ent[s]
      /\ \A s \in Requests : pc'[s] \in Before => pc[s] \in Before
  BY <1>1 DEF Step, Goto, DataInv, TypeOK
<1>4. \A q \in Requests : ent'[q] = ent[q] /\ Anchored(q) => Anchored(q)'
  BY <1>1, <1>2, <1>3, AnchoredStays
<1>5. \A q \in Requests : ent'[q] = ent[q] /\ Entitled(q) => Entitled(q)'
  BY <1>1, <1>3, EntitledStays
<1>6. \A q \in Requests : /\ pc[q] \in Looked => Anchored(q)
                          /\ pc[q] \in Checked => Entitled(q)
  BY DEF AuthInv
<1>7. ASSUME NEW q \in Requests \ {r}
      PROVE  /\ pc'[q] \in Looked => Anchored(q)'
             /\ pc'[q] \in Checked => Entitled(q)'
  BY <1>3, <1>4, <1>5, <1>6
<1>8. /\ pc'[r] \in Looked => Anchored(r)'
      /\ pc'[r] \in Checked => Entitled(r)'
  <2>1. CASE pc'[r] \notin Looked
    BY <2>1 DEF Looked
  <2>2. CASE pc'[r] = "access" /\ Anchored(r)'
    BY <2>2 DEF Checked
  <2>3. CASE /\ pc[r] = "access" /\ pc'[r] \in Checked /\ ent'[r] = ent[r] /\ live' = live
             /\ MayAct(live, req[r], ent[r])
    <3>1. Entitled(r)'
      BY <1>3, <2>3 DEF Entitled
    <3> QED BY <1>4, <1>6, <2>3, <3>1 DEF Looked
  <2>4. CASE pc[r] \in Checked /\ pc'[r] \in Checked /\ ent'[r] = ent[r]
    BY <1>4, <1>5, <1>6, <2>4 DEF Looked
  <2> QED BY <1>1, <2>1, <2>2, <2>3, <2>4 DEF NoteTurn
<1> QED BY <1>1, <1>7, <1>8

LEMMA NextKeepsAuth ==
  DataInv /\ TransactionsDoNotMix /\ AuthInv /\ [Next]_vars => AuthInv'
<1> SUFFICES ASSUME DataInv, TransactionsDoNotMix, AuthInv, [Next]_vars PROVE AuthInv'
  OBVIOUS
<1>1. CASE UNCHANGED vars
  BY <1>1 DEF vars, connVars, auditVars, localVars, AuthInv, Reversible, Anchored, Entitled, Gone
<1>2. ASSUME NEW r \in Requests, Arrive(r), UNCHANGED worldVars PROVE AuthInv'
  <2>1. /\ pc[r] = "new" /\ pc' = [pc EXCEPT ![r] = "s_begin"]
        /\ UNCHANGED <<live, disk, ent, regime>>
        /\ \A s \in Requests \ {r} : req'[s] = req[s]
    BY <1>2 DEF Arrive, Goto, connVars, worldVars, DataInv, TypeOK
  <2>2. pc'[r] = "s_begin" /\ \A s \in Requests \ {r} : pc'[s] = pc[s]
    BY <2>1 DEF DataInv, TypeOK
  <2>3. \A s \in Requests : pc'[s] \in Before <=> pc[s] \in Before
    BY <2>1, <2>2 DEF Before
  <2>4. \A s \in Requests : pc'[s] = "c_member" => pc[s] = "c_member"
    BY <2>2
  <2>5. \A q \in Requests : pc'[q] \in Looked => q # r
    BY <2>2 DEF Looked, Checked
  <2>6. ASSUME NEW q \in Requests \ {r}
        PROVE  (Anchored(q) => Anchored(q)') /\ (Entitled(q) => Entitled(q)')
    BY <2>1, <2>3 DEF Anchored, Entitled, Gone
  <2>7. Reversible => Reversible'
    BY <2>1, <2>4 DEF Reversible
  <2> QED BY <2>1, <2>2, <2>5, <2>6, <2>7 DEF AuthInv, Looked
<1>3. ASSUME NEW r \in Requests, Handle(r), UNCHANGED worldVars PROVE AuthInv'
  BY <1>3, StepKeepsAuth
<1>4. CASE ForeignTxn
  BY <1>4 DEF ForeignTxn, AuthInv
<1>5. CASE CliLocks
  BY <1>5 DEF CliLocks, connVars, auditVars, localVars, AuthInv, Reversible, Anchored, Entitled,
              Gone
<1>6. CASE Crash
  <2>1. live' = disk /\ disk' = disk
    BY <1>6 DEF Crash, ConnCrash
  <2>2. \A s \in Requests : pc'[s] \in Answered \union {"new"}
    BY <1>6 DEF Crash, InFlight, Answered
  <2>3. \A s \in Requests : pc'[s] \notin Looked /\ pc'[s] # "c_member"
    BY <2>2 DEF Answered, Statuses, Looked, Checked
  <2>4. Reversible'
    BY <2>1, <2>3 DEF Reversible, SamePlaces
  <2> QED BY <2>3, <2>4 DEF AuthInv, Looked
<1> QED BY <1>1, <1>2, <1>3, <1>4, <1>5, <1>6 DEF Next, Idle

\* A sound table has no membership but of an entity that it has.
LEMMA AuthIsEnough == DataInv /\ AuthInv => OnlyMembersWrite
<1> SUFFICES ASSUME DataInv, AuthInv, ~regime.foreign, NEW r \in Requests, pc[r] \in Checked
             PROVE  StillAuthorised(r)
  BY DEF OnlyMembersWrite
<1>1. Anchored(r) /\ Entitled(r)
  BY DEF AuthInv, Looked
<1>2. ent[r] \in DOMAIN live.rows => MayAct(live, req[r], ent[r])
  BY <1>1 DEF Entitled, Gone
<1>3. ent[r] \in DOMAIN live.rows => live.rows[ent[r]].kind = "entity"
  BY <1>2 DEF MayAct, DataInv, NoOrphans, TreeIsWhole
<1>4. PathId(req[r]) \in DOMAIN live.rows => EntityOf(live, PathId(req[r])) = ent[r]
  BY <1>1, <1>3 DEF Anchored, EntityOf
<1> QED BY <1>2, <1>4 DEF StillAuthorised

\* THREAT_MODEL.md, elevation of privilege: a data route writes only for a member
\* (an owner, to delete an entity) of the entity its row still hangs on, though the
\* membership was checked some calls before and requests, ROLLBACKs and crashes
\* come between; for any number of requests, users and rows.
THEOREM MembersOnlyWrite == Spec => []OnlyMembersWrite
<1>1. Init => AuthInv
  BY DEF Init, ConnInit, AuthInv, Reversible, SamePlaces, Looked, Checked
<1> QED BY <1>1, NextKeepsAuth, AuthIsEnough, InvHolds, TransactionsStayApart, PTL DEF Spec

-----------------------------------------------------------------------------
(* What a step of a request makes of the tables, call by call               *)

Commits == {"s_commit", "c_commit", "aud_commit"}
Rollbacks == {"s_reject", "s_catch", "c_undo", "c_catch", "aud_rollback"}

\* Where a call that is refused leads.
Refusals ==
  {<<"s_commit", "s_catch">>, <<"insert", "500">>, <<"c_entity", "c_undo">>,
   <<"c_member", "c_undo">>, <<"c_undo", "c_catch">>, <<"c_commit", "c_catch">>,
   <<"aud_insert", "aud_rollback">>, <<"aud_commit", "aud_rollback">>}

Quiet(r) ==
  /\ live' = live /\ disk' = disk
  /\ \A refusal \in Refusals : pc[r] = refusal[1] => pc'[r] = refusal[2]
  /\ pc[r] \notin {"c_catch", "aud_rollback"}
  /\ pc[r] = "update" => ~WriteOK
  /\ pc[r] = "delete" => ~WriteOK \/ Referenced(live, req[r].id)

Becomes(rows, members, audit) ==
  live'.rows = rows /\ live'.members = members /\ live'.audit = audit

\* The columns cols of the row id now hold r, and nothing else has changed.
Sets(r, id, cols) ==
  /\ live'.members = live.members /\ live'.audit = live.audit
  /\ DOMAIN live'.rows = DOMAIN live.rows
  /\ \A x \in DOMAIN live.rows :
       /\ live'.rows[x].kind = live.rows[x].kind
       /\ \A c \in Columns :
            live'.rows[x].val[c] = IF x = id /\ c \in cols THEN r ELSE live.rows[x].val[c]

\* The columns that one UPDATE of r sets.
Setting(r) == IF req[r].kind = "entity" THEN todo[r] ELSE {FirstColumn(todo[r])}

\* A write that SQLite takes, by the statement that makes it.
Change(r) ==
  \/ pc[r] = "s_touch" /\ pc'[r] = "s_commit" /\ live' = live
  \/ /\ <<pc[r], pc'[r]>> \in {<<"insert", "audit">>, <<"c_entity", "c_member">>}
     /\ Becomes(AddTo(live.rows, r, NewRow(r)), live.members, live.audit)
  \/ /\ pc[r] = "c_member" /\ pc'[r] = "c_commit"
     /\ r \in DOMAIN live.rows
     /\ Becomes(live.rows,
                live.members \union {[user |-> req[r].user, entity |-> r, role |-> "owner"]},
                live.audit)
  \/ pc[r] = "update" /\ Sets(r, req[r].id, Setting(r))
  \/ /\ pc[r] = "delete" /\ pc'[r] = "audit"
     /\ req[r].id \in DOMAIN live.rows => ~Referenced(live, req[r].id)
     /\ Becomes(RowsWithout(live, req[r].id), live.members, live.audit)
  \/ /\ pc[r] = "aud_insert" /\ pc'[r] = "aud_commit"
     /\ \E seq, prev : /\ seq \notin DOMAIN live.audit
                       /\ Becomes(live.rows, live.members,
                                  AddRow(live.audit, seq, Row(seq, call[r].evt, prev)))

\* What becomes of todo: set by Access, worked off by Update.
TodoTurn(r) ==
  /\ \A s \in Requests \ {r} : todo'[s] = todo[s]
  /\ pc[r] \notin {"access", "update"} => todo'[r] = todo[r]
  /\ pc[r] = "access" /\ req[r].op = "update" => todo'[r] = req[r].cols
  /\ pc[r] = "update" =>
       /\ todo'[r] = todo[r] \ Setting(r)
       /\ pc'[r] = IF todo'[r] = {} THEN "audit" ELSE "update"

Effect(r) ==
  /\ TodoTurn(r)
  /\ \/ Quiet(r)
     \/ CommitOK /\ pc[r] \in Commits /\ live' = live /\ disk' = live
     \/ pc[r] \in Rollbacks /\ live' = disk /\ disk' = disk
     \/ WriteOK /\ Change(r) /\ disk' = IF inTxn THEN disk ELSE live'

\* What UPDATE makes of a row.
LEMMA SetColumnsSets ==
  ASSUME ImageType(live), NEW r, NEW id, NEW cols, live' = SetColumns(live, id, cols, r)
  PROVE  Sets(r, id, cols)
<1>1. /\ DOMAIN live = {"rows", "members", "audit"}
      /\ live.rows \in [DOMAIN live.rows -> RowType]
  BY DEF ImageType
<1>2. CASE id \notin DOMAIN live.rows
  BY <1>2 DEF SetColumns, Sets
<1>3. CASE id \in DOMAIN live.rows
  <2> DEFINE val == [c \in Columns |-> IF c \in cols THEN r ELSE live.rows[id].val[c]]
             row == [live.rows[id] EXCEPT !.val = val]
             rows == [live.rows EXCEPT ![id] = row]
  <2>1. live' = [live EXCEPT !.rows = rows]
    BY <1>1, <1>3 DEF SetColumns
  <2>2. DOMAIN rows = DOMAIN live.rows /\ rows[id] = row
        /\ \A x \in DOMAIN live.rows \ {id} : rows[x] = live.rows[x]
    BY <1>3
  <2>3. row.val = val /\ row.kind = live.rows[id].kind
    BY <1>1, <1>3 DEF RowType
  <2>4. /\ live'.rows = rows /\ live'.members = live.members /\ live'.audit = live.audit
    <3> HIDE DEF rows
    <3> QED BY <1>1, <2>1
  <2> HIDE DEF rows, row
  <2>5. \A x \in DOMAIN live.rows :
          /\ rows[x].kind = live.rows[x].kind
          /\ \A c \in Columns :
               rows[x].val[c] = IF x = id /\ c \in cols THEN r ELSE live.rows[x].val[c]
    BY <2>2, <2>3
  <2> QED BY <2>2, <2>4, <2>5 DEF Sets
<1> QED BY <1>2, <1>3

LEMMA SessionEffect ==
  ASSUME DataInv, NEW r \in Requests, Session(r)
  PROVE  Effect(r)
<1> USE DEF Effect, TodoTurn, Quiet, Refusals, Change, Commits, Rollbacks, Goto, localVars, connVars
<1>1. pc \in [Requests -> Labels] /\ inTxn \in BOOLEAN
  BY DEF DataInv, TypeOK
<1>2. CASE SessionBegin(r)
  BY <1>1, <1>2 DEF SessionBegin, ExecBegin, Begin
<1>3. CASE SessionSelect(r)
  BY <1>1, <1>3 DEF SessionSelect, Look
<1>4. CASE SessionReject(r)
  BY <1>1, <1>4 DEF SessionReject, ExecRollback, Rollback
<1>5. CASE SessionTouch(r)
  BY <1>1, <1>5 DEF SessionTouch, Statement, Write, WriteFails
<1>6. CASE SessionCommit(r)
  BY <1>1, <1>6 DEF SessionCommit, ExecCommit, Commit
<1>7. CASE SessionCatch(r)
  BY <1>1, <1>7 DEF SessionCatch, CatchRollback, Rollback
<1> QED BY <1>2, <1>3, <1>4, <1>5, <1>6, <1>7 DEF Session

LEMMA CheckEffect ==
  ASSUME DataInv, NEW r \in Requests, Check(r)
  PROVE  Effect(r)
<1> USE DEF Effect, TodoTurn, Quiet, Refusals, Goto, localVars, connVars, Look
<1>1. /\ pc \in [Requests -> Labels] /\ DOMAIN todo = Requests
  BY DEF DataInv, TypeOK
<1>2. CASE Find(r)
  BY <1>1, <1>2 DEF Find
<1>3. CASE Access(r)
  BY <1>1, <1>3 DEF Access
<1>4. CASE EntityExists(r)
  BY <1>1, <1>4 DEF EntityExists
<1>5. CASE Read(r)
  BY <1>1, <1>5 DEF Read
<1> QED BY <1>2, <1>3, <1>4, <1>5 DEF Check

LEMMA MutateEffect ==
  ASSUME DataInv, NEW r \in Requests, Mutate(r)
  PROVE  Effect(r)
<1> USE DEF Effect, TodoTurn, Goto
<1>1. /\ pc \in [Requests -> Labels] /\ DOMAIN todo = Requests
      /\ ImageType(live) /\ DOMAIN live = {"rows", "members", "audit"}
  BY DEF DataInv, TypeOK, ImageType
<1>2. CASE Insert(r)
  <2> DEFINE rows == AddTo(live.rows, r, NewRow(r))
  <2>1. /\ pc[r] = "insert" /\ todo' = todo
        /\ \/ /\ WriteOK /\ Write([live EXCEPT !.rows = rows], 1)
              /\ pc' = [pc EXCEPT ![r] = "audit"]
           \/ WriteFails /\ pc' = [pc EXCEPT ![r] = "500"]
    BY <1>2 DEF Insert, Statement, localVars
  <2> HIDE DEF rows
  <2>2. Quiet(r) \/ (WriteOK /\ Write([live EXCEPT !.rows = rows], 1) /\ pc'[r] = "audit")
    BY <1>1, <2>1 DEF WriteFails, Quiet, Refusals
  <2> QED BY <1>1, <2>1, <2>2 DEF Write, Change, Becomes, rows
<1>3. CASE Update(r)
  <2> DEFINE image == SetColumns(live, req[r].id, Setting(r), r)
             rows == Cardinality({req[r].id} \intersect DOMAIN live.rows)
             on == IF todo[r] \ Setting(r) = {} THEN "audit" ELSE "update"
  <2>1. /\ pc[r] = "update" /\ todo' = [todo EXCEPT ![r] = todo[r] \ Setting(r)]
        /\ pc' = [pc EXCEPT ![r] = on]
        /\ (WriteOK /\ Write(image, rows)) \/ (~WriteOK /\ WriteFails)
    BY <1>3 DEF Update, Set, Statement, Setting
  <2> HIDE DEF image, rows
  <2>2. todo'[r] = todo[r] \ Setting(r) /\ pc'[r] = on
    BY <1>1, <2>1
  <2>3. \/ WriteOK /\ live' = image /\ disk' = IF inTxn THEN disk ELSE live'
        \/ ~WriteOK /\ live' = live /\ disk' = disk
    BY <2>1 DEF Write, WriteFails
  <2>4. live' = image => Sets(r, req[r].id, Setting(r))
    BY <1>1, SetColumnsSets DEF image
  <2> HIDE DEF Sets, Setting
  <2> QED BY <1>1, <2>1, <2>2, <2>3, <2>4 DEF Quiet, Refusals, Change
<1>4. CASE Delete(r)
  <2> DEFINE hit == {req[r].id} \intersect DOMAIN live.rows
             rows == RowsWithout(live, req[r].id)
             legal == hit = {} \/ ~Referenced(live, req[r].id)
  <2>1. /\ pc[r] = "delete" /\ todo' = todo
        /\ pc' = [pc EXCEPT ![r] = "audit"]
        /\ \/ WriteOK /\ legal /\ Write([live EXCEPT !.rows = rows], Cardinality(hit))
           \/ ~(WriteOK /\ legal) /\ WriteFails
    BY <1>4 DEF Delete, Statement, localVars
  <2>2. /\ legal => (req[r].id \in DOMAIN live.rows => ~Referenced(live, req[r].id))
        /\ ~legal => Referenced(live, req[r].id)
    OBVIOUS
  <2> HIDE DEF rows, hit, legal
  <2>3. \/ /\ WriteOK /\ legal /\ live' = [live EXCEPT !.rows = rows]
           /\ disk' = IF inTxn THEN disk ELSE live'
        \/ ~(WriteOK /\ legal) /\ live' = live /\ disk' = disk
    BY <2>1 DEF Write, WriteFails
  <2>4. live' = [live EXCEPT !.rows = rows] => Becomes(rows, live.members, live.audit)
    BY <1>1 DEF Becomes
  <2> HIDE DEF Becomes
  <2> QED BY <1>1, <2>1, <2>2, <2>3, <2>4 DEF Quiet, Refusals, Change, rows
<1>5. CASE Audit(r)
  BY <1>1, <1>5 DEF Audit, CallAudit, Quiet, Refusals, connVars, localVars
<1> QED BY <1>2, <1>3, <1>4, <1>5 DEF Mutate

LEMMA CreateEffect ==
  ASSUME DataInv, NEW r \in Requests, CreateEntityStep(r)
  PROVE  Effect(r)
<1> USE DEF Effect, TodoTurn, Goto, localVars, connVars
<1>1. /\ pc \in [Requests -> Labels] /\ inTxn \in BOOLEAN
      /\ DOMAIN live = {"rows", "members", "audit"}
  BY DEF DataInv, TypeOK, ImageType
<1>2. CASE CreateBegin(r)
  BY <1>1, <1>2 DEF CreateBegin, ExecBegin, Begin, Quiet, Refusals
<1>3. CASE CreateEntity(r)
  <2> DEFINE rows == AddTo(live.rows, r, NewRow(r))
  <2>1. /\ pc[r] = "c_entity" /\ todo' = todo
        /\ \/ /\ WriteOK /\ Write([live EXCEPT !.rows = rows], 1)
              /\ pc' = [pc EXCEPT ![r] = "c_member"]
           \/ WriteFails /\ pc' = [pc EXCEPT ![r] = "c_undo"]
    BY <1>3 DEF CreateEntity, Statement
  <2> HIDE DEF rows
  <2>2. Quiet(r) \/ (WriteOK /\ Write([live EXCEPT !.rows = rows], 1) /\ pc'[r] = "c_member")
    BY <1>1, <2>1 DEF WriteFails, Quiet, Refusals
  <2> QED BY <1>1, <2>1, <2>2 DEF Write, Change, Becomes, rows
<1>4. CASE CreateMember(r)
  <2> DEFINE members ==
        live.members \union {[user |-> req[r].user, entity |-> r, role |-> "owner"]}
  <2>1. /\ pc[r] = "c_member" /\ todo' = todo
        /\ \/ /\ WriteOK /\ Exists(live, r, "entity")
              /\ Write([live EXCEPT !.members = members], 1)
              /\ pc' = [pc EXCEPT ![r] = "c_commit"]
           \/ WriteFails /\ pc' = [pc EXCEPT ![r] = "c_undo"]
    BY <1>4 DEF CreateMember, Statement
  <2> HIDE DEF members
  <2>2. \/ Quiet(r)
        \/ /\ WriteOK /\ r \in DOMAIN live.rows
           /\ Write([live EXCEPT !.members = members], 1) /\ pc'[r] = "c_commit"
    BY <1>1, <2>1 DEF WriteFails, Quiet, Refusals, Exists
  <2> QED BY <1>1, <2>1, <2>2 DEF Write, Change, Becomes, members
<1>5. CASE CreateUndo(r)
  BY <1>1, <1>5 DEF CreateUndo, ExecRollback, Rollback, Rollbacks, Quiet, Refusals
<1>6. CASE CreateCommit(r)
  BY <1>1, <1>6 DEF CreateCommit, ExecCommit, Commit, Commits, Quiet, Refusals
<1>7. CASE CreateCatch(r)
  BY <1>1, <1>7 DEF CreateCatch, CatchRollback, Rollback, Rollbacks
<1> QED BY <1>2, <1>3, <1>4, <1>5, <1>6, <1>7 DEF CreateEntityStep

LEMMA AuditEffect ==
  ASSUME DataInv, NEW r \in Requests, AuditStep(r), UNCHANGED localVars
  PROVE  Effect(r)
<1> USE DEF Effect, TodoTurn, Goto, localVars, connVars, Leave
<1>1. /\ pc \in [Requests -> Labels] /\ inTxn \in BOOLEAN
      /\ DOMAIN live = {"rows", "members", "audit"}
  BY DEF DataInv, TypeOK, ImageType
<1>2. CASE AudLock(r)
  BY <1>1, <1>2 DEF AudLock, Quiet, Refusals
<1>3. CASE AudBegin(r)
  BY <1>1, <1>3 DEF AudBegin, Begin, Quiet, Refusals
<1>4. CASE AudRead(r)
  BY <1>1, <1>4 DEF AudRead, Quiet, Refusals
<1>5. CASE AudInsert(r)
  <2> DEFINE seq == head[r].seq + 1
             audit == AddRow(live.audit, seq, Row(seq, call[r].evt, head[r].hash))
  <2>1. /\ pc[r] = "aud_insert"
        /\ \/ /\ WriteOK /\ seq \notin DOMAIN live.audit
              /\ Write([live EXCEPT !.audit = audit], 1)
              /\ pc' = [pc EXCEPT ![r] = "aud_commit"]
           \/ WriteFails /\ pc' = [pc EXCEPT ![r] = "aud_rollback"]
    BY <1>5 DEF AudInsert, InsertRow
  <2> HIDE DEF audit, seq
  <2>2. \/ Quiet(r)
        \/ /\ WriteOK /\ seq \notin DOMAIN live.audit
           /\ Write([live EXCEPT !.audit = audit], 1) /\ pc'[r] = "aud_commit"
    BY <1>1, <2>1 DEF WriteFails, Quiet, Refusals
  <2>3. live' = [live EXCEPT !.audit = audit] => Becomes(live.rows, live.members, audit)
    BY <1>1 DEF Becomes
  <2> HIDE DEF Becomes
  <2> QED BY <1>1, <2>1, <2>2, <2>3 DEF Write, Change, audit
<1>6. CASE AudCommit(r)
  BY <1>1, <1>6 DEF AudCommit, Commit, Commits, Quiet, Refusals
<1>7. CASE AudRollback(r)
  BY <1>1, <1>7 DEF AudRollback, Rollback, Rollbacks
<1> QED BY <1>2, <1>3, <1>4, <1>5, <1>6, <1>7 DEF AuditStep

LEMMA HandleEffect ==
  ASSUME DataInv, NEW r \in Requests, Handle(r)
  PROVE  Effect(r)
BY AuditEffect, SessionEffect, CheckEffect, MutateEffect, CreateEffect DEF Handle

-----------------------------------------------------------------------------
(* An entity has its owner                                                  *)

\* The steps of a request whose entity has no owner yet, or is being taken back.
Orphaning == {"c_member", "c_undo", "c_catch"}

HasOwner(image, id) == \E m \in image.members : m.entity = id /\ m.role = "owner"

OwnersCome ==
  ~regime.foreign =>
    /\ Owned(disk)
    /\ \A id \in DOMAIN live.rows :
         live.rows[id].kind = "entity"
           => HasOwner(live, id) \/ (id \in Requests /\ pc[id] \in Orphaning)

\* Who is inside a transaction, when only data routes use the connection.
LEMMA TxnFacts ==
  ASSUME TransactionsDoNotMix, ~regime.foreign, NEW r \in Requests
  PROVE  /\ pc[r] \in TxnLabels => inTxn
         /\ pc[r] \in TxnLabels => \A q \in Requests : pc[q] \in TxnLabels => q = r
         /\ ~inTxn => \A q \in Requests : pc[q] \notin TxnLabels
BY DEF TransactionsDoNotMix

\* Only the step of r changes what r is at and what it has noted.
LEMMA StepIsOfOne ==
  ASSUME DataInv, NEW r \in Requests, Step(r)
  PROVE  /\ \A s \in Requests \ {r} : pc'[s] = pc[s] /\ call'[s] = call[s]
         /\ req' = req /\ pc'[r] # "new"
BY DEF Step, Goto, DataInv, TypeOK

LEMMA OwnersStay ==
  ASSUME DataInv, TransactionsDoNotMix, ~regime.foreign, OwnersCome,
         NEW r \in Requests, Step(r), Effect(r), UNCHANGED worldVars
  PROVE  OwnersCome'
<1> DEFINE Fine(image, labels) ==
      \A id \in DOMAIN image.rows :
        image.rows[id].kind = "entity"
          => HasOwner(image, id) \/ (id \in Requests /\ labels[id] \in Orphaning)
<1>1. /\ \A s \in Requests \ {r} : pc'[s] = pc[s]
      /\ ~regime'.foreign
  BY StepIsOfOne DEF worldVars
<1>2. Owned(disk) /\ Fine(live, pc)
  BY DEF OwnersCome
<1>3. /\ pc[r] \in TxnLabels => inTxn
      /\ pc[r] \in TxnLabels => \A q \in Requests : pc[q] \in TxnLabels => q = r
      /\ ~inTxn => \A q \in Requests : pc[q] \notin TxnLabels
  BY TxnFacts
<1>4. Orphaning \subseteq TxnLabels /\ Commits \subseteq TxnLabels \ Orphaning
  BY DEF Orphaning, Commits, TxnLabels, SessionTxn, CreateTxn, AudTxnLabels
<1>5. \A image : Owned(image) => \A labels : Fine(image, labels)
  BY DEF Owned, HasOwner
<1>6. SUFFICES Owned(disk') /\ Fine(live', pc')
  BY DEF OwnersCome
<1>7. CASE Quiet(r)
  <2>1. pc[r] \in Orphaning => pc'[r] \in Orphaning
    BY <1>7 DEF Quiet, Refusals, Orphaning
  <2> QED BY <1>1, <1>2, <1>7, <2>1 DEF Quiet
<1>8. CASE CommitOK /\ pc[r] \in Commits /\ live' = live /\ disk' = live
  <2>1. \A q \in Requests : pc[q] \notin Orphaning
    BY <1>3, <1>4, <1>8
  <2>2. Owned(live)
    BY <1>2, <2>1 DEF Owned, HasOwner
  <2> QED BY <1>5, <1>8, <2>2
<1>9. CASE live' = disk /\ disk' = disk
  BY <1>2, <1>5, <1>9
<1>10. CASE WriteOK /\ Change(r) /\ disk' = IF inTxn THEN disk ELSE live'
  <2>1. Fine(live', pc')
    <3>1. CASE live' = live /\ pc[r] = "s_touch"
      BY <1>1, <1>2, <3>1 DEF Orphaning
    <3>2. CASE /\ <<pc[r], pc'[r]>> \in {<<"insert", "audit">>, <<"c_entity", "c_member">>}
               /\ Becomes(AddTo(live.rows, r, NewRow(r)), live.members, live.audit)
      <4>1. pc[r] \notin Orphaning
        BY <3>2 DEF Orphaning
      <4>2. pc'[r] \in Orphaning \/ req[r].kind # "entity"
        BY <3>2 DEF Orphaning, DataInv, TypeOK, OnItsRoute
      <4> QED BY <1>1, <1>2, <3>2, <4>1, <4>2 DEF Becomes, AddTo, NewRow, HasOwner
    <3>3. CASE /\ pc[r] = "c_member"
               /\ \E m : /\ m.entity = r /\ m.role = "owner"
                        /\ Becomes(live.rows, live.members \union {m}, live.audit)
      <4>1. HasOwner(live', r)
        BY <3>3 DEF Becomes, HasOwner
      <4>2. live'.rows = live.rows /\ live.members \subseteq live'.members
        BY <3>3 DEF Becomes
      <4> QED BY <1>1, <1>2, <4>1, <4>2 DEF HasOwner
    <3>4. CASE pc[r] = "update" /\ Sets(r, req[r].id, Setting(r))
      BY <1>1, <1>2, <3>4 DEF Sets, HasOwner, Orphaning
    <3>5. CASE /\ pc[r] = "delete"
               /\ Becomes(RowsWithout(live, req[r].id), live.members, live.audit)
      BY <1>1, <1>2, <3>5 DEF Becomes, RowsWithout, HasOwner, Orphaning
    <3>6. CASE pc[r] = "aud_insert" /\ live'.rows = live.rows /\ live'.members = live.members
      BY <1>1, <1>2, <3>6 DEF HasOwner, Orphaning
    <3>7. CASE /\ pc[r] = "c_member"
               /\ Becomes(live.rows,
                          live.members
                            \union {[user |-> req[r].user, entity |-> r, role |-> "owner"]},
                          live.audit)
      <4> DEFINE own == [user |-> req[r].user, entity |-> r, role |-> "owner"]
      <4>1. own.entity = r /\ own.role = "owner"
        OBVIOUS
      <4> HIDE DEF own
      <4>2. Becomes(live.rows, live.members \union {own}, live.audit)
        BY <3>7 DEF own
      <4> QED BY <3>3, <3>7, <4>1, <4>2
    <3>8. pc[r] = "aud_insert" /\ (\E audit : Becomes(live.rows, live.members, audit))
            => live'.rows = live.rows /\ live'.members = live.members
      BY DEF Becomes
    <3> HIDE DEF Fine
    <3> QED BY <1>10, <3>1, <3>2, <3>4, <3>5, <3>6, <3>7, <3>8 DEF Change
  <2>2. CASE inTxn
    BY <1>2, <1>10, <2>1, <2>2
  <2>3. CASE ~inTxn
    <3>1. \A q \in Requests : pc[q] \notin Orphaning
      BY <1>3, <1>4, <2>3
    <3>2. pc'[r] \notin Orphaning
      <4>1. pc[r] \notin {"c_entity", "c_member"}
        BY <1>3, <2>3 DEF TxnLabels, CreateTxn
      <4>2. pc[r] = "update" => pc'[r] \in {"audit", "update"}
        BY DEF Effect, TodoTurn
      <4> QED BY <1>10, <4>1, <4>2 DEF Change, Orphaning
    <3>3. \A q \in Requests : pc'[q] \notin Orphaning
      BY <1>1, <3>1, <3>2
    <3>4. Owned(live')
      BY <2>1, <3>3 DEF Owned, HasOwner
    <3> QED BY <1>10, <2>1, <2>3, <3>4
  <2> QED BY <2>2, <2>3
<1> QED BY <1>7, <1>8, <1>9, <1>10 DEF Effect

\* After a crash every request is answered, lost or still to come.
LEMMA CrashLoses ==
  ASSUME Crash
  PROVE  \A q \in Requests :
           \/ pc'[q] = "lost" /\ q \in InFlight
           \/ pc'[q] = pc[q] /\ pc[q] \in Answered \union {"new"}
<1>1. pc' = [q \in Requests |-> IF q \in InFlight THEN "lost" ELSE pc[q]]
  BY DEF Crash
<1> QED BY <1>1 DEF InFlight

LEMMA NextKeepsOwners ==
  DataInv /\ TransactionsDoNotMix /\ OwnersCome /\ [Next]_vars => OwnersCome'
<1> SUFFICES ASSUME DataInv, TransactionsDoNotMix, OwnersCome, [Next]_vars,
                    ~regime.foreign
             PROVE  OwnersCome'
  BY DEF OwnersCome, Next, worldVars, ForeignTxn, CliLocks, Crash, Idle, vars
<1>1. CASE UNCHANGED vars
  BY <1>1 DEF vars, connVars, auditVars, OwnersCome, Owned, HasOwner
<1>2. ASSUME NEW r \in Requests, Arrive(r), UNCHANGED worldVars PROVE OwnersCome'
  <2>1. \A q \in Requests : pc'[q] \in Orphaning <=> pc[q] \in Orphaning
    BY <1>2 DEF Arrive, Goto, DataInv, TypeOK, Orphaning
  <2> QED BY <1>2, <2>1 DEF Arrive, connVars, worldVars, OwnersCome, Owned, HasOwner
<1>3. ASSUME NEW r \in Requests, Handle(r), UNCHANGED worldVars PROVE OwnersCome'
  BY <1>3, HandleFrame, HandleEffect, OwnersStay
<1>4. CASE ForeignTxn
  BY <1>4 DEF ForeignTxn
<1>5. CASE CliLocks
  BY <1>5 DEF CliLocks, connVars, auditVars, OwnersCome, Owned, HasOwner
<1>6. CASE Crash
  BY <1>6 DEF Crash, ConnCrash, OwnersCome, Owned, HasOwner
<1> QED BY <1>1, <1>2, <1>3, <1>4, <1>5, <1>6 DEF Next, Idle

-----------------------------------------------------------------------------
(* A success has its event                                                  *)

Writes(i) == i.op \in {"create", "update", "delete"}

Succeeded == {"200", "201"}

\* What Audit has told record(): the event, and where to go on.
Told(r) ==
  /\ Writes(req[r])
  /\ call[r].evt = Event(req[r], r) /\ call[r].ok = Success(req[r])
  /\ call[r].fail \in {"500", Success(req[r])}
  /\ Accepted(Details(req[r])) => call[r].fail = "500"

OnDisk(evt) == \E s \in DOMAIN disk.audit : disk.audit[s].evt = evt
OnConn(evt) == \E s \in DOMAIN live.audit : live.audit[s].evt = evt

RecordsCome ==
  ~regime.foreign =>
    /\ \A s \in DOMAIN disk.audit :
         s \in DOMAIN live.audit /\ live.audit[s].evt = disk.audit[s].evt
    /\ \A r \in Requests :
         /\ pc[r] \in AuditLabels => Told(r)
         /\ pc[r] = "read" => ~Writes(req[r])
         /\ pc[r] = "201" => req[r].op = "create"
         /\ pc[r] = "aud_commit" => OnConn(call[r].evt)
         /\ pc[r] \in Succeeded /\ Writes(req[r]) /\ Speakable(req[r])
              => OnDisk(Event(req[r], r)) /\ Accepted(Details(req[r]))

\* An event of a data route that the log can say is one the sanitizer takes.
LEMMA SpeakableIsAccepted ==
  ASSUME NEW i \in Inputs, Writes(i), Speakable(i)
  PROVE  Accepted(Details(i))
<1>1. ASSUME NEW key, NEW value, ValueAllowed(value), value.kind \in {"string", "integer"}
      PROVE  LeafAllowed(Field(key, value))
  <2> DEFINE step == [name |-> key, has |-> {}]
             field == Field(key, value)
  <2>1. field.path = <<step>> /\ field.value = value
    BY DEF Field
  <2>2. DepthOf(field) = 0
    BY <1>1, <2>1 DEF DepthOf, Containers
  <2>3. \A k \in DOMAIN field.path : field.path[k] = step
    BY <2>1
  <2>4. KeyAllowed(step)
    BY DEF KeyAllowed
  <2> HIDE DEF field, step
  <2>5. LeafAllowed(field)
    BY <1>1, <2>1, <2>2, <2>3, <2>4 DEF LeafAllowed, MAX_DEPTH
  <2> QED BY <2>5 DEF field
<1>2. LeafAllowed(Amount)
  <2> DEFINE value == [kind |-> "integer"]
  <2>1. ValueAllowed(value) /\ value.kind = "integer"
    BY DEF ValueAllowed, Containers
  <2> QED BY <1>1, <2>1 DEF Amount
<1>3. ASSUME NEW key, NEW text, ~LooksLikeToken(text) PROVE LeafAllowed(Field(key, Text(text)))
  <2>1. Text(text).kind = "string" /\ Text(text).text = text
    BY DEF Text
  <2>2. ValueAllowed(Text(text))
    BY <1>3, <2>1 DEF ValueAllowed
  <2> QED BY <1>1, <2>1, <2>2
<1>4. i.op = "create" => i.kind \in Kinds \ {"tx"}
  BY InputFacts DEF Speakable
<1>5. \A field \in Leaves(i) : LeafAllowed(field)
  <2>1. CASE i.op # "create"
    BY <2>1 DEF Leaves
  <2>2. CASE i.op = "create" /\ i.kind \in Named
    <3>1. Leaves(i) = {Field("name", Text(i.name)), Field("kind", Text(i.label))}
      BY <2>2 DEF Leaves, Named
    <3>2. ~LooksLikeToken(i.name) /\ ~LooksLikeToken(i.label)
      BY <2>2 DEF Speakable
    <3> QED BY <1>3, <3>1, <3>2
  <2>3. CASE i.op = "create" /\ i.kind \notin Named
    <3>1. i.kind = "budget"
      BY <1>4, <2>3 DEF Kinds, Named
    <3>2. Leaves(i) = {Amount}
      BY <2>3, <3>1 DEF Leaves, Named
    <3> QED BY <1>2, <3>2
  <2> QED BY <2>1, <2>2, <2>3
<1>6. Details(i).isObject /\ Details(i).leaves = Leaves(i)
  BY DEF Details
<1>7. Details(i).bytes <= MAX_TOTAL_BYTES
  <2>1. CASE i.op = "create" /\ i.kind \in Named
    <3>1. Details(i).bytes = i.printed
      BY <2>1 DEF Details
    <3> QED BY <2>1, <3>1 DEF Speakable
  <2>2. CASE ~(i.op = "create" /\ i.kind \in Named)
    <3>1. Details(i).bytes = 100
      BY <2>2 DEF Details
    <3> QED BY <3>1 DEF MAX_TOTAL_BYTES
  <2> QED BY <2>1, <2>2
<1> QED BY <1>5, <1>6, <1>7 DEF Accepted

\* How a request comes into a call of record(), to the answer of a success, or to
\* a read.
RecordTurn(r) ==
  /\ pc'[r] \in AuditLabels => Told(r)' \/ (pc[r] \in AuditLabels /\ call'[r] = call[r])
  /\ pc'[r] = "aud_commit" => pc[r] = "aud_insert"
  /\ pc'[r] = "read" => ~Writes(req[r])
  /\ pc'[r] \in Succeeded =>
       \/ pc[r] = "read" /\ pc'[r] = "200"
       \/ pc[r] = "aud_commit" /\ pc'[r] = call[r].ok
       \/ pc[r] \in AuditLabels /\ pc'[r] = call[r].fail

LEMMA RecordTurns ==
  ASSUME DataInv, NEW r \in Requests, Handle(r)
  PROVE  RecordTurn(r)
<1> USE DEF RecordTurn, Goto, AuditLabels, HoldsMu, AudTxnLabels, Succeeded
<1>1. /\ pc \in [Requests -> Labels] /\ DOMAIN call = Requests
      /\ pc[r] \in AuditLabels => call[r] \in Calls
      /\ OnItsRoute(r)
  BY DEF DataInv, TypeOK
<1>2. CASE AuditStep(r)
  <2>1. pc[r] \in AuditLabels
    BY <1>2 DEF AuditStep, AudLock, AudBegin, AudRead, AudInsert, AudCommit, AudRollback
  <2>2. call[r].ok \in Statuses /\ call[r].fail \in Statuses
    BY <1>1, <2>1 DEF Calls
  <2>3. CASE AudLock(r)
    BY <1>1, <2>3 DEF AudLock
  <2>4. CASE AudBegin(r)
    BY <1>1, <2>2, <2>4 DEF AudBegin, Leave, Statuses
  <2>5. CASE AudRead(r)
    BY <1>1, <2>5 DEF AudRead
  <2>6. CASE AudInsert(r)
    BY <1>1, <2>6 DEF AudInsert
  <2>7. CASE AudCommit(r)
    BY <1>1, <2>2, <2>7 DEF AudCommit, Leave, Statuses
  <2>8. CASE AudRollback(r)
    BY <1>1, <2>2, <2>8 DEF AudRollback, Leave, Statuses
  <2> QED BY <1>2, <2>3, <2>4, <2>5, <2>6, <2>7, <2>8 DEF AuditStep
<1>3. CASE Session(r)
  BY <1>1, <1>3
  DEF Session, SessionBegin, SessionSelect, SessionReject, SessionTouch, SessionCommit,
      SessionCatch, ExecBegin, ExecCommit, ExecRollback, CatchRollback, Statement, Look, Route,
      Writes
<1>4. CASE Check(r)
  <2>1. CASE Find(r)
    BY <1>1, <2>1 DEF Find, Look
  <2>2. CASE Access(r)
    <3>1. PICK next \in AfterCheck(req[r]) \union {"403"} : pc' = [pc EXCEPT ![r] = next]
      BY <2>2 DEF Access
    <3>2. /\ next \in {"insert", "exists", "audit", "update", "delete", "read", "400", "403"}
          /\ next = "read" => ~Writes(req[r])
      BY DEF AfterCheck, FirstStep, Writes
    <3> QED BY <1>1, <3>1, <3>2
  <2>3. CASE EntityExists(r)
    BY <1>1, <2>3 DEF EntityExists, Look
  <2>4. CASE Read(r)
    BY <1>1, <2>4 DEF Read, Look
  <2> QED BY <1>4, <2>1, <2>2, <2>3, <2>4 DEF Check
<1>5. CASE Mutate(r)
  <2>1. CASE Insert(r) \/ Update(r) \/ Delete(r)
    BY <1>1, <2>1 DEF Insert, Update, Set, Delete, Statement
  <2>2. CASE Audit(r)
    <3> DEFINE i == req[r]
               fail == IF Accepted(Details(i)) THEN "500" ELSE Success(i)
    <3>1. /\ call' = [call EXCEPT ![r] = [evt |-> Event(i, r), ok |-> Success(i), fail |-> fail]]
          /\ req' = req /\ pc' = [pc EXCEPT ![r] = "aud_lock"] /\ pc[r] = "audit"
      BY <2>2 DEF Audit, CallAudit, localVars
    <3>2. Writes(i)
      BY <1>1, <3>1 DEF OnItsRoute, Writes
    <3>3. call'[r] = [evt |-> Event(i, r), ok |-> Success(i), fail |-> fail]
      BY <1>1, <3>1
    <3>4. Told(r)'
      <4> HIDE DEF fail
      <4>1. call'[r].evt = Event(i, r) /\ call'[r].ok = Success(i) /\ call'[r].fail = fail
        BY <3>3
      <4> QED BY <3>1, <3>2, <4>1 DEF Told, fail
    <3> QED BY <1>1, <3>1, <3>4
  <2> QED BY <1>5, <2>1, <2>2 DEF Mutate
<1>6. CASE CreateEntityStep(r)
  BY <1>1, <1>6
  DEF CreateEntityStep, CreateBegin, CreateEntity, CreateMember, CreateUndo, CreateCommit,
      CreateCatch, ExecBegin, ExecCommit, ExecRollback, CatchRollback, Statement
<1> QED BY <1>2, <1>3, <1>4, <1>5, <1>6 DEF Handle

LEMMA RecordsStay ==
  ASSUME DataInv, TransactionsDoNotMix, ~regime.foreign, RecordsCome,
         NEW r \in Requests, Step(r), Effect(r), RecordTurn(r), UNCHANGED worldVars
  PROVE  RecordsCome'
<1>1. /\ \A s \in Requests \ {r} : pc'[s] = pc[s] /\ call'[s] = call[s]
      /\ req' = req /\ ~regime'.foreign
  BY StepIsOfOne DEF worldVars
<1>2. /\ \A s \in DOMAIN disk.audit :
           s \in DOMAIN live.audit /\ live.audit[s].evt = disk.audit[s].evt
      /\ \A q \in Requests :
           /\ pc[q] \in AuditLabels => Told(q)
           /\ pc[q] = "read" => ~Writes(req[q])
           /\ pc[q] = "201" => req[q].op = "create"
           /\ pc[q] = "aud_commit" => OnConn(call[q].evt)
           /\ pc[q] \in Succeeded /\ Writes(req[q]) /\ Speakable(req[q])
                => OnDisk(Event(req[q], q)) /\ Accepted(Details(req[q]))
  BY DEF RecordsCome
\* The table only grows, but for a ROLLBACK of the one whose transaction it is.
<1>3. \/ live' = disk /\ disk' = disk /\ pc[r] \in Rollbacks
      \/ /\ \A s \in DOMAIN live.audit :
              s \in DOMAIN live'.audit /\ live'.audit[s].evt = live.audit[s].evt
         /\ disk' = disk \/ disk' = live'
         /\ pc'[r] = "aud_commit" => \E s \in DOMAIN live'.audit : live'.audit[s].evt = call[r].evt
  <2>1. CASE Quiet(r)
    <3>1. pc'[r] # "aud_commit"
      BY <2>1 DEF RecordTurn, Quiet, Refusals
    <3> QED BY <2>1, <3>1 DEF Quiet
  <2>2. CASE CommitOK /\ pc[r] \in Commits /\ live' = live /\ disk' = live
    <3>1. pc'[r] # "aud_commit"
      BY <2>2 DEF RecordTurn, Commits
    <3> QED BY <2>2, <3>1
  <2>3. CASE pc[r] \in Rollbacks /\ live' = disk /\ disk' = disk
    BY <2>3
  <2>4. CASE WriteOK /\ Change(r) /\ disk' = IF inTxn THEN disk ELSE live'
    <3>1. CASE live'.audit = live.audit /\ pc[r] # "aud_insert"
      BY <2>4, <3>1 DEF RecordTurn
    <3>2. CASE \E seq, prev : /\ seq \notin DOMAIN live.audit
                              /\ live'.audit =
                                   AddRow(live.audit, seq, Row(seq, call[r].evt, prev))
      <4>1. PICK seq, prev : /\ seq \notin DOMAIN live.audit
                             /\ live'.audit =
                                  AddRow(live.audit, seq, Row(seq, call[r].evt, prev))
        BY <3>2
      <4>2. /\ DOMAIN live'.audit = DOMAIN live.audit \union {seq}
            /\ live'.audit[seq].evt = call[r].evt
            /\ \A s \in DOMAIN live.audit : live'.audit[s] = live.audit[s]
        BY <4>1 DEF AddRow, Row
      <4> QED BY <2>4, <4>2
    <3> QED BY <2>4, <3>1, <3>2 DEF Change, Becomes, Sets
  <2> QED BY <2>1, <2>2, <2>3, <2>4 DEF Effect
<1>4. \A s \in DOMAIN disk'.audit :
        s \in DOMAIN live'.audit /\ live'.audit[s].evt = disk'.audit[s].evt
  BY <1>2, <1>3
<1>5. \A evt : OnDisk(evt) => OnDisk(evt)'
  BY <1>2, <1>3 DEF OnDisk
<1>6. ASSUME NEW q \in Requests, pc'[q] \in AuditLabels PROVE Told(q)'
  BY <1>1, <1>2, <1>6 DEF RecordTurn, Told
<1>7. ASSUME NEW q \in Requests, pc'[q] = "read" PROVE ~Writes(req[q])
  BY <1>1, <1>2, <1>7 DEF RecordTurn
<1>8. ASSUME NEW q \in Requests, pc'[q] = "aud_commit" PROVE OnConn(call[q].evt)' 
  <2>1. CASE q = r
    <3>1. pc[r] = "aud_insert" /\ pc'[r] \in AuditLabels
      BY <1>8, <2>1 DEF RecordTurn, AuditLabels, HoldsMu, AudTxnLabels
    <3>2. call'[r].evt = call[r].evt
      <4>1. Told(r) /\ Told(r)'
        BY <1>2, <1>6, <3>1 DEF AuditLabels, HoldsMu, AudTxnLabels
      <4> QED BY <1>1, <4>1 DEF Told
    <3>3. pc[r] \notin Rollbacks
      BY <3>1 DEF Rollbacks
    <3> QED BY <1>3, <1>8, <2>1, <3>2, <3>3 DEF OnConn
  <2>2. CASE q # r
    <3>1. OnConn(call[q].evt) /\ call'[q] = call[q] /\ pc[q] = "aud_commit"
      BY <1>1, <1>2, <1>8, <2>2
    <3>2. pc[r] \notin Rollbacks
      <4>1. "aud_commit" \in TxnLabels /\ Rollbacks \subseteq TxnLabels
        BY DEF TxnLabels, AudTxnLabels, SessionTxn, CreateTxn, Rollbacks
      <4> QED BY <2>2, <3>1, <4>1, TxnFacts
    <3> QED BY <1>3, <3>1, <3>2 DEF OnConn
  <2> QED BY <2>1, <2>2
<1>9. ASSUME NEW q \in Requests
      PROVE  /\ pc'[q] = "201" => req[q].op = "create"
             /\ pc'[q] \in Succeeded /\ Writes(req[q]) /\ Speakable(req[q])
                  => OnDisk(Event(req[q], q))' /\ Accepted(Details(req[q]))
  <2>1. CASE pc[q] \in Succeeded /\ pc'[q] = pc[q]
    BY <1>1, <1>2, <1>5, <2>1
  <2>2. CASE pc[q] \notin Succeeded \/ pc'[q] # pc[q]
    <3>1. q = r \/ pc'[q] \notin Succeeded
      BY <1>1, <2>2
    <3>2. SUFFICES ASSUME q = r, pc'[r] \in Succeeded
                   PROVE  /\ pc'[q] = "201" => req[q].op = "create"
                          /\ Writes(req[q]) /\ Speakable(req[q])
                               => OnDisk(Event(req[q], q))' /\ Accepted(Details(req[q]))
      BY <3>1 DEF Succeeded
    <3>3. req[r] \in Inputs
      <4>1. pc[r] \in {"read"} \union AuditLabels
        BY <3>2 DEF RecordTurn, AuditLabels, HoldsMu, AudTxnLabels
      <4> QED BY <4>1 DEF DataInv, TypeOK, OnItsRoute, AuditLabels, HoldsMu, AudTxnLabels
    <3>4. CASE pc[r] = "read" /\ pc'[r] = "200"
      BY <1>2, <3>2, <3>4
    <3>5. CASE pc[r] \in AuditLabels
      <4>1. Told(r)
        BY <1>2, <3>5
      <4>2. pc'[r] = Success(req[r])
        BY <3>2, <3>5, <4>1 DEF RecordTurn, Told, Succeeded, AuditLabels, HoldsMu, AudTxnLabels
      <4>3. Writes(req[r]) /\ Speakable(req[r]) => Accepted(Details(req[r]))
        BY <3>3, SpeakableIsAccepted
      <4>4. Accepted(Details(req[r])) => pc[r] = "aud_commit"
        BY <3>2, <3>5, <4>1 DEF RecordTurn, Told, Succeeded, AuditLabels, HoldsMu, AudTxnLabels
      <4>5. pc[r] = "aud_commit" => OnDisk(Event(req[r], r))'
        <5> SUFFICES ASSUME pc[r] = "aud_commit" PROVE OnDisk(Event(req[r], r))'
          OBVIOUS
        <5>1. disk' = live
          BY <3>2 DEF Effect, Quiet, Refusals, Change, Rollbacks, Commits, Succeeded
        <5>2. OnConn(Event(req[r], r))
          BY <1>2, <4>1 DEF Told
        <5> QED BY <1>1, <5>1, <5>2 DEF OnDisk, OnConn
      <4> QED BY <3>2, <4>2, <4>3, <4>4, <4>5 DEF Success
    <3> QED BY <3>2, <3>4, <3>5 DEF RecordTurn, AuditLabels, HoldsMu, AudTxnLabels
  <2> QED BY <2>1, <2>2
<1> QED BY <1>1, <1>4, <1>6, <1>7, <1>8, <1>9 DEF RecordsCome

LEMMA NextKeepsRecords ==
  DataInv /\ TransactionsDoNotMix /\ RecordsCome /\ [Next]_vars => RecordsCome'
<1> SUFFICES ASSUME DataInv, TransactionsDoNotMix, RecordsCome, [Next]_vars,
                    ~regime.foreign
             PROVE  RecordsCome'
  BY DEF RecordsCome, Next, worldVars, ForeignTxn, CliLocks, Crash, Idle, vars
<1>1. CASE UNCHANGED vars
  BY <1>1 DEF vars, connVars, auditVars, localVars, RecordsCome, Told, OnDisk, OnConn
<1>2. ASSUME NEW r \in Requests, Arrive(r), UNCHANGED worldVars PROVE RecordsCome'
  <2>1. /\ UNCHANGED <<live, disk, regime, call>>
        /\ pc'[r] = "s_begin" /\ pc[r] = "new"
        /\ \A q \in Requests \ {r} : pc'[q] = pc[q] /\ req'[q] = req[q]
    BY <1>2 DEF Arrive, Goto, connVars, worldVars, DataInv, TypeOK
  <2>2. \A q \in Requests : pc'[q] # "s_begin" => q # r
    BY <2>1
  <2> QED BY <2>1, <2>2 DEF RecordsCome, Told, OnDisk, OnConn, AuditLabels, HoldsMu,
                            AudTxnLabels, Succeeded
<1>3. ASSUME NEW r \in Requests, Handle(r), UNCHANGED worldVars PROVE RecordsCome'
  BY <1>3, HandleFrame, HandleEffect, RecordTurns, RecordsStay
<1>4. CASE ForeignTxn
  BY <1>4 DEF ForeignTxn
<1>5. CASE CliLocks
  BY <1>5 DEF CliLocks, connVars, auditVars, localVars, RecordsCome, Told, OnDisk, OnConn
<1>6. CASE Crash
  <2>1. /\ live' = disk /\ disk' = disk /\ UNCHANGED <<req, regime>>
    BY <1>6 DEF Crash, ConnCrash, localVars
  <2>2. \A q \in Requests :
          \/ pc'[q] = "lost" /\ q \in InFlight
          \/ pc'[q] = pc[q] /\ pc[q] \in Answered \union {"new"}
    BY <1>6, CrashLoses
  <2>3. \A q \in Requests :
          /\ pc'[q] \notin AuditLabels \union {"read", "aud_commit"}
          /\ pc'[q] \in Succeeded => pc[q] = pc'[q]
    BY <2>2 DEF Answered, Statuses, Succeeded, AuditLabels, HoldsMu, AudTxnLabels
  <2> QED BY <2>1, <2>2, <2>3 DEF RecordsCome, OnDisk, Succeeded
<1> QED BY <1>1, <1>2, <1>3, <1>4, <1>5, <1>6 DEF Next, Idle

-----------------------------------------------------------------------------
(* One request at a time                                                    *)

\* Where a regime of one request at a time, and one without a CLI, lead.
AtMostOne ==
  /\ regime.pool = 1 => \A q, r \in InFlight : q = r
  /\ ~regime.cli => fileLock = "none"

LEMMA HandlesInFlight ==
  ASSUME NEW r \in Requests, DataInv, Handle(r)
  PROVE  r \in InFlight
<1> USE DEF InFlight, Answered, Statuses
<1>1. CASE AuditStep(r)
  BY <1>1 DEF AuditStep, AudLock, AudBegin, AudRead, AudInsert, AudCommit, AudRollback
<1>2. CASE Session(r)
  BY <1>2 DEF Session, SessionBegin, SessionSelect, SessionReject, SessionTouch, SessionCommit,
              SessionCatch
<1>3. CASE Check(r)
  BY <1>3 DEF Check, Find, Access, EntityExists, Read
<1>4. CASE Mutate(r)
  BY <1>4 DEF Mutate, Insert, Update, Delete, Audit
<1>5. CASE CreateEntityStep(r)
  BY <1>5 DEF CreateEntityStep, CreateBegin, CreateEntity, CreateMember, CreateUndo,
              CreateCommit, CreateCatch
<1> QED BY <1>1, <1>2, <1>3, <1>4, <1>5 DEF Handle

LEMMA NextKeepsAtMostOne == DataInv /\ AtMostOne /\ [Next]_vars => AtMostOne'
<1> SUFFICES ASSUME DataInv, AtMostOne, [Next]_vars PROVE AtMostOne'
  OBVIOUS
<1> USE DEF AtMostOne
<1>1. CASE UNCHANGED vars
  BY <1>1 DEF vars, auditVars, InFlight
<1>2. ASSUME NEW r \in Requests, Arrive(r), UNCHANGED worldVars PROVE AtMostOne'
  <2>1. /\ Cardinality(InFlight) < regime.pool /\ UNCHANGED <<regime, fileLock>>
        /\ \A q \in Requests \ {r} : pc'[q] = pc[q]
    BY <1>2 DEF Arrive, Goto, worldVars, DataInv, TypeOK
  <2>2. regime.pool = 1 => InFlight = {}
    <3> SUFFICES ASSUME regime.pool = 1, NEW q \in InFlight PROVE FALSE
      OBVIOUS
    <3>1. InFlight = {q}
      OBVIOUS
    <3>2. Cardinality(InFlight) = 1
      BY <3>1, FS_Singleton
    <3> QED BY <2>1, <3>2
  <2>3. regime'.pool = 1 => InFlight' \subseteq {r}
    BY <2>1, <2>2 DEF InFlight
  <2> QED BY <2>1, <2>3
<1>3. ASSUME NEW r \in Requests, Handle(r), UNCHANGED worldVars PROVE AtMostOne'
  <2>1. r \in InFlight /\ \A q \in Requests \ {r} : pc'[q] = pc[q]
    BY <1>3, HandlesInFlight, HandleFrame, StepIsOfOne
  <2>2. InFlight' \subseteq InFlight
    BY <2>1 DEF InFlight
  <2> QED BY <1>3, <2>2 DEF worldVars
<1>4. CASE ForeignTxn
  BY <1>4 DEF ForeignTxn, auditVars, InFlight
<1>5. CASE CliLocks
  BY <1>5 DEF CliLocks, auditVars, InFlight
<1>6. CASE Crash
  <2>1. InFlight' = {}
    BY <1>6, CrashLoses DEF InFlight, Answered, Statuses
  <2> QED BY <1>6, <2>1 DEF Crash
<1> QED BY <1>1, <1>2, <1>3, <1>4, <1>5, <1>6 DEF Next, Idle

OneByOne == regime.pool = 1 /\ ~regime.foreign

\* The steps after the one write of a route.
Auditing == {"audit"} \union AuditLabels

\* Where a request stands beside one that takes a step.
LEMMA Others ==
  ASSUME OneByOne, AtMostOne, TransactionsDoNotMix, NEW r \in InFlight
  PROVE  /\ \A q \in Requests \ {r} : pc[q] \in Answered \union {"new"}
         /\ inTxn <=> pc[r] \in TxnLabels
<1>1. \A q \in Requests \ {r} : pc[q] \in Answered \union {"new"}
  BY DEF OneByOne, AtMostOne, InFlight
<1>2. \A q \in Requests \ {r} : pc[q] \notin TxnLabels
  BY <1>1 DEF Answered, Statuses, TxnLabels, SessionTxn, CreateTxn, AudTxnLabels
<1> QED BY <1>1, <1>2 DEF OneByOne, TransactionsDoNotMix, InFlight

\* The way of a request from its lookup to the end of its route.
WorkTurn(r) ==
  /\ pc'[r] = "access" =>
       /\ pc[r] = "find"
       /\ PathKind(req[r]) = "entity" \/ Exists(live, PathId(req[r]), PathKind(req[r]))
  /\ pc'[r] = "delete" => pc[r] = "access"
  /\ pc'[r] = "exists" => pc[r] = "access" /\ req[r].op = "update"
  /\ pc'[r] = "update" =>
       \/ pc[r] = "update"
       \/ pc[r] = "access" /\ req[r].op = "update" /\ req[r].cols # {}
       \/ pc[r] = "exists" /\ todo[r] # {}
  /\ pc'[r] = "c_commit" => pc[r] = "c_member"
  /\ pc'[r] = "audit" =>
       \/ pc[r] \in {"insert", "c_commit", "update", "delete"}
       \/ pc[r] \in {"access", "exists"} /\ req[r].op = "update"
  /\ pc'[r] \in AuditLabels => pc[r] \in Auditing
  /\ pc[r] = "audit" => pc'[r] \in AuditLabels
  /\ pc[r] \in AuditLabels => pc'[r] \in AuditLabels \union {call[r].ok, call[r].fail}

LEMMA WorkTurns ==
  ASSUME DataInv, NEW r \in Requests, Handle(r)
  PROVE  WorkTurn(r)
<1> USE DEF WorkTurn, Goto, AuditLabels, HoldsMu, AudTxnLabels, Auditing
<1>1. /\ pc \in [Requests -> Labels] /\ DOMAIN call = Requests
      /\ pc[r] \in AuditLabels => call[r] \in Calls
  BY DEF DataInv, TypeOK
<1>2. CASE AuditStep(r)
  <2>1. pc[r] \in AuditLabels
    BY <1>2 DEF AuditStep, AudLock, AudBegin, AudRead, AudInsert, AudCommit, AudRollback
  <2>2. call[r].ok \in Statuses /\ call[r].fail \in Statuses
    BY <1>1, <2>1 DEF Calls
  <2>3. CASE AudLock(r)
    BY <1>1, <2>3 DEF AudLock
  <2>4. CASE AudBegin(r)
    BY <1>1, <2>2, <2>4 DEF AudBegin, Leave, Statuses
  <2>5. CASE AudRead(r)
    BY <1>1, <2>5 DEF AudRead
  <2>6. CASE AudInsert(r)
    BY <1>1, <2>6 DEF AudInsert
  <2>7. CASE AudCommit(r)
    BY <1>1, <2>2, <2>7 DEF AudCommit, Leave, Statuses
  <2>8. CASE AudRollback(r)
    BY <1>1, <2>2, <2>8 DEF AudRollback, Leave, Statuses
  <2> QED BY <1>2, <2>3, <2>4, <2>5, <2>6, <2>7, <2>8 DEF AuditStep
<1>3. CASE Session(r)
  BY <1>1, <1>3
  DEF Session, SessionBegin, SessionSelect, SessionReject, SessionTouch, SessionCommit,
      SessionCatch, ExecBegin, ExecCommit, ExecRollback, CatchRollback, Statement, Look, Route
<1>4. CASE Check(r)
  <2>1. CASE Find(r)
    BY <1>1, <2>1 DEF Find, Look
  <2>2. CASE Access(r)
    <3>1. PICK next \in AfterCheck(req[r]) \union {"403"} : pc' = [pc EXCEPT ![r] = next]
      BY <2>2 DEF Access
    <3>2. /\ next \in {"insert", "exists", "audit", "update", "delete", "read", "400", "403"}
          /\ next \in {"exists", "audit"} => req[r].op = "update"
          /\ next = "update" => req[r].op = "update" /\ req[r].cols # {}
      BY DEF AfterCheck, FirstStep
    <3>3. pc[r] = "access"
      BY <2>2 DEF Access
    <3> QED BY <1>1, <3>1, <3>2, <3>3
  <2>3. CASE EntityExists(r)
    <3>1. OnItsRoute(r)
      BY DEF DataInv, TypeOK
    <3> QED BY <1>1, <2>3, <3>1 DEF EntityExists, Look, OnItsRoute
  <2>4. CASE Read(r)
    BY <1>1, <2>4 DEF Read, Look
  <2> QED BY <1>4, <2>1, <2>2, <2>3, <2>4 DEF Check
<1>5. CASE Mutate(r)
  <2>1. CASE Insert(r) \/ Update(r) \/ Delete(r)
    BY <1>1, <2>1 DEF Insert, Update, Set, Delete, Statement
  <2>2. CASE Audit(r)
    BY <1>1, <2>2 DEF Audit, CallAudit
  <2> QED BY <1>5, <2>1, <2>2 DEF Mutate
<1>6. CASE CreateEntityStep(r)
  BY <1>1, <1>6
  DEF CreateEntityStep, CreateBegin, CreateEntity, CreateMember, CreateUndo, CreateCommit,
      CreateCatch, ExecBegin, ExecCommit, ExecRollback, CatchRollback, Statement
<1> QED BY <1>2, <1>3, <1>4, <1>5, <1>6 DEF Handle

-----------------------------------------------------------------------------
(* One at a time: a row that was created is there, a leaf that was deleted   *)
(* is gone                                                                  *)

InTables(id) == id \in DOMAIN live.rows /\ id \in DOMAIN disk.rows

CreatedStays ==
  OneByOne =>
    \A r \in Requests :
      /\ pc[r] \in {"c_member", "c_commit"} => r \in DOMAIN live.rows
      /\ pc[r] \in Auditing \union {"201"} /\ req[r].op = "create"
           => InTables(r) \/ MayHaveDeleted(r)

\* Without other requests, a row leaves the tables by a DELETE of its id only.
LEMMA RowsStay ==
  ASSUME DataInv, NEW r \in Requests, Effect(r), NEW id, InTables(id)
  PROVE  InTables(id)' \/ (pc[r] = "delete" /\ req[r].id = id)
<1>1. CASE Quiet(r)
  BY <1>1 DEF Quiet, InTables
<1>2. CASE live' = live /\ disk' = live
  BY <1>2 DEF InTables
<1>3. CASE live' = disk /\ disk' = disk
  BY <1>3 DEF InTables
<1>4. CASE WriteOK /\ Change(r) /\ disk' = IF inTxn THEN disk ELSE live'
  <2>1. id \in DOMAIN live'.rows \/ (pc[r] = "delete" /\ req[r].id = id)
    BY <1>4 DEF Change, Becomes, Sets, AddTo, RowsWithout, InTables
  <2> QED BY <1>4, <2>1 DEF InTables
<1> QED BY <1>1, <1>2, <1>3, <1>4 DEF Effect

LEMMA CreatedKept ==
  ASSUME DataInv, TransactionsDoNotMix, RecordsCome, AtMostOne, OneByOne, CreatedStays,
         NEW r \in InFlight, Step(r), Effect(r), RecordTurn(r), WorkTurn(r)
  PROVE  CreatedStays'
<1> USE DEF InFlight
<1>1. /\ \A s \in Requests \ {r} : pc'[s] = pc[s]
      /\ req' = req /\ pc[r] # "new" /\ pc'[r] # "new"
  BY StepIsOfOne
<1>2. /\ \A q \in Requests \ {r} : pc[q] \in Answered \union {"new"}
      /\ inTxn <=> pc[r] \in TxnLabels
  BY Others
<1>3. \A q \in Requests :
        /\ pc[q] \in {"c_member", "c_commit"} => q \in DOMAIN live.rows
        /\ pc[q] \in Auditing \union {"201"} /\ req[q].op = "create"
             => InTables(q) \/ MayHaveDeleted(q)
  BY DEF CreatedStays
<1>4. \A q : MayHaveDeleted(q) => MayHaveDeleted(q)'
  BY <1>1 DEF MayHaveDeleted
<1>5. ASSUME NEW q \in Requests, InTables(q) PROVE InTables(q)' \/ MayHaveDeleted(q)'
  <2>1. CASE pc[r] = "delete" /\ req[r].id = q
    <3>1. req[r].op = "delete"
      BY <2>1 DEF DataInv, TypeOK, OnItsRoute
    <3> QED BY <1>1, <2>1, <3>1 DEF MayHaveDeleted
  <2> QED BY <1>5, <2>1, RowsStay
<1>6. ASSUME NEW q \in Requests, pc'[q] \in {"c_member", "c_commit"}
      PROVE  q \in DOMAIN live'.rows
  <2>1. q = r
    BY <1>1, <1>2, <1>6 DEF Answered, Statuses
  <2>2. CASE pc'[r] = "c_member"
    <3>1. pc[r] = "c_entity"
      BY <2>2 DEF Step
    <3>2. live'.rows = AddTo(live.rows, r, NewRow(r))
      BY <2>2, <3>1 DEF Effect, Quiet, Refusals, Change, Becomes, Commits, Rollbacks
    <3> QED BY <2>1, <3>2 DEF AddTo
  <2>3. CASE pc'[r] = "c_commit"
    <3>1. pc[r] = "c_member" /\ r \in DOMAIN live.rows
      BY <1>3, <2>3 DEF WorkTurn
    <3>2. live'.rows = live.rows
      BY <2>3, <3>1 DEF Effect, Quiet, Change, Becomes, Commits, Rollbacks
    <3> QED BY <2>1, <3>1, <3>2
  <2> QED BY <1>6, <2>1, <2>2, <2>3
<1>7. ASSUME NEW q \in Requests, pc'[q] \in Auditing \union {"201"}, req[q].op = "create"
      PROVE  InTables(q)' \/ MayHaveDeleted(q)'
  <2>1. CASE pc[q] \in Auditing \union {"201"}
    BY <1>3, <1>4, <1>5, <1>7, <2>1
  <2>2. CASE pc[q] \notin Auditing \union {"201"}
    <3>1. q = r /\ pc'[r] = "audit"
      BY <1>1, <1>7, <2>2
      DEF WorkTurn, RecordTurn, Auditing, Succeeded, AuditLabels, HoldsMu, AudTxnLabels
    <3>2. pc[r] \in {"insert", "c_commit"}
      BY <1>7, <3>1 DEF WorkTurn, DataInv, TypeOK, OnItsRoute
    <3>3. CASE pc[r] = "insert"
      <4>1. ~inTxn
        BY <1>2, <3>3 DEF TxnLabels, SessionTxn, CreateTxn, AudTxnLabels
      <4>2. live'.rows = AddTo(live.rows, r, NewRow(r)) /\ disk' = live'
        BY <3>1, <3>3, <4>1
        DEF Effect, Quiet, Refusals, Change, Becomes, Commits, Rollbacks
      <4> QED BY <3>1, <4>2 DEF AddTo, InTables
    <3>4. CASE pc[r] = "c_commit"
      <4>1. live' = live /\ disk' = live
        BY <3>1, <3>4 DEF Effect, Quiet, Refusals, Change, Rollbacks
      <4> QED BY <1>3, <3>1, <3>4, <4>1 DEF InTables
    <3> QED BY <3>2, <3>3, <3>4
  <2> QED BY <2>1, <2>2
<1> QED BY <1>1, <1>6, <1>7 DEF CreatedStays

Calm == OneByOne /\ ~regime.cli

IsLeaf(i) == i.op = "delete" /\ i.kind \in {"tx", "budget", "category"}

LeavesGo ==
  Calm =>
    \A r \in Requests :
      IsLeaf(req[r]) =>
        /\ pc[r] \in {"access", "delete"} /\ req[r].id \in DOMAIN live.rows
             => live.rows[req[r].id].kind = req[r].kind
        /\ pc[r] \in Auditing \union Succeeded => Gone(req[r].id)

\* Nothing hangs on a transaction, a budget or a category.
LEMMA LeavesAreFree ==
  ASSUME NEW i, Sound(i), NEW id \in Ids, id \in DOMAIN i.rows => i.rows[id].kind \in {"tx", "budget", "category"}
  PROVE  ~Referenced(i, id)
<1>1. NoOne \notin Ids
  BY RequestsAssumption, DataAssumption DEF Ids
<1>2. ASSUME NEW x \in DOMAIN i.rows, i.rows[x].parent = id PROVE FALSE
  <2>1. i.rows[x].kind # "entity"
    BY <1>1, <1>2 DEF Sound, TreeIsWhole
  <2>2. id \in DOMAIN i.rows /\ i.rows[id].kind \in {"account", "entity"}
    BY <1>2, <2>1 DEF Sound, TreeIsWhole, ParentKind
  <2> QED BY <2>2
<1>3. ASSUME NEW m \in i.members, m.entity = id PROVE FALSE
  BY <1>3 DEF Sound, TreeIsWhole
<1> QED BY <1>2, <1>3 DEF Referenced

LEMMA LeavesGone ==
  ASSUME DataInv, TransactionsDoNotMix, RecordsCome, AuthInv, AtMostOne, Calm, LeavesGo,
         NEW r \in InFlight, Step(r), Effect(r), RecordTurn(r), WorkTurn(r)
  PROVE  LeavesGo'
<1> USE DEF InFlight
<1>1. /\ \A s \in Requests \ {r} : pc'[s] = pc[s]
      /\ req' = req /\ pc[r] # "new" /\ pc'[r] # "new"
      /\ \A s \in Requests : pc'[s] \in Before => pc[s] \in Before
  BY StepIsOfOne DEF Step
<1>2. /\ \A q \in Requests \ {r} : pc[q] \in Answered \union {"new"}
      /\ inTxn <=> pc[r] \in TxnLabels
  BY Others DEF Calm
<1>3. \A q \in Requests : IsLeaf(req[q]) =>
        /\ pc[q] \in {"access", "delete"} /\ req[q].id \in DOMAIN live.rows
             => live.rows[req[q].id].kind = req[q].kind
        /\ pc[q] \in Auditing \union Succeeded => Gone(req[q].id)
  BY DEF LeavesGo
<1>4. \A x : Gone(x) => Gone(x)'
  BY <1>1, StepMoves, GoneStays
<1>5. ASSUME NEW q \in Requests, IsLeaf(req[q]), pc'[q] \in {"access", "delete"},
             req[q].id \in DOMAIN live'.rows
      PROVE  live'.rows[req[q].id].kind = req[q].kind
  <2>1. q = r
    BY <1>1, <1>2, <1>5 DEF Answered, Statuses
  <2>2. pc[r] \in {"find", "access"}
    BY <1>5, <2>1 DEF WorkTurn
  <2>3. live' = live
    BY <2>2 DEF Effect, Quiet, Change, Commits, Rollbacks
  <2>4. PathId(req[r]) = req[r].id /\ PathKind(req[r]) = req[r].kind
    BY <1>5, <2>1 DEF IsLeaf, PathId, PathKind
  <2> QED BY <1>3, <1>5, <2>1, <2>2, <2>3, <2>4 DEF WorkTurn, Exists, IsLeaf
<1>6. ASSUME NEW q \in Requests, IsLeaf(req[q]), pc'[q] \in Auditing \union Succeeded
      PROVE  Gone(req[q].id)'
  <2>1. CASE pc[q] \in Auditing \union Succeeded
    BY <1>1, <1>3, <1>4, <1>6, <2>1
  <2>2. CASE pc[q] \notin Auditing \union Succeeded
    <3>1. q = r
      BY <1>1, <1>6, <2>2
    <3>2. Writes(req[r]) /\ pc[r] # "read"
      BY <1>6, <3>1 DEF IsLeaf, Writes, RecordsCome, Calm, OneByOne
    <3>3. pc'[r] = "audit"
      BY <1>6, <2>2, <3>1, <3>2 DEF WorkTurn, RecordTurn, Auditing, AuditLabels, HoldsMu,
                                    AudTxnLabels, Succeeded
    <3>4. pc[r] = "delete"
      BY <1>6, <3>1, <3>3 DEF WorkTurn, DataInv, TypeOK, OnItsRoute, IsLeaf, CreateTxn
    <3> DEFINE id == req[r].id
    <3>5. id \in Ids
      <4>1. req[r] \in Inputs
        BY <1>1 DEF DataInv, TypeOK, OnItsRoute
      <4> QED BY <1>6, <3>1, <4>1, InputFacts DEF IsLeaf
    <3>6. ~Referenced(live, id)
      <4>1. id \in DOMAIN live.rows => live.rows[id].kind \in {"tx", "budget", "category"}
        BY <1>3, <1>6, <3>1, <3>4 DEF IsLeaf
      <4>2. Sound(live)
        BY DEF DataInv, TypeOK, NoOrphans, Sound
      <4> QED BY <3>5, <4>1, <4>2, LeavesAreFree
    <3>7. WriteOK
      BY DEF AtMostOne, Calm, WriteOK
    <3>8. ~inTxn
      BY <1>2, <3>4 DEF TxnLabels, SessionTxn, CreateTxn, AudTxnLabels
    <3>9. live'.rows = RowsWithout(live, id) /\ disk' = live'
      BY <3>4, <3>6, <3>7, <3>8 DEF Effect, Quiet, Change, Becomes, Commits, Rollbacks
    <3>10. ~(id \in Requests /\ pc[id] \in Before)
      <4>1. Anchored(r)
        BY <3>4 DEF AuthInv, Calm, OneByOne, Looked, Checked
      <4>2. PathId(req[r]) = id /\ PathKind(req[r]) # "entity"
        BY <1>6, <3>1 DEF IsLeaf, PathId, PathKind
      <4> QED BY <4>1, <4>2 DEF Anchored
    <3> QED BY <1>1, <3>1, <3>9, <3>10 DEF Gone, RowsWithout
  <2> QED BY <2>1, <2>2
<1> QED BY <1>1, <1>5, <1>6 DEF LeavesGo

LEMMA RegimeStays == [Next]_vars => (OneByOne' <=> OneByOne) /\ (Calm' <=> Calm)
<1>1. [Next]_vars => regime' = regime
  BY DEF Next, worldVars, ForeignTxn, CliLocks, Crash, Idle, vars
<1> QED BY <1>1 DEF Calm, OneByOne

LEMMA NextKeepsCreated ==
  DataInv /\ TransactionsDoNotMix /\ RecordsCome /\ AtMostOne /\ CreatedStays /\ [Next]_vars
    => CreatedStays'
<1> SUFFICES ASSUME DataInv, TransactionsDoNotMix, RecordsCome, AtMostOne, CreatedStays,
                    [Next]_vars, OneByOne
             PROVE  CreatedStays'
  BY RegimeStays DEF CreatedStays
<1>1. CASE UNCHANGED vars
  BY <1>1 DEF vars, connVars, auditVars, localVars, CreatedStays, InTables, MayHaveDeleted
<1>2. ASSUME NEW r \in Requests, Arrive(r), UNCHANGED worldVars PROVE CreatedStays'
  <2>1. /\ UNCHANGED <<live, disk>> /\ pc'[r] = "s_begin" /\ pc[r] = "new"
        /\ \A q \in Requests \ {r} : pc'[q] = pc[q] /\ req'[q] = req[q]
    BY <1>2 DEF Arrive, Goto, connVars, DataInv, TypeOK
  <2>2. \A q : MayHaveDeleted(q) => MayHaveDeleted(q)'
    BY <2>1 DEF MayHaveDeleted
  <2>3. \A q \in Requests : pc'[q] # "s_begin" => q # r
    BY <2>1
  <2> QED BY <2>1, <2>2, <2>3 DEF CreatedStays, InTables, Auditing, AuditLabels, HoldsMu,
                                  AudTxnLabels
<1>3. ASSUME NEW r \in Requests, Handle(r), UNCHANGED worldVars PROVE CreatedStays'
  BY <1>3, HandleFrame, HandleEffect, RecordTurns, WorkTurns, HandlesInFlight, CreatedKept
<1>4. CASE ForeignTxn
  BY <1>4 DEF ForeignTxn, OneByOne
<1>5. CASE CliLocks
  BY <1>5 DEF CliLocks, connVars, auditVars, localVars, CreatedStays, InTables, MayHaveDeleted
<1>6. CASE Crash
  <2>1. live' = disk /\ disk' = disk /\ req' = req
    BY <1>6 DEF Crash, ConnCrash, localVars
  <2>2. \A q \in Requests :
          /\ pc'[q] \notin Auditing \union {"c_member", "c_commit"}
          /\ pc'[q] = "201" => pc[q] = "201"
          /\ pc'[q] = "new" => pc[q] = "new"
    BY <1>6, CrashLoses DEF Answered, Statuses, Auditing, AuditLabels, HoldsMu, AudTxnLabels
  <2> QED BY <2>1, <2>2 DEF CreatedStays, InTables, MayHaveDeleted
<1> QED BY <1>1, <1>2, <1>3, <1>4, <1>5, <1>6 DEF Next, Idle

LEMMA NextKeepsLeaves ==
  DataInv /\ TransactionsDoNotMix /\ RecordsCome /\ AuthInv /\ AtMostOne /\ LeavesGo
      /\ [Next]_vars
    => LeavesGo'
<1> SUFFICES ASSUME DataInv, TransactionsDoNotMix, RecordsCome, AuthInv, AtMostOne, LeavesGo,
                    [Next]_vars, Calm
             PROVE  LeavesGo'
  BY RegimeStays DEF LeavesGo
<1>1. CASE UNCHANGED vars
  BY <1>1 DEF vars, connVars, auditVars, localVars, LeavesGo, Gone
<1>2. ASSUME NEW r \in Requests, Arrive(r), UNCHANGED worldVars PROVE LeavesGo'
  <2>1. /\ UNCHANGED <<live, disk>> /\ pc'[r] = "s_begin" /\ pc[r] = "new"
        /\ \A q \in Requests \ {r} : pc'[q] = pc[q] /\ req'[q] = req[q]
    BY <1>2 DEF Arrive, Goto, connVars, DataInv, TypeOK
  <2>2. \A x : Gone(x) => Gone(x)'
    BY <2>1 DEF Gone, Before
  <2>3. \A q \in Requests : pc'[q] # "s_begin" => q # r
    BY <2>1
  <2> QED BY <2>1, <2>2, <2>3 DEF LeavesGo, Auditing, AuditLabels, HoldsMu, AudTxnLabels,
                                  Succeeded
<1>3. ASSUME NEW r \in Requests, Handle(r), UNCHANGED worldVars PROVE LeavesGo'
  BY <1>3, HandleFrame, HandleEffect, RecordTurns, WorkTurns, HandlesInFlight, LeavesGone
<1>4. CASE ForeignTxn
  BY <1>4 DEF ForeignTxn, Calm, OneByOne
<1>5. CASE CliLocks
  BY <1>5 DEF CliLocks, Calm
<1>6. CASE Crash
  <2>1. live' = disk /\ disk' = disk /\ req' = req
    BY <1>6 DEF Crash, ConnCrash, localVars
  <2>2. \A q \in Requests :
          /\ pc'[q] \notin Auditing \union {"access", "delete"}
          /\ pc'[q] \in Succeeded => pc[q] = pc'[q]
          /\ pc'[q] \in Before => pc[q] \in Before
    BY <1>6, CrashLoses
    DEF Answered, Statuses, Auditing, AuditLabels, HoldsMu, AudTxnLabels, Succeeded, Before
  <2> QED BY <2>1, <2>2 DEF LeavesGo, Gone
<1> QED BY <1>1, <1>2, <1>3, <1>4, <1>5, <1>6 DEF Next, Idle

-----------------------------------------------------------------------------
(* In a calm world: of a PUT, all columns come or none                      *)

\* The columns that r's PUT has written.
Done(r) == req[r].cols \ todo[r]

IsPut(r) == r \in Requests /\ pc[r] # "new" /\ req[r].op = "update"

\* Where a PUT is once it has written.
Past == {"update", "500", "lost"} \union Auditing \union Succeeded

\* A column holds the request that made the row, or a PUT for the row that has
\* written it, and that was cut off if it did not write all that it had to.
Wrote(id, c) ==
  LET x == live.rows[id].val[c]
  IN  x # NoOne =>
        /\ x \in Requests /\ pc[x] # "new"
        /\ IsPut(x) =>
             /\ req[x].id = id /\ c \in Done(x) /\ pc[x] \in Past
             /\ todo[x] = {} \/ pc[x] \in {"update", "lost"}

\* All that a PUT wrote is there, or one that did not write c has come over it.
Whole(id, c, d) ==
  LET x == live.rows[id].val[c]
      y == live.rows[id].val[d]
  IN  IsPut(x) /\ d \in Done(x) => y = x \/ (IsPut(y) /\ c \notin Done(y))

\* A PUT between its columns has written those that it is done with.
AtWork(r) ==
  /\ pc[r] \in {"exists", "update"} => todo[r] \subseteq req[r].cols
  /\ pc[r] = "exists" => todo[r] = req[r].cols
  /\ pc[r] = "update" =>
       /\ todo[r] # {}
       /\ req[r].id \in DOMAIN live.rows =>
            \A d \in Done(r) : live.rows[req[r].id].val[d] = r

UpdatesCome ==
  Calm =>
    /\ \A id \in DOMAIN disk.rows : id \in DOMAIN live.rows /\ live.rows[id] = disk.rows[id]
    /\ \A id \in DOMAIN live.rows : \A c, d \in Columns : Wrote(id, c) /\ Whole(id, c, d)
    /\ \A r \in Requests : AtWork(r)

\* There is a first column.
LEMMA FirstColumnIsOne ==
  ASSUME NEW cols, cols \subseteq Columns, cols # {}
  PROVE  FirstColumn(cols) \in cols
<1> DEFINE Less == {pair \in Nat \X Nat : pair[1] < pair[2]}
<1>1. IsWellFoundedOn(Less, Nat)
  BY NatLessThanWellFounded DEF OpToRel
<1>2. cols \subseteq Nat
  BY DataAssumption
<1>3. PICK c \in cols : \A d \in cols : ~(<<d, c>> \in Less)
  BY <1>1, <1>2, WFMin
<1>4. ASSUME NEW d \in cols PROVE c <= d
  <2>1. c \in Nat /\ d \in Nat
    BY <1>2
  <2>2. <<d, c>> \in Less <=> d < c
    BY <2>1
  <2> QED BY <1>3, <2>1, <2>2
<1> QED BY <1>4 DEF FirstColumn

\* What r's next UPDATE sets is among what it has still to set.
LEMMA SettingIsTodo ==
  ASSUME DataInv, NEW r \in Requests, todo[r] # {}
  PROVE  Setting(r) \subseteq todo[r]
<1>1. todo[r] \subseteq Columns
  BY DEF DataInv, TypeOK
<1> QED BY <1>1, FirstColumnIsOne DEF Setting

\* What a step leaves alone of the requests that have written.
PutsStay ==
  \A x \in Requests : pc[x] # "new" =>
    /\ req'[x] = req[x] /\ pc'[x] # "new"
    /\ req[x].op = "update" /\ pc[x] \in Past =>
         /\ todo'[x] = todo[x] /\ pc'[x] \in Past
         /\ pc[x] \in {"update", "lost"} => pc'[x] \in {"update", "lost"}

\* A row that stays as it is, beside PUTs that stay as they are.
LEMMA RowFollows ==
  ASSUME PutsStay, NEW id, NEW c, NEW d, Wrote(id, c), Wrote(id, d), Whole(id, c, d),
         live'.rows[id].val[c] = live.rows[id].val[c],
         live'.rows[id].val[d] = live.rows[id].val[d]
  PROVE  Wrote(id, c)' /\ Whole(id, c, d)'
<1> DEFINE x == live.rows[id].val[c]
           y == live.rows[id].val[d]
<1>1. ASSUME NEW z \in {x, y}, z # NoOne
      PROVE  /\ z \in Requests /\ pc[z] # "new" /\ pc'[z] # "new" /\ req'[z] = req[z]
             /\ req[z].op = "update" =>
                  todo'[z] = todo[z] /\ pc[z] \in Past /\ pc'[z] \in Past
             /\ req[z].op = "update" /\ pc[z] \in {"update", "lost"}
                  => pc'[z] \in {"update", "lost"}
  BY <1>1 DEF PutsStay, Wrote, IsPut
<1>2. live'.rows[id].val[c] = x /\ live'.rows[id].val[d] = y
  OBVIOUS
<1>3. Wrote(id, c)'
  BY <1>1, <1>2 DEF Wrote, IsPut, Done
<1>4. Whole(id, c, d)'
  <2> HIDE DEF x, y
  <2>1. IsPut(x) /\ d \in Done(x) => y = x \/ (IsPut(y) /\ c \notin Done(y))
    BY DEF Whole, x, y
  <2> QED BY <1>1, <1>2, <2>1, RequestsAssumption DEF Whole, IsPut, Done
<1> QED BY <1>3, <1>4

LEMMA RowsFollow ==
  ASSUME UpdatesCome, Calm, PutsStay, NEW id \in DOMAIN live.rows,
         \A c \in Columns : live'.rows[id].val[c] = live.rows[id].val[c]
  PROVE  \A c, d \in Columns : Wrote(id, c)' /\ Whole(id, c, d)'
<1>1. \A c, d \in Columns : Wrote(id, c) /\ Whole(id, c, d)
  BY DEF UpdatesCome
<1> SUFFICES ASSUME NEW c \in Columns, NEW d \in Columns PROVE Wrote(id, c)' /\ Whole(id, c, d)'
  OBVIOUS
<1> QED BY <1>1, RowFollows

\* Where the rows come from after any call but an UPDATE.
LEMMA RowsComeFrom ==
  ASSUME DataInv, UpdatesCome, Calm, NEW r \in Requests, Effect(r),
         pc[r] # "update", inTxn <=> pc[r] \in TxnLabels
  PROVE  /\ \A id \in DOMAIN live'.rows :
              \/ id \in DOMAIN live.rows /\ live'.rows[id] = live.rows[id]
              \/ id = r /\ pc[r] \in {"insert", "c_entity"} /\ live'.rows[id] = NewRow(r)
         /\ \A id \in DOMAIN disk'.rows :
              id \in DOMAIN live'.rows /\ live'.rows[id] = disk'.rows[id]
<1>1. \A id \in DOMAIN disk.rows : id \in DOMAIN live.rows /\ live.rows[id] = disk.rows[id]
  BY DEF UpdatesCome
<1>2. CASE Quiet(r)
  BY <1>1, <1>2 DEF Quiet
<1>3. CASE live' = live /\ disk' = live
  BY <1>3
<1>4. CASE live' = disk /\ disk' = disk
  BY <1>1, <1>4
<1>5. CASE WriteOK /\ Change(r) /\ disk' = IF inTxn THEN disk ELSE live'
  <2>1. \/ live'.rows = live.rows
        \/ pc[r] \in {"insert", "c_entity"} /\ live'.rows = AddTo(live.rows, r, NewRow(r))
        \/ pc[r] = "delete" /\ live'.rows = RowsWithout(live, req[r].id)
    BY <1>5 DEF Change, Becomes
  <2>2. CASE live'.rows = live.rows
    BY <1>1, <1>5, <2>2
  <2>3. CASE pc[r] \in {"insert", "c_entity"} /\ live'.rows = AddTo(live.rows, r, NewRow(r))
    <3>1. r \notin DOMAIN disk.rows
      BY <2>3 DEF DataInv, IdsAreFresh, Before
    <3>2. /\ DOMAIN live'.rows = DOMAIN live.rows \union {r}
          /\ \A id \in DOMAIN live'.rows :
               live'.rows[id] = IF id = r THEN NewRow(r) ELSE live.rows[id]
      BY <2>3 DEF AddTo
    <3>3. disk' = disk \/ disk' = live'
      BY <1>5
    <3> HIDE DEF NewRow
    <3> QED BY <1>1, <2>3, <3>1, <3>2, <3>3
  <2>4. CASE pc[r] = "delete" /\ live'.rows = RowsWithout(live, req[r].id)
    <3>1. disk' = live'
      BY <1>5, <2>4 DEF TxnLabels, SessionTxn, CreateTxn, AudTxnLabels
    <3> QED BY <2>4, <3>1 DEF RowsWithout
  <2> QED BY <2>1, <2>2, <2>3, <2>4
<1> QED BY <1>2, <1>3, <1>4, <1>5 DEF Effect

LEMMA OthersWorkOn ==
  ASSUME DataInv, TransactionsDoNotMix, RecordsCome, AtMostOne, Calm, UpdatesCome,
         NEW r \in InFlight, Step(r), Effect(r), RecordTurn(r), WorkTurn(r), pc[r] # "update"
  PROVE  UpdatesCome'
<1> USE DEF InFlight
<1>1. /\ \A s \in Requests \ {r} : pc'[s] = pc[s] /\ todo'[s] = todo[s]
      /\ req' = req /\ pc[r] # "new" /\ pc'[r] # "new"
  BY StepIsOfOne DEF Effect, TodoTurn
<1>2. /\ \A q \in Requests \ {r} : pc[q] \in Answered \union {"new"}
      /\ inTxn <=> pc[r] \in TxnLabels
  BY Others DEF Calm
<1>3. PutsStay
  <2>1. ASSUME req[r].op = "update", pc[r] \in Past
        PROVE  todo'[r] = todo[r] /\ pc'[r] \in Past /\ pc[r] # "lost"
    <3>1. pc[r] \in Auditing
      BY <2>1 DEF Past, Succeeded, Answered, Statuses
    <3>2. todo'[r] = todo[r]
      BY <3>1 DEF Effect, TodoTurn, Auditing, AuditLabels, HoldsMu, AudTxnLabels
    <3>3. pc[r] \in AuditLabels => call[r].ok = "200" /\ call[r].fail \in {"500", "200"}
      BY <2>1 DEF RecordsCome, Told, Success, Calm, OneByOne
    <3> QED BY <3>1, <3>2, <3>3 DEF WorkTurn, Auditing, Past, Succeeded, Answered
  <2> QED BY <1>1, <2>1 DEF PutsStay
<1>4. /\ \A id \in DOMAIN live'.rows :
           \/ id \in DOMAIN live.rows /\ live'.rows[id] = live.rows[id]
           \/ id = r /\ pc[r] \in {"insert", "c_entity"} /\ live'.rows[id] = NewRow(r)
      /\ \A id \in DOMAIN disk'.rows :
           id \in DOMAIN live'.rows /\ live'.rows[id] = disk'.rows[id]
  BY <1>2, RowsComeFrom
<1>5. ASSUME NEW id \in DOMAIN live'.rows, NEW c \in Columns, NEW d \in Columns
      PROVE  Wrote(id, c)' /\ Whole(id, c, d)'
  <2>1. CASE id \in DOMAIN live.rows /\ live'.rows[id] = live.rows[id]
    BY <1>3, <2>1, RowsFollow
  <2>2. CASE id = r /\ pc[r] \in {"insert", "c_entity"} /\ live'.rows[id] = NewRow(r)
    <3>1. live'.rows[id].val[c] = r /\ live'.rows[id].val[d] = r
      BY <2>2 DEF NewRow
    <3>2. req'[r].op = "create"
      BY <1>1, <2>2 DEF DataInv, TypeOK, OnItsRoute, CreateTxn
    <3> QED BY <1>1, <3>1, <3>2 DEF Wrote, Whole, IsPut
  <2> QED BY <1>4, <2>1, <2>2
<1>6. ASSUME NEW q \in Requests PROVE AtWork(q)'
  <2>1. CASE q = r
    <3>1. CASE pc'[r] = "exists"
      <4>1. todo'[r] = req[r].cols
        BY <3>1 DEF WorkTurn, Effect, TodoTurn
      <4> QED BY <1>1, <2>1, <3>1, <4>1 DEF AtWork
    <3>2. CASE pc'[r] = "update"
      <4>1. todo'[r] = req[r].cols /\ req[r].cols # {}
        BY <3>2 DEF WorkTurn, Effect, TodoTurn, UpdatesCome, AtWork
      <4>2. Done(r)' = {}
        BY <1>1, <4>1 DEF Done
      <4> QED BY <1>1, <2>1, <3>2, <4>1, <4>2 DEF AtWork
    <3> QED BY <2>1, <3>1, <3>2 DEF AtWork
  <2>2. CASE q # r
    BY <1>1, <1>2, <2>2 DEF AtWork, Answered, Statuses
  <2> QED BY <2>1, <2>2
<1> QED BY <1>4, <1>5, <1>6 DEF UpdatesCome

\* One more UPDATE of a PUT.
LEMMA ColumnsAreSet ==
  ASSUME DataInv, TransactionsDoNotMix, AtMostOne, Calm, UpdatesCome,
         NEW r \in InFlight, Step(r), Effect(r), pc[r] = "update"
  PROVE  UpdatesCome'
<1> USE DEF InFlight
<1> DEFINE S == Setting(r)
           PutNow(x) == x \in Requests /\ pc'[x] # "new" /\ req'[x].op = "update"
           DoneNow(x) == req'[x].cols \ todo'[x]
<1>1. /\ \A s \in Requests \ {r} : pc'[s] = pc[s] /\ todo'[s] = todo[s]
      /\ req' = req
      /\ todo'[r] = todo[r] \ S
      /\ pc'[r] = IF todo'[r] = {} THEN "audit" ELSE "update"
  BY StepIsOfOne DEF Effect, TodoTurn
<1>2. /\ \A q \in Requests \ {r} : pc[q] \in Answered \union {"new"}
      /\ ~inTxn
  BY Others DEF Calm, TxnLabels, SessionTxn, CreateTxn, AudTxnLabels
<1>3. /\ req[r].op = "update" /\ req[r].cols \subseteq Columns
      /\ S \subseteq todo[r] /\ todo[r] \subseteq req[r].cols
      /\ req[r].id \in DOMAIN live.rows =>
           \A d \in Done(r) : live.rows[req[r].id].val[d] = r
  <2>1. AtWork(r)
    BY DEF UpdatesCome
  <2>2. req[r].op = "update" /\ req[r] \in Inputs
    BY DEF DataInv, TypeOK, OnItsRoute
  <2> QED BY <2>1, <2>2, SettingIsTodo, DataInputsAssumption DEF AtWork
<1>4. Sets(r, req[r].id, S) /\ disk' = live'
  <2>1. WriteOK
    BY DEF AtMostOne, Calm, WriteOK
  <2> QED BY <1>2, <2>1 DEF Effect, Quiet, Change, Commits, Rollbacks
<1>5. DoneNow(r) = Done(r) \union S
  BY <1>1, <1>3 DEF Done
<1>6. \A q \in Requests \ {r} : DoneNow(q) = Done(q) /\ (PutNow(q) <=> IsPut(q))
  BY <1>1 DEF Done, IsPut
<1>7. IsPut(r) /\ PutNow(r)
  BY <1>1, <1>3 DEF IsPut
<1> HIDE DEF S, PutNow, DoneNow
<1>8. ASSUME NEW id \in DOMAIN live'.rows, NEW c \in Columns, NEW d \in Columns
      PROVE  Wrote(id, c)' /\ Whole(id, c, d)'
  <2> DEFINE x == live.rows[id].val[c]
             y == live.rows[id].val[d]
             x1 == live'.rows[id].val[c]
             y1 == live'.rows[id].val[d]
  <2>1. /\ x1 = IF id = req[r].id /\ c \in S THEN r ELSE x
        /\ y1 = IF id = req[r].id /\ d \in S THEN r ELSE y
        /\ id \in DOMAIN live.rows
    BY <1>4 DEF Sets
  <2>2. Wrote(id, c) /\ Wrote(id, d) /\ Whole(id, c, d)
    BY <2>1 DEF UpdatesCome
  <2>3. x = r \/ y = r => id = req[r].id
    BY <1>7, <2>2, RequestsAssumption DEF Wrote
  <2>4. id = req[r].id => \A e \in Done(r) : live.rows[id].val[e] = r
    BY <1>3, <2>1
  <2>5. Wrote(id, c)'
    <3> SUFFICES ASSUME x1 # NoOne
                 PROVE  /\ x1 \in Requests /\ pc'[x1] # "new"
                        /\ PutNow(x1) =>
                             /\ req'[x1].id = id /\ c \in DoneNow(x1) /\ pc'[x1] \in Past
                             /\ todo'[x1] = {} \/ pc'[x1] \in {"update", "lost"}
      BY DEF Wrote, IsPut, Done, PutNow, DoneNow
    <3>1. CASE x1 = r
      <4>1. id = req[r].id /\ c \in DoneNow(r)
        BY <1>5, <1>7, <2>1, <2>2, <2>3, <3>1, RequestsAssumption DEF Wrote
      <4> QED BY <1>1, <3>1, <4>1 DEF Past, Auditing
    <3>2. CASE x1 # r
      <4>1. x1 = x
        BY <2>1, <3>2
      <4> QED BY <1>1, <1>6, <2>2, <3>2, <4>1 DEF Wrote
    <3> QED BY <3>1, <3>2
  <2>6. Whole(id, c, d)'
    <3> SUFFICES ASSUME PutNow(x1), d \in DoneNow(x1)
                 PROVE  y1 = x1 \/ (PutNow(y1) /\ c \notin DoneNow(y1))
      BY DEF Whole, IsPut, Done, PutNow, DoneNow
    <3>1. CASE x1 = r
      <4>1. id = req[r].id
        BY <2>1, <2>3, <3>1
      <4>2. d \in Done(r) \union S
        BY <1>5, <3>1
      <4> QED BY <2>1, <2>4, <3>1, <4>1, <4>2
    <3>2. CASE x1 # r
      <4>1. x1 = x /\ ~(id = req[r].id /\ c \in S)
        BY <2>1, <3>2
      <4>2. x \in Requests \ {r} /\ IsPut(x) /\ d \in Done(x)
        BY <1>6, <3>2, <4>1 DEF IsPut, PutNow
      <4>3. CASE y1 = r
        <5>1. id = req[r].id
          BY <2>1, <2>3, <4>3
        <5>2. c \notin Done(r)
          BY <2>4, <4>2, <5>1
        <5> QED BY <1>5, <1>7, <4>1, <4>3, <5>1, <5>2
      <4>4. CASE y1 # r
        <5>1. y1 = y
          BY <2>1, <4>4
        <5>2. y = x \/ (IsPut(y) /\ c \notin Done(y))
          BY <2>2, <4>2 DEF Whole
        <5>3. IsPut(y) => y \in Requests \ {r}
          BY <4>4, <5>1 DEF IsPut
        <5> QED BY <1>6, <4>1, <5>1, <5>2, <5>3
      <4> QED BY <4>3, <4>4
    <3> QED BY <3>1, <3>2
  <2> QED BY <2>5, <2>6
<1>9. ASSUME NEW q \in Requests PROVE AtWork(q)'
  <2>1. CASE q = r
    <3>1. todo'[r] \subseteq req'[r].cols
      BY <1>1, <1>3
    <3>2. ASSUME req[r].id \in DOMAIN live'.rows, NEW d \in DoneNow(r)
          PROVE  live'.rows[req[r].id].val[d] = r
      <4>1. d \in Columns /\ req[r].id \in DOMAIN live.rows
        BY <1>1, <1>3, <1>4, <3>2 DEF Sets, DoneNow
      <4>2. live'.rows[req[r].id].val[d] = IF d \in S THEN r ELSE live.rows[req[r].id].val[d]
        BY <1>4, <4>1 DEF Sets
      <4> QED BY <1>3, <1>5, <3>2, <4>1, <4>2
    <3> QED BY <1>1, <2>1, <3>1, <3>2 DEF AtWork, Done, DoneNow
  <2>2. CASE q # r
    BY <1>1, <1>2, <2>2 DEF AtWork, Answered, Statuses
  <2> QED BY <2>1, <2>2
<1> QED BY <1>4, <1>8, <1>9 DEF UpdatesCome

LEMMA NextKeepsUpdates ==
  DataInv /\ TransactionsDoNotMix /\ RecordsCome /\ AtMostOne /\ UpdatesCome /\ [Next]_vars
    => UpdatesCome'
<1> SUFFICES ASSUME DataInv, TransactionsDoNotMix, RecordsCome, AtMostOne, UpdatesCome,
                    [Next]_vars, Calm
             PROVE  UpdatesCome'
  BY RegimeStays DEF UpdatesCome
<1>1. CASE UNCHANGED <<connVars, auditVars, localVars>>
  <2>1. /\ live' = live /\ disk' = disk /\ pc' = pc /\ req' = req /\ todo' = todo
    BY <1>1 DEF connVars, auditVars, localVars
  <2>2. PutsStay
    BY <2>1 DEF PutsStay
  <2>3. \A id \in DOMAIN live'.rows : \A c, d \in Columns : Wrote(id, c)' /\ Whole(id, c, d)'
    BY <2>1, <2>2, RowsFollow
  <2>4. ASSUME NEW q \in Requests PROVE AtWork(q)'
    <3>1. AtWork(q)
      BY DEF UpdatesCome
    <3> QED BY <2>1, <3>1 DEF AtWork, Done
  <2>5. \A id \in DOMAIN disk'.rows :
          id \in DOMAIN live'.rows /\ live'.rows[id] = disk'.rows[id]
    BY <2>1 DEF UpdatesCome
  <2> QED BY <2>3, <2>4, <2>5 DEF UpdatesCome
<1>2. ASSUME PutsStay, live'.rows = live.rows \/ live' = disk, disk' = disk,
             \A q \in Requests : pc'[q] \notin {"exists", "update"}
      PROVE  UpdatesCome'
  <2>1. \A id \in DOMAIN disk.rows : id \in DOMAIN live.rows /\ live.rows[id] = disk.rows[id]
    BY DEF UpdatesCome
  <2>2. \A id \in DOMAIN live'.rows : id \in DOMAIN live.rows /\ live'.rows[id] = live.rows[id]
    BY <1>2, <2>1
  <2>3. \A id \in DOMAIN disk'.rows :
          id \in DOMAIN live'.rows /\ live'.rows[id] = disk'.rows[id]
    BY <1>2, <2>1
  <2>4. \A id \in DOMAIN live'.rows : \A c, d \in Columns : Wrote(id, c)' /\ Whole(id, c, d)'
    BY <1>2, <2>2, RowsFollow
  <2>5. \A q \in Requests : AtWork(q)'
    BY <1>2 DEF AtWork
  <2> QED BY <2>3, <2>4, <2>5 DEF UpdatesCome
<1>3. ASSUME NEW r \in Requests, Arrive(r), UNCHANGED worldVars PROVE UpdatesCome'
  <2>1. /\ UNCHANGED <<live, disk, todo>> /\ pc'[r] = "s_begin" /\ pc[r] = "new"
        /\ \A q \in Requests \ {r} : pc'[q] = pc[q] /\ req'[q] = req[q]
    BY <1>3 DEF Arrive, Goto, connVars, DataInv, TypeOK
  <2>2. PutsStay
    BY <2>1 DEF PutsStay
  <2>3. Cardinality(InFlight) < 1
    BY <1>3 DEF Arrive, Calm, OneByOne
  <2>4. ASSUME NEW q \in Requests PROVE pc'[q] \notin {"exists", "update"}
    <3> SUFFICES ASSUME pc'[q] \in {"exists", "update"} PROVE FALSE
      OBVIOUS
    <3>1. q \in InFlight
      BY <2>1 DEF InFlight, Answered, Statuses
    <3>2. InFlight = {q}
      BY <3>1 DEF AtMostOne, Calm, OneByOne
    <3>3. Cardinality(InFlight) = 1
      BY <3>2, FS_Singleton
    <3> QED BY <2>3, <3>3
  <2> QED BY <1>2, <2>1, <2>2, <2>4
<1>4. ASSUME NEW r \in Requests, Handle(r), UNCHANGED worldVars PROVE UpdatesCome'
  BY <1>4, HandleFrame, HandleEffect, RecordTurns, WorkTurns, HandlesInFlight, OthersWorkOn,
     ColumnsAreSet
<1>5. CASE ForeignTxn
  BY <1>5 DEF ForeignTxn, Calm, OneByOne
<1>6. CASE CliLocks
  BY <1>6 DEF CliLocks, Calm
<1>7. CASE Crash
  <2>1. live' = disk /\ disk' = disk /\ req' = req /\ todo' = todo
    BY <1>7 DEF Crash, ConnCrash, localVars
  <2>2. \A q \in Requests :
          /\ pc'[q] \notin {"exists", "update"}
          /\ pc'[q] = "lost" \/ pc'[q] = pc[q]
    BY <1>7, CrashLoses DEF Answered, Statuses
  <2>3. PutsStay
    BY <1>7, <2>1, <2>2, CrashLoses DEF PutsStay, Past, Answered, Statuses
  <2> QED BY <1>2, <2>1, <2>2, <2>3
<1> QED BY <1>1, <1>3, <1>4, <1>5, <1>6, <1>7 DEF Next, Idle, vars

-----------------------------------------------------------------------------
(* What success promises                                                    *)

KeptInv ==
  OwnersCome /\ RecordsCome /\ AtMostOne /\ CreatedStays /\ LeavesGo /\ UpdatesCome

LEMMA InitIsKept == Init => KeptInv
<1> SUFFICES ASSUME Init PROVE KeptInv
  OBVIOUS
<1>1. /\ live = SeedImage /\ disk = SeedImage /\ fileLock = "none"
      /\ \A r \in Requests : pc[r] = "new"
  BY DEF Init, ConnInit
<1>2. OwnersCome
  BY <1>1, DataAssumption DEF OwnersCome, Owned, HasOwner
<1>3. RecordsCome
  BY <1>1 DEF RecordsCome, AuditLabels, HoldsMu, AudTxnLabels, Succeeded
<1>4. AtMostOne
  BY <1>1 DEF AtMostOne, InFlight
<1>5. CreatedStays
  BY <1>1 DEF CreatedStays, Auditing, AuditLabels, HoldsMu, AudTxnLabels
<1>6. LeavesGo
  BY <1>1 DEF LeavesGo, Auditing, AuditLabels, HoldsMu, AudTxnLabels, Succeeded
<1>7. UpdatesCome
  <2>1. \A id \in DOMAIN live.rows : \A c \in Columns : live.rows[id].val[c] = NoOne
    BY <1>1, DataAssumption DEF SeedImage
  <2>2. \A id \in DOMAIN live.rows : \A c, d \in Columns : Wrote(id, c) /\ Whole(id, c, d)
    BY <2>1, RequestsAssumption DEF Wrote, Whole, IsPut
  <2> QED BY <1>1, <2>2 DEF UpdatesCome, AtWork
<1> QED BY <1>2, <1>3, <1>4, <1>5, <1>6, <1>7 DEF KeptInv

LEMMA KeptIsEnough == DataInv /\ TransactionsDoNotMix /\ KeptInv => SuccessIsKept
<1> SUFFICES ASSUME DataInv, TransactionsDoNotMix, KeptInv PROVE SuccessIsKept
  OBVIOUS
<1> USE DEF KeptInv
<1>1. EntitiesHaveOwners
  BY DEF OwnersCome, EntitiesHaveOwners, Owned, HasOwner, CreateTxn, Orphaning
<1>2. SuccessIsRecorded
  BY DEF RecordsCome, SuccessIsRecorded, Changed, Recorded, OnDisk, Event, Succeeded, Writes
<1>3. CreatedIsKept
  <2> SUFFICES ASSUME Settled, NEW r \in Requests, pc[r] = "201"
               PROVE  r \in DOMAIN disk.rows \/ MayHaveDeleted(r)
    BY DEF CreatedIsKept
  <2>1. req[r].op = "create"
    BY DEF RecordsCome, Settled
  <2> QED BY <2>1 DEF CreatedStays, InTables, Settled, OneByOne
<1>4. UpdatedWhole
  <2> SUFFICES ASSUME Settled, ~regime.cli, NEW r \in Requests, NEW id \in DOMAIN disk.rows,
                      pc[r] = "200", req[r].op = "update", req[r].id = id,
                      NEW c \in req[r].cols, NEW d \in req[r].cols,
                      disk.rows[id].val[c] = r, disk.rows[id].val[d] # r
               PROVE  LET y == disk.rows[id].val[d]
                      IN  /\ y # NoOne /\ req[y].op = "update"
                          /\ c \in req[y].cols => pc[y] \notin Statuses
    BY DEF UpdatedWhole, WrittenWhole
  <2>1. Calm
    BY DEF Settled, Calm, OneByOne
  <2>2. c \in Columns /\ d \in Columns
    BY DataInputsAssumption DEF DataInv, TypeOK, OnItsRoute
  <2>3. id \in DOMAIN live.rows /\ live.rows[id] = disk.rows[id]
    BY <2>1 DEF UpdatesCome
  <2>4. Wrote(id, c) /\ Wrote(id, d) /\ Whole(id, c, d)
    BY <2>1, <2>2, <2>3 DEF UpdatesCome
  <2>5. IsPut(r) /\ d \in Done(r)
    BY <2>3, <2>4, RequestsAssumption DEF Wrote, IsPut, Done
  <2> DEFINE y == disk.rows[id].val[d]
  <2>6. IsPut(y) /\ c \notin Done(y)
    BY <2>3, <2>4, <2>5 DEF Whole
  <2>7. todo[y] = {} \/ pc[y] \in {"update", "lost"}
    BY <2>3, <2>4, <2>6, RequestsAssumption DEF Wrote, IsPut
  <2> QED BY <2>6, <2>7, RequestsAssumption DEF IsPut, Done, Statuses
<1>5. LeavesAreDeleted
  <2> SUFFICES ASSUME Settled, ~regime.cli, NEW r \in Requests,
                      pc[r] = "200", req[r].op = "delete", req[r].kind \in {"tx", "budget", "category"}
               PROVE  req[r].id \notin DOMAIN disk.rows
    BY DEF LeavesAreDeleted
  <2> QED BY DEF LeavesGo, IsLeaf, Gone, Calm, OneByOne, Settled, Succeeded
<1> QED BY <1>1, <1>2, <1>3, <1>4, <1>5 DEF SuccessIsKept

\* THREAT_MODEL.md, tampering and repudiation: what a data route answers with
\* success is so, for any number of requests, users and rows.  Whatever the CLI,
\* the other requests and crashes cut off: an entity has its owner, and a write
\* that was answered 200 or 201 has its event on disk.  With requests served one
\* at a time: a created row is there until it is deleted, and, with the CLI idle,
\* a PUT comes with all its columns and a deleted leaf is gone.
THEOREM SuccessStays == Spec => []SuccessIsKept
<1>1. Init => AuthInv
  BY DEF Init, ConnInit, AuthInv, Reversible, SamePlaces, Looked, Checked
<1>2. DataInv /\ TransactionsDoNotMix /\ AuthInv /\ KeptInv /\ [Next]_vars => KeptInv'
  BY NextKeepsOwners, NextKeepsRecords, NextKeepsAtMostOne, NextKeepsCreated,
     NextKeepsLeaves, NextKeepsUpdates DEF KeptInv
<1> QED BY <1>1, <1>2, NextKeepsAuth, InitIsKept, KeptIsEnough, InvHolds,
           TransactionsStayApart, PTL DEF Spec
=============================================================================
