------------------------------- MODULE DataApi -------------------------------
(***************************************************************************)
(* The data routes (server/data): list, read, create, update and delete of *)
(* entities, accounts, transactions, budgets and categories, one action    *)
(* per call on the shared connection, beside other requests, the admin     *)
(* CLI, crashes and the transactions of the auth routes.                   *)
(*                                                                         *)
(* The tables are one tree of rows: an entity has no parent, an account, a *)
(* budget or a category has its entity, a transaction ("tx") its account   *)
(* (budgets.category_id refers to nothing).  A row created in the run has  *)
(* the id of the request that made it (generate_id is random), and a       *)
(* column holds the request that wrote it last, NoOne in the seed.         *)
(***************************************************************************)
EXTENDS AuditLog, Sanitizer, FiniteSets

CONSTANTS Users,
          Inputs,      \* the requests a client may send; user NoOne: no session
          Columns,     \* 1..n: the columns that a PUT may set
          SeedRows, SeedMembers,
          Regimes,     \* the circumstances considered, see RegimeType
          MaxCrashes   \* bound on crashes of the server

Kinds == {"entity", "account", "tx", "budget", "category"}
\* The rows whose event carries a name and a kind.
Named == {"entity", "account", "category"}
Roles == {"owner", "member"}

\* pool: requests in flight at once; cli: the admin CLI may write meanwhile;
\* foreign: requests outside the data routes open and end transactions.
RegimeType == [pool : Nat, cli : BOOLEAN, foreign : BOOLEAN]

Ids == DOMAIN SeedRows \union Requests
RowType ==
  [kind : Kinds, parent : Ids \union {NoOne},
   val : [Columns -> Requests \union {NoOne}]]
MemberType == [user : Users, entity : Ids, role : Roles]

\* PRAGMA foreign_keys = ON: what every INSERT and DELETE is held to.
ParentKind(kind) == IF kind = "tx" THEN "account" ELSE "entity"

TreeIsWhole(image) ==
  /\ \A id \in DOMAIN image.rows :
       LET row == image.rows[id]
       IN  IF row.kind = "entity" THEN row.parent = NoOne
           ELSE /\ row.parent \in DOMAIN image.rows
                /\ image.rows[row.parent].kind = ParentKind(row.kind)
  /\ \A m \in image.members :
       m.entity \in DOMAIN image.rows /\ image.rows[m.entity].kind = "entity"

Owned(image) ==
  \A id \in DOMAIN image.rows :
    image.rows[id].kind = "entity"
      => \E m \in image.members : m.entity = id /\ m.role = "owner"

SeedImage == [rows |-> SeedRows, members |-> SeedMembers, audit |-> <<>>]

ASSUME DataAssumption ==
  /\ Columns \subseteq Nat /\ IsFiniteSet(Columns)
  /\ SeedRows \in [DOMAIN SeedRows -> RowType]
  /\ \A id \in DOMAIN SeedRows : \A c \in Columns : SeedRows[id].val[c] = NoOne
  /\ DOMAIN SeedRows \intersect Requests = {} /\ NoOne \notin DOMAIN SeedRows
  /\ SeedMembers \subseteq MemberType
  /\ TreeIsWhole(SeedImage) /\ Owned(SeedImage)
  /\ NoOne \notin Users
  /\ Regimes \subseteq RegimeType
  /\ MaxCrashes \in Nat

ASSUME DataInputsAssumption ==
  \A i \in Inputs :
    /\ i.user \in Users \union {NoOne}
    /\ \/ i.op = "create" /\ i.kind \in Kinds
          /\ i.parent \in (IF i.kind = "entity" THEN {NoOne} ELSE Ids)
       \/ i.op = "update" /\ i.kind \in Kinds /\ i.id \in Ids /\ i.cols \subseteq Columns
       \/ i.op \in {"delete", "get", "list"} /\ i.kind \in Kinds /\ i.id \in Ids
       \/ i.op = "browse"

\* name and label are the body's "name" and "kind", and printed is how long the
\* two are in JSON.  The kind of an entity is one of six words, the longest
\* "Individual" and "Corporation"; of an account or a category it is any text.
ASSUME DataNamesAssumption ==
  \A i \in Inputs :
    i.op = "create" /\ i.kind \in Named =>
      /\ i.name \in Texts /\ i.label \in Texts /\ i.printed \in Nat
      /\ i.kind = "entity" => i.label.size <= 11

VARIABLES req,     \* req[r]: the input of request r, NoOne before it arrives
          ent,     \* ent[r]: the entity id that r has looked up
          todo,    \* todo[r]: columns that r has still to update
          regime,  \* chosen once
          crashes

localVars == <<req, ent, todo>>
worldVars == <<fileLock, regime, crashes>>
vars == <<connVars, fileLock, auditVars, localVars, regime, crashes>>

Statuses == {"200", "201", "400", "401", "403", "404", "500"}
Answered == Statuses \union {"lost"}
InFlight == {r \in Requests : pc[r] \notin Answered \union {"new"}}

Init ==
  /\ ConnInit(SeedImage)
  /\ fileLock = "none"
  /\ pc = [r \in Requests |-> "new"]
  /\ mu = NoOne
  /\ call = [r \in Requests |-> NoCall]
  /\ head = [r \in Requests |-> NoHead]
  /\ req = [r \in Requests |-> NoOne]
  /\ ent = [r \in Requests |-> NoOne]
  /\ todo = [r \in Requests |-> {}]
  /\ regime \in Regimes
  /\ crashes = 0

-----------------------------------------------------------------------------
(* Arrival.  An id is known from the seed, from the 201 that created it, or  *)
(* from a list, which shows what is on the connection, committed or not.     *)

Known == DOMAIN SeedRows \union DOMAIN live.rows \union {r \in Requests : pc[r] = "201"}

KnownToClient(i) ==
  /\ i.op = "create" /\ i.kind # "entity" => i.parent \in Known
  /\ i.op \notin {"create", "browse"} => i.id \in Known

\* A request has no name before it arrives: they are named in order of arrival.
NextToArrive == CHOOSE r \in Requests : pc[r] = "new"

Arrive(r) ==
  /\ pc[r] = "new" /\ r = NextToArrive
  /\ Cardinality(InFlight) < regime.pool
  /\ \E i \in Inputs :
       /\ KnownToClient(i)
       /\ req' = [req EXCEPT ![r] = i]
  /\ Goto(r, "s_begin")
  /\ UNCHANGED <<connVars, mu, call, head, ent, todo>>

-----------------------------------------------------------------------------
(* Calls on the connection.                                                 *)

ExecBegin(r, next, fail) ==
  /\ IF BeginOK THEN Begin /\ Goto(r, next) ELSE Goto(r, fail) /\ UNCHANGED connVars
  /\ UNCHANGED <<mu, call, head, localVars>>

ExecCommit(r, next, catch) ==
  /\ IF CommitOK THEN Commit /\ Goto(r, next) ELSE Goto(r, catch) /\ UNCHANGED connVars
  /\ UNCHANGED <<mu, call, head, localVars>>

ExecRollback(r, next, catch) ==
  /\ IF inTxn THEN Rollback /\ Goto(r, next) ELSE Goto(r, catch) /\ UNCHANGED connVars
  /\ UNCHANGED <<mu, call, head, localVars>>

CatchRollback(r, next) ==
  /\ Rollback
  /\ Goto(r, next)
  /\ UNCHANGED <<mu, call, head, localVars>>

\* A statement that SQLite takes or refuses, and where the handler goes on.
Statement(r, legal, image, rows, next, onFail) ==
  /\ IF WriteOK /\ legal
     THEN Write(image, rows) /\ Goto(r, next)
     ELSE WriteFails /\ Goto(r, onFail)
  /\ UNCHANGED <<mu, call, head>>

Look(r, label) ==
  /\ Goto(r, label)
  /\ UNCHANGED <<connVars, mu, call, head, req, todo>>

-----------------------------------------------------------------------------
(* require_session: validate_and_touch_session on the shared connection.    *)

SessionBegin(r) ==
  /\ pc[r] = "s_begin"
  /\ ExecBegin(r, "s_select", "500")

SessionSelect(r) ==
  /\ pc[r] = "s_select"
  /\ Look(r, IF req[r].user = NoOne THEN "s_reject" ELSE "s_touch")
  /\ UNCHANGED ent

SessionReject(r) ==
  /\ pc[r] = "s_reject"
  /\ ExecRollback(r, "401", "s_catch")

\* The sessions table is module AuthServer's; the result is ignored.
SessionTouch(r) ==
  /\ pc[r] = "s_touch"
  /\ Statement(r, TRUE, live, 1, "s_commit", "s_commit")
  /\ UNCHANGED localVars

RouteByOp(i) ==
  CASE i.op = "browse" -> "read" [] i.op = "create" -> "c_begin" [] OTHER -> "find"

\* Where a route goes on once it knows its user.
Route(i) ==
  CASE i.op = "browse" -> "read"
    [] i.op = "create" /\ i.kind = "entity" -> "c_begin"
    [] OTHER -> "find"

SessionCommit(r) ==
  /\ pc[r] = "s_commit"
  /\ ExecCommit(r, Route(req[r]), "s_catch")

SessionCatch(r) ==
  /\ pc[r] = "s_catch"
  /\ CatchRollback(r, "500")

Session(r) ==
  \/ SessionBegin(r) \/ SessionSelect(r) \/ SessionReject(r)
  \/ SessionTouch(r) \/ SessionCommit(r) \/ SessionCatch(r)

-----------------------------------------------------------------------------
(* The row named in the path, its entity, and the membership check.         *)

\* The id in the path and the kind of row it should be.
PathId(i) == IF i.op = "create" THEN i.parent ELSE i.id
PathKind(i) == IF i.op = "create" THEN ParentKind(i.kind) ELSE i.kind

Exists(image, id, kind) == id \in DOMAIN image.rows /\ image.rows[id].kind = kind

\* get_account_entity_id, get_tx_ids (a JOIN), get_budget_entity_id, ...
EntityOf(image, id) ==
  LET row == image.rows[id]
  IN  CASE row.kind = "entity" -> id
        [] row.kind = "tx" -> image.rows[row.parent].parent
        [] OTHER -> row.parent

\* An entity id is taken from the path as it stands, and is not looked up here.
Find(r) ==
  /\ pc[r] = "find"
  /\ LET id == PathId(req[r])
         kind == PathKind(req[r])
         found == kind = "entity" \/ Exists(live, id, kind)
     IN  \/ /\ found
            /\ ent' = [ent EXCEPT ![r] = IF kind = "entity" THEN id ELSE EntityOf(live, id)]
            /\ Look(r, "access")
         \/ /\ ~found \/ (ReadMayFail /\ kind # "entity")
            /\ Look(r, "404") /\ UNCHANGED ent

\* user_has_access_to_entity, user_is_owner_of_entity
MayAct(image, i, e) ==
  \E m \in image.members :
    /\ m.user = i.user /\ m.entity = e
    /\ i.op = "delete" /\ i.kind = "entity" => m.role = "owner"

FirstStep(i) ==
  CASE i.op = "create" -> "insert"
    [] i.op = "update" -> IF i.kind = "entity" THEN "exists"
                          ELSE IF i.cols = {} THEN "audit" ELSE "update"
    [] i.op = "delete" -> "delete"
    [] OTHER -> "read"

\* A route that takes a body parses it once the check has passed.
AfterCheck(i) ==
  {FirstStep(i)} \union (IF i.op \in {"create", "update"} THEN {"400"} ELSE {})

AccessByExistence(r) ==
  /\ pc[r] = "access"
  /\ \/ ent[r] \in DOMAIN live.rows /\ \E next \in AfterCheck(req[r]) : Goto(r, next)
     \/ (ent[r] \notin DOMAIN live.rows \/ ReadMayFail) /\ Goto(r, "403")
  /\ todo' = [todo EXCEPT ![r] = IF req[r].op = "update" THEN req[r].cols ELSE {}]
  /\ UNCHANGED <<connVars, mu, call, head, req, ent>>

\* todo is what the body asks to set.
Access(r) ==
  /\ pc[r] = "access"
  /\ LET may == MayAct(live, req[r], ent[r])
     IN  \/ may /\ \E next \in AfterCheck(req[r]) : Goto(r, next)
         \/ (~may \/ ReadMayFail) /\ Goto(r, "403")
  /\ todo' = [todo EXCEPT ![r] = IF req[r].op = "update" THEN req[r].cols ELSE {}]
  /\ UNCHANGED <<connVars, mu, call, head, req, ent>>

\* handle_update_entity looks for the row only now.
EntityExists(r) ==
  /\ pc[r] = "exists"
  /\ \/ Exists(live, ent[r], "entity")
        /\ Look(r, IF todo[r] = {} THEN "audit" ELSE "update")
     \/ (~Exists(live, ent[r], "entity") \/ ReadMayFail) /\ Look(r, "404")
  /\ UNCHANGED ent

\* GET: a row that has gone meanwhile is 404, a list may be empty.
Read(r) ==
  /\ pc[r] = "read"
  /\ LET i == req[r]
         single == i.op = "get"
     IN  \/ (single => Exists(live, i.id, i.kind)) /\ Look(r, "200")
         \/ single /\ (~Exists(live, i.id, i.kind) \/ ReadMayFail) /\ Look(r, "404")
  /\ UNCHANGED ent

Check(r) == Find(r) \/ Access(r) \/ EntityExists(r) \/ Read(r)

-----------------------------------------------------------------------------
(* Changing one row                                                         *)

NewRow(r) == [kind |-> req[r].kind,
              parent |-> IF req[r].kind = "entity" THEN NoOne ELSE req[r].parent,
              val |-> [c \in Columns |-> r]]

AddTo(rows, id, row) ==
  [x \in DOMAIN rows \union {id} |-> IF x = id THEN row ELSE rows[x]]

InsertUnchecked(r) ==
  /\ pc[r] = "insert"
  /\ Statement(r, Exists(live, req[r].parent, ParentKind(req[r].kind)),
               [live EXCEPT !.rows = AddTo(live.rows, r, NewRow(r))], 1, "audit", "audit")
  /\ UNCHANGED localVars

\* The foreign key: the parent may have gone since Find.
Insert(r) ==
  /\ pc[r] = "insert"
  /\ Statement(r, Exists(live, req[r].parent, ParentKind(req[r].kind)),
               [live EXCEPT !.rows = AddTo(live.rows, r, NewRow(r))], 1, "audit", "500")
  /\ UNCHANGED localVars

SetColumns(image, id, cols, r) ==
  IF id \notin DOMAIN image.rows THEN image
  ELSE [image EXCEPT !.rows[id].val = [c \in Columns |-> IF c \in cols THEN r ELSE @[c]]]

\* UPDATE of the columns cols, whatever comes of it.
Set(r, cols) ==
  LET rest == todo[r] \ cols
      on == IF rest = {} THEN "audit" ELSE "update"
  IN  /\ Statement(r, TRUE, SetColumns(live, req[r].id, cols, r),
                   Cardinality({req[r].id} \intersect DOMAIN live.rows), on, on)
      /\ todo' = [todo EXCEPT ![r] = rest]

FirstColumn(cols) == CHOOSE c \in cols : \A d \in cols : c <= d

\* An entity is updated by one statement, every other row column by column.
Update(r) ==
  /\ pc[r] = "update"
  /\ Set(r, IF req[r].kind = "entity" THEN todo[r] ELSE {FirstColumn(todo[r])})
  /\ UNCHANGED <<req, ent>>

Referenced(image, id) ==
  \/ \E x \in DOMAIN image.rows : image.rows[x].parent = id
  \/ \E m \in image.members : m.entity = id

RowsWithout(image, id) == [x \in DOMAIN image.rows \ {id} |-> image.rows[x]]

DeleteCascades(r) ==
  /\ pc[r] = "delete"
  /\ LET hit == {req[r].id} \intersect DOMAIN live.rows
     IN  Statement(r, TRUE, [live EXCEPT !.rows = RowsWithout(live, req[r].id)],
                   Cardinality(hit), "audit", "audit")
  /\ UNCHANGED localVars

\* The foreign keys refuse what is still referred to; the result is ignored.
Delete(r) ==
  /\ pc[r] = "delete"
  /\ LET hit == {req[r].id} \intersect DOMAIN live.rows
     IN  Statement(r, hit = {} \/ ~Referenced(live, req[r].id),
                   [live EXCEPT !.rows = RowsWithout(live, req[r].id)],
                   Cardinality(hit), "audit", "audit")
  /\ UNCHANGED localVars

\* The details an event carries: of a created budget its amount; of a created
\* transaction its amount and its account, by an id of 32 hex digits; of the
\* other rows the name and the kind as the client gave them.  Updates and
\* deletes carry none.
Field(key, value) == [path |-> <<[name |-> key, has |-> {}]>>, value |-> value]
Text(text) == [kind |-> "string", text |-> text]
Amount == Field("amount_cents", [kind |-> "integer"])
RowId == [size |-> 32, chars |-> "hex"]

Leaves(i) ==
  IF i.op # "create" THEN {} ELSE
  CASE i.kind \in Named -> {Field("name", Text(i.name)), Field("kind", Text(i.label))}
    [] i.kind = "budget" -> {Amount}
    [] i.kind = "tx" -> {Field("account_id", Text(RowId)), Amount}

Details(i) ==
  [isObject |-> TRUE,
   bytes |-> IF i.op = "create" /\ i.kind \in Named THEN i.printed ELSE 100,
   leaves |-> Leaves(i)]

\* What the sanitizer refuses is replaced by a rejection event.
Event(i, r) ==
  IF Accepted(Details(i)) THEN <<i.op, r>> ELSE <<"audit_record_rejected", r>>

Success(i) == IF i.op = "create" THEN "201" ELSE "200"

Audit(r) ==
  /\ pc[r] = "audit"
  /\ LET i == req[r]
         fail == IF Accepted(Details(i)) THEN "500" ELSE Success(i)
     IN  CallAudit(r, Event(i, r), Success(i), fail)
  /\ UNCHANGED <<connVars, localVars>>

Mutate(r) == Insert(r) \/ Update(r) \/ Delete(r) \/ Audit(r)

-----------------------------------------------------------------------------
(* POST /entities: the entity and its owner in one transaction              *)

CreateBeginNoTxn(r) ==
  /\ pc[r] = "c_begin"
  /\ Goto(r, "c_entity")
  /\ UNCHANGED <<connVars, mu, call, head, localVars>>

\* The body comes first.
CreateBegin(r) ==
  /\ pc[r] = "c_begin"
  /\ \/ ExecBegin(r, "c_entity", "500")
     \/ Goto(r, "400") /\ UNCHANGED <<connVars, mu, call, head, localVars>>

CreateEntity(r) ==
  /\ pc[r] = "c_entity"
  /\ Statement(r, TRUE, [live EXCEPT !.rows = AddTo(live.rows, r, NewRow(r))], 1,
               "c_member", "c_undo")
  /\ UNCHANGED localVars

CreateMember(r) ==
  /\ pc[r] = "c_member"
  /\ Statement(r, Exists(live, r, "entity"),
               [live EXCEPT !.members = @ \union
                  {[user |-> req[r].user, entity |-> r, role |-> "owner"]}], 1,
               "c_commit", "c_undo")
  /\ UNCHANGED localVars

CreateUndo(r) ==
  /\ pc[r] = "c_undo"
  /\ ExecRollback(r, "500", "c_catch")

CreateCommit(r) ==
  /\ pc[r] = "c_commit"
  /\ ExecCommit(r, "audit", "c_catch")

CreateCatch(r) ==
  /\ pc[r] = "c_catch"
  /\ CatchRollback(r, "500")

CreateEntityStep(r) ==
  \/ CreateBegin(r) \/ CreateEntity(r) \/ CreateMember(r)
  \/ CreateUndo(r) \/ CreateCommit(r) \/ CreateCatch(r)

-----------------------------------------------------------------------------
(* The world around the handlers                                            *)

\* A handler of the auth routes opens or ends a transaction; a ROLLBACK in one
\* of their catch blocks may end one that is not theirs (module AuthServer).
ForeignTxn ==
  /\ regime.foreign
  /\ \/ BeginOK /\ Begin
     \/ CommitOK /\ Commit
     \/ inTxn /\ Rollback
  /\ UNCHANGED <<fileLock, auditVars, localVars, regime, crashes>>

\* The admin CLI writes to the file; it cannot while the server does.
CliLocks ==
  /\ regime.cli
  /\ \/ fileLock = "none" /\ ~inTxn /\ fileLock' = "reserved"
     \/ fileLock = "none" /\ fileLock' = "shared"
     \/ fileLock # "none" /\ fileLock' = "none"
  /\ UNCHANGED <<connVars, auditVars, localVars, regime, crashes>>

Crash ==
  /\ crashes < MaxCrashes
  /\ InFlight # {}
  /\ crashes' = crashes + 1
  /\ ConnCrash
  /\ pc' = [r \in Requests |-> IF r \in InFlight THEN "lost" ELSE pc[r]]
  /\ mu' = NoOne
  /\ call' = [r \in Requests |-> NoCall]
  /\ head' = [r \in Requests |-> NoHead]
  /\ UNCHANGED <<localVars, fileLock, regime>>

Handle(r) ==
  \/ AuditStep(r) /\ UNCHANGED localVars
  \/ Session(r) \/ Check(r) \/ Mutate(r) \/ CreateEntityStep(r)

Idle == InFlight = {} /\ UNCHANGED vars

Next ==
  \/ \E r \in Requests : (Arrive(r) \/ Handle(r)) /\ UNCHANGED worldVars
  \/ ForeignTxn \/ CliLocks \/ Crash
  \/ Idle

Spec == Init /\ [][Next]_vars

\* Every thread of the pool keeps running.
FairSpec == Spec /\ \A r \in Requests : WF_vars(Handle(r) /\ UNCHANGED worldVars)

-----------------------------------------------------------------------------
(* Types                                                                    *)

SessionTxn == {"s_select", "s_reject", "s_touch", "s_commit", "s_catch"}
CreateTxn == {"c_entity", "c_member", "c_undo", "c_commit", "c_catch"}
TxnLabels == SessionTxn \union CreateTxn \union AudTxnLabels
AuditLabels == HoldsMu \union {"aud_lock"}
Checked == {"insert", "exists", "update", "delete"}

Labels ==
  {"new", "lost", "s_begin", "c_begin", "find", "access", "read", "audit"}
  \union Statuses \union TxnLabels \union AuditLabels \union Checked

Events == {"create", "update", "delete", "audit_record_rejected"} \X Requests
Calls == [evt : Events, ok : Statuses, fail : Statuses]

ImageType(i) ==
  /\ DOMAIN i = {"rows", "members", "audit"}
  /\ DOMAIN i.rows \subseteq Ids
  /\ i.rows \in [DOMAIN i.rows -> RowType]
  /\ i.members \subseteq MemberType
  /\ \A s \in DOMAIN i.audit : i.audit[s].evt \in Events

\* A request at a step of a route is a request for that route.
OnItsRoute(r) ==
  /\ pc[r] # "new" => req[r] \in Inputs
  /\ pc[r] \in {"insert", "c_begin"} \union CreateTxn => req[r].op = "create"
  /\ pc[r] \in {"c_begin"} \union CreateTxn => req[r].kind = "entity"
  /\ pc[r] = "insert" => req[r].kind # "entity"
  /\ pc[r] \in {"exists", "update"} => req[r].op = "update"
  /\ pc[r] = "delete" => req[r].op = "delete"
  /\ pc[r] = "audit" => req[r].op \in {"create", "update", "delete"}
  /\ pc[r] \in {"find", "access"} => Route(req[r]) = "find"
  /\ pc[r] \in {"s_touch", "s_commit", "s_catch", "find", "access", "read", "audit",
                "c_begin"} \union CreateTxn \union Checked
       => pc[r] = "s_catch" \/ req[r].user \in Users

\* Each variable holds what the code can put in it, and a request in a call of
\* record() has told it which event to write and where to go on.
TypeOK ==
  /\ inTxn \in BOOLEAN
  /\ ImageType(live) /\ ImageType(disk)
  /\ changes \in {0, 1}
  /\ fileLock \in FileLocks
  /\ pc \in [Requests -> Labels]
  /\ mu \in Requests \union {NoOne}
  /\ call \in [Requests -> Calls \union {NoCall}]
  /\ DOMAIN head = Requests
  /\ DOMAIN req = Requests
  /\ ent \in [Requests -> Ids \union {NoOne}]
  /\ todo \in [Requests -> SUBSET Columns]
  /\ regime \in Regimes
  /\ crashes \in Nat
  /\ \A r \in Requests : pc[r] \in AuditLabels => call[r] \in Calls
  /\ \A r \in Requests : OnItsRoute(r)

-----------------------------------------------------------------------------
(* What holds however requests interleave                                   *)

\* The tree of rows has no orphans, on the connection or on disk: every row has
\* its parent and every membership its entity, although a handler inserts under
\* an id it looked up some steps earlier, the parent may be deleted or rolled
\* back meanwhile, and the results of the DELETEs are ignored.
NoOrphans == TreeIsWhole(live) /\ TreeIsWhole(disk)

\* Requests of the data routes never share a transaction: whoever is inside one
\* it began, nobody else is, and a BEGIN meanwhile fails.  So no COMMIT or
\* ROLLBACK of these routes is another request's.  (The auth routes break this.)
TransactionsDoNotMix ==
  ~regime.foreign =>
    /\ \A r, s \in Requests :
         pc[r] \in TxnLabels /\ pc[s] \in TxnLabels => r = s
    /\ inTxn <=> \E r \in Requests : pc[r] \in TxnLabels

\* EntitiesHandler.cpp creates the entity and its owner's membership together:
\* no crash, lock or other request's ROLLBACK leaves an entity that nobody may
\* delete.  On the connection it may be seen between the two INSERTs.
EntitiesHaveOwners ==
  ~regime.foreign =>
    /\ Owned(disk)
    /\ (\A r \in Requests : pc[r] \notin CreateTxn) => Owned(live)

\* THREAT_MODEL.md, elevation of privilege: membership gates every route.  The
\* check comes steps before the write, on what may be another request's
\* uncommitted entity; when the write comes, the user is still a member (owner,
\* to delete an entity) of the entity the row hangs on, or both are gone.
StillAuthorised(r) ==
  /\ ent[r] \in DOMAIN live.rows => MayAct(live, req[r], ent[r])
  /\ PathId(req[r]) \in DOMAIN live.rows => EntityOf(live, PathId(req[r])) = ent[r]

OnlyMembersWrite ==
  ~regime.foreign => \A r \in Requests : pc[r] \in Checked => StillAuthorised(r)

Recorded(r) == \E s \in DOMAIN disk.audit : disk.audit[s].evt = <<req[r].op, r>>

\* The account's id, and a name or kind that could be a key, look like tokens to
\* the log; and neither has a bound in the routes, but an event has.
Speakable(i) ==
  i.op = "create" =>
    /\ i.kind # "tx"
    /\ i.kind \in Named =>
         /\ ~LooksLikeToken(i.name) /\ ~LooksLikeToken(i.label)
         /\ i.printed <= MAX_TOTAL_BYTES

Changed(r) == pc[r] \in {"200", "201"} /\ req[r].op \in {"create", "update", "delete"}

\* A create, update or delete answered with success has its event on disk,
\* whatever the other requests roll back, unless the sanitizer would refuse it.
SuccessIsRecorded ==
  ~regime.foreign => \A r \in Requests : Changed(r) /\ Speakable(req[r]) => Recorded(r)

\* THREAT_MODEL.md, repudiation, says it of every sensitive data operation.  It
\* fails: the event of every created transaction, and of a name or kind of 32
\* letters or digits, is refused, and the answer is 201.
ChangesAreRecorded ==
  ~regime.foreign => \A r \in Requests : Changed(r) => Recorded(r)

\* Every request is answered, or lost in a crash.
EveryRequestAnswered ==
  \A r \in Requests : pc[r] # "new" ~> pc[r] \in Answered

-----------------------------------------------------------------------------
(* What the answers promise.  They can only be judged when no transaction is *)
(* open, and hold when requests are served one at a time: beside another,    *)
(* an autocommit statement is taken back by the ROLLBACK of a 401.           *)

Settled == regime.pool = 1 /\ ~regime.foreign /\ ~inTxn

MayHaveDeleted(id) ==
  \E q \in Requests :
    pc[q] # "new" /\ req[q].op = "delete" /\ req[q].id = id

\* 201: the row is there, until somebody deletes it.
CreatedIsKept ==
  Settled =>
    \A r \in Requests :
      pc[r] = "201" => r \in DOMAIN disk.rows \/ MayHaveDeleted(r)

\* Database.h: "Each thread should hold its own Database instance (or serialize
\* access)".  The pool's threads share one, so the same beside another request
\* fails: the ROLLBACK of a 401 takes the row back.
CreatedIsKeptBeside ==
  ~regime.foreign /\ ~inTxn =>
    \A r \in Requests :
      pc[r] = "201" => r \in DOMAIN disk.rows \/ MayHaveDeleted(r)

\* The columns of r's PUT were written all or none, as far as no later PUT
\* (answered, or cut off between its columns) wrote one.
WrittenWhole(r) ==
  \A id \in DOMAIN disk.rows :
    pc[r] = "200" /\ req[r].op = "update" /\ req[r].id = id =>
      \A c, d \in req[r].cols :
        LET val == disk.rows[id].val
        IN  val[c] = r =>
              \/ val[d] = r
              \/ /\ val[d] # NoOne /\ req[val[d]].op = "update"
                 /\ c \in req[val[d]].cols => pc[val[d]] \notin Statuses

\* 200 for a PUT, while the CLI is idle: it was done as a whole.
UpdatedWhole == Settled /\ ~regime.cli => \A r \in Requests : WrittenWhole(r)

\* Beside the CLI it fails, and the PUT is audited with outcome "success": the
\* results of the UPDATEs are ignored, and a busy file refuses one and takes the
\* next.
UpdatedWholeBesideCli == Settled => \A r \in Requests : WrittenWhole(r)

\* EntitiesHandler.h, "DELETE /entities/<id> - delete entity": what was deleted
\* with answer 200 is gone, and audited as such.  It fails: README, section 5.
DeletedIsGone ==
  Settled /\ ~regime.cli =>
    \A r \in Requests :
      pc[r] = "200" /\ req[r].op = "delete" => req[r].id \notin DOMAIN disk.rows

\* The same for rows that nothing can refer to.
LeavesAreDeleted ==
  Settled /\ ~regime.cli =>
    \A r \in Requests :
      pc[r] = "200" /\ req[r].op = "delete" /\ req[r].kind \in {"tx", "budget", "category"}
        => req[r].id \notin DOMAIN disk.rows

\* What success promises, together: the row, its owner, all its new columns or
\* its absence, and the event in the audit log, however the handlers' separate
\* statements fail, interleave or are cut off.
SuccessIsKept ==
  /\ EntitiesHaveOwners
  /\ SuccessIsRecorded
  /\ CreatedIsKept
  /\ UpdatedWhole
  /\ LeavesAreDeleted
=============================================================================
