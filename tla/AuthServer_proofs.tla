------------------------- MODULE AuthServer_proofs -------------------------
(***************************************************************************)
(* Theorems about AuthServer for every set of requests, users, tokens and  *)
(* sessions.  HandlerFrame says once what any step of a handler may do to  *)
(* the connection and to its own place; the invariants then treat all the  *)
(* handlers as one case, and the steps of append_locked one by one.        *)
(***************************************************************************)
EXTENDS AuthServer, FiniteSetTheorems, TLAPS

-----------------------------------------------------------------------------
(* The audit table                                                          *)

\* sqlite3_changes() of a statement about one row is 0 or 1.
LEMMA OneRow ==
  ASSUME NEW x, NEW S
  PROVE  Cardinality({x} \intersect S) \in {0, 1}
<1>1. CASE x \in S
  <2>1. {x} \intersect S = {x}
    BY <1>1
  <2> QED BY <2>1, FS_Singleton
<1>2. CASE x \notin S
  <2>1. {x} \intersect S = {}
    BY <1>2
  <2> QED BY <2>1, FS_EmptySet
<1> QED BY <1>1, <1>2

\* The head of a chain of n rows is row n.
LEMMA HeadOfChain ==
  ASSUME NEW table, NEW n \in Nat, DOMAIN table = 1 .. n
  PROVE  HeadOf(table) = IF n = 0 THEN NoHead ELSE [seq |-> n, hash |-> table[n].hash]
<1>1. CASE n = 0
  BY <1>1 DEF HeadOf
<1>2. CASE n # 0
  <2>1. n \in DOMAIN table /\ \A t \in DOMAIN table : t <= n
    BY <1>2
  <2>2. LastSeq(table) \in DOMAIN table /\ \A t \in DOMAIN table : t <= LastSeq(table)
    BY <2>1 DEF LastSeq
  <2>3. LastSeq(table) = n
    <3>1. LastSeq(table) \in 1 .. n /\ n <= LastSeq(table)
      BY <2>1, <2>2
    <3>2. ASSUME NEW k \in 1 .. n, n <= k PROVE k = n
      BY <3>2
    <3> QED BY <3>1, <3>2
  <2> QED BY <1>2, <2>1, <2>3 DEF HeadOf
<1> QED BY <1>1, <1>2

\* A primary key that extends a chain: the row the code builds from the head
\* it read makes the table a chain one row longer, and keeps every older row.
LEMMA ExtendChain ==
  ASSUME NEW table, NEW evt, ChainLinear(table),
         NEW h \in {HeadOf(table), NoHead}, h.seq + 1 \notin DOMAIN table
  PROVE  LET longer == AddRow(table, h.seq + 1, Row(h.seq + 1, evt, h.hash))
             n == HeadOf(table).seq
         IN  /\ ChainLinear(longer)
             /\ HeadOf(longer).seq = n + 1
             /\ DOMAIN longer = 1 .. n + 1
             /\ \A s \in 1 .. n : longer[s] = table[s]
             /\ longer[n + 1].evt = evt
<1> DEFINE n == HeadOf(table).seq
           longer == AddRow(table, h.seq + 1, Row(h.seq + 1, evt, h.hash))
<1>1. n \in Nat /\ DOMAIN table = 1 .. n
  BY DEF ChainLinear
<1>2. HeadOf(table) = IF n = 0 THEN NoHead ELSE [seq |-> n, hash |-> table[n].hash]
  BY <1>1, HeadOfChain
<1>3. h = HeadOf(table)
  <2>1. SUFFICES ASSUME h = NoHead PROVE n = 0
    BY <1>2
  <2> QED BY <2>1, <1>1 DEF NoHead
<1>4. h.seq = n
  BY <1>3
<1>5. DOMAIN longer = 1 .. n + 1
  BY <1>1, <1>4 DEF AddRow
<1>6. \A s \in 1 .. n : longer[s] = table[s]
  BY <1>1, <1>4 DEF AddRow
<1>7. longer[n + 1] = Row(n + 1, evt, h.hash)
  BY <1>1, <1>4 DEF AddRow
<1>8. HeadOf(longer).seq = n + 1
  <2> HIDE DEF longer
  <2>1. HeadOf(longer) = [seq |-> n + 1, hash |-> longer[n + 1].hash]
    BY <1>1, <1>5, HeadOfChain
  <2> QED BY <2>1
<1>9. h.hash = IF n = 0 THEN <<>> ELSE table[n].hash
  BY <1>2, <1>3 DEF NoHead
<1>10. ASSUME NEW s \in DOMAIN longer
       PROVE  /\ longer[s].prev = IF s = 1 THEN <<>> ELSE longer[s - 1].hash
              /\ longer[s].hash = EntryHash(s, longer[s].evt, longer[s].prev)
  <2> HIDE DEF longer, n
  <2>1. CASE s = n + 1
    <3>1. /\ longer[s].prev = h.hash /\ longer[s].evt = evt
          /\ longer[s].hash = EntryHash(s, evt, h.hash)
      BY <1>7, <2>1 DEF Row
    <3>2. CASE n = 0
      BY <1>9, <2>1, <3>1, <3>2
    <3>3. CASE n # 0
      <4>1. s # 1 /\ s - 1 = n /\ n \in 1 .. n
        BY <1>1, <2>1, <3>3
      <4> QED BY <4>1, <1>6, <1>9, <3>1, <3>3
    <3> QED BY <3>2, <3>3
  <2>2. CASE s # n + 1
    <3>1. s \in 1 .. n /\ (s # 1 => s - 1 \in 1 .. n)
      BY <1>1, <1>5, <2>2
    <3>2. /\ table[s].prev = IF s = 1 THEN <<>> ELSE table[s - 1].hash
          /\ table[s].hash = EntryHash(s, table[s].evt, table[s].prev)
      BY <1>1, <3>1 DEF ChainLinear
    <3> QED BY <1>6, <3>1, <3>2
  <2> QED BY <2>1, <2>2
<1>11. longer[n + 1].evt = evt
  BY <1>7 DEF Row
<1>12. ChainLinear(longer)
  <2> HIDE DEF longer, n
  <2> QED BY <1>1, <1>5, <1>8, <1>10 DEF ChainLinear
<1> QED BY <1>5, <1>6, <1>8, <1>11, <1>12

-----------------------------------------------------------------------------
(* Rows                                                                     *)

Referential(i) == \A s \in DOMAIN i.sessions : i.sessions[s].user \in i.users

\* A write of a handler: an image it may leave, with the audit table as it was.
HandlerWrite(image, rows) ==
  /\ WriteOK /\ Write(image, rows)
  /\ Image(image) /\ rows \in {0, 1}
  /\ image.audit = live.audit
  /\ Referential(live) => Referential(image)

ConnStep ==
  \/ UNCHANGED connVars
  \/ BeginOK /\ Begin
  \/ CommitOK /\ Commit
  \/ Rollback
  \/ WriteFails
  \/ \E image, rows : HandlerWrite(image, rows)

\* What one step of a handler, outside record(), may do.
HandlerStep(r) ==
  /\ ConnStep
  /\ UNCHANGED <<mu, head, req, at>>
  /\ pc[r] \notin AuditLabels
  /\ \E label \in Labels \ HoldsMu : Goto(r, label) /\ label # "new"
  /\ OnItsRoute(r)'
  /\ \/ call' = call /\ pc'[r] # "aud_lock"
     \/ \E c \in Calls : call' = [call EXCEPT ![r] = c] /\ pc'[r] = "aud_lock"
  /\ inTxn' => \/ pc'[r] \in TxnLabels
               \/ inTxn /\ pc[r] \notin TxnLabels

LEMMA ImageAddUser ==
  ASSUME NEW i, Image(i), NEW e \in Emails
  PROVE  LET j == [i EXCEPT !.users = @ \union {e}]
         IN  Image(j) /\ j.audit = i.audit /\ (Referential(i) => Referential(j))
BY DEF Image, Referential

LEMMA ImageConsume ==
  ASSUME NEW i, Image(i), NEW T, T \subseteq i.tokens
  PROVE  LET j == [i EXCEPT !.consumed = @ \union T]
         IN  Image(j) /\ j.audit = i.audit /\ (Referential(i) => Referential(j))
BY DEF Image, Referential

LEMMA ImageRevoke ==
  ASSUME NEW i, Image(i), NEW S, S \subseteq DOMAIN i.sessions
  PROVE  LET j == [i EXCEPT !.revoked = @ \union S]
         IN  Image(j) /\ j.audit = i.audit /\ (Referential(i) => Referential(j))
BY DEF Image, Referential

LEMMA ImageMint ==
  ASSUME NEW i, Image(i), NEW sid \in SessionIds,
         NEW s \in [user : Emails, expires : Nat, seen : Nat], s.user \in i.users
  PROVE  LET j == AddSession(i, sid, s)
         IN  Image(j) /\ j.audit = i.audit /\ (Referential(i) => Referential(j))
BY DEF Image, Referential, AddSession

LEMMA ImageTouch ==
  ASSUME NEW i, Image(i), NEW sid \in DOMAIN i.sessions, NEW t \in Nat
  PROVE  LET j == [i EXCEPT !.sessions[sid].seen = t]
         IN  Image(j) /\ j.audit = i.audit /\ (Referential(i) => Referential(j))
BY DEF Image, Referential

-----------------------------------------------------------------------------
(* Every step of a handler is a HandlerStep                                 *)

\* The request of an enroll handler names a token and an email, that of a login
\* handler an email.
LEMMA RouteInputs ==
  ASSUME TypeOK, NEW r \in Requests
  PROVE  /\ pc[r] \in EnrollSteps => req[r].token \in Tokens /\ req[r].email \in Emails
         /\ pc[r] \in LoginSteps => req[r].email \in Emails
BY InputsAssumption DEF TypeOK, OnItsRoute

LEMMA EnrollFrame ==
  ASSUME TypeOK, NEW r \in Requests, EnrollStep(r)
  PROVE  HandlerStep(r)
<1> USE DEF TypeOK, HandlerStep, OnItsRoute, Goto, handlerVars, ConnStep, connVars,
            Labels, EnrollSteps, LoginSteps, LogoutSteps, WhoamiSteps, AuditLabels,
            HoldsMu, AudTxnLabels, ReturnLabels, Statuses, TxnLabels, EnrollTxn, WhoamiTxn
<1>1. CASE EnrollBegin(r)
  BY <1>1 DEF EnrollBegin, ExecBegin
<1>2. CASE EnrollPeek(r)
  BY <1>2 DEF EnrollPeek
<1>3. CASE EnrollReject(r)
  BY <1>3 DEF EnrollReject, ExecRollback, Rollback
<1>4. CASE EnrollAuditReject(r)
  BY <1>4 DEF EnrollAuditReject, CallAudit, Calls, Events
<1>5. CASE EnrollHash(r)
  BY <1>5 DEF EnrollHash
<1>6. CASE EnrollHashFailed(r)
  BY <1>6 DEF EnrollHashFailed, ExecRollback, Rollback
<1>7. CASE EnrollInsert(r)
  <2> DEFINE image == [live EXCEPT !.users = @ \union {req[r].email}]
  <2>1. Image(image) /\ image.audit = live.audit /\ (Referential(live) => Referential(image))
    BY <1>7, RouteInputs, ImageAddUser DEF EnrollInsert
  <2>2. ConnStep
    BY <1>7, <2>1 DEF EnrollInsert, Statement, HandlerWrite
  <2> QED BY <1>7, <2>2 DEF EnrollInsert, Statement, Write, WriteFails
<1>8. CASE EnrollDuplicate(r)
  BY <1>8 DEF EnrollDuplicate, ExecRollback, Rollback
<1>9. CASE EnrollMark(r)
  <2> DEFINE T == {req[r].token} \intersect live.tokens
             image == [live EXCEPT !.consumed = @ \union T]
  <2>1. Image(image) /\ image.audit = live.audit /\ (Referential(live) => Referential(image))
    BY ImageConsume
  <2>2. Cardinality(T) \in {0, 1}
    BY OneRow
  <2>3. ConnStep
    BY <1>9, <2>1, <2>2 DEF EnrollMark, Statement, HandlerWrite
  <2> QED BY <1>9, <2>3 DEF EnrollMark, Statement, Write, WriteFails
<1>10. CASE EnrollChanges(r)
  BY <1>10 DEF EnrollChanges
<1>11. CASE EnrollNotMarked(r)
  BY <1>11 DEF EnrollNotMarked, ExecRollback, Rollback
<1>12. CASE EnrollCommit(r)
  BY <1>12 DEF EnrollCommit, ExecCommit, Commit
<1>13. CASE EnrollAudit(r)
  BY <1>13 DEF EnrollAudit, CallAudit, Calls, Events
<1>14. CASE EnrollCatch(r)
  BY <1>14 DEF EnrollCatch, CatchRollback, Rollback
<1> QED BY <1>1, <1>2, <1>3, <1>4, <1>5, <1>6, <1>7, <1>8, <1>9, <1>10, <1>11, <1>12, <1>13, <1>14 DEF EnrollStep

LEMMA LoginFrame ==
  ASSUME TypeOK, NEW r \in Requests, LoginStep(r)
  PROVE  HandlerStep(r)
<1> USE DEF TypeOK, HandlerStep, OnItsRoute, Goto, handlerVars, ConnStep, connVars,
            Labels, EnrollSteps, LoginSteps, LogoutSteps, WhoamiSteps, AuditLabels,
            HoldsMu, AudTxnLabels, ReturnLabels, Statuses, TxnLabels, EnrollTxn, WhoamiTxn
<1>1. CASE LoginRate(r)
  BY <1>1 DEF LoginRate, CallAudit, Calls, Events
<1>2. CASE LoginSelect(r)
  BY <1>2 DEF LoginSelect, CallAudit, Calls, Events
<1>3. CASE LoginMint(r)
  <2> DEFINE image == AddSession(live, r, NewSession(r))
  <2>1. CASE WriteOK /\ req[r].email \in live.users
    <3>1. NewSession(r) \in [user : Emails, expires : Nat, seen : Nat]
      BY <1>3, RouteInputs, AuthAssumption DEF LoginMint, NewSession
    <3>2. NewSession(r).user \in live.users
      BY <2>1 DEF NewSession
    <3>3. Image(image) /\ image.audit = live.audit /\ (Referential(live) => Referential(image))
      BY <3>1, <3>2, ImageMint DEF SessionIds
    <3>4. ConnStep
      BY <1>3, <2>1, <3>3 DEF LoginMint, Statement, HandlerWrite
    <3> QED BY <1>3, <2>1, <3>4 DEF LoginMint, Statement, Write
  <2>2. CASE ~(WriteOK /\ req[r].email \in live.users)
    BY <1>3, <2>2 DEF LoginMint, Statement, WriteFails
  <2> QED BY <2>1, <2>2
<1>4. CASE LoginAudit(r)
  BY <1>4 DEF LoginAudit, CallAudit, Calls, Events
<1>5. CASE LoginCreated(r)
  BY <1>5 DEF LoginCreated, CallAudit, Calls, Events
<1> QED BY <1>1, <1>2, <1>3, <1>4, <1>5 DEF LoginStep

LEMMA LogoutFrame ==
  ASSUME TypeOK, NEW r \in Requests, LogoutStep(r)
  PROVE  HandlerStep(r)
<1> USE DEF TypeOK, HandlerStep, OnItsRoute, Goto, handlerVars, ConnStep, connVars,
            Labels, EnrollSteps, LoginSteps, LogoutSteps, WhoamiSteps, AuditLabels,
            HoldsMu, AudTxnLabels, ReturnLabels, Statuses, TxnLabels, EnrollTxn, WhoamiTxn
<1>1. CASE LogoutUpdate(r)
  <2> DEFINE hit == {req[r].session} \intersect DOMAIN live.sessions
             image == [live EXCEPT !.revoked = @ \union hit]
  <2>1. Image(image) /\ image.audit = live.audit /\ (Referential(live) => Referential(image))
    BY ImageRevoke
  <2>2. Cardinality(hit) \in {0, 1}
    BY OneRow
  <2>3. ConnStep
    BY <1>1, <2>1, <2>2 DEF LogoutUpdate, Statement, HandlerWrite
  <2> QED BY <1>1, <2>3 DEF LogoutUpdate, Statement, Write, WriteFails
<1>2. CASE LogoutChanges(r)
  BY <1>2 DEF LogoutChanges
<1>3. CASE LogoutAudit(r)
  BY <1>3 DEF LogoutAudit, CallAudit, Calls, Events
<1> QED BY <1>1, <1>2, <1>3 DEF LogoutStep

LEMMA WhoamiFrame ==
  ASSUME TypeOK, NEW r \in Requests, WhoamiStep(r)
  PROVE  HandlerStep(r)
<1> USE DEF TypeOK, HandlerStep, OnItsRoute, Goto, handlerVars, ConnStep, connVars,
            Labels, EnrollSteps, LoginSteps, LogoutSteps, WhoamiSteps, AuditLabels,
            HoldsMu, AudTxnLabels, ReturnLabels, Statuses, TxnLabels, EnrollTxn, WhoamiTxn
<1>1. CASE WhoamiBegin(r)
  BY <1>1 DEF WhoamiBegin, ExecBegin
<1>2. CASE WhoamiSelect(r)
  BY <1>2 DEF WhoamiSelect
<1>3. CASE WhoamiReject(r)
  BY <1>3 DEF WhoamiReject, ExecRollback, Rollback
<1>4. CASE WhoamiRefused(r)
  BY <1>4 DEF WhoamiRefused, CallAudit, Calls, Events
<1>5. CASE WhoamiTouch(r)
  <2> DEFINE sid == req[r].session
             hit == {sid} \intersect DOMAIN live.sessions
             image == IF hit = {} THEN live ELSE [live EXCEPT !.sessions[sid].seen = at[r]]
  <2>1. Image(image) /\ image.audit = live.audit /\ (Referential(live) => Referential(image))
    BY ImageTouch
  <2>2. Cardinality(hit) \in {0, 1}
    BY OneRow
  <2>3. ConnStep
    BY <1>5, <2>1, <2>2 DEF WhoamiTouch, Statement, HandlerWrite
  <2> QED BY <1>5, <2>3 DEF WhoamiTouch, Statement, Write, WriteFails
<1>6. CASE WhoamiCommit(r)
  BY <1>6 DEF WhoamiCommit, ExecCommit, Commit
<1>7. CASE WhoamiAudit(r)
  BY <1>7 DEF WhoamiAudit, CallAudit, Calls, Events
<1>8. CASE WhoamiCatch(r)
  BY <1>8 DEF WhoamiCatch, CatchRollback, Rollback
<1> QED BY <1>1, <1>2, <1>3, <1>4, <1>5, <1>6, <1>7, <1>8 DEF WhoamiStep

\* So a step of a handler keeps the type of the connection, mu_ and the head
\* another request has read, and ends the transaction it leaves.
LEMMA HandlerFrame ==
  ASSUME TypeOK, NEW r \in Requests,
         EnrollStep(r) \/ LoginStep(r) \/ LogoutStep(r) \/ WhoamiStep(r)
  PROVE  HandlerStep(r)
BY EnrollFrame, LoginFrame, LogoutFrame, WhoamiFrame

-----------------------------------------------------------------------------
(* Types                                                                    *)

ConnType ==
  /\ inTxn \in BOOLEAN
  /\ Image(live) /\ Image(disk)
  /\ changes \in {0, 1}

LEMMA ConnStepTypes ==
  ASSUME ConnType, ConnStep
  PROVE  ConnType'
BY DEF ConnType, ConnStep, connVars, Begin, Commit, Rollback, WriteFails, HandlerWrite, Write

\* Moving one request keeps the place of the others.
PlaceOK(r) == OnItsRoute(r) /\ (pc[r] \in AuditLabels => call[r] \in Calls)

LEMMA OthersStay ==
  ASSUME TypeOK, NEW r \in Requests, NEW q \in Requests \ {r},
         UNCHANGED req, pc'[q] = pc[q], call'[q] = call[q]
  PROVE  PlaceOK(q)'
BY DEF TypeOK, PlaceOK, OnItsRoute

LEMMA TypeInit == Init => TypeOK
<1> USE DEF Labels, EnrollSteps, LoginSteps, LogoutSteps, WhoamiSteps, AuditLabels,
            HoldsMu, AudTxnLabels, ReturnLabels, Statuses, EnrollTxn, WhoamiTxn
<1> SUFFICES ASSUME Init PROVE TypeOK
  OBVIOUS
<1>1. Image(SeedImage)
  BY AuthAssumption DEF Image, SeedImage, SessionIds
<1>2. \A r \in Requests : PlaceOK(r)
  BY DEF Init, PlaceOK, OnItsRoute
<1> QED BY <1>1, <1>2 DEF Init, ConnInit, TypeOK, FileLocks, PlaceOK

LEMMA HandlerTypes ==
  ASSUME TypeOK, NEW r \in Requests, HandlerStep(r), UNCHANGED worldVars
  PROVE  TypeOK'
<1> USE DEF Labels, EnrollSteps, LoginSteps, LogoutSteps, WhoamiSteps, AuditLabels,
            HoldsMu, AudTxnLabels, ReturnLabels, Statuses, EnrollTxn, WhoamiTxn
<1>1. ConnType'
  BY ConnStepTypes DEF ConnType, TypeOK, HandlerStep
<1>2. pc' \in [Requests -> Labels]
  BY DEF TypeOK, HandlerStep, Goto
<1>3. call' \in [Requests -> Calls \union {NoCall}]
  BY DEF TypeOK, HandlerStep
<1>4. ASSUME NEW q \in Requests PROVE PlaceOK(q)'
  <2>1. CASE q = r
    BY <2>1 DEF TypeOK, PlaceOK, HandlerStep, Goto
  <2>2. CASE q # r
    <3>1. pc'[q] = pc[q] /\ call'[q] = call[q]
      BY <2>2 DEF TypeOK, HandlerStep, Goto
    <3> QED BY <2>2, <3>1, OthersStay DEF HandlerStep
  <2> QED BY <2>1, <2>2
<1> QED BY <1>1, <1>2, <1>3, <1>4 DEF TypeOK, ConnType, PlaceOK, HandlerStep, worldVars

\* What a step of record() does to the request that takes it.
AuditMove(r) ==
  /\ UNCHANGED <<req, at>>
  /\ DOMAIN head' = Requests
  /\ mu' \in Requests \union {NoOne}
  /\ \/ /\ call' = call
        /\ \E label \in AuditLabels : Goto(r, label)
     \/ /\ call' = [call EXCEPT ![r] = NoCall]
        /\ \E label \in ReturnLabels : Goto(r, label)

\* The row that append_locked inserts keeps the image an image.
LEMMA ImageRecord ==
  ASSUME NEW i, Image(i), NEW seq, NEW evt \in Events, NEW prev
  PROVE  LET j == [i EXCEPT !.audit = AddRow(i.audit, seq, Row(seq, evt, prev))]
         IN  /\ Image(j)
             /\ j.audit = AddRow(i.audit, seq, Row(seq, evt, prev))
             /\ Referential(i) => Referential(j)
BY DEF Image, AddRow, Row, Referential

LEMMA InsertRowTypes ==
  ASSUME TypeOK, NEW r \in Requests, pc[r] = "aud_insert", NEW seq, InsertRow(r, seq)
  PROVE  ConnType'
<1>1. call[r].evt \in Events
  BY DEF TypeOK, AuditLabels, HoldsMu, AudTxnLabels, Calls
<1>2. Image([live EXCEPT !.audit = AddRow(live.audit, seq, Row(seq, call[r].evt, head[r].hash))])
  BY <1>1, ImageRecord DEF TypeOK
<1> QED BY <1>2 DEF InsertRow, Write, ConnType, TypeOK

LEMMA AuditTypes ==
  ASSUME TypeOK, NEW r \in Requests, AuditStep(r), UNCHANGED handlerVars, UNCHANGED worldVars
  PROVE  TypeOK'
<1>1. pc[r] \in AuditLabels /\ call[r] \in Calls
  BY DEF TypeOK, AuditStep, AudLock, AudBegin, AudRead, AudInsert, AudCommit, AudRollback,
         AuditLabels, HoldsMu, AudTxnLabels
<1>2. call[r].ok \in ReturnLabels /\ call[r].fail \in ReturnLabels
  BY <1>1 DEF Calls
<1>3. ConnType' /\ AuditMove(r)
  <2> USE DEF TypeOK, AuditMove, AuditLabels, HoldsMu, AudTxnLabels, Leave, handlerVars
  <2>1. CASE AudLock(r)
    BY <2>1 DEF AudLock, ConnType, connVars
  <2>2. CASE AudBegin(r)
    BY <1>2, <2>2, ConnStepTypes DEF AudBegin, ConnType, ConnStep, connVars
  <2>3. CASE AudRead(r)
    BY <2>3 DEF AudRead, ConnType, connVars
  <2>4. CASE AudInsert(r)
    <3>1. CASE WriteOK /\ head[r].seq + 1 \notin DOMAIN live.audit
      BY <2>4, <3>1, InsertRowTypes DEF AudInsert
    <3>2. CASE ~(WriteOK /\ head[r].seq + 1 \notin DOMAIN live.audit)
      BY <2>4, <3>2, ConnStepTypes DEF AudInsert, ConnStep, ConnType
    <3> QED BY <3>1, <3>2
  <2>5. CASE AudCommit(r)
    BY <1>2, <2>5, ConnStepTypes DEF AudCommit, ConnType, ConnStep, connVars
  <2>6. CASE AudRollback(r)
    BY <1>2, <2>6, ConnStepTypes DEF AudRollback, ConnType, ConnStep
  <2> QED BY <2>1, <2>2, <2>3, <2>4, <2>5, <2>6 DEF AuditStep
<1>4. pc' \in [Requests -> Labels] /\ call' \in [Requests -> Calls \union {NoCall}]
  BY <1>3 DEF TypeOK, AuditMove, Goto, Labels
<1>5. ASSUME NEW q \in Requests PROVE PlaceOK(q)'
  <2>1. CASE q = r
    <3>1. \/ pc'[r] \in AuditLabels /\ call'[r] = call[r]
          \/ pc'[r] \in ReturnLabels
      BY <1>3 DEF TypeOK, AuditMove, Goto
    <3>2. \A label \in AuditLabels \union ReturnLabels :
            label \notin EnrollSteps \union LoginSteps \union LogoutSteps \union WhoamiSteps
      BY DEF AuditLabels, HoldsMu, AudTxnLabels, ReturnLabels, Statuses, EnrollSteps,
             EnrollTxn, LoginSteps, LogoutSteps, WhoamiSteps, WhoamiTxn
    <3>3. \A label \in ReturnLabels : label \notin AuditLabels
      BY DEF AuditLabels, HoldsMu, AudTxnLabels, ReturnLabels, Statuses
    <3> QED BY <1>1, <2>1, <3>1, <3>2, <3>3 DEF PlaceOK, OnItsRoute
  <2>2. CASE q # r
    <3>1. pc'[q] = pc[q] /\ call'[q] = call[q]
      BY <1>3, <2>2 DEF TypeOK, AuditMove, Goto
    <3> QED BY <1>3, <2>2, <3>1, OthersStay DEF AuditMove
  <2> QED BY <2>1, <2>2
<1> QED BY <1>3, <1>4, <1>5 DEF TypeOK, ConnType, PlaceOK, AuditMove, worldVars

LEMMA ArriveTypes ==
  ASSUME TypeOK, NEW r \in Requests, Arrive(r), UNCHANGED worldVars
  PROVE  TypeOK'
<1> USE DEF Labels, EnrollSteps, LoginSteps, LogoutSteps, WhoamiSteps, AuditLabels,
            HoldsMu, AudTxnLabels, ReturnLabels, Statuses, EnrollTxn, WhoamiTxn
<1> PICK i \in Inputs : req' = [req EXCEPT ![r] = i] /\ Goto(r, FirstLabel(i))
  BY DEF Arrive
<1>1. FirstLabel(i) \in {"e_begin", "l_rate", "o_update", "w_begin"}
      /\ (FirstLabel(i) = "e_begin" => i.kind = "enroll")
      /\ (FirstLabel(i) = "l_rate" => i.kind = "login")
      /\ (FirstLabel(i) = "o_update" => i.kind = "logout")
      /\ (FirstLabel(i) = "w_begin" => i.kind = "whoami")
  BY InputsAssumption DEF FirstLabel
<1>2. pc' \in [Requests -> Labels]
  BY <1>1 DEF TypeOK, Goto
<1>3. ASSUME NEW q \in Requests PROVE PlaceOK(q)'
  <2>1. pc'[q] = (IF q = r THEN FirstLabel(i) ELSE pc[q])
        /\ req'[q] = (IF q = r THEN i ELSE req[q]) /\ call' = call
    BY DEF TypeOK, Goto, Arrive
  <2> QED BY <1>1, <2>1 DEF TypeOK, PlaceOK, OnItsRoute
<1> QED BY <1>2, <1>3 DEF TypeOK, PlaceOK, Arrive, connVars, worldVars

LEMMA WorldTypes ==
  ASSUME TypeOK, World
  PROVE  TypeOK'
<1>1. CASE Crash
  <2>1. ConnType'
    BY <1>1 DEF TypeOK, Crash, ConnCrash, ConnType
  <2>2. pc' \in [Requests -> Labels]
    BY <1>1 DEF TypeOK, Crash, Labels
  <2>3. ASSUME NEW r \in Requests PROVE PlaceOK(r)'
    <3>1. pc'[r] = "lost" \/ pc'[r] \in Answered \union {"new"}
      BY <1>1 DEF Crash, InFlight
    <3>2. req' = req
      BY <1>1 DEF Crash, handlerVars
    <3> QED BY <3>1, <3>2 DEF PlaceOK, OnItsRoute, Answered, Statuses, EnrollSteps, EnrollTxn,
                    LoginSteps, LogoutSteps, WhoamiSteps, WhoamiTxn, AuditLabels, HoldsMu, AudTxnLabels
  <2> QED BY <1>1, <2>1, <2>2, <2>3 DEF TypeOK, ConnType, PlaceOK, Crash, handlerVars
<1>2. CASE CliPersist
  <2>1. ASSUME NEW i, Image(i), NEW tok \in Tokens
        PROVE  Image([i EXCEPT !.tokens = @ \union {tok}])
    BY <2>1 DEF Image
  <2>2. Image(live)' /\ Image(disk)'
    BY <1>2, <2>1 DEF CliPersist, TypeOK
  <2> QED BY <1>2, <2>2 DEF CliPersist, TypeOK, auditVars, handlerVars, OnItsRoute, FileLocks
<1>3. CASE CliRead \/ CliReadDone \/ CliReserve \/ Tick
  BY <1>3 DEF CliRead, CliReadDone, CliReserve, Tick, TypeOK, OnItsRoute,
              connVars, auditVars, handlerVars, FileLocks
<1> QED BY <1>1, <1>2, <1>3 DEF World

LEMMA TypeNext == TypeOK /\ [Next]_vars => TypeOK'
<1> SUFFICES ASSUME TypeOK, [Next]_vars PROVE TypeOK'
  OBVIOUS
<1>1. ASSUME NEW r \in Requests, Arrive(r), UNCHANGED worldVars PROVE TypeOK'
  BY <1>1, ArriveTypes
<1>2. ASSUME NEW r \in Requests, Handle(r), UNCHANGED worldVars PROVE TypeOK'
  BY <1>2, AuditTypes, HandlerTypes, HandlerFrame DEF Handle
<1>3. CASE World
  BY <1>3, WorldTypes
<1>4. CASE UNCHANGED vars
  BY <1>4 DEF vars, connVars, auditVars, TypeOK, OnItsRoute
<1> QED BY <1>1, <1>2, <1>3, <1>4 DEF Next, Idle

\* Every variable keeps its type, and every request stays on its route.
THEOREM TypeCorrect == Spec => []TypeOK
BY TypeInit, TypeNext, PTL DEF Spec

-----------------------------------------------------------------------------
(* The audit chain                                                          *)

\* mu_ admits one request to append_locked.
LEMMA OneInside ==
  ASSUME AuditInv, NEW r \in Requests, pc[r] \in HoldsMu, NEW q \in Requests \ {r}
  PROVE  pc[q] \notin HoldsMu
BY DEF AuditInv

LEMMA AuditInit == Init => AuditInv
<1> SUFFICES ASSUME Init PROVE AuditInv
  OBVIOUS
<1>1. live = SeedImage /\ disk = SeedImage /\ SeedImage.audit = <<>>
  BY DEF Init, ConnInit, SeedImage
<1>2. DOMAIN SeedImage.audit = {} /\ HeadOf(SeedImage.audit) = NoHead
  BY <1>1 DEF HeadOf
<1>3. AuditLinear /\ AtMostOneRowAhead
  BY <1>1, <1>2 DEF AuditLinear, ChainLinear, AtMostOneRowAhead, NoHead
<1> QED BY <1>1, <1>3, RequestsAssumption DEF AuditInv, Init, HoldsMu, AudTxnLabels

\* The parts of AuditInv that only speak of the connection.
Tables ==
  /\ AuditLinear
  /\ AtMostOneRowAhead
  /\ ~inTxn => live = disk

\* COMMIT and ROLLBACK, whoever calls them, leave one table, and a chain.
LEMMA TablesMeet ==
  ASSUME Tables, live' = disk', disk' \in {live, disk}
  PROVE  Tables'
<1>1. ChainLinear(disk.audit) /\ ChainLinear(live.audit)
  BY DEF Tables, AuditLinear
<1>2. ChainLinear(disk'.audit) /\ live'.audit = disk'.audit
  BY <1>1
<1>3. AuditLinear'
  BY <1>2 DEF AuditLinear
<1>4. AtMostOneRowAhead'
  BY <1>2 DEF AtMostOneRowAhead, ChainLinear
<1> QED BY <1>3, <1>4 DEF Tables

LEMMA TablesKept ==
  ASSUME Tables, live'.audit = live.audit, disk'.audit = disk.audit, (~inTxn => live = disk)'
  PROVE  Tables'
BY DEF Tables, AuditLinear, AtMostOneRowAhead

LEMMA ConnStepTables ==
  ASSUME Tables, ConnStep
  PROVE  /\ Tables'
         /\ live.audit = disk.audit => live'.audit = live.audit /\ disk'.audit = disk.audit
<1>1. CASE UNCHANGED connVars \/ (BeginOK /\ Begin) \/ WriteFails
  BY <1>1, TablesKept DEF connVars, Begin, WriteFails, Tables
<1>2. CASE CommitOK /\ Commit
  BY <1>2, TablesMeet DEF Commit
<1>3. CASE Rollback
  BY <1>3, TablesMeet DEF Rollback
<1>4. ASSUME NEW image, NEW rows, HandlerWrite(image, rows)
      PROVE  Tables' /\ live'.audit = live.audit /\ disk'.audit = disk.audit
  <2>1. live'.audit = live.audit /\ disk'.audit = disk.audit
    BY <1>4 DEF HandlerWrite, Write, Tables
  <2>2. (~inTxn => live = disk)'
    BY <1>4 DEF HandlerWrite, Write
  <2> QED BY <2>1, <2>2, TablesKept
<1> QED BY <1>1, <1>2, <1>3, <1>4 DEF ConnStep, Commit, Rollback

LEMMA HandlerAudit ==
  ASSUME TypeOK, AuditInv, NEW r \in Requests, HandlerStep(r)
  PROVE  AuditInv'
<1> USE DEF HoldsMu, AudTxnLabels
<1>1. Tables /\ ConnStep
  BY DEF AuditInv, Tables, HandlerStep
<1>2. Tables'
  BY <1>1, ConnStepTables
<1>3. /\ pc[r] \notin HoldsMu /\ pc'[r] \notin HoldsMu
      /\ \A q \in Requests \ {r} : pc'[q] = pc[q]
      /\ UNCHANGED <<mu, head>>
  BY DEF HandlerStep, Goto, TypeOK, AuditLabels
<1>4. (\A q \in Requests : mu = q <=> pc[q] \in HoldsMu)'
  BY <1>3 DEF AuditInv
<1>5. (live.audit = disk.audit \/ \E q \in Requests : pc[q] \in {"aud_commit", "aud_rollback"})'
  <2>1. CASE live.audit = disk.audit
    BY <1>1, <2>1, ConnStepTables
  <2>2. CASE \E q \in Requests : pc[q] \in {"aud_commit", "aud_rollback"}
    BY <1>3, <2>2
  <2> QED BY <2>1, <2>2 DEF AuditInv
<1>6. ASSUME NEW q \in Requests, pc'[q] = "aud_insert"
      PROVE  head'[q] \in {HeadOf(live'.audit), NoHead}
  <2>1. pc[q] = "aud_insert" /\ q # r
    BY <1>3, <1>6
  <2>2. live.audit = disk.audit
    BY <2>1, OneInside DEF AuditInv
  <2>3. live'.audit = live.audit
    BY <1>1, <2>2, ConnStepTables
  <2> QED BY <1>3, <2>1, <2>3 DEF AuditInv
<1> QED BY <1>2, <1>4, <1>5, <1>6 DEF AuditInv, Tables

\* A step of record() that opens or closes nothing but the chain's own rows.
LEMMA InsideAudit ==
  ASSUME TypeOK, AuditInv, NEW r \in Requests, pc[r] \in HoldsMu,
         NEW label \in Labels, Goto(r, label), Tables',
         \/ label \in HoldsMu /\ mu' = mu
         \/ label \notin HoldsMu /\ mu' = NoOne,
         \/ live'.audit = disk'.audit
         \/ label \in {"aud_commit", "aud_rollback"},
         label = "aud_insert" => head'[r] \in {HeadOf(live'.audit), NoHead}
  PROVE  AuditInv'
<1>1. \A q \in Requests : pc'[q] = IF q = r THEN label ELSE pc[q]
  BY DEF TypeOK, Goto
<1>2. \A q \in Requests \ {r} : pc[q] \notin HoldsMu
  BY OneInside
<1>3. (\A q \in Requests : mu = q <=> pc[q] \in HoldsMu)'
  BY <1>1, <1>2, RequestsAssumption DEF AuditInv
<1>4. \A q \in Requests : pc'[q] = "aud_insert" => q = r /\ label = "aud_insert"
  BY <1>1, <1>2 DEF HoldsMu, AudTxnLabels
<1> QED BY <1>1, <1>3, <1>4 DEF AuditInv, Tables

LEMMA AuditAudit ==
  ASSUME TypeOK, AuditInv, NEW r \in Requests, AuditStep(r)
  PROVE  AuditInv'
<1> USE DEF HoldsMu, AudTxnLabels, AuditLabels, Labels, ReturnLabels, Statuses
<1> DEFINE n == HeadOf(disk.audit).seq
<1>1. live.audit = disk.audit \/ pc[r] \in {"aud_lock", "aud_commit", "aud_rollback"}
  BY OneInside DEF AuditInv, AuditStep, AudBegin, AudRead, AudInsert, AudCommit,
                   AudRollback, AudLock
<1>2. pc[r] \in AuditLabels => call[r].ok \in ReturnLabels /\ call[r].fail \in ReturnLabels
  BY DEF TypeOK, Calls
<1>3. Tables
  BY DEF AuditInv, Tables
<1>4. CASE AudLock(r)
  <2>1. /\ pc[r] = "aud_lock" /\ Goto(r, "aud_begin")
        /\ mu = NoOne /\ mu' = r
        /\ UNCHANGED <<connVars, head>>
    BY <1>4 DEF AudLock
  <2>2. \A q \in Requests : pc[q] \notin HoldsMu
    BY <2>1, RequestsAssumption DEF AuditInv
  <2>3. \A q \in Requests : pc'[q] = IF q = r THEN "aud_begin" ELSE pc[q]
    BY <2>1 DEF TypeOK, Goto
  <2>4. (\A q \in Requests : mu = q <=> pc[q] \in HoldsMu)'
    BY <2>1, <2>2, <2>3
  <2>5. Tables'
    BY <1>3, <2>1, TablesKept DEF connVars, Tables
  <2>6. live'.audit = disk'.audit
    BY <2>1, <2>2 DEF connVars, AuditInv
  <2>7. \A q \in Requests : pc'[q] # "aud_insert"
    BY <2>2, <2>3
  <2> QED BY <2>4, <2>5, <2>6, <2>7 DEF AuditInv, Tables
<1>5. CASE AudBegin(r)
  <2>1. live.audit = disk.audit /\ pc[r] \in HoldsMu
    BY <1>1, <1>5 DEF AudBegin
  <2>2. Tables'
    BY <1>3, <1>5, ConnStepTables DEF AudBegin, ConnStep
  <2>3. live' = live /\ disk' = disk
    BY <1>5 DEF AudBegin, Begin, connVars
  <2>4. CASE BeginOK
    <3>1. Goto(r, "aud_read") /\ mu' = mu
      BY <1>5, <2>4 DEF AudBegin
    <3> QED BY <2>1, <2>2, <2>3, <3>1, InsideAudit
  <2>5. CASE ~BeginOK
    <3>1. Goto(r, call[r].fail) /\ mu' = NoOne
      BY <1>5, <2>5 DEF AudBegin, Leave
    <3>2. call[r].fail \in Labels \ HoldsMu
      BY <1>2, <2>1
    <3> QED BY <2>1, <2>2, <2>3, <3>1, <3>2, InsideAudit
  <2> QED BY <2>4, <2>5
<1>6. CASE AudRead(r)
  <2>1. live.audit = disk.audit /\ pc[r] \in HoldsMu
    BY <1>1, <1>6 DEF AudRead
  <2>2. UNCHANGED connVars /\ Goto(r, "aud_insert") /\ mu' = mu
    BY <1>6 DEF AudRead
  <2>3. Tables'
    BY <1>3, <2>2, TablesKept DEF connVars, Tables
  <2>4. head'[r] \in {HeadOf(live'.audit), NoHead}
    BY <1>6, <2>2 DEF AudRead, connVars, TypeOK
  <2> QED BY <2>1, <2>2, <2>3, <2>4, InsideAudit DEF connVars
<1>7. CASE AudInsert(r)
  <2> DEFINE seq == head[r].seq + 1
             row == Row(seq, call[r].evt, head[r].hash)
  <2>1. live.audit = disk.audit /\ pc[r] \in HoldsMu /\ mu' = mu
    BY <1>1, <1>7 DEF AudInsert
  <2>2. CASE WriteOK /\ seq \notin DOMAIN live.audit
    <3>1. InsertRow(r, seq) /\ Goto(r, "aud_commit")
      BY <1>7, <2>2 DEF AudInsert
    <3>2. live'.audit = AddRow(live.audit, seq, row)
          /\ inTxn' = inTxn
          /\ disk' = IF inTxn THEN disk ELSE live'
      <4>1. DOMAIN live = {"users", "tokens", "consumed", "sessions", "revoked", "audit"}
        BY DEF TypeOK, Image
      <4> QED BY <3>1, <4>1 DEF InsertRow, Write
    <3>3. ChainLinear(live.audit) /\ head[r] \in {HeadOf(live.audit), NoHead}
      BY <1>7 DEF AuditInv, AuditLinear, AudInsert
    <3>4. /\ ChainLinear(live'.audit)
          /\ DOMAIN live'.audit = 1 .. n + 1 /\ HeadOf(live'.audit).seq = n + 1
          /\ \A s \in 1 .. n : live'.audit[s] = disk.audit[s]
      BY <2>1, <2>2, <3>2, <3>3, ExtendChain
    <3>5. AuditLinear'
      BY <3>2, <3>4 DEF AuditInv, AuditLinear
    <3>6. AtMostOneRowAhead'
      BY <3>2, <3>4 DEF AtMostOneRowAhead
    <3>7. Tables'
      BY <3>2, <3>5, <3>6 DEF Tables
    <3> QED BY <2>1, <3>1, <3>7, InsideAudit
  <2>3. CASE ~(WriteOK /\ seq \notin DOMAIN live.audit)
    <3>1. WriteFails /\ Goto(r, "aud_rollback")
      BY <1>7, <2>3 DEF AudInsert
    <3>2. Tables'
      BY <1>3, <3>1, ConnStepTables DEF ConnStep
    <3> QED BY <2>1, <3>1, <3>2, InsideAudit
  <2> QED BY <2>2, <2>3
<1>8. CASE AudCommit(r)
  <2>1. pc[r] \in HoldsMu
    BY <1>8 DEF AudCommit
  <2>2. Tables'
    BY <1>3, <1>8, ConnStepTables DEF AudCommit, ConnStep
  <2>3. CASE CommitOK
    <3>1. Goto(r, call[r].ok) /\ mu' = NoOne /\ live' = disk'
      BY <1>8, <2>3 DEF AudCommit, Commit, Leave
    <3>2. call[r].ok \in Labels \ HoldsMu
      BY <1>2, <2>1
    <3> QED BY <2>1, <2>2, <3>1, <3>2, InsideAudit
  <2>4. CASE ~CommitOK
    <3>1. Goto(r, "aud_rollback") /\ mu' = mu
      BY <1>8, <2>4 DEF AudCommit
    <3> QED BY <2>1, <2>2, <3>1, InsideAudit
  <2> QED BY <2>3, <2>4
<1>9. CASE AudRollback(r)
  <2>1. pc[r] \in HoldsMu /\ Goto(r, call[r].fail) /\ mu' = NoOne /\ live' = disk'
    BY <1>9 DEF AudRollback, Rollback, Leave
  <2>2. Tables'
    BY <1>3, <1>9, ConnStepTables DEF AudRollback, ConnStep
  <2>3. call[r].fail \in Labels \ HoldsMu
    BY <1>2, <2>1
  <2> QED BY <2>1, <2>2, <2>3, InsideAudit
<1> QED BY <1>4, <1>5, <1>6, <1>7, <1>8, <1>9 DEF AuditStep

LEMMA ArriveAudit ==
  ASSUME TypeOK, AuditInv, NEW r \in Requests, Arrive(r)
  PROVE  AuditInv'
<1> PICK i \in Inputs : Goto(r, FirstLabel(i))
  BY DEF Arrive
<1>1. FirstLabel(i) \notin HoldsMu
  BY InputsAssumption DEF FirstLabel, HoldsMu, AudTxnLabels
<1>2. \A q \in Requests : pc'[q] = IF q = r THEN FirstLabel(i) ELSE pc[q]
  BY DEF TypeOK, Goto
<1>3. pc[r] = "new" /\ UNCHANGED <<connVars, mu, head>>
  BY DEF Arrive
<1>4. Tables'
  BY <1>3, TablesKept DEF AuditInv, Tables, connVars
<1> QED BY <1>1, <1>2, <1>3, <1>4 DEF AuditInv, Tables, connVars, HoldsMu, AudTxnLabels

LEMMA WorldAudit ==
  ASSUME TypeOK, AuditInv, World
  PROVE  AuditInv'
<1>1. Tables
  BY DEF AuditInv, Tables
<1>2. CASE Crash
  <2>1. live' = disk' /\ disk' = disk /\ mu' = NoOne
    BY <1>2 DEF Crash, ConnCrash
  <2>2. \A r \in Requests : pc'[r] \notin HoldsMu
    BY <1>2 DEF Crash, InFlight, Answered, Statuses, HoldsMu, AudTxnLabels
  <2>3. Tables'
    BY <1>1, <2>1, TablesMeet
  <2>4. (\A r \in Requests : mu = r <=> pc[r] \in HoldsMu)'
    BY <2>1, <2>2, RequestsAssumption
  <2> QED BY <2>1, <2>2, <2>3, <2>4 DEF AuditInv, Tables, HoldsMu, AudTxnLabels
<1>3. CASE CliPersist
  <2>1. live'.audit = live.audit /\ disk'.audit = disk.audit
    BY <1>3 DEF CliPersist, TypeOK, Image
  <2>2. (~inTxn => live = disk)'
    BY <1>3 DEF CliPersist, AuditInv
  <2>3. Tables'
    BY <1>1, <2>1, <2>2, TablesKept
  <2> QED BY <1>3, <2>1, <2>3 DEF AuditInv, Tables, CliPersist, auditVars
<1>4. CASE CliRead \/ CliReadDone \/ CliReserve \/ Tick
  <2>1. UNCHANGED <<connVars, pc, mu, head>>
    BY <1>4 DEF CliRead, CliReadDone, CliReserve, Tick, auditVars
  <2>2. Tables'
    BY <1>1, <2>1, TablesKept DEF connVars, Tables
  <2> QED BY <2>1, <2>2 DEF AuditInv, Tables, connVars
<1> QED BY <1>2, <1>3, <1>4 DEF World

LEMMA AuditNext == TypeOK /\ AuditInv /\ [Next]_vars => AuditInv'
<1> SUFFICES ASSUME TypeOK, AuditInv, [Next]_vars PROVE AuditInv'
  OBVIOUS
<1>1. ASSUME NEW r \in Requests, Arrive(r) PROVE AuditInv'
  BY <1>1, ArriveAudit
<1>2. ASSUME NEW r \in Requests, Handle(r) PROVE AuditInv'
  BY <1>2, AuditAudit, HandlerAudit, HandlerFrame DEF Handle
<1>3. CASE World
  BY <1>3, WorldAudit
<1>4. CASE UNCHANGED vars
  <2>1. Tables'
    BY <1>4, TablesKept DEF vars, connVars, AuditInv, Tables
  <2> QED BY <1>4, <2>1 DEF vars, connVars, auditVars, AuditInv, Tables
<1> QED BY <1>1, <1>2, <1>3, <1>4 DEF Next, Idle

\* The strengthened invariant of record(): whatever the handlers do on the
\* shared connection, the head a request links its row to is the present one.
THEOREM AuditInvariant == Spec => []AuditInv
BY TypeCorrect, AuditInit, AuditNext, PTL DEF Spec

\* The audit table replays in every reachable state, on disk and on the
\* connection.
THEOREM AuditChainLinear == Spec => []AuditLinear
<1>1. AuditInv => AuditLinear
  BY DEF AuditInv
<1> QED BY <1>1, AuditInvariant, PTL

-----------------------------------------------------------------------------
(* The audit table implements AuditChain                                    *)

LogOf(table) == [s \in DOMAIN table |-> table[s].evt]

LEMMA LogGrows ==
  ASSUME NEW old, NEW new, NEW n \in Nat,
         DOMAIN old = 1 .. n, DOMAIN new \in {1 .. n, 1 .. n + 1},
         \A s \in 1 .. n : new[s] = old[s],
         \A s \in DOMAIN old : old[s].evt \in Events,
         \A s \in DOMAIN new : new[s].evt \in Events
  PROVE  \/ LogOf(new) = LogOf(old)
         \/ \E e \in Events : LogOf(new) = Append(LogOf(old), e)
<1>1. CASE DOMAIN new = 1 .. n
  BY <1>1 DEF LogOf
<1>2. CASE DOMAIN new = 1 .. n + 1
  <2> DEFINE e == new[n + 1].evt
  <2>1. LogOf(old) \in Seq(Events) /\ Len(LogOf(old)) = n
    BY DEF LogOf
  <2>2. n + 1 \in DOMAIN new
    BY <1>2
  <2>3. LogOf(new) = [s \in 1 .. n + 1 |-> IF s = n + 1 THEN e ELSE LogOf(old)[s]]
    BY <1>2 DEF LogOf
  <2>4. LogOf(new) = Append(LogOf(old), e)
    BY <2>1, <2>2, <2>3
  <2> QED BY <2>2, <2>4
<1> QED BY <1>1, <1>2

LEMMA ChainStep ==
  ASSUME TypeOK, AuditInv, TypeOK', disk'.audit \in {disk.audit, live.audit}
  PROVE  [Chain!Next]_(LogOf(disk.audit))
<1> DEFINE n == HeadOf(disk.audit).seq
<1>1. n \in Nat /\ DOMAIN disk.audit = 1 .. n
  BY DEF AuditInv, AuditLinear, ChainLinear
<1>2. DOMAIN disk'.audit \in {1 .. n, 1 .. n + 1}
      /\ \A s \in 1 .. n : disk'.audit[s] = disk.audit[s]
  BY <1>1 DEF AuditInv, AtMostOneRowAhead
<1>3. (\A s \in DOMAIN disk.audit : disk.audit[s].evt \in Events)
      /\ (\A s \in DOMAIN disk'.audit : disk'.audit[s].evt \in Events)
  BY DEF TypeOK, Image
<1> HIDE DEF n
<1>4. \/ LogOf(disk'.audit) = LogOf(disk.audit)
      \/ \E e \in Events : LogOf(disk'.audit) = Append(LogOf(disk.audit), e)
  BY <1>1, <1>2, <1>3, LogGrows
<1> QED BY <1>4 DEF Chain!Next, Chain!Record, LogOf

\* Outside a transaction the INSERT of record() commits by itself.
LEMMA InsertChain ==
  ASSUME TypeOK, AuditInv, TypeOK', AuditInv', NEW r \in Requests, AudInsert(r)
  PROVE  [Chain!Next]_(LogOf(disk.audit))
<1> DEFINE n == HeadOf(disk.audit).seq
           seq == head[r].seq + 1
<1>1. CASE disk'.audit = disk.audit
  BY <1>1, ChainStep
<1>2. CASE disk'.audit # disk.audit
  <2>1. WriteOK /\ seq \notin DOMAIN live.audit /\ InsertRow(r, seq) /\ ~inTxn
    BY <1>2 DEF AudInsert, WriteFails, InsertRow, Write
  <2>2. live = disk /\ head[r] \in {HeadOf(disk.audit), NoHead} /\ ChainLinear(disk.audit)
    BY <2>1 DEF AuditInv, AuditLinear, AudInsert
  <2>3. disk'.audit = AddRow(disk.audit, seq, Row(seq, call[r].evt, head[r].hash))
    <3>1. DOMAIN live = {"users", "tokens", "consumed", "sessions", "revoked", "audit"}
      BY DEF TypeOK, Image
    <3> QED BY <2>1, <2>2, <3>1 DEF InsertRow, Write
  <2>4. DOMAIN disk'.audit = 1 .. n + 1 /\ \A s \in 1 .. n : disk'.audit[s] = disk.audit[s]
    BY <2>1, <2>2, <2>3, ExtendChain
  <2>5. n \in Nat /\ DOMAIN disk.audit = 1 .. n
    BY <2>2 DEF ChainLinear
  <2>6. (\A s \in DOMAIN disk.audit : disk.audit[s].evt \in Events)
        /\ (\A s \in DOMAIN disk'.audit : disk'.audit[s].evt \in Events)
    BY DEF TypeOK, Image
  <2> HIDE DEF n
  <2>7. \/ LogOf(disk'.audit) = LogOf(disk.audit)
        \/ \E e \in Events : LogOf(disk'.audit) = Append(LogOf(disk.audit), e)
    BY <2>4, <2>5, <2>6, LogGrows
  <2> QED BY <2>7 DEF Chain!Next, Chain!Record, LogOf
<1> QED BY <1>1, <1>2

LEMMA ChainNext ==
  TypeOK /\ AuditInv /\ TypeOK' /\ AuditInv' /\ [Next]_vars
    => [Chain!Next]_(LogOf(disk.audit))
<1> SUFFICES ASSUME TypeOK, AuditInv, TypeOK', AuditInv', [Next]_vars
             PROVE  [Chain!Next]_(LogOf(disk.audit))
  OBVIOUS
<1>1. ASSUME NEW r \in Requests, Arrive(r) PROVE disk'.audit = disk.audit
  BY <1>1 DEF Arrive, connVars
<1>2. ASSUME NEW r \in Requests, HandlerStep(r) PROVE disk'.audit \in {disk.audit, live.audit}
  <2>1. ConnStep /\ (~inTxn => live = disk)
    BY <1>2 DEF HandlerStep, AuditInv
  <2> QED BY <2>1 DEF ConnStep, connVars, Begin, Commit, Rollback, WriteFails, HandlerWrite, Write
<1>3. ASSUME NEW r \in Requests, AuditStep(r), ~AudInsert(r)
      PROVE  disk'.audit \in {disk.audit, live.audit}
  BY <1>3 DEF AuditStep, AudLock, AudBegin, AudRead, AudCommit, AudRollback,
              connVars, Begin, Commit, Rollback
<1>4. CASE World
  BY <1>4 DEF World, Crash, ConnCrash, CliRead, CliReadDone, CliReserve, CliPersist, Tick,
              connVars, TypeOK, Image
<1>5. CASE UNCHANGED vars
  BY <1>5 DEF vars, connVars
<1> QED BY <1>1, <1>2, <1>3, <1>4, <1>5, ChainStep, InsertChain, HandlerFrame
        DEF Next, Handle, Idle

\* The audit log on disk implements the append-only log of AuditChain.
THEOREM AuditRefinesChain == Spec => AuditAppendOnly
<1>1. Init => Chain!Init
  <2> SUFFICES ASSUME Init PROVE Chain!Init
    OBVIOUS
  <2>1. disk.audit = <<>>
    BY DEF Init, ConnInit, SeedImage
  <2> QED BY <2>1 DEF Chain!Init
<1>2. TypeOK /\ AuditInv /\ TypeOK' /\ AuditInv' /\ [Next]_vars
        => [Chain!Next]_[s \in DOMAIN disk.audit |-> disk.audit[s].evt]
  BY ChainNext DEF LogOf
<1> QED BY <1>1, <1>2, TypeCorrect, AuditInvariant, PTL DEF Spec, AuditAppendOnly, Chain!Spec

-----------------------------------------------------------------------------
(* Transactions have an owner, sessions have a user                         *)

LEMMA OwnerNext == TypeOK /\ TxnHasOwner /\ [Next]_vars => TxnHasOwner'
<1> SUFFICES ASSUME TypeOK, TxnHasOwner, [Next]_vars PROVE TxnHasOwner'
  OBVIOUS
<1> USE DEF TxnHasOwner
<1>1. ASSUME NEW r \in Requests, pc[r] \notin TxnLabels \/ pc'[r] \in TxnLabels \/ ~inTxn',
             inTxn' => inTxn \/ pc'[r] \in TxnLabels,
             NEW label, Goto(r, label)
      PROVE  TxnHasOwner'
  <2>1. \A q \in Requests \ {r} : pc'[q] = pc[q]
    BY <1>1 DEF TypeOK, Goto
  <2> QED BY <1>1, <2>1
<1>2. ASSUME NEW r \in Requests, HandlerStep(r) PROVE TxnHasOwner'
  BY <1>1, <1>2 DEF HandlerStep
<1>3. ASSUME NEW r \in Requests, AuditStep(r) PROVE TxnHasOwner'
  <2>1. PICK label : Goto(r, label)
    BY <1>3 DEF AuditStep, AudLock, AudBegin, AudRead, AudInsert, AudCommit, AudRollback, Leave
  <2>2. pc'[r] = label
    BY <2>1 DEF TypeOK, Goto
  <2>3. /\ pc[r] \notin TxnLabels \/ pc'[r] \in TxnLabels \/ ~inTxn'
        /\ inTxn' => inTxn \/ pc'[r] \in TxnLabels
    BY <1>3 DEF AuditStep, AudLock, AudBegin, AudRead, AudInsert, AudCommit, AudRollback, Leave,
                Goto, TypeOK, TxnLabels, AudTxnLabels, EnrollTxn, WhoamiTxn, connVars,
                Begin, Commit, Rollback, InsertRow, Write, WriteFails
  <2> QED BY <1>1, <2>1, <2>3
<1>4. ASSUME NEW r \in Requests, Arrive(r) PROVE TxnHasOwner'
  <2>1. PICK i \in Inputs : Goto(r, FirstLabel(i))
    BY <1>4 DEF Arrive
  <2>2. inTxn' = inTxn /\ pc[r] \notin TxnLabels
    BY <1>4 DEF Arrive, connVars, TxnLabels, AudTxnLabels, EnrollTxn, WhoamiTxn
  <2> QED BY <1>1, <2>1, <2>2
<1>5. CASE World
  BY <1>5 DEF World, Crash, ConnCrash, CliRead, CliReadDone, CliReserve, CliPersist, Tick,
              connVars, auditVars
<1>6. CASE UNCHANGED vars
  BY <1>6 DEF vars, connVars, auditVars
<1> QED BY <1>2, <1>3, <1>4, <1>5, <1>6, HandlerFrame DEF Next, Handle, Idle

\* An open transaction always has a request on its way to end it, whatever
\* number of requests share the connection and however their steps fail.
THEOREM TransactionsEnd == Spec => []TxnHasOwner
<1>1. Init => TxnHasOwner
  BY DEF Init, ConnInit, TxnHasOwner
<1> QED BY <1>1, OwnerNext, TypeCorrect, PTL DEF Spec

LEMMA UsersNext == TypeOK /\ SessionsHaveUsers /\ [Next]_vars => SessionsHaveUsers'
<1> SUFFICES ASSUME TypeOK, Referential(live), Referential(disk), [Next]_vars
             PROVE  Referential(live') /\ Referential(disk')
  BY DEF SessionsHaveUsers, Referential
<1>1. ASSUME NEW r \in Requests, HandlerStep(r)
      PROVE  Referential(live') /\ Referential(disk')
  BY <1>1 DEF HandlerStep, ConnStep, connVars, Begin, Commit, Rollback, WriteFails,
              HandlerWrite, Write
<1>2. ASSUME NEW r \in Requests, AuditStep(r)
      PROVE  Referential(live') /\ Referential(disk')
  <2>1. CASE AudInsert(r)
    <3> DEFINE seq == head[r].seq + 1
               image == [live EXCEPT !.audit =
                           AddRow(live.audit, seq, Row(seq, call[r].evt, head[r].hash))]
    <3>1. call[r].evt \in Events
      BY <2>1 DEF AudInsert, TypeOK, AuditLabels, HoldsMu, AudTxnLabels, Calls
    <3>2. Referential(image)
      BY <3>1, ImageRecord DEF TypeOK
    <3> QED BY <2>1, <3>2 DEF AudInsert, InsertRow, Write, WriteFails
  <2>2. CASE ~AudInsert(r)
    BY <1>2, <2>2 DEF AuditStep, AudLock, AudBegin, AudRead, AudCommit, AudRollback,
                      connVars, Begin, Commit, Rollback
  <2> QED BY <2>1, <2>2
<1>3. ASSUME NEW r \in Requests, Arrive(r)
      PROVE  Referential(live') /\ Referential(disk')
  BY <1>3 DEF Arrive, connVars
<1>4. CASE CliPersist
  <2>1. ASSUME NEW i, Image(i), Referential(i), NEW tok
        PROVE  Referential([i EXCEPT !.tokens = @ \union {tok}])
    BY <2>1 DEF Image, Referential
  <2>2. PICK tok : /\ live' = [live EXCEPT !.tokens = @ \union {tok}]
                   /\ disk' = [disk EXCEPT !.tokens = @ \union {tok}]
    BY <1>4 DEF CliPersist
  <2>3. Image(live) /\ Image(disk)
    BY DEF TypeOK
  <2> QED BY <2>1, <2>2, <2>3
<1>5. CASE World /\ ~CliPersist
  BY <1>5 DEF World, Crash, ConnCrash, CliRead, CliReadDone, CliReserve, Tick, connVars
<1>6. CASE UNCHANGED vars
  BY <1>6 DEF vars, connVars
<1> QED BY <1>1, <1>2, <1>3, <1>4, <1>5, <1>6, HandlerFrame DEF Next, Handle, Idle

\* Whatever is rolled back under it, a session row keeps its user row.
THEOREM SessionsReferToUsers == Spec => []SessionsHaveUsers
<1>1. Init => SessionsHaveUsers
  BY AuthAssumption DEF Init, ConnInit, SeedImage, SessionsHaveUsers
<1> QED BY <1>1, UsersNext, TypeCorrect, PTL DEF Spec

-----------------------------------------------------------------------------
(* What a step of a request makes of the tables, and where it leads          *)

Commits == {"e_commit", "w_commit", "aud_commit"}
Rollbacks == {"e_reject", "e_hash_failed", "e_duplicate", "e_not_marked", "e_catch",
              "w_reject", "w_catch", "aud_rollback"}

\* Where a write leads when SQLite takes it, and where a COMMIT of enroll leads.
Done == {"e_mark", "e_changes", "l_audit", "aud_commit", "e_audit"}

\* A call that changes nothing, or is refused.
Quiet(r) ==
  /\ live' = live /\ disk' = disk
  /\ pc'[r] \notin Done
  /\ pc[r] \notin {"e_catch", "w_catch", "aud_rollback"}
  /\ pc[r] \in {"e_mark", "e_not_marked"} => pc'[r] \in {"e_not_marked", "e_catch"}
  /\ pc[r] = "o_update" => ~WriteOK

Becomes(users, consumed, sids, revoked, audit) ==
  /\ live'.users = users /\ live'.consumed = consumed
  /\ DOMAIN live'.sessions = sids /\ live'.revoked = revoked
  /\ live'.audit = audit /\ live'.tokens = live.tokens

\* A write that SQLite takes, by the statement that makes it.
Change(r) ==
  \/ /\ pc[r] = "e_insert" /\ pc'[r] = "e_mark"
     /\ Becomes(live.users \union {req[r].email}, live.consumed, DOMAIN live.sessions,
                live.revoked, live.audit)
  \/ /\ pc[r] = "e_mark" /\ pc'[r] = "e_changes"
     /\ Becomes(live.users, live.consumed \union ({req[r].token} \intersect live.tokens),
                DOMAIN live.sessions, live.revoked, live.audit)
  \/ /\ pc[r] = "l_mint" /\ pc'[r] = "l_audit"
     /\ Becomes(live.users, live.consumed, DOMAIN live.sessions \union {r},
                live.revoked, live.audit)
  \/ /\ pc[r] = "o_update" /\ pc'[r] = "o_changes"
     /\ LET hit == {req[r].session} \intersect DOMAIN live.sessions
        IN  /\ Becomes(live.users, live.consumed, DOMAIN live.sessions,
                       live.revoked \union hit, live.audit)
            /\ changes' > 0 <=> hit # {}
  \/ /\ pc[r] = "w_touch" /\ pc'[r] = "w_commit"
     /\ Becomes(live.users, live.consumed, DOMAIN live.sessions, live.revoked, live.audit)
  \/ /\ pc[r] = "aud_insert" /\ pc'[r] = "aud_commit"
     /\ \E seq, prev :
          /\ seq \notin DOMAIN live.audit
          /\ Becomes(live.users, live.consumed, DOMAIN live.sessions, live.revoked,
                     AddRow(live.audit, seq, Row(seq, call[r].evt, prev)))

\* Inside the transaction that a request of its own began.  (A record() that fails
\* after the COMMIT leads to e_catch outside one.)
Inside == TxnLabels \ {"e_catch"}

Effect(r) ==
  /\ pc'[r] \in Inside => inTxn' \/ (inTxn' = inTxn /\ pc[r] \in Inside)
  /\ \/ Quiet(r)
     \/ /\ CommitOK /\ pc[r] \in Commits /\ live' = live /\ disk' = live
        /\ pc'[r] \notin Done \ {"e_audit"}
     \/ /\ pc[r] \in Rollbacks /\ live' = disk /\ disk' = disk
        /\ pc'[r] \notin Done
     \/ WriteOK /\ Change(r) /\ disk' = IF inTxn THEN disk ELSE live'

\* What a handler tells record(): the event, and where to go on.
Entry(r, action, ok, fail) == [evt |-> <<action, r>>, ok |-> ok, fail |-> fail]

Calling(r) ==
  \/ pc[r] = "e_audit_reject" /\ call'[r] = Entry(r, "enrollment_token_rejected", "400", "e_catch")
  \/ pc[r] = "e_audit" /\ call'[r] = Entry(r, "enrollment_token_consumed", "200", "e_catch")
  \/ pc[r] = "l_rate" /\ call'[r] = Entry(r, "auth_rate_limit_tripped", "429", "500")
  \/ pc[r] = "l_select"
     /\ call'[r] = Entry(r, "passphrase_authentication_failure", "401", "500")
  \/ pc[r] = "l_audit"
     /\ call'[r] = Entry(r, "passphrase_authentication_success", "l_created", "500")
  \/ pc[r] = "l_created" /\ call'[r] = Entry(r, "session_created", "200", "500")
  \/ pc[r] = "o_audit" /\ call'[r] = Entry(r, "session_revoked", "200", "500")
  \/ pc[r] = "w_refused" /\ call'[r] = Entry(r, "session_expired", "401", "500")
  \/ pc[r] = "w_audit"
     /\ call'[r] = Entry(r, "passphrase_authentication_success", "200", "500")

\* The token is one of the table, and was minted for the email of the request.
Matches(r) == req[r].token \in live.tokens /\ TokenFor[req[r].token].email = req[r].email

\* Where a handler answers without a call of record().
Refusing == {"e_begin", "e_duplicate", "e_hash_failed", "e_not_marked", "e_catch",
             "l_mint", "w_begin", "w_catch"}

\* The way of a request through its route ...
RouteTurn(r) ==
  /\ pc'[r] = "e_hash" => pc[r] = "e_peek" /\ Matches(r)
  /\ pc'[r] = "e_insert" => pc[r] = "e_hash"
  /\ pc'[r] = "e_commit" => pc[r] = "e_changes"
  /\ pc'[r] = "e_audit" => pc[r] = "e_commit"
  /\ pc'[r] = "l_created" => pc[r] \in AuditLabels
  /\ pc'[r] = "o_changes" => pc[r] = "o_update"
  /\ pc'[r] = "o_audit" => pc[r] = "o_changes" /\ changes > 0
  /\ pc[r] = "o_update" => pc'[r] = "o_changes"
  /\ pc[r] = "o_changes" => pc'[r] \in {"o_audit", "200"}
  /\ pc[r] \in {"l_audit", "l_created", "o_audit"} => pc'[r] = "aud_lock"
  /\ pc'[r] = "e_catch" => pc[r] \in EnrollTxn \union AuditLabels
  /\ pc'[r] \in Statuses =>
       \/ pc[r] \in AuditLabels
       \/ pc[r] = "o_changes" /\ ~(changes > 0) /\ pc'[r] = "200"
       \/ pc[r] \in Refusing /\ pc'[r] \in {"409", "500"}

\* ... and through record().
RecordTurn(r) ==
  /\ pc'[r] \in AuditLabels =>
       \/ pc[r] \in AuditLabels /\ call'[r] = call[r]
       \/ pc[r] \notin AuditLabels /\ pc'[r] = "aud_lock" /\ Calling(r)
  /\ pc[r] \in AuditLabels =>
       \/ pc'[r] \in AuditLabels
       \/ pc[r] = "aud_commit" /\ pc'[r] = call[r].ok /\ live' = live /\ disk' = live
       \/ pc[r] = "aud_begin" /\ ~BeginOK /\ pc'[r] = call[r].fail
       \/ pc[r] = "aud_rollback" /\ pc'[r] = call[r].fail
  /\ pc'[r] = "aud_insert" =>
       /\ pc[r] = "aud_read" /\ live' = live
       /\ head'[r] = HeadOf(live.audit) \/ ReadMayFail
  /\ pc'[r] = "aud_rollback" =>
       \/ pc[r] = "aud_insert" /\ (~WriteOK \/ head[r].seq + 1 \in DOMAIN live.audit)
       \/ pc[r] = "aud_commit" /\ ~CommitOK

Turn(r) == Effect(r) /\ RouteTurn(r) /\ RecordTurn(r)

LEMMA EnrollTurn ==
  ASSUME TypeOK, NEW r \in Requests, EnrollStep(r)
  PROVE  Turn(r)
<1> USE DEF Turn, Effect, RouteTurn, RecordTurn, Quiet, Done, Inside, Goto, connVars, handlerVars,
            Commits, Rollbacks, AuditLabels, HoldsMu, AudTxnLabels, TxnLabels, EnrollTxn,
            WhoamiTxn, Statuses, Refusing
<1>1. pc \in [Requests -> Labels] /\ DOMAIN call = Requests
  BY DEF TypeOK
<1>2. CASE EnrollBegin(r)
  BY <1>1, <1>2 DEF EnrollBegin, ExecBegin, Begin
<1>3. CASE EnrollPeek(r)
  BY <1>1, <1>3 DEF EnrollPeek, TokenUsable, Matches
<1>4. CASE EnrollReject(r)
  BY <1>1, <1>4 DEF EnrollReject, ExecRollback, Rollback
<1>5. CASE EnrollAuditReject(r)
  BY <1>1, <1>5 DEF EnrollAuditReject, CallAudit, Calling, Entry
<1>6. CASE EnrollHash(r)
  BY <1>1, <1>6 DEF EnrollHash
<1>7. CASE EnrollHashFailed(r)
  BY <1>1, <1>7 DEF EnrollHashFailed, ExecRollback, Rollback
<1>8. CASE EnrollInsert(r)
  <2> DEFINE image == [live EXCEPT !.users = @ \union {req[r].email}]
  <2>1. /\ image.users = live.users \union {req[r].email} /\ image.consumed = live.consumed
        /\ image.sessions = live.sessions /\ image.revoked = live.revoked
        /\ image.audit = live.audit /\ image.tokens = live.tokens
    BY DEF TypeOK, Image
  <2> HIDE DEF image
  <2>2. \/ WriteOK /\ Write(image, 1) /\ Goto(r, "e_mark")
        \/ WriteFails /\ Goto(r, "e_duplicate")
    BY <1>8 DEF EnrollInsert, Statement, image
  <2>3. pc[r] = "e_insert" /\ call' = call
    BY <1>8 DEF EnrollInsert, Statement
  <2> QED BY <1>1, <2>1, <2>2, <2>3 DEF Write, WriteFails, Change, Becomes
<1>9. CASE EnrollDuplicate(r)
  BY <1>1, <1>9 DEF EnrollDuplicate, ExecRollback, Rollback
<1>10. CASE EnrollMark(r)
  <2> DEFINE T == {req[r].token} \intersect live.tokens
             image == [live EXCEPT !.consumed = @ \union T]
  <2>1. /\ image.users = live.users /\ image.consumed = live.consumed \union T
        /\ image.sessions = live.sessions /\ image.revoked = live.revoked
        /\ image.audit = live.audit /\ image.tokens = live.tokens
    BY DEF TypeOK, Image
  <2> HIDE DEF image
  <2>2. \/ WriteOK /\ Write(image, Cardinality(T)) /\ Goto(r, "e_changes")
        \/ WriteFails /\ Goto(r, "e_not_marked")
    BY <1>10 DEF EnrollMark, Statement, image
  <2>3. pc[r] = "e_mark" /\ call' = call
    BY <1>10 DEF EnrollMark, Statement
  <2> QED BY <1>1, <2>1, <2>2, <2>3 DEF Write, WriteFails, Change, Becomes
<1>11. CASE EnrollChanges(r)
  BY <1>1, <1>11 DEF EnrollChanges
<1>12. CASE EnrollNotMarked(r)
  BY <1>1, <1>12 DEF EnrollNotMarked, ExecRollback, Rollback
<1>13. CASE EnrollCommit(r)
  BY <1>1, <1>13 DEF EnrollCommit, ExecCommit, Commit
<1>14. CASE EnrollAudit(r)
  BY <1>1, <1>14 DEF EnrollAudit, CallAudit, Calling, Entry
<1>15. CASE EnrollCatch(r)
  BY <1>1, <1>15 DEF EnrollCatch, CatchRollback, Rollback
<1> QED BY <1>2, <1>3, <1>4, <1>5, <1>6, <1>7, <1>8, <1>9, <1>10, <1>11, <1>12, <1>13, <1>14,
           <1>15 DEF EnrollStep

LEMMA LoginTurn ==
  ASSUME TypeOK, NEW r \in Requests, LoginStep(r)
  PROVE  Turn(r)
<1> USE DEF Turn, Effect, RouteTurn, RecordTurn, Quiet, Done, Inside, Goto, connVars, handlerVars,
            Commits, Rollbacks, AuditLabels, HoldsMu, AudTxnLabels, TxnLabels, EnrollTxn,
            WhoamiTxn, Statuses, Refusing
<1>1. pc \in [Requests -> Labels] /\ DOMAIN call = Requests
  BY DEF TypeOK
<1>2. CASE LoginRate(r)
  BY <1>1, <1>2 DEF LoginRate, CallAudit, Calling, Entry
<1>3. CASE LoginSelect(r)
  BY <1>1, <1>3 DEF LoginSelect, CallAudit, Calling, Entry
<1>4. CASE LoginMint(r)
  <2> DEFINE image == AddSession(live, r, NewSession(r))
  <2>1. /\ image.users = live.users /\ image.consumed = live.consumed
        /\ DOMAIN image.sessions = DOMAIN live.sessions \union {r}
        /\ image.revoked = live.revoked /\ image.audit = live.audit
        /\ image.tokens = live.tokens
    BY DEF TypeOK, Image, AddSession
  <2> HIDE DEF image
  <2>2. \/ WriteOK /\ Write(image, 1) /\ Goto(r, "l_audit")
        \/ WriteFails /\ Goto(r, "500")
    BY <1>4 DEF LoginMint, Statement, image
  <2>3. pc[r] = "l_mint" /\ call' = call
    BY <1>4 DEF LoginMint, Statement
  <2> QED BY <1>1, <2>1, <2>2, <2>3 DEF Write, WriteFails, Change, Becomes
<1>5. CASE LoginAudit(r)
  BY <1>1, <1>5 DEF LoginAudit, CallAudit, Calling, Entry
<1>6. CASE LoginCreated(r)
  BY <1>1, <1>6 DEF LoginCreated, CallAudit, Calling, Entry
<1> QED BY <1>2, <1>3, <1>4, <1>5, <1>6 DEF LoginStep

LEMMA LogoutTurn ==
  ASSUME TypeOK, NEW r \in Requests, LogoutStep(r)
  PROVE  Turn(r)
<1> USE DEF Turn, Effect, RouteTurn, RecordTurn, Quiet, Done, Inside, Goto, connVars, handlerVars,
            Commits, Rollbacks, AuditLabels, HoldsMu, AudTxnLabels, TxnLabels, EnrollTxn,
            WhoamiTxn, Statuses, Refusing
<1>1. pc \in [Requests -> Labels] /\ DOMAIN call = Requests
  BY DEF TypeOK
<1>2. CASE LogoutUpdate(r)
  <2> DEFINE hit == {req[r].session} \intersect DOMAIN live.sessions
             image == [live EXCEPT !.revoked = @ \union hit]
  <2>1. /\ image.users = live.users /\ image.consumed = live.consumed
        /\ image.sessions = live.sessions /\ image.revoked = live.revoked \union hit
        /\ image.audit = live.audit /\ image.tokens = live.tokens
    BY DEF TypeOK, Image
  <2>2. Cardinality(hit) > 0 <=> hit # {}
    <3>1. hit = {} \/ hit = {req[r].session}
      OBVIOUS
    <3>2. Cardinality({}) = 0 /\ Cardinality({req[r].session}) = 1
      BY FS_EmptySet, FS_Singleton
    <3> QED BY <3>1, <3>2
  <2> HIDE DEF image
  <2>3. \/ WriteOK /\ Write(image, Cardinality(hit))
        \/ ~WriteOK /\ WriteFails
    BY <1>2 DEF LogoutUpdate, Statement, image
  <2>4. pc[r] = "o_update" /\ call' = call /\ Goto(r, "o_changes")
    BY <1>2 DEF LogoutUpdate, Statement
  <2> HIDE DEF hit
  <2>5. WriteOK => Change(r)
    BY <1>1, <2>1, <2>2, <2>3, <2>4 DEF Write, Change, Becomes, hit
  <2> QED BY <1>1, <2>3, <2>4, <2>5 DEF Write, WriteFails
<1>3. CASE LogoutChanges(r)
  BY <1>1, <1>3 DEF LogoutChanges
<1>4. CASE LogoutAudit(r)
  BY <1>1, <1>4 DEF LogoutAudit, CallAudit, Calling, Entry
<1> QED BY <1>2, <1>3, <1>4 DEF LogoutStep

LEMMA WhoamiTurn ==
  ASSUME TypeOK, NEW r \in Requests, WhoamiStep(r)
  PROVE  Turn(r)
<1> USE DEF Turn, Effect, RouteTurn, RecordTurn, Quiet, Done, Inside, Goto, connVars, handlerVars,
            Commits, Rollbacks, AuditLabels, HoldsMu, AudTxnLabels, TxnLabels, EnrollTxn,
            WhoamiTxn, Statuses, Refusing
<1>1. pc \in [Requests -> Labels] /\ DOMAIN call = Requests
  BY DEF TypeOK
<1>2. CASE WhoamiBegin(r)
  BY <1>1, <1>2 DEF WhoamiBegin, ExecBegin, Begin
<1>3. CASE WhoamiSelect(r)
  BY <1>1, <1>3 DEF WhoamiSelect
<1>4. CASE WhoamiReject(r)
  BY <1>1, <1>4 DEF WhoamiReject, ExecRollback, Rollback
<1>5. CASE WhoamiRefused(r)
  BY <1>1, <1>5 DEF WhoamiRefused, CallAudit, Calling, Entry
<1>6. CASE WhoamiTouch(r)
  <2> DEFINE sid == req[r].session
             hit == {sid} \intersect DOMAIN live.sessions
             image == IF hit = {} THEN live ELSE [live EXCEPT !.sessions[sid].seen = at[r]]
  <2>1. /\ image.users = live.users /\ image.consumed = live.consumed
        /\ DOMAIN image.sessions = DOMAIN live.sessions /\ image.revoked = live.revoked
        /\ image.audit = live.audit /\ image.tokens = live.tokens
    BY DEF TypeOK, Image
  <2> HIDE DEF image
  <2>2. \/ WriteOK /\ Write(image, Cardinality(hit))
        \/ WriteFails
    BY <1>6 DEF WhoamiTouch, Statement, image
  <2>3. pc[r] = "w_touch" /\ call' = call /\ Goto(r, "w_commit")
    BY <1>6 DEF WhoamiTouch, Statement
  <2> HIDE DEF hit
  <2> QED BY <1>1, <2>1, <2>2, <2>3 DEF Write, WriteFails, Change, Becomes
<1>7. CASE WhoamiCommit(r)
  BY <1>1, <1>7 DEF WhoamiCommit, ExecCommit, Commit
<1>8. CASE WhoamiAudit(r)
  BY <1>1, <1>8 DEF WhoamiAudit, CallAudit, Calling, Entry
<1>9. CASE WhoamiCatch(r)
  BY <1>1, <1>9 DEF WhoamiCatch, CatchRollback, Rollback
<1> QED BY <1>2, <1>3, <1>4, <1>5, <1>6, <1>7, <1>8, <1>9 DEF WhoamiStep

LEMMA AuditTurn ==
  ASSUME TypeOK, NEW r \in Requests, AuditStep(r)
  PROVE  Turn(r)
<1> USE DEF Turn, Effect, RouteTurn, RecordTurn, Quiet, Done, Inside, Goto, connVars,
            Commits, Rollbacks, AuditLabels, HoldsMu, AudTxnLabels, TxnLabels, EnrollTxn,
            WhoamiTxn, Statuses, Refusing
<1>1. pc \in [Requests -> Labels] /\ DOMAIN call = Requests /\ DOMAIN head = Requests
  BY DEF TypeOK
<1>2. pc[r] \in AuditLabels => call[r].ok \in ReturnLabels /\ call[r].fail \in ReturnLabels
  BY DEF TypeOK, Calls
<1>3. CASE AudLock(r)
  BY <1>1, <1>3 DEF AudLock
<1>4. CASE AudBegin(r)
  BY <1>1, <1>2, <1>4 DEF AudBegin, Begin, Leave, ReturnLabels
<1>5. CASE AudRead(r)
  BY <1>1, <1>5 DEF AudRead
<1>6. CASE AudInsert(r)
  <2> DEFINE seq == head[r].seq + 1
             image == [live EXCEPT !.audit =
                         AddRow(live.audit, seq, Row(seq, call[r].evt, head[r].hash))]
  <2>1. /\ image.users = live.users /\ image.consumed = live.consumed
        /\ image.sessions = live.sessions /\ image.revoked = live.revoked
        /\ image.audit = AddRow(live.audit, seq, Row(seq, call[r].evt, head[r].hash))
        /\ image.tokens = live.tokens
    BY DEF TypeOK, Image
  <2> HIDE DEF image
  <2>2. \/ WriteOK /\ seq \notin DOMAIN live.audit /\ Write(image, 1) /\ Goto(r, "aud_commit")
        \/ ~(WriteOK /\ seq \notin DOMAIN live.audit) /\ WriteFails /\ Goto(r, "aud_rollback")
    BY <1>6 DEF AudInsert, InsertRow, image
  <2>3. pc[r] = "aud_insert" /\ call' = call /\ head' = head
    BY <1>6 DEF AudInsert
  <2> HIDE DEF seq
  <2>4. WriteOK /\ seq \notin DOMAIN live.audit => Change(r)
    BY <1>1, <2>1, <2>2, <2>3 DEF Write, Change, Becomes
  <2>5. CASE WriteOK /\ seq \notin DOMAIN live.audit
    BY <1>1, <2>2, <2>3, <2>4, <2>5 DEF Write
  <2>6. CASE ~(WriteOK /\ seq \notin DOMAIN live.audit)
    BY <1>1, <2>2, <2>3, <2>6 DEF WriteFails, seq
  <2> QED BY <2>5, <2>6
<1>7. CASE AudCommit(r)
  BY <1>1, <1>2, <1>7 DEF AudCommit, Commit, Leave, ReturnLabels
<1>8. CASE AudRollback(r)
  BY <1>1, <1>2, <1>8 DEF AudRollback, Rollback, Leave, ReturnLabels
<1> QED BY <1>3, <1>4, <1>5, <1>6, <1>7, <1>8 DEF AuditStep

\* Whatever handler r is in, its step is a Turn, and the other requests stay where
\* they are.
LEMMA HandleTurn ==
  ASSUME TypeOK, NEW r \in Requests, Handle(r)
  PROVE  /\ Turn(r) /\ req' = req
         /\ \A q \in Requests \ {r} : pc'[q] = pc[q] /\ call'[q] = call[q] /\ head'[q] = head[q]
         /\ pc[r] \notin Answered \union {"new"} /\ pc'[r] \notin {"new", "lost"}
<1>1. Turn(r)
  BY EnrollTurn, LoginTurn, LogoutTurn, WhoamiTurn, AuditTurn DEF Handle
<1>2. CASE AuditStep(r) /\ UNCHANGED handlerVars
  BY <1>1, <1>2
  DEF AuditStep, AudLock, AudBegin, AudRead, AudInsert, AudCommit, AudRollback, Leave, Goto, TypeOK,
      Answered, Statuses, handlerVars, AuditLabels, HoldsMu, AudTxnLabels, Calls, ReturnLabels
<1>3. CASE EnrollStep(r) \/ LoginStep(r) \/ LogoutStep(r) \/ WhoamiStep(r)
  <2>1. HandlerStep(r)
    BY <1>3, HandlerFrame
  <2>2. pc[r] \notin Answered \union {"new"} /\ pc'[r] # "lost"
    <3> USE DEF Answered, Statuses, Goto, TypeOK
    <3>1. CASE EnrollStep(r)
      BY <3>1 DEF EnrollStep, EnrollBegin, EnrollPeek, EnrollReject, EnrollAuditReject, EnrollHash,
          EnrollHashFailed, EnrollInsert, EnrollDuplicate, EnrollMark, EnrollChanges,
          EnrollNotMarked, EnrollCommit, EnrollAudit, EnrollCatch, ExecBegin, ExecCommit,
          ExecRollback, CatchRollback, Statement, CallAudit
    <3>2. CASE LoginStep(r)
      BY <3>2 DEF LoginStep, LoginRate, LoginSelect, LoginMint, LoginAudit, LoginCreated,
          Statement, CallAudit
    <3>3. CASE LogoutStep(r)
      BY <3>3 DEF LogoutStep, LogoutUpdate, LogoutChanges, LogoutAudit, Statement, CallAudit
    <3>4. CASE WhoamiStep(r)
      BY <3>4 DEF WhoamiStep, WhoamiBegin, WhoamiSelect, WhoamiReject, WhoamiRefused, WhoamiTouch,
          WhoamiCommit, WhoamiAudit, WhoamiCatch, ExecBegin, ExecCommit, ExecRollback,
          CatchRollback, Statement, CallAudit
    <3> QED BY <1>3, <3>1, <3>2, <3>3, <3>4
  <2> QED BY <1>1, <2>1, <2>2 DEF HandlerStep, Goto, TypeOK
<1> QED BY <1>2, <1>3 DEF Handle

-----------------------------------------------------------------------------
(* Requests served one at a time                                            *)

Serial == MaxConcurrent = 1

\* One request is in flight, and whoever is inside a transaction is in his own.
Alone ==
  Serial =>
    /\ \A q, r \in InFlight : q = r
    /\ \A r \in Requests : pc[r] \in Inside => inTxn

\* What arrival, and a crash, change of the requests.
LEMMA ArriveFrame ==
  ASSUME TypeOK, Alone, NEW r \in Requests, Arrive(r)
  PROVE  /\ pc[r] = "new" /\ pc'[r] \in {"e_begin", "l_rate", "o_update", "w_begin"}
         /\ req'[r] \in Inputs /\ CanSend(req'[r])
         /\ pc'[r] = "l_rate" <=> req'[r].kind = "login"
         /\ \A q \in Requests \ {r} : pc'[q] = pc[q] /\ req'[q] = req[q]
         /\ UNCHANGED <<connVars, call, head>>
         /\ Serial => InFlight = {}
<1> PICK i \in Inputs : CanSend(i) /\ req' = [req EXCEPT ![r] = i] /\ Goto(r, FirstLabel(i))
  BY DEF Arrive
<1>1. /\ FirstLabel(i) \in {"e_begin", "l_rate", "o_update", "w_begin"}
      /\ FirstLabel(i) = "l_rate" <=> i.kind = "login"
  BY InputsAssumption DEF FirstLabel
<1>2. Serial => InFlight = {}
  <2> SUFFICES ASSUME Serial, NEW q \in InFlight PROVE FALSE
    OBVIOUS
  <2>1. InFlight = {q}
    BY DEF Alone
  <2>2. Cardinality(InFlight) = 1
    BY <2>1, FS_Singleton
  <2> QED BY <2>2 DEF Arrive, Serial
<1> QED BY <1>1, <1>2 DEF Arrive, Goto, TypeOK

LEMMA CrashFrame ==
  ASSUME Crash
  PROVE  /\ \A q \in Requests :
              \/ pc'[q] = "lost" /\ q \in InFlight
              \/ pc'[q] = pc[q] /\ pc[q] \in Answered \union {"new"}
         /\ live' = disk /\ disk' = disk /\ req' = req /\ ~inTxn'
<1>1. pc' = [q \in Requests |-> IF q \in InFlight THEN "lost" ELSE pc[q]]
  BY DEF Crash
<1> QED BY <1>1 DEF Crash, ConnCrash, handlerVars, InFlight

\* Where a request stands beside one that takes a step.
LEMMA Others ==
  ASSUME Serial, Alone, TxnHasOwner, NEW r \in InFlight
  PROVE  /\ \A q \in Requests \ {r} : pc[q] \in Answered \union {"new"}
         /\ inTxn => pc[r] \in TxnLabels
<1>1. \A q \in Requests \ {r} : pc[q] \in Answered \union {"new"}
  BY DEF Alone, InFlight
<1>2. \A q \in Requests \ {r} : pc[q] \notin TxnLabels
  BY <1>1 DEF Answered, Statuses, TxnLabels, AudTxnLabels, EnrollTxn, WhoamiTxn
<1> QED BY <1>1, <1>2 DEF TxnHasOwner

LEMMA NextKeepsAlone == TypeOK /\ Alone /\ [Next]_vars => Alone'
<1> SUFFICES ASSUME TypeOK, Alone, [Next]_vars, Serial PROVE Alone'
  BY DEF Alone, Serial
<1> USE DEF Alone
<1>1. ASSUME NEW r \in Requests, Arrive(r) PROVE Alone'
  <2>1. InFlight' \subseteq {r}
    BY <1>1, ArriveFrame DEF InFlight
  <2>2. \A q \in Requests : pc'[q] \in Inside => pc[q] \in Inside
    BY <1>1, ArriveFrame DEF Inside, TxnLabels, AudTxnLabels, EnrollTxn, WhoamiTxn
  <2> QED BY <1>1, <2>1, <2>2, ArriveFrame DEF connVars
<1>2. ASSUME NEW r \in Requests, Handle(r) PROVE Alone'
  <2>1. InFlight' \subseteq InFlight /\ r \in InFlight
    BY <1>2, HandleTurn DEF InFlight
  <2>2. \A q \in Requests \ {r} : pc'[q] \notin Inside
    <3>1. \A q \in Requests \ {r} : pc'[q] \in Answered \union {"new"}
      BY <1>2, <2>1, HandleTurn DEF InFlight
    <3> QED BY <3>1 DEF Answered, Statuses, Inside, TxnLabels, AudTxnLabels, EnrollTxn, WhoamiTxn
  <2>3. pc'[r] \in Inside => inTxn'
    BY <1>2, HandleTurn DEF Turn, Effect
  <2> QED BY <2>1, <2>2, <2>3
<1>3. CASE Crash
  <2>1. \A q \in Requests : pc'[q] \in Answered \union {"new"}
    BY <1>3, CrashFrame DEF Answered
  <2>2. InFlight' = {} /\ \A q \in Requests : pc'[q] \notin Inside
    BY <2>1 DEF InFlight, Answered, Statuses, Inside, TxnLabels, AudTxnLabels, EnrollTxn,
                WhoamiTxn
  <2> QED BY <2>2
<1>4. CASE World /\ ~Crash
  BY <1>4 DEF World, CliRead, CliReadDone, CliReserve, CliPersist, Tick, connVars, auditVars,
              InFlight
<1>5. CASE UNCHANGED vars
  BY <1>5 DEF vars, connVars, auditVars, InFlight
<1> QED BY <1>1, <1>2, <1>3, <1>4, <1>5 DEF Next, Idle

-----------------------------------------------------------------------------
(* One at a time: users are made and tokens spent together                  *)

\* As EnrollAtomic has it, but for the users in but.
SpentOn(i, but) ==
  /\ \A tok \in i.consumed : TokenFor[tok].email \in i.users
  /\ \A e \in i.users \ (SeedUsers \union but) :
       \E tok \in i.consumed : TokenFor[tok].email = e

\* Between its INSERT and its UPDATE, or with a ROLLBACK to come.
Unsettled == {"e_mark", "e_not_marked", "e_catch"}

AtomicInv ==
  Serial =>
    /\ SpentOn(disk, {})
    /\ (\A r \in Requests : pc[r] \notin Unsettled) => SpentOn(live, {})
    /\ \A r \in Requests :
         /\ pc[r] \in {"e_hash", "e_insert", "e_mark"} => Matches(r)
         /\ pc[r] = "e_mark" => req[r].email \in live.users /\ SpentOn(live, {req[r].email})

LEMMA HandleKeepsAtomic ==
  ASSUME TypeOK, Alone, TxnHasOwner, AtomicInv, Serial, NEW r \in Requests, Handle(r)
  PROVE  AtomicInv'
<1>1. /\ Turn(r) /\ req' = req /\ r \in InFlight
      /\ \A q \in Requests \ {r} : pc'[q] = pc[q] /\ pc[q] \in Answered \union {"new"}
      /\ inTxn => pc[r] \in TxnLabels
      /\ pc[r] \in Inside => inTxn
  BY HandleTurn, Others DEF InFlight, Alone
<1>2. \A q \in Requests \ {r} : pc[q] \notin Unsettled \union {"e_hash", "e_insert"}
  BY <1>1 DEF Answered, Statuses, Unsettled
<1>3. /\ SpentOn(disk, {})
      /\ pc[r] \notin Unsettled => SpentOn(live, {})
      /\ pc[r] \in {"e_hash", "e_insert", "e_mark"} => Matches(r)
      /\ pc[r] = "e_mark" => req[r].email \in live.users /\ SpentOn(live, {req[r].email})
  BY <1>2 DEF AtomicInv
<1>8. \A q \in Requests \ {r} : pc'[q] \notin Unsettled \union {"e_hash", "e_insert"}
  BY <1>1, <1>2
<1>9. ASSUME SpentOn(disk', {}),
             pc'[r] \notin Unsettled => SpentOn(live', {}),
             pc'[r] \in {"e_hash", "e_insert", "e_mark"} => Matches(r)',
             pc'[r] = "e_mark" =>
               req[r].email \in live'.users /\ SpentOn(live', {req[r].email})
      PROVE  AtomicInv'
  <2>1. SpentOn(disk, {})'
    BY <1>9 DEF SpentOn
  <2>2. (\A q \in Requests : pc[q] \notin Unsettled)' => SpentOn(live, {})'
    BY <1>9 DEF SpentOn
  <2>3. pc'[r] = "e_mark" => (req[r].email \in live.users /\ SpentOn(live, {req[r].email}))'
    BY <1>1, <1>9 DEF SpentOn
  <2>4. \A q \in Requests \ {r} : pc'[q] \notin {"e_hash", "e_insert", "e_mark"}
    BY <1>8 DEF Unsettled
  <2> QED BY <1>9, <2>1, <2>2, <2>3, <2>4 DEF AtomicInv
<1> SUFFICES /\ SpentOn(disk', {})
             /\ pc'[r] \notin Unsettled => SpentOn(live', {})
             /\ pc'[r] \in {"e_hash", "e_insert", "e_mark"} => Matches(r)'
             /\ pc'[r] = "e_mark" =>
                  req[r].email \in live'.users /\ SpentOn(live', {req[r].email})
  BY <1>9
<1>4. CASE Quiet(r)
  <2>1. live' = live /\ disk' = disk /\ (Matches(r) => Matches(r)')
    BY <1>1, <1>4 DEF Quiet, Matches
  <2>2. pc[r] \in Unsettled => pc'[r] \in Unsettled
    BY <1>4 DEF Quiet, Unsettled
  <2>3. pc'[r] \in {"e_hash", "e_insert", "e_mark"} => Matches(r) /\ pc'[r] # "e_mark"
    BY <1>1, <1>3, <1>4 DEF Turn, RouteTurn, Quiet, Done
  <2> QED BY <1>3, <2>1, <2>2, <2>3
<1>5. CASE CommitOK /\ pc[r] \in Commits /\ live' = live /\ disk' = live
           /\ pc'[r] \notin Done \ {"e_audit"}
  <2>1. pc[r] \notin Unsettled /\ pc'[r] \notin {"e_hash", "e_insert", "e_mark"}
    BY <1>1, <1>5 DEF Commits, Unsettled, Turn, RouteTurn, Done
  <2> QED BY <1>3, <1>5, <2>1
<1>6. CASE pc[r] \in Rollbacks /\ live' = disk /\ disk' = disk /\ pc'[r] \notin Done
  <2>1. pc'[r] \notin {"e_hash", "e_insert", "e_mark"}
    BY <1>1, <1>6 DEF Rollbacks, Turn, RouteTurn, Done
  <2> QED BY <1>3, <1>6, <2>1
<1>7. CASE WriteOK /\ Change(r) /\ disk' = IF inTxn THEN disk ELSE live'
  <2>1. CASE pc[r] = "e_insert"
    <3>1. /\ pc'[r] = "e_mark" /\ live'.users = live.users \union {req[r].email}
          /\ live'.consumed = live.consumed /\ live'.tokens = live.tokens
      BY <1>7, <2>1 DEF Change, Becomes
    <3>2. disk' = disk
      BY <1>1, <1>7, <2>1 DEF Inside, TxnLabels, EnrollTxn
    <3>3. SpentOn(live', {req[r].email})
      BY <1>3, <2>1, <3>1 DEF SpentOn, Unsettled
    <3>4. Matches(r)'
      BY <1>1, <1>3, <2>1, <3>1 DEF Matches
    <3> QED BY <1>3, <3>1, <3>2, <3>3, <3>4 DEF Unsettled
  <2>2. CASE pc[r] = "e_mark"
    <3>1. /\ pc'[r] = "e_changes" /\ live'.users = live.users
          /\ live'.consumed = live.consumed \union {req[r].token}
      BY <1>3, <1>7, <2>2 DEF Change, Becomes, Matches
    <3>2. disk' = disk
      BY <1>1, <1>7, <2>2 DEF Inside, TxnLabels, EnrollTxn
    <3>3. SpentOn(live', {})
      BY <1>3, <2>2, <3>1 DEF SpentOn, Matches
    <3> QED BY <1>3, <3>1, <3>2, <3>3
  <2>3. CASE pc[r] \notin {"e_insert", "e_mark"}
    <3>1. live'.users = live.users /\ live'.consumed = live.consumed
      BY <1>7, <2>3 DEF Change, Becomes
    <3>2. /\ pc[r] \notin Unsettled
          /\ pc'[r] \notin {"e_hash", "e_insert", "e_mark"}
      BY <1>7, <2>3 DEF Change, Unsettled
    <3>3. SpentOn(live', {})
      BY <1>3, <3>1, <3>2 DEF SpentOn
    <3> QED BY <1>3, <1>7, <3>2, <3>3
  <2> QED BY <2>1, <2>2, <2>3
<1> QED BY <1>1, <1>4, <1>5, <1>6, <1>7 DEF Turn, Effect

LEMMA NextKeepsAtomic ==
  TypeOK /\ Alone /\ TxnHasOwner /\ AtomicInv /\ [Next]_vars => AtomicInv'
<1> SUFFICES ASSUME TypeOK, Alone, TxnHasOwner, AtomicInv, [Next]_vars, Serial PROVE AtomicInv'
  BY DEF AtomicInv, Serial
<1>1. ASSUME NEW r \in Requests, Arrive(r) PROVE AtomicInv'
  <2>1. /\ UNCHANGED <<live, disk>> /\ pc[r] = "new"
        /\ pc'[r] \in {"e_begin", "l_rate", "o_update", "w_begin"}
        /\ \A q \in Requests \ {r} : pc'[q] = pc[q] /\ req'[q] = req[q]
    BY <1>1, ArriveFrame DEF connVars
  <2>2. \A q \in Requests : pc'[q] \in Unsettled \union {"e_hash", "e_insert"} => q # r
    BY <2>1 DEF Unsettled
  <2>3. \A q \in Requests : pc[q] \in Unsettled => q # r
    BY <2>1 DEF Unsettled
  <2> QED BY <2>1, <2>2, <2>3 DEF AtomicInv, Matches, Unsettled
<1>2. ASSUME NEW r \in Requests, Handle(r) PROVE AtomicInv'
  BY <1>2, HandleKeepsAtomic
<1>3. CASE Crash
  <2>1. live' = disk /\ disk' = disk
    BY <1>3, CrashFrame
  <2>2. \A q \in Requests : pc'[q] \notin {"e_hash", "e_insert", "e_mark"}
    BY <1>3, CrashFrame DEF Answered, Statuses
  <2> QED BY <2>1, <2>2 DEF AtomicInv
<1>4. CASE CliPersist
  <2>1. /\ live'.users = live.users /\ live'.consumed = live.consumed
        /\ disk'.users = disk.users /\ disk'.consumed = disk.consumed
        /\ live.tokens \subseteq live'.tokens
    BY <1>4 DEF CliPersist, TypeOK, Image
  <2>2. pc' = pc /\ req' = req
    BY <1>4 DEF CliPersist, auditVars, handlerVars
  <2> QED BY <2>1, <2>2 DEF AtomicInv, SpentOn, Matches
<1>5. CASE World /\ ~Crash /\ ~CliPersist
  BY <1>5 DEF World, CliRead, CliReadDone, CliReserve, Tick, connVars, auditVars, handlerVars,
              AtomicInv, Matches
<1>6. CASE UNCHANGED vars
  BY <1>6 DEF vars, connVars, auditVars, AtomicInv, Matches
<1> QED BY <1>1, <1>2, <1>3, <1>4, <1>5, <1>6 DEF Next, Idle

\* AuthHandlers.cpp, handle_enroll: the user and the token's consumption are one
\* transaction.  Served one at a time, enrollments keep that promise on disk whatever
\* fails or is refused on the way, a crash cuts off or the admin CLI locks; for any
\* requests, tokens and users.
THEOREM EnrollmentIsAtomic ==
  ASSUME MaxConcurrent = 1
  PROVE  Spec => []EnrollAtomic
<1>1. Init => Alone /\ AtomicInv
  BY DEF Init, ConnInit, SeedImage, Alone, InFlight, Inside, TxnLabels, AudTxnLabels, EnrollTxn,
         WhoamiTxn, AtomicInv, SpentOn
<1>2. AtomicInv => EnrollAtomic
  BY DEF AtomicInv, EnrollAtomic, SpentOn, Serial
<1> QED BY <1>1, <1>2, NextKeepsAlone, NextKeepsAtomic, TypeCorrect, TransactionsEnd, PTL
        DEF Spec

-----------------------------------------------------------------------------
(* What the tables have, they keep                                          *)

Within(i, j) ==
  /\ i.users \subseteq j.users
  /\ DOMAIN i.sessions \subseteq DOMAIN j.sessions
  /\ i.revoked \subseteq j.revoked
  /\ \A s \in DOMAIN i.audit : s \in DOMAIN j.audit /\ j.audit[s].evt = i.audit[s].evt

Ahead == Within(disk, live)

LEMMA WithinTrans ==
  ASSUME NEW i, NEW j, NEW k, Within(i, j), Within(j, k)
  PROVE  Within(i, k)
BY DEF Within

LEMMA WithinSelf == \A i : Within(i, i)
BY DEF Within

LEMMA ChangeGrows ==
  ASSUME NEW r \in Requests, Change(r)
  PROVE  Within(live, live')
BY DEF Change, Becomes, Within, AddRow

\* A step of a request keeps what is on disk, and what is on disk on the connection.
LEMMA HandleGrows ==
  ASSUME TypeOK, Ahead, NEW r \in Requests, Handle(r)
  PROVE  Within(disk, disk') /\ Ahead'
<1> USE WithinSelf
<1>1. Effect(r)
  BY HandleTurn DEF Turn
<1>2. CASE Quiet(r)
  BY <1>2 DEF Quiet, Ahead
<1>3. CASE live' = live /\ disk' = live
  BY <1>3 DEF Ahead
<1>4. CASE live' = disk /\ disk' = disk
  BY <1>4 DEF Ahead
<1>5. CASE Change(r) /\ disk' = IF inTxn THEN disk ELSE live'
  <2>1. Within(live, live') /\ Within(disk, live')
    BY <1>5, ChangeGrows, WithinTrans DEF Ahead
  <2> QED BY <1>5, <2>1 DEF Ahead
<1> QED BY <1>1, <1>2, <1>3, <1>4, <1>5 DEF Effect

LEMMA NextGrows == TypeOK /\ Ahead /\ [Next]_vars => Within(disk, disk') /\ Ahead'
<1> SUFFICES ASSUME TypeOK, Ahead, [Next]_vars PROVE Within(disk, disk') /\ Ahead'
  OBVIOUS
<1> USE WithinSelf
<1>1. CASE UNCHANGED <<live, disk>>
  BY <1>1 DEF Ahead
<1>2. ASSUME NEW r \in Requests, Handle(r) PROVE Within(disk, disk') /\ Ahead'
  BY <1>2, HandleGrows
<1>3. CASE Crash
  BY <1>3, CrashFrame DEF Ahead
<1>4. CASE CliPersist
  <2>1. /\ live'.users = live.users /\ live'.sessions = live.sessions
        /\ live'.revoked = live.revoked /\ live'.audit = live.audit
        /\ disk'.users = disk.users /\ disk'.sessions = disk.sessions
        /\ disk'.revoked = disk.revoked /\ disk'.audit = disk.audit
    BY <1>4 DEF CliPersist, TypeOK, Image
  <2> QED BY <2>1 DEF Ahead, Within
<1> QED BY <1>1, <1>2, <1>3, <1>4
        DEF Next, Idle, Arrive, World, CliRead, CliReadDone, CliReserve, Tick, vars, connVars

\* No statement of the server takes a user, a session, a revocation or an audit row
\* away again once it is on disk, however requests overlap and the server crashes.
THEOREM StoredStays == Spec => [][Within(disk, disk')]_vars
<1>1. Init => Ahead
  BY WithinSelf DEF Init, ConnInit, Ahead
<1>2. TypeOK /\ Ahead /\ [Next]_vars => Ahead' /\ [Within(disk, disk')]_vars
  BY NextGrows
<1> QED BY <1>1, <1>2, TypeCorrect, PTL DEF Spec

-----------------------------------------------------------------------------
(* One at a time and without the admin CLI, record() never fails            *)

Calm == Serial /\ ~CliEnabled

Unlocked == ~CliEnabled => fileLock = "none"

\* What a request in record() has told it, by the route it belongs to.
Told(r) ==
  \/ /\ req[r].kind = "enroll"
     /\ call[r] \in {Entry(r, "enrollment_token_rejected", "400", "e_catch"),
                     Entry(r, "enrollment_token_consumed", "200", "e_catch")}
  \/ /\ req[r].kind = "login"
     /\ call[r] \in {Entry(r, "auth_rate_limit_tripped", "429", "500"),
                     Entry(r, "passphrase_authentication_failure", "401", "500"),
                     Entry(r, "passphrase_authentication_success", "l_created", "500"),
                     Entry(r, "session_created", "200", "500")}
  \/ /\ req[r].kind = "logout"
     /\ call[r] = Entry(r, "session_revoked", "200", "500")
  \/ /\ req[r].kind = "whoami"
     /\ call[r] \in {Entry(r, "session_expired", "401", "500"),
                     Entry(r, "passphrase_authentication_success", "200", "500")}

\* The event that a 200 of a route stands for.
Promised(kind) ==
  CASE kind = "enroll" -> "enrollment_token_consumed"
    [] kind = "login" -> "session_created"
    [] kind = "logout" -> "session_revoked"
    [] kind = "whoami" -> "passphrase_authentication_success"

OnConn(evt) == \E s \in DOMAIN live.audit : live.audit[s].evt = evt

Recording(r) ==
  /\ pc[r] # "aud_rollback"
  /\ pc[r] = "aud_insert" => head[r] = HeadOf(live.audit)
  /\ pc[r] \in AuditLabels => Told(r)
  /\ pc[r] = "l_created" => req[r].kind = "login"
  /\ pc[r] = "e_catch" => req[r].kind = "enroll"
  /\ pc[r] = "aud_commit" => OnConn(call[r].evt)
  /\ pc[r] = "200" /\ req[r].kind # "logout" => Recorded(Promised(req[r].kind), r)

RecordInv == Calm => \A r \in Requests : Recording(r)

\* In calm nothing that a request asks of SQLite is refused.
LEMMA CalmTurn ==
  ASSUME TypeOK, Alone, Unlocked, TxnHasOwner, Calm, NEW r \in Requests, Handle(r)
  PROVE  /\ Turn(r) /\ req' = req /\ r \in InFlight
         /\ \A q \in Requests \ {r} :
              /\ pc'[q] = pc[q] /\ pc[q] \in Answered \union {"new"}
              /\ call'[q] = call[q] /\ head'[q] = head[q]
         /\ WriteOK /\ ~ReadMayFail
         /\ pc[r] \in Inside => CommitOK
         /\ inTxn => pc[r] \in TxnLabels
         /\ pc[r] = "aud_begin" => BeginOK
         /\ pc[r] \notin Answered \union {"new"}
<1>1. r \in InFlight /\ Serial /\ fileLock = "none"
  BY HandleTurn DEF InFlight, Calm, Unlocked
<1>2. inTxn => pc[r] \in TxnLabels
  BY <1>1, Others
<1>3. pc[r] \in Inside => inTxn
  BY <1>1 DEF Alone
<1>4. pc[r] = "aud_begin" => pc[r] \notin TxnLabels
  BY DEF TxnLabels, AudTxnLabels, EnrollTxn, WhoamiTxn
<1> QED BY <1>1, <1>2, <1>3, <1>4, HandleTurn, Others
        DEF WriteOK, ReadMayFail, CommitOK, BeginOK

\* Where record() leads in calm: to the end its caller wants, with the row on disk.
LEMMA CalmRecord ==
  ASSUME TypeOK, Alone, Unlocked, TxnHasOwner, RecordInv, Calm, NEW r \in Requests, Handle(r),
         pc[r] \in AuditLabels, pc'[r] \notin AuditLabels
  PROVE  pc[r] = "aud_commit" /\ pc'[r] = call[r].ok /\ disk' = live
BY CalmTurn DEF Turn, RecordTurn, RecordInv, Recording

LEMMA RecordedStays ==
  ASSUME Within(disk, disk'), NEW action, NEW r, Recorded(action, r)
  PROVE  Recorded(action, r)'
BY DEF Recorded, Within

LEMMA ToldNext ==
  ASSUME TypeOK, Alone, Unlocked, TxnHasOwner, RecordInv, Calm, NEW r \in Requests, Handle(r),
         pc'[r] \in AuditLabels
  PROVE  Told(r)'
<1>1. CASE pc[r] \in AuditLabels
  BY <1>1, CalmTurn DEF Turn, RecordTurn, RecordInv, Recording, Told, Entry
<1>2. CASE pc[r] \notin AuditLabels
  <2>1. Calling(r) /\ req' = req
    BY <1>2, CalmTurn DEF Turn, RecordTurn
  <2>2. /\ pc[r] \in {"e_audit_reject", "e_audit"} => req[r].kind = "enroll"
        /\ pc[r] \in {"l_rate", "l_select", "l_audit", "l_created"} => req[r].kind = "login"
        /\ pc[r] = "o_audit" => req[r].kind = "logout"
        /\ pc[r] \in {"w_refused", "w_audit"} => req[r].kind = "whoami"
    BY DEF TypeOK, OnItsRoute, EnrollSteps, LoginSteps, LogoutSteps, WhoamiSteps, RecordInv,
           Recording
  <2> QED BY <2>1, <2>2 DEF Calling, Told, Entry
<1> QED BY <1>1, <1>2

LEMMA HandleKeepsRecord ==
  ASSUME TypeOK, AuditInv, Alone, Unlocked, TxnHasOwner, RecordInv, Ahead, Calm,
         NEW r \in Requests, Handle(r)
  PROVE  RecordInv'
<1>1. Within(disk, disk')
  BY HandleGrows
<1>2. ASSUME NEW q \in Requests \ {r} PROVE Recording(q)'
  <2>1. pc'[q] = pc[q] /\ pc[q] \in Answered \union {"new"} /\ req' = req
    BY CalmTurn
  <2>2. /\ pc[q] \notin AuditLabels \union {"l_created", "e_catch"}
        /\ pc[q] = "200" /\ req[q].kind # "logout" => Recorded(Promised(req[q].kind), q)
    BY <2>1 DEF RecordInv, Recording, Answered, Statuses, AuditLabels, HoldsMu, AudTxnLabels
  <2>3. pc'[q] = "200" /\ req'[q].kind # "logout" => Recorded(Promised(req[q].kind), q)'
    BY <1>1, <2>1, <2>2, RecordedStays
  <2> QED BY <2>1, <2>2, <2>3 DEF Recording, AuditLabels, HoldsMu, AudTxnLabels
<1>3. Recording(r)'
  <2>1. pc'[r] # "aud_rollback"
    <3>1. pc[r] = "aud_insert" => head[r].seq + 1 \notin DOMAIN live.audit
      BY DEF RecordInv, Recording, AuditInv, AuditLinear, ChainLinear
    <3>2. pc[r] = "aud_commit" => CommitOK
      BY CalmTurn DEF Inside, TxnLabels, AudTxnLabels
    <3> QED BY <3>1, <3>2, CalmTurn DEF Turn, RecordTurn
  <2>2. pc'[r] = "aud_insert" => head'[r] = HeadOf(live.audit) /\ live' = live
    BY CalmTurn DEF Turn, RecordTurn
  <2>3. pc'[r] \in AuditLabels => Told(r)'
    BY ToldNext
  <2>4. pc[r] \in AuditLabels /\ pc'[r] \notin AuditLabels =>
          /\ pc[r] = "aud_commit" /\ pc'[r] = call[r].ok /\ disk' = live /\ Told(r)
    BY CalmRecord DEF RecordInv, Recording
  <2>5. pc'[r] = "l_created" => req[r].kind = "login"
    <3>1. pc'[r] = "l_created" => pc[r] \in AuditLabels /\ pc'[r] \notin AuditLabels
      BY CalmTurn DEF Turn, RouteTurn, AuditLabels, HoldsMu, AudTxnLabels
    <3> QED BY <2>4, <3>1 DEF Told, Entry
  <2>6. pc'[r] = "e_catch" => req[r].kind = "enroll"
    <3>1. pc'[r] = "e_catch" => pc[r] \in EnrollTxn \union AuditLabels /\ pc'[r] \notin AuditLabels
      BY CalmTurn DEF Turn, RouteTurn, AuditLabels, HoldsMu, AudTxnLabels
    <3>2. pc[r] \in EnrollTxn => req[r].kind = "enroll"
      BY DEF TypeOK, OnItsRoute, EnrollSteps, RecordInv, Recording
    <3> QED BY <2>4, <3>1, <3>2 DEF Told, Entry
  <2>7. pc'[r] = "aud_commit" => OnConn(call[r].evt)'
    <3> SUFFICES ASSUME pc'[r] = "aud_commit" PROVE OnConn(call[r].evt)'
      OBVIOUS
    <3>1. Change(r) /\ pc[r] = "aud_insert"
      BY CalmTurn DEF Turn, Effect, Quiet, Done, Change
    <3>2. call'[r] = call[r]
      BY <3>1, CalmTurn DEF Turn, RecordTurn, AuditLabels, HoldsMu, AudTxnLabels
    <3>3. PICK seq, prev : live'.audit = AddRow(live.audit, seq, Row(seq, call[r].evt, prev))
      BY <3>1 DEF Change, Becomes
    <3>4. seq \in DOMAIN live'.audit /\ live'.audit[seq].evt = call[r].evt
      BY <3>3 DEF AddRow, Row
    <3> QED BY <3>2, <3>4 DEF OnConn
  <2>8. pc'[r] = "200" /\ req[r].kind # "logout" => Recorded(Promised(req[r].kind), r)'
    <3> SUFFICES ASSUME pc'[r] = "200", req[r].kind # "logout"
                 PROVE  Recorded(Promised(req[r].kind), r)'
      OBVIOUS
    <3>1. pc[r] # "o_changes"
      BY DEF TypeOK, OnItsRoute, LogoutSteps
    <3>2. pc[r] \in AuditLabels /\ pc'[r] \notin AuditLabels
      BY <3>1, CalmTurn DEF Turn, RouteTurn, Statuses, AuditLabels, HoldsMu, AudTxnLabels
    <3>3. call[r].evt = <<Promised(req[r].kind), r>>
      BY <2>4, <3>2 DEF Told, Entry, Promised
    <3>4. OnConn(call[r].evt) /\ disk' = live /\ req' = req
      BY <2>4, <3>2, CalmTurn DEF RecordInv, Recording
    <3> QED BY <3>3, <3>4 DEF OnConn, Recorded
  <2> QED BY <2>1, <2>2, <2>3, <2>5, <2>6, <2>7, <2>8, CalmTurn DEF Recording
<1> QED BY <1>2, <1>3 DEF RecordInv

LEMMA TurnLock == Unlocked /\ [Next]_vars => Unlocked'
BY DEF Unlocked, Next, Idle, worldVars, World, CliRead, CliReadDone, CliReserve, CliPersist, Tick,
       Crash, vars

LEMMA NextKeepsRecord ==
  /\ TypeOK /\ AuditInv /\ Alone /\ Unlocked /\ TxnHasOwner /\ RecordInv /\ Ahead
  /\ [Next]_vars
  => RecordInv' /\ Unlocked'
<1> SUFFICES ASSUME TypeOK, AuditInv, Alone, Unlocked, TxnHasOwner, RecordInv, Ahead, [Next]_vars
             PROVE  RecordInv' /\ Unlocked'
  OBVIOUS
<1>1. Unlocked'
  BY TurnLock DEF Unlocked
<1> SUFFICES ASSUME Calm PROVE RecordInv'
  BY <1>1 DEF RecordInv, Calm, Serial
<1>2. ASSUME NEW r \in Requests, Handle(r) PROVE RecordInv'
  BY <1>2, HandleKeepsRecord
<1>3. ASSUME NEW r \in Requests, Arrive(r) PROVE RecordInv'
  <2>1. ASSUME NEW q \in Requests PROVE Recording(q)'
    <3>1. CASE q = r
      BY <1>3, <3>1, ArriveFrame DEF Recording, AuditLabels, HoldsMu, AudTxnLabels
    <3>2. CASE q # r
      <4>1. /\ pc'[q] = pc[q] /\ req'[q] = req[q] /\ call' = call /\ head' = head
            /\ live' = live /\ disk' = disk
        BY <1>3, <3>2, ArriveFrame DEF connVars
      <4> QED BY <4>1 DEF RecordInv, Recording, Recorded, OnConn, Told
    <3> QED BY <3>1, <3>2
  <2> QED BY <2>1 DEF RecordInv
<1>4. CASE Crash
  <2>1. ASSUME NEW q \in Requests PROVE Recording(q)'
    <3>1. pc'[q] \in {"lost", pc[q]} /\ pc'[q] \in Answered \union {"new"}
      BY <1>4, CrashFrame DEF Answered
    <3>2. disk' = disk /\ req' = req
      BY <1>4, CrashFrame
    <3>3. pc'[q] = "200" => pc[q] = "200"
      BY <3>1
    <3>4. pc'[q] \notin AuditLabels \union {"l_created", "e_catch"}
      BY <3>1 DEF Answered, Statuses, AuditLabels, HoldsMu, AudTxnLabels
    <3> QED BY <3>2, <3>3, <3>4
            DEF RecordInv, Recording, Recorded, AuditLabels, HoldsMu, AudTxnLabels
  <2> QED BY <2>1 DEF RecordInv
<1>5. CASE UNCHANGED <<pc, req, call, head, live, disk>>
  BY <1>5 DEF RecordInv, Recording, Recorded, OnConn, Told
<1> QED BY <1>2, <1>3, <1>4, <1>5
        DEF Next, Idle, World, CliRead, CliReadDone, CliReserve, CliPersist, Tick, vars, connVars,
            auditVars, handlerVars, Unlocked, Calm

-----------------------------------------------------------------------------
(* ... and then each answer tells what was done                             *)

InCall(r, ok) == pc[r] \in AuditLabels /\ call[r].ok = ok

\* A login has its session from the INSERT on, an enrollment its user from the
\* COMMIT on, unless they came to grief.
LoggedIn(r) ==
  pc[r] \in {"l_audit", "l_created", "200"} \/ InCall(r, "l_created") \/ InCall(r, "200")
Enrolled(r) == pc[r] \in {"e_audit", "200"} \/ InCall(r, "200")

\* Sessions are written outside transactions, and the session that a logout names was
\* minted before it came.
SessionInv ==
  Calm =>
    /\ DOMAIN live.sessions = DOMAIN disk.sessions
    /\ \A r \in Requests \intersect DOMAIN disk.sessions :
         pc[r] # "new" /\ req[r].kind = "login" /\ (LoggedIn(r) \/ pc[r] = "lost")
    /\ \A r \in Requests :
         pc[r] # "new" /\ req[r].kind = "logout" /\ req[r].session \in Requests =>
           pc[req[r].session] = "200"

Keeping(r) ==
  /\ pc[r] \in {"e_mark", "e_changes", "e_commit"} => req[r].email \in live.users
  /\ pc[r] # "new" /\ req[r].kind = "enroll" /\ Enrolled(r) => req[r].email \in disk.users
  /\ pc[r] # "new" /\ req[r].kind = "login" /\ LoggedIn(r) => r \in DOMAIN disk.sessions
  /\ pc[r] = "o_changes" =>
       /\ changes > 0 <=> req[r].session \in DOMAIN disk.sessions
       /\ req[r].session \in DOMAIN disk.sessions => req[r].session \in disk.revoked
  /\ pc[r] \in {"o_audit"} \union AuditLabels /\ req[r].kind = "logout" =>
       req[r].session \in disk.revoked
  /\ pc[r] \in Statuses /\ req[r].kind = "logout" =>
       \/ req[r].session \notin DOMAIN disk.sessions
       \/ req[r].session \in disk.revoked /\ Recorded("session_revoked", r)

EffectInv == Calm => \A r \in Requests : Keeping(r)

\* What a step of a request makes of the set of sessions.
LEMMA SessionStep ==
  ASSUME TypeOK, Alone, Unlocked, TxnHasOwner, SessionInv, Calm, NEW r \in Requests, Handle(r)
  PROVE  /\ DOMAIN live'.sessions = DOMAIN disk'.sessions
         /\ \/ /\ pc[r] = "l_mint" /\ pc'[r] = "l_audit"
               /\ DOMAIN disk'.sessions = DOMAIN disk.sessions \union {r}
            \/ pc'[r] # "l_audit" /\ DOMAIN disk'.sessions = DOMAIN disk.sessions
<1>1. Effect(r) /\ WriteOK /\ (inTxn => pc[r] \in TxnLabels)
  BY CalmTurn DEF Turn
<1>2. DOMAIN live.sessions = DOMAIN disk.sessions
  BY DEF SessionInv
<1>3. CASE Quiet(r)
  BY <1>2, <1>3 DEF Quiet, Done
<1>4. CASE live' = live /\ disk' = live /\ pc'[r] \notin Done \ {"e_audit"}
  BY <1>2, <1>4 DEF Done
<1>5. CASE live' = disk /\ disk' = disk /\ pc'[r] \notin Done
  BY <1>5 DEF Done
<1>6. CASE Change(r) /\ disk' = IF inTxn THEN disk ELSE live'
  <2>1. pc[r] = "l_mint" => disk' = live'
    BY <1>1, <1>6 DEF TxnLabels, AudTxnLabels, EnrollTxn, WhoamiTxn
  <2>2. CASE pc[r] = "l_mint"
    BY <1>2, <1>6, <2>1, <2>2 DEF Change, Becomes
  <2>3. CASE pc[r] # "l_mint"
    BY <1>2, <1>6, <2>3 DEF Change, Becomes
  <2> QED BY <2>2, <2>3
<1> QED BY <1>1, <1>3, <1>4, <1>5, <1>6 DEF Effect

\* A login that has its session goes on to 200.
LEMMA LoginGoesOn ==
  ASSUME TypeOK, Alone, Unlocked, TxnHasOwner, RecordInv, Calm, NEW r \in Requests, Handle(r),
         LoggedIn(r)
  PROVE  LoggedIn(r)'
<1>1. pc[r] # "200"
  BY CalmTurn DEF Answered, Statuses
<1>2. CASE pc[r] \in {"l_audit", "l_created"}
  <2>1. pc'[r] = "aud_lock" /\ Calling(r)
    BY <1>2, CalmTurn DEF Turn, RouteTurn, RecordTurn, AuditLabels, HoldsMu, AudTxnLabels
  <2>2. call'[r].ok \in {"l_created", "200"}
    BY <1>2, <2>1 DEF Calling, Entry
  <2> QED BY <2>1, <2>2 DEF LoggedIn, InCall, AuditLabels
<1>3. CASE pc[r] \in AuditLabels /\ call[r].ok \in {"l_created", "200"}
  <2>1. CASE pc'[r] \in AuditLabels
    BY <1>3, <2>1, CalmTurn DEF Turn, RecordTurn, LoggedIn, InCall
  <2>2. CASE pc'[r] \notin AuditLabels
    BY <1>3, <2>2, CalmRecord DEF LoggedIn
  <2> QED BY <2>1, <2>2
<1> QED BY <1>1, <1>2, <1>3 DEF LoggedIn, InCall

LEMMA HandleKeepsSessions ==
  ASSUME TypeOK, Alone, Unlocked, TxnHasOwner, RecordInv, SessionInv, Calm,
         NEW r \in Requests, Handle(r)
  PROVE  SessionInv'
<1>1. ASSUME NEW q \in Requests \intersect DOMAIN disk'.sessions
      PROVE  pc'[q] # "new" /\ req'[q].kind = "login" /\ (LoggedIn(q)' \/ pc'[q] = "lost")
  <2>1. CASE q # r
    <3>1. /\ pc'[q] = pc[q] /\ pc[q] \in Answered \union {"new"} /\ req' = req
          /\ q \in DOMAIN disk.sessions
      BY <2>1, CalmTurn, SessionStep
    <3>2. pc[q] # "new" /\ req[q].kind = "login" /\ (LoggedIn(q) \/ pc[q] = "lost")
      BY <3>1 DEF SessionInv
    <3>3. pc[q] \notin AuditLabels
      BY <3>1 DEF Answered, Statuses, AuditLabels, HoldsMu, AudTxnLabels
    <3> QED BY <3>1, <3>2, <3>3 DEF LoggedIn, InCall
  <2>2. CASE q = r /\ pc[r] = "l_mint" /\ pc'[r] = "l_audit"
    <3>1. req[r].kind = "login" /\ req' = req
      BY <2>2, CalmTurn DEF TypeOK, OnItsRoute, LoginSteps
    <3> QED BY <2>2, <3>1 DEF LoggedIn
  <2>3. CASE q = r /\ r \in DOMAIN disk.sessions
    <3>1. pc[r] # "new" /\ req[r].kind = "login" /\ LoggedIn(r)
      BY <2>3, CalmTurn DEF SessionInv, Answered
    <3>2. req' = req /\ pc'[r] # "new"
      BY CalmTurn, HandleTurn
    <3> QED BY <2>3, <3>1, <3>2, LoginGoesOn
  <2> QED BY <2>1, <2>2, <2>3, SessionStep
<1>2. ASSUME NEW q \in Requests, pc'[q] # "new", req'[q].kind = "logout", req'[q].session \in Requests
      PROVE  pc'[req'[q].session] = "200"
  <2>1. req' = req /\ pc[q] # "new"
    BY <1>2, CalmTurn
  <2>2. pc[req[q].session] = "200"
    BY <1>2, <2>1 DEF SessionInv
  <2> QED BY <1>2, <2>1, <2>2, CalmTurn DEF Answered, Statuses
<1>3. DOMAIN live'.sessions = DOMAIN disk'.sessions
  BY SessionStep
<1> QED BY <1>1, <1>2, <1>3 DEF SessionInv

LEMMA NextKeepsSessions ==
  /\ TypeOK /\ Alone /\ Unlocked /\ TxnHasOwner /\ RecordInv /\ SessionInv
  /\ [Next]_vars
  => SessionInv'
<1> SUFFICES ASSUME TypeOK, Alone, Unlocked, TxnHasOwner, RecordInv, SessionInv, [Next]_vars, Calm
             PROVE  SessionInv'
  BY DEF SessionInv, Calm, Serial
<1>1. ASSUME NEW r \in Requests, Handle(r) PROVE SessionInv'
  BY <1>1, HandleKeepsSessions
<1>2. ASSUME NEW r \in Requests, Arrive(r) PROVE SessionInv'
  <2>1. /\ \A q \in Requests \ {r} : pc'[q] = pc[q] /\ req'[q] = req[q]
        /\ pc[r] = "new" /\ call' = call /\ live' = live /\ disk' = disk
        /\ pc'[r] \notin {"new", "200"} /\ CanSend(req'[r])
    BY <1>2, ArriveFrame DEF connVars
  <2>2. \A q \in Requests : q \in DOMAIN disk.sessions => q # r
    BY <2>1 DEF SessionInv
  <2>3. ASSUME NEW q \in Requests, pc'[q] # "new", req'[q].kind = "logout",
               req'[q].session \in Requests
        PROVE  pc'[req'[q].session] = "200"
    <3>1. pc[req'[q].session] = "200"
      BY <2>1, <2>3 DEF SessionInv, CanSend
    <3> QED BY <2>1, <2>3, <3>1
  <2> QED BY <2>1, <2>2, <2>3 DEF SessionInv, LoggedIn, InCall
<1>3. CASE Crash
  <2>1. /\ \A q \in Requests : \/ pc'[q] = "lost" /\ pc[q] # "new" /\ pc[q] # "200"
                               \/ pc'[q] = pc[q] /\ pc[q] \in Answered \union {"new"}
        /\ live' = disk /\ disk' = disk /\ req' = req
    BY <1>3, CrashFrame DEF InFlight, Answered, Statuses
  <2>2. ASSUME NEW q \in Requests, pc[q] \in Answered \union {"new"}, LoggedIn(q), pc'[q] = pc[q]
        PROVE  LoggedIn(q)'
    BY <2>2 DEF LoggedIn, InCall, Answered, Statuses, AuditLabels, HoldsMu, AudTxnLabels
  <2> QED BY <2>1, <2>2 DEF SessionInv
<1>4. CASE UNCHANGED <<pc, req, call, live, disk>>
  BY <1>4 DEF SessionInv, LoggedIn, InCall
<1> QED BY <1>1, <1>2, <1>3, <1>4
        DEF Next, Idle, World, CliRead, CliReadDone, CliReserve, CliPersist, Tick, vars, connVars,
            auditVars, handlerVars, Unlocked, Calm

\* Which route a request belongs to, where its label tells.
LEMMA KindOf ==
  ASSUME TypeOK, RecordInv, Calm, NEW r \in Requests
  PROVE  /\ pc[r] \in EnrollTxn \union {"e_begin", "e_audit_reject", "e_audit"} =>
              req[r].kind = "enroll"
         /\ pc[r] \in LoginSteps \union {"l_created"} => req[r].kind = "login"
         /\ pc[r] \in LogoutSteps => req[r].kind = "logout"
         /\ pc[r] \in WhoamiSteps => req[r].kind = "whoami"
BY DEF TypeOK, OnItsRoute, EnrollSteps, RecordInv, Recording

\* The request that takes a step, if it is an enrollment ...
LEMMA EnrollKeeps ==
  ASSUME TypeOK, AuditInv, Alone, Unlocked, TxnHasOwner, RecordInv, Ahead, EffectInv, Calm,
         NEW r \in Requests, Handle(r)
  PROVE  /\ pc'[r] \in {"e_mark", "e_changes", "e_commit"} => req[r].email \in live'.users
         /\ req[r].kind = "enroll" /\ Enrolled(r)' => req[r].email \in disk'.users
<1>1. Within(disk, disk')
  BY HandleGrows
<1>2. pc[r] \in {"e_mark", "e_changes", "e_commit"} => req[r].email \in live.users
  BY DEF EffectInv, Keeping
<1>3. req[r].kind = "enroll" /\ (pc[r] = "e_audit" \/ InCall(r, "200")) =>
        req[r].email \in disk.users
  BY CalmTurn DEF EffectInv, Keeping, Enrolled
<1>4. pc'[r] = "e_mark" => req[r].email \in live'.users
  BY CalmTurn DEF Turn, Effect, Quiet, Done, Change, Becomes
<1>5. pc'[r] = "e_changes" => req[r].email \in live'.users
  BY <1>2, CalmTurn DEF Turn, Effect, Quiet, Done, Change, Becomes
<1>6. pc'[r] = "e_commit" => req[r].email \in live'.users
  BY <1>2, CalmTurn DEF Turn, Effect, RouteTurn, Quiet, Done, Change, Commits, Rollbacks
<1>7. pc'[r] = "e_audit" => req[r].email \in disk'.users
  BY <1>2, CalmTurn DEF Turn, Effect, RouteTurn, Quiet, Done, Change
<1>8. req[r].kind = "enroll" /\ InCall(r, "200")' => req[r].email \in disk.users
  <2>1. CASE pc[r] \in AuditLabels /\ call'[r] = call[r]
    BY <1>3, <2>1 DEF InCall
  <2>2. CASE pc[r] \notin AuditLabels /\ Calling(r)
    <3>1. req[r].kind = "enroll" /\ call'[r].ok = "200" => pc[r] = "e_audit"
      BY <2>2, KindOf DEF Calling, Entry, LoginSteps, LogoutSteps, WhoamiSteps
    <3> QED BY <1>3, <3>1 DEF InCall
  <2>3. CASE pc'[r] \notin AuditLabels
    BY <2>3 DEF InCall
  <2> QED BY <2>1, <2>2, <2>3, CalmTurn DEF Turn, RecordTurn
<1>9. req[r].kind = "enroll" /\ pc'[r] = "200" => req[r].email \in disk.users
  <2>1. pc'[r] = "200" => pc[r] \in AuditLabels \union {"o_changes"} /\ pc'[r] \notin AuditLabels
    BY CalmTurn DEF Turn, RouteTurn, Statuses, AuditLabels, HoldsMu, AudTxnLabels
  <2>2. pc[r] = "o_changes" => req[r].kind = "logout"
    BY KindOf DEF LogoutSteps
  <2> QED BY <1>3, <2>1, <2>2, CalmRecord DEF InCall
<1> QED BY <1>1, <1>4, <1>5, <1>6, <1>7, <1>8, <1>9 DEF Enrolled, Within

\* ... a login ...
LEMMA LoginKeeps ==
  ASSUME TypeOK, AuditInv, Alone, Unlocked, TxnHasOwner, RecordInv, SessionInv, EffectInv, Calm,
         NEW r \in Requests, Handle(r), req[r].kind = "login", LoggedIn(r)'
  PROVE  r \in DOMAIN disk'.sessions
<1>1. LoggedIn(r) => r \in DOMAIN disk.sessions
  BY CalmTurn DEF EffectInv, Keeping
<1>2. DOMAIN disk.sessions \subseteq DOMAIN disk'.sessions
  BY SessionStep
<1>3. CASE pc'[r] = "l_audit"
  BY <1>3, SessionStep
<1>4. CASE pc'[r] \in {"l_created", "200"}
  <2>1. pc[r] \in AuditLabels \union {"o_changes"} /\ pc'[r] \notin AuditLabels
    BY <1>4, CalmTurn DEF Turn, RouteTurn, Statuses, AuditLabels, HoldsMu, AudTxnLabels
  <2>2. pc[r] # "o_changes"
    BY KindOf DEF LogoutSteps
  <2>3. pc[r] \in AuditLabels /\ call[r].ok = pc'[r]
    BY <2>1, <2>2, CalmRecord
  <2> QED BY <1>1, <1>2, <1>4, <2>3 DEF LoggedIn, InCall
<1>5. CASE pc'[r] \in AuditLabels /\ call'[r].ok \in {"l_created", "200"}
  <2>1. CASE pc[r] \in AuditLabels /\ call'[r] = call[r]
    BY <1>1, <1>2, <1>5, <2>1 DEF LoggedIn, InCall
  <2>2. CASE Calling(r)
    <3>1. pc[r] \in {"l_audit", "l_created"}
      BY <1>5, <2>2, KindOf DEF Calling, Entry, LogoutSteps, WhoamiSteps
    <3> QED BY <1>1, <1>2, <3>1 DEF LoggedIn
  <2> QED BY <1>5, <2>1, <2>2, CalmTurn DEF Turn, RecordTurn
<1> QED BY <1>3, <1>4, <1>5 DEF LoggedIn, InCall

\* ... or a logout.
LEMMA LogoutKeeps ==
  ASSUME TypeOK, AuditInv, Alone, Unlocked, TxnHasOwner, RecordInv, SessionInv, Ahead, EffectInv,
         Calm, NEW r \in Requests, Handle(r)
  PROVE  /\ pc'[r] = "o_changes" =>
              /\ changes' > 0 <=> req[r].session \in DOMAIN disk'.sessions
              /\ req[r].session \in DOMAIN disk'.sessions => req[r].session \in disk'.revoked
         /\ pc'[r] \in {"o_audit"} \union AuditLabels /\ req[r].kind = "logout" =>
              req[r].session \in disk'.revoked
         /\ pc'[r] \in Statuses /\ req[r].kind = "logout" =>
              \/ req[r].session \notin DOMAIN disk'.sessions
              \/ req[r].session \in disk'.revoked /\ Recorded("session_revoked", r)'
<1>1. disk.revoked \subseteq disk'.revoked
  BY HandleGrows DEF Within
<1>2. pc[r] = "o_changes" =>
        /\ changes > 0 <=> req[r].session \in DOMAIN disk.sessions
        /\ req[r].session \in DOMAIN disk.sessions => req[r].session \in disk.revoked
  BY DEF EffectInv, Keeping
<1>3. pc[r] \in {"o_audit"} \union AuditLabels /\ req[r].kind = "logout" =>
        req[r].session \in disk.revoked
  BY DEF EffectInv, Keeping
<1>4. ASSUME pc'[r] = "o_changes"
      PROVE  /\ changes' > 0 <=> req[r].session \in DOMAIN disk'.sessions
             /\ req[r].session \in DOMAIN disk'.sessions => req[r].session \in disk'.revoked
  <2>1. pc[r] = "o_update" /\ ~inTxn
    BY <1>4, CalmTurn DEF Turn, RouteTurn, TxnLabels, AudTxnLabels, EnrollTxn, WhoamiTxn
  <2>2. Change(r) /\ disk' = live'
    BY <2>1, CalmTurn DEF Turn, Effect, Quiet, Commits, Rollbacks
  <2> QED BY <2>1, <2>2 DEF Change, Becomes
<1>5. ASSUME pc'[r] \in {"o_audit"} \union AuditLabels, req[r].kind = "logout"
      PROVE  req[r].session \in disk.revoked
  <2>1. CASE pc'[r] = "o_audit"
    BY <1>2, <2>1, CalmTurn DEF Turn, RouteTurn
  <2>2. CASE pc'[r] \in AuditLabels /\ pc[r] \in AuditLabels
    BY <1>3, <1>5, <2>2
  <2>3. CASE pc'[r] \in AuditLabels /\ Calling(r)
    BY <1>3, <1>5, <2>3, KindOf DEF Calling, LoginSteps, WhoamiSteps
  <2> QED BY <1>5, <2>1, <2>2, <2>3, CalmTurn DEF Turn, RecordTurn
<1>6. ASSUME pc'[r] \in Statuses, req[r].kind = "logout"
      PROVE  \/ req[r].session \notin DOMAIN disk'.sessions
             \/ req[r].session \in disk'.revoked /\ Recorded("session_revoked", r)'
  <2>1. pc'[r] \notin AuditLabels \union {"l_audit"}
    BY <1>6 DEF Statuses, AuditLabels, HoldsMu, AudTxnLabels
  <2>2. CASE pc[r] \in AuditLabels
    <3>1. pc[r] = "aud_commit" /\ disk' = live /\ Told(r) /\ OnConn(call[r].evt)
      BY <2>1, <2>2, CalmRecord DEF RecordInv, Recording
    <3>2. call[r].evt = <<"session_revoked", r>>
      BY <1>6, <3>1 DEF Told, Entry
    <3>3. Recorded("session_revoked", r)'
      BY <3>1, <3>2 DEF OnConn, Recorded
    <3> QED BY <1>1, <1>3, <1>6, <2>2, <3>3
  <2>3. CASE pc[r] = "o_changes" /\ ~(changes > 0)
    BY <1>2, <2>1, <2>3, SessionStep
  <2>4. pc[r] \notin Refusing
    BY <1>6, KindOf DEF Refusing, EnrollTxn, LoginSteps, WhoamiSteps, WhoamiTxn
  <2> QED BY <1>6, <2>2, <2>3, <2>4, CalmTurn DEF Turn, RouteTurn
<1> QED BY <1>1, <1>4, <1>5, <1>6

LEMMA HandleKeepsEffect ==
  ASSUME TypeOK, AuditInv, Alone, Unlocked, TxnHasOwner, RecordInv, SessionInv, Ahead, EffectInv,
         Calm, NEW r \in Requests, Handle(r)
  PROVE  EffectInv'
<1>1. Keeping(r)'
  <2>1. req' = req
    BY CalmTurn
  <2> QED BY <2>1, EnrollKeeps, LoginKeeps, LogoutKeeps DEF Keeping
<1>2. ASSUME NEW q \in Requests \ {r} PROVE Keeping(q)'
  <2>1. /\ pc'[q] = pc[q] /\ pc[q] \in Answered \union {"new"} /\ req' = req
        /\ pc[q] \notin AuditLabels
    BY CalmTurn DEF Answered, Statuses, AuditLabels, HoldsMu, AudTxnLabels
  <2>2. Within(disk, disk')
    BY HandleGrows
  <2>3. Keeping(q)
    BY DEF EffectInv
  <2>4. pc[q] \notin {"e_mark", "e_changes", "e_commit", "e_audit", "o_changes", "o_audit"}
    BY <2>1 DEF Answered, Statuses
  <2>5. Enrolled(q)' => Enrolled(q)
    BY <2>1 DEF Enrolled, InCall
  <2>6. LoggedIn(q)' => LoggedIn(q)
    BY <2>1 DEF LoggedIn, InCall
  <2>7. ASSUME pc[q] \in Statuses, req[q].kind = "logout"
        PROVE  \/ req[q].session \notin DOMAIN disk'.sessions
               \/ req[q].session \in disk'.revoked /\ Recorded("session_revoked", q)'
    <3>1. CASE req[q].session \in disk.revoked /\ Recorded("session_revoked", q)
      BY <2>2, <3>1, RecordedStays DEF Within
    <3>2. CASE req[q].session \notin DOMAIN disk.sessions
      <4>1. pc[q] # "new"
        BY <2>7 DEF Statuses
      <4>2. req[q].session \in Requests => pc[req[q].session] = "200"
        BY <2>7, <4>1 DEF SessionInv
      <4>3. req[q].session # r
        BY <4>2, CalmTurn DEF Answered, Statuses
      <4> QED BY <3>2, <4>3, SessionStep
    <3> QED BY <2>3, <2>7, <3>1, <3>2 DEF Keeping
  <2> QED BY <2>1, <2>2, <2>3, <2>4, <2>5, <2>6, <2>7 DEF Keeping, Within
<1> QED BY <1>1, <1>2 DEF EffectInv

LEMMA NextKeepsEffect ==
  /\ TypeOK /\ AuditInv /\ Alone /\ Unlocked /\ TxnHasOwner /\ RecordInv /\ SessionInv /\ Ahead
  /\ EffectInv /\ [Next]_vars
  => EffectInv'
<1> SUFFICES ASSUME TypeOK, AuditInv, Alone, Unlocked, TxnHasOwner, RecordInv, SessionInv, Ahead,
                    EffectInv, [Next]_vars, Calm
             PROVE  EffectInv'
  BY DEF EffectInv, Calm, Serial
<1>1. ASSUME NEW r \in Requests, Handle(r) PROVE EffectInv'
  BY <1>1, HandleKeepsEffect
<1>2. ASSUME NEW r \in Requests, Arrive(r) PROVE EffectInv'
  <2>1. ASSUME NEW q \in Requests PROVE Keeping(q)'
    <3>1. CASE q = r
      BY <1>2, <3>1, ArriveFrame
         DEF Keeping, Enrolled, LoggedIn, InCall, AuditLabels, HoldsMu, AudTxnLabels, Statuses
    <3>2. CASE q # r
      <4>1. /\ pc'[q] = pc[q] /\ req'[q] = req[q] /\ call' = call /\ changes' = changes
            /\ live' = live /\ disk' = disk
        BY <1>2, <3>2, ArriveFrame DEF connVars
      <4> QED BY <4>1 DEF EffectInv, Keeping, Enrolled, LoggedIn, InCall, Recorded
    <3> QED BY <3>1, <3>2
  <2> QED BY <2>1 DEF EffectInv
<1>3. CASE Crash
  <2>1. ASSUME NEW q \in Requests PROVE Keeping(q)'
    <3>1. /\ \/ pc'[q] = "lost"
             \/ pc'[q] = pc[q] /\ pc[q] \in Answered \union {"new"}
          /\ disk' = disk /\ req' = req
      BY <1>3, CrashFrame
    <3>2. pc'[q] \notin AuditLabels \union {"e_mark", "e_changes", "e_commit", "e_audit",
                                            "l_audit", "l_created", "o_changes", "o_audit"}
      BY <3>1 DEF Answered, Statuses, AuditLabels, HoldsMu, AudTxnLabels
    <3>3. pc'[q] # "lost" => pc'[q] = pc[q]
      BY <3>1
    <3> QED BY <3>1, <3>2, <3>3
            DEF EffectInv, Keeping, Enrolled, LoggedIn, InCall, Recorded, Statuses
  <2> QED BY <2>1 DEF EffectInv
<1>4. CASE UNCHANGED <<pc, req, call, live, disk, changes>>
  BY <1>4 DEF EffectInv, Keeping, Enrolled, LoggedIn, InCall, Recorded
<1> QED BY <1>1, <1>2, <1>3, <1>4
        DEF Next, Idle, World, CliRead, CliReadDone, CliReserve, CliPersist, Tick, vars, connVars,
            auditVars, handlerVars, Unlocked, Calm

LEMMA CalmInit == Init => Unlocked /\ Alone /\ Ahead /\ RecordInv /\ SessionInv /\ EffectInv
<1> SUFFICES ASSUME Init PROVE Unlocked /\ Alone /\ Ahead /\ RecordInv /\ SessionInv /\ EffectInv
  OBVIOUS
<1>1. \A r \in Requests : pc[r] = "new"
  BY DEF Init
<1>2. Unlocked /\ Alone /\ Ahead
  BY <1>1, WithinSelf DEF Init, ConnInit, Unlocked, Alone, InFlight, Inside, TxnLabels,
         AudTxnLabels, EnrollTxn, WhoamiTxn, Ahead
<1>3. RecordInv
  BY <1>1 DEF RecordInv, Recording, AuditLabels, HoldsMu, AudTxnLabels
<1>4. SessionInv
  <2>1. disk.sessions = SeedSessions /\ live.sessions = SeedSessions
    BY DEF Init, ConnInit, SeedImage
  <2> QED BY <1>1, <2>1, AuthAssumption DEF SessionInv
<1>5. EffectInv
  BY <1>1 DEF EffectInv, Keeping, AuditLabels, HoldsMu, AudTxnLabels, Statuses
<1> QED BY <1>2, <1>3, <1>4, <1>5

LEMMA CalmAlways ==
  Spec => [](TypeOK /\ Alone /\ RecordInv /\ SessionInv /\ EffectInv)
<1>1. Init => Unlocked /\ Alone /\ Ahead /\ RecordInv /\ SessionInv /\ EffectInv
  BY CalmInit
<1> QED BY <1>1, NextKeepsAlone, NextGrows, NextKeepsRecord, NextKeepsSessions, NextKeepsEffect,
           TypeCorrect, AuditInvariant, TransactionsEnd, PTL DEF Spec

\* What the handlers answer 200 was done and kept: the enrolled user and the session
\* of a login are on disk, the session of a logout is revoked there.  For requests
\* served one at a time while no admin CLI is at work, through any crashes.
THEOREM AnswersHold ==
  ASSUME MaxConcurrent = 1, CliEnabled = FALSE
  PROVE  Spec => []AnswersAreTrue
<1>1. Calm
  BY DEF Calm, Serial
<1>2. SessionInv /\ EffectInv => AnswersAreTrue
  <2> SUFFICES ASSUME SessionInv, EffectInv, NEW r \in Requests, pc[r] = "200"
               PROVE  /\ req[r].kind = "enroll" => req[r].email \in disk.users
                      /\ req[r].kind = "login" => r \in DOMAIN disk.sessions
                      /\ req[r].kind = "logout" =>
                           {req[r].session} \intersect DOMAIN disk.sessions \subseteq disk.revoked
    BY DEF AnswersAreTrue
  <2> QED BY <1>1 DEF EffectInv, Keeping, Enrolled, LoggedIn, Statuses
<1> QED BY <1>2, CalmAlways, PTL

\* "Every sensitive operation is audit-logged": under the same two conditions each 200
\* has its event in the table, and no login or logout that was answered has changed
\* the sessions without one.
THEOREM EffectsHold ==
  ASSUME MaxConcurrent = 1, CliEnabled = FALSE
  PROVE  Spec => []EffectsAreRecorded
<1>1. Calm
  BY DEF Calm, Serial
<1>2. TypeOK /\ RecordInv /\ SessionInv /\ EffectInv => EffectsAreRecorded
  <2> SUFFICES ASSUME TypeOK, RecordInv, SessionInv, EffectInv PROVE EffectsAreRecorded
    OBVIOUS
  <2>1. \A r \in Requests : pc[r] = "200" /\ req[r].kind # "logout" =>
          Recorded(Promised(req[r].kind), r)
    BY <1>1 DEF RecordInv, Recording
  <2>2. RecordIsKept
    BY <2>1 DEF RecordIsKept, Promised
  <2>3. ASSUME NEW r \in Requests, pc[r] \in Statuses, req[r].kind = "login",
               r \in DOMAIN disk.sessions
        PROVE  Recorded("session_created", r)
    <3>1. pc[r] = "200"
      BY <1>1, <2>3 DEF SessionInv, LoggedIn, InCall, Statuses, AuditLabels, HoldsMu, AudTxnLabels
    <3> QED BY <2>1, <2>3, <3>1 DEF Promised
  <2>4. ASSUME NEW r \in Requests, pc[r] \in Statuses, req[r].kind = "logout",
               req[r].session \in disk.revoked
        PROVE  Recorded("session_revoked", r)
    BY <1>1, <2>4 DEF EffectInv, Keeping, TypeOK, Image
  <2> QED BY <2>2, <2>3, <2>4 DEF EffectsAreRecorded
<1> QED BY <1>2, CalmAlways, PTL
=============================================================================
