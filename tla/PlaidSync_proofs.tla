-------------------------- MODULE PlaidSync_proofs --------------------------
(***************************************************************************)
(* Theorems about PlaidSync for every set of accounts, transactions and    *)
(* requests: its types, and that the stored cursor never runs ahead of the *)
(* rows when callers take turns on an account and nobody else writes.      *)
(***************************************************************************)
EXTENDS PlaidSync, TLAPS

\* The callers of sync_account keep to its contract, and the connection is theirs.
Undisturbed == TakeTurns /\ ~Foreign /\ ~CliEnabled

Connected ==
  /\ inTxn \in BOOLEAN /\ changes \in {0, 1} /\ fileLock \in FileLocks
  /\ Image(live) /\ Image(disk)

Versioned ==
  /\ bank \in [Accounts -> Seq([Txs -> Vals \union {None}])]
  /\ \A a \in Accounts : Len(bank[a]) > 0

Placed ==
  /\ pc \in [Syncers -> WorkerLabels \union RequestLabels]
  /\ acct \in [Syncers -> Accounts \union {NoAccount}]
  /\ from \in [Syncers -> Nat]
  /\ page \in [Syncers -> PageType]
  /\ \A s \in Syncers : Place(s)

Counted == todo \subseteq Accounts /\ stopping \in BOOLEAN /\ crashes \in Nat

LEMMA TypeParts == TypeOK <=> Connected /\ Versioned /\ Placed /\ Counted
BY Zenon DEF TypeOK, Connected, Versioned, Placed, Counted

\* Thread s is now at l, syncs a from cursor c on, and has p left to apply.
Moves(s, l, a, c, p) ==
  /\ pc' = [pc EXCEPT ![s] = l]
  /\ acct' = [acct EXCEPT ![s] = a]
  /\ from' = [from EXCEPT ![s] = c]
  /\ page' = [page EXCEPT ![s] = p]

LabelsOf(s) == IF s = Worker THEN WorkerLabels ELSE RequestLabels

\* What the operators that end or start a sync do to the thread's own place.
LEMMA Stays ==
  ASSUME Placed, NEW s \in Syncers
  PROVE  /\ pc = [pc EXCEPT ![s] = pc[s]]
         /\ acct = [acct EXCEPT ![s] = acct[s]]
         /\ from = [from EXCEPT ![s] = from[s]]
         /\ page = [page EXCEPT ![s] = page[s]]
         /\ page[s] \in PageType /\ from[s] \in Nat
BY DEF Placed

LEMMA BankFacts ==
  ASSUME Versioned, NEW a \in Accounts
  PROVE  /\ Latest(a) \in Nat
         /\ \A n \in 0 .. Latest(a) : At(a, n) \in [Txs -> Vals \union {None}]
BY DEF Versioned, Latest, At

-----------------------------------------------------------------------------
(* Types                                                                    *)

LEMMA MoveTypes ==
  ASSUME Placed, UNCHANGED bank, NEW s \in Syncers,
         NEW l \in LabelsOf(s), NEW a \in IF l \in SyncLabels THEN Accounts ELSE {NoAccount},
         NEW c \in Nat, NEW p \in PageType,
         Moves(s, l, a, c, p),
         a \in Accounts =>
           /\ c <= Latest(a) /\ p.to <= Latest(a) /\ p.current <= Latest(a)
           /\ p.added \union p.modified \union p.removed \subseteq TxsOf(a),
         a = NoAccount => c = 0 /\ p = NoPage
  PROVE  Placed'
<1>1. /\ pc' \in [Syncers -> WorkerLabels \union RequestLabels]
      /\ acct' \in [Syncers -> Accounts \union {NoAccount}]
      /\ from' \in [Syncers -> Nat]
      /\ page' \in [Syncers -> PageType]
  BY DEF Placed, Moves, LabelsOf
<1>2. ASSUME NEW u \in Syncers PROVE Place(u)'
  <2>1. CASE u = s
    <3>1. pc'[u] = l /\ acct'[u] = a /\ from'[u] = c /\ page'[u] = p
      BY <2>1 DEF Placed, Moves
    <3> QED BY <3>1, <2>1 DEF Place, LabelsOf, Latest, ToApply, TxsOf
  <2>2. CASE u # s
    <3>1. pc'[u] = pc[u] /\ acct'[u] = acct[u] /\ from'[u] = from[u] /\ page'[u] = page[u]
      BY <2>2 DEF Placed, Moves
    <3> QED BY <3>1 DEF Placed, Place, Latest, ToApply, TxsOf
  <2> QED BY <2>1, <2>2
<1> QED BY <1>1, <1>2 DEF Placed, PageType

LEMMA TryTypes ==
  ASSUME Connected, UNCHANGED <<bank, fileLock>>, NEW legal, NEW i, Image(i), NEW rows \in {0, 1},
         Try(legal, i, rows)
  PROVE  Connected'
<1>1. live' \in {live, i} /\ disk' \in {disk, i} /\ inTxn' = inTxn /\ changes' \in {0, 1}
  BY DEF Try, Write, WriteFails, Connected
<1> QED BY <1>1 DEF Connected, Image, ImageType, Latest

LEMMA SameConn ==
  ASSUME Connected, UNCHANGED <<connVars, bank, fileLock>>
  PROVE  Connected'
BY DEF Connected, connVars, Image, ImageType, Latest

LEMMA RowTypes ==
  ASSUME Connected, Versioned, NEW a \in Accounts, NEW n \in 0 .. Latest(a), NEW t \in Txs
  PROVE  Image(SetRow(t, At(a, n)[t])) /\ Image(SetRow(t, None))
<1>1. At(a, n)[t] \in Vals \union {None}
  BY BankFacts
<1> QED BY <1>1 DEF Connected, Image, ImageType, SetRow

\* The steps of a thread inside sync_account leave bank, lock and flags alone.
World == <<fileLock, bank, stopping, crashes>>

LEMMA LeaveTypes ==
  ASSUME Placed, UNCHANGED bank, NEW s \in Syncers, pc[s] \in SyncLabels,
         NEW answer \in {"200", "500"}, Leave(s, answer)
  PROVE  Placed' /\ UNCHANGED todo
<1> DEFINE l == IF s = Worker THEN "next" ELSE answer
<1>1. l \in LabelsOf(s) /\ l \notin SyncLabels
  BY DEF LabelsOf, WorkerLabels, RequestLabels, SyncLabels
<1>2. Moves(s, l, NoAccount, 0, NoPage)
  BY DEF Leave, Goto, Moves
<1>3. NoPage \in PageType
  BY DEF NoPage, PageType
<1> HIDE DEF l
<1>4. NoAccount \notin Accounts
  BY SyncAssumption
<1> QED BY <1>1, <1>2, <1>3, <1>4, MoveTypes DEF Leave

LEMMA EndTypes ==
  ASSUME Placed, UNCHANGED bank, NEW s \in Syncers, pc[s] \in SyncLabels, Return(s) \/ Throw(s)
  PROVE  Placed' /\ UNCHANGED todo
BY LeaveTypes DEF Return, Throw

\* A step within sync_account that keeps its account.
LEMMA StepTypes ==
  ASSUME TypeOK, UNCHANGED bank, NEW s \in Syncers, pc[s] \in SyncLabels,
         NEW l \in SyncLabels, NEW c \in Nat, NEW p \in PageType,
         c <= Latest(acct[s]), p.to <= Latest(acct[s]), p.current <= Latest(acct[s]),
         p.added \union p.modified \union p.removed \subseteq TxsOf(acct[s]),
         Moves(s, l, acct[s], c, p)
  PROVE  Placed'
<1>1. acct[s] \in Accounts
  BY DEF TypeOK, Place
<1>2. l \in LabelsOf(s) /\ acct[s] # NoAccount
  BY <1>1, SyncAssumption DEF LabelsOf, WorkerLabels, RequestLabels
<1> QED BY <1>1, <1>2, TypeParts, MoveTypes

\* What a thread inside sync_account has in its hands.
LEMMA InSync ==
  ASSUME TypeOK, NEW s \in Syncers, pc[s] \in SyncLabels
  PROVE  /\ acct[s] \in Accounts
         /\ from[s] \in Nat /\ from[s] <= Latest(acct[s])
         /\ page[s] \in PageType
         /\ page[s].to \in 0 .. Latest(acct[s])
         /\ page[s].current \in 0 .. Latest(acct[s])
         /\ ToApply(s) \subseteq TxsOf(acct[s])
         /\ Latest(acct[s]) \in Nat
<1>1. acct[s] \in Accounts
  BY DEF TypeOK, Place
<1>2. Latest(acct[s]) \in Nat
  BY <1>1, TypeParts, BankFacts
<1>3. page[s] \in PageType /\ from[s] \in Nat /\ Place(s)
  BY DEF TypeOK
<1> QED BY <1>1, <1>2, <1>3 DEF Place, PageType

LEMMA FetchTypes ==
  ASSUME TypeOK, NEW a \in Accounts, NEW c \in 0 .. Latest(a), NEW n \in c .. Latest(a)
  PROVE  /\ Answer(a, c, n) \in PageType
         /\ Answer(a, c, n).to = n /\ Answer(a, c, n).current = Latest(a)
         /\ Answer(a, c, n).added \union Answer(a, c, n).modified \union Answer(a, c, n).removed
              \subseteq TxsOf(a)
<1>1. Latest(a) \in Nat
  BY TypeParts, BankFacts
<1> QED BY <1>1 DEF Answer, PageType, TxsOf

\* What the three loops over a page have in common: one transaction t comes off the
\* page, and at most t's row changes, to what the page says of it.
PageStep(s, t, p, i, legal) ==
  /\ t \in ToApply(s)
  /\ Moves(s, "apply", acct[s], from[s], p)
  /\ p.to = page[s].to /\ p.current = page[s].current
  /\ p.added \subseteq page[s].added
  /\ p.modified \subseteq page[s].modified
  /\ p.removed \subseteq page[s].removed
  /\ ToApply(s) \ {t} \subseteq p.added \union p.modified \union p.removed
  /\ \E rows \in {0, 1} : Try(legal, i, rows)
  /\ acct[s] \in live.accounts => legal
  /\ i.accounts = live.accounts /\ i.cursor = live.cursor
  /\ \A u \in Txs \ {t} : i.rows[u] = live.rows[u]
  /\ \/ i.rows[t] = At(acct[s], page[s].to)[t]
     \/ t \in page[s].modified /\ live.rows[t] = None /\ i.rows[t] = None
     \/ t \in page[s].removed /\ i.rows[t] = None

Loops(s) == ApplyAdded(s) \/ ApplyModified(s) \/ ApplyRemoved(s)

LEMMA RowSet ==
  ASSUME live \in ImageType, NEW t \in Txs, NEW v
  PROVE  LET i == SetRow(t, v)
         IN  /\ i.accounts = live.accounts /\ i.cursor = live.cursor
             /\ i.rows[t] = v
             /\ \A u \in Txs \ {t} : i.rows[u] = live.rows[u]
BY DEF ImageType, SetRow

LEMMA LoopStep ==
  ASSUME TypeOK, NEW s \in Syncers, Loops(s)
  PROVE  /\ pc[s] = "apply" /\ UNCHANGED todo
         /\ \E t, p, i, legal : t \in Txs /\ p \in PageType /\ Image(i) /\ PageStep(s, t, p, i, legal)
<1>1. pc[s] = "apply" /\ UNCHANGED <<pc, acct, from, todo>>
  BY DEF Loops, ApplyAdded, ApplyModified, ApplyRemoved
<1>2. /\ acct[s] \in Accounts /\ page[s] \in PageType
      /\ page[s].to \in 0 .. Latest(acct[s]) /\ ToApply(s) \subseteq TxsOf(acct[s])
  BY <1>1, InSync DEF SyncLabels
<1>3. /\ pc' = [pc EXCEPT ![s] = "apply"] /\ acct' = [acct EXCEPT ![s] = acct[s]]
      /\ from' = [from EXCEPT ![s] = from[s]]
  BY <1>1, TypeParts, Stays
<1>4. live \in ImageType /\ Image(live)
  BY DEF TypeOK, Image
<1>5. ASSUME NEW t \in ToApply(s)
      PROVE  /\ t \in Txs
             /\ Image(SetRow(t, At(acct[s], page[s].to)[t])) /\ Image(SetRow(t, None))
  <2>1. t \in Txs
    BY <1>2 DEF TxsOf
  <2> QED BY <2>1, <1>2, TypeParts, RowTypes
<1>6. CASE ApplyAdded(s)
  <2>1. PICK t \in page[s].added :
          /\ Try(acct[s] \in live.accounts, SetRow(t, At(acct[s], page[s].to)[t]), 1)
          /\ page' = [page EXCEPT ![s].added = @ \ {t}]
    BY <1>6 DEF ApplyAdded
  <2> DEFINE p == [page[s] EXCEPT !.added = @ \ {t}]
             i == SetRow(t, At(acct[s], page[s].to)[t])
  <2>2. t \in ToApply(s) /\ t \in Txs /\ Image(i)
    BY <1>5 DEF ToApply
  <2>3. page' = [page EXCEPT ![s] = p] /\ p \in PageType
    BY <2>1, <1>2 DEF PageType
  <2>4. /\ p.to = page[s].to /\ p.current = page[s].current
        /\ p.added = page[s].added \ {t} /\ p.modified = page[s].modified
        /\ p.removed = page[s].removed
    BY <1>2 DEF PageType
  <2> HIDE DEF p
  <2>5. PageStep(s, t, p, i, acct[s] \in live.accounts)
    <3>1. /\ i.accounts = live.accounts /\ i.cursor = live.cursor
          /\ i.rows[t] = At(acct[s], page[s].to)[t]
          /\ \A u \in Txs \ {t} : i.rows[u] = live.rows[u]
      BY <2>2, <1>4, RowSet
    <3> HIDE DEF i
    <3>2. \E rows \in {0, 1} : Try(acct[s] \in live.accounts, i, rows)
      BY <2>1 DEF i
    <3> QED BY <1>3, <2>2, <2>3, <2>4, <3>1, <3>2 DEF PageStep, Moves, ToApply
  <2> QED BY <1>1, <2>2, <2>3, <2>5
<1>7. CASE ApplyModified(s)
  <2>1. PICK t \in page[s].modified :
          /\ IF live.rows[t] = None
             THEN Try(TRUE, live, 0)
             ELSE Try(TRUE, SetRow(t, At(acct[s], page[s].to)[t]), 1)
          /\ page' = [page EXCEPT ![s].modified = @ \ {t}]
    BY <1>7 DEF ApplyModified
  <2> DEFINE p == [page[s] EXCEPT !.modified = @ \ {t}]
             i == IF live.rows[t] = None THEN live ELSE SetRow(t, At(acct[s], page[s].to)[t])
  <2>2. t \in ToApply(s) /\ t \in Txs /\ Image(i)
    BY <1>4, <1>5 DEF ToApply
  <2>3. page' = [page EXCEPT ![s] = p] /\ p \in PageType
    BY <2>1, <1>2 DEF PageType
  <2>4. /\ p.to = page[s].to /\ p.current = page[s].current
        /\ p.added = page[s].added /\ p.modified = page[s].modified \ {t}
        /\ p.removed = page[s].removed
    BY <1>2 DEF PageType
  <2> HIDE DEF p
  <2>5. PageStep(s, t, p, i, TRUE)
    <3>1. /\ i.accounts = live.accounts /\ i.cursor = live.cursor
          /\ \/ i.rows[t] = At(acct[s], page[s].to)[t]
             \/ live.rows[t] = None /\ i.rows[t] = None
          /\ \A u \in Txs \ {t} : i.rows[u] = live.rows[u]
      BY <2>2, <1>4, RowSet
    <3>2. \E rows \in {0, 1} : Try(TRUE, i, rows)
      BY <2>1
    <3> HIDE DEF i
    <3> QED BY <1>3, <2>2, <2>3, <2>4, <3>1, <3>2 DEF PageStep, Moves, ToApply
  <2> QED BY <1>1, <2>2, <2>3, <2>5
<1>8. CASE ApplyRemoved(s)
  <2>1. PICK t \in page[s].removed :
          /\ Try(TRUE, SetRow(t, None), IF live.rows[t] = None THEN 0 ELSE 1)
          /\ page' = [page EXCEPT ![s].removed = @ \ {t}]
    BY <1>8 DEF ApplyRemoved
  <2> DEFINE p == [page[s] EXCEPT !.removed = @ \ {t}]
             i == SetRow(t, None)
  <2>2. t \in ToApply(s) /\ t \in Txs /\ Image(i)
    BY <1>5 DEF ToApply
  <2>3. page' = [page EXCEPT ![s] = p] /\ p \in PageType
    BY <2>1, <1>2 DEF PageType
  <2>4. /\ p.to = page[s].to /\ p.current = page[s].current
        /\ p.added = page[s].added /\ p.modified = page[s].modified
        /\ p.removed = page[s].removed \ {t}
    BY <1>2 DEF PageType
  <2> HIDE DEF p
  <2>5. PageStep(s, t, p, i, TRUE)
    <3>1. /\ i.accounts = live.accounts /\ i.cursor = live.cursor
          /\ i.rows[t] = None
          /\ \A u \in Txs \ {t} : i.rows[u] = live.rows[u]
      BY <2>2, <1>4, RowSet
    <3> HIDE DEF i
    <3>2. \E rows \in {0, 1} : Try(TRUE, i, rows)
      BY <2>1 DEF i
    <3> QED BY <1>3, <2>2, <2>3, <2>4, <3>1, <3>2 DEF PageStep, Moves, ToApply
  <2> QED BY <1>1, <2>2, <2>3, <2>5
<1> QED BY <1>6, <1>7, <1>8 DEF Loops

LEMMA SyncTypes ==
  ASSUME TypeOK, UNCHANGED World, NEW s \in Syncers, SyncAccount(s)
  PROVE  Connected' /\ Placed' /\ todo' \subseteq Accounts
<1> USE DEF World
<1>1. /\ pc[s] \in SyncLabels /\ Placed /\ Connected /\ todo \subseteq Accounts
  BY TypeParts DEF SyncAccount, Check, FetchToken, GetCursor, FetchPage, FetchFails, ApplyAdded,
     ApplyModified, ApplyRemoved, StoreCursor, UpdateBalance, Audit, SyncLabels, Counted
<1>2. /\ acct[s] \in Accounts
      /\ from[s] \in Nat /\ from[s] <= Latest(acct[s])
      /\ page[s] \in PageType
      /\ page[s].to \in 0 .. Latest(acct[s])
      /\ page[s].current \in 0 .. Latest(acct[s])
      /\ page[s].added \union page[s].modified \union page[s].removed \subseteq TxsOf(acct[s])
      /\ Latest(acct[s]) \in Nat
  BY <1>1, InSync DEF ToApply
<1>3. Image(live) /\ live \in ImageType
  BY DEF TypeOK, Image
<1>4. \* a step that keeps the account, the cursor it has read and the page
      ASSUME NEW l \in SyncLabels, Goto(s, l), UNCHANGED <<acct, from, page>>
      PROVE  Placed'
  <2>1. Moves(s, l, acct[s], from[s], page[s])
    BY <1>1, <1>4, Stays DEF Moves, Goto
  <2> QED BY <2>1, <1>1, <1>2, StepTypes
<1>5. CASE Check(s)
  <2>1. UNCHANGED connVars /\ UNCHANGED todo /\ ((Goto(s, "token") /\ UNCHANGED <<acct, from, page>>) \/ Throw(s))
    BY <1>5, <1>1, EndTypes DEF Check
  <2> QED BY <2>1, <1>1, <1>4, EndTypes, SameConn DEF SyncLabels
<1>6. CASE FetchToken(s)
  <2>1. UNCHANGED connVars /\ UNCHANGED todo
        /\ ((Goto(s, "cursor") /\ UNCHANGED <<acct, from, page>>) \/ Return(s) \/ Throw(s))
    BY <1>6, <1>1, EndTypes DEF FetchToken
  <2> QED BY <2>1, <1>1, <1>4, EndTypes, SameConn DEF SyncLabels
<1>7. CASE GetCursor(s)
  <2>1. PICK c \in {live.cursor[acct[s]], 0} : from' = [from EXCEPT ![s] = c]
    BY <1>7 DEF GetCursor
  <2>2. c \in Nat /\ c <= Latest(acct[s])
    BY <1>2, <1>3 DEF Image, ImageType
  <2>3. Moves(s, "fetch", acct[s], c, page[s])
    BY <1>7, <2>1, <1>1, Stays DEF GetCursor, Moves, Goto
  <2>4. "fetch" \in SyncLabels
    BY DEF SyncLabels
  <2>5. Placed'
    BY <2>2, <2>3, <2>4, <1>1, <1>2, StepTypes
  <2> QED BY <2>5, <1>7, <1>1, SameConn DEF GetCursor
<1>8. CASE FetchPage(s)
  <2>1. PICK n \in from[s] .. Latest(acct[s]) :
          page' = [page EXCEPT ![s] = Answer(acct[s], from[s], n)]
    BY <1>8 DEF FetchPage
  <2> DEFINE p == Answer(acct[s], from[s], n)
  <2>2. /\ p \in PageType /\ p.to = n /\ p.current = Latest(acct[s])
        /\ p.added \union p.modified \union p.removed \subseteq TxsOf(acct[s])
    <3>1. from[s] \in 0 .. Latest(acct[s])
      BY <1>2
    <3> QED BY <3>1, <1>2, FetchTypes
  <2>3. Moves(s, "apply", acct[s], from[s], p)
    BY <1>8, <2>1, <1>1, Stays DEF FetchPage, Moves, Goto
  <2> HIDE DEF p
  <2>4. "apply" \in SyncLabels
    BY DEF SyncLabels
  <2>5. Placed'
    BY <2>2, <2>3, <2>4, <1>1, <1>2, StepTypes
  <2> QED BY <2>5, <1>8, <1>1, SameConn DEF FetchPage
<1>9. CASE FetchFails(s) \/ Audit(s)
  <2>1. UNCHANGED connVars /\ (Return(s) \/ Throw(s))
    BY <1>9 DEF FetchFails, Audit
  <2> QED BY <2>1, <1>1, EndTypes, SameConn
<1>10. CASE Loops(s)
  <2>1. PICK t, p, i, legal : t \in Txs /\ p \in PageType /\ Image(i) /\ PageStep(s, t, p, i, legal)
    BY <1>10, LoopStep
  <2>2. Placed'
    <3>1. "apply" \in SyncLabels
      BY DEF SyncLabels
    <3>2. /\ p.to = page[s].to /\ p.current = page[s].current
          /\ p.added \union p.modified \union p.removed \subseteq TxsOf(acct[s])
          /\ Moves(s, "apply", acct[s], from[s], p)
      BY <2>1, <1>2 DEF PageStep
    <3> QED BY <2>1, <3>1, <3>2, <1>1, <1>2, StepTypes
  <2>3. Connected'
    BY <2>1, <1>1, TryTypes DEF PageStep
  <2> QED BY <2>2, <2>3, <1>1, <1>10, LoopStep
<1>11. CASE StoreCursor(s)
  <2>1. Placed' /\ UNCHANGED todo
    BY <1>11, <1>4 DEF StoreCursor, SyncLabels
  <2>2. Connected'
    <3>1. CASE page[s].to = 0
      BY <3>1, <1>11, <1>1, SameConn DEF StoreCursor
    <3>2. CASE page[s].to # 0
      <4> DEFINE i == [live EXCEPT !.cursor[acct[s]] = page[s].to]
      <4>1. Image(i)
        BY <1>2, <1>3 DEF Image, ImageType
      <4>2. Try(TRUE, i, 1)
        BY <1>11, <3>2 DEF StoreCursor
      <4> QED BY <4>1, <4>2, <1>1, TryTypes
    <3> QED BY <3>1, <3>2
  <2> QED BY <2>1, <2>2, <1>1
<1>12. CASE UpdateBalance(s)
  <2>1. Placed' /\ UNCHANGED todo
    BY <1>12, <1>4 DEF UpdateBalance, SyncLabels
  <2>2. Connected'
    <3> DEFINE i == [live EXCEPT !.balance[acct[s]] = page[s].current]
    <3>1. Image(i)
      BY <1>2, <1>3 DEF Image, ImageType
    <3>2. Try(TRUE, i, 1) \/ Try(TRUE, live, 0)
      BY <1>12 DEF UpdateBalance
    <3> QED BY <3>1, <3>2, <1>1, <1>3, TryTypes
  <2> QED BY <2>1, <2>2, <1>1
<1> QED
  BY <1>5, <1>6, <1>7, <1>8, <1>9, <1>10, <1>11, <1>12 DEF SyncAccount, Loops

\* A thread that is not inside sync_account, and one that enters it.
LEMMA OutsideTypes ==
  ASSUME Placed, UNCHANGED <<bank, acct, from, page>>, NEW s \in Syncers, acct[s] = NoAccount,
         NEW l \in LabelsOf(s) \ SyncLabels, Goto(s, l)
  PROVE  Placed'
<1>1. Moves(s, l, NoAccount, from[s], page[s])
  BY Stays DEF Moves, Goto
<1>2. from[s] \in Nat /\ page[s] \in PageType /\ from[s] = 0 /\ page[s] = NoPage
  BY DEF Placed, Place
<1>3. NoAccount \notin Accounts
  BY SyncAssumption
<1> QED BY <1>1, <1>2, <1>3, MoveTypes

LEMMA BeginTypes ==
  ASSUME Placed, Versioned, UNCHANGED <<bank, from, page>>, NEW s \in Syncers, acct[s] = NoAccount,
         NEW a \in Accounts, Begins(s, a)
  PROVE  Placed'
<1>1. Moves(s, "check", a, from[s], page[s])
  BY Stays DEF Moves, Goto, Begins
<1>2. from[s] \in Nat /\ page[s] \in PageType /\ from[s] = 0 /\ page[s] = NoPage
  BY DEF Placed, Place
<1>3. /\ "check" \in LabelsOf(s) /\ "check" \in SyncLabels /\ a # NoAccount
      /\ Latest(a) \in Nat
  BY BankFacts, SyncAssumption DEF LabelsOf, WorkerLabels, RequestLabels, SyncLabels
<1> HIDE DEF Begins
<1> QED BY <1>1, <1>2, <1>3, MoveTypes DEF NoPage

LEMMA WorkerTypes ==
  ASSUME TypeOK, UNCHANGED World, WorkerWakes \/ WorkerLists \/ WorkerPicks
  PROVE  Connected' /\ Placed' /\ todo' \subseteq Accounts
<1> USE DEF World
<1>1. /\ Worker \in Syncers /\ Placed /\ Connected /\ Versioned
      /\ todo \subseteq Accounts /\ live.accounts \subseteq Accounts
  BY TypeParts DEF Syncers, Counted, Connected, Image, ImageType
<1>2. Connected'
  BY <1>1, SameConn DEF WorkerWakes, WorkerLists, WorkerPicks
<1>3. todo' \subseteq Accounts /\ UNCHANGED <<from, page>>
  BY <1>1 DEF WorkerWakes, WorkerLists, WorkerPicks
<1>4. Place(Worker) /\ {"sleep", "list", "next", "ended"} \subseteq LabelsOf(Worker) \ SyncLabels
  BY <1>1 DEF Placed, LabelsOf, WorkerLabels, SyncLabels
<1>5. acct[Worker] = NoAccount
  BY <1>4 DEF WorkerWakes, WorkerLists, WorkerPicks, Place, SyncLabels
<1>6. CASE \E a \in Accounts : Begins(Worker, a)
  BY <1>6, <1>1, <1>2, <1>3, <1>5, BeginTypes
<1>7. CASE \E l \in {"sleep", "list", "next", "ended"} : Goto(Worker, l) /\ UNCHANGED acct
  BY <1>7, <1>1, <1>2, <1>3, <1>4, <1>5, OutsideTypes
<1> QED BY <1>1, <1>6, <1>7 DEF WorkerWakes, WorkerLists, WorkerPicks

LEMMA RequestTypes ==
  ASSUME TypeOK, UNCHANGED World, NEW r \in Requests, RequestArrives(r)
  PROVE  Connected' /\ Placed' /\ todo' \subseteq Accounts
<1> USE DEF World
<1>1. r \in Syncers /\ Placed /\ Connected /\ Versioned /\ todo \subseteq Accounts /\ r # Worker
  BY TypeParts, SyncAssumption DEF Syncers, Counted
<1>2. Connected' /\ todo' \subseteq Accounts /\ UNCHANGED <<from, page>>
  BY <1>1, SameConn DEF RequestArrives
<1>3. "404" \in LabelsOf(r) \ SyncLabels
  BY <1>1 DEF LabelsOf, RequestLabels, SyncLabels
<1>4. acct[r] = NoAccount
  BY <1>1 DEF RequestArrives, Placed, Place, SyncLabels
<1>5. CASE \E a \in Accounts : Begins(r, a)
  BY <1>5, <1>1, <1>2, <1>4, BeginTypes
<1>6. CASE Goto(r, "404") /\ UNCHANGED acct
  BY <1>6, <1>1, <1>2, <1>3, <1>4, OutsideTypes
<1> QED BY <1>5, <1>6 DEF RequestArrives

\* The bank only appends: versions stay what they are.
Grows ==
  /\ Versioned'
  /\ \A a \in Accounts : Latest(a) \in Nat /\ Latest(a)' \in Nat /\ Latest(a) <= Latest(a)'
  /\ \A a \in Accounts : \A n \in 0 .. Latest(a) : At(a, n)' = At(a, n)

LEMMA SameBank ==
  ASSUME Versioned, UNCHANGED bank
  PROVE  Grows
<1>1. \A a \in Accounts : Latest(a) \in Nat
  BY BankFacts
<1> QED BY <1>1 DEF Grows, Versioned, Latest, At

LEMMA BankGrows ==
  ASSUME Versioned, NEW b \in Accounts, BankPosts(b)
  PROVE  Grows
<1>1. PICK t \in TxsOf(b), v \in Vals \union {None} :
        bank' = [bank EXCEPT ![b] = Append(@, [At(b, Latest(b)) EXCEPT ![t] = v])]
  BY DEF BankPosts
<1> DEFINE Rows == [Txs -> Vals \union {None}]
           new == [At(b, Latest(b)) EXCEPT ![t] = v]
<1>2. new \in Rows
  <2>1. At(b, Latest(b)) \in Rows
    BY BankFacts DEF Latest
  <2> QED BY <2>1
<1>3. \A a \in Accounts : Latest(a) \in Nat /\ bank[a] \in Seq(Rows) /\ Len(bank[a]) \in Nat /\ Len(bank[a]) > 0
  BY BankFacts DEF Versioned
<1> HIDE DEF new, Rows
<1>4. /\ Append(bank[b], new) \in Seq(Rows) /\ Len(Append(bank[b], new)) = Len(bank[b]) + 1
      /\ \A n \in 1 .. Len(bank[b]) : Append(bank[b], new)[n] = bank[b][n]
  BY <1>2, <1>3
<1>5. bank' = [bank EXCEPT ![b] = Append(bank[b], new)] /\ bank \in [Accounts -> Seq(Rows)]
  BY <1>1 DEF new, Rows, Versioned
<1>6. \A a \in Accounts : a # b => bank'[a] = bank[a]
  BY <1>5
<1>7. bank'[b] = Append(bank[b], new)
  BY <1>5
<1>8. bank' \in [Accounts -> Seq(Rows)]
  BY <1>4, <1>5
<1>9. ASSUME NEW a \in Accounts
      PROVE  /\ Len(bank'[a]) \in Nat /\ Len(bank'[a]) >= Len(bank[a])
             /\ \A n \in 1 .. Len(bank[a]) : bank'[a][n] = bank[a][n]
  <2>1. CASE a = b
    BY <2>1, <1>3, <1>4, <1>7
  <2>2. CASE a # b
    BY <2>2, <1>3, <1>6
  <2> QED BY <2>1, <2>2
<1>10. \A a \in Accounts : Len(bank'[a]) > 0 /\ Latest(a)' \in Nat /\ Latest(a) <= Latest(a)'
  BY <1>3, <1>9 DEF Latest
<1>11. \A a \in Accounts : \A n \in 0 .. Latest(a) : At(a, n)' = At(a, n)
  <2> SUFFICES ASSUME NEW a \in Accounts, NEW n \in 0 .. Latest(a) PROVE bank'[a][n + 1] = bank[a][n + 1]
    BY DEF At
  <2>1. n + 1 \in 1 .. Len(bank[a])
    BY <1>3 DEF Latest
  <2> QED BY <2>1, <1>9
<1> QED BY <1>3, <1>8, <1>10, <1>11 DEF Grows, Versioned, Rows

LEMMA GrownTypes ==
  ASSUME Connected, Placed, Grows, UNCHANGED <<connVars, fileLock, syncVars>>
  PROVE  Connected' /\ Placed'
<1>1. Connected'
  <2>1. \A i \in ImageType : Image(i) =>
          \A a \in Accounts : i.cursor[a] <= Latest(a)' /\ i.balance[a] <= Latest(a)'
    BY DEF Grows, Image, ImageType
  <2>2. Image(live)' /\ Image(disk)'
    BY <2>1 DEF Connected, Image, ImageType, connVars
  <2> QED BY <2>2, Zenon DEF Connected, connVars
<1>2. ASSUME NEW s \in Syncers PROVE Place(s)'
  <2>1. Place(s) /\ page[s] \in PageType /\ from[s] \in Nat
    BY DEF Placed
  <2>2. /\ pc'[s] = pc[s] /\ acct'[s] = acct[s] /\ from'[s] = from[s] /\ page'[s] = page[s]
        /\ ToApply(s)' = ToApply(s)
    BY DEF syncVars, ToApply
  <2> QED BY <2>1, <2>2 DEF Place, Grows, PageType, TxsOf
<1> QED BY <1>1, <1>2 DEF Placed, syncVars, PageType

LEMMA CrashTypes ==
  ASSUME Connected, Placed, Crash
  PROVE  Connected' /\ Placed'
<1>1. Connected'
  BY DEF Connected, Crash, ConnCrash, Image, ImageType, Latest
<1>2. NoPage \in PageType /\ NoAccount \notin Accounts
  BY SyncAssumption DEF NoPage, PageType
<1>3. ASSUME NEW s \in Syncers PROVE Place(s)'
  <2>1. pc'[s] \in LabelsOf(s) \ SyncLabels
    BY <1>2 DEF Crash, Placed, Place, LabelsOf, WorkerLabels, RequestLabels, SyncLabels
  <2>2. acct'[s] = NoAccount /\ from'[s] = 0 /\ page'[s] = NoPage
    BY DEF Crash
  <2> QED BY <2>1, <2>2, <1>2 DEF Place, LabelsOf
<1>4. /\ pc' \in [Syncers -> WorkerLabels \union RequestLabels]
      /\ acct' \in [Syncers -> Accounts \union {NoAccount}]
      /\ from' \in [Syncers -> Nat] /\ page' \in [Syncers -> PageType]
  BY <1>2 DEF Crash, Placed, WorkerLabels, RequestLabels
<1> QED BY <1>1, <1>3, <1>4 DEF Placed, PageType

LEMMA TypeInit == Init => TypeOK
<1> SUFFICES ASSUME Init PROVE TypeOK
  OBVIOUS
<1>1. /\ \A a \in Accounts : Len(bank[a]) = 1 /\ Latest(a) = 0
      /\ bank \in [Accounts -> Seq([Txs -> Vals \union {None}])]
  <2>1. Empty \in [Txs -> Vals \union {None}]
    BY DEF Empty
  <2>2. <<Empty>> \in Seq([Txs -> Vals \union {None}]) /\ Len(<<Empty>>) = 1
    BY <2>1
  <2>3. bank = [a \in Accounts |-> <<Empty>>]
    BY DEF Init
  <2> QED BY <2>2, <2>3 DEF Latest
<1>2. Versioned /\ Counted
  <2>1. Versioned /\ todo \subseteq Accounts /\ crashes \in Nat
    BY <1>1 DEF Versioned, Init
  <2>2. stopping \in BOOLEAN
    BY Zenon DEF Init
  <2> QED BY <2>1, <2>2 DEF Counted
<1>3. Connected
  <2>1. SeedImage \in ImageType
    BY DEF SeedImage, ImageType, Empty
  <2>2. \A a \in Accounts : SeedImage.cursor[a] = 0 /\ SeedImage.balance[a] = 0
    BY DEF SeedImage
  <2>3. Image(SeedImage)
    BY <1>1, <2>1, <2>2 DEF Image
  <2>4. live = SeedImage /\ disk = SeedImage /\ changes = 0 /\ fileLock = "none"
    BY DEF Init, ConnInit
  <2>5. inTxn \in BOOLEAN
    BY Zenon DEF Init, ConnInit
  <2> QED BY <2>3, <2>4, <2>5, Zenon DEF Connected, FileLocks
<1>4. Placed
  <2>1. NoPage \in PageType /\ NoAccount \notin Accounts
    BY SyncAssumption DEF NoPage, PageType
  <2>2. ASSUME NEW s \in Syncers PROVE Place(s)
    BY <2>1 DEF Place, Init, WorkerLabels, RequestLabels, SyncLabels
  <2> QED BY <2>1, <2>2 DEF Placed, Init, WorkerLabels, RequestLabels
<1> QED BY <1>2, <1>3, <1>4, TypeParts

LEMMA NextGrows ==
  ASSUME Versioned, [Next]_vars
  PROVE  Grows
<1>1. CASE \E a \in Accounts : BankPosts(a)
  BY <1>1, BankGrows
<1>2. CASE UNCHANGED bank
  BY <1>2, SameBank
<1> QED
  BY <1>1, <1>2 DEF Next, Sync, UserDeletesAccount, ForeignTxn, CliLocks, Stop, Crash, Halted, vars

LEMMA TypeNext ==
  ASSUME TypeOK, [Next]_vars
  PROVE  TypeOK'
<1>1. Connected /\ Versioned /\ Placed /\ Counted
  BY TypeParts
<1>2. Grows
  BY <1>1, NextGrows
<1>3. Versioned'
  BY <1>2 DEF Grows
<1>4. \* a step of the world that leaves every thread where it is
      ASSUME UNCHANGED syncVars, UNCHANGED bank PROVE Placed'
  <2>1. ASSUME NEW s \in Syncers PROVE Place(s)'
    BY <1>1, <1>4 DEF Placed, Place, syncVars, Latest, ToApply, TxsOf
  <2> QED BY <2>1, <1>1, <1>4 DEF Placed, syncVars, PageType
<1>5. CASE Sync
  <2>1. UNCHANGED World /\ UNCHANGED <<stopping, crashes>>
    BY <1>5 DEF Sync, World
  <2>2. Connected' /\ Placed' /\ todo' \subseteq Accounts
    <3>1. Worker \in Syncers /\ Requests \subseteq Syncers
      BY DEF Syncers
    <3> QED
      BY <2>1, <3>1, <1>5, WorkerTypes, RequestTypes, SyncTypes DEF Sync, WorkerStep
  <2>3. Counted'
    BY <2>1, <2>2, <1>1 DEF Counted
  <2> QED BY <2>2, <2>3, <1>3, TypeParts, PTL
<1>6. CASE \E a \in Accounts : BankPosts(a)
  <2>1. Connected' /\ Placed' /\ Counted'
    BY <1>1, <1>2, <1>6, GrownTypes DEF BankPosts, Counted, syncVars
  <2> QED BY <2>1, <1>3, TypeParts, PTL
<1>7. CASE \E a \in Accounts : UserDeletesAccount(a)
  <2>1. PICK a \in Accounts : UserDeletesAccount(a)
    BY <1>7
  <2>2. Connected'
    <3> DEFINE i == [live EXCEPT !.accounts = @ \ {a}]
    <3>1. Image(i)
      BY <1>1 DEF Connected, Image, ImageType
    <3>2. Try(TRUE, i, 1) /\ UNCHANGED <<bank, fileLock>>
      BY <2>1 DEF UserDeletesAccount, Try
    <3> QED BY <3>1, <3>2, <1>1, TryTypes
  <2>3. Placed' /\ Counted'
    BY <2>1, <1>1, <1>4 DEF UserDeletesAccount, Counted, syncVars
  <2> QED BY <2>2, <2>3, <1>3, TypeParts, PTL
<1>8. CASE ForeignTxn
  <2>1. Connected'
    BY <1>1, <1>8 DEF Connected, ForeignTxn, Begin, Commit, Rollback, Image, ImageType, Latest
  <2>2. Placed' /\ Counted'
    BY <1>8, <1>1, <1>4 DEF ForeignTxn, Counted, syncVars
  <2> QED BY <2>1, <2>2, <1>3, TypeParts, PTL
<1>9. CASE CliLocks
  <2>1. Image(live)' /\ Image(disk)'
    BY <1>1, <1>9 DEF Connected, CliLocks, connVars, Image, ImageType, Latest
  <2>2. Connected'
    BY <2>1, <1>1, <1>9 DEF Connected, CliLocks, connVars, FileLocks
  <2>3. Placed' /\ Counted'
    BY <1>9, <1>1, <1>4 DEF CliLocks, Counted, syncVars
  <2> QED BY <2>2, <2>3, <1>3, TypeParts, PTL
<1>10. CASE Crash
  <2>1. Connected' /\ Placed'
    BY <1>1, <1>10, CrashTypes
  <2>2. Counted'
    BY <1>1, <1>10 DEF Crash, Counted
  <2> QED BY <2>1, <2>2, <1>3, TypeParts, PTL
<1>11. CASE Stop \/ Halted \/ UNCHANGED vars
  <2>1. UNCHANGED <<connVars, fileLock, bank, syncVars, crashes>> /\ stopping' \in BOOLEAN
    BY <1>1, <1>11 DEF Stop, Halted, vars, Counted
  <2>2. Connected' /\ Placed' /\ Counted'
    BY <2>1, <1>1, <1>4, SameConn DEF Counted, syncVars
  <2> QED BY <2>2, <1>3, TypeParts, PTL
<1> QED BY <1>5, <1>6, <1>7, <1>8, <1>9, <1>10, <1>11 DEF Next

\* The tables, the pages and the threads' places have the types that TypeOK says, and
\* every cursor, balance and page in use is of a version the bank has had, whoever
\* else is writing.
THEOREM TypeCorrect == Spec => []TypeOK
<1>1. Init => TypeOK
  BY TypeInit
<1>2. TypeOK /\ [Next]_vars => TypeOK'
  BY TypeNext
<1> QED BY <1>1, <1>2, PTL DEF Spec

-----------------------------------------------------------------------------
(* The cursor and the rows                                                  *)

\* Where a thread outside the two labels that Applying speaks of is safe.
Idle(l) == l \notin {"fetch", "apply"}

\* The account a step leaves thread s with is its own, none, or nobody's.
Entitled(s, a) == a \in {acct[s], NoAccount} \/ \A u \in Syncers : acct[u] # a

LEMMA OneEach ==
  ASSUME TypeOK, SyncInv, NEW s \in Syncers, NEW l, NEW a, NEW c, NEW p,
         Moves(s, l, a, c, p), Entitled(s, a)
  PROVE  \A u, v \in Syncers : acct'[u] = acct'[v] /\ acct'[u] \in Accounts => u = v
<1>1. \A u \in Syncers : acct'[u] = IF u = s THEN a ELSE acct[u]
  BY DEF Moves, TypeOK
<1>2. \A u, v \in Syncers : acct[u] = acct[v] /\ acct[u] \in Accounts => u = v
  BY DEF SyncInv
<1>3. NoAccount \notin Accounts
  BY SyncAssumption
<1> QED BY <1>1, <1>2, <1>3 DEF Entitled

\* A thread other than the one that moves does not notice, if the tables stay as they
\* are for its account.
LEMMA OthersApply ==
  ASSUME TypeOK, SyncInv, UNCHANGED bank,
         NEW s \in Syncers, NEW l, NEW a, NEW c, NEW p, Moves(s, l, a, c, p),
         NEW u \in Syncers \ {s},
         acct[u] \in Accounts =>
           /\ live'.cursor[acct[u]] = live.cursor[acct[u]]
           /\ acct[u] \in live'.accounts => acct[u] \in live.accounts
           /\ \A t \in TxsOf(acct[u]) : live'.rows[t] = live.rows[t]
  PROVE  Applying(u)'
<1>1. /\ pc'[u] = pc[u] /\ acct'[u] = acct[u] /\ from'[u] = from[u] /\ page'[u] = page[u]
      /\ ToApply(u)' = ToApply(u)
  BY DEF Moves, TypeOK, ToApply
<1>2. Applying(u)
  BY DEF SyncInv
<1>3. CASE Idle(pc[u])
  BY <1>1, <1>3 DEF Applying, Idle
<1>4. CASE ~Idle(pc[u])
  <2>1. acct[u] \in Accounts
    BY <1>4, InSync DEF Idle, SyncLabels
  <2> QED BY <2>1, <1>1, <1>2 DEF Applying, RowSince, At, Latest, TxsOf
<1> QED BY <1>3, <1>4

\* A step of a thread that writes nothing.
LEMMA QuietStep ==
  ASSUME TypeOK, SyncInv, UNCHANGED connVars, UNCHANGED World,
         NEW s \in Syncers, NEW l, NEW a, NEW c, NEW p,
         Moves(s, l, a, c, p), Entitled(s, a), Applying(s)'
  PROVE  SyncInv'
<1> USE DEF World, connVars
<1>1. Calm' /\ GoneForGood'
  BY DEF SyncInv, Calm, GoneForGood, At, Latest
<1>2. \A u \in Syncers : Applying(u)'
  <2>1. ASSUME NEW u \in Syncers \ {s} PROVE Applying(u)'
    BY <2>1, OthersApply
  <2> QED BY <2>1
<1>3. \A b \in live'.accounts : \A t \in TxsOf(b) : RowSince(b, t, live.cursor[b])'
  BY DEF SyncInv, RowSince, At, Latest
<1> QED BY <1>1, <1>2, <1>3, OneEach DEF SyncInv, RowSince, At, Latest

LEMMA IdleApplying ==
  ASSUME TypeOK, NEW s \in Syncers, NEW l, NEW a, NEW c, NEW p, Moves(s, l, a, c, p), Idle(l)
  PROVE  Applying(s)'
<1>1. pc'[s] = l
  BY DEF Moves, TypeOK
<1> QED BY <1>1 DEF Applying, Idle

LEMMA EndKeeps ==
  ASSUME TypeOK, SyncInv, UNCHANGED connVars, UNCHANGED World, NEW s \in Syncers,
         Return(s) \/ Throw(s)
  PROVE  SyncInv'
<1>1. PICK l \in {"next", "200", "500"} : Moves(s, l, NoAccount, 0, NoPage)
  BY DEF Return, Throw, Leave, Goto, Moves
<1>2. Idle(l) /\ Entitled(s, NoAccount)
  BY <1>1 DEF Idle, Entitled
<1>3. Applying(s)'
  BY <1>1, <1>2, IdleApplying
<1> QED BY <1>1, <1>2, <1>3, QuietStep

\* A thread goes on to another label with what it has.
LEMMA GotoKeeps ==
  ASSUME TypeOK, SyncInv, UNCHANGED connVars, UNCHANGED World, NEW s \in Syncers,
         NEW l, Goto(s, l), Idle(l), UNCHANGED <<acct, from, page>>
  PROVE  SyncInv'
<1>1. Moves(s, l, acct[s], from[s], page[s])
  BY TypeParts, Stays DEF Moves, Goto
<1>2. Applying(s)' /\ Entitled(s, acct[s])
  BY <1>1, IdleApplying DEF Entitled
<1> QED BY <1>1, <1>2, QuietStep

LEMMA BeginKeeps ==
  ASSUME TypeOK, SyncInv, Undisturbed, UNCHANGED connVars, UNCHANGED World, NEW s \in Syncers,
         NEW a \in Accounts, Begins(s, a), UNCHANGED <<from, page>>
  PROVE  SyncInv'
<1>1. Moves(s, "check", a, from[s], page[s]) /\ Idle("check") /\ Entitled(s, a)
  BY TypeParts, Stays DEF Begins, Moves, Goto, Idle, Entitled, Undisturbed
<1>2. Applying(s)'
  BY <1>1, IdleApplying
<1> QED BY <1>1, <1>2, QuietStep

\* Nobody else has the connection: a legal write happens, and is on disk at once.
LEMMA CalmWrite ==
  ASSUME Calm, NEW legal, NEW i, NEW rows, Try(legal, i, rows), UNCHANGED fileLock
  PROVE  /\ Calm'
         /\ live' = i \/ live' = live
         /\ legal => live' = i
BY DEF Calm, Try, WriteOK, Write, WriteFails

\* A write that leaves accounts and rows alone and moves no cursor but that of s.
LEMMA CursorStep ==
  ASSUME TypeOK, SyncInv, Calm', UNCHANGED World, NEW s \in Syncers, acct[s] \in Accounts,
         NEW l, Idle(l), Goto(s, l), UNCHANGED <<acct, from, page>>,
         live'.accounts = live.accounts, live'.rows = live.rows,
         \A a \in Accounts \ {acct[s]} : live'.cursor[a] = live.cursor[a],
         acct[s] \in live.accounts =>
           \A t \in TxsOf(acct[s]) : RowSince(acct[s], t, live'.cursor[acct[s]])
  PROVE  SyncInv'
<1> USE DEF World
<1>1. Moves(s, l, acct[s], from[s], page[s]) /\ Entitled(s, acct[s])
  BY TypeParts, Stays DEF Moves, Goto, Entitled
<1>2. GoneForGood'
  BY DEF SyncInv, GoneForGood, At, Latest
<1>3. \A u \in Syncers : Applying(u)'
  <2>1. ASSUME NEW u \in Syncers \ {s} PROVE Applying(u)'
    <3>1. acct[u] \in Accounts => acct[u] # acct[s]
      BY DEF SyncInv
    <3> QED BY <3>1, <1>1, OthersApply
  <2> QED BY <2>1, <1>1, IdleApplying
<1>4. ASSUME NEW a \in live'.accounts, NEW t \in TxsOf(a)
      PROVE  \E k \in live'.cursor[a] .. Latest(a) : live'.rows[t] = At(a, k)[t]
  <2>1. a \in Accounts
    BY DEF TypeOK, Image, ImageType
  <2> QED BY <2>1, <1>4 DEF SyncInv, RowSince
<1> QED BY <1>1, <1>2, <1>3, <1>4, OneEach DEF SyncInv, RowSince, At, Latest

LEMMA GetCursorKeeps ==
  ASSUME TypeOK, SyncInv, UNCHANGED World, NEW s \in Syncers, GetCursor(s)
  PROVE  SyncInv'
<1>1. UNCHANGED connVars
  BY DEF GetCursor
<1>2. from' = [from EXCEPT ![s] = live.cursor[acct[s]]]
  BY DEF GetCursor, ReadMayFail, SyncInv, Calm
<1>3. Moves(s, "fetch", acct[s], live.cursor[acct[s]], page[s]) /\ Entitled(s, acct[s])
  BY <1>2, TypeParts, Stays DEF GetCursor, Moves, Goto, Entitled
<1>4. /\ pc'[s] = "fetch" /\ acct'[s] = acct[s] /\ from'[s] = live.cursor[acct[s]]
      /\ live' = live
  BY <1>1, <1>3 DEF Moves, TypeOK, connVars
<1>5. Applying(s)'
  BY <1>4 DEF Applying
<1> QED BY <1>1, <1>3, <1>5, QuietStep

\* What did not change between two versions is, at any version since the first, as
\* at some version since the second.
LEMMA Untouched ==
  ASSUME NEW a \in Accounts, Latest(a) \in Nat, NEW c \in 0 .. Latest(a), NEW n \in c .. Latest(a),
         NEW t \in TxsOf(a), RowSince(a, t, c),
         t \notin Answer(a, c, n).added \union Answer(a, c, n).modified \union Answer(a, c, n).removed
  PROVE  RowSince(a, t, n)
<1>1. \A k \in c .. n : At(a, k)[t] = At(a, n)[t]
  BY DEF Answer, TxsOf
<1>2. PICK k \in c .. Latest(a) : live.rows[t] = At(a, k)[t]
  BY DEF RowSince
<1>3. CASE k <= n
  <2>1. live.rows[t] = At(a, n)[t] /\ n \in n .. Latest(a)
    BY <1>1, <1>2, <1>3
  <2> QED BY <2>1 DEF RowSince
<1>4. CASE k > n
  <2>1. k \in n .. Latest(a)
    BY <1>2, <1>4
  <2> QED BY <2>1, <1>2 DEF RowSince
<1> QED BY <1>2, <1>3, <1>4

LEMMA FetchPageKeeps ==
  ASSUME TypeOK, SyncInv, UNCHANGED World, NEW s \in Syncers, FetchPage(s)
  PROVE  SyncInv'
<1> DEFINE a == acct[s]
           c == from[s]
<1>1. PICK n \in c .. Latest(a) : page' = [page EXCEPT ![s] = Answer(a, c, n)]
  BY DEF FetchPage
<1> DEFINE p == Answer(a, c, n)
<1>2. pc[s] = "fetch" /\ UNCHANGED connVars /\ UNCHANGED <<acct, from>>
  BY DEF FetchPage
<1>3. a \in Accounts /\ Latest(a) \in Nat /\ c \in 0 .. Latest(a) /\ c = live.cursor[a]
  <2>1. a \in Accounts /\ Latest(a) \in Nat /\ c \in 0 .. Latest(a)
    BY <1>2, InSync DEF SyncLabels
  <2> QED BY <2>1, <1>2 DEF SyncInv, Applying
<1>4. Moves(s, "apply", a, c, p) /\ Entitled(s, a)
  BY <1>1, TypeParts, Stays DEF FetchPage, Moves, Goto, Entitled
<1>5. /\ pc'[s] = "apply" /\ acct'[s] = a /\ from'[s] = c /\ page'[s] = p
      /\ live' = live /\ bank' = bank
  BY <1>2, <1>4 DEF Moves, TypeOK, connVars, World
<1>6. /\ p.to = n
      /\ \A t \in p.modified : At(a, c)[t] # None /\ At(a, n)[t] # None
      /\ \A t \in p.removed : At(a, n)[t] = None
  BY DEF Answer, TxsOf
<1>7. a \in live.accounts =>
        \A t \in TxsOf(a) \ (p.added \union p.modified \union p.removed) : RowSince(a, t, n)
  <2> SUFFICES ASSUME a \in live.accounts,
                      NEW t \in TxsOf(a) \ (p.added \union p.modified \union p.removed)
               PROVE  RowSince(a, t, n)
    OBVIOUS
  <2>1. RowSince(a, t, c)
    BY <1>3 DEF SyncInv
  <2> QED BY <2>1, <1>1, <1>3, Untouched
<1>8. Applying(s)'
  <2> HIDE DEF a, c, p
  <2> QED
    BY <1>1, <1>3, <1>5, <1>6, <1>7 DEF Applying, ToApply, RowSince, At, Latest, TxsOf
<1> QED BY <1>2, <1>4, <1>8, QuietStep

\* The row that a page step writes is at the page's version or later.
LEMMA RowApplied ==
  ASSUME TypeOK, SyncInv, NEW s \in Syncers, pc[s] = "apply", acct[s] \in live.accounts,
         NEW t \in TxsOf(acct[s]), NEW p, NEW i, NEW legal, PageStep(s, t, p, i, legal)
  PROVE  \E k \in page[s].to .. Latest(acct[s]) : i.rows[t] = At(acct[s], k)[t]
<1> DEFINE a == acct[s]
           n == page[s].to
<1>1. /\ a \in Accounts /\ Latest(a) \in Nat /\ n \in 0 .. Latest(a)
      /\ from[s] \in 0 .. Latest(a) /\ from[s] = live.cursor[a] /\ from[s] <= n
  <2>1. a \in Accounts /\ Latest(a) \in Nat /\ n \in 0 .. Latest(a) /\ from[s] \in 0 .. Latest(a)
    BY InSync DEF SyncLabels
  <2> QED BY <2>1 DEF SyncInv, Applying
<1>2. CASE i.rows[t] = At(a, n)[t]
  BY <1>1, <1>2
<1>3. CASE t \in page[s].removed /\ i.rows[t] = None
  BY <1>1, <1>3 DEF SyncInv, Applying
<1>4. CASE t \in page[s].modified /\ live.rows[t] = None /\ i.rows[t] = None
  <2>1. At(a, from[s])[t] # None /\ At(a, n)[t] # None
    BY <1>4 DEF SyncInv, Applying
  <2>2. PICK k \in from[s] .. Latest(a) : At(a, k)[t] = None
    BY <1>1, <1>4 DEF SyncInv, RowSince
  <2>3. k \in 0 .. Latest(a) /\ ~(k <= n)
    <3>1. k \in 0 .. Latest(a)
      BY <1>1
    <3> QED BY <3>1, <1>1, <2>1, <2>2 DEF SyncInv, GoneForGood
  <2> QED BY <1>1, <1>4, <2>2, <2>3
<1> QED BY <1>2, <1>3, <1>4 DEF PageStep

LEMMA LoopKeeps ==
  ASSUME TypeOK, SyncInv, UNCHANGED World, NEW s \in Syncers, Loops(s)
  PROVE  SyncInv'
<1> USE DEF World
<1> DEFINE a == acct[s]
           n == page[s].to
<1>1. PICK t, p, i, legal : t \in Txs /\ p \in PageType /\ Image(i) /\ PageStep(s, t, p, i, legal)
  BY LoopStep
<1>2. pc[s] = "apply" /\ a \in Accounts /\ t \in TxsOf(a) /\ Latest(a) \in Nat
      /\ n \in 0 .. Latest(a) /\ live.cursor[a] \in 0 .. Latest(a) /\ live.cursor[a] <= n
  <2>1. pc[s] = "apply"
    BY LoopStep
  <2>2. a \in Accounts /\ ToApply(s) \subseteq TxsOf(a) /\ Latest(a) \in Nat
        /\ n \in 0 .. Latest(a) /\ from[s] \in 0 .. Latest(a)
    BY <2>1, InSync DEF SyncLabels
  <2>3. from[s] = live.cursor[a] /\ from[s] <= n
    BY <2>1 DEF SyncInv, Applying
  <2> QED BY <2>1, <2>2, <2>3, <1>1 DEF PageStep
<1>3. /\ Calm' /\ live'.accounts = live.accounts /\ live'.cursor = live.cursor
      /\ \A u \in Txs \ {t} : live'.rows[u] = live.rows[u]
      /\ a \in live.accounts => live' = i
  <2>1. PICK rows \in {0, 1} : Try(legal, i, rows)
    BY <1>1 DEF PageStep
  <2>2. Calm' /\ (live' = i \/ live' = live) /\ (legal => live' = i)
    BY <2>1, CalmWrite DEF SyncInv
  <2> QED BY <2>2, <1>1 DEF PageStep
<1>4. Moves(s, "apply", a, from[s], p) /\ Entitled(s, a)
  BY <1>1 DEF PageStep, Entitled
<1>5. /\ pc'[s] = "apply" /\ acct'[s] = a /\ from'[s] = from[s] /\ page'[s] = p
  BY <1>4 DEF Moves, TypeOK
<1>6. a \in live.accounts =>
        \E k \in n .. Latest(a) : live'.rows[t] = At(a, k)[t]
  BY <1>1, <1>2, <1>3, RowApplied
<1>7. GoneForGood'
  BY DEF SyncInv, GoneForGood, At, Latest
<1>8. Applying(s)'
  <2>1. /\ from[s] = live.cursor[a] /\ from[s] <= n
        /\ \A u \in page[s].modified : At(a, from[s])[u] # None /\ At(a, n)[u] # None
        /\ \A u \in page[s].removed : At(a, n)[u] = None
        /\ a \in live.accounts =>
             \A u \in TxsOf(a) \ ToApply(s) : \E k \in n .. Latest(a) : live.rows[u] = At(a, k)[u]
    BY <1>2 DEF SyncInv, Applying, RowSince
  <2>2. a \in live.accounts =>
          \A u \in TxsOf(a) \ (p.added \union p.modified \union p.removed) :
            \E k \in n .. Latest(a) : live'.rows[u] = At(a, k)[u]
    <3> SUFFICES ASSUME a \in live.accounts,
                        NEW u \in TxsOf(a) \ (p.added \union p.modified \union p.removed)
                 PROVE  \E k \in n .. Latest(a) : live'.rows[u] = At(a, k)[u]
      OBVIOUS
    <3>1. CASE u = t
      BY <3>1, <1>6
    <3>2. CASE u # t
      <4>1. u \in TxsOf(a) \ ToApply(s) /\ u \in Txs
        BY <3>2, <1>1 DEF PageStep, TxsOf
      <4> QED BY <4>1, <3>2, <2>1, <1>3
    <3> QED BY <3>1, <3>2
  <2>3. p.to = n /\ p.modified \subseteq page[s].modified /\ p.removed \subseteq page[s].removed
    BY <1>1 DEF PageStep
  <2> HIDE DEF a, n
  <2> QED BY <2>1, <2>2, <2>3, <1>3, <1>5 DEF Applying, ToApply, RowSince, At, Latest, TxsOf
<1>9. ASSUME NEW u \in Syncers \ {s} PROVE Applying(u)'
  <2>1. acct[u] \in Accounts => \A x \in TxsOf(acct[u]) : live'.rows[x] = live.rows[x]
    <3>1. acct[u] \in Accounts => acct[u] # a
      BY DEF SyncInv
    <3> QED BY <3>1, <1>2, <1>3 DEF TxsOf
  <2> QED BY <2>1, <1>3, <1>4, OthersApply
<1>10. ASSUME NEW b \in live'.accounts, NEW u \in TxsOf(b)
       PROVE  \E k \in live'.cursor[b] .. Latest(b) : live'.rows[u] = At(b, k)[u]
  <2>1. b \in live.accounts /\ RowSince(b, u, live.cursor[b]) /\ u \in Txs
    BY <1>3 DEF SyncInv, TxsOf
  <2>2. CASE u = t
    <3>1. b = a
      BY <2>2, <1>2 DEF TxsOf
    <3> HIDE DEF n
    <3>2. PICK k \in n .. Latest(a) : live'.rows[t] = At(a, k)[t]
      BY <3>1, <2>1, <1>6
    <3> QED BY <3>1, <3>2, <2>2, <1>2, <1>3
  <2>3. CASE u # t
    BY <2>1, <2>3, <1>3 DEF RowSince
  <2> QED BY <2>2, <2>3
<1>11. \A u, v \in Syncers : acct'[u] = acct'[v] /\ acct'[u] \in Accounts => u = v
  BY <1>4, OneEach
<1>12. \A u \in Syncers : Applying(u)'
  BY <1>8, <1>9
<1> QED BY <1>3, <1>7, <1>10, <1>11, <1>12 DEF SyncInv, RowSince, At, Latest

\* store_cursor: every row of the page is in, so the page's version may be named.
LEMMA StoreCursorKeeps ==
  ASSUME TypeOK, SyncInv, UNCHANGED World, NEW s \in Syncers, StoreCursor(s)
  PROVE  SyncInv'
<1> DEFINE a == acct[s]
           n == page[s].to
           i == [live EXCEPT !.cursor[a] = n]
<1>1. /\ pc[s] = "apply" /\ ToApply(s) = {} /\ Goto(s, "balance") /\ Idle("balance")
      /\ UNCHANGED <<acct, from, page>>
  BY DEF StoreCursor, ToApply, Idle
<1>2. a \in Accounts /\ n \in Nat /\ from[s] \in Nat /\ from[s] = live.cursor[a] /\ from[s] <= n
  <2>1. a \in Accounts /\ n \in Nat /\ from[s] \in Nat
    BY <1>1, InSync DEF SyncLabels
  <2> QED BY <2>1, <1>1 DEF SyncInv, Applying
<1>3. a \in live.accounts => \A t \in TxsOf(a) : RowSince(a, t, n)
  BY <1>1 DEF SyncInv, Applying
<1>4. CASE n = 0
  <2>1. UNCHANGED connVars
    BY <1>4 DEF StoreCursor
  <2> QED BY <2>1, <1>1, GotoKeeps
<1>5. CASE n # 0
  <2>1. Try(TRUE, i, 1)
    BY <1>5 DEF StoreCursor
  <2>2. Calm' /\ live' = i
    BY <2>1, CalmWrite DEF SyncInv, World
  <2>3. /\ i.accounts = live.accounts /\ i.rows = live.rows
        /\ \A b \in Accounts \ {a} : i.cursor[b] = live.cursor[b]
        /\ i.cursor[a] = n
    BY <1>2 DEF TypeOK, Image, ImageType
  <2> HIDE DEF i
  <2> QED BY <1>1, <1>2, <1>3, <2>2, <2>3, CursorStep
<1> QED BY <1>4, <1>5

LEMMA UpdateBalanceKeeps ==
  ASSUME TypeOK, SyncInv, UNCHANGED World, NEW s \in Syncers, UpdateBalance(s)
  PROVE  SyncInv'
<1> DEFINE i == [live EXCEPT !.balance[acct[s]] = page[s].current]
<1>1. /\ pc[s] = "balance" /\ Goto(s, "audit") /\ Idle("audit") /\ UNCHANGED <<acct, from, page>>
  BY DEF UpdateBalance, Idle
<1>2. acct[s] \in Accounts
  BY <1>1, InSync DEF SyncLabels
<1>3. Calm' /\ (live' = i \/ live' = live)
  BY CalmWrite DEF UpdateBalance, SyncInv, World
<1>4. i.accounts = live.accounts /\ i.rows = live.rows /\ i.cursor = live.cursor
  BY DEF TypeOK, Image, ImageType
<1> HIDE DEF i
<1>5. acct[s] \in live.accounts =>
        \A t \in TxsOf(acct[s]) : RowSince(acct[s], t, live'.cursor[acct[s]])
  BY <1>3, <1>4 DEF SyncInv
<1> QED BY <1>1, <1>2, <1>3, <1>4, <1>5, CursorStep

LEMMA SyncKeeps ==
  ASSUME TypeOK, SyncInv, Undisturbed, Sync
  PROVE  SyncInv'
<1>1. UNCHANGED World
  BY DEF Sync, World
<1>2. Worker \in Syncers /\ Requests \subseteq Syncers
  BY DEF Syncers
<1>3. ASSUME NEW s \in Syncers, SyncAccount(s) PROVE SyncInv'
  <2>1. CASE Check(s)
    BY <2>1, <1>1, EndKeeps, GotoKeeps DEF Check, Idle
  <2>2. CASE FetchToken(s)
    BY <2>2, <1>1, EndKeeps, GotoKeeps DEF FetchToken, Idle
  <2>3. CASE FetchFails(s) \/ Audit(s)
    BY <2>3, <1>1, EndKeeps DEF FetchFails, Audit
  <2> QED
    BY <2>1, <2>2, <2>3, <1>1, <1>3, GetCursorKeeps, FetchPageKeeps, LoopKeeps,
       StoreCursorKeeps, UpdateBalanceKeeps DEF SyncAccount, Loops
<1>4. CASE WorkerWakes \/ WorkerLists \/ WorkerPicks
  <2>1. UNCHANGED connVars /\ UNCHANGED <<from, page>> /\ live.accounts \subseteq Accounts
        /\ todo \subseteq Accounts
    BY <1>4 DEF WorkerWakes, WorkerLists, WorkerPicks, TypeOK, Image, ImageType
  <2>2. CASE \E a \in Accounts : Begins(Worker, a)
    BY <2>1, <2>2, <1>1, <1>2, BeginKeeps
  <2>3. CASE \E l \in {"sleep", "list", "next", "ended"} : Goto(Worker, l) /\ UNCHANGED acct
    BY <2>1, <2>3, <1>1, <1>2, GotoKeeps DEF Idle
  <2> QED BY <1>4, <2>1, <2>2, <2>3 DEF WorkerWakes, WorkerLists, WorkerPicks
<1>5. ASSUME NEW r \in Requests, RequestArrives(r) PROVE SyncInv'
  <2>1. UNCHANGED connVars /\ UNCHANGED <<from, page>>
    BY <1>5 DEF RequestArrives
  <2>2. CASE \E a \in Accounts : Begins(r, a)
    BY <2>1, <2>2, <1>1, <1>2, BeginKeeps
  <2>3. CASE Goto(r, "404") /\ UNCHANGED acct
    BY <2>1, <2>3, <1>1, <1>2, GotoKeeps DEF Idle
  <2> QED BY <1>5, <2>2, <2>3 DEF RequestArrives
<1> QED BY <1>2, <1>3, <1>4, <1>5 DEF Sync, WorkerStep

\* The bank appends a version: a transaction that was gone before it is gone in it.
LEMMA BankKeeps ==
  ASSUME TypeOK, SyncInv, NEW b \in Accounts, BankPosts(b)
  PROVE  SyncInv'
<1>1. Grows /\ Versioned
  BY TypeParts, BankGrows
<1>2. /\ UNCHANGED <<connVars, fileLock, syncVars>>
      /\ \A a \in Accounts : Latest(a) \in Nat /\ Latest(a)' \in Nat /\ Latest(a) <= Latest(a)'
      /\ \A a \in Accounts : \A k \in 0 .. Latest(a) : At(a, k)' = At(a, k)
  BY <1>1 DEF BankPosts, Grows
<1>3. Calm'
  BY <1>2 DEF SyncInv, Calm, connVars
<1>4. GoneForGood'
  <2>1. PICK t \in TxsOf(b), v \in Vals \union {None} :
          /\ At(b, Latest(b))[t] = None => \A n \in 0 .. Latest(b) : At(b, n)[t] = None
          /\ v # At(b, Latest(b))[t]
          /\ bank' = [bank EXCEPT ![b] = Append(@, [At(b, Latest(b)) EXCEPT ![t] = v])]
    BY DEF BankPosts
  <2> DEFINE new == [At(b, Latest(b)) EXCEPT ![t] = v]
  <2>2. /\ bank[b] \in Seq([Txs -> Vals \union {None}]) /\ Latest(b) = Len(bank[b]) - 1
        /\ Latest(b) \in Nat /\ At(b, Latest(b)) \in [Txs -> Vals \union {None}]
    BY <1>1, BankFacts DEF Versioned, Latest
  <2>3. /\ \A u \in Txs \ {t} : new[u] = At(b, Latest(b))[u]
        /\ new[t] = v /\ new \in [Txs -> Vals \union {None}]
    BY <2>2 DEF TxsOf
  <2> HIDE DEF new
  <2>4. Latest(b)' = Latest(b) + 1 /\ \A k \in Nat : k = Latest(b) + 1 => At(b, k)' = new
    <3>1. bank'[b] = Append(bank[b], new)
      BY <2>1, <1>1 DEF Versioned, new
    <3>2. Len(bank'[b]) = Len(bank[b]) + 1 /\ bank'[b][Len(bank[b]) + 1] = new
      BY <3>1, <2>2, <2>3
    <3>3. Latest(b)' = Latest(b) + 1
      BY <3>2, <2>2 DEF Latest
    <3>4. \A k \in Nat : k = Latest(b) + 1 => k + 1 = Len(bank[b]) + 1
      BY <2>2
    <3> QED BY <3>2, <3>3, <3>4 DEF At
  <2>5. ASSUME NEW a \in Accounts, a # b PROVE Latest(a)' = Latest(a)
    BY <2>1, <2>5, <1>1 DEF Latest, Versioned
  <2> SUFFICES ASSUME NEW a \in Accounts, NEW u \in TxsOf(a),
                      NEW i \in 0 .. Latest(a)', NEW j \in 0 .. Latest(a)', NEW k \in 0 .. Latest(a)',
                      i <= j, j <= k, At(a, i)'[u] # None, At(a, j)'[u] = None
               PROVE  At(a, k)'[u] = None
    BY DEF GoneForGood, TxsOf
  <2>6. CASE k <= Latest(a)
    BY <2>6, <1>2 DEF SyncInv, GoneForGood
  <2>7. CASE k > Latest(a)
    <3>1. a = b /\ k = Latest(b) + 1
      BY <2>7, <2>4, <2>5, <1>2
    <3>2. CASE j = k
      BY <3>2
    <3>3. CASE j < k
      <4>1. i \in 0 .. Latest(b) /\ j \in 0 .. Latest(b)
        BY <3>1, <3>3, <2>2
      <4>2. At(b, i)[u] # None /\ At(b, j)[u] = None /\ u \in TxsOf(b)
        BY <4>1, <3>1, <1>2
      <4>3. At(b, Latest(b))[u] = None
        BY <4>1, <4>2, <2>2 DEF SyncInv, GoneForGood
      <4>4. u # t
        BY <4>1, <4>2, <4>3, <2>1
      <4>5. k \in Nat /\ At(b, k)' = new
        BY <3>1, <2>2, <2>4
      <4> QED BY <4>3, <4>4, <4>5, <2>3, <3>1 DEF TxsOf
    <3> QED BY <3>2, <3>3
  <2> QED BY <2>6, <2>7, <1>2
<1>5. \A a \in Accounts, t \in Txs, n \in Nat : RowSince(a, t, n) => RowSince(a, t, n)'
  <2> SUFFICES ASSUME NEW a \in Accounts, NEW t \in Txs, NEW n \in Nat, RowSince(a, t, n)
               PROVE  \E k \in n .. Latest(a)' : live'.rows[t] = At(a, k)'[t]
    BY DEF RowSince
  <2>1. PICK k \in n .. Latest(a) : live.rows[t] = At(a, k)[t]
    BY DEF RowSince
  <2>2. k \in 0 .. Latest(a) /\ k \in n .. Latest(a)'
    BY <1>2
  <2> QED BY <2>1, <2>2, <1>2 DEF connVars
<1>6. \A a \in live'.accounts : \A t \in TxsOf(a) : RowSince(a, t, live.cursor[a])'
  <2> SUFFICES ASSUME NEW a \in live.accounts, NEW t \in TxsOf(a)
               PROVE  RowSince(a, t, live.cursor[a])'
    BY <1>2 DEF connVars
  <2>1. a \in Accounts /\ live.cursor[a] \in Nat /\ t \in Txs
    BY DEF TypeOK, Image, ImageType, TxsOf
  <2>2. RowSince(a, t, live.cursor[a])
    BY DEF SyncInv
  <2>3. \E k \in live.cursor[a] .. Latest(a)' : live.rows[t] = At(a, k)'[t]
    BY <2>1, <2>2, <1>2 DEF RowSince
  <2> QED BY <2>3, <1>2 DEF RowSince, connVars
<1>7. ASSUME NEW s \in Syncers PROVE Applying(s)'
  <2>1. /\ Applying(s) /\ pc' = pc /\ acct' = acct /\ from' = from /\ page' = page /\ live' = live
    BY <1>2 DEF SyncInv, syncVars, connVars
  <2>2. CASE Idle(pc[s])
    BY <2>1, <2>2 DEF Applying, Idle
  <2>3. CASE pc[s] = "fetch"
    BY <2>1, <2>3 DEF Applying
  <2>4. CASE pc[s] = "apply"
    <3>1. /\ acct[s] \in Accounts /\ from[s] \in 0 .. Latest(acct[s])
          /\ page[s].to \in 0 .. Latest(acct[s])
      BY <2>4, InSync DEF SyncLabels
    <3>2. /\ At(acct[s], from[s])' = At(acct[s], from[s])
          /\ At(acct[s], page[s].to)' = At(acct[s], page[s].to)
      <4>1. ASSUME NEW a \in Accounts, NEW k \in 0 .. Latest(a) PROVE bank'[a][k + 1] = bank[a][k + 1]
        BY <1>2 DEF At
      <4> QED BY <3>1, <4>1, <2>1 DEF At
    <3>3. acct[s] \in live.accounts =>
            \A t \in TxsOf(acct[s]) \ ToApply(s) :
              \E k \in page[s].to .. Latest(acct[s])' : live.rows[t] = At(acct[s], k)'[t]
      <4>1. PICK a \in Accounts, n \in Nat :
              acct[s] = a /\ acct'[s] = a /\ page[s].to = n
        BY <2>1, <3>1, <1>2
      <4> SUFFICES ASSUME a \in live.accounts, NEW t \in TxsOf(a) \ ToApply(s)
                   PROVE  \E k \in n .. Latest(a)' : live.rows[t] = At(a, k)'[t]
        BY <4>1 DEF Latest, At
      <4>2. RowSince(a, t, n) /\ t \in Txs
        BY <2>1, <2>4, <4>1 DEF Applying, TxsOf
      <4>3. RowSince(a, t, n)'
        BY <1>5, <4>2
      <4> QED BY <2>1, <4>3 DEF RowSince
    <3>4. /\ from[s] <= page[s].to
          /\ \A t \in page[s].modified :
               At(acct[s], from[s])[t] # None /\ At(acct[s], page[s].to)[t] # None
          /\ \A t \in page[s].removed : At(acct[s], page[s].to)[t] = None
          /\ from[s] = live.cursor[acct[s]]
      BY <2>1, <2>4 DEF Applying
    <3> QED BY <2>1, <3>2, <3>3, <3>4 DEF Applying, RowSince, ToApply, TxsOf
  <2> QED BY <2>2, <2>3, <2>4 DEF Idle
<1>8. \A s, u \in Syncers : acct'[s] = acct'[u] /\ acct'[s] \in Accounts => s = u
  BY <1>2 DEF SyncInv, syncVars
<1> QED BY <1>3, <1>4, <1>6, <1>7, <1>8 DEF SyncInv

LEMMA DeleteKeeps ==
  ASSUME TypeOK, SyncInv, NEW b \in Accounts, UserDeletesAccount(b)
  PROVE  SyncInv'
<1>1. /\ live' = [live EXCEPT !.accounts = @ \ {b}] /\ Calm'
      /\ UNCHANGED <<bank, syncVars>>
  BY DEF UserDeletesAccount, Write, SyncInv, Calm
<1>2. live'.accounts \subseteq live.accounts /\ live'.rows = live.rows /\ live'.cursor = live.cursor
  BY <1>1 DEF TypeOK, Image, ImageType
<1>3. GoneForGood'
  BY <1>1 DEF SyncInv, GoneForGood, At, Latest
<1>4. ASSUME NEW s \in Syncers PROVE Applying(s)'
  BY <1>1, <1>2 DEF SyncInv, Applying, syncVars, RowSince, At, Latest, TxsOf, ToApply
<1>5. \A s, u \in Syncers : acct'[s] = acct'[u] /\ acct'[s] \in Accounts => s = u
  BY <1>1 DEF SyncInv, syncVars
<1> QED BY <1>1, <1>2, <1>3, <1>4, <1>5 DEF SyncInv, RowSince, At, Latest

LEMMA CrashKeeps ==
  ASSUME TypeOK, SyncInv, Crash
  PROVE  SyncInv'
<1>1. /\ live' = live /\ Calm' /\ UNCHANGED bank
      /\ \A s \in Syncers : acct'[s] = NoAccount /\ Idle(pc'[s])
  <2>1. \A s \in Syncers : Idle(pc'[s])
    BY SyncAssumption DEF Crash, Idle, TypeOK, Place, SyncLabels
  <2>2. live' = live /\ Calm' /\ UNCHANGED bank
    BY DEF Crash, ConnCrash, SyncInv, Calm
  <2> QED BY <2>1, <2>2 DEF Crash
<1>2. GoneForGood'
  BY <1>1 DEF SyncInv, GoneForGood, At, Latest
<1>3. \A s \in Syncers : Applying(s)'
  BY <1>1 DEF Applying, Idle
<1> QED BY <1>1, <1>2, <1>3, SyncAssumption DEF SyncInv, RowSince, At, Latest

LEMMA StutterKeeps ==
  ASSUME TypeOK, SyncInv, Stop \/ Halted \/ UNCHANGED vars
  PROVE  SyncInv'
<1>1. UNCHANGED <<connVars, fileLock, bank, syncVars>>
  BY DEF Stop, Halted, vars
<1>2. Calm' /\ GoneForGood'
  BY <1>1 DEF SyncInv, Calm, GoneForGood, At, Latest, connVars
<1>3. ASSUME NEW s \in Syncers PROVE Applying(s)'
  BY <1>1 DEF SyncInv, Applying, syncVars, connVars, RowSince, At, Latest, TxsOf, ToApply
<1> QED BY <1>1, <1>2, <1>3 DEF SyncInv, RowSince, At, Latest, syncVars, connVars

LEMMA SyncInit == Init => SyncInv
<1> SUFFICES ASSUME Init PROVE SyncInv
  OBVIOUS
<1>1. \A a \in Accounts : Latest(a) = 0 /\ At(a, 0) = Empty /\ live.cursor[a] = 0
  BY DEF Init, ConnInit, SeedImage, Latest, At
<1>2. Calm
  BY DEF Init, ConnInit, Calm
<1>3. GoneForGood
  BY <1>1 DEF GoneForGood, Empty, TxsOf
<1>4. live.accounts = Accounts /\ live.rows = Empty
  BY DEF Init, ConnInit, SeedImage
<1>5. \A s \in Syncers : Applying(s)
  BY DEF Init, Applying
<1>6. \A s \in Syncers : acct[s] \notin Accounts
  BY SyncAssumption DEF Init
<1> QED BY <1>1, <1>2, <1>3, <1>4, <1>5, <1>6 DEF SyncInv, RowSince

LEMMA SyncNext ==
  ASSUME TypeOK, SyncInv, Undisturbed, [Next]_vars
  PROVE  SyncInv'
<1>1. ~ForeignTxn /\ ~CliLocks
  BY DEF Undisturbed, ForeignTxn, CliLocks
<1> QED
  BY <1>1, SyncKeeps, BankKeeps, DeleteKeeps, CrashKeeps, StutterKeeps DEF Next

\* If callers take turns on an account and the connection is the scheduler's, the
\* inductive invariant behind RowsNotBehind holds for any number of accounts,
\* transactions, requests, bank changes and crashes.
THEOREM SyncInvariant == Undisturbed => (Spec => []SyncInv)
<1> SUFFICES ASSUME Undisturbed PROVE Spec => []SyncInv
  OBVIOUS
<1>1. Init => SyncInv
  BY SyncInit
<1>2. TypeOK /\ SyncInv /\ [Next]_vars => SyncInv'
  BY SyncNext
<1> QED BY <1>1, <1>2, TypeCorrect, PTL DEF Spec

\* Under the same conditions no change of the bank up to the stored cursor is missing
\* from the transactions table, also after crashes between rows and cursor.
THEOREM RowsKept == Undisturbed => (Spec => []RowsNotBehind)
<1> SUFFICES ASSUME Undisturbed PROVE Spec => []RowsNotBehind
  OBVIOUS
<1>1. SyncInv => RowsNotBehind
  BY DEF SyncInv, Calm, RowSince, RowsNotBehind
<1>2. Spec => []SyncInv
  BY SyncInvariant
<1> QED BY <1>1, <1>2, PTL

=============================================================================
