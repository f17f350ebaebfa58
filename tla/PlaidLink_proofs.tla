-------------------------- MODULE PlaidLink_proofs --------------------------
(***************************************************************************)
(* Theorems about PlaidLink for any requests, tabs, users, memberships,    *)
(* accounts and number of concurrent requests: its types, and that the     *)
(* token of every account was brought by somebody who was allowed to.      *)
(* For one request at a time: that linked means has a token, and that a    *)
(* link is redeemed once.                                                  *)
(***************************************************************************)
EXTENDS PlaidLink, FiniteSetTheorems, TLAPS

-----------------------------------------------------------------------------
(* The invariant                                                            *)

\* The labels at which nobody is authenticated yet, and those past the check.
Unknown == {"new", "s_begin", "s_end", "s_catch", "reap", "resolve"}
Checked == {"mint", "stash", "exchange", "store", "mark", "consume"}

QueryType == [op : {"init", "redeem"}, user : Callers, acct : Accounts, link : Tokens]

\* g is what init l has stashed, and l has been answered.
GrantOK(l, g) ==
  /\ pc[l] = "200" /\ req[l].op = "init"
  /\ g = [user |-> who[l], acct |-> req[l].acct, expires |-> at[l] + TTL]

\* Whoever came with a link came with one of his own.
ByOK(r) ==
  by[r] = "link" =>
    /\ req[r].op = "redeem"
    /\ req[r].link \in Requests
    /\ pc[req[r].link] = "200"
    /\ LinkIsOf(req[r].link, r)

\* r has brought a token for account a, and was allowed to.
Bearer(r, a) ==
  /\ r \in Requests
  /\ pc[r] \in {"mark", "consume", "200", "lost"}
  /\ req[r].op = "redeem" /\ req[r].acct = a
  /\ <<who[r], a>> \in May

Place(r) ==
  /\ pc[r] # "new" => req[r] \in QueryType
  /\ pc[r] \in Unknown => by[r] = "none"
  /\ pc[r] \in Checked \union {"check"} => by[r] # "none"
  /\ by[r] # "none" => who[r] \in Users
  /\ pc[r] \in {"mint", "stash"} => req[r].op = "init"
  /\ pc[r] \in {"reap", "resolve", "exchange", "store", "mark", "consume"}
       => req[r].op = "redeem"
  /\ pc[r] \in Checked => <<who[r], req[r].acct>> \in May
  /\ ByOK(r)

Grants(i) == \A l \in DOMAIN i.link : GrantOK(l, i.link[l])
Bearers(i) ==
  \A a \in DOMAIN i.account : i.account[a].token # NoOne => Bearer(i.account[a].token, a)

Whole(i) == i = [account |-> i.account, link |-> i.link] /\ Image(i)

Connected ==
  /\ inTxn \in BOOLEAN /\ changes \in {0, 1} /\ fileLock \in FileLocks
  /\ Whole(live) /\ Whole(disk)

Recorded == Grants(live) /\ Grants(disk) /\ Bearers(live) /\ Bearers(disk)

Shape ==
  /\ pc \in [Requests -> Labels]
  /\ DOMAIN req = Requests
  /\ who \in [Requests -> Users \union {NoOne}]
  /\ by \in [Requests -> {"none", "link", "session"}]
  /\ at \in [Requests -> Nat]
  /\ spent \in [Requests -> SUBSET Tokens]

Placed == Shape /\ \A r \in Requests : Place(r)

TabOK(t) ==
  \/ t = ClosedTab
  \/ t \in [state : {"ready"}, acct : Accounts, link : Requests]
  \/ t \in [state : {"ready", "sent", "linked"}, acct : Accounts, link : Requests, by : Requests]

Browsed == DOMAIN tab = Tabs /\ \A b \in Tabs : TabOK(tab[b])

Counted == now \in Nat /\ crashes \in Nat /\ regime \in Regimes

LinkInv == Connected /\ Recorded /\ Placed /\ Browsed /\ Counted

LEMMA InvImpliesType == LinkInv => TypeOK
<1> SUFFICES ASSUME LinkInv PROVE TypeOK
  OBVIOUS
<1>1. \A b \in Tabs : tab[b].state \in {"closed", "ready", "sent", "linked"}
  BY DEF LinkInv, Browsed, TabOK, ClosedTab
<1>2. \A r \in Requests :
        /\ pc[r] \in {"check", "mint", "stash", "exchange", "store", "mark", "consume"}
             => by[r] # "none"
        /\ by[r] # "none" => who[r] \in Users
        /\ pc[r] # "new" =>
             req[r] \in [op : {"init", "redeem"}, user : Callers, acct : Accounts, link : Tokens]
  BY DEF LinkInv, Placed, Place, Checked, QueryType
<1>3. Image(live) /\ Image(disk)
  BY DEF LinkInv, Connected, Whole
<1>4. /\ inTxn \in BOOLEAN /\ changes \in {0, 1} /\ fileLock \in FileLocks
      /\ now \in Nat /\ crashes \in Nat /\ regime \in Regimes
      /\ pc \in [Requests -> Labels]
      /\ who \in [Requests -> Users \union {NoOne}]
      /\ by \in [Requests -> {"none", "link", "session"}]
      /\ at \in [Requests -> Nat]
      /\ spent \in [Requests -> SUBSET Tokens]
  BY DEF LinkInv, Connected, Counted, Placed, Shape
<1> QED BY <1>1, <1>2, <1>3, <1>4, Zenon DEF TypeOK

LEMMA InvImpliesPermission == LinkInv => TokenByPermission
<1> SUFFICES ASSUME LinkInv, NEW image \in {live, disk}, NEW a \in DOMAIN image.account,
                    image.account[a].token # NoOne
             PROVE  LET r == image.account[a].token
                    IN  /\ req[r].op = "redeem" /\ req[r].acct = a
                        /\ <<who[r], a>> \in May
                        /\ by[r] = "link" => LinkIsOf(req[r].link, r)
  BY DEF TokenByPermission
<1> DEFINE r == image.account[a].token
<1>1. Bearer(r, a)
  BY DEF LinkInv, Recorded, Bearers
<1>2. ByOK(r)
  BY <1>1 DEF LinkInv, Placed, Place, Bearer
<1> HIDE DEF r
<1>3. /\ req[r].op = "redeem" /\ req[r].acct = a
      /\ <<who[r], a>> \in May
      /\ by[r] = "link" => LinkIsOf(req[r].link, r)
  BY <1>1, <1>2, Zenon DEF Bearer, ByOK
<1> QED BY <1>3, Zenon DEF r

-----------------------------------------------------------------------------
(* What a step of a request leaves to the others                            *)

\* The others stand where they stood; what is known of r stays once its token is
\* stored, and is final with its answer.
Advances(r) ==
  /\ Shape'
  /\ \A q \in Requests \ {r} :
       pc'[q] = pc[q] /\ req'[q] = req[q] /\ who'[q] = who[q] /\ by'[q] = by[q] /\ at'[q] = at[q]
  /\ pc[r] \notin {"200", "lost"}
  /\ pc[r] \in {"mark", "consume"} =>
       /\ pc'[r] \in {"mark", "consume", "200"}
       /\ req'[r] = req[r] /\ who'[r] = who[r] /\ by'[r] = by[r] /\ at'[r] = at[r]

LEMMA GrantsLast ==
  ASSUME NEW r \in Requests, Advances(r), NEW l \in Requests, NEW g, GrantOK(l, g)
  PROVE  /\ pc'[l] = "200" /\ req'[l].op = "init"
         /\ g = [user |-> who'[l], acct |-> req'[l].acct, expires |-> at'[l] + TTL]
BY DEF Advances, GrantOK

LEMMA BearersLast ==
  ASSUME NEW r \in Requests, Advances(r), NEW t, NEW a, Bearer(t, a)
  PROVE  /\ t \in Requests
         /\ pc'[t] \in {"mark", "consume", "200", "lost"}
         /\ req'[t].op = "redeem" /\ req'[t].acct = a
         /\ <<who'[t], a>> \in May
<1>1. CASE t = r
  BY <1>1 DEF Advances, Bearer
<1>2. CASE t # r
  BY <1>2 DEF Advances, Bearer
<1> QED BY <1>1, <1>2

\* A link that was used is one of an answered request, so its facts are final.
LEMMA ByLasts ==
  ASSUME NEW r \in Requests, Advances(r), NEW q \in Requests, ByOK(q),
         req'[q] = req[q], who'[q] = who[q], by'[q] = by[q], at'[q] = at[q]
  PROVE  ByOK(q)'
BY DEF Advances, ByOK, LinkIsOf

LEMMA OthersStay ==
  ASSUME Placed, NEW r \in Requests, Advances(r), Place(r)'
  PROVE  Placed'
<1>1. ASSUME NEW q \in Requests, q # r PROVE Place(q)'
  <2>1. /\ pc'[q] = pc[q] /\ req'[q] = req[q] /\ who'[q] = who[q]
        /\ by'[q] = by[q] /\ at'[q] = at[q]
    BY <1>1 DEF Advances
  <2>2. ByOK(q)'
    BY <2>1, ByLasts DEF Placed, Place
  <2>3. Place(q)
    BY DEF Placed
  <2> QED BY <2>1, <2>2, <2>3 DEF Place
<1> QED BY <1>1 DEF Placed, Advances

\* After the step, image i is in order.
InOrder(i) ==
  /\ \A l \in DOMAIN i.link :
       /\ pc'[l] = "200" /\ req'[l].op = "init"
       /\ i.link[l] = [user |-> who'[l], acct |-> req'[l].acct, expires |-> at'[l] + TTL]
  /\ \A a \in DOMAIN i.account : i.account[a].token # NoOne =>
       LET t == i.account[a].token
       IN  /\ t \in Requests
           /\ pc'[t] \in {"mark", "consume", "200", "lost"}
           /\ req'[t].op = "redeem" /\ req'[t].acct = a
           /\ <<who'[t], a>> \in May

LEMMA ImageLasts ==
  ASSUME NEW r \in Requests, Advances(r), NEW i, Grants(i), Bearers(i), Whole(i)
  PROVE  InOrder(i)
<1>1. ASSUME NEW l \in DOMAIN i.link
      PROVE  /\ pc'[l] = "200" /\ req'[l].op = "init"
             /\ i.link[l] = [user |-> who'[l], acct |-> req'[l].acct, expires |-> at'[l] + TTL]
  <2>1. GrantOK(l, i.link[l]) /\ l \in Requests
    BY DEF Grants, Whole, Image
  <2> QED BY <2>1, GrantsLast
<1>2. ASSUME NEW a \in DOMAIN i.account, i.account[a].token # NoOne
      PROVE  LET t == i.account[a].token
             IN  /\ t \in Requests
                 /\ pc'[t] \in {"mark", "consume", "200", "lost"}
                 /\ req'[t].op = "redeem" /\ req'[t].acct = a
                 /\ <<who'[t], a>> \in May
  <2>1. Bearer(i.account[a].token, a)
    BY <1>2 DEF Bearers
  <2> QED BY <2>1, BearersLast
<1> QED BY <1>1, <1>2 DEF InOrder

\* The step leaves the connection with images among the old ones and i.
Leaves(i) ==
  /\ live' \in {live, disk, i} /\ disk' \in {live, disk, i}
  /\ inTxn' \in BOOLEAN /\ changes' \in {0, 1} /\ UNCHANGED fileLock

LEMMA ConnLasts ==
  ASSUME Connected, Recorded, NEW r \in Requests, Advances(r),
         NEW i, Whole(i), InOrder(i), Leaves(i)
  PROVE  Connected' /\ Recorded'
<1>1. Whole(live)' /\ Whole(disk)'
  BY DEF Leaves, Connected, Whole, Image
<1>2. InOrder(live) /\ InOrder(disk)
  BY ImageLasts DEF Connected, Recorded
<1>3. InOrder(live') /\ InOrder(disk')
  BY <1>2 DEF Leaves
<1>4. (Grants(live) /\ Bearers(live))'
  BY <1>3 DEF InOrder, Grants, GrantOK, Bearers, Bearer
<1>5. (Grants(disk) /\ Bearers(disk))'
  BY <1>3 DEF InOrder, Grants, GrantOK, Bearers, Bearer
<1> QED BY <1>1, <1>4, <1>5 DEF Connected, Recorded, Leaves

LEMMA LiveLasts ==
  ASSUME Connected, Recorded, NEW r \in Requests, Advances(r), Leaves(live)
  PROVE  Connected' /\ Recorded'
<1>1. InOrder(live) /\ Whole(live)
  BY ImageLasts DEF Connected, Recorded
<1> QED BY <1>1, ConnLasts

LEMMA TryLeaves ==
  ASSUME Connected, NEW i, NEW rows \in {0, 1}, Try(i, rows), UNCHANGED fileLock
  PROVE  Leaves(i)
BY DEF Connected, Try, Write, WriteFails, Leaves

\* The calls other than writes.
LEMMA ConnLeaves ==
  ASSUME Connected, UNCHANGED fileLock,
         UNCHANGED connVars \/ Begin \/ Commit \/ Rollback
  PROVE  Leaves(live)
BY DEF Connected, connVars, Begin, Commit, Rollback, Leaves

-----------------------------------------------------------------------------
(* One lemma for each kind of step                                          *)

\* r goes to l and nothing else is known of it.
LEMMA GotoAdvances ==
  ASSUME Placed, NEW r \in Requests, NEW l \in Labels, Goto(r, l), UNCHANGED localVars,
         pc[r] \notin {"200", "lost"},
         pc[r] \in {"mark", "consume"} => l \in {"mark", "consume", "200"}
  PROVE  Advances(r) /\ pc'[r] = l
BY DEF Placed, Shape, Goto, localVars, Advances

LEMMA GotoPlaces ==
  ASSUME Placed, NEW r \in Requests, NEW l \in Labels, Goto(r, l), UNCHANGED localVars,
         Advances(r), pc'[r] = l, pc[r] # "new",
         l \in Unknown => l # "new" /\ by[r] = "none",
         l \in Checked \union {"check"} => by[r] # "none",
         l \in {"mint", "stash"} => req[r].op = "init",
         l \in {"reap", "resolve", "exchange", "store", "mark", "consume"} => req[r].op = "redeem",
         l \in Checked => <<who[r], req[r].acct>> \in May
  PROVE  Placed'
<1>1. Place(r)
  BY DEF Placed
<1>2. ByOK(r)'
  BY <1>1, ByLasts DEF localVars, Place
<1>3. Place(r)'
  BY <1>1, <1>2 DEF Place, localVars
<1> QED BY <1>3, OthersStay

LEMMA WorldLasts ==
  ASSUME LinkInv, UNCHANGED <<tab, now, regime, crashes>>, Connected', Recorded', Placed'
  PROVE  LinkInv'
BY DEF LinkInv, Browsed, Counted

Around == UNCHANGED <<tab, fileLock, now, regime, crashes>>

\* A step that only goes to l and calls nothing that writes.
LEMMA QuietStep ==
  ASSUME LinkInv, Around, NEW r \in Requests, NEW l \in Labels,
         Goto(r, l), UNCHANGED localVars,
         UNCHANGED connVars \/ Begin \/ Commit \/ Rollback,
         pc[r] \notin {"new", "200", "lost", "mark", "consume"},
         l \in Unknown => l # "new" /\ by[r] = "none",
         l \in Checked \union {"check"} => by[r] # "none",
         l \in {"mint", "stash"} => req[r].op = "init",
         l \in {"reap", "resolve", "exchange", "store", "mark", "consume"} => req[r].op = "redeem",
         l \in Checked => <<who[r], req[r].acct>> \in May
  PROVE  LinkInv'
<1>1. Advances(r) /\ pc'[r] = l
  BY GotoAdvances DEF LinkInv
<1>2. Placed'
  BY <1>1, GotoPlaces DEF LinkInv
<1>3. Leaves(live)
  BY ConnLeaves DEF LinkInv, Around
<1>4. Connected' /\ Recorded'
  BY <1>1, <1>3, LiveLasts DEF LinkInv
<1> QED BY <1>2, <1>4, WorldLasts DEF Around

\* What is known of a request at a label.
LEMMA At ==
  ASSUME LinkInv, NEW r \in Requests
  PROVE  Place(r) /\ pc[r] \in Labels /\ by[r] \in {"none", "link", "session"}
         /\ who[r] \in Users \union {NoOne} /\ at[r] \in Nat
BY DEF LinkInv, Placed, Shape

LEMMA SessionKeepsInv ==
  ASSUME LinkInv, Around, NEW r \in Requests,
         SessionBegin(r) \/ SessionStale(r) \/ SessionCatch(r)
  PROVE  LinkInv'
<1>1. by[r] = "none" /\ pc[r] \notin {"new", "200", "lost", "mark", "consume"} /\ UNCHANGED localVars
  BY At DEF Place, Unknown, SessionBegin, SessionStale, SessionCatch
<1>2. \E l \in {"s_end", "500", "401", "s_catch"} :
        Goto(r, l) /\ (UNCHANGED connVars \/ Begin \/ Commit \/ Rollback)
  BY Zenon DEF SessionBegin, SessionStale, SessionCatch
<1>3. PICK l \in {"s_end", "500", "401", "s_catch"} :
        Goto(r, l) /\ (UNCHANGED connVars \/ Begin \/ Commit \/ Rollback)
  BY <1>2
<1>4. l \in Labels
  BY DEF Labels, Done, Statuses
<1> QED BY <1>1, <1>3, <1>4, QuietStep DEF Unknown, Checked

LEMMA CheckKeepsInv ==
  ASSUME LinkInv, Around, NEW r \in Requests, Check(r)
  PROVE  LinkInv'
<1>1. by[r] # "none" /\ pc[r] \notin {"new", "200", "lost", "mark", "consume"}
      /\ req[r].op \in {"init", "redeem"}
  BY At DEF Place, Check, QueryType
<1>2. PICK l \in {"mint", "exchange", "403", "404"} :
        /\ Goto(r, l)
        /\ l = "mint" => req[r].op = "init"
        /\ l = "exchange" => req[r].op = "redeem"
        /\ l \in {"mint", "exchange"} => <<who[r], req[r].acct>> \in May
  BY <1>1 DEF Check
<1>3. l \in Labels
  BY DEF Labels, Done, Statuses
<1>4. UNCHANGED localVars /\ UNCHANGED connVars
  BY DEF Check
<1> QED BY <1>1, <1>2, <1>3, <1>4, QuietStep DEF Unknown, Checked

LEMMA PlaidKeepsInv ==
  ASSUME LinkInv, Around, NEW r \in Requests, Mint(r) \/ Exchange(r)
  PROVE  LinkInv'
<1>1. /\ by[r] # "none" /\ pc[r] \notin {"new", "200", "lost", "mark", "consume"}
      /\ <<who[r], req[r].acct>> \in May
      /\ pc[r] = "mint" => req[r].op = "init"
      /\ pc[r] = "exchange" => req[r].op = "redeem"
  BY At DEF Place, Checked, Mint, Exchange
<1>2. PICK l \in {"500", "stash", "store"} :
        /\ Goto(r, l)
        /\ l = "stash" => pc[r] = "mint"
        /\ l = "store" => pc[r] = "exchange"
  BY Zenon DEF Mint, Exchange
<1>3. l \in Labels
  BY DEF Labels, Done, Statuses
<1>4. UNCHANGED localVars /\ UNCHANGED connVars
  BY DEF Mint, Exchange
<1> QED BY <1>1, <1>2, <1>3, <1>4, QuietStep DEF Unknown, Checked

LEMMA TouchedKeepsInv ==
  ASSUME LinkInv, Around, NEW r \in Requests, SessionTouched(r)
  PROVE  LinkInv'
<1>1. by[r] = "none" /\ pc[r] = "s_end" /\ req[r] \in QueryType /\ req[r].user \in Users
  BY At DEF Place, Unknown, SessionTouched
<1>2. CASE CommitOK
  <2>1. /\ pc' = [pc EXCEPT ![r] = "check"] /\ who' = [who EXCEPT ![r] = req[r].user]
        /\ by' = [by EXCEPT ![r] = "session"] /\ UNCHANGED <<req, at, spent>> /\ Commit
    BY <1>2 DEF SessionTouched, Goto
  <2>2. "check" \in Labels
    BY DEF Labels
  <2>3. Advances(r)
    BY <1>1, <2>1, <2>2 DEF LinkInv, Placed, Shape, Advances
  <2>4. /\ pc'[r] = "check" /\ who'[r] \in Users /\ by'[r] = "session" /\ req'[r] = req[r]
    BY <1>1, <2>1 DEF LinkInv, Placed, Shape
  <2>5. Place(r)'
    BY <1>1, <2>4 DEF Place, Unknown, Checked, ByOK
  <2>6. Connected' /\ Recorded'
    BY <2>1, <2>3, ConnLeaves, LiveLasts DEF LinkInv, Around
  <2> QED BY <2>3, <2>5, <2>6, OthersStay, WorldLasts DEF LinkInv, Around
<1>3. CASE ~CommitOK
  <2>1. Goto(r, "s_catch") /\ UNCHANGED localVars /\ UNCHANGED connVars
    BY <1>3, Zenon DEF SessionTouched, localVars
  <2>2. "s_catch" \in Labels
    BY DEF Labels
  <2> QED BY <1>1, <2>1, <2>2, QuietStep DEF Unknown, Checked
<1> QED BY <1>2, <1>3

\* The links left are among those that were there.
LEMMA LinksLeft ==
  ASSUME Whole(live), InOrder(live), NEW kept \in SUBSET DOMAIN live.link
  PROVE  LET i == [live EXCEPT !.link = [l \in kept |-> @[l]]]
         IN  Whole(i) /\ InOrder(i)
<1> DEFINE i == [live EXCEPT !.link = [l \in kept |-> @[l]]]
<1>1. i = [account |-> live.account, link |-> [l \in kept |-> live.link[l]]]
  BY DEF Whole
<1>2. i.account = live.account /\ DOMAIN i.link = kept /\ \A l \in kept : i.link[l] = live.link[l]
  BY <1>1
<1>3. Whole(i)
  BY <1>1 DEF Whole, Image
<1> HIDE DEF i
<1>4. InOrder(i)
  BY <1>2 DEF InOrder
<1> QED BY <1>3, <1>4 DEF i

LEMMA ReapKeepsInv ==
  ASSUME LinkInv, Around, NEW r \in Requests, Reap(r)
  PROVE  LinkInv'
<1>1. by[r] = "none" /\ pc[r] = "reap" /\ req[r] \in QueryType /\ req[r].op = "redeem"
  BY At DEF Place, Unknown, Reap
<1> DEFINE kept == DOMAIN live.link \ Expired(live, now)
           i == [live EXCEPT !.link = [l \in kept |-> @[l]]]
<1>2. /\ pc' = [pc EXCEPT ![r] = "resolve"] /\ at' = [at EXCEPT ![r] = now]
      /\ UNCHANGED <<req, who, by, spent>>
      /\ \E rows \in {0, 1} : Try(i, rows)
  BY DEF Reap, Goto
<1>3. kept \in SUBSET DOMAIN live.link
  OBVIOUS
<1> HIDE DEF kept
<1>4. "resolve" \in Labels /\ now \in Nat
  BY DEF Labels, LinkInv, Counted
<1>5. Advances(r)
  BY <1>1, <1>2, <1>4 DEF LinkInv, Placed, Shape, Advances
<1>6. Place(r)'
  <2>1. /\ pc'[r] = "resolve" /\ by'[r] = "none" /\ req'[r] = req[r]
    BY <1>1, <1>2 DEF LinkInv, Placed, Shape
  <2> QED BY <1>1, <2>1 DEF Place, Unknown, Checked, ByOK
<1>7. Whole(i) /\ InOrder(i)
  <2>1. Whole(live) /\ InOrder(live)
    BY <1>5, ImageLasts DEF LinkInv, Connected, Recorded
  <2> QED BY <2>1, <1>3, LinksLeft
<1> HIDE DEF i
<1>8. Leaves(i)
  BY <1>2, TryLeaves DEF LinkInv, Around
<1> QED BY <1>5, <1>6, <1>7, <1>8, ConnLasts, OthersStay, WorldLasts DEF LinkInv, Around

LEMMA ConsumeKeepsInv ==
  ASSUME LinkInv, Around, NEW r \in Requests, Consume(r)
  PROVE  LinkInv'
<1>1. /\ pc[r] = "consume" /\ Placed
  BY DEF Consume, LinkInv
<1> DEFINE kept == DOMAIN live.link \ {req[r].link}
           i == [live EXCEPT !.link = [l \in kept |-> @[l]]]
<1>2. Goto(r, "200") /\ UNCHANGED localVars /\ \E rows \in {0, 1} : Try(i, rows)
  BY DEF Consume
<1>3. kept \in SUBSET DOMAIN live.link /\ "200" \in Labels
  BY DEF Labels, Done, Statuses
<1> HIDE DEF kept
<1>5. Advances(r) /\ pc'[r] = "200"
  BY <1>1, <1>2, <1>3, GotoAdvances
<1>6. Placed'
  BY <1>1, <1>2, <1>3, <1>5, GotoPlaces DEF Unknown, Checked
<1>7. Whole(i) /\ InOrder(i)
  <2>1. Whole(live) /\ InOrder(live)
    BY <1>5, ImageLasts DEF LinkInv, Connected, Recorded
  <2> QED BY <2>1, <1>3, LinksLeft
<1> HIDE DEF i
<1>8. Leaves(i)
  BY <1>2, TryLeaves DEF LinkInv, Around
<1> QED BY <1>5, <1>6, <1>7, <1>8, ConnLasts, WorldLasts DEF LinkInv, Around

LEMMA StashKeepsInv ==
  ASSUME LinkInv, Around, NEW r \in Requests, Stash(r)
  PROVE  LinkInv'
<1>1. /\ by[r] # "none" /\ pc[r] = "stash" /\ req[r] \in QueryType /\ req[r].op = "init"
      /\ who[r] \in Users /\ ByOK(r)
  BY At DEF Place, Checked, Stash
<1> DEFINE g == [user |-> who[r], acct |-> req[r].acct, expires |-> now + TTL]
           i == [live EXCEPT !.link =
                   [l \in DOMAIN @ \union {r} |-> IF l = r THEN g ELSE @[l]]]
<1>2. /\ pc' = [pc EXCEPT ![r] = "200"] /\ at' = [at EXCEPT ![r] = now]
      /\ UNCHANGED <<req, who, by, spent>>
      /\ Try(i, 1)
  BY DEF Stash, Goto
<1>4. "200" \in Labels /\ now \in Nat /\ TTL \in Nat
  BY LinkAssumption DEF Labels, Done, Statuses, LinkInv, Counted
<1>5. Advances(r)
  BY <1>1, <1>2, <1>4 DEF LinkInv, Placed, Shape, Advances
<1>6. /\ pc'[r] = "200" /\ by'[r] = by[r] /\ req'[r] = req[r] /\ who'[r] = who[r] /\ at'[r] = now
  BY <1>1, <1>2 DEF LinkInv, Placed, Shape
<1>7. by[r] # "link"
  BY <1>1 DEF ByOK
<1>8. Place(r)'
  BY <1>1, <1>6, <1>7 DEF Place, Unknown, Checked, ByOK
<1>9. Whole(live) /\ InOrder(live)
  BY <1>5, ImageLasts DEF LinkInv, Connected, Recorded
<1>10. i = [account |-> live.account,
            link |-> [l \in (DOMAIN live.link) \union {r} |-> IF l = r THEN g ELSE live.link[l]]]
  BY <1>9 DEF Whole
<1>11. Whole(i)
  <2>1. g \in [user : Users, acct : Accounts, expires : Nat]
    BY <1>1, <1>4 DEF QueryType
  <2> HIDE DEF g
  <2> QED BY <1>9, <1>10, <2>1 DEF Whole, Image
<1>12. InOrder(i)
  <2>1. i.account = live.account /\ DOMAIN i.link = (DOMAIN live.link) \union {r}
        /\ \A l \in DOMAIN i.link : i.link[l] = IF l = r THEN g ELSE live.link[l]
    BY <1>10
  <2>2. g = [user |-> who'[r], acct |-> req'[r].acct, expires |-> at'[r] + TTL]
    BY <1>6
  <2>3. pc'[r] = "200" /\ req'[r].op = "init"
    BY <1>1, <1>6
  <2> HIDE DEF g, i
  <2> QED BY <1>9, <2>1, <2>2, <2>3 DEF InOrder
<1> HIDE DEF i
<1>13. Leaves(i)
  BY <1>2, TryLeaves DEF LinkInv, Around
<1> QED BY <1>5, <1>8, <1>11, <1>12, <1>13, ConnLasts, OthersStay, WorldLasts DEF LinkInv, Around

LEMMA ResolveKeepsInv ==
  ASSUME LinkInv, Around, NEW r \in Requests, Resolve(r)
  PROVE  LinkInv'
<1> DEFINE l == req[r].link
<1>1. /\ by[r] = "none" /\ pc[r] = "resolve" /\ req[r] \in QueryType /\ req[r].op = "redeem"
      /\ UNCHANGED <<connVars, req, at, spent>>
  BY At DEF Place, Unknown, Resolve
<1>2. CASE /\ l \in DOMAIN live.link /\ live.link[l].expires >= at[r]
           /\ live.link[l].acct = req[r].acct
           /\ who' = [who EXCEPT ![r] = live.link[l].user]
           /\ by' = [by EXCEPT ![r] = "link"]
           /\ Goto(r, "check")
  <2>1. l \in Requests /\ GrantOK(l, live.link[l]) /\ live.link[l].user \in Users
    BY <1>2 DEF LinkInv, Recorded, Grants, Connected, Whole, Image
  <2>2. "check" \in Labels
    BY DEF Labels
  <2>3. Advances(r)
    BY <1>1, <1>2, <2>1, <2>2 DEF LinkInv, Placed, Shape, Advances, Goto
  <2>4. /\ pc'[r] = "check" /\ who'[r] = live.link[l].user /\ by'[r] = "link"
        /\ req'[r] = req[r] /\ at'[r] = at[r]
    BY <1>1, <1>2 DEF LinkInv, Placed, Shape, Goto
  <2>5. l # r /\ pc'[l] = "200" /\ who'[l] = who[l] /\ req'[l] = req[l] /\ at'[l] = at[l]
    BY <1>1, <2>1, <2>3 DEF GrantOK, Advances
  <2>6. /\ live.link[l].user = who[l] /\ live.link[l].acct = req[l].acct
        /\ live.link[l].expires = at[l] + TTL /\ req[l].op = "init"
    BY <2>1 DEF GrantOK
  <2>7. at[r] <= at[l] + TTL
    <3>1. at[l] + TTL >= at[r]
      BY <1>2, <2>6
    <3> QED BY <3>1, <2>1, At, LinkAssumption
  <2>8. ByOK(r)'
    BY <1>1, <1>2, <2>1, <2>4, <2>5, <2>6, <2>7 DEF ByOK, LinkIsOf
  <2>9. Place(r)'
    BY <1>1, <2>1, <2>4, <2>8 DEF Place, Unknown, Checked
  <2>10. Connected' /\ Recorded'
    BY <1>1, <2>3, ConnLeaves, LiveLasts DEF LinkInv, Around
  <2> QED BY <2>3, <2>9, <2>10, OthersStay, WorldLasts DEF LinkInv, Around
<1>3. CASE Goto(r, Fallback(r)) /\ UNCHANGED <<who, by>>
  <2>1. PICK k \in {"401", "s_begin"} : Goto(r, k)
    BY <1>3 DEF Fallback
  <2>2. k \in Labels
    BY DEF Labels, Done, Statuses
  <2> QED BY <1>1, <1>3, <2>1, <2>2, QuietStep DEF Unknown, Checked, localVars
<1> QED BY <1>2, <1>3, Zenon DEF Resolve

\* The row of account a becomes row, whose token is in order.
LEMMA RowSet ==
  ASSUME Whole(live), InOrder(live), NEW a \in DOMAIN live.account,
         NEW row \in [token : Tokens, linked : BOOLEAN, inst : Tokens],
         row.token # NoOne =>
           /\ row.token \in Requests
           /\ pc'[row.token] \in {"mark", "consume", "200", "lost"}
           /\ req'[row.token].op = "redeem" /\ req'[row.token].acct = a
           /\ <<who'[row.token], a>> \in May
  PROVE  LET i == [live EXCEPT !.account[a] = row] IN Whole(i) /\ InOrder(i)
<1> DEFINE i == [live EXCEPT !.account[a] = row]
<1>1. i = [account |-> [live.account EXCEPT ![a] = row], link |-> live.link]
  BY DEF Whole
<1>2. /\ i.link = live.link /\ DOMAIN i.account = DOMAIN live.account
      /\ \A b \in DOMAIN live.account : i.account[b] = IF b = a THEN row ELSE live.account[b]
  BY <1>1
<1>3. Whole(i)
  BY <1>1 DEF Whole, Image
<1> HIDE DEF i
<1>4. InOrder(i)
  BY <1>2 DEF InOrder
<1> QED BY <1>3, <1>4 DEF i

LEMMA RowFacts ==
  ASSUME LinkInv, NEW a \in DOMAIN live.account
  PROVE  /\ live.account[a] \in [token : Tokens, linked : BOOLEAN, inst : Tokens]
         /\ NoOne \in Tokens /\ Requests \subseteq Tokens /\ NoOne \notin Requests
BY LinkAssumption DEF LinkInv, Connected, Whole, Image, Tokens

LEMMA StoreKeepsInv ==
  ASSUME LinkInv, Around, NEW r \in Requests, StoreToken(r)
  PROVE  LinkInv'
<1> DEFINE a == req[r].acct
           row == [token |-> r, linked |-> TRUE, inst |-> live.account[a].inst]
<1>1. /\ by[r] # "none" /\ pc[r] = "store" /\ req[r] \in QueryType /\ req[r].op = "redeem"
      /\ <<who[r], a>> \in May /\ UNCHANGED localVars /\ Placed
      /\ UpdateAccount(a, row)
  BY At DEF Place, Checked, StoreToken, LinkInv
<1>2. CASE ~WriteOK
  <2>1. Goto(r, "500") /\ Leaves(live)
    BY <1>1, <1>2
    DEF StoreToken, UpdateAccount, Try, WriteFails, Leaves, LinkInv, Connected, Around
  <2>2. "500" \in Labels
    BY DEF Labels, Done, Statuses
  <2>3. Advances(r) /\ pc'[r] = "500"
    BY <1>1, <2>1, <2>2, GotoAdvances
  <2>4. Placed'
    BY <1>1, <2>1, <2>2, <2>3, GotoPlaces DEF Unknown, Checked
  <2> QED BY <2>1, <2>3, <2>4, LiveLasts, WorldLasts DEF LinkInv, Around
<1>3. CASE WriteOK
  <2>1. Goto(r, "mark")
    BY <1>3 DEF StoreToken
  <2>2. "mark" \in Labels
    BY DEF Labels
  <2>3. Advances(r) /\ pc'[r] = "mark"
    BY <1>1, <2>1, <2>2, GotoAdvances
  <2>4. Placed'
    BY <1>1, <2>1, <2>2, <2>3, GotoPlaces DEF Unknown, Checked
  <2>5. Whole(live) /\ InOrder(live)
    BY <2>3, ImageLasts DEF LinkInv, Connected, Recorded
  <2>6. CASE a \in DOMAIN live.account
    <3>1. row \in [token : Tokens, linked : BOOLEAN, inst : Tokens] /\ row.token = r
      BY <2>6, RowFacts
    <3>2. req'[r] = req[r] /\ who'[r] = who[r]
      BY <1>1 DEF localVars
    <3> DEFINE i == [live EXCEPT !.account[a] = row]
    <3>3. Try(i, 1)
      BY <1>1, <2>6 DEF UpdateAccount
    <3> HIDE DEF row
    <3>4. Whole(i) /\ InOrder(i)
      BY <1>1, <2>3, <2>5, <2>6, <3>1, <3>2, RowSet
    <3> HIDE DEF i
    <3>5. Leaves(i)
      BY <3>3, TryLeaves DEF LinkInv, Around
    <3> QED BY <2>3, <2>4, <3>4, <3>5, ConnLasts, WorldLasts DEF LinkInv, Around
  <2>7. CASE a \notin DOMAIN live.account
    <3>1. Leaves(live)
      BY <1>1, <2>7, TryLeaves DEF UpdateAccount, LinkInv, Around
    <3> QED BY <2>3, <2>4, <3>1, LiveLasts, WorldLasts DEF LinkInv, Around
  <2> QED BY <2>6, <2>7
<1> QED BY <1>2, <1>3

LEMMA MarkKeepsInv ==
  ASSUME LinkInv, Around, NEW r \in Requests, MarkLinked(r)
  PROVE  LinkInv'
<1> DEFINE a == req[r].acct
           old == live.account[a]
           row == [old EXCEPT !.linked = TRUE, !.inst = IF req[r].link # NoOne THEN r ELSE @]
<1>1. /\ by[r] # "none" /\ pc[r] = "mark" /\ req[r] \in QueryType /\ req[r].op = "redeem"
      /\ <<who[r], a>> \in May /\ UNCHANGED localVars /\ Placed
      /\ UpdateAccount(a, row)
  BY At DEF Place, Checked, MarkLinked, LinkInv
<1>2. PICK l \in {"consume", "200"} : Goto(r, l)
  BY DEF MarkLinked
<1>3. l \in Labels
  BY DEF Labels, Done, Statuses
<1>4. Advances(r) /\ pc'[r] = l
  BY <1>1, <1>2, <1>3, GotoAdvances
<1>5. Placed'
  BY <1>1, <1>2, <1>3, <1>4, GotoPlaces DEF Unknown, Checked
<1>6. Whole(live) /\ InOrder(live)
  BY <1>4, ImageLasts DEF LinkInv, Connected, Recorded
<1>7. CASE a \in DOMAIN live.account
  <2>1. /\ old \in [token : Tokens, linked : BOOLEAN, inst : Tokens]
        /\ r \in Tokens
    BY <1>7, RowFacts
  <2> DEFINE i == [live EXCEPT !.account[a] = row]
  <2>2. Try(i, 1)
    BY <1>1, <1>7 DEF UpdateAccount
  <2>3. row \in [token : Tokens, linked : BOOLEAN, inst : Tokens] /\ row.token = old.token
    BY <2>1
  <2>4. old.token # NoOne =>
           /\ old.token \in Requests
           /\ pc'[old.token] \in {"mark", "consume", "200", "lost"}
           /\ req'[old.token].op = "redeem" /\ req'[old.token].acct = a
           /\ <<who'[old.token], a>> \in May
    BY <1>6, <1>7 DEF InOrder
  <2> HIDE DEF row, old
  <2>5. Whole(i) /\ InOrder(i)
    BY <1>6, <1>7, <2>3, <2>4, RowSet
  <2> HIDE DEF i
  <2>6. Leaves(i)
    BY <2>2, TryLeaves DEF LinkInv, Around
  <2> QED BY <1>4, <1>5, <2>5, <2>6, ConnLasts, WorldLasts DEF LinkInv, Around
<1>8. CASE a \notin DOMAIN live.account
  <2>1. Leaves(live)
    BY <1>1, <1>8, TryLeaves DEF UpdateAccount, LinkInv, Around
  <2> QED BY <1>4, <1>5, <2>1, LiveLasts, WorldLasts DEF LinkInv, Around
<1> QED BY <1>7, <1>8

LEMMA HandleKeepsInv ==
  ASSUME LinkInv, Around, NEW r \in Requests, Handle(r)
  PROVE  LinkInv'
BY SessionKeepsInv, TouchedKeepsInv, CheckKeepsInv, PlaidKeepsInv, StashKeepsInv,
   ReapKeepsInv, ResolveKeepsInv, StoreKeepsInv, MarkKeepsInv, ConsumeKeepsInv, Zenon
DEF Handle

-----------------------------------------------------------------------------
(* Arrival, tabs and the world                                              *)

LEMMA SendKeeps ==
  ASSUME LinkInv, UNCHANGED <<fileLock, now, regime, crashes>>, NEW r \in Requests,
         NEW q \in QueryType, NEW l \in {"400", "401", "s_begin", "reap"},
         l = "reap" => q.op = "redeem",
         Send(r, q, l)
  PROVE  Connected' /\ Recorded' /\ Placed' /\ Counted'
<1>1. /\ pc[r] = "new" /\ by[r] = "none"
      /\ req' = [req EXCEPT ![r] = q]
      /\ spent' = [spent EXCEPT ![r] = Redeemed]
      /\ pc' = [pc EXCEPT ![r] = l]
      /\ UNCHANGED <<connVars, who, by, at>>
  BY At DEF Place, Unknown, Send
<1>2. l \in Labels
  BY DEF Labels, Done, Statuses
<1>3. Redeemed \in SUBSET Tokens
  <2>1. ASSUME NEW x \in Requests, pc[x] = "200" PROVE req[x].link \in Tokens
    BY <2>1, At DEF Place, QueryType
  <2> QED BY <2>1 DEF Redeemed
<1>4. Advances(r)
  <2>1. spent' \in [Requests -> SUBSET Tokens]
    BY <1>1, <1>3 DEF LinkInv, Placed, Shape
  <2>2. /\ pc' \in [Requests -> Labels] /\ DOMAIN req' = Requests
        /\ \A p \in Requests \ {r} : pc'[p] = pc[p] /\ req'[p] = req[p]
    BY <1>1, <1>2 DEF LinkInv, Placed, Shape
  <2> QED BY <1>1, <2>1, <2>2 DEF LinkInv, Placed, Shape, Advances
<1>5. pc'[r] = l /\ req'[r] = q /\ by'[r] = "none"
  BY <1>1 DEF LinkInv, Placed, Shape
<1>6. Place(r)'
  BY <1>5 DEF Place, Unknown, Checked, ByOK
<1>7. Connected' /\ Recorded'
  BY <1>1, <1>4, ConnLeaves, LiveLasts DEF LinkInv
<1> QED BY <1>4, <1>6, <1>7, OthersStay DEF LinkInv, Counted

LEMMA QueryTypes ==
  ASSUME NEW o \in {"init", "redeem"}, NEW u \in Callers, NEW a \in Accounts, NEW l \in Tokens
  PROVE  Query(o, u, a, l) \in QueryType /\ Query(o, u, a, l).op = o
BY DEF Query, QueryType

LEMMA CallArrives ==
  ASSUME LinkInv, Around, NEW r \in Requests, InitArrives(r) \/ CurlArrives(r)
  PROVE  LinkInv'
<1>1. PICK o \in {"init", "redeem"}, u \in Callers, a \in Accounts,
           l \in {"400", "401", "s_begin"} : Send(r, Query(o, u, a, NoOne), l)
  <2>1. CASE InitArrives(r)
    <3>1. PICK i \in Inputs :
            Send(r, Query("init", i.user, i.acct, NoOne),
                 IF i.user = NoOne THEN "401" ELSE "s_begin")
      BY <2>1, Zenon DEF InitArrives
    <3>2. i.user \in Callers /\ i.acct \in Accounts
      BY LinkAssumption DEF InputType
    <3> QED BY <3>1, <3>2
  <2>2. CASE CurlArrives(r)
    <3>1. PICK i \in Inputs, wellFormed \in BOOLEAN :
            Send(r, Query("redeem", i.user, i.acct, NoOne),
                 IF ~wellFormed THEN "400" ELSE IF i.user = NoOne THEN "401" ELSE "s_begin")
      BY <2>2, Zenon DEF CurlArrives
    <3>2. i.user \in Callers /\ i.acct \in Accounts
      BY LinkAssumption DEF InputType
    <3> QED BY <3>1, <3>2
  <2> QED BY <2>1, <2>2
<1>2. NoOne \in Tokens
  BY DEF Tokens
<1>3. Query(o, u, a, NoOne) \in QueryType
  BY <1>2, QueryTypes
<1>4. Connected' /\ Recorded' /\ Placed' /\ Counted'
  BY <1>1, <1>3, SendKeeps DEF Around
<1> QED BY <1>4 DEF LinkInv, Around, Browsed

LEMMA TabArrives ==
  ASSUME LinkInv, UNCHANGED <<fileLock, now, regime, crashes>>,
         NEW r \in Requests, NEW b \in Tabs, TabSends(b, r)
  PROVE  LinkInv'
<1>1. /\ tab[b].state = "ready"
      /\ Send(r, Query("redeem", NoOne, tab[b].acct, tab[b].link), "reap")
      /\ tab' = [tab EXCEPT ![b] =
           [state |-> "sent", acct |-> tab[b].acct, link |-> tab[b].link, by |-> r]]
  BY DEF TabSends
<1>2. tab[b].acct \in Accounts /\ tab[b].link \in Requests
  BY <1>1 DEF LinkInv, Browsed, TabOK, ClosedTab
<1>3. Query("redeem", NoOne, tab[b].acct, tab[b].link) \in QueryType
      /\ Query("redeem", NoOne, tab[b].acct, tab[b].link).op = "redeem"
  BY <1>2, QueryTypes DEF Callers, Tokens
<1>4. Connected' /\ Recorded' /\ Placed' /\ Counted'
  BY <1>1, <1>3, SendKeeps
<1>5. Browsed'
  <2>1. TabOK([state |-> "sent", acct |-> tab[b].acct, link |-> tab[b].link, by |-> r])
    BY <1>2 DEF TabOK
  <2>2. DOMAIN tab' = Tabs /\ \A c \in Tabs : TabOK(tab'[c])
    BY <1>1, <2>1 DEF LinkInv, Browsed
  <2> QED BY <2>2 DEF Browsed
<1> QED BY <1>4, <1>5 DEF LinkInv

\* Nothing that is known of a request changes; those in flight may be lost.
Survive ==
  /\ UNCHANGED localVars
  /\ pc' \in [Requests -> Labels]
  /\ \A q \in Requests : pc'[q] = pc[q] \/ (pc[q] \notin {"new", "200"} /\ pc'[q] = "lost")

LEMMA Survival ==
  ASSUME Placed, Survive
  PROVE  /\ Placed'
         /\ \A i : Grants(i) /\ Bearers(i) /\ Whole(i) => InOrder(i)
<1>1. ASSUME NEW q \in Requests PROVE Place(q)'
  <2>1. Place(q) /\ ByOK(q)
    BY DEF Placed, Place
  <2>2. ByOK(q)'
    BY <2>1 DEF ByOK, LinkIsOf, Survive, localVars
  <2> QED BY <2>1, <2>2 DEF Place, Survive, localVars, Unknown, Checked
<1>2. Shape'
  BY DEF Placed, Shape, Survive, localVars
<1>3. ASSUME NEW i, Grants(i), Bearers(i), Whole(i) PROVE InOrder(i)
  <2>1. ASSUME NEW l \in DOMAIN i.link
        PROVE  /\ pc'[l] = "200" /\ req'[l].op = "init"
               /\ i.link[l] = [user |-> who'[l], acct |-> req'[l].acct, expires |-> at'[l] + TTL]
    <3>1. GrantOK(l, i.link[l]) /\ l \in Requests
      BY <1>3 DEF Grants, Whole, Image
    <3> QED BY <3>1 DEF GrantOK, Survive, localVars
  <2>2. ASSUME NEW a \in DOMAIN i.account, i.account[a].token # NoOne
        PROVE  LET t == i.account[a].token
               IN  /\ t \in Requests
                   /\ pc'[t] \in {"mark", "consume", "200", "lost"}
                   /\ req'[t].op = "redeem" /\ req'[t].acct = a
                   /\ <<who'[t], a>> \in May
    <3>1. Bearer(i.account[a].token, a)
      BY <1>3, <2>2 DEF Bearers
    <3> QED BY <3>1 DEF Bearer, Survive, localVars
  <2> QED BY <2>1, <2>2 DEF InOrder
<1> QED BY <1>1, <1>2, <1>3 DEF Placed

LEMMA ImagesInOrder ==
  ASSUME InOrder(live'), InOrder(disk')
  PROVE  Recorded'
<1>1. (Grants(live) /\ Bearers(live))'
  BY DEF InOrder, Grants, GrantOK, Bearers, Bearer
<1>2. (Grants(disk) /\ Bearers(disk))'
  BY DEF InOrder, Grants, GrantOK, Bearers, Bearer
<1> QED BY <1>1, <1>2 DEF Recorded

LEMMA DeletionKeepsInv ==
  ASSUME LinkInv, NEW a \in Accounts, AccountDeleted(a)
  PROVE  LinkInv'
<1> DEFINE i == [live EXCEPT !.account = [x \in DOMAIN @ \ {a} |-> @[x]]]
<1>1. Write(i, 1) /\ UNCHANGED <<fileLock, now, pc, localVars, tab, regime, crashes>>
  BY DEF AccountDeleted
<1>2. Survive
  BY <1>1 DEF Survive, LinkInv, Placed, Shape
<1>3. Placed' /\ InOrder(live) /\ InOrder(disk) /\ Whole(live) /\ Whole(disk)
  BY <1>2, Survival DEF LinkInv, Recorded, Connected
<1>4. i = [account |-> [x \in (DOMAIN live.account) \ {a} |-> live.account[x]],
           link |-> live.link]
  BY <1>3 DEF Whole
<1>5. Whole(i)
  BY <1>3, <1>4 DEF Whole, Image
<1>6. InOrder(i)
  <2>1. /\ i.link = live.link /\ DOMAIN i.account = (DOMAIN live.account) \ {a}
        /\ \A x \in DOMAIN i.account : i.account[x] = live.account[x]
    BY <1>4
  <2> HIDE DEF i
  <2> QED BY <1>3, <2>1 DEF InOrder
<1> HIDE DEF i
<1>7. live' = i /\ disk' \in {disk, i} /\ inTxn' = inTxn /\ changes' = 1
  BY <1>1 DEF Write
<1>8. Connected'
  <2>1. Whole(live)' /\ Whole(disk)'
    BY <1>3, <1>5, <1>7 DEF Whole, Image
  <2> QED BY <1>1, <1>7, <2>1 DEF LinkInv, Connected
<1>9. Recorded'
  BY <1>3, <1>6, <1>7, ImagesInOrder
<1> QED BY <1>1, <1>3, <1>8, <1>9, WorldLasts

LEMMA CrashKeepsInv ==
  ASSUME LinkInv, Crash
  PROVE  LinkInv'
<1>1. Survive
  <2>1. "lost" \in Labels
    BY DEF Labels, Done
  <2>2. \A q \in Requests : q \in InFlight => pc[q] \notin {"new", "200"}
    BY DEF InFlight, Done, Statuses
  <2> QED BY <2>1, <2>2 DEF Crash, Survive, LinkInv, Placed, Shape
<1>2. Placed' /\ InOrder(disk) /\ Whole(disk)
  BY <1>1, Survival DEF LinkInv, Recorded, Connected
<1>3. live' = disk /\ disk' = disk /\ inTxn' = FALSE /\ changes' = 0
  BY DEF Crash, ConnCrash
<1>4. Connected'
  BY <1>2, <1>3 DEF Crash, LinkInv, Connected, Whole, Image
<1>5. Recorded'
  BY <1>2, <1>3, ImagesInOrder
<1>6. Counted' /\ Browsed'
  BY DEF Crash, LinkInv, Counted, Browsed
<1> QED BY <1>2, <1>4, <1>5, <1>6 DEF LinkInv

\* The clock, the CLI and idling leave requests, tabs and tables alone.
LEMMA TablesAlone ==
  ASSUME LinkInv, UNCHANGED <<connVars, pc, localVars>>
  PROVE  Recorded' /\ Placed' /\ Whole(live)' /\ Whole(disk)'
<1>1. Survive
  BY DEF Survive, LinkInv, Placed, Shape
<1>2. Placed' /\ InOrder(live) /\ InOrder(disk)
  BY <1>1, Survival DEF LinkInv, Recorded, Connected
<1>3. live' = live /\ disk' = disk
  BY DEF connVars
<1>4. Recorded'
  BY <1>2, <1>3, ImagesInOrder
<1> QED BY <1>2, <1>3, <1>4 DEF LinkInv, Connected, Whole, Image

LEMMA WorldKeepsInv ==
  ASSUME LinkInv, Tick \/ CliLocks \/ UNCHANGED vars
  PROVE  LinkInv'
<1>1. UNCHANGED <<connVars, pc, localVars, tab, regime, crashes>>
  BY DEF Tick, CliLocks, vars
<1>2. now' \in Nat /\ fileLock' \in FileLocks
  BY DEF Tick, CliLocks, vars, LinkInv, Counted, Connected, FileLocks
<1>3. Recorded' /\ Placed' /\ Whole(live)' /\ Whole(disk)'
  BY <1>1, TablesAlone
<1> QED BY <1>1, <1>2, <1>3 DEF LinkInv, Connected, connVars, Browsed, Counted

LEMMA BrowseKeepsInv ==
  ASSUME LinkInv, UNCHANGED <<fileLock, now, regime, crashes>>, NEW b \in Tabs, Browse(b)
  PROVE  LinkInv'
<1>1. UNCHANGED <<connVars, pc, localVars>>
  BY DEF Browse, TabOpens, TabHears, TabLosesAnswer
<1>2. Recorded' /\ Placed' /\ Whole(live)' /\ Whole(disk)'
  BY <1>1, TablesAlone
<1>3. TabOK(tab[b]) /\ DOMAIN tab = Tabs
  BY DEF LinkInv, Browsed
<1>4. \E t : TabOK(t) /\ tab' = [tab EXCEPT ![b] = t]
  <2>1. CASE TabOpens(b)
    <3>1. PICK l \in Requests, a \in Accounts :
            tab' = [tab EXCEPT ![b] = [state |-> "ready", acct |-> a, link |-> l]]
      BY <2>1 DEF TabOpens
    <3>2. TabOK([state |-> "ready", acct |-> a, link |-> l])
      BY DEF TabOK
    <3> QED BY <3>1, <3>2
  <2>2. CASE TabHears(b) \/ TabLosesAnswer(b)
    <3>1. PICK s \in {"ready", "linked"} : tab' = [tab EXCEPT ![b].state = s]
      BY <2>2 DEF TabHears, TabLosesAnswer
    <3>2. tab[b] \in [state : {"ready", "sent", "linked"}, acct : Accounts,
                      link : Requests, by : Requests]
      BY <1>3, <2>2 DEF TabOK, ClosedTab, TabHears, TabLosesAnswer
    <3> DEFINE t == [tab[b] EXCEPT !.state = s]
    <3>3. t \in [state : {"ready", "sent", "linked"}, acct : Accounts,
                 link : Requests, by : Requests]
      BY <3>2
    <3>4. tab' = [tab EXCEPT ![b] = t]
      BY <3>1
    <3> HIDE DEF t
    <3> QED BY <3>3, <3>4 DEF TabOK
  <2> QED BY <2>1, <2>2 DEF Browse
<1>5. DOMAIN tab' = Tabs /\ \A c \in Tabs : TabOK(tab'[c])
  BY <1>3, <1>4 DEF LinkInv, Browsed
<1> QED BY <1>1, <1>2, <1>5 DEF LinkInv, Connected, connVars, Browsed, Counted

-----------------------------------------------------------------------------
(* The theorems                                                             *)

LEMMA InitIsSound == Init => LinkInv
<1> SUFFICES ASSUME Init PROVE LinkInv
  OBVIOUS
<1>1. /\ Whole(SeedImage) /\ Grants(SeedImage) /\ Bearers(SeedImage)
  BY DEF SeedImage, Unlinked, Whole, Image, Tokens, Grants, Bearers
<1>2. Connected /\ Recorded
  BY <1>1 DEF Init, ConnInit, Connected, Recorded, FileLocks
<1>3. Placed
  BY DEF Init, Placed, Shape, Place, ByOK, Labels, Done, Unknown, Checked
<1>4. Browsed /\ Counted
  BY DEF Init, Browsed, TabOK, ClosedTab, Counted
<1> QED BY <1>2, <1>3, <1>4 DEF LinkInv

LEMMA NextKeepsInv == LinkInv /\ [Next]_vars => LinkInv'
<1> SUFFICES ASSUME LinkInv, [Next]_vars PROVE LinkInv'
  OBVIOUS
<1>1. ASSUME NEW r \in Requests, Arrive(r), UNCHANGED <<fileLock, now, regime, crashes>>
      PROVE  LinkInv'
  <2>1. CASE (InitArrives(r) \/ CurlArrives(r)) /\ UNCHANGED tab
    BY <1>1, <2>1, CallArrives DEF Around
  <2>2. CASE \E b \in Tabs : TabSends(b, r)
    BY <1>1, <2>2, TabArrives
  <2> QED BY <1>1, <2>1, <2>2 DEF Arrive
<1>2. ASSUME NEW r \in Requests, Handle(r), UNCHANGED <<tab, fileLock, now, regime, crashes>>
      PROVE  LinkInv'
  BY <1>2, HandleKeepsInv DEF Around
<1>3. ASSUME NEW b \in Tabs, Browse(b), UNCHANGED <<fileLock, now, regime, crashes>>
      PROVE  LinkInv'
  BY <1>3, BrowseKeepsInv
<1>4. CASE \E a \in Accounts : AccountDeleted(a)
  BY <1>4, DeletionKeepsInv
<1>5. CASE Tick \/ CliLocks \/ UNCHANGED vars
  BY <1>5, WorldKeepsInv
<1>6. CASE Crash
  BY <1>6, CrashKeepsInv
<1>7. Idle => UNCHANGED vars
  BY DEF Idle
<1> QED BY <1>1, <1>2, <1>3, <1>4, <1>5, <1>6, <1>7, Zenon DEF Next

LEMMA InvHolds == Spec => []LinkInv
BY InitIsSound, NextKeepsInv, PTL DEF Spec

\* At any time every variable holds what the code can put in it, and nobody is past
\* the authentication without a user: for any number of callbacks at once, beside
\* the CLI and through crashes.
THEOREM TypeCorrect == Spec => []TypeOK
BY InvHolds, InvImpliesType, PTL

\* However callbacks, retries, expiry, deletions and crashes interleave, the token
\* of an account, in memory and on disk, was brought for this very account by a
\* member of its entity, with a session or with his own link, in time.
THEOREM TokensByPermission == Spec => []TokenByPermission
BY InvHolds, InvImpliesPermission, PTL

-----------------------------------------------------------------------------
(* One request at a time: what is linked has a token                        *)

Serial == regime.pool = 1

\* The labels at which a request may be inside the transaction it began.
TxnLabels == {"s_end", "s_catch"}

OneOpen ==
  Serial =>
    /\ \A q, r \in InFlight : q = r
    /\ inTxn => \E r \in Requests : pc[r] \in TxnLabels

Fitting(i) == \A a \in DOMAIN i.account : i.account[a].linked <=> i.account[a].token # NoOne
LinkedIn(i, a) == a \in DOMAIN i.account => i.account[a].linked

\* r has stored its token, and has not failed since.
Brought(r) == pc[r] \in {"mark", "consume"} \/ (pc[r] = "200" /\ req[r].op = "redeem")

TabTrue(b) ==
  /\ tab[b].state = "sent" =>
       /\ tab[b].by \in Requests /\ pc[tab[b].by] # "new"
       /\ req[tab[b].by].op = "redeem" /\ req[tab[b].by].acct = tab[b].acct
  /\ tab[b].state = "linked" => LinkedIn(live, tab[b].acct) /\ LinkedIn(disk, tab[b].acct)

LinkedInv ==
  Serial =>
    /\ Fitting(live) /\ Fitting(disk)
    /\ \A r \in Requests :
         Brought(r) => LinkedIn(live, req[r].acct) /\ LinkedIn(disk, req[r].acct)
    /\ \A b \in Tabs : TabTrue(b)

\* A link that was redeemed is in neither table.
Linkable == DOMAIN live.link \union DOMAIN disk.link

SpentInv ==
  /\ \A r \in Requests : pc[r] # "new" => spent[r] \subseteq Redeemed
  /\ Settled => fileLock = "none" /\ Redeemed \intersect Linkable = {}
  /\ SpentOnce

\* What the request that takes a step does to the connection and to its own place.
Rest(r) ==
  /\ \A q \in Requests \ {r} : pc'[q] = pc[q] /\ by'[q] = by[q]
  /\ req' = req /\ spent' = spent
  /\ pc[r] \notin Done /\ pc'[r] \notin {"new", "lost"}

\* A call that writes nothing of its own.
Plain(r) ==
  /\ pc[r] \notin {"stash", "reap", "store", "mark", "consume"}
  /\ pc'[r] \notin {"mark", "consume", "200"}
  /\ live' \in {live, disk} /\ disk' \in {live, disk}
  /\ inTxn' => pc'[r] \in TxnLabels \/ (inTxn /\ pc[r] \notin TxnLabels)
  /\ by'[r] = "link" =>
       by[r] = "link" \/ (pc[r] = "resolve" /\ req[r].link \in DOMAIN live.link)

\* Of the accounts only that of r changes, and it is linked.
Links(r, i) ==
  /\ DOMAIN i.account = DOMAIN live.account
  /\ \A a \in DOMAIN live.account :
       /\ a # req[r].acct => i.account[a] = live.account[a]
       /\ a = req[r].acct => i.account[a].linked

\* What r means to leave in the tables.
Made(r, i) ==
  \/ /\ pc[r] = "stash"
     /\ i.account = live.account /\ DOMAIN i.link = DOMAIN live.link \union {r}
  \/ /\ pc[r] = "reap"
     /\ i.account = live.account /\ DOMAIN i.link \subseteq DOMAIN live.link
  \/ /\ pc[r] = "store"
     /\ Links(r, i) /\ DOMAIN i.link = DOMAIN live.link
     /\ req[r].acct \in DOMAIN live.account => i.account[req[r].acct].token = r
  \/ /\ pc[r] = "mark"
     /\ Links(r, i) /\ DOMAIN i.link = DOMAIN live.link
     /\ req[r].acct \in DOMAIN live.account =>
          i.account[req[r].acct].token = live.account[req[r].acct].token
  \/ /\ pc[r] = "consume"
     /\ i.account = live.account /\ DOMAIN i.link = DOMAIN live.link \ {req[r].link}

\* A statement of r's own.
Writing(r) ==
  /\ pc[r] \in {"stash", "reap", "store", "mark", "consume"}
  /\ by'[r] = by[r] /\ inTxn' = inTxn
  /\ \/ ~WriteOK /\ live' = live /\ disk' = disk
     \/ WriteOK /\ Made(r, live') /\ disk' = IF inTxn THEN disk ELSE live'
  /\ pc[r] = "stash" => pc'[r] = "200"
  /\ pc[r] = "reap" => pc'[r] = "resolve"
  /\ pc[r] = "store" => pc'[r] = IF WriteOK THEN "mark" ELSE "500"
  /\ pc[r] = "mark" => pc'[r] = IF by[r] = "link" THEN "consume" ELSE "200"
  /\ pc[r] = "consume" => pc'[r] = "200"

Turn(r) == Rest(r) /\ (Plain(r) \/ Writing(r))

LEMMA PlainTurn ==
  ASSUME LinkInv, NEW r \in Requests,
         \/ SessionBegin(r) \/ SessionStale(r) \/ SessionTouched(r) \/ SessionCatch(r)
         \/ Check(r) \/ Mint(r) \/ Resolve(r) \/ Exchange(r)
  PROVE  Turn(r)
<1> USE DEF Turn, Rest, Plain, Goto, localVars, connVars, Done, Statuses, TxnLabels
<1>1. /\ pc \in [Requests -> Labels] /\ by \in [Requests -> {"none", "link", "session"}]
      /\ DOMAIN req = Requests
  BY DEF LinkInv, Placed, Shape
<1>2. CASE SessionBegin(r)
  BY <1>1, <1>2 DEF SessionBegin, Begin
<1>3. CASE SessionStale(r)
  BY <1>1, <1>3 DEF SessionStale, Rollback
<1>4. CASE SessionTouched(r)
  BY <1>1, <1>4 DEF SessionTouched, Commit
<1>5. CASE SessionCatch(r)
  BY <1>1, <1>5 DEF SessionCatch, Rollback
<1>6. CASE Check(r)
  BY <1>1, <1>6 DEF Check
<1>7. CASE Mint(r) \/ Exchange(r)
  BY <1>1, <1>7 DEF Mint, Exchange
<1>8. CASE Resolve(r)
  BY <1>1, <1>8 DEF Resolve, Fallback
<1> QED BY <1>2, <1>3, <1>4, <1>5, <1>6, <1>7, <1>8

\* A tried statement changes the table as meant, or not at all.
LEMMA TryWrites ==
  ASSUME NEW i, NEW rows, Try(i, rows)
  PROVE  /\ inTxn' = inTxn
         /\ \/ ~WriteOK /\ live' = live /\ disk' = disk
            \/ WriteOK /\ live' = i /\ disk' = IF inTxn THEN disk ELSE live'
BY DEF Try, Write, WriteFails

LEMMA LinkWrites ==
  ASSUME LinkInv, NEW r \in Requests, Stash(r) \/ Reap(r) \/ Consume(r)
  PROVE  Turn(r)
<1>1. /\ pc \in [Requests -> Labels] /\ Whole(live)
  BY DEF LinkInv, Placed, Shape, Connected
<1>2. CASE Stash(r)
  <2> DEFINE grant == [user |-> who[r], acct |-> req[r].acct, expires |-> now + TTL]
             g == [l \in DOMAIN live.link \union {r} |-> IF l = r THEN grant ELSE live.link[l]]
             i == [live EXCEPT !.link = g]
  <2>1. i.account = live.account /\ DOMAIN i.link = DOMAIN live.link \union {r}
    BY <1>1 DEF Whole
  <2>2. Try(i, 1) /\ pc[r] = "stash" /\ Goto(r, "200") /\ UNCHANGED <<req, by, spent>>
    BY <1>2 DEF Stash
  <2> HIDE DEF i
  <2>3. pc'[r] = "200" /\ \A q \in Requests \ {r} : pc'[q] = pc[q]
    BY <1>1, <2>2 DEF Goto
  <2>4. Writing(r)
    BY <2>1, <2>2, <2>3, TryWrites DEF Writing, Made
  <2> QED BY <2>2, <2>3, <2>4 DEF Turn, Rest, Done, Statuses
<1>3. CASE Reap(r)
  <2> DEFINE kept == DOMAIN live.link \ Expired(live, now)
             i == [live EXCEPT !.link = [l \in kept |-> live.link[l]]]
  <2>1. i.account = live.account /\ DOMAIN i.link \subseteq DOMAIN live.link
    BY <1>1 DEF Whole
  <2>2. pc[r] = "reap" /\ Goto(r, "resolve") /\ UNCHANGED <<req, by, spent>>
        /\ \E rows : Try(i, rows)
    BY <1>3 DEF Reap
  <2> HIDE DEF i
  <2>3. pc'[r] = "resolve" /\ \A q \in Requests \ {r} : pc'[q] = pc[q]
    BY <1>1, <2>2 DEF Goto
  <2>4. Writing(r)
    BY <2>1, <2>2, <2>3, TryWrites DEF Writing, Made
  <2> QED BY <2>2, <2>3, <2>4 DEF Turn, Rest, Done, Statuses
<1>4. CASE Consume(r)
  <2> DEFINE kept == DOMAIN live.link \ {req[r].link}
             i == [live EXCEPT !.link = [l \in kept |-> live.link[l]]]
  <2>1. i.account = live.account /\ DOMAIN i.link = DOMAIN live.link \ {req[r].link}
    BY <1>1 DEF Whole
  <2>2. pc[r] = "consume" /\ Goto(r, "200") /\ UNCHANGED <<req, by, spent>>
        /\ \E rows : Try(i, rows)
    BY <1>4 DEF Consume, localVars
  <2> HIDE DEF i
  <2>3. pc'[r] = "200" /\ \A q \in Requests \ {r} : pc'[q] = pc[q]
    BY <1>1, <2>2 DEF Goto
  <2>4. Writing(r)
    BY <2>1, <2>2, <2>3, TryWrites DEF Writing, Made
  <2> QED BY <2>2, <2>3, <2>4 DEF Turn, Rest, Done, Statuses
<1> QED BY <1>2, <1>3, <1>4

LEMMA AccountWrites ==
  ASSUME LinkInv, NEW r \in Requests, StoreToken(r) \/ MarkLinked(r)
  PROVE  Turn(r)
<1>1. pc \in [Requests -> Labels] /\ Whole(live)
  BY DEF LinkInv, Placed, Shape, Connected
<1> DEFINE a == req[r].acct
<1>2. ASSUME NEW row, a \in DOMAIN live.account, UpdateAccount(a, row), row.linked = TRUE
      PROVE  /\ inTxn' = inTxn
             /\ \/ ~WriteOK /\ live' = live /\ disk' = disk
                \/ /\ WriteOK /\ disk' = IF inTxn THEN disk ELSE live'
                   /\ Links(r, live') /\ DOMAIN live'.link = DOMAIN live.link
                   /\ live'.account[a].token = row.token
  <2> DEFINE i == [live EXCEPT !.account[a] = row]
  <2>1. /\ i.link = live.link /\ DOMAIN i.account = DOMAIN live.account
        /\ \A b \in DOMAIN live.account : i.account[b] = IF b = a THEN row ELSE live.account[b]
    BY <1>1 DEF Whole, Image
  <2>2. Try(i, 1)
    BY <1>2 DEF UpdateAccount
  <2> HIDE DEF i
  <2> QED BY <1>2, <2>1, <2>2, TryWrites DEF Links
<1>3. ASSUME NEW row, a \notin DOMAIN live.account, UpdateAccount(a, row)
      PROVE  /\ inTxn' = inTxn
             /\ \/ ~WriteOK /\ live' = live /\ disk' = disk
                \/ /\ WriteOK /\ disk' = IF inTxn THEN disk ELSE live'
                   /\ Links(r, live') /\ DOMAIN live'.link = DOMAIN live.link
  BY <1>3, TryWrites DEF UpdateAccount, Links
<1>4. CASE StoreToken(r)
  <2> DEFINE row == [token |-> r, linked |-> TRUE, inst |-> live.account[a].inst]
  <2>1. /\ pc[r] = "store" /\ UpdateAccount(a, row) /\ UNCHANGED <<req, by, spent>>
        /\ Goto(r, IF WriteOK THEN "mark" ELSE "500")
    BY <1>4 DEF StoreToken, localVars
  <2>2. row.linked = TRUE /\ row.token = r
    OBVIOUS
  <2> HIDE DEF row
  <2>3. /\ pc'[r] = IF WriteOK THEN "mark" ELSE "500"
        /\ \A q \in Requests \ {r} : pc'[q] = pc[q]
    BY <1>1, <2>1 DEF Goto
  <2>4. Writing(r)
    BY <1>2, <1>3, <2>1, <2>2, <2>3 DEF Writing, Made
  <2> QED BY <2>1, <2>3, <2>4 DEF Turn, Rest, Done, Statuses
<1>5. CASE MarkLinked(r)
  <2> DEFINE old == live.account[a]
             row == [old EXCEPT !.linked = TRUE, !.inst = IF req[r].link # NoOne THEN r ELSE @]
  <2>1. /\ pc[r] = "mark" /\ UpdateAccount(a, row) /\ UNCHANGED <<req, by, spent>>
        /\ Goto(r, IF by[r] = "link" THEN "consume" ELSE "200")
    BY <1>5 DEF MarkLinked, localVars
  <2>2. a \in DOMAIN live.account => row.linked = TRUE /\ row.token = live.account[a].token
    BY RowFacts
  <2> HIDE DEF row
  <2>3. /\ pc'[r] = IF by[r] = "link" THEN "consume" ELSE "200"
        /\ \A q \in Requests \ {r} : pc'[q] = pc[q]
    BY <1>1, <2>1 DEF Goto
  <2>4. Writing(r)
    BY <1>2, <1>3, <2>1, <2>2, <2>3 DEF Writing, Made
  <2> QED BY <2>1, <2>3, <2>4 DEF Turn, Rest, Done, Statuses
<1> QED BY <1>4, <1>5

LEMMA HandleTurn ==
  ASSUME LinkInv, NEW r \in Requests, Handle(r)
  PROVE  Turn(r)
BY PlainTurn, LinkWrites, AccountWrites DEF Handle

LEMMA RegimeStays == [Next]_vars => regime' = regime
BY DEF Next, Idle, vars, Tick, CliLocks, Crash, AccountDeleted

LEMMA OpenNext == LinkInv /\ OneOpen /\ [Next]_vars => OneOpen'
<1> SUFFICES ASSUME LinkInv, OneOpen, [Next]_vars, Serial PROVE OneOpen'
  BY RegimeStays DEF OneOpen, Serial
<1>1. ASSUME NEW r \in Requests, Handle(r) PROVE OneOpen'
  <2>1. Turn(r)
    BY <1>1, HandleTurn
  <2>2. InFlight' \subseteq InFlight
    BY <2>1 DEF Turn, Rest, InFlight, Done
  <2>3. inTxn /\ pc[r] \notin TxnLabels => \E q \in Requests \ {r} : pc[q] \in TxnLabels
    BY DEF OneOpen
  <2>4. inTxn' => \E q \in Requests : pc'[q] \in TxnLabels
    <3>1. CASE Plain(r)
      BY <2>1, <2>3, <3>1 DEF Turn, Rest, Plain
    <3>2. CASE Writing(r)
      BY <2>1, <2>3, <3>2 DEF Turn, Rest, Writing, TxnLabels
    <3> QED BY <2>1, <3>1, <3>2 DEF Turn
  <2> QED BY <2>2, <2>4 DEF OneOpen
<1>2. ASSUME NEW r \in Requests, NEW q, NEW l, Send(r, q, l),
             l \in {"400", "401", "s_begin", "reap"}
      PROVE  OneOpen'
  <2>1. InFlight = {}
    <3> SUFFICES ASSUME NEW x \in InFlight PROVE FALSE
      OBVIOUS
    <3>1. InFlight = {x}
      BY DEF OneOpen
    <3>2. Cardinality(InFlight) = 1
      BY <3>1, FS_Singleton
    <3> QED BY <1>2, <3>2 DEF Send, Serial
  <2>2. pc' = [pc EXCEPT ![r] = l] /\ pc \in [Requests -> Labels] /\ pc[r] = "new"
        /\ inTxn' = inTxn
    BY <1>2 DEF Send, LinkInv, Placed, Shape, connVars
  <2>3. InFlight' \subseteq {r}
    BY <2>1, <2>2 DEF InFlight
  <2>4. ~inTxn
    BY <2>1 DEF OneOpen, InFlight, Done, Statuses, TxnLabels
  <2> QED BY <2>2, <2>3, <2>4 DEF OneOpen
<1>3. ASSUME NEW r \in Requests, Arrive(r) PROVE OneOpen'
  <2>1. CASE InitArrives(r)
    BY <1>2, <2>1, Zenon DEF InitArrives
  <2>2. CASE CurlArrives(r)
    BY <1>2, <2>2, Zenon DEF CurlArrives
  <2>3. CASE \E b \in Tabs : TabSends(b, r)
    BY <1>2, <2>3 DEF TabSends
  <2> QED BY <1>3, <2>1, <2>2, <2>3 DEF Arrive
<1>4. CASE Crash
  <2>1. InFlight' = {} /\ ~inTxn'
    BY <1>4 DEF Crash, ConnCrash, InFlight, Done, LinkInv, Placed, Shape
  <2> QED BY <2>1 DEF OneOpen
<1>5. CASE pc' = pc /\ inTxn' = inTxn
  BY <1>5 DEF OneOpen, InFlight
<1> QED BY <1>1, <1>3, <1>4, <1>5
        DEF Next, Idle, vars, Tick, CliLocks, AccountDeleted, Browse, TabOpens, TabHears,
            TabLosesAnswer, connVars, Write

\* In the middle of a write of its own, a request is in nobody's transaction.
LEMMA WritesAlone ==
  ASSUME OneOpen, Serial, NEW r \in Requests, Turn(r), Writing(r)
  PROVE  ~inTxn
<1> SUFFICES ASSUME inTxn PROVE FALSE
  OBVIOUS
<1>1. PICK q \in Requests : pc[q] \in TxnLabels
  BY DEF OneOpen
<1>2. q \in InFlight /\ r \in InFlight /\ q # r
  BY <1>1 DEF TxnLabels, Writing, Turn, Rest, InFlight, Done, Statuses
<1> QED BY <1>2 DEF OneOpen


LEMMA LinkedStays ==
  ASSUME LinkInv, OneOpen, Serial, LinkedInv, NEW r \in Requests, Handle(r)
  PROVE  /\ Fitting(live') /\ Fitting(disk')
         /\ \A a : LinkedIn(live, a) /\ LinkedIn(disk, a)
                     => LinkedIn(live', a) /\ LinkedIn(disk', a)
         /\ Brought(r)' => LinkedIn(live', req[r].acct) /\ LinkedIn(disk', req[r].acct)
<1>1. Turn(r) /\ Fitting(live) /\ Fitting(disk) /\ Place(r)
      /\ (Brought(r) => LinkedIn(live, req[r].acct) /\ LinkedIn(disk, req[r].acct))
  BY HandleTurn, At DEF LinkedInv
<1>2. CASE Plain(r)
  <2>1. ~Brought(r)'
    BY <1>2 DEF Brought, Plain
  <2> QED BY <1>1, <1>2, <2>1 DEF Plain
<1>3. CASE Writing(r)
  <2>1. ~inTxn
    BY <1>1, <1>3, WritesAlone
  <2>2. Brought(r)' => (pc[r] = "store" /\ WriteOK) \/ Brought(r)
    BY <1>1, <1>3 DEF Brought, Writing, Place, Turn, Rest
  <2>3. CASE ~WriteOK /\ live' = live /\ disk' = disk
    BY <1>1, <2>2, <2>3
  <2>4. CASE Made(r, live') /\ disk' = live'
    <3>1. CASE live'.account = live.account /\ pc[r] \notin {"store", "mark"}
      BY <1>1, <2>2, <2>4, <3>1 DEF Fitting, LinkedIn
    <3>2. CASE pc[r] \in {"store", "mark"} /\ Links(r, live')
      <4>1. req[r].acct \in DOMAIN live.account => live'.account[req[r].acct].token # NoOne
        <5>1. CASE pc[r] = "store"
          BY <2>4, <5>1, LinkAssumption DEF Made
        <5>2. CASE pc[r] = "mark"
          BY <1>1, <2>4, <5>2 DEF Made, Brought, LinkedIn, Fitting
        <5> QED BY <3>2, <5>1, <5>2
      <4>2. ASSUME NEW a \in DOMAIN live.account, a = req[r].acct
            PROVE  live'.account[a].linked /\ live'.account[a].token # NoOne
        BY <3>2, <4>1, <4>2 DEF Links
      <4>3. Fitting(live')
        BY <1>1, <3>2, <4>2 DEF Fitting, Links
      <4>4. \A a : LinkedIn(live, a) => LinkedIn(live', a)
        BY <3>2, <4>2 DEF LinkedIn, Links
      <4>5. LinkedIn(live', req[r].acct)
        BY <3>2, <4>2 DEF LinkedIn, Links
      <4> QED BY <2>4, <4>3, <4>4, <4>5
    <3> QED BY <2>4, <3>1, <3>2 DEF Made
  <2> QED BY <1>3, <2>1, <2>3, <2>4 DEF Writing
<1> QED BY <1>1, <1>2, <1>3 DEF Turn

LEMMA HandleKeepsLinked ==
  ASSUME LinkInv, OneOpen, Serial, LinkedInv, Around, NEW r \in Requests, Handle(r)
  PROVE  LinkedInv'
<1>1. /\ \A q \in Requests \ {r} : pc'[q] = pc[q]
      /\ req' = req /\ tab' = tab /\ pc[r] # "new" /\ pc'[r] # "new"
  BY HandleTurn DEF Turn, Rest, Around, Done
<1>2. Fitting(live)' /\ Fitting(disk)'
  BY LinkedStays DEF Fitting
<1>3. ASSUME NEW q \in Requests, Brought(q)'
      PROVE  (LinkedIn(live, req[q].acct) /\ LinkedIn(disk, req[q].acct))'
  <2>1. q # r => Brought(q)
    BY <1>1, <1>3 DEF Brought
  <2>2. LinkedIn(live', req[q].acct) /\ LinkedIn(disk', req[q].acct)
    BY <1>3, <2>1, LinkedStays DEF LinkedInv
  <2> QED BY <1>1, <2>2 DEF LinkedIn
<1>4. ASSUME NEW b \in Tabs PROVE TabTrue(b)'
  <2>1. TabTrue(b)
    BY DEF LinkedInv
  <2>2. tab[b].state = "linked" =>
          LinkedIn(live', tab[b].acct) /\ LinkedIn(disk', tab[b].acct)
    BY <2>1, LinkedStays DEF TabTrue
  <2> QED BY <1>1, <2>1, <2>2 DEF TabTrue, LinkedIn
<1> QED BY <1>2, <1>3, <1>4 DEF LinkedInv

LEMMA SendKeepsLinked ==
  ASSUME LinkInv, LinkedInv, Serial, NEW r \in Requests, NEW q, NEW l, Send(r, q, l),
         l \in {"400", "401", "s_begin", "reap"},
         \A b \in Tabs : tab'[b] # tab[b] =>
           /\ tab'[b].state = "sent" /\ tab'[b].by = r
           /\ q.op = "redeem" /\ q.acct = tab'[b].acct
  PROVE  LinkedInv'
<1>1. /\ pc[r] = "new" /\ pc'[r] = l /\ req'[r] = q
      /\ \A x \in Requests \ {r} : pc'[x] = pc[x] /\ req'[x] = req[x]
      /\ live' = live /\ disk' = disk
  BY DEF Send, LinkInv, Placed, Shape, connVars
<1>2. \A x \in Requests : Brought(x)' => x # r /\ Brought(x)
  BY <1>1 DEF Brought
<1>3. ASSUME NEW b \in Tabs PROVE TabTrue(b)'
  <2>1. CASE tab'[b] = tab[b]
    BY <1>1, <2>1 DEF TabTrue, LinkedIn, LinkedInv
  <2>2. CASE tab'[b] # tab[b]
    BY <1>1, <2>2 DEF TabTrue
  <2> QED BY <2>1, <2>2
<1> QED BY <1>1, <1>2, <1>3 DEF LinkedInv, Fitting, LinkedIn

LEMMA ArriveKeepsLinked ==
  ASSUME LinkInv, LinkedInv, Serial, NEW r \in Requests, Arrive(r)
  PROVE  LinkedInv'
<1>1. CASE (InitArrives(r) \/ CurlArrives(r)) /\ UNCHANGED tab
  <2>1. ASSUME NEW q, NEW l, Send(r, q, l), l \in {"400", "401", "s_begin"} PROVE LinkedInv'
    BY <1>1, <2>1, SendKeepsLinked
  <2>2. CASE InitArrives(r)
    BY <2>1, <2>2, Zenon DEF InitArrives
  <2>3. CASE CurlArrives(r)
    BY <2>1, <2>3, Zenon DEF CurlArrives
  <2> QED BY <1>1, <2>2, <2>3
<1>2. ASSUME NEW b \in Tabs, TabSends(b, r) PROVE LinkedInv'
  <2> DEFINE q == Query("redeem", NoOne, tab[b].acct, tab[b].link)
  <2>1. /\ Send(r, q, "reap")
        /\ tab' = [tab EXCEPT ![b] =
             [state |-> "sent", acct |-> tab[b].acct, link |-> tab[b].link, by |-> r]]
    BY <1>2 DEF TabSends
  <2>2. q.op = "redeem" /\ q.acct = tab[b].acct
    BY DEF Query
  <2> HIDE DEF q
  <2>3. \A c \in Tabs : tab'[c] # tab[c] =>
          tab'[c].state = "sent" /\ tab'[c].by = r /\ q.op = "redeem" /\ q.acct = tab'[c].acct
    BY <2>1, <2>2 DEF LinkInv, Browsed
  <2> QED BY <2>1, <2>3, SendKeepsLinked
<1> QED BY <1>1, <1>2 DEF Arrive

LEMMA BrowseKeepsLinked ==
  ASSUME LinkInv, LinkedInv, Serial, NEW b \in Tabs, Browse(b)
  PROVE  LinkedInv'
<1>1. pc' = pc /\ req' = req /\ live' = live /\ disk' = disk
  BY DEF Browse, TabOpens, TabHears, TabLosesAnswer, connVars, localVars
<1>2. TabTrue(b) /\ TabOK(tab[b]) /\ DOMAIN tab = Tabs
  BY DEF LinkedInv, LinkInv, Browsed
<1>3. \A c \in Tabs \ {b} : tab'[c] = tab[c]
  BY <1>2 DEF Browse, TabOpens, TabHears, TabLosesAnswer
<1>4. /\ tab'[b].state # "sent"
      /\ tab'[b].state = "linked" =>
           tab'[b].acct = tab[b].acct /\ tab[b].state = "sent" /\ pc[tab[b].by] = "200"
  <2>1. CASE TabOpens(b)
    BY <1>2, <2>1 DEF TabOpens
  <2>2. CASE TabHears(b) \/ TabLosesAnswer(b)
    <3>1. /\ tab' = [tab EXCEPT ![b].state =
                       IF TabHears(b) /\ pc[tab[b].by] = "200" THEN "linked" ELSE "ready"]
          /\ tab[b].state = "sent"
      BY <2>2 DEF TabHears, TabLosesAnswer
    <3>2. tab[b] \in [state : {"ready", "sent", "linked"}, acct : Accounts,
                      link : Requests, by : Requests]
      BY <1>2, <3>1 DEF TabOK, ClosedTab
    <3> QED BY <1>2, <3>1, <3>2
  <2> QED BY <2>1, <2>2 DEF Browse
<1>5. TabTrue(b)'
  <2>1. tab'[b].state = "linked" =>
          LinkedIn(live, tab[b].acct) /\ LinkedIn(disk, tab[b].acct)
    BY <1>2, <1>4 DEF TabTrue, LinkedInv, Brought
  <2> QED BY <1>1, <1>4, <2>1 DEF TabTrue, LinkedIn
<1>6. ASSUME NEW c \in Tabs \ {b} PROVE TabTrue(c)'
  BY <1>1, <1>3 DEF TabTrue, LinkedIn, LinkedInv
<1> QED BY <1>1, <1>5, <1>6 DEF LinkedInv, Fitting, LinkedIn, Brought

LEMMA LinkedNext ==
  LinkInv /\ OneOpen /\ LinkedInv /\ [Next]_vars => LinkedInv'
<1> SUFFICES ASSUME LinkInv, OneOpen, LinkedInv, [Next]_vars, Serial PROVE LinkedInv'
  BY RegimeStays DEF LinkedInv, Serial
<1>1. ASSUME NEW r \in Requests, Handle(r), UNCHANGED <<tab, fileLock, now, regime, crashes>>
      PROVE  LinkedInv'
  BY <1>1, HandleKeepsLinked DEF Around
<1>2. ASSUME NEW r \in Requests, Arrive(r) PROVE LinkedInv'
  BY <1>2, ArriveKeepsLinked
<1>3. ASSUME NEW b \in Tabs, Browse(b) PROVE LinkedInv'
  BY <1>3, BrowseKeepsLinked
<1>4. ASSUME NEW a \in Accounts, AccountDeleted(a) PROVE LinkedInv'
  <2> DEFINE i == [live EXCEPT !.account = [x \in (DOMAIN live.account) \ {a} |-> @[x]]]
  <2>1. /\ DOMAIN i.account = (DOMAIN live.account) \ {a}
        /\ \A x \in DOMAIN i.account : i.account[x] = live.account[x]
    BY DEF LinkInv, Connected, Whole
  <2>2. live' = i /\ disk' \in {disk, i} /\ UNCHANGED <<pc, req, tab>>
    BY <1>4 DEF AccountDeleted, Write, localVars
  <2> HIDE DEF i
  <2>3. Fitting(i) /\ \A x : LinkedIn(live, x) => LinkedIn(i, x)
    BY <2>1 DEF LinkedInv, Fitting, LinkedIn
  <2>4. Fitting(live') /\ Fitting(disk')
    BY <2>2, <2>3 DEF LinkedInv
  <2>5. \A x : LinkedIn(live, x) /\ LinkedIn(disk, x) => LinkedIn(live', x) /\ LinkedIn(disk', x)
    BY <2>2, <2>3
  <2>6. (Fitting(live) /\ Fitting(disk))'
    BY <2>4 DEF Fitting
  <2>7. ASSUME NEW q \in Requests, Brought(q)'
        PROVE  (LinkedIn(live, req[q].acct) /\ LinkedIn(disk, req[q].acct))'
    BY <2>2, <2>5, <2>7 DEF LinkedInv, Brought, LinkedIn
  <2>8. ASSUME NEW b \in Tabs PROVE TabTrue(b)'
    BY <2>2, <2>5 DEF LinkedInv, TabTrue, LinkedIn
  <2> QED BY <2>6, <2>7, <2>8 DEF LinkedInv
<1>5. CASE Crash
  <2>1. /\ live' = disk /\ disk' = disk /\ UNCHANGED <<req, tab>>
        /\ \A q \in Requests : pc'[q] \in {pc[q], "lost"}
    BY <1>5 DEF Crash, ConnCrash, localVars
  <2>2. \A q \in Requests : Brought(q)' => Brought(q)
    BY <2>1 DEF Brought
  <2>3. ASSUME NEW b \in Tabs PROVE TabTrue(b)'
    BY <2>1 DEF LinkedInv, TabTrue, LinkedIn
  <2> QED BY <2>1, <2>2, <2>3 DEF LinkedInv, Fitting, LinkedIn
<1>6. CASE UNCHANGED <<live, disk, pc, req, tab>>
  BY <1>6 DEF LinkedInv, Fitting, LinkedIn, Brought, TabTrue
<1> QED BY <1>1, <1>2, <1>3, <1>4, <1>5, <1>6
        DEF Next, Idle, vars, Tick, CliLocks, connVars, localVars

LEMMA LinkedHolds == Spec => [](OneOpen /\ LinkedInv)
<1>1. Init => OneOpen /\ LinkedInv
  BY DEF Init, ConnInit, SeedImage, Unlinked, ClosedTab, OneOpen, InFlight, Done, LinkedInv,
         Fitting, LinkedIn, Brought, TabTrue
<1> QED BY <1>1, OpenNext, LinkedNext, InvHolds, PTL DEF Spec

\* With one request at a time, even beside the CLI and through crashes, an account says
\* it is linked exactly if it has a token, and a page that says so is right: for any
\* requests, tabs, users and accounts.
THEOREM LinkedHaveTokens == Spec => []LinkedHasToken
<1>1. LinkedInv => LinkedHasToken
  BY DEF LinkedInv, LinkedHasToken, Serial, Fitting, LinkedIn, TabTrue
<1> QED BY <1>1, LinkedHolds, PTL

-----------------------------------------------------------------------------
(* ... and a link that was redeemed is gone                                 *)

IsRedeemed(l) == \E x \in Requests : by[x] = "link" /\ pc[x] = "200" /\ req[x].link = l

LEMMA RedeemedIs == \A l : l \in Redeemed <=> IsRedeemed(l)
BY DEF Redeemed, IsRedeemed

\* Who is redeemed stays so, and only the end of a callback adds to it.
LEMMA HandleRedeems ==
  ASSUME LinkInv, NEW r \in Requests, Handle(r)
  PROVE  /\ Redeemed \subseteq Redeemed'
         /\ Redeemed' \subseteq
              Redeemed \union (IF pc[r] = "consume" THEN {req[r].link} ELSE {})
<1>1. Turn(r) /\ Place(r) /\ by[r] \in {"none", "link", "session"}
  BY HandleTurn, At
<1>2. ASSUME NEW l \in Redeemed PROVE l \in Redeemed'
  <2>1. PICK x \in Requests : by[x] = "link" /\ pc[x] = "200" /\ req[x].link = l
    BY DEF Redeemed
  <2>2. x # r
    BY <1>1, <2>1 DEF Turn, Rest, Done, Statuses
  <2>3. by'[x] = "link" /\ pc'[x] = "200" /\ req'[x].link = l
    BY <1>1, <2>1, <2>2 DEF Turn, Rest
  <2> QED BY <2>3 DEF Redeemed
<1>3. ASSUME NEW l \in Redeemed'
      PROVE  l \in Redeemed \/ (pc[r] = "consume" /\ l = req[r].link)
  <2>1. PICK x \in Requests : by'[x] = "link" /\ pc'[x] = "200" /\ req'[x].link = l
    BY DEF Redeemed
  <2>2. CASE x # r
    <3>1. by[x] = "link" /\ pc[x] = "200" /\ req[x].link = l
      BY <1>1, <2>1, <2>2 DEF Turn, Rest
    <3> QED BY <3>1 DEF Redeemed
  <2>3. CASE x = r
    <3>1. Writing(r) /\ pc[r] \in {"stash", "mark", "consume"} /\ by[r] = "link"
      BY <1>1, <2>1, <2>3 DEF Turn, Plain, Writing
    <3>2. pc[r] # "stash" /\ pc[r] # "mark"
      BY <1>1, <2>1, <2>3, <3>1 DEF Place, ByOK, Writing
    <3> QED BY <1>1, <2>1, <2>3, <3>1, <3>2 DEF Turn, Rest
  <2> QED BY <2>2, <2>3
<1> QED BY <1>2, <1>3

LEMMA HandleKeepsSpent ==
  ASSUME LinkInv, OneOpen, SpentInv, Around, NEW r \in Requests, Handle(r)
  PROVE  SpentInv'
<1>1. /\ Turn(r) /\ Place(r) /\ Redeemed \subseteq Redeemed'
      /\ Redeemed' \subseteq Redeemed \union (IF pc[r] = "consume" THEN {req[r].link} ELSE {})
      /\ spent' = spent /\ req' = req /\ pc[r] # "new"
      /\ \A q \in Requests \ {r} : pc'[q] = pc[q] /\ by'[q] = by[q]
  BY HandleTurn, HandleRedeems, At DEF Turn, Rest, Done
<1>2. \A q \in Requests : pc'[q] # "new" => spent'[q] \subseteq Redeemed'
  BY <1>1 DEF SpentInv
<1>3. Settled' <=> Settled
  BY DEF Settled, Around
<1>4. ASSUME Settled PROVE fileLock' = "none" /\ Redeemed' \intersect Linkable' = {}
  <2>1. fileLock = "none" /\ Redeemed \intersect Linkable = {} /\ Serial
    BY <1>4 DEF SpentInv, Settled, Serial
  <2>2. CASE Plain(r)
    BY <1>1, <2>1, <2>2 DEF Plain, Linkable, Around
  <2>3. CASE Writing(r)
    <3>1. ~inTxn /\ WriteOK
      BY <1>1, <2>1, <2>3, WritesAlone DEF WriteOK
    <3>2. Made(r, live') /\ disk' = live'
      BY <2>3, <3>1 DEF Writing
    <3>3. CASE pc[r] = "stash"
      <4>1. DOMAIN live'.link = DOMAIN live.link \union {r} /\ Redeemed' = Redeemed
        BY <1>1, <3>2, <3>3 DEF Made
      <4>2. r \notin Redeemed
        <5> SUFFICES ASSUME r \in Redeemed PROVE FALSE
          OBVIOUS
        <5>1. PICK x \in Requests : by[x] = "link" /\ pc[x] = "200" /\ req[x].link = r
          BY DEF Redeemed
        <5> QED BY <3>3, <5>1, At DEF Place, ByOK
      <4> QED BY <2>1, <3>2, <4>1, <4>2 DEF Linkable, Around
    <3>4. CASE pc[r] \in {"reap", "store", "mark"}
      <4>1. DOMAIN live'.link \subseteq DOMAIN live.link /\ Redeemed' = Redeemed
        BY <1>1, <3>2, <3>4 DEF Made
      <4> QED BY <2>1, <3>2, <4>1 DEF Linkable, Around
    <3>5. CASE pc[r] = "consume"
      <4>1. /\ DOMAIN live'.link = DOMAIN live.link \ {req[r].link}
            /\ Redeemed' \subseteq Redeemed \union {req[r].link}
        BY <1>1, <3>2, <3>5 DEF Made
      <4> QED BY <2>1, <3>2, <4>1 DEF Linkable, Around
    <3> QED BY <2>3, <3>3, <3>4, <3>5 DEF Writing
  <2> QED BY <1>1, <2>2, <2>3 DEF Turn
<1>5. ASSUME Settled, NEW q \in Requests, by'[q] = "link" PROVE req'[q].link \notin spent'[q]
  <2>1. CASE by[q] = "link"
    BY <1>1, <1>5, <2>1 DEF SpentInv, SpentOnce
  <2>2. CASE by[q] # "link"
    <3>1. q = r /\ req[r].link \in DOMAIN live.link
      BY <1>1, <1>5, <2>2 DEF Turn, Plain, Writing
    <3>2. spent[r] \subseteq Redeemed /\ Redeemed \intersect Linkable = {}
      BY <1>1, <1>5 DEF SpentInv
    <3> QED BY <1>1, <3>1, <3>2 DEF Linkable
  <2> QED BY <2>1, <2>2
<1> QED BY <1>2, <1>3, <1>4, <1>5 DEF SpentInv, SpentOnce

\* What the other steps leave as it was.
LEMMA SpentLasts ==
  ASSUME LinkInv, SpentInv, UNCHANGED regime,
         \A q \in Requests : spent'[q] # spent[q] => pc[q] = "new",
         \A q \in Requests : pc[q] = "new" /\ pc'[q] # "new" => spent'[q] \subseteq Redeemed,
         \A q \in Requests : pc[q] = "200" <=> pc'[q] = "200",
         \A q \in Requests : req'[q] # req[q] => pc[q] = "new",
         UNCHANGED by,
         Settled => fileLock' = "none",
         Linkable' \subseteq Linkable
  PROVE  SpentInv'
<1>1. \A q \in Requests : pc[q] = "new" => by[q] = "none"
  BY At DEF Place, Unknown
<1>2. Redeemed' = Redeemed
  <2>1. \A q \in Requests : by[q] = "link" => req'[q] = req[q]
    BY <1>1
  <2>2. \A l : IsRedeemed(l)' <=> IsRedeemed(l)
    BY <2>1 DEF IsRedeemed
  <2>3. \A l : l \in Redeemed' <=> IsRedeemed(l)'
    BY DEF Redeemed, IsRedeemed
  <2> QED BY <2>2, <2>3, RedeemedIs
<1>3. Settled' <=> Settled
  BY DEF Settled
<1>4. \A q \in Requests : pc'[q] # "new" => spent'[q] \subseteq Redeemed'
  BY <1>2 DEF SpentInv
<1>5. Settled => fileLock' = "none" /\ Redeemed' \intersect Linkable' = {}
  BY <1>2 DEF SpentInv
<1>6. ASSUME Settled, NEW q \in Requests, by'[q] = "link" PROVE req'[q].link \notin spent'[q]
  <2>1. by[q] = "link" /\ req'[q] = req[q] /\ spent'[q] = spent[q]
    BY <1>1, <1>6
  <2> QED BY <1>6, <2>1 DEF SpentInv, SpentOnce
<1> QED BY <1>3, <1>4, <1>5, <1>6 DEF SpentInv, SpentOnce

LEMMA SendKeepsSpent ==
  ASSUME LinkInv, SpentInv, UNCHANGED <<fileLock, regime>>, NEW r \in Requests, NEW q, NEW l,
         Send(r, q, l), l \in {"400", "401", "s_begin", "reap"}
  PROVE  SpentInv'
<1>1. /\ pc[r] = "new" /\ pc'[r] = l /\ spent'[r] = Redeemed
      /\ \A x \in Requests \ {r} : pc'[x] = pc[x] /\ req'[x] = req[x] /\ spent'[x] = spent[x]
      /\ live' = live /\ disk' = disk /\ by' = by
  BY DEF Send, LinkInv, Placed, Shape, connVars
<1>2. Linkable' \subseteq Linkable
  BY <1>1 DEF Linkable
<1>3. Settled => fileLock' = "none"
  BY DEF SpentInv
<1> QED BY <1>1, <1>2, <1>3, SpentLasts

LEMMA SpentNext == LinkInv /\ OneOpen /\ SpentInv /\ [Next]_vars => SpentInv'
<1> SUFFICES ASSUME LinkInv, OneOpen, SpentInv, [Next]_vars PROVE SpentInv'
  OBVIOUS
<1>1. ASSUME NEW r \in Requests, Handle(r), UNCHANGED <<tab, fileLock, now, regime, crashes>>
      PROVE  SpentInv'
  BY <1>1, HandleKeepsSpent DEF Around
<1>2. ASSUME NEW r \in Requests, Arrive(r), UNCHANGED <<fileLock, now, regime, crashes>>
      PROVE  SpentInv'
  <2>1. ASSUME NEW q, NEW l, Send(r, q, l), l \in {"400", "401", "s_begin", "reap"}
        PROVE  SpentInv'
    BY <1>2, <2>1, SendKeepsSpent
  <2>2. CASE InitArrives(r)
    BY <2>1, <2>2, Zenon DEF InitArrives
  <2>3. CASE CurlArrives(r)
    BY <2>1, <2>3, Zenon DEF CurlArrives
  <2>4. CASE \E b \in Tabs : TabSends(b, r)
    BY <2>1, <2>4 DEF TabSends
  <2> QED BY <1>2, <2>2, <2>3, <2>4 DEF Arrive
<1>3. ASSUME NEW a \in Accounts, AccountDeleted(a) PROVE SpentInv'
  <2> DEFINE i == [live EXCEPT !.account = [x \in (DOMAIN live.account) \ {a} |-> @[x]]]
  <2>1. i.link = live.link
    BY DEF LinkInv, Connected, Whole
  <2>2. live' = i /\ disk' \in {disk, i} /\ UNCHANGED <<fileLock, pc, localVars, regime>>
    BY <1>3 DEF AccountDeleted, Write
  <2> HIDE DEF i
  <2>3. Linkable' \subseteq Linkable
    BY <2>1, <2>2 DEF Linkable
  <2> QED BY <2>2, <2>3, SpentLasts DEF localVars, SpentInv
<1>4. CASE Crash
  <2>1. /\ live' = disk /\ disk' = disk /\ UNCHANGED <<fileLock, localVars, regime>>
        /\ \A q \in Requests : pc'[q] = IF pc[q] \notin Done THEN "lost" ELSE pc[q]
    BY <1>4 DEF Crash, ConnCrash, InFlight
  <2>2. \A q \in Requests : (pc[q] = "200" <=> pc'[q] = "200") /\ (pc[q] = "new" <=> pc'[q] = "new")
    BY <2>1 DEF Done, Statuses
  <2>3. Linkable' \subseteq Linkable
    BY <2>1 DEF Linkable
  <2> QED BY <2>1, <2>2, <2>3, SpentLasts DEF localVars, SpentInv
<1>5. CASE UNCHANGED <<connVars, pc, localVars, regime>> /\ (Settled => fileLock' = "none")
  BY <1>5, SpentLasts DEF connVars, localVars, Linkable
<1>6. (Tick \/ CliLocks \/ Idle \/ UNCHANGED vars)
         => UNCHANGED <<connVars, pc, localVars, regime>> /\ (Settled => fileLock' = "none")
  BY DEF Tick, CliLocks, Idle, vars, SpentInv, Settled
<1>7. ASSUME NEW b \in Tabs, Browse(b), UNCHANGED <<fileLock, now, regime, crashes>>
      PROVE  SpentInv'
  BY <1>5, <1>7 DEF Browse, TabOpens, TabHears, TabLosesAnswer, SpentInv
<1> QED BY <1>1, <1>2, <1>3, <1>4, <1>5, <1>6, <1>7 DEF Next

\* consume_pending_link, "one-shot consumption": with one request at a time and no CLI
\* at work, a link that was redeemed with a 200 lets no later callback in, whatever
\* fails, expires, is retried or lost in a crash; for any requests, tabs and accounts.
THEOREM LinksAreSpentOnce == Spec => []SpentOnce
<1>1. Init => SpentInv
  BY DEF Init, ConnInit, SeedImage, SpentInv, Redeemed, SpentOnce
<1>2. SpentInv => SpentOnce
  BY DEF SpentInv
<1> QED BY <1>1, <1>2, SpentNext, LinkedHolds, InvHolds, PTL DEF Spec
=============================================================================
