------------------------------ MODULE PlaidLink ------------------------------
(***************************************************************************)
(* Linking an account to a bank (server/data/PlaidLinkHandler.cpp with     *)
(* PlaidTokenBroker and two calls of PlaidApiClient).                      *)
(*                                                                         *)
(* POST /accounts/:id/link/init has Plaid mint a link token and stashes,   *)
(* for TTL hours, whose it is.  The browser tab that the client opens on   *)
(* GET /link has no session: its POST /accounts/:id/link-plaid is          *)
(* authenticated by the link token in the body, or, failing that, by a     *)
(* session.  The public token is exchanged at Plaid and the access token   *)
(* is stored with the account, encrypted and bound to the account's id.    *)
(*                                                                         *)
(* What Plaid issues to a request has the request's name: the link token   *)
(* of an init, and the item (public and access token, institution) of a    *)
(* callback.                                                               *)
(***************************************************************************)
EXTENDS SqliteConn, Integers, FiniteSets

CONSTANTS Requests, Tabs, Users, Accounts,
          May,        \* <<u, a>>: u is a member of a's entity
          NoOne, Stale,
          TTL,        \* validity of a stashed link, in units of the clock
          Inputs,     \* what clients may call with a session, see InputType
          Regimes,    \* the circumstances considered, see RegimeType
          MaxTime     \* bound on the clock

\* pool: requests in flight at once; cli: the admin CLI may write meanwhile; and
\* the bounds on requests and crashes.
RegimeType == [pool : Nat, cli : BOOLEAN, maxCalls : Nat, maxCrashes : Nat]

\* With a session, with one that has ended (Stale), or without a header (NoOne).
Callers == Users \union {Stale, NoOne}
InputType == [op : {"init", "redeem"}, user : Callers, acct : Accounts]

ASSUME LinkAssumption ==
  /\ Inputs \subseteq InputType
  /\ May \subseteq Users \X Accounts
  /\ {NoOne, Stale} \intersect (Users \union Accounts \union Requests) = {}
  /\ NoOne # Stale
  /\ TTL \in Nat /\ MaxTime \in Nat
  /\ Regimes \subseteq RegimeType

VARIABLES now,
          pc,
          req,   \* req[r]: what the client sent
          who,   \* who[r]: user_id, once r is authenticated
          by,    \* by[r]: "link" or "session"
          at,    \* at[r]: the time r has read
          spent, \* spent[r]: links redeemed with a 200 before r arrived
          tab,   \* tab[b]: the browser tabs
          regime, crashes

localVars == <<req, who, by, at, spent>>
vars == <<connVars, fileLock, now, pc, localVars, tab, regime, crashes>>

Statuses == {"200", "400", "401", "403", "404", "500"}
Done == Statuses \union {"new", "lost"}
InFlight == {r \in Requests : pc[r] \notin Done}

NoRequest == [op |-> "none"]
ClosedTab == [state |-> "closed"]

\* An account: its encrypted_token, is_plaid_linked and institution.
Unlinked == [token |-> NoOne, linked |-> FALSE, inst |-> NoOne]

SeedImage ==
  [account |-> [a \in Accounts |-> Unlinked], link |-> [l \in {} |-> NoOne]]

Init ==
  /\ ConnInit(SeedImage)
  /\ fileLock = "none" /\ now = 0 /\ crashes = 0
  /\ pc = [r \in Requests |-> "new"]
  /\ req = [r \in Requests |-> NoRequest]
  /\ who = [r \in Requests |-> NoOne]
  /\ by = [r \in Requests |-> "none"]
  /\ at = [r \in Requests |-> 0]
  /\ spent = [r \in Requests |-> {}]
  /\ tab = [b \in Tabs |-> ClosedTab]
  /\ regime \in Regimes

-----------------------------------------------------------------------------
(* Arrival                                                                  *)

\* Requests have no name before they arrive: they are named in order of arrival.
NextToArrive == CHOOSE r \in Requests : pc[r] = "new"

Redeemed == {req[r].link : r \in {x \in Requests : by[x] = "link" /\ pc[x] = "200"}}

Send(r, q, label) ==
  /\ pc[r] = "new" /\ r = NextToArrive
  /\ Cardinality(InFlight) < regime.pool
  /\ Cardinality({x \in Requests : pc[x] # "new"}) < regime.maxCalls
  /\ req' = [req EXCEPT ![r] = q]
  /\ spent' = [spent EXCEPT ![r] = Redeemed]
  /\ pc' = [pc EXCEPT ![r] = label]
  /\ UNCHANGED <<connVars, who, by, at>>

Query(o, u, a, l) == [op |-> o, user |-> u, acct |-> a, link |-> l]

\* A body that is not JSON or has no public_token is answered 400; a call without
\* an Authorization header 401, before the connection is used.
InitArrives(r) ==
  \E i \in Inputs :
    /\ i.op = "init"
    /\ Send(r, Query("init", i.user, i.acct, NoOne), IF i.user = NoOne THEN "401" ELSE "s_begin")

CurlArrives(r) ==
  \E i \in Inputs, wellFormed \in BOOLEAN :
    /\ i.op = "redeem"
    /\ Send(r, Query("redeem", i.user, i.acct, NoOne),
            IF ~wellFormed THEN "400" ELSE IF i.user = NoOne THEN "401" ELSE "s_begin")

-----------------------------------------------------------------------------
(* GET /link: the page, and the script in it                                *)

\* The page takes the account and the link from its URL, each for itself; the link
\* is one that the client was answered.
TabOpens(b) ==
  /\ tab[b].state = "closed"
  /\ \E l \in Requests, a \in Accounts :
       /\ pc[l] = "200" /\ req[l].op = "init"
       /\ tab' = [tab EXCEPT ![b] = [state |-> "ready", acct |-> a, link |-> l]]
  /\ UNCHANGED <<connVars, pc, localVars>>

\* onSuccess: the button is disabled and the callback sent, with the name of the
\* institution, which curl does not send.
TabSends(b, r) ==
  /\ tab[b].state = "ready"
  /\ Send(r, Query("redeem", NoOne, tab[b].acct, tab[b].link), "reap")
  /\ tab' = [tab EXCEPT ![b] = [state |-> "sent", acct |-> @.acct, link |-> @.link, by |-> r]]

\* onload: 200 is final; anything else enables the button again.
TabHears(b) ==
  /\ tab[b].state = "sent"
  /\ pc[tab[b].by] \in Statuses
  /\ tab' = [tab EXCEPT ![b].state = IF pc[tab[b].by] = "200" THEN "linked" ELSE "ready"]
  /\ UNCHANGED <<connVars, pc, localVars>>

\* onerror: the answer is lost, the request may go on; enabled again too.
TabLosesAnswer(b) ==
  /\ tab[b].state = "sent"
  /\ tab' = [tab EXCEPT ![b].state = "ready"]
  /\ UNCHANGED <<connVars, pc, localVars>>

-----------------------------------------------------------------------------
(* Calls on the connection                                                  *)

Goto(r, label) == pc' = [pc EXCEPT ![r] = label]

\* A statement whose result the caller ignores.
Try(image, rows) == IF WriteOK THEN Write(image, rows) ELSE WriteFails

\* require_session, whose transaction is the connection's.
SessionBegin(r) ==
  /\ pc[r] = "s_begin"
  /\ IF BeginOK THEN Begin /\ Goto(r, "s_end") ELSE UNCHANGED connVars /\ Goto(r, "500")
  /\ UNCHANGED localVars

SessionStale(r) ==
  /\ pc[r] = "s_end" /\ req[r].user = Stale
  /\ IF inTxn THEN Rollback /\ Goto(r, "401") ELSE UNCHANGED connVars /\ Goto(r, "s_catch")
  /\ UNCHANGED localVars

SessionTouched(r) ==
  /\ pc[r] = "s_end" /\ req[r].user \in Users
  /\ IF CommitOK
     THEN /\ Commit /\ Goto(r, "check")
          /\ who' = [who EXCEPT ![r] = req[r].user]
          /\ by' = [by EXCEPT ![r] = "session"]
     ELSE Goto(r, "s_catch") /\ UNCHANGED <<connVars, who, by>>
  /\ UNCHANGED <<req, at, spent>>

SessionCatch(r) ==
  /\ pc[r] = "s_catch"
  /\ Rollback
  /\ Goto(r, "500")
  /\ UNCHANGED localVars

\* The account's entity, and whether the user is a member of it.
Check(r) ==
  /\ pc[r] = "check"
  /\ LET a == req[r].acct
         found == a \in DOMAIN live.account
         next == IF req[r].op = "init" THEN "mint" ELSE "exchange"
     IN  \/ found /\ Goto(r, IF <<who[r], a>> \in May THEN next ELSE "403")
         \/ found /\ ReadMayFail /\ Goto(r, "403")
         \/ (~found \/ ReadMayFail) /\ Goto(r, "404")
  /\ UNCHANGED <<connVars, localVars>>

-----------------------------------------------------------------------------
(* POST /accounts/:id/link/init                                             *)

\* link_token_create: a transport error, a status, a body that is not JSON or holds
\* an error code; or a token that Plaid has never issued before.
Mint(r) ==
  /\ pc[r] = "mint"
  /\ Goto(r, "500") \/ Goto(r, "stash")
  /\ UNCHANGED <<connVars, localVars>>

\* insert_pending_link.  Whatever becomes of it, the answer is 200.
Stash(r) ==
  /\ pc[r] = "stash"
  /\ at' = [at EXCEPT ![r] = now]
  /\ LET grant == [user |-> who[r], acct |-> req[r].acct, expires |-> now + TTL]
     IN  Try([live EXCEPT !.link =
                [l \in DOMAIN @ \union {r} |-> IF l = r THEN grant ELSE @[l]]], 1)
  /\ Goto(r, "200")
  /\ UNCHANGED <<req, who, by, spent>>

-----------------------------------------------------------------------------
(* POST /accounts/:id/link-plaid                                            *)

Expired(image, t) == {l \in DOMAIN image.link : image.link[l].expires < t}

\* resolve_pending_link reads the clock and first deletes what has expired.
Reap(r) ==
  /\ pc[r] = "reap"
  /\ at' = [at EXCEPT ![r] = now]
  /\ LET kept == DOMAIN live.link \ Expired(live, now)
     IN  Try([live EXCEPT !.link = [l \in kept |-> @[l]]],
             IF kept = DOMAIN live.link THEN 0 ELSE 1)
  /\ Goto(r, "resolve")
  /\ UNCHANGED <<req, who, by, spent>>

FallbackProceeds(r) == "check"

Fallback(r) == IF req[r].user = NoOne THEN "401" ELSE "s_begin"

ResolveAnyAccount(r) ==
  /\ pc[r] = "resolve"
  /\ LET l == req[r].link
         good == l \in DOMAIN live.link /\ live.link[l].expires >= at[r]
     IN  /\ who' = [who EXCEPT ![r] = IF good THEN live.link[l].user ELSE NoOne]
         /\ by' = [by EXCEPT ![r] = IF good THEN "link" ELSE "none"]
         /\ Goto(r, IF good THEN "check" ELSE Fallback(r))
  /\ UNCHANGED <<connVars, req, at, spent>>

\* The rest of it: a link that is there, not expired, and for this account.  A
\* caller without one is asked for a session.
Resolve(r) ==
  /\ pc[r] = "resolve"
  /\ LET l == req[r].link
         good == /\ l \in DOMAIN live.link
                 /\ live.link[l].expires >= at[r]
                 /\ live.link[l].acct = req[r].acct
     IN  \/ /\ good
            /\ who' = [who EXCEPT ![r] = live.link[l].user]
            /\ by' = [by EXCEPT ![r] = "link"]
            /\ Goto(r, "check")
         \/ /\ ~good \/ ReadMayFail
            /\ Goto(r, Fallback(r))
            /\ UNCHANGED <<who, by>>
  /\ UNCHANGED <<connVars, req, at, spent>>

\* item_public_token_exchange, failing like link_token_create.
Exchange(r) ==
  /\ pc[r] = "exchange"
  /\ Goto(r, "500") \/ Goto(r, "store")
  /\ UNCHANGED <<connVars, localVars>>

\* An UPDATE of the account's row; no row is no error.
UpdateAccount(a, row) ==
  IF a \in DOMAIN live.account THEN Try([live EXCEPT !.account[a] = row], 1) ELSE Try(live, 0)

StoreUnchecked(r) ==
  /\ pc[r] = "store"
  /\ Goto(r, "mark")
  /\ LET a == req[r].acct
     IN  UpdateAccount(a, [token |-> r, linked |-> FALSE, inst |-> live.account[a].inst])
  /\ UNCHANGED localVars

\* PlaidTokenBroker::store_token throws if the statement fails.
StoreToken(r) ==
  /\ pc[r] = "store"
  /\ LET a == req[r].acct
     IN  UpdateAccount(a, [token |-> r, linked |-> TRUE, inst |-> live.account[a].inst])
  /\ Goto(r, IF WriteOK THEN "mark" ELSE "500")
  /\ UNCHANGED localVars

MarkLinkedOnly(r) ==
  /\ pc[r] = "mark"
  /\ UpdateAccount(req[r].acct, [live.account[req[r].acct] EXCEPT !.linked = TRUE,
                                      !.inst = IF req[r].link # NoOne THEN r ELSE @])
  /\ Goto(r, "200")
  /\ UNCHANGED localVars

\* UPDATE accounts SET is_plaid_linked = 1, and the institution if it was sent.
MarkLinked(r) ==
  /\ pc[r] = "mark"
  /\ LET a == req[r].acct
         row == live.account[a]
     IN  UpdateAccount(a, [row EXCEPT !.linked = TRUE,
                                      !.inst = IF req[r].link # NoOne THEN r ELSE @])
  /\ Goto(r, IF by[r] = "link" THEN "consume" ELSE "200")
  /\ UNCHANGED localVars

\* consume_pending_link
Consume(r) ==
  /\ pc[r] = "consume"
  /\ LET kept == DOMAIN live.link \ {req[r].link}
     IN  Try([live EXCEPT !.link = [l \in kept |-> @[l]]],
             IF kept = DOMAIN live.link THEN 0 ELSE 1)
  /\ Goto(r, "200")
  /\ UNCHANGED localVars

-----------------------------------------------------------------------------
Arrive(r) ==
  \/ (InitArrives(r) \/ CurlArrives(r)) /\ UNCHANGED tab
  \/ \E b \in Tabs : TabSends(b, r)

Handle(r) ==
  \/ SessionBegin(r) \/ SessionStale(r) \/ SessionTouched(r) \/ SessionCatch(r)
  \/ Check(r)
  \/ Mint(r) \/ Stash(r)
  \/ Reap(r) \/ Resolve(r) \/ Exchange(r) \/ StoreToken(r) \/ MarkLinked(r) \/ Consume(r)

Browse(b) == TabOpens(b) \/ TabHears(b) \/ TabLosesAnswer(b)

Tick ==
  /\ now < MaxTime
  /\ now' = now + 1
  /\ UNCHANGED <<connVars, fileLock, pc, localVars, tab, regime, crashes>>

\* DELETE /accounts/:id (module DataApi).
AccountDeleted(a) ==
  /\ a \in DOMAIN live.account
  /\ WriteOK
  /\ Write([live EXCEPT !.account = [x \in DOMAIN @ \ {a} |-> @[x]]], 1)
  /\ UNCHANGED <<fileLock, now, pc, localVars, tab, regime, crashes>>

\* The admin CLI writes to the file from its own process.
CliLocks ==
  /\ regime.cli
  /\ \/ fileLock = "none" /\ ~inTxn /\ fileLock' = "reserved"
     \/ fileLock = "none" /\ fileLock' = "shared"
     \/ fileLock # "none" /\ fileLock' = "none"
  /\ UNCHANGED <<connVars, now, pc, localVars, tab, regime, crashes>>

Crash ==
  /\ crashes < regime.maxCrashes
  /\ InFlight # {}
  /\ crashes' = crashes + 1
  /\ ConnCrash
  /\ pc' = [r \in Requests |-> IF r \in InFlight THEN "lost" ELSE pc[r]]
  /\ UNCHANGED <<fileLock, now, localVars, tab, regime>>

Idle == InFlight = {} /\ UNCHANGED vars

Next ==
  \/ \E r \in Requests : Arrive(r) /\ UNCHANGED <<fileLock, now, regime, crashes>>
  \/ \E r \in Requests : Handle(r) /\ UNCHANGED <<tab, fileLock, now, regime, crashes>>
  \/ \E b \in Tabs : Browse(b) /\ UNCHANGED <<fileLock, now, regime, crashes>>
  \/ \E a \in Accounts : AccountDeleted(a)
  \/ Tick \/ CliLocks \/ Crash \/ Idle

Spec == Init /\ [][Next]_vars
-----------------------------------------------------------------------------
Labels == Done \union
  {"s_begin", "s_end", "s_catch", "check", "mint", "stash",
   "reap", "resolve", "exchange", "store", "mark", "consume"}

Tokens == Requests \union {NoOne}

Image(i) ==
  /\ DOMAIN i.account \subseteq Accounts /\ DOMAIN i.link \subseteq Requests
  /\ i.account \in [DOMAIN i.account -> [token : Tokens, linked : BOOLEAN, inst : Tokens]]
  /\ i.link \in [DOMAIN i.link -> [user : Users, acct : Accounts, expires : Nat]]

\* Each variable holds what the code can put in it; past the authentication every
\* request has a user.
TypeOK ==
  /\ inTxn \in BOOLEAN /\ changes \in {0, 1} /\ fileLock \in FileLocks
  /\ Image(live) /\ Image(disk)
  /\ now \in Nat /\ crashes \in Nat /\ regime \in Regimes
  /\ pc \in [Requests -> Labels]
  /\ \A r \in Requests : pc[r] # "new" =>
       req[r] \in [op : {"init", "redeem"}, user : Callers, acct : Accounts, link : Tokens]
  /\ who \in [Requests -> Users \union {NoOne}]
  /\ by \in [Requests -> {"none", "link", "session"}]
  /\ \A r \in Requests :
       /\ pc[r] \in {"check", "mint", "stash", "exchange", "store", "mark", "consume"}
            => by[r] # "none"
       /\ by[r] # "none" => who[r] \in Users
  /\ at \in [Requests -> Nat]
  /\ spent \in [Requests -> SUBSET Tokens]
  /\ \A b \in Tabs : tab[b].state \in {"closed", "ready", "sent", "linked"}

\* l was minted for r's user and r's account, and r came in time.
LinkIsOf(l, r) ==
  /\ req[l].op = "init"
  /\ who[l] = who[r]
  /\ req[l].acct = req[r].acct
  /\ at[r] <= at[l] + TTL

\* A callback comes without a session, and asks for an account by name: still, the
\* token of every account was brought, for this account, by a member of its
\* entity, who had a session then or had one when the link was minted for the same
\* account, at most TTL ago.
TokenByPermission ==
  \A image \in {live, disk} : \A a \in DOMAIN image.account :
    LET r == image.account[a].token
    IN  r # NoOne =>
          /\ req[r].op = "redeem" /\ req[r].acct = a
          /\ <<who[r], a>> \in May
          /\ by[r] = "link" => LinkIsOf(req[r].link, r)

\* One request at a time, and no CLI.
Settled == regime.pool = 1 /\ ~regime.cli

\* consume_pending_link, "one-shot consumption": a link that has been redeemed
\* with a 200, heard or not, serves no later callback, in spite of retries by the
\* page, a second tab and crashes.
SpentOnce ==
  Settled => \A r \in Requests : by[r] = "link" => req[r].link \notin spent[r]

\* The same of callbacks that overlap: no link is redeemed twice.  It fails:
\* README, section 5.
OneShot ==
  \A r, q \in Requests :
    /\ by[r] = "link" /\ by[q] = "link"
    /\ pc[r] = "200" /\ pc[q] = "200"
    /\ req[r].link = req[q].link
    => r = q

\* One request at a time, even beside the CLI and through crashes, the scheduler
\* finds a token wherever is_plaid_linked sends it, and a page that says "linked"
\* is right as long as the account exists.
LinkedHasToken ==
  regime.pool = 1 =>
    /\ \A a \in DOMAIN disk.account :
         disk.account[a].linked <=> disk.account[a].token # NoOne
    /\ \A b \in Tabs :
         /\ tab[b].state = "linked"
         /\ tab[b].acct \in DOMAIN live.account
         => live.account[tab[b].acct].linked
=============================================================================
