----------------------------- MODULE AuthServer -----------------------------
(***************************************************************************)
(* The auth routes (server/auth) as the thread pool of cpp-httplib runs    *)
(* them: enrollment, login, logout and whoami over the one shared SQLite   *)
(* connection and the audit log.  One action per call that touches shared  *)
(* state; between any two of them another request, the admin CLI in its    *)
(* own process, a crash or the clock may take a step.  whoami stands for   *)
(* every route behind SessionMiddleware: validate, act, audit, answer.     *)
(* Requests are well formed: what a handler answers 400 or 401 before its  *)
(* first call touches nothing.                                             *)
(***************************************************************************)
EXTENDS AuditLog, FiniteSets

CONSTANTS Inputs,        \* the requests a client may send
          Emails, Tokens,
          TokenFor,      \* TokenFor[t]: the email and expiry bound to token t
          SeedUsers,     \* users enrolled before the run
          SeedTokens,    \* enrollment tokens minted before the run
          SeedSessions,  \* sessions minted before the run, by session id
          Lifetime,      \* kSessionAbsoluteTimeoutSeconds = kSessionIdleTimeoutSeconds
          MaxConcurrent, \* threads of the pool: requests in flight at once
          MaxTime,       \* bound on the clock
          MaxCrashes,    \* bound on crashes of the server
          CliEnabled     \* is the admin CLI used while the server runs?

ASSUME AuthAssumption ==
  /\ SeedUsers \subseteq Emails
  /\ SeedTokens \subseteq Tokens
  /\ TokenFor \in [Tokens -> [email : Emails, expires : Nat]]
  /\ \A s \in DOMAIN SeedSessions :
       SeedSessions[s] \in [user : SeedUsers, expires : Nat, seen : Nat]
  /\ DOMAIN SeedSessions \intersect Requests = {}
  /\ Lifetime \in Nat
  /\ MaxConcurrent \in Nat
  /\ MaxTime \in Nat
  /\ MaxCrashes \in Nat
  /\ CliEnabled \in BOOLEAN

ASSUME InputsAssumption ==
  \A i \in Inputs :
    \/ i.kind = "enroll" /\ i.token \in Tokens /\ i.email \in Emails
    \/ i.kind = "login" /\ i.email \in Emails /\ i.good \in BOOLEAN
    \/ i.kind \in {"logout", "whoami"}

VARIABLES req,     \* req[r]: the input of request r, NoOne before it arrives
          at,      \* at[r]: now_unix() as the handler read it on entry
          now,     \* the wall clock
          crashes  \* crashes so far

vars == <<connVars, fileLock, auditVars, req, at, now, crashes>>
handlerVars == <<req, at>>
worldVars == <<fileLock, now, crashes>>

\* The labels at which a request has been answered are the HTTP statuses;
\* "lost" is a request whose connection died with the server.
Statuses == {"200", "400", "401", "409", "429", "500"}
Answered == Statuses \union {"lost"}
InFlight == {r \in Requests : pc[r] \notin Answered \union {"new"}}

SeedImage ==
  [users |-> SeedUsers, tokens |-> SeedTokens, consumed |-> {},
   sessions |-> SeedSessions, revoked |-> {}, audit |-> <<>>]

Init ==
  /\ ConnInit(SeedImage)
  /\ fileLock = "none"
  /\ pc = [r \in Requests |-> "new"]
  /\ mu = NoOne
  /\ call = [r \in Requests |-> NoCall]
  /\ head = [r \in Requests |-> NoHead]
  /\ req = [r \in Requests |-> NoOne]
  /\ at = [r \in Requests |-> 0]
  /\ now = 0
  /\ crashes = 0

-----------------------------------------------------------------------------
(* Arrival: a client has a session token only from a login answered 200.    *)

FirstLabel(i) ==
  CASE i.kind = "enroll" -> "e_begin"
    [] i.kind = "login"  -> "l_rate"
    [] i.kind = "logout" -> "o_update"
    [] i.kind = "whoami" -> "w_begin"

CanSend(i) ==
  i.kind \in {"logout", "whoami"} /\ i.session \in Requests
    => pc[i.session] = "200" /\ req[i.session].kind = "login"

Arrive(r) ==
  /\ pc[r] = "new"
  /\ Cardinality(InFlight) < MaxConcurrent
  /\ \E i \in Inputs :
       /\ CanSend(i)
       /\ req' = [req EXCEPT ![r] = i]
       /\ Goto(r, FirstLabel(i))
  /\ at' = [at EXCEPT ![r] = now]
  /\ UNCHANGED <<connVars, mu, call, head>>

-----------------------------------------------------------------------------
(* A step of handler code that calls into the connection and goes on.       *)

\* A statement or COMMIT whose failure throws (Database::exec).
ExecBegin(r, next, fail) ==
  /\ IF BeginOK THEN Begin /\ Goto(r, next) ELSE Goto(r, fail) /\ UNCHANGED connVars
  /\ UNCHANGED <<mu, call, head, handlerVars>>

ExecCommit(r, next, catch) ==
  /\ IF CommitOK THEN Commit /\ Goto(r, next) ELSE Goto(r, catch) /\ UNCHANGED connVars
  /\ UNCHANGED <<mu, call, head, handlerVars>>

ExecRollback(r, next, catch) ==
  /\ IF inTxn THEN Rollback /\ Goto(r, next) ELSE Goto(r, catch) /\ UNCHANGED connVars
  /\ UNCHANGED <<mu, call, head, handlerVars>>

\* catch (...) { sqlite3_exec("ROLLBACK") }: its own result is ignored.
CatchRollback(r, next) ==
  /\ Rollback
  /\ Goto(r, next)
  /\ UNCHANGED <<mu, call, head, handlerVars>>

\* An INSERT or UPDATE: onFail when it is refused or breaks a constraint.
Statement(r, legal, image, rows, next, onFail) ==
  /\ IF WriteOK /\ legal
     THEN Write(image, rows) /\ Goto(r, next)
     ELSE WriteFails /\ Goto(r, onFail)
  /\ UNCHANGED <<mu, call, head, handlerVars>>

-----------------------------------------------------------------------------
(* POST /auth/enroll                                                        *)

EnrollBeginNoTxn(r) ==
  /\ pc[r] = "e_begin"
  /\ Goto(r, "e_peek")
  /\ UNCHANGED <<connVars, mu, call, head, handlerVars>>

EnrollBegin(r) ==
  /\ pc[r] = "e_begin"
  /\ ExecBegin(r, "e_peek", "500")

\* peek_enrollment_token, then the email-match check.
TokenUsable(image, tok, t) ==
  /\ tok \in image.tokens \ image.consumed
  /\ TokenFor[tok].expires > t

EnrollPeek(r) ==
  /\ pc[r] = "e_peek"
  /\ LET usable == /\ TokenUsable(live, req[r].token, at[r])
                   /\ TokenFor[req[r].token].email = req[r].email
     IN  \/ usable /\ Goto(r, "e_hash")
         \/ (~usable \/ ReadMayFail) /\ Goto(r, "e_reject")
  /\ UNCHANGED <<connVars, mu, call, head, handlerVars>>

EnrollReject(r) ==
  /\ pc[r] = "e_reject"
  /\ ExecRollback(r, "e_audit_reject", "e_catch")

EnrollAuditReject(r) ==
  /\ pc[r] = "e_audit_reject"
  /\ CallAudit(r, <<"enrollment_token_rejected", r>>, "400", "e_catch")
  /\ UNCHANGED <<connVars, handlerVars>>

\* Argon2id under the open transaction; it throws when out of memory.
EnrollHash(r) ==
  /\ pc[r] = "e_hash"
  /\ Goto(r, "e_insert") \/ Goto(r, "e_hash_failed")
  /\ UNCHANGED <<connVars, mu, call, head, handlerVars>>

EnrollHashFailed(r) ==
  /\ pc[r] = "e_hash_failed"
  /\ ExecRollback(r, "500", "e_catch")

EnrollInsert(r) ==
  /\ pc[r] = "e_insert"
  /\ Statement(r, req[r].email \notin live.users,
               [live EXCEPT !.users = @ \union {req[r].email}], 1,
               "e_mark", "e_duplicate")

EnrollDuplicate(r) ==
  /\ pc[r] = "e_duplicate"
  /\ ExecRollback(r, "409", "e_catch")

\* mark_enrollment_token_consumed: UPDATE, then sqlite3_changes().
EnrollMark(r) ==
  /\ pc[r] = "e_mark"
  /\ Statement(r, TRUE,
               [live EXCEPT !.consumed = @ \union ({req[r].token} \intersect live.tokens)],
               Cardinality({req[r].token} \intersect live.tokens),
               "e_changes", "e_not_marked")

EnrollChanges(r) ==
  /\ pc[r] = "e_changes"
  /\ Goto(r, IF changes > 0 THEN "e_commit" ELSE "e_not_marked")
  /\ UNCHANGED <<connVars, mu, call, head, handlerVars>>

EnrollNotMarked(r) ==
  /\ pc[r] = "e_not_marked"
  /\ ExecRollback(r, "500", "e_catch")

EnrollCommit(r) ==
  /\ pc[r] = "e_commit"
  /\ ExecCommit(r, "e_audit", "e_catch")

\* Still inside the try block, after the COMMIT.
EnrollAudit(r) ==
  /\ pc[r] = "e_audit"
  /\ CallAudit(r, <<"enrollment_token_consumed", r>>, "200", "e_catch")
  /\ UNCHANGED <<connVars, handlerVars>>

EnrollCatch(r) ==
  /\ pc[r] = "e_catch"
  /\ CatchRollback(r, "500")

EnrollStep(r) ==
  \/ EnrollBegin(r) \/ EnrollPeek(r) \/ EnrollReject(r) \/ EnrollAuditReject(r)
  \/ EnrollHash(r) \/ EnrollHashFailed(r) \/ EnrollInsert(r) \/ EnrollDuplicate(r)
  \/ EnrollMark(r) \/ EnrollChanges(r) \/ EnrollNotMarked(r) \/ EnrollCommit(r)
  \/ EnrollAudit(r) \/ EnrollCatch(r)

-----------------------------------------------------------------------------
(* POST /auth/login                                                         *)

\* The bucket itself is module RateLimiter: here it may trip or not.
LoginRate(r) ==
  /\ pc[r] = "l_rate"
  /\ \/ /\ Goto(r, "l_select")
        /\ UNCHANGED <<mu, call, head>>
     \/ CallAudit(r, <<"auth_rate_limit_tripped", r>>, "429", "500")
  /\ UNCHANGED <<connVars, handlerVars>>

\* The user row (a dirty read when a transaction is open), then passphrase
\* and TOTP: req[r].good says whether they match the row.
LoginSelect(r) ==
  /\ pc[r] = "l_select"
  /\ LET known == req[r].email \in live.users
     IN  \/ /\ known /\ req[r].good
            /\ Goto(r, "l_mint")
            /\ UNCHANGED <<mu, call, head>>
         \/ /\ ~known \/ ~req[r].good \/ ReadMayFail
            /\ CallAudit(r, <<"passphrase_authentication_failure", r>>, "401", "500")
  /\ UNCHANGED <<connVars, handlerVars>>

NewSession(r) ==
  [user |-> req[r].email, expires |-> at[r] + Lifetime, seen |-> at[r]]

AddSession(image, sid, s) ==
  [image EXCEPT !.sessions =
     [x \in DOMAIN @ \union {sid} |-> IF x = sid THEN s ELSE @[x]]]

LoginMintUnchecked(r) ==
  /\ pc[r] = "l_mint"
  /\ Statement(r, TRUE, AddSession(live, r, NewSession(r)), 1, "l_audit", "500")

\* INSERT INTO sessions; sessions.user_id REFERENCES users(id).
LoginMint(r) ==
  /\ pc[r] = "l_mint"
  /\ Statement(r, req[r].email \in live.users,
               AddSession(live, r, NewSession(r)), 1, "l_audit", "500")

LoginAudit(r) ==
  /\ pc[r] = "l_audit"
  /\ CallAudit(r, <<"passphrase_authentication_success", r>>, "l_created", "500")
  /\ UNCHANGED <<connVars, handlerVars>>

LoginCreatedSilently(r) ==
  /\ pc[r] = "l_created"
  /\ Goto(r, "200")
  /\ UNCHANGED <<connVars, mu, call, head, handlerVars>>

LoginCreated(r) ==
  /\ pc[r] = "l_created"
  /\ CallAudit(r, <<"session_created", r>>, "200", "500")
  /\ UNCHANGED <<connVars, handlerVars>>

LoginStep(r) ==
  LoginRate(r) \/ LoginSelect(r) \/ LoginMint(r) \/ LoginAudit(r) \/ LoginCreated(r)

-----------------------------------------------------------------------------
(* POST /auth/logout                                                        *)

LogoutUpdateUpserts(r) ==
  /\ pc[r] = "o_update"
  /\ Statement(r, TRUE, [live EXCEPT !.revoked = @ \union {req[r].session}], 1,
               "o_changes", "o_changes")

\* The raw token is bound where the table holds its hash.
LogoutUpdateByRawToken(r) ==
  /\ pc[r] = "o_update"
  /\ Statement(r, TRUE, live, 0, "o_changes", "o_changes")

\* revoke_session ignores the result of the UPDATE ...
LogoutUpdate(r) ==
  /\ pc[r] = "o_update"
  /\ LET hit == {req[r].session} \intersect DOMAIN live.sessions
     IN  Statement(r, TRUE, [live EXCEPT !.revoked = @ \union hit],
                   Cardinality(hit), "o_changes", "o_changes")

\* ... and asks sqlite3_changes(), in a call of its own, whether it revoked.
LogoutChanges(r) ==
  /\ pc[r] = "o_changes"
  /\ Goto(r, IF changes > 0 THEN "o_audit" ELSE "200")
  /\ UNCHANGED <<connVars, mu, call, head, handlerVars>>

LogoutAudit(r) ==
  /\ pc[r] = "o_audit"
  /\ CallAudit(r, <<"session_revoked", r>>, "200", "500")
  /\ UNCHANGED <<connVars, handlerVars>>

LogoutStep(r) == LogoutUpdate(r) \/ LogoutChanges(r) \/ LogoutAudit(r)

-----------------------------------------------------------------------------
(* GET /auth/whoami, and validate_and_touch_session behind every data route *)

WhoamiBegin(r) ==
  /\ pc[r] = "w_begin"
  /\ ExecBegin(r, "w_select", "500")

SessionValid(image, sid, t) ==
  /\ sid \in DOMAIN image.sessions \ image.revoked
  /\ image.sessions[sid].expires > t
  /\ image.sessions[sid].seen > t - Lifetime

WhoamiSelectLeaksTxn(r) ==
  /\ pc[r] = "w_select"
  /\ Goto(r, IF SessionValid(live, req[r].session, at[r]) THEN "w_touch" ELSE "w_refused")
  /\ UNCHANGED <<connVars, mu, call, head, handlerVars>>

WhoamiSelect(r) ==
  /\ pc[r] = "w_select"
  /\ LET valid == SessionValid(live, req[r].session, at[r])
     IN  \/ valid /\ Goto(r, "w_touch")
         \/ (~valid \/ ReadMayFail) /\ Goto(r, "w_reject")
  /\ UNCHANGED <<connVars, mu, call, head, handlerVars>>

WhoamiReject(r) ==
  /\ pc[r] = "w_reject"
  /\ ExecRollback(r, "w_refused", "w_catch")

WhoamiRefused(r) ==
  /\ pc[r] = "w_refused"
  /\ CallAudit(r, <<"session_expired", r>>, "401", "500")
  /\ UNCHANGED <<connVars, handlerVars>>

\* The result of this UPDATE is ignored.
WhoamiTouch(r) ==
  /\ pc[r] = "w_touch"
  /\ LET sid == req[r].session
         hit == {sid} \intersect DOMAIN live.sessions
     IN  Statement(r, TRUE,
                   IF hit = {} THEN live
                   ELSE [live EXCEPT !.sessions[sid].seen = at[r]],
                   Cardinality(hit), "w_commit", "w_commit")

WhoamiCommit(r) ==
  /\ pc[r] = "w_commit"
  /\ ExecCommit(r, "w_audit", "w_catch")

\* whoami records its success under the action name that login uses.
WhoamiAudit(r) ==
  /\ pc[r] = "w_audit"
  /\ CallAudit(r, <<"passphrase_authentication_success", r>>, "200", "500")
  /\ UNCHANGED <<connVars, handlerVars>>

\* validate_and_touch_session rolls back and rethrows to the route's 500.
WhoamiCatch(r) ==
  /\ pc[r] = "w_catch"
  /\ CatchRollback(r, "500")

WhoamiStep(r) ==
  \/ WhoamiBegin(r) \/ WhoamiSelect(r) \/ WhoamiReject(r) \/ WhoamiRefused(r)
  \/ WhoamiTouch(r) \/ WhoamiCommit(r) \/ WhoamiAudit(r) \/ WhoamiCatch(r)

-----------------------------------------------------------------------------
(* The world around the handlers                                            *)

\* The admin CLI opens the file (apply_pending reads, --list-users reads) ...
CliRead ==
  /\ CliEnabled /\ fileLock = "none"
  /\ fileLock' = "shared"
  /\ UNCHANGED <<connVars, auditVars, handlerVars, now, crashes>>

\* ... or writes (--mint-enrollment-token), which it cannot do while the
\* server has a transaction open.
CliReserve ==
  /\ CliEnabled /\ fileLock = "none" /\ ~inTxn
  /\ Tokens \ disk.tokens # {}
  /\ fileLock' = "reserved"
  /\ UNCHANGED <<connVars, auditVars, handlerVars, now, crashes>>

CliPersist ==
  /\ fileLock = "reserved"
  /\ \E tok \in Tokens \ disk.tokens :
       /\ disk' = [disk EXCEPT !.tokens = @ \union {tok}]
       /\ live' = [live EXCEPT !.tokens = @ \union {tok}]
  /\ fileLock' = "none"
  /\ UNCHANGED <<inTxn, changes, auditVars, handlerVars, now, crashes>>

CliReadDone ==
  /\ fileLock = "shared"
  /\ fileLock' = "none"
  /\ UNCHANGED <<connVars, auditVars, handlerVars, now, crashes>>

Tick ==
  /\ now < MaxTime
  /\ now' = now + 1
  /\ UNCHANGED <<connVars, fileLock, auditVars, handlerVars, crashes>>

\* The process dies and is started again: in-flight requests get no answer.
Crash ==
  /\ crashes < MaxCrashes
  /\ InFlight # {}
  /\ crashes' = crashes + 1
  /\ ConnCrash
  /\ pc' = [r \in Requests |-> IF r \in InFlight THEN "lost" ELSE pc[r]]
  /\ mu' = NoOne
  /\ call' = [r \in Requests |-> NoCall]
  /\ head' = [r \in Requests |-> NoHead]
  /\ UNCHANGED <<handlerVars, fileLock, now>>

World == CliRead \/ CliReadDone \/ CliReserve \/ CliPersist \/ Tick \/ Crash

Handle(r) ==
  \/ AuditStep(r) /\ UNCHANGED handlerVars
  \/ EnrollStep(r) \/ LoginStep(r) \/ LogoutStep(r) \/ WhoamiStep(r)

\* The server idles until a client or the operator comes back.
Idle == InFlight = {} /\ UNCHANGED vars

Next ==
  \/ \E r \in Requests : (Arrive(r) \/ Handle(r)) /\ UNCHANGED worldVars
  \/ World
  \/ Idle

Spec == Init /\ [][Next]_vars

\* Every thread of the pool keeps running.  A request takes mu_ at most twice,
\* so each waiter finds it free for good in the end and WF is enough.
FairSpec == Spec /\ \A r \in Requests : WF_vars(Handle(r) /\ UNCHANGED worldVars)

-----------------------------------------------------------------------------
(* Types                                                                    *)

\* Labels at which a handler is inside the transaction it began.
EnrollTxn == {"e_peek", "e_reject", "e_hash", "e_hash_failed", "e_insert",
              "e_duplicate", "e_mark", "e_changes", "e_not_marked", "e_commit",
              "e_catch"}
WhoamiTxn == {"w_select", "w_reject", "w_touch", "w_commit", "w_catch"}
TxnLabels == AudTxnLabels \union EnrollTxn \union WhoamiTxn

\* Where a handler goes on after record() returned or threw.
ReturnLabels == Statuses \union {"l_created", "e_catch"}

\* The other labels, by the route they belong to.
EnrollSteps == (EnrollTxn \ {"e_catch"}) \union {"e_begin", "e_audit_reject", "e_audit"}
LoginSteps  == {"l_rate", "l_select", "l_mint", "l_audit"}
LogoutSteps == {"o_update", "o_changes", "o_audit"}
WhoamiSteps == WhoamiTxn \union {"w_begin", "w_refused", "w_audit"}
AuditLabels == HoldsMu \union {"aud_lock"}

Labels ==
  {"new", "lost"} \union ReturnLabels \union EnrollSteps \union LoginSteps
  \union LogoutSteps \union WhoamiSteps \union AuditLabels

Events ==
  {"enrollment_token_rejected", "enrollment_token_consumed",
   "auth_rate_limit_tripped", "passphrase_authentication_failure",
   "passphrase_authentication_success", "session_created", "session_revoked",
   "session_expired"} \X Requests

Calls == [evt : Events, ok : ReturnLabels, fail : ReturnLabels]

SessionIds == DOMAIN SeedSessions \union Requests

Image(i) ==
  /\ DOMAIN i = {"users", "tokens", "consumed", "sessions", "revoked", "audit"}
  /\ i.users \subseteq Emails
  /\ i.tokens \subseteq Tokens
  /\ i.consumed \subseteq i.tokens
  /\ DOMAIN i.sessions \subseteq SessionIds
  /\ \A s \in DOMAIN i.sessions :
       i.sessions[s] \in [user : Emails, expires : Nat, seen : Nat]
  /\ i.revoked \subseteq DOMAIN i.sessions
  /\ \A s \in DOMAIN i.audit : i.audit[s].evt \in Events

\* A request at a step of a route is a request for that route.
OnItsRoute(r) ==
  /\ pc[r] \in EnrollSteps => req[r] \in Inputs /\ req[r].kind = "enroll"
  /\ pc[r] \in LoginSteps  => req[r] \in Inputs /\ req[r].kind = "login"
  /\ pc[r] \in LogoutSteps => req[r] \in Inputs /\ req[r].kind = "logout"
  /\ pc[r] \in WhoamiSteps => req[r] \in Inputs /\ req[r].kind = "whoami"

\* Each variable holds what the code can put in it, and a request in a call
\* of record() has told it which event to write and where to go on.
TypeOK ==
  /\ inTxn \in BOOLEAN
  /\ Image(live) /\ Image(disk)
  /\ changes \in {0, 1}
  /\ fileLock \in FileLocks
  /\ pc \in [Requests -> Labels]
  /\ mu \in Requests \union {NoOne}
  /\ call \in [Requests -> Calls \union {NoCall}]
  /\ DOMAIN head = Requests
  /\ DOMAIN req = Requests
  /\ at \in [Requests -> Nat]
  /\ now \in Nat
  /\ crashes \in Nat
  /\ \A r \in Requests : pc[r] \in AuditLabels => call[r] \in Calls
  /\ \A r \in Requests : OnItsRoute(r)

-----------------------------------------------------------------------------
(* What holds however requests interleave                                   *)

\* The audit table replays: sequence numbers 1..n without a gap, each row's
\* prev_hash the entry_hash before it.  It holds on disk and on the connection
\* even though another request's ROLLBACK or COMMIT may fall between any two
\* steps of append_locked: mu_ keeps a second writer out, and the explicit
\* primary key refuses a head that was read wrong.
AuditLinear == ChainLinear(disk.audit) /\ ChainLinear(live.audit)

\* disk -> live is at most one appended row.
AtMostOneRowAhead ==
  LET n == HeadOf(disk.audit).seq
  IN  /\ DOMAIN live.audit \in {1 .. n, 1 .. n + 1}
      /\ \A s \in 1 .. n : live.audit[s] = disk.audit[s]

\* Why AuditLinear holds: outside a transaction the connection shows the disk;
\* mu_ is held exactly by the request inside append_locked; the audit rows not
\* yet on disk are the one row of a request between its INSERT and the end of
\* record(); and the head a request is about to link to is the present head,
\* or the empty one that the primary key refuses.
AuditInv ==
  /\ AuditLinear
  /\ AtMostOneRowAhead
  /\ ~inTxn => live = disk
  /\ \A r \in Requests : mu = r <=> pc[r] \in HoldsMu
  /\ \/ live.audit = disk.audit
     \/ \E r \in Requests : pc[r] \in {"aud_commit", "aud_rollback"}
  /\ \A r \in Requests :
       pc[r] = "aud_insert" => head[r] \in {HeadOf(live.audit), NoHead}

\* The table on disk implements the append-only log of AuditChain: no row that
\* reached the disk is ever changed, dropped or overtaken.
Chain == INSTANCE AuditChain WITH
           log <- [s \in DOMAIN disk.audit |-> disk.audit[s].evt]
AuditAppendOnly == Chain!Spec

\* The shared connection is never left inside a transaction: when one is open,
\* some request is on its way to end it.  Were a handler to return without
\* COMMIT or ROLLBACK, every later BEGIN of the server would fail.
TxnHasOwner ==
  inTxn => \E r \in Requests : pc[r] \in TxnLabels

\* A session row always has its user row, even when login read the user out of
\* an enrollment that was rolled back afterwards.
SessionsHaveUsers ==
  \A i \in {live, disk} : \A s \in DOMAIN i.sessions : i.sessions[s].user \in i.users

\* Every request that arrived is answered, or lost in a crash: no path through
\* record() keeps mu_, and no request waits for another's transaction.
EveryRequestAnswered ==
  \A r \in Requests : pc[r] # "new" ~> pc[r] \in Answered

-----------------------------------------------------------------------------
(* What the handlers promise their clients.  It holds when requests are      *)
(* served one at a time, as Database.h asks of users of one Database; on the *)
(* thread pool it does not (the runs that expect a violation).               *)

\* AuthHandlers.cpp: creating the user and consuming the token are one
\* transaction, so a token is spent exactly if it made its user.
EnrollAtomic ==
  /\ \A tok \in disk.consumed : TokenFor[tok].email \in disk.users
  /\ \A e \in disk.users \ SeedUsers :
       \E tok \in disk.consumed : TokenFor[tok].email = e

\* A 200 from enroll means the user can log in, one from login that the session
\* exists, and one from logout that the session is dead.  It is judged when no
\* transaction is open, so that it shows what was kept and not what is pending.
AnswersAreTrue ==
  ~inTxn => \A r \in Requests :
    pc[r] = "200" =>
      /\ req[r].kind = "enroll" => req[r].email \in disk.users
      /\ req[r].kind = "login" => r \in DOMAIN disk.sessions
      /\ req[r].kind = "logout" =>
           {req[r].session} \intersect DOMAIN disk.sessions \subseteq disk.revoked

\* Session.h, revoke_session: "Returns true if a row was found and updated".  It
\* fails beside the admin CLI: README, section 5.
RevokeIsTruthful ==
  \A r \in Requests : pc[r] = "o_audit" => req[r].session \in live.revoked

Recorded(action, r) ==
  \E s \in DOMAIN disk.audit : disk.audit[s].evt = <<action, r>>

\* SqlAuditLog.h: "record() is safe to call concurrently".  Every handler that
\* answers 200 after a record() call returned has its event in the table.  It
\* fails when requests overlap: README, section 5.
RecordIsKept ==
  ~inTxn => \A r \in Requests :
    pc[r] = "200" =>
      /\ req[r].kind = "enroll" => Recorded("enrollment_token_consumed", r)
      /\ req[r].kind = "login" => Recorded("session_created", r)
      /\ req[r].kind = "whoami" => Recorded("passphrase_authentication_success", r)

\* README: every sensitive operation is audit-logged.  Every 200 that was to be
\* recorded is, and once a login or logout has its answer, good or bad, what it did
\* to the sessions table is in the audit table.
EffectsAreRecorded ==
  /\ RecordIsKept
  /\ \A r \in Requests :
       pc[r] \in Statuses =>
         /\ req[r].kind = "login" /\ r \in DOMAIN disk.sessions
              => Recorded("session_created", r)
         /\ req[r].kind = "logout" /\ req[r].session \in disk.revoked
              => Recorded("session_revoked", r)
=============================================================================
