-------------------------------- MODULE Client --------------------------------
(* The client program: the commands --enroll, --login, --logout, --whoami and *)
(* --migrate-from-local and the terminal application, as processes of one     *)
(* user that share the secret store and the storage file and call the server  *)
(* over a channel that may lose a request or its answer.                      *)
EXTENDS SecretStore, JsonStorage, FiniteSets, SequencesExt

CONSTANTS
  Ents,          \* ids the server may give to entities
  Accts,         \* accounts other clients may make
  OwnerOf,       \* account -> its entity
  TxCount,       \* account -> how many transactions it has
  kDefaultLimit, \* rows of a page of the server
  FileRows,      \* the rows of the storage file, in a migration's order: [kind, id, type]
  Commands,      \* what the user runs
  MaxCommands,   \* bound: commands, and refreshes of the application
  MaxChanges     \* bound: what other clients and the server's clock do

ASSUME ClientAssumption ==
  /\ IsFiniteSet(Ents) /\ IsFiniteSet(Accts)
  /\ Tokens \intersect {"none", Absent, Void} = {}
  /\ FileRows \in Seq(Range(FileRows))
  /\ OwnerOf \in [Accts -> Ents] /\ TxCount \in [Accts -> Nat]
  /\ kDefaultLimit \in Nat \ {0} /\ MaxCommands \in Nat /\ MaxChanges \in Nat

VARIABLES
  pc,             \* p -> where its command is
  cmd,            \* p -> the command
  tok,            \* p -> the session token it has in memory
  ans,            \* p -> the answer of its last call, or the result of its last load
  todo,           \* p -> the rows to post, or the lists to fetch
  lists,          \* p -> DataStore's five lists
  remote,         \* p -> RemoteBackendStorageService's token, or None for the file
  left, changes,  \* commands and outside changes that may still happen
  user,           \* the server has the user
  live,           \* the tokens the server takes
  ents,           \* the server's entities: id -> the file row it came from, or "other"
  accts           \* the server's accounts

\* What the properties remember.
VARIABLES
  out,      \* tokens of which --logout said that they are revoked
  migrated, \* a migration has had an answer of the server's handler to every post
  still,    \* p -> the server's data is what it was when p's load began
  first,    \* the storage file at the beginning
  struck    \* a crash, a full disk or another process came between a save's two steps

clientVars == <<pc, cmd, tok, ans, todo, lists, remote>>
bounds == <<left, changes>>
serverVars == <<user, live, ents, accts>>
ghosts == <<out, migrated, still, first, struck>>
vars == <<clientVars, bounds, serverVars, ghosts, storeVars, fileVars>>

None == "none"
NoLists == [local |-> "empty", ents |-> {}, accts |-> {}, txs |-> {}]
HasSession == secret # Absent
Existing == {e \in Ents : ents[e] # None}

Go(p, place) == pc' = [pc EXCEPT ![p] = place]

\* The process ends, and its memory with it.
Ends(p) ==
  /\ pc' = [pc EXCEPT ![p] = "idle"] /\ cmd' = [cmd EXCEPT ![p] = None]
  /\ tok' = [tok EXCEPT ![p] = None] /\ ans' = [ans EXCEPT ![p] = None]
  /\ todo' = [todo EXCEPT ![p] = <<>>] /\ lists' = [lists EXCEPT ![p] = NoLists]
  /\ remote' = [remote EXCEPT ![p] = None]

\* CurlHttpClient.send: a line break in a header, a refused certificate, a timeout or
\* any other failure of the transfer; the request may have been served.
NoAnswer == {"transport"}

\* send_request and map_response, for a call with token t: no answer is
\* "transport", 401 is "unauthorized"; a 2xx that is not JSON, 404, 409, 429 and
\* any other status are "error", which no caller but the migrator tells apart.  A
\* call that fails may have taken effect.
Answers(t) == NoAnswer \union {"error"} \union (IF t \in live THEN {"ok"} ELSE {"unauthorized"})

-----------------------------------------------------------------------------
(* Commands                                                                 *)

\* main: the command, and the token its AuthService reads first.  The terminal
\* application asks whoami only if TF_USER_EMAIL is set ("tui", not "local").
Run(p, c) ==
  /\ pc[p] = "idle" /\ left > 0 /\ c \in Commands
  /\ left' = left - 1
  /\ cmd' = [cmd EXCEPT ![p] = c]
  /\ CASE c \in {"enroll", "login"} -> Go(p, c) /\ UNCHANGED tok
       [] c = "local" -> Go(p, "construct") /\ UNCHANGED tok
       [] OTHER -> /\ HasSession  \* without a token there is nothing to do
                   /\ Go(p, IF c = "logout" THEN "logout" ELSE "whoami")
                   /\ tok' = [tok EXCEPT ![p] = secret]
  /\ UNCHANGED <<ans, todo, lists, remote, changes, serverVars, ghosts, storeVars, fileVars>>

\* AuthService::enroll: nothing is kept, whatever the answer.
Enroll(p) ==
  /\ pc[p] = "enroll"
  /\ user' \in {user, TRUE}
  /\ Ends(p)
  /\ UNCHANGED <<bounds, live, ents, accts, ghosts, storeVars, fileVars>>

\* AuthService::login: a session without an answer stays on the server, unknown.
Login(p) ==
  /\ pc[p] = "login"
  /\ \/ /\ user
        /\ \E t \in Tokens \ (live \union out \union {secret, tmp} \union {tok[q] : q \in Proc}) :
             /\ live' = live \union {t}
             /\ \/ Go(p, "put") /\ tok' = [tok EXCEPT ![p] = t] /\ UNCHANGED <<cmd, ans, todo, lists, remote>>
                \/ Ends(p)
     \/ Ends(p) /\ UNCHANGED live
  /\ UNCHANGED <<bounds, user, ents, accts, ghosts, storeVars, fileVars>>

\* cache_token, by put's steps; a failure of the store is only logged.
PutGoes(p, place) == Go(p, place) /\ UNCHANGED <<cmd, tok, ans, todo, lists, remote>>
CacheOpen(p) ==
  /\ pc[p] = "put"
  /\ \/ PutOpen(p) /\ PutGoes(p, "write")
     \/ KeepSecret /\ Ends(p)  \* the file cannot be opened
  /\ UNCHANGED <<bounds, serverVars, ghosts, fileVars>>
CacheWrite(p) ==
  /\ pc[p] = "write"
  /\ \/ PutWrite(p, tok[p]) /\ PutGoes(p, "chmod")
     \/ PutLosesWrite(p) /\ PutGoes(p, "unput")
  /\ UNCHANGED <<bounds, serverVars, ghosts, fileVars>>
CacheChmod(p) ==
  /\ pc[p] = "chmod" /\ KeepSecret
  /\ PutGoes(p, IF PutFindsFile THEN "rename" ELSE "unput")
  /\ UNCHANGED <<bounds, serverVars, ghosts, fileVars>>
CacheRename(p) ==
  /\ pc[p] = "rename"
  /\ \/ PutRename(p) /\ Ends(p)
     \/ ~PutFindsFile /\ KeepSecret /\ PutGoes(p, "unput")
  /\ UNCHANGED <<bounds, serverVars, ghosts, fileVars>>
CacheUnput(p) ==
  /\ pc[p] = "unput" /\ PutRemoves(p) /\ Ends(p)
  /\ UNCHANGED <<bounds, serverVars, ghosts, fileVars>>

\* The server's part of /auth/logout: 200 to any token, known or not; an empty one is
\* no header's.
LogoutAnswers(t) ==
  NoAnswer \union {"error"} \union (IF t \in Tokens THEN {"ok"} ELSE {"unauthorized"})

\* The UPDATE may be refused, or undone by another request's ROLLBACK, and the answer
\* is the same.
Logout(p) ==
  /\ pc[p] = "logout"
  /\ \E a \in LogoutAnswers(tok[p]) : ans' = [ans EXCEPT ![p] = a]
  /\ live' \in {live, live \ {tok[p]}}
  /\ Go(p, "leave")
  /\ UNCHANGED <<cmd, tok, todo, lists, remote, bounds, user, ents, accts, ghosts, storeVars, fileVars>>

\* logout's answer: without one the session may be valid, and the token is kept.
Leave(p) ==
  /\ pc[p] = "leave"
  /\ IF ans[p] = "transport" THEN KeepSecret ELSE RemoveSecret
  /\ out' = IF ans[p] = "ok" THEN out \union {tok[p]} ELSE out
  /\ Ends(p)
  /\ UNCHANGED <<bounds, serverVars, migrated, still, first, struck, fileVars>>

Whoami(p) ==
  /\ pc[p] = "whoami"
  /\ \E a \in Answers(tok[p]) : ans' = [ans EXCEPT ![p] = a]
  /\ Go(p, "who")
  /\ UNCHANGED <<cmd, tok, todo, lists, remote, bounds, serverVars, ghosts, storeVars, fileVars>>

\* current_user_id's answer: a 401 clears the store; a migration and the
\* application go on only if there is a user.
Who(p) ==
  /\ pc[p] = "who"
  /\ IF ans[p] = "unauthorized" THEN RemoveSecret ELSE KeepSecret
  /\ IF ans[p] = "ok" /\ cmd[p] # "whoami"
       THEN Go(p, "construct") /\ UNCHANGED <<cmd, tok, ans, todo, lists, remote>>
       ELSE Ends(p)
  /\ UNCHANGED <<bounds, serverVars, ghosts, fileVars>>

-----------------------------------------------------------------------------
(* --migrate-from-local                                                     *)

\* migrate: a file that cannot be read or parsed gives no rows.
RowsOf(content) == IF content \in {"full", "stripped"} THEN FileRows ELSE <<>>

\* The token is read again, and then the file.
ReadFile(p) ==
  /\ pc[p] = "construct" /\ cmd[p] = "migrate"
  /\ IF HasSession /\ RowsOf(file) # <<>>
       THEN /\ Go(p, "post")
            /\ tok' = [tok EXCEPT ![p] = secret]
            /\ todo' = [todo EXCEPT ![p] = RowsOf(file)]
            /\ ans' = [ans EXCEPT ![p] = "ok"]
            /\ UNCHANGED <<cmd, lists, remote>>
       ELSE Ends(p)
  /\ UNCHANGED <<bounds, serverVars, ghosts, storeVars, fileVars>>

\* valid_entity_kind: what the server calls the kinds that Entity::type_to_string
\* writes into the file as "individual", "llc" and so on.
EntityKinds == {"Individual", "LLC", "Corporation", "Partnership", "Trust", "Other"}

\* POST /entities, with the file's type as the kind: the server gives the entity an
\* id of its own.
PostEntity(p, row) ==
  /\ row.kind = "entity" /\ tok[p] \in live /\ row.type \in EntityKinds
  /\ \E e \in Ents \ Existing : ents' = [ents EXCEPT ![e] = row.id]
  /\ still' = [q \in Proc |-> FALSE]

\* The server refuses the row: 400 to another kind; 404 to an account and to a
\* transaction, whose path names a parent by the file's id, and to a category and a
\* budget, which it has under an entity only.
PostRefused(p, row) ==
  /\ tok[p] \in live /\ (row.kind = "entity" => row.type \notin EntityKinds)
  /\ UNCHANGED <<ents, still>>

\* handle_post_result: an error is counted, and the next row is taken.  ans[p] says
\* whether the server's handlers have answered every post so far.
NextRow(p, answered) ==
  IF Len(todo[p]) = 1 THEN /\ Ends(p)
                           /\ migrated' = (migrated \/ (ans[p] = "ok" /\ answered))
  ELSE /\ todo' = [todo EXCEPT ![p] = Tail(todo[p])]
       /\ ans' = IF answered THEN ans ELSE [ans EXCEPT ![p] = "transport"]
       /\ UNCHANGED <<pc, cmd, tok, lists, remote, migrated>>

\* A post is served, and its answer may be lost; or it fails before the handler acts.
Post(p) ==
  /\ pc[p] = "post"
  /\ LET row == Head(todo[p])
     IN  \/ /\ PostEntity(p, row) \/ PostRefused(p, row)
            /\ \E answered \in BOOLEAN : NextRow(p, answered)
         \/ UNCHANGED <<ents, still>> /\ NextRow(p, FALSE)
  /\ UNCHANGED <<bounds, user, live, accts, out, first, struck, storeVars, fileVars>>

-----------------------------------------------------------------------------
(* The terminal application's storage                                       *)

\* App: a token in the store makes the server the storage, and no token the file.
Construct(p) ==
  /\ pc[p] = "construct" /\ cmd[p] \in {"tui", "local"}
  /\ Go(p, "load")
  /\ remote' = [remote EXCEPT ![p] = IF cmd[p] = "tui" /\ HasSession THEN secret ELSE None]
  /\ tok' = [tok EXCEPT ![p] = None]
  /\ UNCHANGED <<cmd, ans, todo, lists, bounds, serverVars, ghosts, storeVars, fileVars>>

\* Variant: what a failed load had still to fetch stays.
LoadedKeepsTodo(p, result) ==
  /\ Go(p, IF cmd[p] = "open" THEN "running" ELSE "save")
  /\ ans' = [ans EXCEPT ![p] = result]
  /\ todo' = IF result = "ok" THEN [todo EXCEPT ![p] = <<>>] ELSE todo

\* A load is over: the first is followed by a save, a refresh by nothing.
Loaded(p, result) ==
  /\ Go(p, IF cmd[p] = "open" THEN "running" ELSE "save")
  /\ ans' = [ans EXCEPT ![p] = result]
  /\ todo' = [todo EXCEPT ![p] = <<>>]

\* JsonStorageService::load; a file that does not parse is copied in another step.
LoadFile(p) ==
  /\ pc[p] = "load" /\ remote[p] = None
  /\ IF Parses(file)
       THEN Loaded(p, "ok") /\ lists' = [lists EXCEPT ![p].local = Parsed(file)]
     ELSE IF file = "absent" THEN Loaded(p, "failed") /\ UNCHANGED lists
     ELSE Go(p, "backup") /\ UNCHANGED <<ans, todo, lists>>
  /\ struck' = (struck \/ saving # {})
  /\ UNCHANGED <<cmd, tok, remote, bounds, serverVars, out, migrated, still, first, storeVars, fileVars>>
BackUp(p) ==
  /\ pc[p] = "backup" /\ CreateBackup /\ Loaded(p, "failed")
  /\ UNCHANGED <<cmd, tok, lists, remote, bounds, serverVars, ghosts, storeVars>>

Get(list, id) == [get |-> list, id |-> id]

\* RemoteBackendStorageService::load clears the lists and asks for the entities.
LoadBegins(p) ==
  /\ pc[p] = "load" /\ remote[p] # None
  /\ Go(p, "fetch")
  /\ lists' = [lists EXCEPT ![p] = NoLists]
  /\ todo' = [todo EXCEPT ![p] = <<Get("entities", None)>>]
  /\ still' = [still EXCEPT ![p] = TRUE]
  /\ UNCHANGED <<cmd, tok, ans, remote, bounds, serverVars, out, migrated, first, struck, storeVars, fileVars>>

\* The transactions that come for an account: next_cursor is not followed.
Page(a) == <<a, IF TxCount[a] < kDefaultLimit THEN TxCount[a] ELSE kDefaultLimit>>

\* What an answer adds to the lists, and the requests it leads to: the accounts,
\* categories and budgets of each entity, then the transactions of each account.
PerEntity == <<"accounts", "categories", "budgets">>
Brings(g) ==
  CASE g.get = "entities" ->
         [ents |-> Existing, accts |-> {}, txs |-> {},
          next |-> [i \in 1 .. 3 * Cardinality(Existing) |->
                     Get(PerEntity[((i - 1) % 3) + 1], SetToSeq(Existing)[((i - 1) \div 3) + 1])]]
    [] g.get = "accounts" ->
         LET its == {a \in accts : OwnerOf[a] = g.id}
         IN  [ents |-> {}, accts |-> its, txs |-> {},
              next |-> [i \in 1 .. Cardinality(its) |-> Get("transactions", SetToSeq(its)[i])]]
    [] g.get = "transactions" ->
         [ents |-> {}, accts |-> {}, next |-> <<>>,
          txs |-> {Page(g.id)}]
    [] OTHER -> [ents |-> {}, accts |-> {}, txs |-> {}, next |-> <<>>]

\* Variant: a list that cannot be fetched is skipped.
FetchSkips(p) ==
  /\ pc[p] = "fetch"
  /\ LET g == Head(todo[p])
         b == Brings(g)
         Goes(next) == IF next # <<>> THEN todo' = [todo EXCEPT ![p] = next] /\ UNCHANGED <<pc, ans>>
                       ELSE Loaded(p, "ok")
     IN  \/ /\ remote[p] \in live /\ (g.get = "transactions" => g.id \in accts)
            /\ lists' = [lists EXCEPT ![p] = [local |-> @.local, ents |-> @.ents \union b.ents,
                           accts |-> @.accts \union b.accts, txs |-> @.txs \union b.txs]]
            /\ Goes(Tail(todo[p]) \o b.next)
         \/ Goes(Tail(todo[p])) /\ UNCHANGED lists
  /\ UNCHANGED <<cmd, tok, remote, bounds, serverVars, ghosts, storeVars, fileVars>>

\* fetch_list: one request; the first that fails ends the load, and the lists stay
\* as far as they were filled.
Fetch(p) ==
  /\ pc[p] = "fetch"
  /\ LET g == Head(todo[p])
         b == Brings(g)
         next == Tail(todo[p]) \o b.next
     IN  \/ /\ remote[p] \in live /\ (g.get = "transactions" => g.id \in accts)
            /\ lists' = [lists EXCEPT ![p] = [local |-> @.local, ents |-> @.ents \union b.ents,
                           accts |-> @.accts \union b.accts, txs |-> @.txs \union b.txs]]
            /\ IF next # <<>> THEN todo' = [todo EXCEPT ![p] = next] /\ UNCHANGED <<pc, ans>>
               ELSE Loaded(p, "ok")
         \/ Loaded(p, "failed") /\ UNCHANGED lists
  /\ UNCHANGED <<cmd, tok, remote, bounds, serverVars, ghosts, storeVars, fileVars>>

AfterSave(p) ==
  IF cmd[p] = "quit" THEN Ends(p)
  ELSE /\ Go(p, "running") /\ cmd' = [cmd EXCEPT ![p] = "open"]
       /\ UNCHANGED <<tok, ans, todo, lists, remote>>

\* Variant: the stub gone, the lists are saved to the file whatever their source.
SaveAnywhere(p) ==
  /\ pc[p] = "save"
  /\ SaveOpen(p) /\ Go(p, "dump")
  /\ UNCHANGED <<cmd, tok, ans, todo, lists, remote>>
  /\ struck' = (struck \/ saving # {})
  /\ UNCHANGED <<bounds, serverVars, out, migrated, still, first, storeVars>>

\* DataStore::save: to the server it is a stub that fails; the file is truncated.
Save(p) ==
  /\ pc[p] = "save"
  /\ IF remote[p] # None
       THEN AfterSave(p) /\ UNCHANGED <<fileVars, struck>>
       ELSE /\ SaveOpen(p) /\ Go(p, "dump")
            /\ UNCHANGED <<cmd, tok, ans, todo, lists, remote>>
            /\ struck' = (struck \/ saving # {})
  /\ UNCHANGED <<bounds, serverVars, out, migrated, still, first, storeVars>>

Dump(p) ==
  /\ pc[p] = "dump"
  /\ SaveWrite(p, IF lists[p].ents = {} THEN lists[p].local ELSE "server")
  /\ struck' = (struck \/ file' = "torn")
  /\ AfterSave(p)
  /\ UNCHANGED <<bounds, serverVars, out, migrated, still, first, storeVars>>

\* The keys: refresh, save, save and quit, leave.
Use(p) ==
  /\ pc[p] = "running"
  /\ \/ left > 0 /\ left' = left - 1 /\ Go(p, "load") /\ UNCHANGED <<cmd, tok, ans, todo, lists, remote>>
     \/ Go(p, "save") /\ UNCHANGED <<left, cmd, tok, ans, todo, lists, remote>>
     \/ /\ Go(p, "save") /\ cmd' = [cmd EXCEPT ![p] = "quit"]
        /\ UNCHANGED <<left, tok, ans, todo, lists, remote>>
     \/ Ends(p) /\ UNCHANGED left
  /\ UNCHANGED <<changes, serverVars, ghosts, storeVars, fileVars>>

-----------------------------------------------------------------------------
(* The rest of the world                                                    *)

Crash(p) ==
  /\ pc[p] # "idle"
  /\ struck' = (struck \/ p \in saving)
  /\ Ends(p) /\ StoreCrash(p) /\ FileCrash(p)
  /\ UNCHANGED <<bounds, serverVars, out, migrated, still, first>>

\* A session ends on the server: its time is over, or an administrator revoked it.
Expire ==
  /\ \E t \in live : live' = live \ {t}
  /\ UNCHANGED <<user, ents, accts, still>>

\* Other clients make entities and accounts, and delete accounts.
OthersChange ==
  /\ \/ /\ \E e \in Ents \ Existing : ents' = [ents EXCEPT ![e] = "other"]
        /\ UNCHANGED accts
     \/ /\ \E a \in Accts : /\ ents[OwnerOf[a]] # None
                            /\ accts' = IF a \in accts THEN accts \ {a} ELSE accts \union {a}
        /\ UNCHANGED ents
  /\ still' = [p \in Proc |-> FALSE]
  /\ UNCHANGED <<user, live>>

World ==
  /\ changes > 0 /\ changes' = changes - 1
  /\ Expire \/ OthersChange
  /\ UNCHANGED <<clientVars, left, out, migrated, first, struck, storeVars, fileVars>>

Init ==
  /\ pc = [p \in Proc |-> "idle"] /\ cmd = [p \in Proc |-> None]
  /\ tok = [p \in Proc |-> None] /\ ans = [p \in Proc |-> None]
  /\ todo = [p \in Proc |-> <<>>] /\ lists = [p \in Proc |-> NoLists]
  /\ remote = [p \in Proc |-> None]
  /\ left = MaxCommands /\ changes = MaxChanges
  /\ user \in BOOLEAN /\ live = {} /\ ents = [e \in Ents |-> None] /\ accts = {}
  /\ StoreInit /\ FileInit
  /\ out = {} /\ migrated = FALSE /\ still = [p \in Proc |-> FALSE] /\ first = file /\ struck = FALSE

Step(p) ==
  \/ \E c \in Commands : Run(p, c)
  \/ Enroll(p) \/ Login(p) \/ CacheOpen(p)
  \/ CacheWrite(p) \/ CacheChmod(p) \/ CacheRename(p) \/ CacheUnput(p)
  \/ Logout(p) \/ Leave(p) \/ Whoami(p) \/ Who(p)
  \/ ReadFile(p) \/ Post(p)
  \/ Construct(p) \/ LoadFile(p) \/ BackUp(p) \/ LoadBegins(p) \/ Fetch(p)
  \/ Save(p) \/ Dump(p) \/ Use(p) \/ Crash(p)

Next == World \/ \E p \in Proc : Step(p)

Spec == Init /\ [][Next]_vars

-----------------------------------------------------------------------------
\* Each variable holds what the code can put in it; a file is open for a save or a
\* put exactly while the process is between the two steps of one.
TypeOK ==
  /\ pc \in [Proc -> {"idle", "enroll", "login", "put", "write", "chmod", "rename", "unput", "logout", "leave",
                      "whoami", "who", "construct", "post", "load", "backup", "fetch", "save",
                      "dump", "running"}]
  /\ cmd \in [Proc -> Commands \union {None, "open", "quit"}]
  /\ tok \in [Proc -> Tokens \union {None, Void}]
  /\ remote \in [Proc -> Tokens \union {None, Void}]
  /\ live \subseteq Tokens /\ out \subseteq Tokens /\ accts \subseteq Accts
  /\ left \in 0 .. MaxCommands /\ changes \in 0 .. MaxChanges
  /\ HandleTypeOK /\ FileTypeOK /\ saving \subseteq Proc
  /\ \A p \in Proc : /\ pc[p] = "write" <=> handle[p] # "none"
                     /\ pc[p] = "dump" <=> p \in saving
                     /\ pc[p] \in {"write", "chmod", "rename", "unput"} <=> puts[p] # "none"
                     /\ pc[p] \in {"post", "fetch"} <=> todo[p] # <<>>

\* AuthService.cpp:204: once the command has said that the session is revoked, its
\* token has left the store and the temporary file, and no later or overtaken put, by
\* whatever process, brings it back.
LoggedOutStaysOut == out \intersect {secret, tmp} = {}

\* AuthService.h:80, logout: "Returns true on successful revocation (HTTP 2xx)".  A
\* token that was reported as revoked is not one the server takes.
LogoutRevokes == out \intersect live = {}

\* FileSecretStore.cpp:68, "atomic-rename into place": a put that meets no other
\* makes the whole of its token the secret in one instant, or changes nothing,
\* wherever it fails or its process ends; nothing but a put, and a clearing of the
\* cache, changes the secret.
Cell == INSTANCE TokenCell WITH
  Writers <- Proc, Nothing <- None,
  put <- [p \in Proc |-> IF puts[p] = "none" THEN None ELSE tok[p]],
  alone <- {p \in Proc : puts[p] = "alone"}
PutIsAtomic == Cell!Spec

\* RemoteBackendStorageService.h, load: "populates all five output vectors; true on
\* success".  If nothing was changed on the server meanwhile, a load that returned
\* true has every entity and account, and a page of transactions of each.
LoadIsWhole ==
  \A p \in Proc :
    remote[p] # None /\ ans[p] = "ok" /\ still[p] /\ pc[p] \in {"save", "running"} =>
      /\ lists[p].ents = Existing /\ lists[p].accts = accts
      /\ lists[p].txs = {Page(a) : a \in accts}

\* RemoteBackendStorageService.h:24: "Fetch all entities, accounts, transactions".  A
\* load that returned true has every transaction of every account.
LoadIsComplete ==
  \A p \in Proc :
    remote[p] # None /\ ans[p] = "ok" /\ still[p] /\ pc[p] \in {"save", "running"} =>
      \A a \in accts : <<a, TxCount[a]>> \in lists[p].txs

\* The storage file keeps its rows: whatever the sessions, the server and the order
\* of the commands do, only a crash, a full disk or a second process within a save
\* loses them, and rows of the server never get there.
SavedIsKept ==
  ~struck /\ saving = {} =>
    file \in IF first = "full" THEN {"full", "stripped"} ELSE {"absent", "empty"}

\* MIGRATION_V0.1_TO_V0.2.md:96: "v0.1 `type` is renamed to v0.2 `kind`".  A migration
\* that had the answer of the server's handler to each of its posts has put every
\* entity of the file on the server.
MigrationArrives ==
  migrated => \A i \in DOMAIN FileRows :
                FileRows[i].kind = "entity" => \E e \in Ents : ents[e] = FileRows[i].id
=============================================================================
