---------------------------- MODULE Client_proofs ----------------------------
(***************************************************************************)
(* Theorems about Client for every set of processes, tokens, entities and  *)
(* accounts, every file and every number of commands and outside changes.  *)
(***************************************************************************)
EXTENDS Client, SequenceTheorems, FiniteSetTheorems, TLAPS

-----------------------------------------------------------------------------
(* The invariant                                                            *)

Outcomes == {None, "ok", "failed", "transport", "error", "unauthorized"}
Rows == Seq(Range(FileRows))
Requests ==
  {Get("entities", None)} \union {Get("transactions", a) : a \in Accts}
    \union {Get(l, e) : l \in {"accounts", "categories", "budgets"}, e \in Ents}
Lists == [local : Contents, ents : SUBSET Ents, accts : SUBSET Accts, txs : SUBSET (Accts \X Nat)]

\* What a process has: TypeOK for it, and rows of the file before it if it posts,
\* requests if it fetches, a token if it caches one or has ended its session.
Places == {"idle", "enroll", "login", "put", "write", "chmod", "rename", "unput", "logout", "leave", "whoami", "who",
           "construct", "post", "load", "backup", "fetch", "save", "dump", "running"}
InPut == {"write", "chmod", "rename", "unput"}
ProcTypes(p) ==
  /\ pc[p] \in Places /\ cmd[p] \in Commands \union {None, "open", "quit"}
  /\ tok[p] \in Tokens \union {None, Void} /\ remote[p] \in Tokens \union {None, Void}
  /\ ans[p] \in Outcomes /\ lists[p] \in Lists
  /\ pc[p] = "write" <=> handle[p] # "none"
  /\ pc[p] \in InPut <=> puts[p] # "none"
  /\ pc[p] = "dump" <=> p \in saving
  /\ pc[p] \in {"post", "fetch"} <=> todo[p] # <<>>
  /\ pc[p] = "post" => todo[p] \in Rows
  /\ pc[p] = "fetch" => todo[p] \in Seq(Requests)
  /\ pc[p] \in {"put"} \union InPut \/ (pc[p] = "leave" /\ ans[p] = "ok") => tok[p] \in Tokens
  /\ pc[p] = "logout" => tok[p] # None

Vectors ==
  /\ pc = [q \in Proc |-> pc[q]] /\ cmd = [q \in Proc |-> cmd[q]] /\ tok = [q \in Proc |-> tok[q]]
  /\ ans = [q \in Proc |-> ans[q]] /\ todo = [q \in Proc |-> todo[q]]
  /\ lists = [q \in Proc |-> lists[q]] /\ remote = [q \in Proc |-> remote[q]]

Shared ==
  /\ live \subseteq Tokens /\ out \subseteq Tokens /\ accts \subseteq Accts
  /\ left \in 0 .. MaxCommands /\ changes \in 0 .. MaxChanges
  /\ HandleTypeOK /\ FileTypeOK /\ saving \subseteq Proc
  /\ ents = [e \in Ents |-> ents[e]] /\ still \in [Proc -> BOOLEAN]
  /\ first \in {"absent", "full"} /\ struck \in BOOLEAN

Shapes == Vectors /\ Shared /\ \A p \in Proc : ProcTypes(p)

\* A token on its way into the store is nowhere else: not in the file or its
\* temporary, not revoked, not in another process.
Carries(p) ==
  pc[p] \in {"put", "write"} =>
    /\ tok[p] \in Tokens \ (out \union {secret, tmp})
    /\ \A q \in Proc \ {p} : tok[q] # tok[p]
\* Only its put leaves a token in the temporary file.
Holds(p) ==
  pc[p] \notin {"put"} \union InPut /\ tok[p] \in Tokens => tok[p] # tmp
\* A put that has met no other is the only one; its file has the temporary name until
\* it is renamed, and then the whole token in it.
Undisturbed(p) ==
  puts[p] = "alone" =>
    /\ \A q \in Proc \ {p} : puts[q] = "none"
    /\ pc[p] = "write" => handle[p] = "tmp"
    /\ pc[p] \in {"chmod", "rename"} => tmp = tok[p]
PutInv == \A p \in Proc : Undisturbed(p)
StoreInv ==
  /\ LoggedOutStaysOut
  /\ secret \in Tokens => secret # tmp
  /\ \A p \in Proc : Carries(p) /\ Holds(p)

\* What the file may hold, and the lists of an application that works on it.
Kept == IF first = "full" THEN {"full", "stripped"} ELSE {"absent", "empty"}
FromFile(p) ==
  /\ lists[p].ents = {}
  /\ IF first = "full" THEN pc[p] \in {"save", "dump", "running"} => lists[p].local = "stripped"
                       ELSE lists[p].local = "empty"
RemotePlaces == {"load", "fetch", "save", "running"}
FileKept ==
  ~struck => IF saving = {} THEN file \in Kept ELSE file = "void" /\ \E p \in Proc : saving = {p}
AppInv(p) ==
  /\ remote[p] # None => pc[p] \in RemotePlaces
  /\ pc[p] = "fetch" => remote[p] # None
  /\ ~struck => pc[p] # "backup" /\ (remote[p] = None => FromFile(p))
FileInv == FileKept /\ \A p \in Proc : AppInv(p)

\* A load under way: what its lists lack of the server's data is among what a
\* request that is still to be made brings.
Pending(ls, requests) ==
  /\ ls.ents \subseteq Existing /\ ls.accts \subseteq accts /\ ls.txs \subseteq {Page(a) : a \in accts}
  /\ ls.ents = Existing \/ Get("entities", None) \in requests
  /\ \A a \in accts : \/ a \in ls.accts
                      \/ {Get("entities", None), Get("accounts", OwnerOf[a])} \intersect requests # {}
  /\ \A a \in ls.accts : Page(a) \in ls.txs \/ Get("transactions", a) \in requests
Whole(ls) ==
  ls.ents = Existing /\ ls.accts = accts /\ ls.txs = {Page(a) : a \in accts}
Owned == \A a \in accts : OwnerOf[a] \in Existing
Loads(p) ==
  /\ pc[p] = "fetch" /\ still[p] => Pending(lists[p], Range(todo[p]))
  /\ remote[p] # None /\ ans[p] = "ok" /\ still[p] /\ pc[p] \in {"save", "running"} => Whole(lists[p])
LoadInv == Owned /\ \A p \in Proc : Loads(p)

-----------------------------------------------------------------------------
(* Operators                                                                *)

\* A set as a sequence has every element of the set.
LEMMA SetAsSeq ==
  ASSUME NEW S, IsFiniteSet(S)
  PROVE  /\ Cardinality(S) \in Nat
         /\ SetToSeq(S) \in [1 .. Cardinality(S) -> S]
         /\ \A x \in S : \E i \in 1 .. Cardinality(S) : SetToSeq(S)[i] = x
<1> DEFINE n == Cardinality(S)
<1>1. n \in Nat /\ ExistsBijection(1 .. n, S)
  BY FS_CardinalityType
<1>2. \E f \in [1 .. n -> S] : IsInjective(f)
  BY <1>1 DEF ExistsBijection, Bijection, Injection
<1>3. SetToSeq(S) \in [1 .. n -> S] /\ IsInjective(SetToSeq(S))
  BY <1>2 DEF SetToSeq
<1>4. Cardinality(1 .. n) = n
  BY <1>1, FS_Interval
<1>5. SetToSeq(S) \in Surjection(1 .. n, S)
  BY <1>3, <1>4, FS_Injection DEF Injection
<1> QED BY <1>1, <1>3, <1>5 DEF Surjection

LEMMA Finite ==
  /\ IsFiniteSet(Existing)
  /\ \A id : IsFiniteSet({a \in accts \intersect Accts : OwnerOf[a] = id})
<1>1. IsFiniteSet(Ents) /\ IsFiniteSet(Accts)
  BY ClientAssumption
<1> QED BY <1>1, FS_Subset DEF Existing

LEMMA EntityRequests ==
  LET next == Brings(Get("entities", None)).next
  IN  /\ next \in Seq(Requests)
      /\ \A e \in Existing : Get("accounts", e) \in Range(next)
<1> DEFINE n == Cardinality(Existing)
           req(i) == Get(PerEntity[((i - 1) % 3) + 1], SetToSeq(Existing)[((i - 1) \div 3) + 1])
           next == [i \in 1 .. 3 * n |-> req(i)]
<1>1. Brings(Get("entities", None)).next = next
  BY DEF Brings, Get
<1>2. /\ n \in Nat /\ SetToSeq(Existing) \in [1 .. n -> Existing]
      /\ \A e \in Existing : \E i \in 1 .. n : SetToSeq(Existing)[i] = e
  BY SetAsSeq, Finite
<1>3. ASSUME NEW i \in 1 .. 3 * n PROVE req(i) \in Requests
  <2>1. (i - 1) \div 3 + 1 \in 1 .. n /\ ((i - 1) % 3) + 1 \in 1 .. 3
    BY <1>2
  <2>2. PerEntity[((i - 1) % 3) + 1] \in {"accounts", "categories", "budgets"}
    BY <2>1 DEF PerEntity
  <2>3. SetToSeq(Existing)[((i - 1) \div 3) + 1] \in Ents
    BY <1>2, <2>1 DEF Existing
  <2> QED BY <2>2, <2>3 DEF Requests
<1>4. ASSUME NEW e \in Existing PROVE Get("accounts", e) \in Range(next)
  <2>1. PICK i \in 1 .. n : SetToSeq(Existing)[i] = e
    BY <1>2
  <2> DEFINE k == 3 * (i - 1) + 1
  <2>2. k \in 1 .. 3 * n /\ (k - 1) % 3 = 0 /\ (k - 1) \div 3 = i - 1
    BY <1>2
  <2>3. req(k) = Get("accounts", e)
    <3> HIDE DEF k
    <3> QED BY <2>1, <2>2 DEF PerEntity
  <2> HIDE DEF k, req
  <2> QED BY <2>2, <2>3 DEF Range
<1>5. 3 * n \in Nat
  BY <1>2
<1>6. next \in Seq(Requests)
  <2> HIDE DEF req, n
  <2> QED BY <1>3, <1>5
<1> HIDE DEF next
<1> QED BY <1>1, <1>4, <1>6

LEMMA AccountRequests ==
  ASSUME NEW e, accts \subseteq Accts
  PROVE  LET b == Brings(Get("accounts", e))
         IN  /\ b.accts = {a \in accts : OwnerOf[a] = e}
             /\ b.next \in Seq(Requests)
             /\ \A a \in b.accts : Get("transactions", a) \in Range(b.next)
<1> DEFINE its == {a \in accts : OwnerOf[a] = e}
           n == Cardinality(its)
           next == [i \in 1 .. n |-> Get("transactions", SetToSeq(its)[i])]
<1>1. Brings(Get("accounts", e)).next = next /\ Brings(Get("accounts", e)).accts = its
  BY DEF Brings, Get
<1>2. IsFiniteSet(its) /\ its \subseteq Accts
  <2>1. its = {a \in accts \intersect Accts : OwnerOf[a] = e}
    OBVIOUS
  <2> QED BY <2>1, Finite
<1> HIDE DEF its
<1>3. /\ n \in Nat /\ SetToSeq(its) \in [1 .. n -> its]
      /\ \A a \in its : \E i \in 1 .. n : SetToSeq(its)[i] = a
  BY <1>2, SetAsSeq
<1>4. \A i \in 1 .. n : Get("transactions", SetToSeq(its)[i]) \in Requests
  BY <1>2, <1>3 DEF Requests
<1>5. next \in Seq(Requests)
  <2> HIDE DEF n
  <2> QED BY <1>3, <1>4
<1>6. \A a \in its : Get("transactions", a) \in Range(next)
  BY <1>3 DEF Range
<1> HIDE DEF next
<1> QED BY <1>1, <1>5, <1>6 DEF its

LEMMA RequestKinds ==
  ASSUME NEW g \in Requests
  PROVE  \/ g = Get("entities", None)
         \/ \E e \in Ents : g = Get("accounts", e)
         \/ \E a \in Accts : g = Get("transactions", a)
         \/ g.get \notin {"entities", "accounts", "transactions"}
BY DEF Requests, Get

LEMMA PageType ==
  ASSUME NEW a \in Accts PROVE Page(a) \in Accts \X Nat
BY ClientAssumption DEF Page

\* An answer brings what the lists and the requests of a load are made of.
LEMMA BringsTypes ==
  ASSUME NEW g \in Requests, accts \subseteq Accts
  PROVE  /\ Brings(g).ents \subseteq Existing /\ Brings(g).accts \subseteq accts
         /\ Brings(g).txs \subseteq Accts \X Nat
         /\ g.get = "transactions" /\ g.id \in accts => Brings(g).txs \subseteq {Page(a) : a \in accts}
         /\ Brings(g).next \in Seq(Requests)
<1>1. CASE g = Get("entities", None)
  BY <1>1, EntityRequests DEF Brings, Get
<1>2. ASSUME NEW e \in Ents, g = Get("accounts", e) PROVE Brings(g).next \in Seq(Requests)
  BY <1>2, AccountRequests
<1>3. CASE \E e \in Ents : g = Get("accounts", e)
  BY <1>2, <1>3 DEF Brings, Get
<1>4. ASSUME NEW a \in Accts, g = Get("transactions", a)
      PROVE  /\ Brings(g).ents = {} /\ Brings(g).accts = {}
             /\ Brings(g).txs = {Page(a)} /\ Brings(g).next = <<>> /\ g.id = a
  BY <1>4 DEF Brings, Get
<1>5. CASE \E a \in Accts : g = Get("transactions", a)
  <2>1. PICK a \in Accts : g = Get("transactions", a)
    BY <1>5
  <2>2. {Page(a)} \subseteq Accts \X Nat /\ <<>> \in Seq(Requests)
    BY PageType
  <2>3. g.id = a /\ (a \in accts => {Page(a)} \subseteq {Page(x) : x \in accts})
    BY <1>4, <2>1
  <2>4. Brings(g).ents = {} /\ Brings(g).accts = {} /\ Brings(g).txs = {Page(a)} /\ Brings(g).next = <<>>
    BY <1>4, <2>1
  <2> QED BY <2>2, <2>3, <2>4
<1>6. CASE g.get \notin {"entities", "accounts", "transactions"}
  <2>1. Brings(g) = [ents |-> {}, accts |-> {}, txs |-> {}, next |-> <<>>]
    BY <1>6 DEF Brings
  <2> QED BY <1>6, <2>1
<1> QED BY <1>1, <1>3, <1>5, <1>6, RequestKinds

-----------------------------------------------------------------------------
(* Steps                                                                    *)

\* What a step of another process leaves alone.
Same(q) ==
  /\ pc'[q] = pc[q] /\ cmd'[q] = cmd[q] /\ tok'[q] = tok[q] /\ ans'[q] = ans[q]
  /\ todo'[q] = todo[q] /\ lists'[q] = lists[q] /\ remote'[q] = remote[q]
  /\ handle'[q] = "none" <=> handle[q] = "none"
  /\ puts'[q] = "none" <=> puts[q] = "none"
  /\ q \in saving' <=> q \in saving
Frame(p) == Vectors' /\ \A q \in Proc \ {p} : Same(q)

LEMMA StepFrame ==
  ASSUME Shapes, NEW p \in Proc, Step(p)
  PROVE  Frame(p)
<1> USE DEF Shapes, Vectors, Frame, Same, PutGoes, Go, serverVars, bounds, ghosts, storeVars, fileVars
<1>0. /\ handle \in [Proc -> {"none", "tmp", "file", "unlinked"}]
      /\ puts \in [Proc -> {"none", "alone", "mixed"}]
  BY DEF Shared, HandleTypeOK
<1>1. ASSUME NEW c \in Commands, Run(p, c) PROVE Frame(p)
  BY <1>1 DEF Run
<1>2. ASSUME Enroll(p) PROVE Frame(p)
  BY <1>2, <1>0 DEF Enroll, Ends
<1>3. ASSUME Login(p) PROVE Frame(p)
  BY <1>3, <1>0 DEF Login, Ends
<1>4. ASSUME CacheOpen(p) PROVE Frame(p)
  BY <1>4, <1>0 DEF CacheOpen, PutOpen, PutBegins, KeepSecret, Ends
<1>5. ASSUME CacheWrite(p) PROVE Frame(p)
  BY <1>5, <1>0 DEF CacheWrite, PutWrite, PutLosesWrite
<1>6. ASSUME CacheRename(p) PROVE Frame(p)
  <2>1. \A q \in Proc : handle'[q] = "none" <=> handle[q] = "none"
    BY <1>6, <1>0 DEF CacheRename, PutRename, KeepSecret
  <2>2. \A q \in Proc \ {p} : puts'[q] = puts[q]
    BY <1>6, <1>0 DEF CacheRename, PutRename, PutFindsFile, PutEnds, KeepSecret
  <2> QED BY <1>6, <2>1, <2>2 DEF CacheRename, Ends
<1>7. ASSUME Logout(p) PROVE Frame(p)
  BY <1>7, <1>0 DEF Logout
<1>8. ASSUME Leave(p) PROVE Frame(p)
  <2>1. puts' = puts /\ \A q \in Proc : handle'[q] = "none" <=> handle[q] = "none"
    BY <1>8, <1>0 DEF Leave, RemoveSecret, KeepSecret
  <2> QED BY <1>8, <2>1 DEF Leave, Ends
<1>9. ASSUME Whoami(p) PROVE Frame(p)
  BY <1>9, <1>0 DEF Whoami
<1>10. ASSUME Who(p) PROVE Frame(p)
  <2>1. puts' = puts /\ \A q \in Proc : handle'[q] = "none" <=> handle[q] = "none"
    BY <1>10, <1>0 DEF Who, RemoveSecret, KeepSecret
  <2> QED BY <1>10, <2>1 DEF Who, Ends
<1>11. ASSUME ReadFile(p) PROVE Frame(p)
  BY <1>11, <1>0 DEF ReadFile, Ends
<1>12. ASSUME Post(p) PROVE Frame(p)
  BY <1>12, <1>0 DEF Post, NextRow, Ends
<1>13. ASSUME Construct(p) PROVE Frame(p)
  BY <1>13, <1>0 DEF Construct
<1>14. ASSUME LoadFile(p) PROVE Frame(p)
  BY <1>14, <1>0 DEF LoadFile, Loaded
<1>15. ASSUME BackUp(p) PROVE Frame(p)
  BY <1>15, <1>0 DEF BackUp, CreateBackup, Loaded
<1>16. ASSUME LoadBegins(p) PROVE Frame(p)
  BY <1>16, <1>0 DEF LoadBegins
<1>17. ASSUME Fetch(p) PROVE Frame(p)
  BY <1>17, <1>0 DEF Fetch, Loaded
<1>18. ASSUME Save(p) PROVE Frame(p)
  BY <1>18, <1>0 DEF Save, AfterSave, SaveOpen, Ends
<1>19. ASSUME Dump(p) PROVE Frame(p)
  BY <1>19, <1>0 DEF Dump, SaveWrite, AfterSave, Ends
<1>20. ASSUME Use(p) PROVE Frame(p)
  BY <1>20, <1>0 DEF Use, Ends
<1>21. ASSUME Crash(p) PROVE Frame(p)
  BY <1>21, <1>0 DEF Crash, StoreCrash, PutEnds, FileCrash, Ends
<1>22. ASSUME CacheChmod(p) PROVE Frame(p)
  BY <1>22, <1>0 DEF CacheChmod, KeepSecret
<1>23. ASSUME CacheUnput(p) PROVE Frame(p)
  <2>1. /\ \A q \in Proc : handle'[q] = "none" <=> handle[q] = "none"
        /\ \A q \in Proc \ {p} : puts'[q] = puts[q]
    BY <1>23, <1>0 DEF CacheUnput, PutRemoves, PutEnds
  <2> QED BY <1>23, <2>1 DEF CacheUnput, Ends
<1> HIDE DEF Shapes, Vectors, Frame, Same
<1> QED BY <1>1, <1>2, <1>3, <1>4, <1>5, <1>6, <1>7, <1>8, <1>9, <1>10, <1>11, <1>12, <1>13,
           <1>14, <1>15, <1>16, <1>17, <1>18, <1>19, <1>20, <1>21, <1>22, <1>23 DEF Step

-----------------------------------------------------------------------------
(* Types                                                                    *)

\* A process that ends has the types of one that is idle.
LEMMA EndsAt ==
  ASSUME Vectors, NEW p \in Proc, Ends(p)
  PROVE  /\ pc'[p] = "idle" /\ cmd'[p] = None /\ tok'[p] = None /\ ans'[p] = None
         /\ todo'[p] = <<>> /\ lists'[p] = NoLists /\ remote'[p] = None
BY DEF Vectors, Ends

LEMMA LoadedAt ==
  ASSUME Vectors, NEW p \in Proc, NEW r \in Outcomes, Loaded(p, r)
  PROVE  /\ pc'[p] \in {"running", "save"} /\ ans'[p] = r /\ todo'[p] = <<>>
         /\ \A q \in Proc \ {p} : pc'[q] = pc[q]
BY DEF Vectors, Loaded, Go

LEMMA NoListsType == NoLists \in Lists
BY DEF NoLists, Lists, Contents, Size

LEMMA TailOfRows ==
  ASSUME NEW S, NEW s \in Seq(S), s # <<>>, Len(s) # 1
  PROVE  Tail(s) \in Seq(S) /\ Tail(s) # <<>>
<1>1. Tail(s) \in Seq(S) /\ Len(Tail(s)) = Len(s) - 1
  BY HeadTailProperties
<1>2. Len(s) \in Nat \ {0, 1}
  BY EmptySeq
<1>3. Len(Tail(s)) # 0
  BY <1>1, <1>2
<1> QED BY <1>1, <1>3, EmptySeq

LEMMA RowsType == ASSUME NEW c PROVE RowsOf(c) \in Rows
BY ClientAssumption DEF RowsOf, Rows

LEMMA AnswersType == ASSUME NEW t PROVE Answers(t) \subseteq Outcomes
BY DEF Answers, NoAnswer, Outcomes

LEMMA ProcTypesStep ==
  ASSUME Shapes, NEW p \in Proc, Step(p)
  PROVE  ProcTypes(p)'
<1> USE DEF Vectors, ProcTypes, InPut, PutGoes, Go, serverVars, bounds, ghosts, storeVars, fileVars, Places
<1>0. /\ handle \in [Proc -> {"none", "tmp", "file", "unlinked"}] /\ ProcTypes(p) /\ Vectors
      /\ puts \in [Proc -> {"none", "alone", "mixed"}]
      /\ secret \in Tokens \union {Absent, Void}
  BY DEF Shapes, Shared, HandleTypeOK
<1>a. ASSUME Ends(p), handle'[p] = "none", puts'[p] = "none", p \notin saving' PROVE ProcTypes(p)'
  BY <1>a, <1>0, EndsAt, NoListsType DEF Outcomes
<1>1. ASSUME NEW c \in Commands, Run(p, c) PROVE ProcTypes(p)'
  BY <1>1, <1>0, ClientAssumption DEF Run, HasSession, Absent, Void, None
<1>2. ASSUME Enroll(p) PROVE ProcTypes(p)'
  BY <1>2, <1>0, <1>a DEF Enroll
<1>3. ASSUME Login(p) PROVE ProcTypes(p)'
  BY <1>3, <1>0, <1>a DEF Login
<1>4. ASSUME CacheOpen(p) PROVE ProcTypes(p)'
  BY <1>4, <1>0, <1>a DEF CacheOpen, PutOpen, PutBegins, KeepSecret
<1>5. ASSUME CacheWrite(p) PROVE ProcTypes(p)'
  BY <1>5, <1>0, <1>a DEF CacheWrite, PutWrite, PutLosesWrite
<1>6. ASSUME CacheRename(p) PROVE ProcTypes(p)'
  BY <1>6, <1>0, <1>a DEF CacheRename, PutRename, PutFindsFile, PutEnds, KeepSecret
<1>7. ASSUME Logout(p) PROVE ProcTypes(p)'
  <2>1. ans'[p] = "ok" => tok'[p] \in Tokens
    BY <1>7, <1>0 DEF Logout, LogoutAnswers, NoAnswer, Shapes, Shared
  <2> QED BY <1>7, <1>0, <2>1 DEF Logout, LogoutAnswers, NoAnswer, Outcomes
<1>8. ASSUME Leave(p) PROVE ProcTypes(p)'
  BY <1>8, <1>0, <1>a DEF Leave, RemoveSecret, KeepSecret
<1>9. ASSUME Whoami(p) PROVE ProcTypes(p)'
  BY <1>9, <1>0, AnswersType DEF Whoami
<1>10. ASSUME Who(p) PROVE ProcTypes(p)'
  BY <1>10, <1>0, <1>a DEF Who, RemoveSecret, KeepSecret
<1>11. ASSUME ReadFile(p) PROVE ProcTypes(p)'
  BY <1>11, <1>0, <1>a, RowsType DEF ReadFile, HasSession, Outcomes
<1>12. ASSUME Post(p) PROVE ProcTypes(p)'
  <2>1. CASE Len(todo[p]) = 1
    BY <1>12, <1>0, <1>a, <2>1 DEF Post, NextRow
  <2>2. CASE Len(todo[p]) # 1
    <3>1. Tail(todo[p]) \in Rows /\ Tail(todo[p]) # <<>>
      BY <1>12, <1>0, <2>2, TailOfRows DEF Post, Rows
    <3>2. PICK answered \in BOOLEAN : NextRow(p, answered)
      BY <1>12 DEF Post
    <3>3. /\ UNCHANGED <<pc, cmd, tok, lists, remote>> /\ todo'[p] = Tail(todo[p])
          /\ ans'[p] = ans[p] \/ ans'[p] = "transport"
      BY <1>0, <2>2, <3>2 DEF NextRow
    <3>4. UNCHANGED <<storeVars, fileVars>> /\ pc[p] = "post" /\ "transport" \in Outcomes
      BY <1>12 DEF Post, Outcomes
    <3> QED BY <1>0, <3>1, <3>3, <3>4
  <2> QED BY <2>1, <2>2
<1>13. ASSUME Construct(p) PROVE ProcTypes(p)'
  BY <1>13, <1>0, <1>a DEF Construct, HasSession
<1>14. ASSUME LoadFile(p) PROVE ProcTypes(p)'
  <2>1. \A r \in {"ok", "failed"} : r \in Outcomes
    BY DEF Outcomes
  <2>2. lists'[p] \in Lists
    BY <1>14, <1>0 DEF LoadFile, Lists, Parses, Parsed, Contents, Size
  <2> QED BY <1>14, <1>0, <2>1, <2>2, LoadedAt DEF LoadFile
<1>15. ASSUME BackUp(p) PROVE ProcTypes(p)'
  <2>1. "failed" \in Outcomes
    BY DEF Outcomes
  <2> QED BY <1>15, <1>0, <2>1, LoadedAt DEF BackUp, CreateBackup
<1>16. ASSUME LoadBegins(p) PROVE ProcTypes(p)'
  <2>1. <<Get("entities", None)>> \in Seq(Requests) /\ <<Get("entities", None)>> # <<>>
    BY DEF Requests
  <2> QED BY <1>16, <1>0, <2>1, NoListsType DEF LoadBegins
<1>17. ASSUME Fetch(p) PROVE ProcTypes(p)'
  <2>1. \A r \in {"ok", "failed"} : r \in Outcomes
    BY DEF Outcomes
  <2> DEFINE g == Head(todo[p])
             next == Tail(todo[p]) \o Brings(g).next
  <2>2. todo[p] \in Seq(Requests) /\ todo[p] # <<>> /\ accts \subseteq Accts
    BY <1>17, <1>0 DEF Fetch, Shapes, Shared
  <2>3. g \in Requests /\ Tail(todo[p]) \in Seq(Requests)
    BY <2>2, HeadTailProperties
  <2>4. /\ Brings(g).ents \subseteq Ents /\ Brings(g).accts \subseteq Accts
        /\ Brings(g).txs \subseteq Accts \X Nat /\ Brings(g).next \in Seq(Requests)
    BY <2>2, <2>3, BringsTypes DEF Existing
  <2>5. next \in Seq(Requests)
    BY <2>3, <2>4, ConcatProperties
  <2>6. lists'[p] \in Lists
    BY <1>17, <1>0, <2>4 DEF Fetch, Lists
  <2> HIDE DEF next
  <2>7. \/ todo'[p] = next /\ next # <<>> /\ UNCHANGED <<pc, ans>>
        \/ Loaded(p, "ok") \/ Loaded(p, "failed")
    BY <1>17, <1>0 DEF Fetch, next
  <2>8. UNCHANGED <<cmd, tok, remote, storeVars, fileVars>> /\ pc[p] = "fetch"
    BY <1>17 DEF Fetch
  <2> QED BY <1>0, <2>1, <2>5, <2>6, <2>7, <2>8, LoadedAt
<1>18. ASSUME Save(p) PROVE ProcTypes(p)'
  BY <1>18, <1>0, <1>a DEF Save, AfterSave, SaveOpen
<1>19. ASSUME Dump(p) PROVE ProcTypes(p)'
  BY <1>19, <1>0, <1>a DEF Dump, SaveWrite, AfterSave
<1>20. ASSUME Use(p) PROVE ProcTypes(p)'
  BY <1>20, <1>0, <1>a DEF Use
<1>21. ASSUME Crash(p) PROVE ProcTypes(p)'
  BY <1>21, <1>0, <1>a DEF Crash, StoreCrash, PutEnds, FileCrash
<1>22. ASSUME CacheChmod(p) PROVE ProcTypes(p)'
  BY <1>22, <1>0 DEF CacheChmod, KeepSecret
<1>23. ASSUME CacheUnput(p) PROVE ProcTypes(p)'
  BY <1>23, <1>0, <1>a DEF CacheUnput, PutRemoves, PutEnds
<1> HIDE DEF ProcTypes, Vectors
<1> QED BY <1>1, <1>2, <1>3, <1>4, <1>5, <1>6, <1>7, <1>8, <1>9, <1>10, <1>11, <1>12, <1>13,
           <1>14, <1>15, <1>16, <1>17, <1>18, <1>19, <1>20, <1>21, <1>22, <1>23 DEF Step

LEMMA SharedStep ==
  ASSUME Shapes, NEW p \in Proc, Step(p)
  PROVE  Shared'
<1> USE DEF Shared, HandleTypeOK, FileTypeOK, serverVars, bounds, ghosts, storeVars, fileVars
<1>0. Shared /\ Vectors /\ ProcTypes(p)
  BY DEF Shapes
<1>1. ASSUME NEW c \in Commands, Run(p, c) PROVE Shared'
  BY <1>1, <1>0, ClientAssumption DEF Run, HasSession
<1>2. ASSUME Enroll(p) PROVE Shared'
  BY <1>2, <1>0 DEF Enroll
<1>3. ASSUME Login(p) PROVE Shared'
  BY <1>3, <1>0 DEF Login
<1>4. ASSUME CacheOpen(p) PROVE Shared'
  BY <1>4, <1>0 DEF CacheOpen, PutOpen, PutBegins, KeepSecret, Void
<1>5. ASSUME CacheWrite(p) PROVE Shared'
  BY <1>5, <1>0 DEF CacheWrite, PutWrite, PutLosesWrite, Absent, ProcTypes, InPut
<1>6. ASSUME CacheRename(p) PROVE Shared'
  BY <1>6, <1>0 DEF CacheRename, PutRename, PutFindsFile, PutEnds, KeepSecret, Absent
<1>7. ASSUME Logout(p) PROVE Shared'
  BY <1>7, <1>0 DEF Logout
<1>8. ASSUME Leave(p) PROVE Shared'
  BY <1>8, <1>0 DEF Leave, RemoveSecret, KeepSecret, Absent, ProcTypes
<1>9. ASSUME Whoami(p) PROVE Shared'
  BY <1>9, <1>0 DEF Whoami
<1>10. ASSUME Who(p) PROVE Shared'
  BY <1>10, <1>0 DEF Who, RemoveSecret, KeepSecret, Absent
<1>11. ASSUME ReadFile(p) PROVE Shared'
  BY <1>11, <1>0 DEF ReadFile
<1>12. ASSUME Post(p) PROVE Shared'
  BY <1>12, <1>0 DEF Post, PostEntity, PostRefused
<1>13. ASSUME Construct(p) PROVE Shared'
  BY <1>13, <1>0 DEF Construct
<1>14. ASSUME LoadFile(p) PROVE Shared'
  BY <1>14, <1>0 DEF LoadFile
<1>15. ASSUME BackUp(p) PROVE Shared'
  BY <1>15, <1>0 DEF BackUp, CreateBackup
<1>16. ASSUME LoadBegins(p) PROVE Shared'
  BY <1>16, <1>0 DEF LoadBegins
<1>17. ASSUME Fetch(p) PROVE Shared'
  BY <1>17, <1>0 DEF Fetch
<1>18. ASSUME Save(p) PROVE Shared'
  BY <1>18, <1>0 DEF Save, SaveOpen, Contents, Size
<1>19. ASSUME Dump(p) PROVE Shared'
  BY <1>19, <1>0 DEF Dump, SaveWrite, Contents, Size, ProcTypes, Lists
<1>20. ASSUME Use(p) PROVE Shared'
  BY <1>20, <1>0, ClientAssumption DEF Use, Go
<1>21. ASSUME Crash(p) PROVE Shared'
  BY <1>21, <1>0 DEF Crash, StoreCrash, PutEnds, FileCrash, Contents, Size
<1>22. ASSUME CacheChmod(p) PROVE Shared'
  BY <1>22, <1>0 DEF CacheChmod, KeepSecret
<1>23. ASSUME CacheUnput(p) PROVE Shared'
  BY <1>23, <1>0 DEF CacheUnput, PutRemoves, PutEnds, Absent
<1> HIDE DEF Shared
<1> QED BY <1>1, <1>2, <1>3, <1>4, <1>5, <1>6, <1>7, <1>8, <1>9, <1>10, <1>11, <1>12, <1>13,
           <1>14, <1>15, <1>16, <1>17, <1>18, <1>19, <1>20, <1>21, <1>22, <1>23 DEF Step

LEMMA ShapesInit == Init => Shapes
<1> SUFFICES ASSUME Init PROVE Shapes
  OBVIOUS
<1>1. Vectors
  BY DEF Init, Vectors
<1>2. Shared
  <2>1. left \in 0 .. MaxCommands /\ changes \in 0 .. MaxChanges
    BY ClientAssumption DEF Init
  <2>2. HandleTypeOK /\ FileTypeOK /\ saving \subseteq Proc /\ first \in {"absent", "full"}
    BY DEF Init, StoreInit, FileInit, HandleTypeOK, FileTypeOK, Contents, Size
  <2>3. still \in [Proc -> BOOLEAN] /\ struck \in BOOLEAN /\ ents = [e \in Ents |-> ents[e]]
    BY DEF Init
  <2> QED BY <2>1, <2>2, <2>3 DEF Init, Shared
<1>3. ASSUME NEW p \in Proc PROVE ProcTypes(p)
  BY NoListsType DEF Init, ProcTypes, InPut, Places, Outcomes, StoreInit, FileInit
<1> QED BY <1>1, <1>2, <1>3 DEF Shapes

LEMMA ShapesStep ==
  ASSUME Shapes, [Next]_vars
  PROVE  Shapes'
<1>1. ASSUME NEW p \in Proc, Step(p) PROVE Shapes'
  <2>1. ASSUME NEW q \in Proc \ {p} PROVE ProcTypes(q)'
    BY <1>1, StepFrame DEF Shapes, ProcTypes, Frame, Same
  <2> QED BY <1>1, <2>1, StepFrame, SharedStep, ProcTypesStep DEF Shapes, Frame
<1>2. CASE World
  <2>1. Shared'
    <3>1. changes' \in 0 .. MaxChanges /\ left' \in 0 .. MaxCommands
      BY <1>2, ClientAssumption DEF World, Shapes, Shared
    <3>2. HandleTypeOK' /\ FileTypeOK' /\ saving' \subseteq Proc
      BY <1>2 DEF World, Shapes, Shared, HandleTypeOK, FileTypeOK, storeVars, fileVars
    <3>3. CASE Expire
      BY <1>2, <3>1, <3>2, <3>3 DEF World, Expire, Shapes, Shared
    <3>4. CASE OthersChange
      BY <1>2, <3>1, <3>2, <3>4 DEF World, OthersChange, Shapes, Shared
    <3> QED BY <1>2, <3>3, <3>4 DEF World
  <2>2. Vectors' /\ \A p \in Proc : ProcTypes(p)'
    BY <1>2 DEF World, Shapes, Vectors, ProcTypes, clientVars, storeVars, fileVars
  <2> QED BY <2>1, <2>2 DEF Shapes
<1>3. CASE UNCHANGED vars
  <2>1. Shared'
    BY <1>3 DEF vars, bounds, serverVars, ghosts, Shapes, Shared, HandleTypeOK, FileTypeOK,
       storeVars, fileVars
  <2>2. Vectors' /\ \A p \in Proc : ProcTypes(p)'
    BY <1>3 DEF vars, Shapes, Vectors, ProcTypes, clientVars, storeVars, fileVars
  <2> QED BY <2>1, <2>2 DEF Shapes
<1> QED BY <1>1, <1>2, <1>3 DEF Next

LEMMA ShapesTypes == Shapes => TypeOK
<1> SUFFICES ASSUME Shapes PROVE TypeOK
  OBVIOUS
<1>1. ASSUME NEW p \in Proc
      PROVE  /\ pc[p] = "write" <=> handle[p] # "none"
             /\ pc[p] = "dump" <=> p \in saving
             /\ pc[p] \in InPut <=> puts[p] # "none"
             /\ pc[p] \in {"post", "fetch"} <=> todo[p] # <<>>
  <2>1. ProcTypes(p)
    BY DEF Shapes
  <2> QED BY <2>1 DEF ProcTypes
<1>2. /\ pc \in [Proc -> Places] /\ cmd \in [Proc -> Commands \union {None, "open", "quit"}]
      /\ tok \in [Proc -> Tokens \union {None, Void}] /\ remote \in [Proc -> Tokens \union {None, Void}]
  BY DEF Shapes, Vectors, ProcTypes
<1> QED BY <1>1, <1>2 DEF Shapes, Shared, TypeOK, Places, InPut

\* TypeOK: each variable holds what the code can put in it, and a process has a
\* file open for a put or a save exactly between the two steps of one.
THEOREM TypeCorrect == Spec => []TypeOK
<1>1. Init => Shapes
  BY ShapesInit
<1>2. Shapes /\ [Next]_vars => Shapes'
  BY ShapesStep
<1>3. Shapes => TypeOK
  BY ShapesTypes
<1> QED BY <1>1, <1>2, <1>3, PTL DEF Spec

-----------------------------------------------------------------------------
(* The store                                                                *)

LEMMA StoreInvStep ==
  ASSUME Shapes, StoreInv, NEW p \in Proc, Step(p)
  PROVE  StoreInv'
<1> USE DEF StoreInv, LoggedOutStaysOut, Carries, Holds, InPut, PutGoes, Go, serverVars, bounds, ghosts,
          storeVars, fileVars, Absent, Void, None
<1>0. /\ Vectors /\ Frame(p) /\ ProcTypes(p) /\ Tokens \intersect {None, Absent, Void} = {}
      /\ live \subseteq Tokens /\ out \subseteq Tokens
  BY StepFrame, ClientAssumption DEF Shapes, Shared
<1> USE DEF Vectors, Frame, Same
<1>a. Ends(p) => pc'[p] = "idle" /\ tok'[p] = None
  BY <1>0, EndsAt
<1>1. ASSUME NEW c \in Commands, Run(p, c) PROVE StoreInv'
  BY <1>1, <1>0 DEF Run
<1>2. ASSUME Enroll(p) PROVE StoreInv'
  BY <1>2, <1>0, <1>a DEF Enroll
<1>3. ASSUME Login(p) PROVE StoreInv'
  BY <1>3, <1>0, <1>a DEF Login
<1>4. ASSUME CacheOpen(p) PROVE StoreInv'
  BY <1>4, <1>0, <1>a DEF CacheOpen, PutOpen, PutBegins, KeepSecret
<1>5. ASSUME CacheWrite(p) PROVE StoreInv'
  BY <1>5, <1>0, <1>a DEF CacheWrite, PutWrite, PutLosesWrite
<1>6. ASSUME CacheRename(p) PROVE StoreInv'
  BY <1>6, <1>0, <1>a DEF CacheRename, PutRename, PutFindsFile, PutEnds, KeepSecret
<1>7. ASSUME Logout(p) PROVE StoreInv'
  BY <1>7, <1>0, <1>a DEF Logout
<1>8. ASSUME Leave(p) PROVE StoreInv'
  <2>1. pc[p] = "leave" /\ (ans[p] = "ok" => tok[p] \in Tokens /\ tok[p] # tmp)
    BY <1>8, <1>0 DEF Leave, ProcTypes
  <2> QED BY <1>8, <1>0, <1>a, <2>1 DEF Leave, RemoveSecret, KeepSecret
<1>9. ASSUME Whoami(p) PROVE StoreInv'
  BY <1>9, <1>0, <1>a DEF Whoami
<1>10. ASSUME Who(p) PROVE StoreInv'
  BY <1>10, <1>0, <1>a DEF Who, RemoveSecret, KeepSecret
<1>11. ASSUME ReadFile(p) PROVE StoreInv'
  BY <1>11, <1>0, <1>a DEF ReadFile
<1>12. ASSUME Post(p) PROVE StoreInv'
  BY <1>12, <1>0, <1>a DEF Post, NextRow
<1>13. ASSUME Construct(p) PROVE StoreInv'
  BY <1>13, <1>0, <1>a DEF Construct
<1>14. ASSUME LoadFile(p) PROVE StoreInv'
  BY <1>14, <1>0, <1>a DEF LoadFile, Loaded
<1>15. ASSUME BackUp(p) PROVE StoreInv'
  BY <1>15, <1>0, <1>a DEF BackUp, Loaded
<1>16. ASSUME LoadBegins(p) PROVE StoreInv'
  BY <1>16, <1>0, <1>a DEF LoadBegins
<1>17. ASSUME Fetch(p) PROVE StoreInv'
  <2>1. /\ UNCHANGED <<tok, live, out, storeVars>> /\ pc[p] = "fetch"
        /\ pc' = pc \/ Loaded(p, "ok") \/ Loaded(p, "failed")
    BY <1>17 DEF Fetch
  <2>2. pc'[p] \in {"fetch", "save", "running"}
    BY <1>0, <2>1 DEF Loaded
  <2> QED BY <1>0, <2>1, <2>2
<1>18. ASSUME Save(p) PROVE StoreInv'
  BY <1>18, <1>0, <1>a DEF Save, AfterSave
<1>19. ASSUME Dump(p) PROVE StoreInv'
  BY <1>19, <1>0, <1>a DEF Dump, AfterSave
<1>20. ASSUME Use(p) PROVE StoreInv'
  BY <1>20, <1>0, <1>a DEF Use
<1>21. ASSUME Crash(p) PROVE StoreInv'
  BY <1>21, <1>0, <1>a DEF Crash, StoreCrash, PutEnds
<1>22. ASSUME CacheChmod(p) PROVE StoreInv'
  BY <1>22, <1>0 DEF CacheChmod, KeepSecret
<1>23. ASSUME CacheUnput(p) PROVE StoreInv'
  BY <1>23, <1>0, <1>a DEF CacheUnput, PutRemoves, PutEnds
<1> HIDE DEF StoreInv
<1> QED BY <1>1, <1>2, <1>3, <1>4, <1>5, <1>6, <1>7, <1>8, <1>9, <1>10, <1>11, <1>12, <1>13,
           <1>14, <1>15, <1>16, <1>17, <1>18, <1>19, <1>20, <1>21, <1>22, <1>23 DEF Step

LEMMA StoreInvNext ==
  ASSUME Shapes, StoreInv, [Next]_vars
  PROVE  StoreInv'
<1>1. CASE World
  BY <1>1 DEF World, Expire, OthersChange, StoreInv, LoggedOutStaysOut, Carries, Holds,
     clientVars, storeVars
<1>2. CASE UNCHANGED vars
  BY <1>2 DEF vars, StoreInv, LoggedOutStaysOut, Carries, Holds, clientVars, storeVars,
     serverVars, ghosts
<1> QED BY <1>1, <1>2, StoreInvStep DEF Next

LEMMA StoreInvInit == Init => StoreInv
BY ClientAssumption DEF Init, StoreInv, LoggedOutStaysOut, Carries, Holds, StoreInit, Absent, None

\* LoggedOutStaysOut: once --logout has said that a session is revoked, its token has
\* left the store, and no put of any process, however late, brings it back.
THEOREM RevokedStaysOut == Spec => []LoggedOutStaysOut
<1>1. Init => Shapes /\ StoreInv
  BY ShapesInit, StoreInvInit
<1>2. Shapes /\ StoreInv /\ [Next]_vars => (Shapes /\ StoreInv)'
  BY ShapesStep, StoreInvNext
<1>3. StoreInv => LoggedOutStaysOut
  BY DEF StoreInv
<1> QED BY <1>1, <1>2, <1>3, PTL DEF Spec

-----------------------------------------------------------------------------
(* The store implements TokenCell                                           *)

\* What a step does to the store: nothing, unless it clears it, is one of a put's, or
\* is the end of its process.
Between(p) ==
  /\ pc[p] \in {"chmod", "rename"} /\ pc'[p] \in {"rename", "unput"}
  /\ pc'[p] = "rename" => pc[p] = "chmod"
  /\ UNCHANGED <<tok, storeVars>>
LEMMA StoreSteps ==
  ASSUME Shapes, NEW p \in Proc, Step(p)
  PROVE  \/ puts[p] = "none" /\ (UNCHANGED storeVars \/ RemoveSecret)
         \/ CacheOpen(p) /\ PutOpen(p) /\ PutGoes(p, "write")
         \/ CacheWrite(p) \/ Between(p)
         \/ CacheRename(p) /\ PutRename(p)
         \/ CacheUnput(p) \/ Crash(p)
<1>0. /\ pc[p] \notin InPut => puts[p] = "none"
      /\ \A place : Go(p, place) => pc'[p] = place
  BY DEF Shapes, ProcTypes, Vectors, Go
<1>1. ASSUME NEW c \in Commands, Run(p, c)
      PROVE  UNCHANGED storeVars /\ pc[p] \notin InPut
  BY <1>1 DEF Run, InPut
<1>2. CASE Enroll(p) \/ Login(p) \/ Logout(p) \/ Whoami(p) \/ ReadFile(p) \/ Post(p)
  BY <1>0, <1>2 DEF Enroll, Login, Logout, Whoami, ReadFile, Post, InPut
<1>3. CASE Leave(p) \/ Who(p)
  BY <1>0, <1>3 DEF Leave, Who, KeepSecret, InPut
<1>4. CASE Construct(p) \/ LoadFile(p) \/ BackUp(p) \/ LoadBegins(p) \/ Fetch(p)
  BY <1>0, <1>4 DEF Construct, LoadFile, BackUp, LoadBegins, Fetch, InPut
<1>5. CASE Save(p) \/ Dump(p) \/ Use(p)
  BY <1>0, <1>5 DEF Save, Dump, Use, InPut
<1>6. CASE CacheOpen(p)
  BY <1>0, <1>6 DEF CacheOpen, KeepSecret, InPut
<1>7. CASE CacheChmod(p)
  BY <1>0, <1>7 DEF CacheChmod, KeepSecret, PutGoes, Between
<1>8. CASE CacheRename(p)
  BY <1>0, <1>8 DEF CacheRename, KeepSecret, PutGoes, Between
<1> QED BY <1>0, <1>1, <1>2, <1>3, <1>4, <1>5, <1>6, <1>7, <1>8 DEF Step

LEMMA PutInvStep ==
  ASSUME Shapes, PutInv, NEW p \in Proc, Step(p)
  PROVE  PutInv'
<1>0. /\ handle \in [Proc -> {"none", "tmp", "file", "unlinked"}]
      /\ puts \in [Proc -> {"none", "alone", "mixed"}]
      /\ \A q \in Proc \ {p} : pc'[q] = pc[q] /\ tok'[q] = tok[q]
  BY StepFrame DEF Shapes, Shared, HandleTypeOK, Frame, Same
<1>a. pc[p] \in InPut <=> puts[p] # "none"
  BY DEF Shapes, ProcTypes
<1>b. ASSUME puts'[p] = "none", UNCHANGED tmp, \A q \in Proc \ {p} : puts'[q] = puts[q],
             \A q \in Proc \ {p} : handle[q] = "tmp" => handle'[q] = "tmp"
      PROVE  PutInv'
  BY <1>0, <1>b DEF PutInv, Undisturbed
<1>c. ASSUME puts[p] # "none", puts'[p] = "none", \A q \in Proc \ {p} : puts'[q] = puts[q]
      PROVE  PutInv'
  BY <1>c DEF PutInv, Undisturbed
<1>1. CASE puts[p] = "none" /\ (UNCHANGED storeVars \/ RemoveSecret)
  BY <1>0, <1>1, <1>b DEF storeVars, RemoveSecret
<1>2. CASE CacheOpen(p) /\ PutOpen(p) /\ PutGoes(p, "write")
  <2>1. /\ \A q \in Proc \ {p} : puts'[q] \in {"none", "mixed"}
        /\ puts'[p] = "alone" => \A q \in Proc \ {p} : puts'[q] = "none"
    BY <1>0, <1>2 DEF PutOpen, PutBegins
  <2>2. handle'[p] = "tmp"
    BY <1>0, <1>2 DEF PutOpen
  <2>3. pc'[p] = "write"
    BY <1>2 DEF PutGoes, Go, Shapes, Vectors
  <2> QED BY <2>1, <2>2, <2>3 DEF PutInv, Undisturbed
<1>3. CASE CacheWrite(p)
  <2>1. puts[p] # "none" /\ pc[p] = "write"
    BY <1>3, <1>a DEF CacheWrite, InPut
  <2>2. \A q \in Proc \ {p} : puts[q] # "alone"
    BY <2>1 DEF PutInv, Undisturbed
  <2>3. CASE PutLosesWrite(p) /\ PutGoes(p, "unput")
    <3>1. puts' = puts /\ pc'[p] = "unput"
      BY <2>3 DEF PutLosesWrite, PutGoes, Go, Shapes, Vectors
    <3> QED BY <2>2, <3>1 DEF PutInv, Undisturbed
  <2>4. CASE PutWrite(p, tok[p]) /\ PutGoes(p, "chmod")
    <3>1. puts' = puts /\ pc'[p] = "chmod" /\ tok' = tok
      BY <2>4 DEF PutWrite, PutGoes, Go, Shapes, Vectors
    <3>2. handle[p] = "tmp" => tmp' = tok'[p]
      BY <2>4, <3>1 DEF PutWrite
    <3> QED BY <2>1, <2>2, <3>1, <3>2 DEF PutInv, Undisturbed
  <2> QED BY <1>3, <2>3, <2>4 DEF CacheWrite
<1>4. CASE CacheRename(p) /\ PutRename(p)
  BY <1>0, <1>4, <1>a, <1>c DEF CacheRename, PutRename, PutEnds, InPut
<1>6. CASE CacheUnput(p)
  BY <1>0, <1>6, <1>a, <1>c DEF CacheUnput, PutRemoves, PutEnds, InPut
<1>7. CASE Between(p)
  BY <1>0, <1>7 DEF Between, PutInv, Undisturbed, storeVars
<1>5. CASE Crash(p)
  <2>1. /\ puts'[p] = "none" /\ UNCHANGED tmp
        /\ \A q \in Proc \ {p} : puts'[q] = puts[q] /\ handle'[q] = handle[q]
    BY <1>0, <1>5 DEF Crash, StoreCrash, PutEnds
  <2> QED BY <1>b, <2>1
<1> QED BY <1>1, <1>2, <1>3, <1>4, <1>5, <1>6, <1>7, StoreSteps

LEMMA PutInvNext ==
  ASSUME Shapes, PutInv, [Next]_vars
  PROVE  PutInv'
<1>1. CASE World \/ UNCHANGED vars
  BY <1>1 DEF World, vars, clientVars, storeVars, PutInv, Undisturbed
<1> QED BY <1>1, PutInvStep DEF Next

CellPut == [q \in Proc |-> IF puts[q] = "none" THEN None ELSE tok[q]]
CellAlone == {q \in Proc : puts[q] = "alone"}

\* Who is in a put of the cell is in one of the store, and has a token.
LEMMA CellIsInPut ==
  ASSUME Shapes, NEW q \in Proc
  PROVE  /\ CellPut[q] = None <=> puts[q] = "none"
         /\ puts[q] # "none" => CellPut[q] = tok[q] /\ tok[q] \in Tokens
<1>1. puts[q] # "none" => tok[q] \in Tokens
  BY DEF Shapes, ProcTypes
<1>2. None \notin Tokens
  BY ClientAssumption DEF None
<1> QED BY <1>1, <1>2 DEF CellPut

LEMMA CellStep ==
  ASSUME Shapes, Shapes', PutInv, NEW p \in Proc, Step(p)
  PROVE  [Cell!Next]_(Cell!cellVars)
<1>0. /\ handle \in [Proc -> {"none", "tmp", "file", "unlinked"}]
      /\ puts \in [Proc -> {"none", "alone", "mixed"}]
      /\ puts' \in [Proc -> {"none", "alone", "mixed"}]
      /\ secret \in Tokens \union {Absent, Void} /\ tmp \in Tokens \union {Absent, Void}
      /\ \A q \in Proc \ {p} : tok'[q] = tok[q]
  BY StepFrame DEF Shapes, Shared, HandleTypeOK, Frame, Same
<1>a. pc[p] \in InPut <=> puts[p] # "none"
  BY DEF Shapes, ProcTypes
<1>b. ASSUME puts[p] = "none", puts' = puts
      PROVE  CellPut' = CellPut /\ CellAlone' = CellAlone
  BY <1>0, <1>b DEF CellPut, CellAlone
<1>c. ASSUME puts' = [puts EXCEPT ![p] = "none"]
      PROVE  CellPut' = [CellPut EXCEPT ![p] = None] /\ CellAlone' = CellAlone \ {p}
  BY <1>0, <1>c DEF CellPut, CellAlone
<1>d. ASSUME CellPut' = CellPut, CellAlone' = CellAlone, secret' = secret
      PROVE  UNCHANGED Cell!cellVars
  BY <1>d DEF Cell!cellVars, CellPut, CellAlone
<1>e. ASSUME puts[p] # "none", puts' = [puts EXCEPT ![p] = "none"]
      PROVE  Cell!End(p)
  BY <1>c, <1>e, CellIsInPut DEF Cell!End, CellPut, CellAlone
<1>1. CASE puts[p] = "none" /\ UNCHANGED storeVars
  BY <1>1, <1>b, <1>d DEF storeVars
<1>2. CASE puts[p] = "none" /\ RemoveSecret
  <2>1. Cell!Remove
    BY <1>2, <1>b DEF RemoveSecret, Cell!Remove, CellPut, CellAlone
  <2> QED BY <2>1 DEF Cell!Next
<1>3. CASE CacheOpen(p) /\ PutOpen(p) /\ PutGoes(p, "write")
  <2>1. /\ puts[p] = "none" /\ tok[p] \in Tokens /\ tok' = tok /\ secret' = secret
        /\ PutBegins(p)
    BY <1>3, <1>a DEF CacheOpen, PutOpen, PutGoes, Shapes, ProcTypes, InPut
  <2>2. CellPut' = [CellPut EXCEPT ![p] = tok[p]]
    BY <1>0, <2>1 DEF PutBegins, CellPut
  <2>3. CellAlone' = IF \A v \in Proc : CellPut[v] = None THEN {p} ELSE {}
    <3>1. (\A v \in Proc : CellPut[v] = None) <=> {q \in Proc : puts[q] # "none"} = {}
      BY CellIsInPut
    <3>2. CASE {q \in Proc : puts[q] # "none"} = {}
      BY <2>1, <3>1, <3>2 DEF PutBegins, CellAlone
    <3>3. CASE {q \in Proc : puts[q] # "none"} # {}
      BY <2>1, <3>1, <3>3 DEF PutBegins, CellAlone
    <3> QED BY <3>2, <3>3
  <2>4. PICK t \in Tokens : t = tok[p]
    BY <2>1
  <2>5. Cell!Begin(p, t)
    <3>1. CellPut[p] = None
      BY <2>1, CellIsInPut
    <3> QED BY <2>1, <2>2, <2>3, <2>4, <3>1 DEF Cell!Begin, CellPut, CellAlone
  <2> QED BY <2>5 DEF Cell!Next
<1>4. CASE CacheWrite(p)
  <2>1. puts[p] # "none" /\ pc[p] = "write"
    BY <1>4, <1>a DEF CacheWrite, InPut
  <2>2. CASE PutLosesWrite(p) /\ tok' = tok
    BY <2>2, <1>d DEF PutLosesWrite, CellPut, CellAlone
  <2>3. CASE PutWrite(p, tok[p]) /\ tok' = tok
    <3>1. CellPut' = CellPut /\ CellAlone' = CellAlone
      BY <2>3 DEF PutWrite, CellPut, CellAlone
    <3>2. CASE puts[p] = "alone"
      <4>1. handle[p] = "tmp"
        BY <2>1, <3>2 DEF PutInv, Undisturbed
      <4> QED BY <1>d, <2>3, <3>1, <4>1 DEF PutWrite
    <3>3. CASE puts[p] = "mixed"
      <4>1. secret' \in Tokens \union {Void, secret}
        BY <2>1, <2>3, CellIsInPut DEF PutWrite
      <4>2. Cell!Clash(p)
        BY <2>1, <3>1, <3>3, <4>1, CellIsInPut DEF Cell!Clash, CellPut, CellAlone
      <4> QED BY <4>2 DEF Cell!Next
    <3> QED BY <1>0, <2>1, <3>2, <3>3
  <2> QED BY <1>4, <2>2, <2>3 DEF CacheWrite, PutGoes
<1>5. CASE CacheRename(p) /\ PutRename(p)
  <2>1. puts[p] # "none" /\ pc[p] = "rename" /\ PutRename(p)
    BY <1>5, <1>a DEF CacheRename, InPut
  <2>2. Cell!End(p)
    BY <1>e, <2>1 DEF PutRename, PutEnds
  <2>3. secret' = tmp
    BY <2>1 DEF PutRename
  <2>4. CASE puts[p] = "alone"
    <3>1. tmp = tok[p] /\ tok[p] = CellPut[p] /\ tok[p] # Absent
      BY <2>1, <2>4, CellIsInPut, ClientAssumption DEF PutInv, Undisturbed
    <3>2. Cell!Succeed(p)
      BY <2>2, <2>3, <2>4, <3>1 DEF Cell!Succeed, CellPut
    <3> QED BY <3>2 DEF Cell!Next
  <2>5. CASE puts[p] = "mixed"
    <3>1. Cell!Clash(p)
      BY <1>0, <2>1, <2>2, <2>3, <2>5, CellIsInPut DEF Cell!Clash, CellPut, PutRename, PutFindsFile
    <3> QED BY <3>1 DEF Cell!Next
  <2> QED BY <1>0, <2>1, <2>4, <2>5
<1>6. CASE Crash(p)
  <2>1. puts' = [puts EXCEPT ![p] = "none"] /\ secret' = secret
    BY <1>6 DEF Crash, StoreCrash, PutEnds
  <2>2. CASE puts[p] = "none"
    BY <1>0, <1>b, <1>d, <2>1, <2>2
  <2>3. CASE puts[p] # "none"
    <3>1. Cell!Fail(p)
      BY <1>e, <2>1, <2>3 DEF Cell!Fail
    <3> QED BY <3>1 DEF Cell!Next
  <2> QED BY <2>2, <2>3
<1>7. CASE CacheUnput(p)
  <2>1. puts[p] # "none" /\ puts' = [puts EXCEPT ![p] = "none"] /\ secret' = secret
    BY <1>7, <1>a DEF CacheUnput, PutRemoves, PutEnds, InPut
  <2>2. Cell!Fail(p)
    BY <1>e, <2>1 DEF Cell!Fail
  <2> QED BY <2>2 DEF Cell!Next
<1>8. CASE Between(p)
  BY <1>8, <1>d DEF Between, storeVars, CellPut, CellAlone
<1> QED BY <1>1, <1>2, <1>3, <1>4, <1>5, <1>6, <1>7, <1>8, StoreSteps

LEMMA CellNext ==
  Shapes /\ Shapes' /\ PutInv /\ [Next]_vars => [Cell!Next]_(Cell!cellVars)
<1> SUFFICES ASSUME Shapes, Shapes', PutInv, [Next]_vars
             PROVE  [Cell!Next]_(Cell!cellVars)
  OBVIOUS
<1>1. CASE World \/ UNCHANGED vars
  BY <1>1 DEF World, vars, clientVars, storeVars, Cell!cellVars
<1> QED BY <1>1, CellStep DEF Next

\* PutIsAtomic: the secret store implements TokenCell.  A put that meets no other is
\* one instant, whole or not at all, wherever it fails or its process ends.
THEOREM PutsAreAtomic == Spec => PutIsAtomic
<1>1. Init => Shapes /\ PutInv
  BY ShapesInit DEF Init, StoreInit, PutInv, Undisturbed
<1>2. Shapes /\ PutInv /\ [Next]_vars => (Shapes /\ PutInv)'
  BY ShapesStep, PutInvNext
<1>3. Init => Cell!Init
  BY DEF Init, StoreInit, Cell!Init
<1>4. Shapes /\ Shapes' /\ PutInv /\ [Next]_vars => [Cell!Next]_(Cell!cellVars)
  BY CellNext
<1> QED BY <1>1, <1>2, <1>3, <1>4, PTL DEF Spec, PutIsAtomic, Cell!Spec

-----------------------------------------------------------------------------
(* The storage file                                                         *)

LEMMA GhostStep ==
  ASSUME NEW p \in Proc, Step(p)
  PROVE  first' = first /\ (struck => struck')
<1> DEFINE G == first' = first /\ (struck => struck')
<1>1. ASSUME NEW c \in Commands, Run(p, c) PROVE G
  BY <1>1 DEF Run, ghosts
<1>2. ASSUME Enroll(p) PROVE G
  BY <1>2 DEF Enroll, ghosts
<1>3. ASSUME Login(p) PROVE G
  BY <1>3 DEF Login, ghosts
<1>4. ASSUME CacheOpen(p) PROVE G
  BY <1>4 DEF CacheOpen, ghosts
<1>5. ASSUME CacheWrite(p) PROVE G
  BY <1>5 DEF CacheWrite, ghosts
<1>6. ASSUME CacheRename(p) PROVE G
  BY <1>6 DEF CacheRename, ghosts
<1>7. ASSUME Logout(p) PROVE G
  BY <1>7 DEF Logout, ghosts
<1>8. ASSUME Leave(p) PROVE G
  BY <1>8 DEF Leave, ghosts
<1>9. ASSUME Whoami(p) PROVE G
  BY <1>9 DEF Whoami, ghosts
<1>10. ASSUME Who(p) PROVE G
  BY <1>10 DEF Who, ghosts
<1>11. ASSUME ReadFile(p) PROVE G
  BY <1>11 DEF ReadFile, ghosts
<1>12. ASSUME Post(p) PROVE G
  BY <1>12 DEF Post, ghosts
<1>13. ASSUME Construct(p) PROVE G
  BY <1>13 DEF Construct, ghosts
<1>14. ASSUME LoadFile(p) PROVE G
  BY <1>14 DEF LoadFile, ghosts
<1>15. ASSUME BackUp(p) PROVE G
  BY <1>15 DEF BackUp, ghosts
<1>16. ASSUME LoadBegins(p) PROVE G
  BY <1>16 DEF LoadBegins, ghosts
<1>17. ASSUME Fetch(p) PROVE G
  BY <1>17 DEF Fetch, ghosts
<1>18. ASSUME Save(p) PROVE G
  BY <1>18 DEF Save, ghosts
<1>19. ASSUME Dump(p) PROVE G
  BY <1>19 DEF Dump, ghosts
<1>20. ASSUME Use(p) PROVE G
  BY <1>20 DEF Use, ghosts
<1>21. ASSUME Crash(p) PROVE G
  BY <1>21 DEF Crash, ghosts
<1>22. ASSUME CacheChmod(p) PROVE G
  BY <1>22 DEF CacheChmod, ghosts
<1>23. ASSUME CacheUnput(p) PROVE G
  BY <1>23 DEF CacheUnput, ghosts
<1> HIDE DEF G
<1>24. G
  BY <1>1, <1>2, <1>3, <1>4, <1>5, <1>6, <1>7, <1>8, <1>9, <1>10, <1>11, <1>12, <1>13, <1>14,
     <1>15, <1>16, <1>17, <1>18, <1>19, <1>20, <1>21, <1>22, <1>23 DEF Step
<1> QED BY <1>24 DEF G

\* Only the two steps of a save and a crash between them change the file.
LEMMA FileKeptStep ==
  ASSUME Shapes, FileInv, NEW p \in Proc, Step(p)
  PROVE  FileKept'
<1>0. /\ FileKept /\ first' = first /\ (struck => struck') /\ AppInv(p) /\ ProcTypes(p)
      /\ saving \subseteq Proc /\ Vectors
  BY GhostStep DEF FileInv, Shapes, Shared
<1>1. CASE UNCHANGED <<file, saving>>
  BY <1>0, <1>1 DEF FileKept, Kept
<1>2. CASE Save(p)
  BY <1>0, <1>1, <1>2 DEF Save, SaveOpen, FileKept, fileVars
<1>3. CASE Dump(p)
  <2>1. SUFFICES ASSUME ~struck' PROVE saving' = {} /\ file' \in Kept'
    BY DEF FileKept
  <2>2. file' # "torn" /\ ~struck
    BY <1>0, <1>3, <2>1 DEF Dump
  <2>3. file = "void" /\ saving = {p} /\ remote[p] = None
    BY <1>0, <1>3, <2>2 DEF FileKept, ProcTypes, AppInv, RemotePlaces, Dump
  <2>4. lists[p].ents = {} /\ lists[p].local \in Kept /\ lists[p].local \in Contents
    BY <1>0, <1>3, <2>2, <2>3 DEF AppInv, FromFile, Kept, Dump, ProcTypes, Lists
  <2>5. Size["void"] <= Size[lists[p].local]
    BY <2>4 DEF Size, Contents
  <2>6. file' = lists[p].local /\ saving' = {}
    BY <1>3, <2>2, <2>3, <2>4, <2>5 DEF Dump, SaveWrite
  <2> QED BY <1>0, <2>4, <2>6 DEF Kept
<1>4. CASE Crash(p)
  BY <1>0, <1>1, <1>4 DEF Crash, FileCrash, FileKept
<1>5. \/ UNCHANGED <<file, saving>> \/ Save(p) \/ Dump(p) \/ Crash(p)
  BY DEF Step, fileVars, Run, CreateBackup, Enroll, Login, CacheOpen, CacheWrite, CacheChmod, CacheRename,
     CacheUnput, Logout, Leave, Whoami, Who, ReadFile, Post, Construct, LoadFile, BackUp, LoadBegins,
     Fetch, Use
<1> QED BY <1>1, <1>2, <1>3, <1>4, <1>5

LEMMA AppInvStep ==
  ASSUME Shapes, FileInv, NEW p \in Proc, Step(p)
  PROVE  AppInv(p)'
<1> USE DEF AppInv, RemotePlaces, PutGoes, Go, serverVars, bounds, ghosts, storeVars, fileVars
<1>0. /\ Vectors /\ ProcTypes(p) /\ AppInv(p) /\ FileKept /\ first' = first /\ (struck => struck')
  BY GhostStep DEF Shapes, FileInv
<1> USE DEF Vectors
<1>a. ASSUME Ends(p) PROVE AppInv(p)'
  BY <1>0, <1>a, EndsAt DEF FromFile, NoLists, None
<1>b. ASSUME lists'[p] = lists[p], remote'[p] = remote[p],
             pc'[p] = pc[p] \/ pc'[p] \notin {"backup", "save", "dump", "running", "fetch"},
             remote[p] = None \/ pc'[p] \in RemotePlaces
      PROVE  AppInv(p)'
  BY <1>0, <1>b DEF FromFile
<1>1. ASSUME NEW c \in Commands, Run(p, c) PROVE AppInv(p)'
  BY <1>1, <1>0, <1>b DEF Run
<1>2. ASSUME Enroll(p) PROVE AppInv(p)'
  BY <1>2, <1>0, <1>a, <1>b DEF Enroll
<1>3. ASSUME Login(p) PROVE AppInv(p)'
  BY <1>3, <1>0, <1>a, <1>b DEF Login
<1>4. ASSUME CacheOpen(p) PROVE AppInv(p)'
  BY <1>4, <1>0, <1>a, <1>b DEF CacheOpen
<1>5. ASSUME CacheWrite(p) PROVE AppInv(p)'
  BY <1>5, <1>0, <1>a, <1>b DEF CacheWrite
<1>6. ASSUME CacheRename(p) PROVE AppInv(p)'
  BY <1>6, <1>0, <1>a, <1>b DEF CacheRename
<1>7. ASSUME Logout(p) PROVE AppInv(p)'
  BY <1>7, <1>0, <1>a, <1>b DEF Logout
<1>8. ASSUME Leave(p) PROVE AppInv(p)'
  BY <1>8, <1>0, <1>a, <1>b DEF Leave
<1>9. ASSUME Whoami(p) PROVE AppInv(p)'
  BY <1>9, <1>0, <1>a, <1>b DEF Whoami
<1>10. ASSUME Who(p) PROVE AppInv(p)'
  BY <1>10, <1>0, <1>a, <1>b DEF Who
<1>11. ASSUME ReadFile(p) PROVE AppInv(p)'
  BY <1>11, <1>0, <1>a, <1>b DEF ReadFile
<1>12. ASSUME Post(p) PROVE AppInv(p)'
  BY <1>12, <1>0, <1>a, <1>b DEF Post, NextRow
<1>13. ASSUME Construct(p) PROVE AppInv(p)'
  BY <1>13, <1>0 DEF Construct, FromFile
<1>14. ASSUME LoadFile(p) PROVE AppInv(p)'
  <2>1. /\ UNCHANGED <<remote, fileVars, first>> /\ pc[p] = "load" /\ remote[p] = None
        /\ struck' = (struck \/ saving # {})
    BY <1>14 DEF LoadFile
  <2>2. ~struck' => file \in Kept /\ FromFile(p)
    BY <1>0, <2>1 DEF FileKept
  <2>3. CASE Parses(file)
    <3>1. pc'[p] \in {"save", "running"} /\ lists'[p] = [lists[p] EXCEPT !.local = Parsed(file)]
      BY <1>14, <1>0, <2>3 DEF LoadFile, Loaded
    <3>2. lists'[p].ents = lists[p].ents /\ lists'[p].local = Parsed(file)
      BY <1>0, <3>1 DEF ProcTypes, Lists
    <3> QED BY <1>0, <2>1, <2>2, <2>3, <3>1, <3>2 DEF FromFile, Kept, Parses, Parsed
  <2>4. CASE ~Parses(file)
    <3>1. /\ lists'[p] = lists[p] /\ pc'[p] \in {"save", "running", "backup"}
          /\ file = "absent" => pc'[p] # "backup"
      BY <1>14, <1>0, <2>4 DEF LoadFile, Loaded, Parses
    <3> QED BY <1>0, <2>1, <2>2, <2>4, <3>1 DEF FromFile, Kept, Parses
  <2> QED BY <2>3, <2>4
<1>15. ASSUME BackUp(p) PROVE AppInv(p)'
  <2>1. struck' /\ UNCHANGED remote /\ remote[p] = None
    BY <1>15, <1>0 DEF BackUp
  <2>2. pc'[p] \in {"save", "running"}
    BY <1>15, <1>0 DEF BackUp, Loaded
  <2> QED BY <1>0, <2>1, <2>2
<1>16. ASSUME LoadBegins(p) PROVE AppInv(p)'
  BY <1>16, <1>0 DEF LoadBegins
<1>17. ASSUME Fetch(p) PROVE AppInv(p)'
  <2>1. /\ UNCHANGED remote /\ pc[p] = "fetch"
        /\ pc' = pc \/ Loaded(p, "ok") \/ Loaded(p, "failed")
    BY <1>17 DEF Fetch
  <2>2. pc'[p] \in {"fetch", "save", "running"}
    BY <1>0, <2>1 DEF Loaded
  <2> QED BY <1>0, <2>1, <2>2
<1>18. ASSUME Save(p) PROVE AppInv(p)'
  BY <1>18, <1>0, <1>a DEF Save, AfterSave, SaveOpen, FromFile
<1>19. ASSUME Dump(p) PROVE AppInv(p)'
  BY <1>19, <1>0, <1>a DEF Dump, AfterSave, FromFile
<1>20. ASSUME Use(p) PROVE AppInv(p)'
  BY <1>20, <1>0, <1>a DEF Use, FromFile
<1>21. ASSUME Crash(p) PROVE AppInv(p)'
  BY <1>21, <1>0, <1>a, <1>b DEF Crash
<1>22. ASSUME CacheChmod(p) PROVE AppInv(p)'
  BY <1>22, <1>0, <1>a, <1>b DEF CacheChmod
<1>23. ASSUME CacheUnput(p) PROVE AppInv(p)'
  BY <1>23, <1>0, <1>a, <1>b DEF CacheUnput
<1> HIDE DEF AppInv
<1> QED BY <1>1, <1>2, <1>3, <1>4, <1>5, <1>6, <1>7, <1>8, <1>9, <1>10, <1>11, <1>12, <1>13,
           <1>14, <1>15, <1>16, <1>17, <1>18, <1>19, <1>20, <1>21, <1>22, <1>23 DEF Step

LEMMA FileInvNext ==
  ASSUME Shapes, FileInv, [Next]_vars
  PROVE  FileInv'
<1>1. ASSUME NEW p \in Proc, Step(p) PROVE FileInv'
  <2>1. ASSUME NEW q \in Proc \ {p} PROVE AppInv(q)'
    BY <1>1, StepFrame, GhostStep DEF Frame, Same, FileInv, AppInv, FromFile
  <2> QED BY <1>1, <2>1, FileKeptStep, AppInvStep DEF FileInv
<1>2. CASE World
  BY <1>2 DEF World, FileInv, FileKept, Kept, AppInv, FromFile, clientVars, fileVars
<1>3. CASE UNCHANGED vars
  BY <1>3 DEF vars, FileInv, FileKept, Kept, AppInv, FromFile, clientVars, fileVars, ghosts
<1> QED BY <1>1, <1>2, <1>3 DEF Next

LEMMA FileInvInit == Init => FileInv
BY DEF Init, FileInit, FileInv, FileKept, Kept, AppInv, FromFile, NoLists, None

\* SavedIsKept: whatever the sessions, the server and the order of the commands
\* do, only a crash, a full disk or a second process within a save loses the rows
\* of the storage file, and rows of the server never get there.
THEOREM FileIsKept == Spec => []SavedIsKept
<1>1. Init => Shapes /\ FileInv
  BY ShapesInit, FileInvInit
<1>2. Shapes /\ FileInv /\ [Next]_vars => (Shapes /\ FileInv)'
  BY ShapesStep, FileInvNext
<1>3. FileInv => SavedIsKept
  BY DEF FileInv, FileKept, Kept, SavedIsKept
<1> QED BY <1>1, <1>2, <1>3, PTL DEF Spec

-----------------------------------------------------------------------------
(* Loads                                                                    *)

LEMMA PendingMore ==
  ASSUME NEW ls, NEW R, NEW S, R \subseteq S, Pending(ls, R)
  PROVE  Pending(ls, S)
BY DEF Pending

LEMMA NothingPending ==
  ASSUME NEW ls, Pending(ls, {})
  PROVE  Whole(ls)
BY DEF Pending, Whole

\* One request fewer: what its answer brings is in the lists, or is asked for by
\* the requests it leads to.
LEMMA OneAnswer ==
  ASSUME Owned, accts \subseteq Accts, NEW g \in Requests, NEW R, NEW ls \in Lists,
         Pending(ls, {g} \union R), g.get = "transactions" => g.id \in accts
  PROVE  LET b == Brings(g)
         IN  Pending([local |-> ls.local, ents |-> ls.ents \union b.ents,
                      accts |-> ls.accts \union b.accts, txs |-> ls.txs \union b.txs], R \union Range(b.next))
<1> DEFINE b == Brings(g)
           more == [local |-> ls.local, ents |-> ls.ents \union b.ents,
                    accts |-> ls.accts \union b.accts, txs |-> ls.txs \union b.txs]
           S == R \union Range(b.next)
<1> SUFFICES Pending(more, S)
  OBVIOUS
<1>0. /\ b.ents \subseteq Existing /\ b.accts \subseteq accts /\ b.next \in Seq(Requests)
      /\ g.get = "transactions" => b.txs \subseteq {Page(a) : a \in accts}
  BY BringsTypes
<1>1. CASE g = Get("entities", None)
  <2>1. b.ents = Existing /\ b.accts = {} /\ b.txs = {}
    BY <1>1 DEF Brings, Get
  <2>2. \A e \in Existing : Get("accounts", e) \in S
    BY <1>1, EntityRequests
  <2>3. \A a : Get("transactions", a) # g
    BY <1>1 DEF Get
  <2> HIDE DEF b, S
  <2>4. more.ents = Existing /\ more.accts = ls.accts /\ more.txs = ls.txs
    BY <2>1 DEF Pending
  <2>5. \A a \in ls.accts : Page(a) \in ls.txs \/ Get("transactions", a) \in S
    BY <2>3 DEF Pending, S
  <2> HIDE DEF more
  <2> QED BY <2>2, <2>4, <2>5 DEF Pending, Owned
<1>2. CASE \E e \in Ents : g = Get("accounts", e)
  <2>1. PICK e \in Ents : g = Get("accounts", e)
    BY <1>2
  <2>2. /\ b.ents = {} /\ b.txs = {} /\ b.accts = {a \in accts : OwnerOf[a] = e}
        /\ \A a \in b.accts : Get("transactions", a) \in S
    <3>1. b.ents = {} /\ b.txs = {}
      BY <2>1 DEF Brings, Get
    <3> QED BY <2>1, <3>1, AccountRequests
  <2>3. /\ \A a : Get("transactions", a) # g
        /\ g # Get("entities", None) /\ \A x : Get("accounts", x) = g => x = e
    BY <2>1 DEF Get
  <2> HIDE DEF b
  <2>4. more.ents = ls.ents /\ more.accts = ls.accts \union b.accts /\ more.txs = ls.txs
    BY <2>2
  <2>5. \A a \in more.accts : Page(a) \in ls.txs \/ Get("transactions", a) \in S
    BY <2>2, <2>3, <2>4 DEF Pending
  <2>6. \A a \in accts : \/ a \in more.accts
                         \/ {Get("entities", None), Get("accounts", OwnerOf[a])} \intersect S # {}
    BY <2>2, <2>3, <2>4 DEF Pending
  <2>7. more.ents = Existing \/ Get("entities", None) \in S
    BY <2>3, <2>4 DEF Pending
  <2> HIDE DEF more, S
  <2> QED BY <1>0, <2>4, <2>5, <2>6, <2>7 DEF Pending
<1>3. CASE \E x \in Accts : g = Get("transactions", x)
  <2>1. PICK x \in Accts : g = Get("transactions", x)
    BY <1>3
  <2>2. b.ents = {} /\ b.accts = {} /\ b.txs = {Page(x)} /\ g.get = "transactions" /\ g.id = x
    BY <2>1 DEF Brings, Get
  <2>3. /\ \A a : Get("transactions", a) = g => a = x
        /\ g # Get("entities", None) /\ \A y : Get("accounts", y) # g
    BY <2>1 DEF Get
  <2> HIDE DEF b
  <2>4. more.ents = ls.ents /\ more.accts = ls.accts /\ more.txs = ls.txs \union {Page(x)}
    BY <2>2
  <2>5. \A a \in more.accts : Page(a) \in more.txs \/ Get("transactions", a) \in S
    BY <2>3, <2>4 DEF Pending
  <2>6. \A a \in accts : \/ a \in more.accts
                         \/ {Get("entities", None), Get("accounts", OwnerOf[a])} \intersect S # {}
    BY <2>3, <2>4 DEF Pending
  <2>7. more.ents = Existing \/ Get("entities", None) \in S
    BY <2>3, <2>4 DEF Pending
  <2>8. more.txs \subseteq {Page(a) : a \in accts}
    BY <1>0, <2>2, <2>4 DEF Pending
  <2> HIDE DEF more, S
  <2> QED BY <2>4, <2>5, <2>6, <2>7, <2>8 DEF Pending
<1>4. CASE g.get \notin {"entities", "accounts", "transactions"}
  <2>1. b = [ents |-> {}, accts |-> {}, txs |-> {}, next |-> <<>>]
    BY <1>4 DEF Brings
  <2>2. \A l \in {"entities", "accounts", "transactions"} : \A id : Get(l, id) # g
    BY <1>4 DEF Get
  <2> HIDE DEF b
  <2>3. more.ents = ls.ents /\ more.accts = ls.accts /\ more.txs = ls.txs
    BY <2>1
  <2>4. Pending(ls, S)
    BY <2>2 DEF Pending
  <2> HIDE DEF more, S
  <2> QED BY <2>3, <2>4 DEF Pending
<1> QED BY <1>1, <1>2, <1>3, <1>4, RequestKinds

\* The first request of a load, and those after it.
LEMMA HeadAndRest ==
  ASSUME NEW S, NEW s \in Seq(S), s # <<>>
  PROVE  Range(s) \subseteq {Head(s)} \union Range(Tail(s))
<1>1. Len(s) \in Nat \ {0} /\ Len(Tail(s)) = Len(s) - 1 /\ Tail(s) \in Seq(S)
      /\ \A i \in 1 .. Len(Tail(s)) : Tail(s)[i] = s[i + 1]
  BY HeadTailProperties, EmptySeq
<1>2. ASSUME NEW i \in 1 .. Len(s) PROVE s[i] \in {Head(s)} \union Range(Tail(s))
  <2>1. CASE i = 1
    BY <2>1
  <2>2. CASE i # 1
    <3>1. i - 1 \in 1 .. Len(Tail(s)) /\ (i - 1) + 1 = i
      BY <1>1, <2>2
    <3>2. Tail(s)[i - 1] = s[i]
      BY <1>1, <3>1
    <3>3. i - 1 \in DOMAIN Tail(s)
      BY <1>1, <3>1
    <3> QED BY <3>2, <3>3 DEF Range
  <2> QED BY <2>1, <2>2
<1> QED BY <1>2 DEF Range

\* A process changes the server's data by a post only, and then no load that is
\* under way is of what was there when it began.
LEMMA DataStep ==
  ASSUME Shapes, NEW p \in Proc, Step(p)
  PROVE  /\ accts' = accts /\ Existing \subseteq Existing'
         /\ \/ \A q \in Proc : ~still'[q]
            \/ ents' = ents /\ \A q \in Proc \ {p} : still'[q] = still[q]
<1> DEFINE D == /\ accts' = accts /\ Existing \subseteq Existing'
                /\ \/ \A q \in Proc : ~still'[q]
                   \/ ents' = ents /\ \A q \in Proc \ {p} : still'[q] = still[q]
<1> SUFFICES D
  OBVIOUS
<1>0. ents = [e \in Ents |-> ents[e]] /\ still \in [Proc -> BOOLEAN]
  BY DEF Shapes, Shared
<1>a. ASSUME UNCHANGED <<ents, accts, still>> PROVE D
  BY <1>a DEF Existing
<1>1. CASE \E c \in Commands : Run(p, c)
  BY <1>1, <1>a DEF Run, serverVars, ghosts
<1>2. CASE Enroll(p)
  BY <1>2, <1>a DEF Enroll, serverVars, ghosts
<1>3. CASE Login(p)
  BY <1>3, <1>a DEF Login, serverVars, ghosts
<1>4. CASE CacheOpen(p)
  BY <1>4, <1>a DEF CacheOpen, serverVars, ghosts
<1>5. CASE CacheWrite(p)
  BY <1>5, <1>a DEF CacheWrite, serverVars, ghosts
<1>6. CASE CacheRename(p)
  BY <1>6, <1>a DEF CacheRename, serverVars, ghosts
<1>7. CASE Logout(p)
  BY <1>7, <1>a DEF Logout, serverVars, ghosts
<1>8. CASE Leave(p)
  BY <1>8, <1>a DEF Leave, serverVars, ghosts
<1>9. CASE Whoami(p)
  BY <1>9, <1>a DEF Whoami, serverVars, ghosts
<1>10. CASE Who(p)
  BY <1>10, <1>a DEF Who, serverVars, ghosts
<1>11. CASE ReadFile(p)
  BY <1>11, <1>a DEF ReadFile, serverVars, ghosts
<1>12. CASE Post(p)
  <2>1. CASE UNCHANGED <<ents, still>>
    BY <1>12, <2>1, <1>a DEF Post
  <2>2. CASE PostEntity(p, Head(todo[p]))
    <3>1. accts' = accts /\ \A q \in Proc : ~still'[q]
      BY <1>12, <2>2 DEF Post, PostEntity
    <3>2. Existing \subseteq Existing'
      BY <1>0, <2>2 DEF PostEntity, Existing
    <3> QED BY <3>1, <3>2
  <2> QED BY <1>12, <2>1, <2>2 DEF Post, PostRefused
<1>13. CASE Construct(p)
  BY <1>13, <1>a DEF Construct, serverVars, ghosts
<1>14. CASE LoadFile(p)
  BY <1>14, <1>a DEF LoadFile, serverVars, ghosts
<1>15. CASE BackUp(p)
  BY <1>15, <1>a DEF BackUp, serverVars, ghosts
<1>16. CASE LoadBegins(p)
  <2>1. UNCHANGED <<ents, accts>> /\ \A q \in Proc \ {p} : still'[q] = still[q]
    BY <1>16, <1>0 DEF LoadBegins, serverVars
  <2> QED BY <2>1 DEF Existing
<1>17. CASE Fetch(p)
  BY <1>17, <1>a DEF Fetch, serverVars, ghosts
<1>18. CASE Save(p)
  BY <1>18, <1>a DEF Save, serverVars, ghosts
<1>19. CASE Dump(p)
  BY <1>19, <1>a DEF Dump, serverVars, ghosts
<1>20. CASE Use(p)
  BY <1>20, <1>a DEF Use, serverVars, ghosts
<1>21. CASE Crash(p)
  BY <1>21, <1>a DEF Crash, serverVars, ghosts
<1>22. CASE CacheChmod(p)
  BY <1>22, <1>a DEF CacheChmod, serverVars, ghosts
<1>23. CASE CacheUnput(p)
  BY <1>23, <1>a DEF CacheUnput, serverVars, ghosts
<1> HIDE DEF D
<1> QED BY <1>1, <1>2, <1>3, <1>4, <1>5, <1>6, <1>7, <1>8, <1>9, <1>10, <1>11, <1>12, <1>13,
           <1>14, <1>15, <1>16, <1>17, <1>18, <1>19, <1>20, <1>21, <1>22, <1>23 DEF Step

LEMMA FetchLoads ==
  ASSUME Shapes, LoadInv, NEW p \in Proc, Fetch(p)
  PROVE  Loads(p)'
<1> DEFINE g == Head(todo[p])
           b == Brings(g)
           more == [local |-> lists[p].local, ents |-> lists[p].ents \union b.ents,
                    accts |-> lists[p].accts \union b.accts, txs |-> lists[p].txs \union b.txs]
           next == Tail(todo[p]) \o b.next
<1>0. /\ Vectors /\ ProcTypes(p) /\ accts \subseteq Accts /\ Owned /\ Loads(p)
      /\ pc[p] = "fetch" /\ UNCHANGED <<ents, accts, still, remote>>
  BY DEF Shapes, Shared, LoadInv, Fetch, serverVars, ghosts
<1>1. todo[p] \in Seq(Requests) /\ todo[p] # <<>> /\ lists[p] \in Lists
  BY <1>0 DEF ProcTypes
<1>2. g \in Requests /\ Tail(todo[p]) \in Seq(Requests)
  BY <1>1, HeadTailProperties
<1>3. b.next \in Seq(Requests)
  BY <1>0, <1>2, BringsTypes
<1>4. Range(next) = Range(Tail(todo[p])) \union Range(b.next)
  BY <1>2, <1>3, RangeConcatenation
<1>5. CASE Loaded(p, "failed")
  BY <1>0, <1>5, LoadedAt DEF Loads, Outcomes
<1>6. CASE ~Loaded(p, "failed")
  <2>1. /\ g.get = "transactions" => g.id \in accts
        /\ lists' = [lists EXCEPT ![p] = more]
        /\ IF next # <<>> THEN todo' = [todo EXCEPT ![p] = next] /\ UNCHANGED <<pc, ans>>
           ELSE Loaded(p, "ok")
    BY <1>6 DEF Fetch
  <2>2. lists'[p] = more
    BY <1>0, <2>1 DEF Vectors
  <2>3. still[p] => Pending(more, Range(next))
    <3>1. SUFFICES ASSUME still[p] PROVE Pending(more, Range(next))
      OBVIOUS
    <3>2. Pending(lists[p], Range(todo[p]))
      BY <1>0, <3>1 DEF Loads
    <3>3. Pending(lists[p], {g} \union Range(Tail(todo[p])))
      BY <1>1, <3>2, HeadAndRest, PendingMore
    <3> QED BY <1>0, <1>1, <1>2, <1>4, <2>1, <3>3, OneAnswer
  <2> HIDE DEF more, next
  <2>4. CASE next # <<>>
    <3>1. todo'[p] = next /\ pc'[p] = "fetch" /\ still'[p] = still[p]
      BY <1>0, <2>1, <2>4 DEF Vectors
    <3> QED BY <1>0, <2>2, <2>3, <2>4, <3>1 DEF Loads, Pending, Existing
  <2>5. CASE next = <<>>
    <3>1. pc'[p] # "fetch" /\ still'[p] = still[p]
      BY <1>0, <2>1, <2>5, LoadedAt DEF Outcomes
    <3>2. Range(next) = {}
      BY <2>5 DEF Range
    <3>3. still[p] => Whole(more)
      BY <2>3, <3>2, NothingPending
    <3> QED BY <1>0, <2>2, <3>1, <3>3 DEF Loads, Whole, Existing
  <2> QED BY <2>4, <2>5
<1> QED BY <1>5, <1>6

LEMMA LoadsStep ==
  ASSUME Shapes, FileInv, LoadInv, NEW p \in Proc, Step(p)
  PROVE  Loads(p)'
<1> USE DEF PutGoes, Go, serverVars, ghosts
<1>0. Vectors /\ ProcTypes(p) /\ AppInv(p) /\ Loads(p) /\ still \in [Proc -> BOOLEAN]
  BY DEF Shapes, Shared, FileInv, LoadInv
<1> USE DEF Vectors
<1>a. ASSUME pc'[p] \notin {"fetch", "save", "running"} PROVE Loads(p)'
  BY <1>a DEF Loads
<1>b. ASSUME Ends(p) PROVE Loads(p)'
  BY <1>0, <1>a, <1>b, EndsAt
<1>c. ASSUME remote'[p] = None, pc'[p] # "fetch" PROVE Loads(p)'
  BY <1>c DEF Loads
<1>1. ASSUME NEW c \in Commands, Run(p, c) PROVE Loads(p)'
  BY <1>1, <1>0, <1>a DEF Run
<1>2. ASSUME Enroll(p) PROVE Loads(p)'
  BY <1>2, <1>0, <1>a, <1>b DEF Enroll
<1>3. ASSUME Login(p) PROVE Loads(p)'
  BY <1>3, <1>0, <1>a, <1>b DEF Login
<1>4. ASSUME CacheOpen(p) PROVE Loads(p)'
  BY <1>4, <1>0, <1>a, <1>b DEF CacheOpen
<1>5. ASSUME CacheWrite(p) PROVE Loads(p)'
  BY <1>5, <1>0, <1>a, <1>b DEF CacheWrite
<1>6. ASSUME CacheRename(p) PROVE Loads(p)'
  BY <1>6, <1>0, <1>a, <1>b DEF CacheRename
<1>7. ASSUME Logout(p) PROVE Loads(p)'
  BY <1>7, <1>0, <1>a, <1>b DEF Logout
<1>8. ASSUME Leave(p) PROVE Loads(p)'
  BY <1>8, <1>0, <1>a, <1>b DEF Leave
<1>9. ASSUME Whoami(p) PROVE Loads(p)'
  BY <1>9, <1>0, <1>a, <1>b DEF Whoami
<1>10. ASSUME Who(p) PROVE Loads(p)'
  BY <1>10, <1>0, <1>a, <1>b DEF Who
<1>11. ASSUME ReadFile(p) PROVE Loads(p)'
  BY <1>11, <1>0, <1>a, <1>b DEF ReadFile
<1>12. ASSUME Post(p) PROVE Loads(p)'
  BY <1>12, <1>0, <1>a, <1>b DEF Post, NextRow
<1>13. ASSUME Construct(p) PROVE Loads(p)'
  BY <1>13, <1>0, <1>a, <1>b DEF Construct
<1>14. ASSUME LoadFile(p) PROVE Loads(p)'
  <2>1. remote'[p] = None /\ pc'[p] # "fetch"
    BY <1>14, <1>0 DEF LoadFile, Loaded
  <2> QED BY <2>1, <1>c
<1>15. ASSUME BackUp(p) PROVE Loads(p)'
  <2>1. remote'[p] = None /\ pc'[p] # "fetch"
    BY <1>15, <1>0 DEF BackUp, Loaded, AppInv, RemotePlaces
  <2> QED BY <2>1, <1>c
<1>16. ASSUME LoadBegins(p) PROVE Loads(p)'
  <2>1. /\ pc'[p] = "fetch" /\ lists'[p] = NoLists /\ todo'[p] = <<Get("entities", None)>>
        /\ UNCHANGED <<ents, accts>>
    BY <1>16, <1>0 DEF LoadBegins
  <2>2. Get("entities", None) \in Range(<<Get("entities", None)>>)
    BY DEF Range
  <2>3. Pending(NoLists, Range(<<Get("entities", None)>>))
    <3> HIDE DEF Vectors
    <3> QED BY <2>2 DEF Pending, NoLists
  <2>4. Pending(lists'[p], Range(todo'[p]))
    BY <2>1, <2>3
  <2> QED BY <2>1, <2>4 DEF Loads, Pending, Existing
<1>17. ASSUME Fetch(p) PROVE Loads(p)'
  BY <1>17, FetchLoads
<1>18. ASSUME Save(p) PROVE Loads(p)'
  <2>1. CASE remote[p] = None
    BY <1>18, <2>1, <1>0, <1>a DEF Save
  <2>2. CASE remote[p] # None
    <3>1. CASE cmd[p] = "quit"
      BY <1>18, <2>2, <3>1, <1>b DEF Save, AfterSave
    <3>2. CASE cmd[p] # "quit"
      <4>1. /\ pc[p] = "save" /\ pc'[p] = "running"
            /\ UNCHANGED <<ents, accts, still, remote, lists, ans>>
        BY <1>18, <1>0, <2>2, <3>2 DEF Save, AfterSave
      <4> QED BY <1>0, <4>1 DEF Loads, Whole, Existing
    <3> QED BY <3>1, <3>2
  <2> QED BY <2>1, <2>2
<1>19. ASSUME Dump(p) PROVE Loads(p)'
  <2>1. remote[p] = None
    BY <1>19, <1>0 DEF Dump, AppInv, RemotePlaces
  <2> QED BY <1>19, <2>1, <1>0, <1>b, <1>c DEF Dump, AfterSave
<1>20. ASSUME Use(p) PROVE Loads(p)'
  <2>1. CASE Ends(p)
    BY <2>1, <1>b
  <2>2. CASE ~Ends(p)
    <3>1. /\ pc[p] = "running" /\ pc'[p] \in {"load", "save"}
          /\ UNCHANGED <<ents, accts, still, remote, lists, ans>>
      BY <1>20, <1>0, <2>2 DEF Use
    <3> QED BY <1>0, <3>1 DEF Loads, Whole, Existing
  <2> QED BY <2>1, <2>2
<1>21. ASSUME Crash(p) PROVE Loads(p)'
  BY <1>21, <1>0, <1>a, <1>b DEF Crash
<1>22. ASSUME CacheChmod(p) PROVE Loads(p)'
  BY <1>22, <1>0, <1>a DEF CacheChmod
<1>23. ASSUME CacheUnput(p) PROVE Loads(p)'
  BY <1>23, <1>0, <1>a, <1>b DEF CacheUnput
<1> QED BY <1>1, <1>2, <1>3, <1>4, <1>5, <1>6, <1>7, <1>8, <1>9, <1>10, <1>11, <1>12, <1>13,
           <1>14, <1>15, <1>16, <1>17, <1>18, <1>19, <1>20, <1>21, <1>22, <1>23 DEF Step

LEMMA LoadInvNext ==
  ASSUME Shapes, FileInv, LoadInv, [Next]_vars
  PROVE  LoadInv'
<1>1. ASSUME NEW p \in Proc, Step(p) PROVE LoadInv'
  <2>1. Owned'
    BY <1>1, DataStep DEF LoadInv, Owned
  <2>2. ASSUME NEW q \in Proc \ {p} PROVE Loads(q)'
    <3>1. CASE ~still'[q]
      BY <3>1 DEF Loads
    <3>2. CASE still'[q]
      <4>1. UNCHANGED <<ents, accts>> /\ still'[q] = still[q]
        BY <1>1, <3>2, DataStep
      <4>2. /\ pc'[q] = pc[q] /\ lists'[q] = lists[q] /\ todo'[q] = todo[q]
            /\ remote'[q] = remote[q] /\ ans'[q] = ans[q]
        BY <1>1, StepFrame DEF Frame, Same
      <4>3. Loads(q)
        BY DEF LoadInv
      <4> QED BY <4>1, <4>2, <4>3 DEF Loads, Whole, Pending, Existing
    <3> QED BY <3>1, <3>2
  <2> QED BY <1>1, <2>1, <2>2, LoadsStep DEF LoadInv
<1>2. CASE World
  <2>1. CASE Expire
    BY <1>2, <2>1 DEF World, Expire, LoadInv, Loads, Owned, Whole, Pending, Existing, clientVars
  <2>2. CASE OthersChange
    <3>1. \A p \in Proc : Loads(p)'
      BY <2>2 DEF OthersChange, Loads
    <3>2. Owned'
      <4>1. CASE UNCHANGED accts
        BY <2>2, <4>1 DEF OthersChange, LoadInv, Owned, Existing, Shapes, Shared, None
      <4>2. CASE UNCHANGED ents
        BY <2>2, <4>2, ClientAssumption DEF OthersChange, LoadInv, Owned, Existing
      <4> QED BY <2>2, <4>1, <4>2 DEF OthersChange
    <3> QED BY <3>1, <3>2 DEF LoadInv
  <2> QED BY <1>2, <2>1, <2>2 DEF World
<1>3. CASE UNCHANGED vars
  BY <1>3 DEF vars, clientVars, serverVars, ghosts, LoadInv, Loads, Owned, Whole, Pending,
     Existing
<1> QED BY <1>1, <1>2, <1>3 DEF Next

LEMMA LoadInvInit == Init => LoadInv
BY DEF Init, LoadInv, Owned, Loads

\* LoadIsWhole: if nothing was changed on the server meanwhile, a load that returned
\* true has every entity and every account, and a page of transactions of each.
THEOREM LoadedIsWhole == Spec => []LoadIsWhole
<1>1. Init => Shapes /\ FileInv /\ LoadInv
  BY ShapesInit, FileInvInit, LoadInvInit
<1>2. Shapes /\ FileInv /\ LoadInv /\ [Next]_vars => (Shapes /\ FileInv /\ LoadInv)'
  BY ShapesStep, FileInvNext, LoadInvNext
<1>3. LoadInv => LoadIsWhole
  BY DEF LoadInv, Loads, Whole, LoadIsWhole
<1> QED BY <1>1, <1>2, <1>3, PTL DEF Spec
=============================================================================
