----------------------------- MODULE SecretStore -----------------------------
(* services/secret_store/FileSecretStore.cpp, for one key, shared by client  *)
(* processes.  put writes a temporary file of one fixed name and renames it; *)
(* a handle follows its file, not its name.                                  *)
EXTENDS Naturals

CONSTANTS
  Proc,    \* client processes of one user
  Tokens   \* session tokens

VARIABLES
  secret,  \* what the file of the key holds
  tmp,     \* what <file>.tmp holds
  handle,  \* p -> where the file is that p's put has open
  puts     \* p -> whether p is in a put, and whether that has met another (history)

storeVars == <<secret, tmp, handle, puts>>

Absent == "absent"
Void == "void"      \* a file of length 0

HandleTypeOK ==
  /\ secret \in Tokens \union {Absent, Void}
  /\ tmp \in Tokens \union {Absent, Void}
  /\ handle \in [Proc -> {"none", "tmp", "file", "unlinked"}]
  /\ puts \in [Proc -> {"none", "alone", "mixed"}]

StoreInit ==
  /\ secret = Absent /\ tmp = Absent
  /\ handle = [p \in Proc |-> "none"] /\ puts = [p \in Proc |-> "none"]

PutBegins(p) ==
  LET others == {q \in Proc : puts[q] # "none"}
  IN  puts' = [q \in Proc |-> IF q = p THEN IF others = {} THEN "alone" ELSE "mixed"
                              ELSE IF q \in others THEN "mixed" ELSE "none"]
PutEnds(p) == puts' = [puts EXCEPT ![p] = "none"]

\* Variant: the secret's own file is opened and written.
PutOpenInPlace(p) ==
  /\ handle' = [handle EXCEPT ![p] = "file"]
  /\ secret' = Void
  /\ PutBegins(p)
  /\ UNCHANGED tmp

\* put opens the temporary file, which truncates what another put has there.
PutOpen(p) ==
  /\ handle' = [handle EXCEPT ![p] = "tmp"]
  /\ tmp' = Void
  /\ PutBegins(p)
  /\ UNCHANGED secret

\* The bytes go to the file that was opened, wherever it is by now: all of them, or
\* none if the disk is full.
PutWrite(p, t) ==
  /\ tmp' = IF handle[p] = "tmp" THEN t ELSE tmp
  /\ secret' = IF handle[p] = "file" THEN t ELSE secret
  /\ handle' = [handle EXCEPT ![p] = "none"]
  /\ UNCHANGED puts
PutLosesWrite(p) ==
  /\ handle' = [handle EXCEPT ![p] = "none"]
  /\ UNCHANGED <<secret, tmp, puts>>

\* chmod and rename name the temporary file anew: whichever put wrote it, and not if
\* another has renamed or removed it.
PutFindsFile == tmp # Absent

\* Variant: the temporary file is copied over the secret and stays.
PutRenameCopies(p) ==
  /\ PutFindsFile
  /\ secret' = tmp
  /\ handle' = [q \in Proc |-> IF handle[q] = "file" THEN "unlinked" ELSE handle[q]]
  /\ PutEnds(p)
  /\ UNCHANGED tmp

PutRename(p) ==
  /\ PutFindsFile
  /\ secret' = tmp
  /\ tmp' = Absent
  /\ handle' = [q \in Proc |-> CASE handle[q] = "file" -> "unlinked"
                                 [] handle[q] = "tmp" -> "file"
                                 [] OTHER -> handle[q]]
  /\ PutEnds(p)

\* After a failure: whatever has the temporary name by now goes, another put's too.
PutRemoves(p) ==
  /\ tmp' = Absent
  /\ handle' = [q \in Proc |-> IF handle[q] = "tmp" THEN "unlinked" ELSE handle[q]]
  /\ PutEnds(p)
  /\ UNCHANGED secret

KeepSecret == UNCHANGED storeVars

\* clear_cached_token: the file goes, whichever token it holds by now.
RemoveSecret ==
  /\ secret' = Absent
  /\ handle' = [q \in Proc |-> IF handle[q] = "file" THEN "unlinked" ELSE handle[q]]
  /\ UNCHANGED <<tmp, puts>>

StoreCrash(p) ==
  /\ handle' = [handle EXCEPT ![p] = "none"]
  /\ PutEnds(p)
  /\ UNCHANGED <<secret, tmp>>
=============================================================================
