----------------------------- MODULE JsonStorage -----------------------------
(* services/StorageService.cpp: the local file of the terminal application.  *)
(* A load reads it whole; a save truncates it and writes it in place.  What  *)
(* a file holds is one of a few contents, ordered by their length.           *)
EXTENDS Naturals

VARIABLES
  file,    \* the content of the storage file
  backup,  \* the content of <file>.backup
  saving   \* the processes that have the file open for a save

fileVars == <<file, backup, saving>>

\* "full": all five lists; "stripped": the same, the entity of each budget blank;
\* "empty": five empty lists; "server": lists that came from the server; "torn"
\* does not parse.
Size == [absent |-> 0, void |-> 0, empty |-> 1, server |-> 2, stripped |-> 3, full |-> 4, torn |-> 4]
Contents == DOMAIN Size
Parses(c) == c \in {"full", "stripped", "empty", "server"}

\* parse_entities to parse_budgets: the last does not read the entity.
Parsed(c) == IF c = "full" THEN "stripped" ELSE c

FileTypeOK == file \in Contents /\ backup \in Contents

FileInit ==
  /\ file \in {"absent", "full"}
  /\ backup = "absent" /\ saving = {}

\* create_backup: a copy of the file, over the last one.
CreateBackup ==
  /\ backup' = IF file = "absent" THEN backup ELSE file
  /\ UNCHANGED <<file, saving>>

SaveOpen(p) ==
  /\ file' = "void"
  /\ saving' = saving \union {p}
  /\ UNCHANGED backup

\* The bytes are laid over what the file holds by now; a full disk goes unnoticed.
SaveWrite(p, content) ==
  /\ file' \in {"torn", IF Size[file] <= Size[content] THEN content ELSE "torn"}
  /\ saving' = saving \ {p}
  /\ UNCHANGED backup

FileCrash(p) ==
  /\ saving' = saving \ {p}
  /\ IF p \in saving THEN file' \in {file, "torn"} ELSE UNCHANGED file
  /\ UNCHANGED backup
=============================================================================
