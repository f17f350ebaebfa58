\* Two processes, four commands and refreshes, two outside changes; two tokens, so
\* that both may be in a put at once.
CONSTANTS
  Proc = {p1, p2}
  Tokens = {t1, t2}
  p1 = p1
  p2 = p2
  t1 = t1
  t2 = t2
  e1 = e1
  e2 = e2
  a1 = a1
  a2 = a2
  Ents = {e1, e2}
  Accts = {a1, a2}
  OwnerOf <- MCOwnerOf
  TxCount <- MCTxCount
  kDefaultLimit = 2
  FileRows <- MCForeignRows
  Commands = {"enroll", "login", "logout", "whoami", "migrate", "tui", "local"}
  MaxCommands = 4
  MaxChanges = 2
SPECIFICATION Spec
SYMMETRY MCSymmetry
\* The user runs no more commands.
CHECK_DEADLOCK FALSE
INVARIANTS TypeOK  LoadIsWhole 
PROPERTY PutIsAtomic
