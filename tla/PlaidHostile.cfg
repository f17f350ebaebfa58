\* A force-sync and the worker at once, two accounts, one without a token, beside
\* the transactions of other handlers and the admin CLI.
CONSTANTS
  a1 = a1
  a2 = a2
  t1 = t1
  t2 = t2
  v1 = v1
  v2 = v2
  w = w
  q1 = q1
  q2 = q2
  None = None
  Worker = w
  Accounts = {a1, a2}
  Txs = {t1}
  Vals = {v1}
  AccountOf <- OneAccount
  Requests = {q1}
  NoToken = {a2}
  BadToken = {}
  MaxVersions = 1
  MaxCrashes = 0
  TakeTurns = FALSE
  Foreign = TRUE
  CliEnabled = TRUE
SPECIFICATION FairSpec
PROPERTIES SyncIsAnswered
