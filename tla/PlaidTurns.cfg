\* Two accounts, the token of one does not decrypt; two transactions of the other;
\* worker and force-sync take turns, one crash.
CONSTANTS
  a1 = a1
  a2 = a2
  t1 = t1
  t2 = t2
  v1 = v1
  v2 = v2
  w = w
  q1 = q1
  q2 = q2
  None = None
  Worker = w
  Accounts = {a1, a2}
  Txs = {t1, t2}
  Vals = {v1, v2}
  AccountOf <- OneAccount
  Requests = {q1}
  NoToken = {}
  BadToken = {a2}
  MaxVersions = 2
  MaxCrashes = 1
  TakeTurns = TRUE
  Foreign = FALSE
  CliEnabled = FALSE
SPECIFICATION FairSpec
INVARIANTS TypeOK RowsNotBehind
PROPERTIES CatchesUp StopEnds
