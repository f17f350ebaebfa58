\* An init and two callbacks, or any other three requests, from a tab and curl.
CONSTANTS
  r1 = r1
  r2 = r2
  r3 = r3
  a1 = a1
  a2 = a2
  alice = alice
  eve = eve
  NoOne = NoOne
  Stale = Stale
  Requests = {r1, r2, r3}
  Tabs = {b1}
  Users = {alice, eve}
  Accounts = {a1, a2}
  May <- MCMay
  TTL = 0
  Inputs <- MCInputs
  Regimes <- MCRegimes
  MaxTime = 1
SPECIFICATION Spec
INVARIANTS TypeOK TokenByPermission SpentOnce LinkedHasToken
