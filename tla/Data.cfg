\* Two requests, one crash; alone, beside the CLI, beside each
\* other, and beside the transactions of the auth routes.
CONSTANTS
  r1 = r1
  r2 = r2
  e1 = e1
  a1 = a1
  t1 = t1
  b1 = b1
  alice = alice
  bob = bob
  eve = eve
  NoOne = NoOne
  Requests = {r1, r2}
  Users <- MCUsers
  Columns <- MCColumns
  SeedRows <- MCRows
  SeedMembers <- MCMembers
  Inputs <- MCInputs
  Regimes <- MCRegimes
  MaxCrashes = 1
SPECIFICATION FairSpec
INVARIANTS TypeOK NoOrphans TransactionsDoNotMix OnlyMembersWrite SuccessIsKept
PROPERTIES EveryRequestAnswered
