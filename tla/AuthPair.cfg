\* Two requests at once, any inputs, one crash, the clock and the admin CLI.
CONSTANTS
  r1 = r1
  r2 = r2
  r3 = r3
  alice = alice
  bob = bob
  tokA = tokA
  tokB = tokB
  sesA = sesA
  sesX = sesX
  bogus = bogus
  NoOne = NoOne
  Requests = {r1, r2}
  Emails = {alice, bob}
  Tokens = {tokA, tokB}
  SeedUsers = {alice}
  SeedTokens = {tokA}
  TokenFor <- MCTokenFor
  SeedSessions <- MCSessions
  Inputs <- AllInputs
  Lifetime = 2
  MaxConcurrent = 2
  MaxTime = 1
  MaxCrashes = 1
  CliEnabled = TRUE
SPECIFICATION FairSpec
INVARIANTS TypeOK AuditLinear TxnHasOwner SessionsHaveUsers
PROPERTIES AuditAppendOnly EveryRequestAnswered
