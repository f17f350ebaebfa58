\* Three requests, one at a time, one crash.
CONSTANTS
  r1 = r1
  r2 = r2
  r3 = r3
  alice = alice
  bob = bob
  tokA = tokA
  tokB = tokB
  sesA = sesA
  sesX = sesX
  bogus = bogus
  NoOne = NoOne
  Requests = {r1, r2, r3}
  Emails = {alice, bob}
  Tokens = {tokA, tokB}
  SeedUsers = {alice}
  SeedTokens = {tokA, tokB}
  TokenFor <- MCTokenFor
  SeedSessions <- MCSessions
  Inputs <- AllInputs
  Lifetime = 2
  MaxConcurrent = 1
  MaxTime = 1
  MaxCrashes = 1
  CliEnabled = FALSE
SPECIFICATION Spec
SYMMETRY Symmetry3
INVARIANTS EnrollAtomic AnswersAreTrue EffectsAreRecorded
