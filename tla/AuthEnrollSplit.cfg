\* Two requests at once: is an enrollment one transaction?
CONSTANTS
  r1 = r1
  r2 = r2
  r3 = r3
  alice = alice
  bob = bob
  tokA = tokA
  tokB = tokB
  sesA = sesA
  sesX = sesX
  bogus = bogus
  NoOne = NoOne
  Requests = {r1, r2}
  Emails = {alice, bob}
  Tokens = {tokA, tokB}
  SeedUsers = {alice}
  SeedTokens = {tokA, tokB}
  TokenFor <- MCTokenFor
  SeedSessions <- MCSessions
  Inputs <- AllInputs
  Lifetime = 2
  MaxConcurrent = 2
  MaxTime = 0
  MaxCrashes = 0
  CliEnabled = FALSE
SPECIFICATION Spec
SYMMETRY Symmetry2
INVARIANTS EnrollAtomic
