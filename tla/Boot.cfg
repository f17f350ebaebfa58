\* Three processes, two migrations, a crash.
CONSTANTS
  k1 = k1
  Procs = {p1, p2, p3}
  Versions <- MCVersions
  Keys = {k1}
  NoKey = NoKey
  BadKey = BadKey
  Launches <- MCLaunches
  MaxCrashes = 1
SPECIFICATION Spec
SYMMETRY Alike
INVARIANTS TypeOK SchemaWhole ServesCurrent SoleBootSucceeds
