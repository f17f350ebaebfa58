\* Any keys, the program's commands, the queries on the way to the verbs, three aliases and
\* a beginning of names, two entities.
CONSTANTS
  kRecursionLimit = 10
  LowerOf <- MCLowerOf
  Commands <- MCCommands
  kMaxVisibleResults = 8
  Queries <- MCQueries
  VerbTexts <- MCVerbs
  e1 = e1
  e2 = e2
  Entities = {e1, e2}
  Lists <- MCLists
SPECIFICATION Spec
\* The program ends, and nothing follows.
CHECK_DEADLOCK FALSE
INVARIANTS TypeOK ShownIsCurrent PaletteLists
 
