SPECIFICATION Spec
CONSTANTS
  Docs = {"a", "b", "s"}
  ProjectDocs = {"a", "b"}
  NewDocs = {"b"}
  Broken <- MCBroken
  MaxVersion <- MCVersions
  MaxAsks = 1
  IncludeText = FALSE
  Patient = FALSE
INVARIANTS NoGhost
CHECK_DEADLOCK FALSE
