SPECIFICATION FairSpec
CONSTANTS
  Docs = {"a", "b", "s"}
  ProjectDocs = {"a", "b"}
  NewDocs = {"b"}
  Broken <- MCBroken
  MaxVersion <- MCVersions
  MaxAsks = 1
  IncludeText = FALSE
  Patient = TRUE
INVARIANTS TypeOK RequestsFindDocument
PROPERTIES AnswersMissNoEdit AnalysesWhatTriggered NeverOlder Converges
CHECK_DEADLOCK FALSE
