SPECIFICATION FairSpec
CONSTANTS
  Procs = {"cli", "editor"}
  Cli = {"cli"}
  AtRoot = {"cli"}
  Packages = {"a", "b", "l"}
  Local = {"l"}
  Plugins = {"a"}
  MaxCommit <- MCCommits
  Needs <- MCNeeds
  Declared <- MCDeclared
  Asked <- MCAsked
  MaxOps <- MCOps
INVARIANTS TypeOK BuildsWhatIsLocked ResolvesClosure FailedAddUndone
PROPERTIES EntriesKept CommandsEnd
CHECK_DEADLOCK FALSE
