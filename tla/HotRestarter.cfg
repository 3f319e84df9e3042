SPECIFICATION FairSpec
CONSTANT MaxForks = 3
\* A restarter that has exited takes no more steps.
CHECK_DEADLOCK FALSE
INVARIANTS
  TypeOK
  RunningIsTracked
  NothingLeftBehind
  ExitCodeTells
PROPERTIES
  EpochGrows
  FailureEndsIt
  LastEndsIt
