SPECIFICATION FairSpec
CONSTANT MaxForks = 3
CHECK_DEADLOCK FALSE
INVARIANT FailureIsReported
