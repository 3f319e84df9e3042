\* A fair stream, reopened once; snapshots for its node and for another.
SPECIFICATION FairSpec
CONSTANTS
  Nodes = {"n", "m"}
  Types = {"rds"}
  Names = {"x"}
  Versions = {"", "v1", "v2"}
  Nonces <- MCNonces
  Callers <- MCCallers
  Readers = {}
  Ads = FALSE
  Contents <- MCContents
  MaxSets = 2
  MaxCalls = 8
  Nil = Nil
  Streams = {"rds"}
  AnyType = ""
  StreamType <- MCStreamType
  NodeOf <- MCNodeOf
  Wanted <- MCWantAll
  Loadable = {"", "v1", "v2"}
  NoVersion = ""
  MayNack = FALSE
  MayLeave = TRUE
  MaxNonce = 6
  MaxAsks = 2
  MaxOpens = 2

INVARIANTS XdsTypeOK NoDanglingWatch WatchAnswersLatest WaiterNotForgotten
PROPERTIES Convergence InOrder
CHECK_DEADLOCK FALSE
