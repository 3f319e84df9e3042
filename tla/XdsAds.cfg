\* One ADS stream that carries two types and names no node, the cache in ADS mode.
SPECIFICATION XdsSpec
CONSTANTS
  Nodes = {"unknown"}
  Types = {"eds", "rds"}
  Names = {"x", "y"}
  Versions = {"", "v1", "v2"}
  Nonces <- MCNonces
  Callers <- MCCallers
  Readers = {}
  Ads = TRUE
  Contents <- MCContentsXY
  MaxSets = 2
  MaxCalls = 4
  Nil = Nil
  Streams = {"ads"}
  AnyType = ""
  StreamType <- MCStreamType
  NodeOf <- MCNoNode
  Wanted <- MCWantXY
  Loadable = {"v1", "v2"}
  NoVersion = ""
  MayNack = TRUE
  MayLeave = TRUE
  MaxNonce = 3
  MaxAsks = 2
  MaxOpens = 1
INVARIANTS NoOutdatedWatch RespondNeverBlocks CancelIsOwn
PROPERTIES WatchClosedForCause ResponseIsCurrent
CHECK_DEADLOCK FALSE
