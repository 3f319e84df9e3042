\* Three loads over two nodes, a reader, a stream, one without a node, a Fetch
\* and a shutdown.
SPECIFICATION BeaplaneFairSpec
CONSTANTS
  Nodes = {"n", "m", "unknown"}
  Types = {"eds", "rds"}
  Names = {"x"}
  Versions = {"", "v0", "v1", "v2"}
  Nonces <- MCNonces
  Callers <- MCCallers
  Readers = {"GET"}
  Ads = FALSE
  Contents <- MCContents
  MaxSets = 6
  MaxCalls = 6
  Nil = Nil
  Streams = {"rds", "anon"}
  AnyType = ""
  StreamType <- MCStreamType
  NodeOf <- MCNodeOf
  Wanted <- MCWantAll
  Loadable = {}
  NoVersion = ""
  MayNack = FALSE
  MayLeave = FALSE
  MaxNonce = 1
  MaxAsks = 1
  MaxOpens = 1
  EndpointType = "eds"
  RouteType = "rds"
  BucketNodes = {"n", "m", "unknown"}
  ItemNames = {"x"}
  BucketVersions = {"", "v0", "v1", "v2"}
  Fetchers = {"f"}
  Handlers = {"h"}
  Buckets <- MCTwoNodes
  InitialBuckets <- MCStartTwo
  MaxPosts = 2
  MaxFetches = 1
  MayShutDown = TRUE
INVARIANTS BeaplaneTypeOK LastLoadWins DownForCause
PROPERTY ShutDownEnds
CHECK_DEADLOCK FALSE
