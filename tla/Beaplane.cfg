\* Two route streams share cb.mu; nobody fetches.
SPECIFICATION BeaplaneFairSpec
CONSTANTS
  Nodes = {"n"}
  Types = {"rds"}
  Names = {"x"}
  Versions = {"", "v1"}
  Nonces <- MCNonces
  Callers <- MCCallers
  Readers = {}
  Ads = FALSE
  Contents <- MCContents
  MaxSets = 1
  MaxCalls = 6
  Nil = Nil
  Streams = {"eds", "rds"}
  AnyType = ""
  StreamType <- MCStreamType
  NodeOf <- MCNodeOf
  Wanted <- MCWantAll
  Loadable = {}
  NoVersion = ""
  MayNack = FALSE
  MayLeave = FALSE
  MaxNonce = 2
  MaxAsks = 1
  MaxOpens = 1
  EndpointType = "eds"
  RouteType = "rds"
  BucketNodes = {"n"}
  ItemNames = {"x"}
  BucketVersions = {"", "v1"}
  Fetchers = {}
  Handlers = {"h"}
  Buckets <- MCOneLoad
  InitialBuckets <- MCEmptyBucket
  MaxPosts = 1
  MaxFetches = 0
  MayShutDown = FALSE
PROPERTY WatchesAreAnswered
CHECK_DEADLOCK FALSE
