\* One Fetch, and a stream whose Envoy has subscribed.
SPECIFICATION BeaplaneFairSpec
CONSTANTS
  Nodes = {"n"}
  Types = {"rds"}
  Names = {"x"}
  Versions = {"", "v1"}
  Nonces <- MCNonces
  Callers <- MCCallers
  Readers = {}
  Ads = FALSE
  Contents <- MCContents
  MaxSets = 1
  MaxCalls = 6
  Nil = Nil
  Streams = {"rds"}
  AnyType = ""
  StreamType <- MCStreamType
  NodeOf <- MCNodeOf
  Wanted <- MCWantAll
  Loadable = {}
  NoVersion = ""
  MayNack = FALSE
  MayLeave = FALSE
  MaxNonce = 2
  MaxAsks = 1
  MaxOpens = 1
  EndpointType = "eds"
  RouteType = "rds"
  BucketNodes = {"n"}
  ItemNames = {"x"}
  BucketVersions = {"", "v1"}
  Fetchers = {"f"}
  Handlers = {"h"}
  Buckets <- MCOneLoad
  InitialBuckets <- MCEmptyBucket
  MaxPosts = 1
  MaxFetches = 1
  MayShutDown = FALSE
PROPERTY WatchesAreAnswered
CHECK_DEADLOCK FALSE
