\* A fair stream whose Envoy adds a name to its subscription.
SPECIFICATION FairSpec
CONSTANTS
  Nodes = {"n"}
  Types = {"rds"}
  Names = {"x", "y"}
  Versions = {"", "v1", "v2"}
  Nonces <- MCNonces
  Callers <- MCCallers
  Readers = {}
  Ads = FALSE
  Contents <- MCContents
  MaxSets = 1
  MaxCalls = 5
  Nil = Nil
  Streams = {"rds"}
  AnyType = ""
  StreamType <- MCStreamType
  NodeOf <- MCNodeOf
  Wanted <- MCWantAny
  Loadable = {"v1", "v2"}
  NoVersion = ""
  MayNack = FALSE
  MayLeave = TRUE
  MaxNonce = 5
  MaxAsks = 2
  MaxOpens = 1

PROPERTY RequestedAreProduced
CHECK_DEADLOCK FALSE
