\* One HTTP handler reads the snapshot map while another sets a snapshot.
SPECIFICATION Spec
CONSTANTS
  n1 = n1
  n2 = n2
  c1 = c1
  c2 = c2
  x = x
  Nodes = {n1, n2}
  Types = {"rds"}
  Names = {x}
  Versions = {"", "v1"}
  Nonces = {0}
  Callers = {c1}
  Readers = {"GetNodes"}
  Ads = FALSE
  Contents <- MCOneContent
  MaxSets = 2
  MaxCalls = 1
  Nil = Nil
INVARIANT ThreadSafe
CHECK_DEADLOCK FALSE
