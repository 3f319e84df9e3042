\* config-beacons twice, or reset-locpicks twice, or an obus client; faults.
SPECIFICATION ToolsSpec
CONSTANTS
  Listings <- MCListings
  FileNames = {"new", "skew"}
  MaxRuns = 2
  MaxKubectl = 3
  Locpicks = {"l1", "l2", "l3"}
  Resolutions <- MCResolutions
  ZonesOf <- MCZonesOf
  MaxResets = 2
  MaxDowns = 2
  Calls = {"c1", "c2", "c3"}
  Invocations <- MCInvocations
  Uncommented <- MCUncommented
  ServerEnds = 1
  MaxTurns = 2
INVARIANTS ToolsTypeOK PodByPod ZonesApart NoneForgotten AnsweredWhole
PROPERTIES FinishedIsRunning CallsEnd
CHECK_DEADLOCK FALSE
