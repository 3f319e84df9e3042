\* Two beacons of any configuration, one user of the HTTP API, locpick.
SPECIFICATION BeaconFairSpec
CONSTANTS
  Zones = {"zdevshell", "nozone"}
  Places <- MCPlaces
  Locs <- MCLocs
  StartZone = "nozone"
  Beacons = {"b1", "b2", "curl"}
  Pods = {"b1", "b2"}
  Environment <- MCEnvironment
  Settings <- MCSettings
  LocpickEnv <- MCGood
  Unset = Unset
  Nil = Nil
  MaxGiven = 6
  MaxInits = 2
  MaxUses = 2
  MaxExits = 1
INVARIANTS BeaconTypeOK HandedOutInOrder NoneSkipped HoldersDistinct SidMeansLocated
PROPERTY BecomesReady
CHECK_DEADLOCK FALSE
