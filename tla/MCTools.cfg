SPECIFICATION ToolsSpec
CONSTANTS
  Places = {"a", "b"}
  Programs = {"p", "q"}
  Capacity = 2
  Births = 3
  Calls = 4
  Surprises = 1
  Lanes <- TwoLanes
  Cells = 1
  Attempts = 2
  Frames = 1
  Nesting <- TwoAndOne
  Tickets = 3
  Windows = 2
  Addresses = {1, 2}
  PoolSize = 3
  Burst = 2
  Hotplugs = 3
  Events = 1
  Drives = {"d1", "d2"}
  Plugs = 3
  Failures = 1
  Exports = 2
  Pids = {1, 2}
  Files = {"f", "g"}
  NoFile = "none"
  Versions = 2
  Starts = 3
  CacheSize = 2
  EpochsKept = 2
  Changes = 4
  Portions = 2
  Faults = 2
  Runs = 2
INVARIANTS
  ToolsTypeOK
  TopologyIsTrue
  ControlsArePassedOn
  DiagnosticsAreTrue
  ImagesAreAsAsked
CHECK_DEADLOCK FALSE
