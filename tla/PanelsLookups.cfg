\* The same window; lookups stay on, and panels are hidden and shown again.
SPECIFICATION Spec
CONSTANTS
  Scenes = {"monitor"}
  Panels = {"network", "directory"}
  Pids = {"shell"}
  Configs <- MCConfigs
  MaxPlans = 2
  MaxEvents = 1
  Paths = {"a", "b"}
  MaxRequests = 2
  MaxEntries = 2
  ShownEntries = 1
  MaxLines = 2
  MaxSockets = 3
  MaxConnections = 2
  ShownConnections = 1
  MaxProcesses = 2
  MaxInterfaces = 2
  MaxMarkers = 2
  NamesPerLabel = 1
INVARIANTS SpacedLookups
CHECK_DEADLOCK FALSE
