\* Two panels, one shell that gains and loses the focus, three settings; two
\* files under the pointer; lists one longer than each limit;
\* rows of up to four cells.
SPECIFICATION Spec
CONSTANTS
  Scenes = {"monitor", "preview", "sample"}
  Panels = {"network", "directory"}
  Pids = {"shell"}
  Configs <- MCConfigs
  MaxPlans = 2
  MaxEvents = 1
  Paths = {"a", "b"}
  MaxRequests = 2
  MaxEntries = 2
  ShownEntries = 1
  MaxLines = 2
  MaxSockets = 3
  MaxConnections = 2
  ShownConnections = 1
  MaxProcesses = 2
  MaxInterfaces = 2
  MaxMarkers = 2
  NamesPerLabel = 1
INVARIANTS WorkerFollows SamplesHonest PublicOnly ViewHonest
PROPERTIES UiResumes FilesFollow RestingShows HoverShowsItsFile
CHECK_DEADLOCK FALSE
