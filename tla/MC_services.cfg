SPECIFICATION Spec
CONSTANTS
  Parts = {"workspaces", "processes", "terminals", "diffs", "settings", "search", "harnesses",
           "installer", "workbench", "view", "palette", "approvals", "connection", "cli"}
  Races = {}
  Connections = {c1, c2}
  MaxProjects = 2
  MaxWorkspaces = 2
  MaxVersions = 2
  MaxRequests = 4
  Daemons = {11, 12}
  Pids = {1, 2}
  MaxQueued = 2
  Terms = {t1, t2}
  Slots = {0, 1}
  Scrollback = 1
  MaxOutput = 2
  MaxRenders = 2
  Renderers = {n1, n2}
  Places = {p1, p2}
  MaxChoices = 1
  MaxFetches = 2
  Limits = {1, 2}
  Default = 8
  Gateways = {1, 2}
  Overrides = {0, 3}
  MaxWrites = 4
  MaxEvents = 5
  MaxStarts = 3
  Endpoints = {11, 12, 21}
  Setters = {1, 2}
  MaxEdits = 3
  Desks = {"d1", "d2"}
  Talks = {"s1", "s2"}
  Queries = {"q"}
  MaxActs = 4
  MaxShown = 6
  Sought = {3}
  Endings = {"completed", "failed"}
  Letters = {1, 2}
  MaxText = 2
  MaxItems = 3
  ResultLimit = 2
  EmptyLimit = 2
  Requests = {"r1", "r2"}
  MaxDrops = 1
  MaxGlances = 2
  Methods = {"system.shutdown", "workspace.scripts.run"}
  Newer = {"workspace.scripts.run"}
  CallIds = {1, 2}
  MaxConnects = 2
  MaxPings = 1
  MaxPublished = 1
  MaxTurns = 2
  MaxAsks = 2
  Bundles = {1, 2, 3}
  Installers = {1, 2}
  KeepVersions = 2
CHECK_DEADLOCK FALSE
INVARIANTS
  WorkspacesSound
  ProcessesAccounted
  PanesAreFed
  DaemonFollowsFiles
  InstallationSound
  WindowSound
  ScreenTells
  
