SPECIFICATION Spec
CONSTANTS
  Templates = {"A", "B"}
  First = "A"
  Versions = {1, 2}
  Keep = 1
  Threads = {"x"}
  Loop = "loop"
  Serial = FALSE
  Calm = TRUE
  Cleans = TRUE
  MaxRuns = 2
  MaxFaults = 0
  Series = {"home"}
  Scheduler = "plan"
  Admins = {}
  Planned = 1
  Day = 2
  Week = 1
  PlanDays = {0, 1, 2, 3, 4}
  KeepDaily = 1
  KeepWeekly = 1
  StaleAfter = 1
  FailedFor = 3
  MaxTime = 5
  MaxRows = 3
  MaxTroubles = 1
  Requests = {"a", "b"}
  InTurn = TRUE
  MaxDirs = 5
  MaxCrashes = 1
  Ide = "ide"
  Code = "code"
  Repair = "repair"
  Settings = {1}
  Releases = {1, 2}
  HaltsWait = TRUE
  MaxChanges = 2
  MaxMistakes = 0
  Mirrors = 2
  Names = {"A"}
  Debs = {}
  Desks = {"k"}
  Failing = {"sync"}
  Careful = TRUE
  MaxSyncs = 2
  MaxBreaks = 0
  Files = {"rc", "conf"}
  Folders = {"dir"}
  Top = "~"
  FolderOf <- FolderOfFile
  EtcSkel = {"rc"}
  Writes = {"rc"}
  Root = TRUE
  MaxEdits = 2
  MaxSlips = 0
CHECK_DEADLOCK FALSE
INVARIANTS TypeOK OwnImage Settled StatesKept SourcesHold
PROPERTIES ImagesKept KeepsEnough OldStateKept BeginsRight
