SPECIFICATION BackupsSpec
CONSTANTS
  Jobs = {j1, j2}
  Kept = 1
  Encrypted = {TRUE}
  MaxBackups = 3
  Seconds = 3
  MaxFaults = 1
  MaxInFlight = 2
  MaxJobs = 3
  None = None
INVARIANT UsableHasArchive
PROPERTIES RestoreHasWayBack VerdictIsRight RunningEnds
CONSTRAINT Explored
CHECK_DEADLOCK FALSE
