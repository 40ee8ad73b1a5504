SPECIFICATION MonitorSpec
CHECK_DEADLOCK FALSE
CONSTANTS
  Jobs = {j1, j2}
  Signers = {s1, s2}
  MaxBackups = 2
  MaxSets = 2
  MaxTime = 2
  MaxVersion = 2
  KeepPairs = 1
  KeepBackups = 1
  MaxDisturbed = 0
PROPERTY DowntimeIsSuppressed
