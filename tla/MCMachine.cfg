SPECIFICATION MachineSpec
CONSTANTS
  Callers = {"r1", "r2"}
  OperationSizes <- MCOperationSizes
  MaxPending = 2
  MaxPendingEvents = 3
  MaxBatch = 2
  MaxBatchEvents = 2
  Runners = {"r1"}
  Attempts = {"a", "b"}
  N = 3
  Data <- MCData
  NoAttempt = NoAttempt
  NoRecord = NoRecord
  MaxFaults = 2
  e1 = e1
  e2 = e2
  Upgrades = {u1}
  Endpoints = {e1, e2}
  Primary = e1
  Workers = {w1, w2}
  NotYet = NotYet
  FileOrder <- TwoEndpoints
  ApprovalTicks = 1
  PolicyEnds = 2
  MaxArenaTime = 1
  MaxArenaFaults = 2
  MaxControls = 4
  MaxAliases = 6
  MaxReads = 1
  MaxTasks = 2
  LeaseTicks = 1
  AuthorityTicks = 1
  MaxClock = 1
PROPERTIES  HostIsHonest SlotIsFreed
CHECK_DEADLOCK FALSE
