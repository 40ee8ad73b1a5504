SPECIFICATION HostsSpec
CONSTANTS
  Runners = {r1, r2}
  Attempts = {a, b}
  N = 2
  Data <- MCData
  NoAttempt = NoAttempt
  NoRecord = NoRecord
  MaxFaults = 1
  p1 = p1
  p2 = p2
  Proofs = {p1, p2}
  Viewers = {v1, v2}
  NoViewer = NoViewer
  SessionEnd <- MCSessionEnd
  MaxClaims = 1
  MaxMonitorTime = 3
  MaxMonitorFaults = 2
  Torn = 9
  MaxContent = 2
  MaxVolumes = 4
  MaxDockerUpsets = 3
  Receipts = {r0}
  Dispatchers = {d1, d2}
  MaxAttempts = 3
  Backoff = 1
  MaxTime = 4
  MaxTried = 6
  Configs = {1, 2}
  Absent = Absent
  TornFile = TornFile
  MaxDraws = 6
  MaxHostUpsets = 3
  Registrars = {p1, p2}
  Connections = {c1}
  Private = Private
  Nobody = Nobody
  MaxSeals = 3
  MaxRegistryStops = 1
  Shells = {s1, s2}
  KeyPaths = {1, 2}
  Pins = {1, 2}
  NoKey = 0
  NoSigner = NoSigner
  NoShell = NoShell
  MaxCommands = 3
  Zones = {"A1", "A2"}
  Items = {"w1", "w2"}
  GraphLinks <- MCLinks
  KeyOrder <- MCOrder
  Views <- MCViews
  Accesses <- MCAccesses
  SourceLimit = 4
  MaxGraphWrites = 2
  MaxPolls = 2
SYMMETRY Symmetry
INVARIANTS JournalInv ReadOnce 
PROPERTIES OnlyTheOwnerWrites RestoresAsConfirmed SettlesOnce LocalStateIsWhole
CHECK_DEADLOCK FALSE
