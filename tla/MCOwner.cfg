SPECIFICATION OwnerSpec
CONSTANTS
  Procs = {p1, p2}
  Owners = {o1, o2}
  None = None
  Unclaimed = Unclaimed
  SetupSeconds = 2
  ChallengeSeconds = 1
  MaxReg = 1
  MaxUpsets = 1
  MaxRuns = 2
  MaxNonce = 2
  MaxTime = 1
  e1 = e1
  e2 = e2
  Upgrades = {u1, u2}
  Endpoints = {e1, e2}
  Primary = e1
  Workers = {w1, w2}
  NotYet = NotYet
  FileOrder <- TwoEndpoints
  ApprovalTicks = 1
  PolicyEnds = 2
  MaxArenaTime = 1
  MaxArenaFaults = 1
  Members = {m1, m2}
  Absent = Absent
  MaxVersion = 5
  MaxOpStops = 1
  Requests = {q1, q2}
  Ceremonies = {n1}
  Unset = Unset
  AuthorityLife = 1
  MaxNativeTime = 1
  MaxRotations = 2
SYMMETRY Symmetry
INVARIANTS OwnerInv SentAsTrusted
PROPERTIES ImplementsClaim  AuthorityHolds
CHECK_DEADLOCK FALSE
