SPECIFICATION AllSpec
CONSTANTS
  Procs = {p1, p2}
  Requests = {r1}
  Roots = {g1}
  Auths = {a1}
  StatusNonces = {s1}
  ReadNonces = {n1}
  ReviewTime = 1
  Lifetimes = {2}
  ProofTime = 1
  Capacity = 2
  MaxTime = 2
  MaxUpsets = 1
  MaxMints = 1
  None = None
  Asks = {q1, q2}
  Devices = {d1}
  d1 = d1
  Operators = {o1}
  Threads = {p1, p2}
  Nobody = Nobody
  Offers <- SmallOffers
  Filed <- FiledOne
  Extents <- SmallExtents
  MaxOpenAsks = 2
  MaxActions = 3
  MaxPolicyRev = 2
  MaxAccessUpsets = 1
  EnrollRequests = {q1, q2}
  Readers = {p1, p2}
  EnrollNonces = {n1}
  Unset = Unset
  MaxExtent = 2
  MaxHead = 3
  Sessions = {s1}
  IssueTickets = {q1, q2}
  Helpers = {p1, p2}
  MaxReviewRev = 2
  MaxSessionPolicy = 2
  Runners = {p1, p2}
  Unheld = Unheld
  Dispositions = {"done"}
  MaxStateVersion = 2
  MaxTries = 2
  MaxReviewUpsets = 2
  Launches = {l1}
  Captures = {c1}
  MaxNative = 2
  PageSize = 1
  MaxPages = 2
  MaxWorkVersion = 2
  MaxImports = 1
SYMMETRY Symmetry
INVARIANTS GrantsDecided  SessionRecordsAreTrue
PROPERTIES SessionsHold 
CHECK_DEADLOCK FALSE
