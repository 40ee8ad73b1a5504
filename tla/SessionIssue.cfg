SPECIFICATION IssueSpec
CONSTANTS
  Sessions = {s1}
  IssueTickets = {k1, k2}
  Helpers = {h1, h2}
  MaxReviewRev = 2
  MaxSessionPolicy = 2
INVARIANT CompletionIssues
