------------------------------- MODULE MCAccess -------------------------------
(***************************************************************************)
(* Who may do what, for TLC: holder sessions, access requests and their    *)
(* decisions, enrolled readers, the issue of session credentials, the      *)
(* review of a session in a Terminal window and the evidence of native     *)
(* sessions.  The components share no state: part names the one that runs, *)
(* the others stay where they began.                                       *)
(***************************************************************************)
EXTENDS HolderSessions, AccessGrants, ReadEnrollment, SessionIssue, SessionReview,
        SessionEvidence, TLC

CONSTANTS d1

VARIABLE part

\* Narrowing any policy withdraws the grant; an operator policy may also change
\* without doing so.
SmallExtents == [base |-> {0}, oper |-> {0, 1}, native |-> {0}]

\* One offer, and a device that the member policy file knows.
SmallOffers == {[read |-> 1, write |-> 1]}
FiledOne == [d \in Devices |-> IF d = d1 THEN 1 ELSE 0]

allAccessVars == <<part, vars, accessVars, enrollmentVars, issueVars, reviewVars, evidenceVars>>

AllInit ==
  /\ part \in {"holder", "grants", "enrollment", "issue", "review", "evidence"}
  /\ Init /\ AccessInit /\ EnrollmentInit /\ IssueInit /\ ReviewInit /\ EvidenceInit

Others(p) ==
  /\ UNCHANGED part
  /\ p # "holder" => UNCHANGED vars
  /\ p # "grants" => UNCHANGED accessVars
  /\ p # "enrollment" => UNCHANGED enrollmentVars
  /\ p # "issue" => UNCHANGED issueVars
  /\ p # "review" => UNCHANGED reviewVars
  /\ p # "evidence" => UNCHANGED evidenceVars

AllNext ==
  \/ part = "holder" /\ Next /\ Others("holder")
  \/ part = "grants" /\ AccessNext /\ Others("grants")
  \/ part = "enrollment" /\ EnrollmentNext /\ Others("enrollment")
  \/ part = "issue" /\ IssueNext /\ Others("issue")
  \/ part = "review" /\ ReviewNext /\ Others("review")
  \/ part = "evidence" /\ EvidenceNext /\ Others("evidence")

AllSpec == AllInit /\ [][AllNext]_allAccessVars

\* Processes, threads, windows and commands are interchangeable, and so are
\* the ids of requests and tickets: each is one set for all components.
Symmetry == Permutations(Procs) \cup Permutations(Asks)

\* A grant is in force as it was reviewed and for as long as it stands: an
\* activation takes effect for the request and policy that the operator saw
\* (auth/access_operator.py), and a signed read is served under the live assignment
\* of its reader (auth/native_read.py).
GrantsInForce == ActivatedAsReviewed /\ ReadsUnderLiveGrant

\* A credential says what was signed for: a session credential what its owner
\* reviewed (session_access.py), an enrollment what its challenge offered.
CredentialsAsSigned == SessionAsSigned /\ EnrollmentInv

\* What is on record of a session is true: the attempts of its review
\* (session review windows) and the evidence of native sessions.
SessionRecordsAreTrue == AttemptsAreTrue /\ EvidenceIsTrue
=============================================================================
