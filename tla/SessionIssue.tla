----------------------------- MODULE SessionIssue -----------------------------
(***************************************************************************)
(* Issuing a read session to a local application (auth/session_access.py,  *)
(* driven by SessionApplication of disposable_sessions.py and              *)
(* local_session_provider.py).  A review is prepared, its expiry may be    *)
(* changed, the owner signs a challenge that repeats the review, and the   *)
(* helper that holds the session's key enrolls it as a holder root.        *)
(*                                                                         *)
(* Reviews, challenges, assignments and decisions are rows of the request  *)
(* database; holder roots are rows of the enrollment database.  Each step  *)
(* of a call is one transaction of one of them.  An enrollment challenge   *)
(* is a number, drawn in order for each review.                            *)
(***************************************************************************)
EXTENDS Naturals, FiniteSets

CONSTANTS
    Sessions,       \* session requests, each with its review handle
    IssueTickets,        \* challenges to the owner
    Helpers,        \* threads of the session application
    MaxReviewRev,   \* bound: revisions of a review
    MaxSessionPolicy \* bound: revisions of the operator policy

VARIABLES
    operatorRev,    \* revision of the operator policy
    review,         \* [Sessions -> session_access_reviews]
    ticket,         \* [IssueTickets -> session_access_challenges]
    sessionGrant,   \* [Sessions -> the assignment: none, active, revoked]
    holderRoot,     \* [Sessions -> [challenge -> none, active, revoked]]
    drawn,          \* [Sessions -> enrollment challenges drawn]
    helper          \* [Helpers -> the call a thread runs]

issueVars == <<operatorRev, review, ticket, sessionGrant, holderRoot, drawn, helper>>

NoReview == [state |-> "none"]
NoTicket == [rev |-> 0]
IssueFree == [at |-> "idle"]
Draws == 1..Cardinality(Helpers)

IssueInit ==
    /\ operatorRev = 1
    /\ review = [s \in Sessions |-> NoReview]
    /\ ticket = [k \in IssueTickets |-> NoTicket]
    /\ sessionGrant = [s \in Sessions |-> "none"]
    /\ holderRoot = [s \in Sessions |-> [c \in Draws |-> "none"]]
    /\ drawn = [s \in Sessions |-> 0]
    /\ helper = [h \in Helpers |-> IssueFree]

-----------------------------------------------------------------------------
(* Outside.                                                                *)

\* The owner replaces the operator policy.
ReviseOperators ==
    /\ operatorRev < MaxSessionPolicy
    /\ operatorRev' = operatorRev + 1
    /\ UNCHANGED <<review, ticket, sessionGrant, holderRoot, drawn, helper>>

\* The two minutes of a review pass, or the session's own time.
PassTime(s) ==
    /\ review[s].state # "none"
    /\ \/ review[s].fresh /\ review' = [review EXCEPT ![s].fresh = FALSE]
       \/ ~review[s].fresh /\ ~review[s].over /\ review' = [review EXCEPT ![s].over = TRUE]
    /\ UNCHANGED <<operatorRev, ticket, sessionGrant, holderRoot, drawn, helper>>

\* HolderGrantHost.revoke: the holder's roots.
RevokeIssuedRoots(s) ==
    /\ \E c \in Draws : holderRoot[s][c] = "active"
    /\ holderRoot' = [holderRoot EXCEPT ![s] =
          [c \in Draws |-> IF @[c] = "active" THEN "revoked" ELSE @[c]]]
    /\ UNCHANGED <<operatorRev, review, ticket, sessionGrant, drawn, helper>>

-----------------------------------------------------------------------------
(* The review.                                                             *)

\* prepare, for an authenticated request that nobody decided on.
PrepareSession(s) ==
    /\ review[s] = NoReview
    /\ review' = [review EXCEPT ![s] =
          [state |-> "awaiting_human", rev |-> 1, policy |-> operatorRev, fresh |-> TRUE,
           over |-> FALSE, enrollment |-> 0, root |-> 0]]
    /\ UNCHANGED <<operatorRev, ticket, sessionGrant, holderRoot, drawn, helper>>

\* check_review: within its deadline and under the current policy.
ReviewCurrent(s) ==
    /\ review[s].state = "awaiting_human"
    /\ review[s].fresh /\ ~review[s].over /\ review[s].policy = operatorRev

\* update_expiry: a new revision with a new deadline.
UpdateExpiry(s) ==
    /\ review[s].state = "awaiting_human"
    /\ review[s].policy = operatorRev
    /\ review[s].rev < MaxReviewRev
    /\ review' = [review EXCEPT ![s].rev = @ + 1, ![s].fresh = TRUE, ![s].over = FALSE]
    /\ UNCHANGED <<operatorRev, ticket, sessionGrant, holderRoot, drawn, helper>>

\* owner_challenge: repeats the review as it is now.
OwnerChallenge(s, k) ==
    /\ ReviewCurrent(s)
    /\ ticket[k] = NoTicket
    /\ ticket' = [ticket EXCEPT ![k] =
          [session |-> s, rev |-> review[s].rev, policy |-> operatorRev, used |-> FALSE]]
    /\ UNCHANGED <<operatorRev, review, sessionGrant, holderRoot, drawn, helper>>

-----------------------------------------------------------------------------
(* SessionApplication.submit                                               *)

\* Mutant of Signed: the signed review is not compared with the retained one.
OlderReviewMut(s, k) ==
    /\ ticket[k] # NoTicket /\ ticket[k].session = s
    /\ ticket[k].policy = operatorRev

\* The signature is over the retained challenge and the review it repeats.
Signed(s, k) ==
    /\ ticket[k] # NoTicket /\ ticket[k].session = s
    /\ ticket[k].policy = operatorRev
    /\ ticket[k].rev = review[s].rev /\ review[s].policy = operatorRev

\* submit: the assignment, the decision and the state are one transaction; a
\* repeated submission changes nothing.
SubmitSession(h, s, k) ==
    /\ helper[h] = IssueFree
    /\ Signed(s, k)
    /\ \/ /\ ReviewCurrent(s) /\ sessionGrant[s] = "none"
          /\ sessionGrant' = [sessionGrant EXCEPT ![s] = "active"]
          /\ review' = [review EXCEPT ![s].state = "submitting"]
          /\ ticket' = [ticket EXCEPT ![k].used = TRUE]
       \/ /\ review[s].state # "awaiting_human"
          /\ UNCHANGED <<sessionGrant, review, ticket>>
    /\ helper' = [helper EXCEPT ![h] = [at |-> "reconcile", session |-> s, next |-> "begin"]]
    /\ UNCHANGED <<operatorRev, holderRoot, drawn>>

\* A call asks for the outcome again.
AskOutcome(h, s) ==
    /\ helper[h] = IssueFree
    /\ review[s].state # "none"
    /\ helper' = [helper EXCEPT ![h] = [at |-> "reconcile", session |-> s, next |-> "done"]]
    /\ UNCHANGED <<operatorRev, review, ticket, sessionGrant, holderRoot, drawn>>

\* begin_enrollment, first part: an approved session without a challenge gets one.
BeginEnrollment(h) ==
    LET s == helper[h].session IN
    /\ helper[h].at = "begin"
    /\ \/ /\ review[s].state # "submitting"
          /\ helper' = [helper EXCEPT ![h] = IssueFree]
          /\ UNCHANGED drawn
       \/ /\ review[s].state = "submitting" /\ review[s].enrollment # 0
          /\ helper' = [helper EXCEPT ![h] = [at |-> "complete", session |-> s, challenge |-> review[s].enrollment]]
          /\ UNCHANGED drawn
       \/ /\ review[s].state = "submitting" /\ review[s].enrollment = 0
          /\ drawn[s] < Cardinality(Helpers)
          /\ drawn' = [drawn EXCEPT ![s] = @ + 1]
          /\ helper' = [helper EXCEPT ![h] = [at |-> "retain", session |-> s, challenge |-> drawn[s] + 1]]
    /\ UNCHANGED <<operatorRev, review, ticket, sessionGrant, holderRoot>>

\* Mutant of Retained: the challenge another call retained meanwhile is replaced.
LastWinsMut(h) == helper[h].challenge

\* The challenge that is kept: the first one retained.
Retained(h) ==
    IF review[helper[h].session].enrollment # 0
    THEN review[helper[h].session].enrollment
    ELSE helper[h].challenge

\* begin_enrollment, second part.
RetainChallenge(h) ==
    LET s == helper[h].session IN
    /\ helper[h].at = "retain"
    /\ review' = [review EXCEPT ![s].enrollment = Retained(h)]
    /\ helper' = [helper EXCEPT ![h] = [at |-> "complete", session |-> s, challenge |-> Retained(h)]]
    /\ UNCHANGED <<operatorRev, ticket, sessionGrant, holderRoot, drawn>>

\* complete_enrollment, first part: original_root is retained before it is issued.
CompleteEnrollment(h) ==
    LET s == helper[h].session
        c == helper[h].challenge IN
    /\ helper[h].at = "complete"
    /\ \/ /\ review[s].state \in {"submitting", "issued"}
          /\ review[s].enrollment = c /\ review[s].root \in {0, c}
          /\ review' = [review EXCEPT ![s].root = c]
          /\ helper' = [helper EXCEPT ![h].at = "issue"]
       \/ /\ ~ (/\ review[s].state \in {"submitting", "issued"}
                /\ review[s].enrollment = c /\ review[s].root \in {0, c})
          /\ helper' = [helper EXCEPT ![h] = IssueFree]
          /\ UNCHANGED review
    /\ UNCHANGED <<operatorRev, ticket, sessionGrant, holderRoot, drawn>>

\* HolderGrantHost.issue: the root is recovered, or enrolled with its challenge;
\* an assignment or a root that was revoked refuses.
IssueRoot(h) ==
    LET s == helper[h].session
        c == helper[h].challenge IN
    /\ helper[h].at = "issue"
    /\ \/ /\ holderRoot[s][c] \in {"none", "active"}
          /\ holderRoot' = [holderRoot EXCEPT ![s][c] = "active"]
          /\ helper' = [helper EXCEPT ![h] = [at |-> "reconcile", session |-> s, next |-> "completed"]]
       \/ /\ holderRoot[s][c] = "revoked"
          /\ helper' = [helper EXCEPT ![h] = IssueFree]
          /\ UNCHANGED holderRoot
    /\ UNCHANGED <<operatorRev, review, ticket, sessionGrant, drawn>>

\* The process of the application ends at any step of a call.
HelperStops(h) ==
    /\ helper[h] # IssueFree
    /\ helper' = [helper EXCEPT ![h] = IssueFree]
    /\ UNCHANGED <<operatorRev, review, ticket, sessionGrant, holderRoot, drawn>>

-----------------------------------------------------------------------------
(* reconcile                                                               *)

\* The fields complete_enrollment retains of the original request.
OriginalFields == {"id", "digest"}

\* _recover of a root that exists: it reads these fields of the original.
RecoverFields == {"id", "digest", "grant_schema"}

\* What reconcile makes of the retained original and the root's row.
Outcome(s) ==
    LET c == review[s].root IN
    IF c = 0 \/ review[s].over THEN "read"
    ELSE IF holderRoot[s][c] = "revoked" THEN "revoked"
    ELSE IF holderRoot[s][c] = "none" THEN "unknown"
    ELSE IF RecoverFields \subseteq OriginalFields THEN "issued"
    ELSE "error"

\* reconcile: stores what it found and returns the state, or raises.
Reconcile(h) ==
    LET s == helper[h].session
        o == Outcome(s)
        state == IF o \in {"issued", "revoked"} THEN o ELSE review[s].state IN
    /\ helper[h].at = "reconcile"
    /\ review' = [review EXCEPT ![s].state = state]
    /\ helper' = [helper EXCEPT ![h] =
          IF helper[h].next = "begin" /\ o # "error" /\ state = "submitting"
          THEN [at |-> "begin", session |-> s]
          ELSE IF helper[h].next = "completed"
          THEN [at |-> "completed", session |-> s, result |-> IF o = "error" THEN o ELSE state]
          ELSE IssueFree]
    /\ UNCHANGED <<operatorRev, ticket, sessionGrant, holderRoot, drawn>>

\* complete_enrollment hands its result to the caller.
ReturnResult(h) ==
    /\ helper[h].at = "completed"
    /\ helper' = [helper EXCEPT ![h] = IssueFree]
    /\ UNCHANGED <<operatorRev, review, ticket, sessionGrant, holderRoot, drawn>>

IssueNext ==
    \/ ReviseOperators
    \/ \E s \in Sessions :
          \/ PassTime(s) \/ RevokeIssuedRoots(s) \/ PrepareSession(s) \/ UpdateExpiry(s)
          \/ \E k \in IssueTickets : OwnerChallenge(s, k)
    \/ \E h \in Helpers :
          \/ \E s \in Sessions : AskOutcome(h, s) \/ \E k \in IssueTickets : SubmitSession(h, s, k)
          \/ BeginEnrollment(h) \/ RetainChallenge(h) \/ CompleteEnrollment(h) \/ IssueRoot(h)
          \/ Reconcile(h) \/ ReturnResult(h) \/ HelperStops(h)

IssueSpec == IssueInit /\ [][IssueNext]_issueVars

-----------------------------------------------------------------------------
(* Properties.                                                             *)

\* A session is granted what its owner signed, once: the assignment is active
\* only under a used challenge over the review that is retained, and however many
\* calls enroll at the same time, the one root issued is the one the review
\* names, made from the one challenge it retained.
SessionAsSigned ==
    \A s \in Sessions :
        /\ sessionGrant[s] = "active" =>
              \E k \in IssueTickets : /\ ticket[k] # NoTicket /\ ticket[k].session = s
                                 /\ ticket[k].used /\ ticket[k].rev = review[s].rev
        /\ \A c \in Draws : holderRoot[s][c] # "none" =>
              /\ sessionGrant[s] = "active"
              /\ review[s].root = c /\ review[s].enrollment = c

\* complete_enrollment of a session whose root was issued and neither revoked nor
\* out of time answers "issued" (tests/native_read/test_session_access.py).
CompletionIssues ==
    \A h \in Helpers :
        helper[h].at = "completed" =>
            LET s == helper[h].session IN
            (\E c \in Draws : holderRoot[s][c] = "active") /\ ~review[s].over =>
                helper[h].result = "issued"
=============================================================================
