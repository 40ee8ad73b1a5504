---------------------------- MODULE SessionReview -----------------------------
(***************************************************************************)
(* Reviewed changes of a session's disposition.  The local UI              *)
(* (observability/session_actions.py) keeps one bundle per intent, named   *)
(* by the request's digest, with a request and an idempotency key that     *)
(* never change; each try is an attempt directory of write-once files and  *)
(* a Terminal window that runs session_review.py.  The runner waits for    *)
(* the person, then goes through credential issuance, the Wallet, secS and *)
(* the Work receiver (ops/credential_work_agent.py,                        *)
(* ops/named_work_v2_receiver.py, session_work_state.py).                  *)
(*                                                                         *)
(* A window may be opened late, opened again by hand, or killed; opening   *)
(* it may time out although it opens; a submission or its answer may be    *)
(* lost or late.  One session reference is modelled.                       *)
(***************************************************************************)
EXTENDS Naturals, FiniteSets, Sequences

CONSTANTS
    Runners,         \* Terminal windows
    Unheld,
    Dispositions,    \* the reviewed states a session can be given
    MaxStateVersion, \* bound: versions of the session's work state
    MaxTries,        \* bound: attempts of a bundle (20 in the code)
    MaxReviewUpsets  \* bound: kills, failed or late openings, lost messages, revocations

VARIABLES
    workState,   \* the canonical state: [version, state]
    receipts,    \* committed requests: the ticket and the attempt that brought it
    pinned,      \* whether the receiver's admission pins are in place
    tries,       \* [Tickets -> sequence of attempts]
    reviewLock,  \* [Tickets -> the runner that holds review.lock, or Unheld]
    window,      \* [Runners -> what the window is doing]
    wire,        \* submissions under way to the receiver
    opening,     \* the attempt whose window the UI is opening, or NoAttempt
    reviewUpsets

reviewVars ==
    <<workState, receipts, pinned, tries, reviewLock, window, wire, opening, reviewUpsets>>

Tickets == [to : Dispositions, expected : 1 .. MaxStateVersion - 1]
NoAttempt == <<>>
Closed == [at |-> "closed"]

ReviewInit ==
    /\ workState = [version |-> 1, state |-> "unreviewed"]
    /\ receipts = {}
    /\ pinned = TRUE
    /\ tries = [t \in Tickets |-> <<>>]
    /\ reviewLock = [t \in Tickets |-> Unheld]
    /\ window = [w \in Runners |-> Closed]
    /\ wire = {}
    /\ opening = NoAttempt
    /\ reviewUpsets = 0

ReviewUpset == reviewUpsets < MaxReviewUpsets /\ reviewUpsets' = reviewUpsets + 1

Try(a) == tries[a[1]][a[2]]
Set(a, field, v) == [tries EXCEPT ![a[1]][a[2]][field] = v]

NewAttempt(mode) ==
    [mode |-> mode, started |-> FALSE, ready |-> FALSE, cancelled |-> FALSE,
     result |-> "none", exit |-> "none", wallets |-> 0]

-----------------------------------------------------------------------------
(* The surroundings.                                                       *)

\* Another writer changes the session's disposition.
OtherWriter ==
    /\ workState.version < MaxStateVersion /\ ReviewUpset
    /\ \E s \in Dispositions \ {workState.state} :
          workState' = [version |-> workState.version + 1, state |-> s]
    /\ UNCHANGED <<receipts, pinned, tries, reviewLock, window, wire, opening>>

\* The owner revokes the managed admission bundle.
RevokePins ==
    /\ pinned /\ ReviewUpset
    /\ pinned' = FALSE
    /\ UNCHANGED <<workState, receipts, tries, reviewLock, window, wire, opening>>

-----------------------------------------------------------------------------
(* SessionStateActions: the UI, one call at a time.                        *)

\* The phase status reports for a ticket, from the files of its last attempt
\* and the canonical state.
Phase(t) ==
    LET a == tries[t][Len(tries[t])] IN
    IF tries[t] = <<>> THEN "unconfirmed"
    ELSE IF a.exit = "none" THEN "awaiting_approval"
    ELSE IF a.result = "receipt" /\ a.exit = "0"
         THEN IF workState.version > t.expected THEN "committed" ELSE "unconfirmed"
    ELSE IF a.result = "none" THEN "unconfirmed"
    ELSE "needs_review"

\* prepare_state against the current canonical state.
Prepares(t) == workState.state # t.to /\ workState.version = t.expected

\* _review: nothing while the last attempt waits, nothing while a window
\* holds the lock; otherwise a further attempt.
NextTry(t, mode) ==
    /\ tries[t] # <<>> => Phase(t) # "awaiting_approval"
    /\ reviewLock[t] = Unheld
    /\ Len(tries[t]) < MaxTries
    /\ tries' = [tries EXCEPT ![t] = Append(@, NewAttempt(mode))]
    /\ opening' = <<t, Len(tries[t]) + 1>>

\* begin: a known bundle whose intent no longer prepares is left to
\* reconciliation, a new one is prepared first.
BeginReview(t) ==
    /\ opening = NoAttempt
    /\ tries[t] # <<>> => Phase(t) # "committed"
    /\ Prepares(t)
    /\ NextTry(t, "mutation")
    /\ UNCHANGED <<workState, receipts, pinned, reviewLock, window, wire, reviewUpsets>>

ReconcileReview(t) ==
    /\ opening = NoAttempt /\ tries[t] # <<>>
    /\ NextTry(t, "reconcile")
    /\ UNCHANGED <<workState, receipts, pinned, reviewLock, window, wire, reviewUpsets>>

\* The window opens now or later, or the launch fails and is recorded so; a
\* launch that timed out may still open the window.
Launch ==
    /\ opening # NoAttempt
    /\ opening' = NoAttempt
    /\ \/ UNCHANGED <<tries, reviewUpsets>>
       \/ ReviewUpset /\ Try(opening).exit = "none" /\ tries' = Set(opening, "exit", "127")
    /\ UNCHANGED <<workState, receipts, pinned, reviewLock, window, wire>>

\* Mutant of CancelResult: every cancelled window is reported as unused.
AlwaysUnusedMut(a) == "review_cancelled"

\* What a cancelled attempt is recorded as: a window that got past the
\* person's gate may have submitted.
CancelResult(a) == IF a.ready THEN "outcome_unknown" ELSE "review_cancelled"

\* cancel: only a window that does not hold the lock.
CancelReview(t) ==
    /\ opening = NoAttempt /\ tries[t] # <<>>
    /\ reviewLock[t] = Unheld
    /\ LET n == Len(tries[t])
           a == tries[t][n]
       IN /\ a.exit = "none"
          /\ tries' = [tries EXCEPT ![t][n] =
                [a EXCEPT !.cancelled = TRUE, !.exit = "130",
                          !.result = IF @ = "none" THEN CancelResult(a) ELSE @]]
    /\ UNCHANGED <<workState, receipts, pinned, reviewLock, window, wire, opening, reviewUpsets>>

-----------------------------------------------------------------------------
(* session_review.py: the window.                                          *)

ReviewStep(w, at) == window' = [window EXCEPT ![w].at = at]

\* A window takes the lock and leaves at once when the attempt is over or
\* was begun before.  A window can be opened again by hand.
OpenWindow(w) ==
    /\ window[w] = Closed
    /\ \E t \in Tickets : \E n \in 1 .. Len(tries[t]) :
          /\ reviewLock[t] = Unheld
          /\ tries[t][n].exit = "none" /\ ~tries[t][n].cancelled /\ ~tries[t][n].started
          /\ tries' = [tries EXCEPT ![t][n].started = TRUE]
          /\ reviewLock' = [reviewLock EXCEPT ![t] = w]
          /\ window' = [window EXCEPT ![w] = [at |-> "gate", of |-> <<t, n>>, result |-> "none"]]
    /\ UNCHANGED <<workState, receipts, pinned, wire, opening, reviewUpsets>>

Ends(w, result) == window' = [window EXCEPT ![w].at = "result", ![w].result = result]

\* The person presses Return, or cancels here.
Gate(w) ==
    /\ window[w].at = "gate"
    /\ \/ /\ tries' = Set(window[w].of, "ready", TRUE)
          /\ ReviewStep(w, "issue")
       \/ Ends(w, "review_cancelled") /\ UNCHANGED tries
    /\ UNCHANGED <<workState, receipts, pinned, reviewLock, wire, opening, reviewUpsets>>

\* execute_local_credential_work up to the submission: issuance, the Wallet's
\* review and current authority may each end it with a closed error.
Present(w) ==
    /\ window[w].at = "issue"
    /\ \/ /\ tries' = Set(window[w].of, "wallets", Try(window[w].of).wallets + 1)
          /\ \/ ReviewStep(w, "submit")
             \/ Ends(w, "wallet_approval_denied")
       \/ Ends(w, "credential_issuance_denied") /\ UNCHANGED tries
    /\ UNCHANGED <<workState, receipts, pinned, reviewLock, wire, opening, reviewUpsets>>

SubmitReview(w) ==
    /\ window[w].at = "submit"
    /\ \/ /\ wire' = wire \cup {[by |-> window[w].of, to |-> w]}
          /\ ReviewStep(w, "wait")
       \/ Ends(w, "current_authority_denied") /\ UNCHANGED wire
    /\ UNCHANGED <<workState, receipts, pinned, tries, reviewLock, opening, reviewUpsets>>

\* No answer within the client's timeout, or an interrupt while waiting.
TimeOut(w) ==
    /\ window[w].at = "wait" /\ ReviewUpset
    /\ Ends(w, IF Try(window[w].of).mode = "reconcile" THEN "status_unavailable" ELSE "outcome_unknown")
    /\ UNCHANGED <<workState, receipts, pinned, tries, reviewLock, wire, opening>>

WriteResult(w) ==
    /\ window[w].at = "result"
    /\ IF Try(window[w].of).result = "none"
       THEN tries' = Set(window[w].of, "result", window[w].result) /\ ReviewStep(w, "exit")
       ELSE ReviewStep(w, "exit") /\ UNCHANGED tries
    /\ UNCHANGED <<workState, receipts, pinned, reviewLock, wire, opening, reviewUpsets>>

\* The exit code is written once: a failed launch may have written its own.
WriteExit(w) ==
    /\ window[w].at = "exit"
    /\ LET a == window[w].of IN
       /\ tries' = IF Try(a).exit = "none"
                   THEN Set(a, "exit", IF window[w].result = "receipt" THEN "0" ELSE "2")
                   ELSE tries
       /\ reviewLock' = [reviewLock EXCEPT ![a[1]] = Unheld]
    /\ window' = [window EXCEPT ![w] = Closed]
    /\ UNCHANGED <<workState, receipts, pinned, wire, opening, reviewUpsets>>

\* The window is closed by force; the kernel releases its lock.
KillWindow(w) ==
    /\ window[w] # Closed /\ ReviewUpset
    /\ window' = [window EXCEPT ![w] = Closed]
    /\ reviewLock' = [reviewLock EXCEPT ![window[w].of[1]] = Unheld]
    /\ UNCHANGED <<workState, receipts, pinned, tries, wire, opening>>

-----------------------------------------------------------------------------
(* The receiver.                                                           *)

Committed(t) == \E r \in receipts : r.of[1] = t

\* set_state: version and change of state are checked in the transaction.
Applies(t) == workState.version = t.expected /\ workState.state # t.to

\* The answer reaches a window that still waits for it.
AnswerReview(m, result) ==
    window' = IF window[m.to].at = "wait" /\ window[m.to].of = m.by
              THEN [window EXCEPT ![m.to].at = "result", ![m.to].result = result]
              ELSE window

\* SecSWorkAdapter.execute and status in the serialised transaction: pins are
\* read again, a known key is answered with its receipt, a reconciliation
\* never writes; any refusal is an unknown outcome for the client.
Receive(m) ==
    LET t == m.by[1] IN
    /\ m \in wire
    /\ wire' = wire \ {m}
    /\ IF pinned /\ (Committed(t) \/ (Try(m.by).mode = "mutation" /\ Applies(t)))
       THEN /\ AnswerReview(m, "receipt")
            /\ receipts' = IF Committed(t) THEN receipts ELSE receipts \cup {[of |-> m.by]}
            /\ workState' = IF Committed(t) THEN workState
                            ELSE [version |-> workState.version + 1, state |-> t.to]
       ELSE /\ AnswerReview(m, IF Try(m.by).mode = "reconcile" THEN "unknown" ELSE "outcome_unknown")
            /\ UNCHANGED <<receipts, workState>>
    /\ UNCHANGED <<pinned, tries, reviewLock, opening, reviewUpsets>>

\* A submission is lost, or its projection runs out before it is handled.
LoseSubmission(m) ==
    /\ m \in wire /\ ReviewUpset
    /\ wire' = wire \ {m}
    /\ UNCHANGED <<workState, receipts, pinned, tries, reviewLock, window, opening>>

-----------------------------------------------------------------------------
ReviewNext ==
    \/ OtherWriter
    \/ RevokePins
    \/ \E t \in Tickets : BeginReview(t) \/ ReconcileReview(t) \/ CancelReview(t)
    \/ Launch
    \/ \E w \in Runners :
          \/ OpenWindow(w)
          \/ Gate(w)
          \/ Present(w)
          \/ SubmitReview(w)
          \/ TimeOut(w)
          \/ WriteResult(w)
          \/ WriteExit(w)
          \/ KillWindow(w)
    \/ \E m \in wire : Receive(m) \/ LoseSubmission(m)

ReviewSpec == ReviewInit /\ [][ReviewNext]_reviewVars

-----------------------------------------------------------------------------
(* Properties                                                              *)

NotSubmitted ==
    {"review_cancelled", "credential_issuance_denied", "wallet_approval_denied", "current_authority_denied"}

Attempts == UNION {{<<t, n>> : n \in 1 .. Len(tries[t])} : t \in Tickets}

\* What the files of an attempt say is true, whatever was killed, opened
\* late or cancelled from the UI meanwhile: an attempt recorded as cancelled
\* or denied has submitted nothing and will submit nothing, one recorded
\* with a receipt and exit code 0 belongs to a committed change, and the
\* change of a bundle is committed at most once, at the version it names.  A
\* window invokes the Wallet at most once per attempt, and at most one
\* window works on a bundle (session_actions.py, session_review.py).
AttemptsAreTrue ==
    /\ \A a \in Attempts :
          /\ Try(a).result \in NotSubmitted =>
                /\ \A m \in wire : m.by # a
                /\ [of |-> a] \notin receipts
                /\ \A w \in Runners : window[w] # Closed /\ window[w].of = a =>
                      window[w].at \notin {"gate", "issue", "submit", "wait"}
          /\ Try(a).result = "receipt" /\ Try(a).exit = "0" => Committed(a[1])
          /\ Try(a).wallets <= 1
    /\ \A r, s \in receipts : r.of[1].expected = s.of[1].expected => r = s
    /\ \A t \in Tickets :
          Cardinality({w \in Runners : window[w] # Closed /\ window[w].of[1] = t}) <= 1
====
