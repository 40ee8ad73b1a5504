----------------------------- MODULE SignedWork -------------------------------
(***************************************************************************)
(* Signed writes and the five ways a request reaches a receiver:           *)
(*   "issue"       the Wallet signs the caller's files, and the exact      *)
(*                 Issue receiver reads those files again                  *)
(*                 (ops/secs_issue_create_wallet.py, _receiver.py);        *)
(*   "agent"       the same receiver, on a private snapshot of the files   *)
(*                 (ops/secs_issue_create_agent.py);                       *)
(*   "work"        a snapshot, over HTTP to the named Work receiver        *)
(*                 (ops/named_work_agent.py, auth/secs_work.py);           *)
(*   "credential"  a credential first, then the Wallet, then the second    *)
(*                 version of that receiver, or a question to it about an  *)
(*                 earlier request (ops/credential_work_agent.py);         *)
(*   "browser"     the same from a page, through the host process that     *)
(*                 runs secS (ops/browser_credential_work.py,              *)
(*                 api/credential_work.py).                                *)
(*                                                                         *)
(* The caller may edit the files, the owner may rotate the policy of the   *)
(* managed receiver bundle, activate it for the second version, retire the *)
(* verifier key or withdraw the page's origin, and time passes, between    *)
(* any two steps.  The Wallet and secS are external programs.              *)
(***************************************************************************)
EXTENDS Naturals, FiniteSets

CONSTANTS
    Contents,     \* contents of the request file
    Keys,         \* contents of the idempotency-key file
    Agents,       \* command invocations and page requests
    Lifetime,     \* how long a projection is valid
    MaxChanges    \* bound: what happens around the invocations

VARIABLES
    caller,       \* the caller's files: [request, key]
    tick,
    binding,      \* the policy the managed receiver bundle is bound to
    activated,    \* the policy the second bundle was activated for
    keyActive,    \* whether the secS verifier key is in production
    origin,       \* whether the page's origin is admitted
    agent,        \* [Agents -> what the invocation is doing]
    effects,      \* mutations committed, each with what it was committed from
    audited,      \* invocations whose result has an audit record
    changes

signedWorld == <<caller, tick, binding, activated, keyActive, origin, changes>>
signedVars == <<signedWorld, agent, effects, audited>>

NoTrust == [policy |-> 0, active |-> FALSE]
Unstarted == [at |-> "new"]
SignedForms == {"exact", "malformed", "forged"}
ExactIssue == {"issue", "agent"}
SecondVersion == {"credential", "browser"}
Receivers == ExactIssue \cup {"work"} \cup SecondVersion

SignedInit ==
    /\ caller \in [request : Contents, key : Keys]
    /\ tick = 0 /\ binding = 1 /\ activated = 1 /\ keyActive = TRUE /\ origin = TRUE
    /\ agent = [a \in Agents |-> Unstarted]
    /\ effects = {} /\ audited = {} /\ changes = 0

Goes(a, at) == agent' = [agent EXCEPT ![a].at = at]
Says(a, word) == agent' = [agent EXCEPT ![a].at = "done", ![a].said = word, ![a].loaded = NoTrust]

\* Once the credential command has submitted, every failure is an unknown
\* outcome to its caller; the other commands pass the refusal on.
Refuses(a, word) == Says(a, IF agent[a].path = "credential" THEN "unknown" ELSE word)

-----------------------------------------------------------------------------
(* The surroundings.                                                       *)

SignedChange ==
    /\ changes < MaxChanges
    /\ changes' = changes + 1
    /\ UNCHANGED <<agent, effects, audited>>

EditFiles ==
    /\ SignedChange
    /\ \E f \in [request : Contents, key : Keys] : f # caller /\ caller' = f
    /\ UNCHANGED <<tick, binding, activated, keyActive, origin>>

TickOn ==
    /\ SignedChange
    /\ tick' = tick + 1
    /\ UNCHANGED <<caller, binding, activated, keyActive, origin>>

RotatePolicy ==
    /\ SignedChange
    /\ binding' = binding + 1
    /\ UNCHANGED <<caller, tick, activated, keyActive, origin>>

ActivateSecond ==
    /\ SignedChange
    /\ activated # binding
    /\ activated' = binding
    /\ UNCHANGED <<caller, tick, binding, keyActive, origin>>

RetireKey ==
    /\ SignedChange
    /\ keyActive /\ keyActive' = FALSE
    /\ UNCHANGED <<caller, tick, binding, activated, origin>>

WithdrawOrigin ==
    /\ SignedChange
    /\ origin /\ origin' = FALSE
    /\ UNCHANGED <<caller, tick, binding, activated, keyActive>>

-----------------------------------------------------------------------------
(* The commands.                                                           *)

\* The commands snapshot the files, except the Wallet command, which passes
\* their paths on.  "ask" is the question about an earlier request.
StartAgent(a, path, job) ==
    /\ agent[a] = Unstarted
    /\ job = "ask" => path \in SecondVersion
    /\ agent' = [agent EXCEPT ![a] =
          [at |-> IF path \in SecondVersion THEN "prepare" ELSE "sign", path |-> path, job |-> job,
           files |-> caller, said |-> "nothing",
           proof |-> [form |-> "none"], loaded |-> NoTrust]]
    /\ UNCHANGED <<signedWorld, effects, audited>>

\* require_origin
OriginAdmitted(a) == agent[a].path = "browser" => origin

\* issue-credential: the presentation request must carry this request and key.
PrepareCredential(a) ==
    /\ agent[a].at = "prepare"
    /\ \/ OriginAdmitted(a) /\ Goes(a, "sign")
       \/ Says(a, "not_submitted")
    /\ UNCHANGED <<signedWorld, effects, audited>>

\* What the Wallet is shown: the snapshot, or the files as they are now.
ShownFiles(a) == IF agent[a].path = "issue" THEN caller ELSE agent[a].files

Projection(form, files) ==
    [form |-> form, of |-> files, policy |-> binding, issued |-> tick, expires |-> tick + Lifetime]

\* The fixed Wallet and secS programs, or their refusal: nothing is submitted.
SignRequest(a) ==
    /\ agent[a].at = "sign"
    /\ \/ \E form \in SignedForms :
             agent' = [agent EXCEPT ![a].at = "submit", ![a].proof = Projection(form, ShownFiles(a))]
       \/ Says(a, "not_submitted")
    /\ UNCHANGED <<signedWorld, effects, audited>>

\* The receiver takes the request: the snapshot over HTTP, or by reading the
\* files again, with the receiver bundle as it is now.  A question goes to
\* the transaction at once.
Submitted(a, p) ==
    [agent[a] EXCEPT !.at = IF agent[a].job = "ask" THEN "status" ELSE "verify",
                     !.files = ShownFiles(a), !.proof = p,
                     !.loaded = IF agent[a].path \in ExactIssue
                                THEN [policy |-> binding, active |-> keyActive] ELSE NoTrust]

SubmitWork(a) ==
    /\ agent[a].at = "submit" /\ agent[a].path # "browser"
    /\ agent' = [agent EXCEPT ![a] = Submitted(a, agent[a].proof)]
    /\ UNCHANGED <<signedWorld, effects, audited>>

\* submit and authorize: the page sends its request and the presentation; the
\* host checks origin and disclosure, and secS makes the projection only now.
SubmitFromPage(a) ==
    LET p == agent[a].proof IN
    /\ agent[a].at = "submit" /\ agent[a].path = "browser"
    /\ \E sent \in [request : Contents, key : Keys] :
          IF origin /\ p.of = sent
          THEN \/ agent' = [agent EXCEPT ![a] = Submitted(a, Projection(p.form, sent))]
               \/ Says(a, "denied")
          ELSE Says(a, "denied")
    /\ UNCHANGED <<signedWorld, effects, audited>>

-----------------------------------------------------------------------------
(* Verification of a projection.                                           *)

\* _validate_projection_shape: exact fields, suites, digests and lengths.
WellFormed(p) == p.form # "malformed"

\* The bundle of the Issue receiver, loaded once per call.
IssueTrust(a) == agent[a].loaded

\* The managed bundle, read again for each verification.
NamedTrust == [policy |-> binding, active |-> keyActive]

\* The second bundle, valid only while the managed one has the same pins.
CredentialTrust == [policy |-> activated, active |-> keyActive /\ activated = binding]

\* require_production_key: one active production key within its window.
KeyTrusted(trust) == trust.active

\* _verify_projection_signature over the canonical unsigned projection.
SignatureValid(p) == p.form # "forged"

\* _validate_projection_authority: the receiver's own time and audience.
WithinLifetime(p) == p.issued <= tick /\ tick < p.expires

\* require_binding
PolicyPinned(p, trust) == p.policy = trust.policy

\* Request, idempotency-key and resource digests of what the receiver holds.
BindsRequest(p, files) == p.of = files

\* SecSIssueCreateVerifier.verify
VerifiesIssue(p, files, trust) ==
    /\ WellFormed(p) /\ WithinLifetime(p) /\ PolicyPinned(p, trust)
    /\ KeyTrusted(trust) /\ SignatureValid(p) /\ BindsRequest(p, files)

\* SecSWorkVerifier.verify
VerifiesWork(p, files, trust) ==
    /\ WellFormed(p) /\ WithinLifetime(p)
    /\ KeyTrusted(trust) /\ SignatureValid(p) /\ PolicyPinned(p, trust)
    /\ BindsRequest(p, files)

\* SecSWorkV2Verifier.verify: the credential and the disclosure also bind
\* request and key.
VerifiesCredential(p, files, trust) ==
    /\ WellFormed(p) /\ WithinLifetime(p)
    /\ KeyTrusted(trust) /\ SignatureValid(p) /\ PolicyPinned(p, trust)
    /\ BindsRequest(p, files)

ProjectionVerified(a) ==
    LET p == agent[a].proof
        files == agent[a].files
    IN
    CASE agent[a].path \in ExactIssue -> VerifiesIssue(p, files, IssueTrust(a))
      [] agent[a].path = "work" -> VerifiesWork(p, files, NamedTrust)
      [] OTHER -> VerifiesCredential(p, files, CredentialTrust)

VerifyWork(a) ==
    /\ agent[a].at = "verify"
    /\ IF ProjectionVerified(a) THEN Goes(a, "commit") ELSE Refuses(a, "denied")
    /\ UNCHANGED <<signedWorld, effects, audited>>

-----------------------------------------------------------------------------
(* The transaction.                                                        *)

\* Mutant of Admitted: the projection is not verified again in the transaction.
OnArrivalMut(a) == TRUE

\* The second verification, inside the transaction, of the named Work paths.
Admitted(a) == agent[a].path \notin ExactIssue => ProjectionVerified(a)

\* The claim of the caller's idempotency key (one actor signs).
ClaimOf(key) == {e \in effects : e.files.key = key}

\* _require_matching_scope: the same request for the same operation.
SameScope(a, e) ==
    /\ e.files = agent[a].files
    /\ (e.path \in ExactIssue) = (agent[a].path \in ExactIssue)

\* The write transaction: an existing claim answers as a duplicate when it
\* was for the same request and operation, and conflicts otherwise; a
\* request whose subject exists already fails and leaves no claim.
CommitWork(a) ==
    LET mine == agent[a].files
        claim == ClaimOf(mine.key)
    IN
    /\ agent[a].at = "commit"
    /\ IF ~Admitted(a) THEN Refuses(a, "denied") /\ UNCHANGED <<effects, audited>>
       ELSE IF claim # {}
       THEN IF \A e \in claim : SameScope(a, e)
            THEN Says(a, "duplicate") /\ audited' = audited \cup {a} /\ UNCHANGED effects
            ELSE Refuses(a, "conflict") /\ UNCHANGED <<effects, audited>>
       ELSE IF \E e \in effects : e.files.request = mine.request
       THEN Refuses(a, "conflict") /\ UNCHANGED <<effects, audited>>
       ELSE /\ effects' = effects \cup
                  {[files |-> mine, path |-> agent[a].path, by |-> a, at |-> tick, under |-> binding]}
            /\ audited' = audited \cup {a}
            /\ Says(a, "created")
    /\ UNCHANGED signedWorld

\* status: verified inside the transaction; an absent receipt stays unknown.
ReadStatus(a) ==
    LET claim == ClaimOf(agent[a].files.key) IN
    /\ agent[a].at = "status"
    /\ IF ~ProjectionVerified(a) THEN Refuses(a, "denied")
       ELSE IF claim = {} THEN Says(a, "unknown")
       ELSE IF \A e \in claim : SameScope(a, e) THEN Says(a, "committed")
       ELSE Refuses(a, "conflict")
    /\ UNCHANGED <<signedWorld, effects, audited>>

\* The invocation is interrupted, or the answer is lost, at any point after
\* the submission: the outcome is unknown to the caller.
AgentStops(a) ==
    /\ \/ agent[a].at \in {"verify", "commit", "status"}
       \/ agent[a].at = "done" /\ agent[a].said \notin {"not_submitted", "unknown"}
    /\ Says(a, "unknown")
    /\ UNCHANGED <<signedWorld, effects, audited>>

-----------------------------------------------------------------------------
SignedNext ==
    \/ EditFiles
    \/ TickOn
    \/ RotatePolicy
    \/ ActivateSecond
    \/ RetireKey
    \/ WithdrawOrigin
    \/ \E a \in Agents :
          \/ \E path \in Receivers, job \in {"write", "ask"} : StartAgent(a, path, job)
          \/ PrepareCredential(a)
          \/ SignRequest(a)
          \/ SubmitWork(a)
          \/ SubmitFromPage(a)
          \/ VerifyWork(a)
          \/ CommitWork(a)
          \/ ReadStatus(a)
          \/ AgentStops(a)

SignedSpec == SignedInit /\ [][SignedNext]_signedVars

-----------------------------------------------------------------------------
(* Properties                                                              *)

\* Only what was signed is written: a committed mutation is the request and
\* key its invocation's Wallet signed, whatever happened to the files since;
\* on the named Work paths it was committed within the projection's lifetime
\* and under the managed policy then in place, however long it queued; a key
\* is spent once; every commit and every duplicate answer has its audit
\* record; an invocation that reports that nothing was submitted, denied or
\* in conflict, and one that only asks, has written nothing; and the answer
\* that a request was committed is about that request and key
\* (secs_work.py, secs_issue_create.py, named_work_v2_receiver.py).
CommitsAsSigned ==
    /\ \A e \in effects :
          LET p == agent[e.by].proof IN
          /\ p.form = "exact" /\ p.of = e.files
          /\ e.path \notin ExactIssue => e.at < p.expires /\ e.under = p.policy
          /\ e.by \in audited
    /\ \A e, f \in effects : e.files.key = f.files.key => e = f
    /\ \A a \in Agents : agent[a] # Unstarted =>
          /\ agent[a].said \in {"not_submitted", "denied", "conflict"} \/ agent[a].job = "ask" =>
                \A e \in effects : e.by # a
          /\ agent[a].said \in {"created", "duplicate", "committed"} =>
                \E e \in effects : SameScope(a, e)
====
