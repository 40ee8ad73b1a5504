---------------------------- MODULE ReadEnrollment ----------------------------
(***************************************************************************)
(* A member's read key: challenge, enrollment, signed reads and revocation *)
(* (auth/native_read.py, auth/signed_read.py, auth/member_read.py, the     *)
(* registry of auth/access_provisioning.py and the path enrollment of      *)
(* auth/path_activation.py), for one owner and one installation.           *)
(*                                                                         *)
(* Two SQLite databases take part.  The provisioning database holds the    *)
(* assignment the operators decided on, with a head revision that every    *)
(* change raises; the enrollment database remembers the newest revision it *)
(* was shown and counts the generations ("epochs") of the assignment.      *)
(* Every call takes one snapshot of the registry, persists what is new in  *)
(* it, and only then does its work, in transactions of its own; each       *)
(* compares the snapshot with both databases again.  An assignment is      *)
(* modelled by its extent (0: none), which is also its digest.             *)
(***************************************************************************)
EXTENDS Naturals, FiniteSets, TLC

CONSTANTS
    EnrollRequests,       \* enrollment challenges
    Readers,        \* server threads
    EnrollNonces,         \* of signed reads
    Unset,
    MaxExtent,      \* assignments are 1..MaxExtent
    MaxHead         \* bound: revisions of the provisioning head

ASSUME EnrollmentAssumption == MaxExtent \in Nat \ {0} /\ MaxHead \in Nat

VARIABLES
    granted,     \* provisioning database: [head, extent]
    epochRow,    \* enrollment database: newest revision seen and the member's epoch row
    request,     \* [EnrollRequests -> the challenge row and its epoch row]
    enrolled,    \* the enrollment row and path_enrollment_epochs
    cred,        \* [EnrollRequests -> the credential the challenge was turned into]
    usedNonces,      \* read_replay: credentials with the nonces they used
    reader       \* [Readers -> the call a thread runs]

enrollmentVars == <<granted, epochRow, request, enrolled, cred, usedNonces, reader>>

NoRequest == [at |-> "none"]
NoCredential == [status |-> "none"]
Waiting == [at |-> "idle"]

EnrollmentInit ==
    /\ granted = [head |-> 1, extent |-> 0]
    /\ epochRow = [head |-> 1, digest |-> 0, epoch |-> 0, active |-> FALSE]
    /\ request = [r \in EnrollRequests |-> NoRequest]
    /\ enrolled = [ceiling |-> 0, revoked |-> FALSE, epoch |-> 0]
    /\ cred = [r \in EnrollRequests |-> NoCredential]
    /\ usedNonces = {}
    /\ reader = [t \in Readers |-> Waiting]

-----------------------------------------------------------------------------
(* Outside: operators decide, time passes.                                 *)

\* activate, revoke or a narrowing observed by refresh: see AccessGrants.
ReassignHolder ==
    /\ granted.head < MaxHead
    /\ \E e \in 0..MaxExtent :
          /\ e # granted.extent \/ e > 0
          /\ granted' = [head |-> granted.head + 1, extent |-> e]
    /\ UNCHANGED <<epochRow, request, enrolled, cred, usedNonces, reader>>

\* The challenge's two minutes pass; the next challenge deletes it, and its
\* epoch row with it.
Lapse(r) ==
    /\ request[r].at = "issued"
    /\ request' = [request EXCEPT ![r] = [at |-> "gone"]]
    /\ UNCHANGED <<granted, epochRow, enrolled, cred, usedNonces, reader>>

-----------------------------------------------------------------------------
(* The start of every call.                                                *)

\* _load_registry: one consistent read of the provisioning database.
LoadRegistry(t) ==
    /\ reader[t] = Waiting
    /\ reader' = [reader EXCEPT ![t] = [at |-> "loaded", reg |-> granted]]
    /\ UNCHANGED <<granted, epochRow, request, enrolled, cred, usedNonces>>

\* The epoch row under a newer registry: a new or changed assignment is a new
\* generation, and so is its end.
Advanced(row, reg) ==
    IF reg.extent > 0
    THEN [head |-> reg.head, digest |-> reg.extent, active |-> TRUE,
          epoch |-> IF row.digest # reg.extent \/ ~row.active THEN row.epoch + 1 ELSE row.epoch]
    ELSE [row EXCEPT !.head = reg.head, !.active = FALSE,
                     !.epoch = IF row.active THEN @ + 1 ELSE @]

\* _using_registry: persists a newer revision before anything is done under it,
\* and refuses an older one.
UseRegistry(t) ==
    LET reg == reader[t].reg IN
    /\ reader[t].at = "loaded"
    /\ \/ /\ reg.head < epochRow.head
          /\ reader' = [reader EXCEPT ![t] = Waiting]
          /\ UNCHANGED epochRow
       \/ /\ reg.head >= epochRow.head
          /\ epochRow' = IF reg.head > epochRow.head THEN Advanced(epochRow, reg) ELSE epochRow
          /\ reader' = [reader EXCEPT ![t] =
                [at |-> "ready", reg |-> reg, epoch |-> IF epochRow'.active THEN epochRow'.epoch ELSE 0]]
    /\ UNCHANGED <<granted, request, enrolled, cred, usedNonces>>

\* Mutant of SnapshotCurrent: the provisioning database is not compared again.
UnattachedMut(t) == reader[t].reg.head = epochRow.head

\* _check_policy_snapshot with check_snapshot: both databases are still at the
\* snapshot's revision, and the attached one stays locked to the COMMIT.
SnapshotCurrent(t) ==
    /\ reader[t].reg.head = epochRow.head
    /\ reader[t].reg.head = granted.head

\* The member has an assignment in the snapshot.
Assigned(t) == reader[t].reg.extent > 0 /\ reader[t].epoch > 0

\* The call is refused; nothing more is stored.
Deny(t) ==
    /\ reader[t].at # "idle"
    /\ reader' = [reader EXCEPT ![t] = Waiting]
    /\ UNCHANGED <<granted, epochRow, request, enrolled, cred, usedNonces>>

-----------------------------------------------------------------------------
(* Enrollment.                                                             *)

\* NativeReadEnrollment.challenge: the challenge row.
EnrollChallenge(t, r) ==
    /\ reader[t].at = "ready" /\ Assigned(t) /\ SnapshotCurrent(t)
    /\ request[r] = NoRequest
    /\ request' = [request EXCEPT ![r] =
          [at |-> "issued", digest |-> reader[t].reg.extent, epoch |-> Unset, used |-> FALSE]]
    /\ reader' = [reader EXCEPT ![t] = [reader[t] EXCEPT !.at = "challenged"] @@ [request |-> r]]
    /\ UNCHANGED <<granted, epochRow, enrolled, cred, usedNonces>>

\* MemberReadEnrollment.challenge: the epoch row, in a second transaction.
ChallengeEpoch(t) ==
    /\ reader[t].at = "challenged" /\ SnapshotCurrent(t)
    /\ request' = IF request[reader[t].request].at = "issued"
                  THEN [request EXCEPT ![reader[t].request].epoch = reader[t].epoch]
                  ELSE request
    /\ reader' = [reader EXCEPT ![t] = Waiting]
    /\ UNCHANGED <<granted, epochRow, enrolled, cred, usedNonces>>

\* MemberReadEnrollment.enroll and the checks before the transaction: the epoch
\* and the policy the challenge was made under are the snapshot's.
Approved(t, r) ==
    /\ reader[t].at = "ready" /\ Assigned(t)
    /\ request[r].at = "issued"
    /\ request[r].epoch = reader[t].epoch
    /\ request[r].digest = reader[t].reg.extent

BeginEnroll(t, r) ==
    /\ Approved(t, r)
    /\ reader' = [reader EXCEPT ![t] = [reader[t] EXCEPT !.at = "enrolling"] @@ [request |-> r]]
    /\ UNCHANGED <<granted, epochRow, request, enrolled, cred, usedNonces>>

\* _prepare_enrollment: a new generation of the assignment may widen the ceiling;
\* the renewal of the same one may not.
Ceiling(t) ==
    IF enrolled.ceiling = 0 \/ (enrolled.epoch # reader[t].epoch /\ ~enrolled.revoked)
    THEN reader[t].reg.extent
    ELSE enrolled.ceiling

\* Mutant of EnrollHolder: the key enrolled before stays in use beside the new one.
KeepsOldMut(t) ==
    LET r == reader[t].request
        extent == reader[t].reg.extent IN
    /\ reader[t].at = "enrolling" /\ SnapshotCurrent(t)
    /\ request[r].at = "issued" /\ ~request[r].used
    /\ ~enrolled.revoked
    /\ extent <= Ceiling(t)
    /\ enrolled' = [enrolled EXCEPT !.ceiling = Ceiling(t), !.epoch = reader[t].epoch]
    /\ cred' = [cred EXCEPT ![r] = [status |-> "active", digest |-> extent, epoch |-> reader[t].epoch]]
    /\ request' = [request EXCEPT ![r].used = TRUE]
    /\ reader' = [reader EXCEPT ![t] = Waiting]
    /\ UNCHANGED <<granted, epochRow, usedNonces>>

\* NativeReadEnrollment.enroll: one transaction uses the challenge, supersedes the
\* installation's earlier credential and stores the new one.
EnrollHolder(t) ==
    LET r == reader[t].request
        extent == reader[t].reg.extent IN
    /\ reader[t].at = "enrolling" /\ SnapshotCurrent(t)
    /\ request[r].at = "issued" /\ ~request[r].used
    /\ ~enrolled.revoked
    /\ extent <= Ceiling(t)
    /\ enrolled' = [enrolled EXCEPT !.ceiling = Ceiling(t), !.epoch = reader[t].epoch]
    /\ cred' = [q \in EnrollRequests |->
          IF q = r THEN [status |-> "active", digest |-> extent, epoch |-> reader[t].epoch]
          ELSE IF cred[q].status = "active" THEN [cred[q] EXCEPT !.status = "superseded"]
          ELSE cred[q]]
    /\ request' = [request EXCEPT ![r].used = TRUE]
    /\ reader' = [reader EXCEPT ![t] = Waiting]
    /\ UNCHANGED <<granted, epochRow, usedNonces>>

-----------------------------------------------------------------------------
(* Reads and revocation.                                                   *)

\* verify_request accepts: the credential is the active one, of this assignment
\* and generation, and the nonce is new.
Verifies(t, r, n) ==
    /\ reader[t].at = "ready" /\ Assigned(t) /\ SnapshotCurrent(t)
    /\ cred[r].status = "active"
    /\ cred[r].digest = reader[t].reg.extent /\ cred[r].epoch = reader[t].epoch
    /\ <<r, n>> \notin usedNonces

VerifyRequest(t, r, n) ==
    /\ Verifies(t, r, n)
    /\ usedNonces' = usedNonces \cup {<<r, n>>}
    /\ reader' = [reader EXCEPT ![t] = Waiting]
    /\ UNCHANGED <<granted, epochRow, request, enrolled, cred>>

\* revoke: the installation's enrollment and all its credentials, for good.
RevokeCredential(r) ==
    /\ cred[r].status # "none"
    /\ ~enrolled.revoked
    /\ enrolled' = [enrolled EXCEPT !.revoked = TRUE]
    /\ cred' = [q \in EnrollRequests |->
          IF cred[q].status = "none" THEN cred[q] ELSE [cred[q] EXCEPT !.status = "revoked"]]
    /\ UNCHANGED <<granted, epochRow, request, usedNonces, reader>>

EnrollmentNext ==
    \/ ReassignHolder
    \/ \E r \in EnrollRequests : Lapse(r) \/ RevokeCredential(r)
    \/ \E t \in Readers :
          \/ LoadRegistry(t) \/ UseRegistry(t) \/ Deny(t)
          \/ ChallengeEpoch(t) \/ EnrollHolder(t)
          \/ \E r \in EnrollRequests : EnrollChallenge(t, r) \/ BeginEnroll(t, r)
          \/ \E r \in EnrollRequests, n \in EnrollNonces : VerifyRequest(t, r, n)

EnrollmentSpec == EnrollmentInit /\ [][EnrollmentNext]_enrollmentVars

-----------------------------------------------------------------------------
(* Properties.                                                             *)

\* At most one credential of an installation is active, and none once its
\* enrollment is revoked: a key that was replaced or revoked stays dead.  A
\* credential never reaches beyond the ceiling of the enrollment.
EnrollmentInv ==
    LET active == {r \in EnrollRequests : cred[r].status = "active"} IN
    /\ Cardinality(active) <= 1
    /\ enrolled.revoked => active = {}
    /\ \A r \in active : cred[r].digest <= enrolled.ceiling

\* A signed read is accepted only while the assignment its credential was issued
\* for is the one in force: "Concurrent revocation must wait, rather than slip
\* between the current-grant check and authorization."
ReadsUnderLiveGrant ==
    [][\A r \in EnrollRequests, n \in EnrollNonces :
          <<r, n>> \in usedNonces' \ usedNonces =>
              /\ cred[r].status = "active"
              /\ granted.extent > 0 /\ granted.extent = cred[r].digest
              /\ granted' = granted
              /\ ~enrolled.revoked]_enrollmentVars
=============================================================================
