--------------------------- MODULE NativeClient ---------------------------
(***************************************************************************)
(* The native client (crates/devgraph-client-native) between a request and *)
(* its dispatch.  Two ceremonies lead to a dispatch.  "page": the browser  *)
(* host asks authorize for an authorization (the fixed secS issuer runs on *)
(* files in a private directory) and execute verifies it once more and     *)
(* sends it.  "wallet": execute_with_wallet runs secS for a credential,    *)
(* the Wallet for the person's approval, secS again for the projection,    *)
(* and sends it.  While a ceremony runs, the installation may be upgraded  *)
(* (profile, issuer, Wallet trust), secS may rotate its three authority    *)
(* files, authority and caller deadlines pass, and the caller may cancel.  *)
(*                                                                         *)
(* A file is its version.  A producer manifest pins the policy and the     *)
(* registry of its own version.  A request is a model value; a projection  *)
(* is what it was issued for, under which policy and until when.           *)
(***************************************************************************)
EXTENDS Naturals

CONSTANTS
    Requests,      \* the canonical requests
    Ceremonies,    \* the calls of the client
    Unset,         \* no request, no projection
    AuthorityLife, \* the ticks a projection lives
    MaxNativeTime, \* bound: the ticks of the clock
    MaxRotations   \* bound: upgrades and rotations

VARIABLES
    disk,       \* the versions of the installed files
    ceremony,   \* the state of every call
    nativeTime  \* now()

nativeVars == <<disk, ceremony, nativeTime>>

ClientFiles == {"profile", "issuer", "wallet", "manifest", "policy", "registry"}

NoTrustRead == [manifest |-> 0, policy |-> 0, registry |-> 0]

Blank ==
    [at |-> "idle", kind |-> "page", req |-> Unset, profile |-> 0, issuer |-> 0, wallet |-> 0,
     trust |-> NoTrustRead, projection |-> Unset, approved |-> FALSE, ends |-> 0,
     stopped |-> FALSE, seen |-> 0, checked |-> 0, left |-> FALSE]

NativeInit ==
    /\ disk = [f \in ClientFiles |-> 1]
    /\ ceremony = [c \in Ceremonies |-> Blank]
    /\ nativeTime = 0

Rotations == disk.profile + disk.issuer + disk.wallet + disk.manifest - 4

-----------------------------------------------------------------------------
(* Around the calls.                                                        *)

\* An upgrade replaces the profile, the issuer or the Wallet's trust; secS rotates the
\* policy or the registry first and the manifest that pins both last.
Upgrade(f) ==
    /\ Rotations < MaxRotations
    /\ f \in {"profile", "issuer", "wallet"}
    /\ disk' = [disk EXCEPT ![f] = @ + 1]
    /\ UNCHANGED <<ceremony, nativeTime>>

RotateAuthority(f) ==
    /\ Rotations < MaxRotations
    /\ f \in {"policy", "registry", "manifest"}
    /\ IF f = "manifest" THEN disk.policy > disk.manifest /\ disk.registry > disk.manifest
                         ELSE disk[f] = disk.manifest
    /\ disk' = [disk EXCEPT ![f] = @ + 1]
    /\ UNCHANGED <<ceremony, nativeTime>>

NativeTick ==
    /\ nativeTime < MaxNativeTime
    /\ nativeTime' = nativeTime + 1
    /\ UNCHANGED <<disk, ceremony>>

CancelCeremony(c) ==
    /\ ceremony[c].at \notin {"idle", "over", "unknown", "answered"}
    /\ ~ceremony[c].stopped
    /\ ceremony' = [ceremony EXCEPT ![c].stopped = TRUE]
    /\ UNCHANGED <<disk, nativeTime>>

-----------------------------------------------------------------------------
(* The steps of a call.  Over is every early return that says so: nothing   *)
(* was sent.                                                                *)

In(c, at) == ceremony[c].at = at

Put(c, r) == ceremony' = [ceremony EXCEPT ![c] = r] /\ UNCHANGED <<disk, nativeTime>>

To(c, at) == [ceremony[c] EXCEPT !.at = at]

Over(c) == Put(c, [Blank EXCEPT !.at = "over", !.left = ceremony[c].left])

\* InstallationProfile::load: the version of the file it validated.
LoadProfile == disk.profile

\* InstallationProfile::check_current: the installed profile is the one that was loaded.
CheckCurrent(r) == r.profile = LoadProfile

\* load, WorkRequest::parse and verify_presentation accept the request; the issuer's
\* file is opened and its inputs are written to a private directory.
Authorize(c, req) ==
    /\ In(c, "idle")
    /\ Put(c, [To(c, "prepared") EXCEPT !.req = req, !.profile = LoadProfile, !.issuer = disk.issuer])

SameIssuer(r) == r.issuer = disk.issuer

\* A fixed program ran to its end, successfully, before its timeout and any cancellation.
RanToEnd(r, ok) == ok /\ ~r.stopped

\* The issuer is started only if nobody cancelled and the same binary is still there.
LaunchIssuer(c) ==
    /\ In(c, "prepared")
    /\ IF ~ceremony[c].stopped /\ SameIssuer(ceremony[c])
       THEN Put(c, To(c, "issuing")) ELSE Over(c)

\* secS (external) writes a projection for the input under its current policy, or for
\* something else, or refuses; a cancelled or late child is killed.
IssuerEnds(c, about) ==
    /\ In(c, "issuing")
    /\ ceremony[c].kind = "wallet" => ceremony[c].approved
    /\ IF ~RanToEnd(ceremony[c], about # Unset)
       THEN Over(c)
       ELSE Put(c, [To(c, "issued") EXCEPT
                       !.projection = [req |-> about, policy |-> disk.policy, until |-> nativeTime + AuthorityLife]])

\* current_trust reads the profile, the manifest, the policy, the registry, the manifest.
TrustManifest(c) ==
    /\ ceremony[c].at \in {"issued", "executing"}
    /\ IF CheckCurrent(ceremony[c])
       THEN Put(c, [ceremony[c] EXCEPT !.at = "policy", !.trust = [NoTrustRead EXCEPT !.manifest = disk.manifest]])
       ELSE Over(c)

TrustPolicy(c) ==
    /\ In(c, "policy")
    /\ Put(c, [To(c, "registry") EXCEPT !.trust.policy = disk.policy])

TrustRegistry(c) ==
    /\ In(c, "registry")
    /\ Put(c, [To(c, "again") EXCEPT !.trust.registry = disk.registry])

\* The digests the manifest pins.
PinnedManifest(t) == t.policy = t.manifest /\ t.registry = t.manifest

\* Mutant of SameManifest: the manifest is not read again.
OnceMut(t) == TRUE

SameManifest(t) == t.manifest = disk.manifest

\* "An atomic generation switch during the three reads cannot silently mix trust."
TrustAgain(c) ==
    /\ In(c, "again")
    /\ LET t == ceremony[c].trust
       IN  IF PinnedManifest(t) /\ SameManifest(t)
           THEN Put(c, [To(c, "verify") EXCEPT !.seen = disk.manifest]) ELSE Over(c)

\* verify_projection: the projection is for this request, under this policy, unexpired.
ProjectionHolds(r) ==
    /\ r.projection.req = r.req
    /\ r.projection.policy = r.trust.policy
    /\ nativeTime < r.projection.until

\* verify_authorized.  A page's first verification makes the authorization and waits for
\* execute; the second, and the Wallet path's only one, leads to the dispatch.
VerifyTrust(c) ==
    /\ In(c, "verify")
    /\ LET r == ceremony[c]
           first == r.kind = "page" /\ r.ends = 0
       IN  IF ~ProjectionHolds(r) \/ r.stopped \/ (~first /\ r.kind = "page" /\ r.ends <= nativeTime)
           THEN Over(c)
           ELSE Put(c, [To(c, IF first THEN "authorized" ELSE "ready") EXCEPT
                           !.ends = r.projection.until, !.checked = nativeTime,
                           !.trust = IF first THEN NoTrustRead ELSE @, !.seen = IF first THEN 0 ELSE @])

Execute(c) ==
    /\ In(c, "authorized")
    /\ IF ceremony[c].ends <= nativeTime THEN Over(c) ELSE Put(c, To(c, "executing"))

\* execute_with_wallet: the profile and the Wallet's trust are read, the credential asked for.
ExecuteWithWallet(c, req) ==
    /\ In(c, "idle")
    /\ Put(c, [To(c, "credential") EXCEPT !.kind = "wallet", !.req = req,
                  !.profile = LoadProfile, !.wallet = disk.wallet])

\* The attached request bytes and disclosure are those of this request and key.
Binds(r, about) == about = r.req

\* secS (external) attaches a credential request; it must bind exactly this request.
AttachCredential(c, about) ==
    /\ In(c, "credential")
    /\ IF RanToEnd(ceremony[c], Binds(ceremony[c], about)) THEN Put(c, To(c, "approving")) ELSE Over(c)

\* The person approves what the Wallet shows, or refuses, or does not answer in time.
WalletApproves(c, yes) ==
    /\ In(c, "approving")
    /\ IF RanToEnd(ceremony[c], yes) THEN Put(c, [To(c, "issuing") EXCEPT !.approved = TRUE]) ELSE Over(c)

\* The projection is read; the Wallet's trust must not have changed meanwhile.
RecheckWallet(c) ==
    /\ In(c, "issued")
    /\ ceremony[c].kind = "wallet"
    /\ IF CheckCurrent(ceremony[c]) /\ ceremony[c].wallet = disk.wallet
       THEN Put(c, To(c, "executing")) ELSE Over(c)

\* DispatchState::begin, and the request is on its way.
SendRequest(c) ==
    /\ In(c, "ready")
    /\ IF ceremony[c].stopped THEN Over(c) ELSE Put(c, [To(c, "sent") EXCEPT !.left = TRUE])

\* read: the lease has time left, the profile is current and the read credential well-formed.
ReadReceiver(c) ==
    /\ In(c, "idle")
    /\ Put(c, [To(c, "reading") EXCEPT !.kind = "read", !.profile = LoadProfile, !.ends = nativeTime + AuthorityLife])

ReadCredential(c, whole) ==
    /\ In(c, "reading")
    /\ IF ceremony[c].stopped \/ ~whole \/ ~CheckCurrent(ceremony[c]) \/ nativeTime >= ceremony[c].ends
       THEN Over(c) ELSE Put(c, To(c, "asked"))

\* The error of a call that may have left says outcome_unknown; a read's never does.
TransportError(c) ==
    IF ceremony[c].kind = "read" THEN Over(c)
    ELSE Put(c, [Blank EXCEPT !.at = "unknown", !.left = ceremony[c].left])

\* What a response head can be: acceptable, or wrong in encoding, type or length.
Heads == {"exact", "encoded", "mistyped", "oversized"}

CheckedResponse(head) == head = "exact"

\* open_response: the head arrives and is checked, or it does not arrive in time.
OpenResponse(c, head) ==
    /\ ceremony[c].at \in {"sent", "asked"}
    /\ IF ~ceremony[c].stopped /\ CheckedResponse(head)
       THEN Put(c, To(c, "streaming")) ELSE TransportError(c)

\* next_chunk: the last chunk, or a deadline, a cancellation, a broken or too long body.
NextChunk(c, done) ==
    /\ In(c, "streaming")
    /\ IF done /\ ~ceremony[c].stopped
       THEN Put(c, [Blank EXCEPT !.at = "answered", !.left = ceremony[c].left]) ELSE TransportError(c)

PageStep(c) ==
    \/ \E req \in Requests : Authorize(c, req)
    \/ LaunchIssuer(c) \/ Execute(c)

WalletStep(c) ==
    \/ \E req \in Requests : ExecuteWithWallet(c, req) \/ AttachCredential(c, req)
    \/ \E yes \in BOOLEAN : WalletApproves(c, yes)
    \/ RecheckWallet(c)

TrustStep(c) ==
    \/ \E about \in Requests \union {Unset} : IssuerEnds(c, about)
    \/ (ceremony[c].kind = "page" \/ In(c, "executing")) /\ TrustManifest(c)
    \/ TrustPolicy(c) \/ TrustRegistry(c) \/ TrustAgain(c) \/ VerifyTrust(c)
    \/ SendRequest(c)

ResponseStep(c) ==
    \/ ReadReceiver(c)
    \/ \E yes \in BOOLEAN : ReadCredential(c, yes) \/ NextChunk(c, yes)
    \/ \E head \in Heads : OpenResponse(c, head)

NativeNext ==
    \/ \E c \in Ceremonies : PageStep(c) \/ WalletStep(c) \/ TrustStep(c) \/ ResponseStep(c) \/ CancelCeremony(c)
    \/ \E f \in ClientFiles : Upgrade(f) \/ RotateAuthority(f)
    \/ NativeTick

NativeSpec == NativeInit /\ [][NativeNext]_nativeVars

-----------------------------------------------------------------------------

\* A request leaves only under trust that was whole and installed when it was verified
\* (authority.rs current_trust, verify_authorized; credential.rs execute_with_wallet): its
\* projection names this very request and the policy of the trust, the three files read
\* belong to one generation which was still the installed one when the last of them had
\* been read, the authority had not run out, and on the Wallet path the person approved.
\* And what the caller is told is true (http.rs transport_error): an error that says the
\* request was not dispatched, or that a read failed, means that nothing left.
SentAsTrusted ==
    \A c \in Ceremonies :
        LET r == ceremony[c]
        IN  /\ r.at = "sent" =>
                 /\ r.projection.req = r.req
                 /\ r.trust = [manifest |-> r.seen, policy |-> r.seen, registry |-> r.seen]
                 /\ r.projection.policy = r.seen
                 /\ r.checked < r.projection.until
                 /\ r.kind = "wallet" => r.approved
            /\ r.at = "over" => ~r.left
            /\ r.at = "unknown" => r.left

=============================================================================
