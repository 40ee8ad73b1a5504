---------------------------- MODULE MonitorReplay -----------------------------
(***************************************************************************)
(* The signed monitor read.  A page presents a secS session and a proof    *)
(* for one request; the receiver verifies both against the time it reads   *)
(* once, then claims (session, nonce) in a durable replay file under a     *)
(* lock shared by all its processes, projects the snapshot and audits      *)
(* (auth/secs_monitor_view_read.py,                                        *)
(* ops/secs_monitor_view_read_receiver.py).                                *)
(*                                                                         *)
(* Claims are dropped when their session has expired.  The time a request  *)
(* uses may be older than the time of a request that got the lock first,   *)
(* and the clock may be set back.  A process may die at any step; a power  *)
(* failure may also undo a rename whose directory was not yet synced.      *)
(***************************************************************************)
EXTENDS Naturals, FiniteSets

CONSTANTS
    Proofs,          \* signed (session, nonce) pairs a page may present, again and again
    Viewers,         \* request handlers, over all receiver processes
    NoViewer,
    SessionEnd,      \* [Proofs -> when the session expires]
    MaxClaims,       \* the replay file's capacity
    MaxMonitorTime,  \* bound: clock
    MaxMonitorFaults \* bound: clock set-backs, failed writes, deaths and power failures

ASSUME ReplayAssumption ==
    MaxClaims \in Nat \ {0} /\ SessionEnd \in [Proofs -> Nat] /\ NoViewer \notin Viewers

VARIABLES
    wall,        \* the receiver's clock
    replayFile,  \* the replay file as processes see it: [claims, seen]
    synced,      \* the replay file a power failure leaves
    replayLock,  \* the viewer that holds the lock, or NoViewer
    viewer,      \* [Viewers -> what the handler is doing]
    answered,    \* [Proofs -> number of answers given]
    trusted,     \* whether the sessions' policy binding and key are the receiver's
    monitorFaults

replayVars ==
    <<wall, replayFile, synced, replayLock, viewer, answered, trusted, monitorFaults>>

Idle == [at |-> "idle"]

\* A request is exact, or fails one stage of the verification.
Forms == {"exact", "loose", "shapeless session", "forged session", "shapeless proof",
          "other request", "forged proof"}

Empty == [claims |-> {}, seen |-> 0]

ReplayInit ==
    /\ wall = 0
    /\ replayFile = Empty /\ synced = Empty
    /\ replayLock = NoViewer
    /\ viewer = [v \in Viewers |-> Idle]
    /\ answered = [p \in Proofs |-> 0]
    /\ trusted = TRUE
    /\ monitorFaults = 0

MonitorFault == monitorFaults < MaxMonitorFaults /\ monitorFaults' = monitorFaults + 1

Finish(v) == viewer' = [viewer EXCEPT ![v] = Idle]

-----------------------------------------------------------------------------
WallTicks ==
    /\ wall < MaxMonitorTime
    /\ wall' = wall + 1
    /\ UNCHANGED <<replayFile, synced, replayLock, viewer, answered, trusted, monitorFaults>>

WallSetBack ==
    /\ wall > 0 /\ MonitorFault
    /\ wall' = wall - 1
    /\ UNCHANGED <<replayFile, synced, replayLock, viewer, answered, trusted>>

\* The receivers are restarted with a bundle of another policy or key.
Rebind ==
    /\ trusted
    /\ trusted' = FALSE
    /\ viewer' = [v \in Viewers |-> Idle]
    /\ replayLock' = NoViewer
    /\ UNCHANGED <<wall, replayFile, synced, answered, monitorFaults>>

-----------------------------------------------------------------------------
(* A request.                                                              *)

\* _decode_canonical_header_object: both headers are canonical JSON objects.
Canonical(form) == form # "loose"

\* _validate_session_shape: exact fields, suites and lifetimes of the session.
SessionShaped(form) == form # "shapeless session"

\* _verify_session_signature with the production key of the bundle.
SessionSigned(form) == trusted /\ form # "forged session"

\* Mutant of SessionCurrent: the end of the session is still inside it.
EndIncludedMut(p) == wall <= SessionEnd[p]

\* _validate_session_authority: issuer, window and policy binding.
SessionCurrent(p) == wall < SessionEnd[p]

\* _validate_request_proof_shape: exact fields of the proof, a fresh time.
ProofShaped(form) == form # "shapeless proof"

\* _validate_transport_binding: this session, method, path, origin and body.
BoundToTransport(form) == form # "other request"

\* _verify_request_proof_signature with the page key the session names.
ProofSigned(form) == form # "forged proof"

\* verify up to the claim, with one reading of the clock.
Presentable(p, form) ==
    /\ Canonical(form) /\ SessionShaped(form) /\ SessionSigned(form) /\ SessionCurrent(p)
    /\ ProofShaped(form) /\ BoundToTransport(form) /\ ProofSigned(form)

PresentProof(v) ==
    /\ viewer[v] = Idle
    /\ \E p \in Proofs, form \in Forms :
          /\ Presentable(p, form)
          /\ viewer' = [viewer EXCEPT ![v] = [at |-> "claim", of |-> p, form |-> form, now |-> wall]]
    /\ UNCHANGED <<wall, replayFile, synced, replayLock, answered, trusted, monitorFaults>>

\* Claims that still count at time t.
Live(t) == {p \in replayFile.claims : SessionEnd[p] > t}

\* apply_claim: time never goes back, the claim is new, the file has room.
Claimable(p, t) ==
    /\ t >= replayFile.seen
    /\ p \notin Live(t)
    /\ Cardinality(Live(t)) < MaxClaims

\* _access_store: lock, read, decide; a refusal writes nothing.
Claim(v) ==
    /\ viewer[v].at = "claim"
    /\ replayLock = NoViewer
    /\ IF Claimable(viewer[v].of, viewer[v].now)
       THEN /\ replayLock' = v
            /\ viewer' = [viewer EXCEPT ![v].at = "replace"]
       ELSE Finish(v) /\ UNCHANGED replayLock
    /\ UNCHANGED <<wall, replayFile, synced, answered, trusted, monitorFaults>>

\* The temporary file is written and synced, then renamed over the store; a
\* failure before the rename denies the request and leaves the store.
Replace(v) ==
    /\ viewer[v].at = "replace"
    /\ \/ /\ replayFile' = [claims |-> Live(viewer[v].now) \cup {viewer[v].of}, seen |-> viewer[v].now]
          /\ viewer' = [viewer EXCEPT ![v].at = "sync"]
          /\ UNCHANGED <<replayLock, monitorFaults>>
       \/ /\ MonitorFault
          /\ Finish(v) /\ replayLock' = NoViewer
          /\ UNCHANGED replayFile
    /\ UNCHANGED <<wall, synced, answered, trusted>>

\* The directory is synced; a failure denies the request, the claim stays.
SyncDirectory(v) ==
    /\ viewer[v].at = "sync"
    /\ replayLock' = NoViewer
    /\ \/ /\ synced' = replayFile
          /\ viewer' = [viewer EXCEPT ![v].at = "project"]
          /\ UNCHANGED monitorFaults
       \/ MonitorFault /\ Finish(v) /\ UNCHANGED synced
    /\ UNCHANGED <<wall, replayFile, answered, trusted>>

\* build_monitor_snapshot and the audit record precede the answer.
Project(v) ==
    /\ viewer[v].at = "project"
    /\ answered' = [answered EXCEPT ![viewer[v].of] = @ + 1]
    /\ Finish(v)
    /\ UNCHANGED <<wall, replayFile, synced, replayLock, trusted, monitorFaults>>

\* The handler's process dies; the kernel releases its lock.
ViewerDies(v) ==
    /\ viewer[v] # Idle /\ MonitorFault
    /\ Finish(v)
    /\ replayLock' = IF replayLock = v THEN NoViewer ELSE replayLock
    /\ UNCHANGED <<wall, replayFile, synced, answered, trusted>>

\* Power fails: every handler is gone, an unsynced rename may be undone.
PowerFails ==
    /\ MonitorFault
    /\ viewer' = [v \in Viewers |-> Idle]
    /\ replayLock' = NoViewer
    /\ \E f \in {replayFile, synced} : replayFile' = f /\ synced' = f
    /\ UNCHANGED <<wall, answered, trusted>>

-----------------------------------------------------------------------------
ReplayNext ==
    \/ WallTicks
    \/ WallSetBack
    \/ Rebind
    \/ PowerFails
    \/ \E v \in Viewers :
          \/ PresentProof(v)
          \/ Claim(v)
          \/ Replace(v)
          \/ SyncDirectory(v)
          \/ Project(v)
          \/ ViewerDies(v)

ReplaySpec == ReplayInit /\ [][ReplayNext]_replayVars

-----------------------------------------------------------------------------
(* Properties                                                              *)

\* A signed proof is answered at most once, over every order in which
\* handlers of several processes get the lock, with claims dropped as their
\* sessions expire, clocks set back, processes killed and renames undone by
\* a power failure; an answer about to be given is to an exact request
\* and has its claim in the synced file, or its session was over at the last
\* time the file saw.  The file never holds more claims than its capacity
\* (DurableSecSMonitorViewReadReplayStore).
ReadOnce ==
    /\ \A p \in Proofs : answered[p] <= 1
    /\ \A v \in Viewers : viewer[v].at = "project" =>
          /\ viewer[v].form = "exact"
          /\ viewer[v].of \in synced.claims \/ SessionEnd[viewer[v].of] <= synced.seen
    /\ Cardinality(replayFile.claims) <= MaxClaims
====
