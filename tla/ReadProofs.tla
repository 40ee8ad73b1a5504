----------------------------- MODULE ReadProofs -----------------------------
(***************************************************************************)
(* Proofs about the reads that rest on a credential, for every set of      *)
(* items, credentials, calls and handlers: the view read of the monitor,   *)
(* whose signed proof counts once (MonitorReplay), and the delegated read  *)
(* surface (DelegatedReads).                                               *)
(***************************************************************************)
EXTENDS MonitorReplay, DelegatedReads, FiniteSetTheorems, TLAPS

-----------------------------------------------------------------------------
(* MonitorReplay.  What is spent in the synced file is spent in the file     *)
(* that processes see, and an answered proof is spent for good: its claim   *)
(* is kept until the time the file has seen is past its session.            *)

ReplayPlaces == {"claim", "replace", "sync", "project"}

Busy == [at : ReplayPlaces, of : Proofs, form : Forms, now : Nat]

ReplayFiles == [claims : SUBSET Proofs, seen : Nat]

\* A file that admits no further claim of p.
Spent(f, p) == p \in f.claims \/ SessionEnd[p] <= f.seen

LiveIn(f, t) == {p \in f.claims : SessionEnd[p] > t}

Fits(f) == f \in ReplayFiles /\ IsFiniteSet(f.claims) /\ Cardinality(f.claims) <= MaxClaims

\* A power failure loses a claim only before it is answered: what the synced file
\* s refuses, the present file f refuses too.
FilesAgree(f, s) == Fits(f) /\ Fits(s) /\ \A p \in Proofs : Spent(s, p) => Spent(f, p)

\* What holds of handler v at x, with the files f and s and the lock l.
SoundViewer(v, x, f, s, l) ==
    /\ x = Idle \/ (x \in Busy /\ x.form = "exact" /\ x.now < SessionEnd[x.of])
    /\ x.at = "replace" => /\ l = v /\ ~Spent(f, x.of) /\ f.seen <= x.now
                           /\ Cardinality(LiveIn(f, x.now)) < MaxClaims
    /\ x.at = "sync" => l = v /\ x.of \in f.claims /\ ~Spent(s, x.of)
    /\ x.at = "project" => Spent(s, x.of)

\* An answered proof is spent, and nobody is about to answer it; nor do two.
AnsweredOnce(V, A, s) ==
    /\ A \in [Proofs -> {0, 1}]
    /\ \A p \in Proofs : A[p] = 1 => Spent(s, p)
    /\ \A v \in Viewers : V[v].at = "project" => A[V[v].of] = 0
    /\ \A u, v \in Viewers : V[u].at = "project" /\ V[v].at = "project" /\ V[u].of = V[v].of => u = v

\* The inductive invariant.
ReplayIInv ==
    /\ wall \in Nat
    /\ FilesAgree(replayFile, synced)
    /\ viewer = [v \in Viewers |-> viewer[v]]
    /\ \A v \in Viewers : SoundViewer(v, viewer[v], replayFile, synced, replayLock)
    /\ AnsweredOnce(viewer, answered, synced)

LEMMA IdleFacts == Idle.at = "idle" /\ Idle.at \notin ReplayPlaces
BY Zenon DEF Idle, ReplayPlaces

LEMMA BusyFacts ==
  ASSUME NEW x \in Busy, NEW a \in ReplayPlaces
  PROVE  /\ [x EXCEPT !.at = a] \in Busy /\ [x EXCEPT !.at = a].at = a
         /\ [x EXCEPT !.at = a].of = x.of /\ [x EXCEPT !.at = a].form = x.form
         /\ [x EXCEPT !.at = a].now = x.now /\ x.of \in Proofs /\ x.now \in Nat /\ x # Idle
<1>1. x # Idle
  BY IdleFacts, Zenon DEF Busy
<1> QED
  BY <1>1, Zenon DEF Busy

\* An idle handler is sound whatever the files and the lock are.
LEMMA IdleIsSound ==
  ASSUME NEW v, NEW f, NEW s, NEW l PROVE SoundViewer(v, Idle, f, s, l)
BY IdleFacts, Zenon DEF SoundViewer, ReplayPlaces

\* A handler that holds no lock is sound whatever becomes of the file and the
\* lock, while what the synced file refuses stays refused.
LEMMA OthersStay ==
  ASSUME NEW v, NEW x, NEW f, NEW s, NEW l, NEW g, NEW t, NEW k,
         SoundViewer(v, x, f, s, l), l # v,
         \A p \in Proofs : Spent(s, p) => Spent(t, p)
  PROVE  SoundViewer(v, x, g, t, k)
<1>1. CASE x = Idle
  BY <1>1, IdleIsSound, Zenon
<1>2. CASE x \in Busy
  <2>1. x.at \notin {"replace", "sync"}
    BY Zenon DEF SoundViewer
  <2>2. x.at = "project" => Spent(t, x.of)
    BY <1>2, Zenon DEF SoundViewer, Busy
  <2>3. x.form = "exact" /\ x.now < SessionEnd[x.of]
    BY <1>2, BusyFacts, IdleFacts, Zenon DEF SoundViewer, Busy
  <2> QED
    BY <1>2, <2>1, <2>2, <2>3, Zenon DEF SoundViewer
<1> QED
  BY <1>1, <1>2, Zenon DEF SoundViewer

\* Handler v is written.
LEMMA ViewerPut ==
  ASSUME ReplayIInv, NEW v \in Viewers, NEW x, viewer' = [viewer EXCEPT ![v] = x]
  PROVE  /\ viewer' = [u \in Viewers |-> viewer'[u]] /\ viewer'[v] = x
         /\ \A u \in Viewers \ {v} : viewer'[u] = viewer[u]
<1>1. viewer = [u \in Viewers |-> viewer[u]]
  BY Zenon DEF ReplayIInv
<1> QED
  BY <1>1, Zenon

\* A step that moves handler v to a place before the answer.
LEMMA MovesOn ==
  ASSUME NEW V, NEW A, NEW s, NEW W, AnsweredOnce(V, A, s),
         NEW v \in Viewers, W[v].at # "project", \A u \in Viewers \ {v} : W[u] = V[u]
  PROVE  AnsweredOnce(W, A, s)
<1>1. \A u \in Viewers : W[u].at = "project" => W[u] = V[u]
  OBVIOUS
<1> QED
  BY <1>1, Zenon DEF AnsweredOnce

LEMMA AllIdle ==
  ASSUME NEW A, NEW s, NEW W, \A u \in Viewers : W[u] = Idle,
         A \in [Proofs -> {0, 1}], \A p \in Proofs : A[p] = 1 => Spent(s, p)
  PROVE  AnsweredOnce(W, A, s)
<1>1. \A u \in Viewers : W[u].at # "project"
  BY IdleFacts, Zenon DEF ReplayPlaces
<1> QED
  BY <1>1, Zenon DEF AnsweredOnce

\* A handler gives up; its lock, if it has it, is released.
LEMMA GivesUp ==
  ASSUME ReplayIInv, NEW v \in Viewers, Finish(v), UNCHANGED <<wall, replayFile, synced, answered>>,
         \A u \in Viewers \ {v} : replayLock = u => replayLock' = u
  PROVE  ReplayIInv'
<1>1. /\ viewer' = [u \in Viewers |-> viewer'[u]] /\ viewer'[v] = Idle
      /\ \A u \in Viewers \ {v} : viewer'[u] = viewer[u]
  BY ViewerPut, Zenon DEF Finish
<1>2. ASSUME NEW u \in Viewers
      PROVE  SoundViewer(u, viewer'[u], replayFile, synced, replayLock')
  <2>0. SoundViewer(u, viewer[u], replayFile, synced, replayLock)
    BY Zenon DEF ReplayIInv
  <2>1. CASE u = v
    BY <1>1, <2>1, IdleIsSound, Zenon
  <2>2. CASE u # v /\ replayLock = u
    BY <1>1, <2>0, <2>2, Zenon
  <2>3. CASE u # v /\ replayLock # u
    BY <1>1, <2>0, <2>3, OthersStay, Zenon
  <2> QED
    BY <2>1, <2>2, <2>3, Zenon
<1>3. AnsweredOnce(viewer', answered, synced)
  <2>1. viewer'[v].at # "project" /\ AnsweredOnce(viewer, answered, synced)
    BY <1>1, IdleFacts, Zenon DEF ReplayPlaces, ReplayIInv
  <2> QED
    BY <1>1, <2>1, MovesOn, Zenon
<1> QED
  BY <1>1, <1>2, <1>3, Zenon DEF ReplayIInv

LEMMA ReplayInitSound == ReplayInit => ReplayIInv
<1> SUFFICES ASSUME ReplayInit PROVE ReplayIInv
  OBVIOUS
<1>1. Fits(Empty)
  <2>1. Empty \in ReplayFiles /\ Empty.claims = {}
    BY Zenon DEF Empty, ReplayFiles
  <2>2. IsFiniteSet({}) /\ Cardinality({}) = 0
    BY FS_EmptySet, Zenon
  <2> QED
    BY <2>1, <2>2, ReplayAssumption DEF Fits
<1>2. FilesAgree(replayFile, synced)
  BY <1>1, Zenon DEF FilesAgree, ReplayInit
<1>3. viewer = [v \in Viewers |-> viewer[v]] /\ \A v \in Viewers : viewer[v] = Idle
  BY Zenon DEF ReplayInit
<1>4. \A v \in Viewers : SoundViewer(v, viewer[v], replayFile, synced, replayLock)
  BY <1>3, IdleIsSound, Zenon
<1>5. answered \in [Proofs -> {0, 1}] /\ \A p \in Proofs : answered[p] # 1
  BY DEF ReplayInit
<1>6. AnsweredOnce(viewer, answered, synced)
  BY <1>3, <1>5, AllIdle, Zenon
<1> QED
  BY <1>2, <1>3, <1>4, <1>6, Zenon DEF ReplayIInv, ReplayInit

LEMMA PresentKeeps == ASSUME ReplayIInv, NEW v \in Viewers, PresentProof(v) PROVE ReplayIInv'
<1>1. PICK p \in Proofs, form \in Forms :
        /\ Presentable(p, form)
        /\ viewer' = [viewer EXCEPT ![v] = [at |-> "claim", of |-> p, form |-> form, now |-> wall]]
  BY Zenon DEF PresentProof
<1>2. PICK x \in Busy : /\ x = [at |-> "claim", of |-> p, form |-> form, now |-> wall]
                        /\ x.at = "claim" /\ x.of = p /\ x.form = form /\ x.now = wall
  <2>1. wall \in Nat
    BY Zenon DEF ReplayIInv
  <2>2. [at |-> "claim", of |-> p, form |-> form, now |-> wall] \in Busy
    BY <2>1, Zenon DEF Busy, ReplayPlaces
  <2> QED
    BY <2>2, Zenon
<1>3. form = "exact" /\ wall < SessionEnd[p]
  BY <1>1, Zenon DEF Presentable, Forms, Canonical, SessionShaped, SessionSigned, SessionCurrent,
              ProofShaped, BoundToTransport, ProofSigned
<1>4. UNCHANGED <<wall, replayFile, synced, replayLock, answered>>
  BY Zenon DEF PresentProof
<1>5. /\ viewer' = [u \in Viewers |-> viewer'[u]] /\ viewer'[v] = x
      /\ \A u \in Viewers \ {v} : viewer'[u] = viewer[u]
  BY <1>1, <1>2, ViewerPut, Zenon
<1>6. SoundViewer(v, x, replayFile, synced, replayLock)
  BY <1>2, <1>3, Zenon DEF SoundViewer
<1>7. \A u \in Viewers : SoundViewer(u, viewer'[u], replayFile, synced, replayLock)
  BY <1>5, <1>6, Zenon DEF ReplayIInv
<1>8. AnsweredOnce(viewer', answered, synced)
  <2>1. viewer'[v].at # "project" /\ AnsweredOnce(viewer, answered, synced)
    BY <1>2, <1>5, Zenon DEF ReplayIInv
  <2> QED
    BY <1>5, <2>1, MovesOn, Zenon
<1> QED
  BY <1>4, <1>5, <1>7, <1>8, Zenon DEF ReplayIInv

LEMMA ClaimKeeps == ASSUME ReplayIInv, NEW v \in Viewers, Claim(v) PROVE ReplayIInv'
<1>1. CASE ~Claimable(viewer[v].of, viewer[v].now)
  <2>1. Finish(v) /\ UNCHANGED <<wall, replayFile, synced, answered, replayLock>>
    BY <1>1, Zenon DEF Claim
  <2> QED
    BY <2>1, GivesUp, Zenon
<1>2. CASE Claimable(viewer[v].of, viewer[v].now)
  <2>1. PICK x \in Busy : x = viewer[v] /\ x.form = "exact" /\ x.now < SessionEnd[x.of]
    BY IdleFacts, Zenon DEF Claim, ReplayIInv, SoundViewer, ReplayPlaces
  <2>2. PICK y \in Busy : /\ y = [x EXCEPT !.at = "replace"]
                          /\ y.at = "replace" /\ y.of = x.of /\ y.form = x.form /\ y.now = x.now
    BY BusyFacts, Zenon DEF ReplayPlaces
  <2>3. /\ replayLock = NoViewer /\ replayLock' = v /\ viewer' = [viewer EXCEPT ![v] = y]
        /\ UNCHANGED <<wall, replayFile, synced, answered>>
    BY <1>2, <2>1, <2>2, Zenon DEF Claim
  <2>4. /\ viewer' = [u \in Viewers |-> viewer'[u]] /\ viewer'[v] = y
        /\ \A u \in Viewers \ {v} : viewer'[u] = viewer[u]
    BY <2>3, ViewerPut, Zenon
  <2>5. /\ x.of \in Proofs /\ x.now \in Nat /\ SessionEnd[x.of] \in Nat /\ replayFile.seen \in Nat
        /\ replayFile.claims \subseteq Proofs
    BY <2>1, BusyFacts, ReplayAssumption, Zenon DEF Busy, ReplayIInv, FilesAgree, Fits, ReplayFiles
  <2>6. /\ x.now >= replayFile.seen /\ x.of \notin LiveIn(replayFile, x.now)
        /\ Cardinality(LiveIn(replayFile, x.now)) < MaxClaims
    BY <1>2, <2>1, Zenon DEF Claimable, Live, LiveIn
  <2>7. ~Spent(replayFile, x.of) /\ replayFile.seen <= x.now
    BY <2>1, <2>5, <2>6 DEF Spent, LiveIn
  <2>8. SoundViewer(v, y, replayFile, synced, v)
    BY <2>1, <2>2, <2>6, <2>7, Zenon DEF SoundViewer
  <2>9. ASSUME NEW u \in Viewers PROVE SoundViewer(u, viewer'[u], replayFile, synced, replayLock')
    <3>1. CASE u = v
      BY <2>3, <2>4, <2>8, <3>1, Zenon
    <3>2. CASE u # v
      <4>1. replayLock # u /\ SoundViewer(u, viewer[u], replayFile, synced, replayLock)
        BY <2>3, ReplayAssumption, Zenon DEF ReplayIInv
      <4> QED
        BY <2>4, <3>2, <4>1, OthersStay, Zenon
    <3> QED
      BY <3>1, <3>2, Zenon
  <2>10. AnsweredOnce(viewer', answered, synced)
    <3>1. viewer'[v].at # "project" /\ AnsweredOnce(viewer, answered, synced)
      BY <2>2, <2>4, Zenon DEF ReplayIInv
    <3> QED
      BY <2>4, <3>1, MovesOn, Zenon
  <2> QED
    BY <2>3, <2>4, <2>9, <2>10, Zenon DEF ReplayIInv
<1> QED
  BY <1>1, <1>2, Zenon

\* The rename: the file takes the claim, drops the ones that are over, and
\* refuses what it refused.
LEMMA ReplacedFile ==
  ASSUME NEW f, Fits(f), NEW p \in Proofs, NEW t \in Nat, f.seen <= t,
         Cardinality(LiveIn(f, t)) < MaxClaims, NEW g,
         g = [claims |-> LiveIn(f, t) \cup {p}, seen |-> t]
  PROVE  Fits(g) /\ p \in g.claims /\ \A q \in Proofs : Spent(f, q) => Spent(g, q)
<1>1. /\ f.claims \subseteq Proofs /\ f.seen \in Nat /\ IsFiniteSet(f.claims)
      /\ MaxClaims \in Nat
  BY ReplayAssumption, Zenon DEF Fits, ReplayFiles
<1>2. LiveIn(f, t) \subseteq f.claims
  BY Zenon DEF LiveIn
<1>3. IsFiniteSet(LiveIn(f, t))
  BY <1>1, <1>2, FS_Subset, Zenon
<1>4. Cardinality(LiveIn(f, t)) \in Nat
  BY <1>3, FS_CardinalityType, Zenon
<1>5. /\ IsFiniteSet(LiveIn(f, t) \cup {p})
      /\ \/ Cardinality(LiveIn(f, t) \cup {p}) = Cardinality(LiveIn(f, t))
         \/ Cardinality(LiveIn(f, t) \cup {p}) = Cardinality(LiveIn(f, t)) + 1
  BY <1>3, FS_AddElement, Zenon
<1>6. Cardinality(LiveIn(f, t) \cup {p}) <= MaxClaims
  BY <1>1, <1>4, <1>5
<1>7. g.claims = LiveIn(f, t) \cup {p} /\ g.seen = t
  OBVIOUS
<1>8. g \in ReplayFiles
  BY <1>1, <1>2, Zenon DEF ReplayFiles
<1>9. ASSUME NEW q \in Proofs, Spent(f, q) PROVE Spent(g, q)
  <2>1. SessionEnd[q] \in Nat
    BY ReplayAssumption, Zenon
  <2>2. SessionEnd[q] > t \/ SessionEnd[q] <= t
    BY <2>1
  <2>3. CASE SessionEnd[q] <= t
    BY <1>7, <2>3, Zenon DEF Spent
  <2>4. CASE SessionEnd[q] > t
    <3>1. q \in f.claims
      BY <1>1, <1>9, <2>1, <2>4 DEF Spent
    <3> QED
      BY <1>7, <2>4, <3>1, Zenon DEF Spent, LiveIn
  <2> QED
    BY <2>2, <2>3, <2>4, Zenon
<1> QED
  BY <1>5, <1>6, <1>7, <1>8, <1>9, Zenon DEF Fits

LEMMA ReplaceKeeps == ASSUME ReplayIInv, NEW v \in Viewers, Replace(v) PROVE ReplayIInv'
<1>1. CASE Finish(v) /\ replayLock' = NoViewer /\ UNCHANGED replayFile
  <2>1. replayLock = v /\ UNCHANGED <<wall, replayFile, synced, answered>>
    BY <1>1, Zenon DEF Replace, ReplayIInv, SoundViewer
  <2>2. \A u \in Viewers \ {v} : replayLock = u => replayLock' = u
    BY <2>1, Zenon
  <2> QED
    BY <1>1, <2>1, <2>2, GivesUp, Zenon
<1>2. CASE /\ replayFile' = [claims |-> Live(viewer[v].now) \cup {viewer[v].of}, seen |-> viewer[v].now]
           /\ viewer' = [viewer EXCEPT ![v].at = "sync"]
           /\ UNCHANGED replayLock
  <2>1. PICK x \in Busy : x = viewer[v] /\ x.form = "exact" /\ x.now < SessionEnd[x.of]
    BY IdleFacts, Zenon DEF Replace, ReplayIInv, SoundViewer, ReplayPlaces
  <2>2. PICK y \in Busy : /\ y = [x EXCEPT !.at = "sync"]
                          /\ y.at = "sync" /\ y.of = x.of /\ y.form = x.form /\ y.now = x.now
    BY BusyFacts, Zenon DEF ReplayPlaces
  <2>3. /\ viewer' = [viewer EXCEPT ![v] = y] /\ UNCHANGED <<wall, synced, answered, replayLock>>
        /\ replayFile' = [claims |-> LiveIn(replayFile, x.now) \cup {x.of}, seen |-> x.now]
    BY <1>2, <2>1, <2>2, Zenon DEF Replace, Live, LiveIn
  <2>4. /\ viewer' = [u \in Viewers |-> viewer'[u]] /\ viewer'[v] = y
        /\ \A u \in Viewers \ {v} : viewer'[u] = viewer[u]
    BY <2>3, ViewerPut, Zenon
  <2>5. /\ replayLock = v /\ ~Spent(replayFile, x.of) /\ replayFile.seen <= x.now
        /\ Cardinality(LiveIn(replayFile, x.now)) < MaxClaims
    BY <2>1, Zenon DEF Replace, ReplayIInv, SoundViewer
  <2>6. x.of \in Proofs /\ x.now \in Nat /\ FilesAgree(replayFile, synced)
    BY BusyFacts, Zenon DEF Busy, ReplayIInv
  <2>7. /\ Fits(replayFile') /\ x.of \in replayFile'.claims
        /\ \A q \in Proofs : Spent(replayFile, q) => Spent(replayFile', q)
    BY <2>3, <2>5, <2>6, ReplacedFile DEF FilesAgree
  <2>8. FilesAgree(replayFile', synced)
    BY <2>6, <2>7, Zenon DEF FilesAgree
  <2>9. ~Spent(synced, x.of)
    BY <2>5, <2>6, Zenon DEF FilesAgree
  <2>10. SoundViewer(v, y, replayFile', synced, replayLock)
    BY <2>1, <2>2, <2>5, <2>7, <2>9, Zenon DEF SoundViewer
  <2>11. ASSUME NEW u \in Viewers PROVE SoundViewer(u, viewer'[u], replayFile', synced, replayLock)
    <3>1. CASE u = v
      BY <2>4, <2>10, <3>1, Zenon
    <3>2. CASE u # v
      <4>1. replayLock # u /\ SoundViewer(u, viewer[u], replayFile, synced, replayLock)
        BY <2>5, <3>2, Zenon DEF ReplayIInv
      <4> QED
        BY <2>4, <3>2, <4>1, OthersStay, Zenon
    <3> QED
      BY <3>1, <3>2, Zenon
  <2>12. AnsweredOnce(viewer', answered, synced)
    <3>1. viewer'[v].at # "project" /\ AnsweredOnce(viewer, answered, synced)
      BY <2>2, <2>4, Zenon DEF ReplayIInv
    <3> QED
      BY <2>4, <3>1, MovesOn
  <2> QED
    BY <2>3, <2>4, <2>8, <2>11, <2>12, Zenon DEF ReplayIInv
<1> QED
  BY <1>1, <1>2, Zenon DEF Replace

LEMMA SyncKeeps == ASSUME ReplayIInv, NEW v \in Viewers, SyncDirectory(v) PROVE ReplayIInv'
<1>0. /\ replayLock = v /\ viewer[v].of \in replayFile.claims /\ ~Spent(synced, viewer[v].of)
      /\ replayLock' = NoViewer /\ UNCHANGED <<wall, replayFile, answered>>
  BY Zenon DEF SyncDirectory, ReplayIInv, SoundViewer
<1>1. CASE Finish(v) /\ UNCHANGED synced
  <2>1. \A u \in Viewers \ {v} : replayLock = u => replayLock' = u
    BY <1>0, Zenon
  <2> QED
    BY <1>0, <1>1, <2>1, GivesUp, Zenon
<1>2. CASE synced' = replayFile /\ viewer' = [viewer EXCEPT ![v].at = "project"]
  <2>1. PICK x \in Busy : x = viewer[v] /\ x.form = "exact" /\ x.now < SessionEnd[x.of]
    BY IdleFacts, Zenon DEF SyncDirectory, ReplayIInv, SoundViewer, ReplayPlaces
  <2>2. PICK y \in Busy : /\ y = [x EXCEPT !.at = "project"]
                          /\ y.at = "project" /\ y.of = x.of /\ y.form = x.form /\ y.now = x.now
    BY BusyFacts, Zenon DEF ReplayPlaces
  <2>3. viewer' = [viewer EXCEPT ![v] = y]
    BY <1>2, <2>1, <2>2, Zenon
  <2>4. /\ viewer' = [u \in Viewers |-> viewer'[u]] /\ viewer'[v] = y
        /\ \A u \in Viewers \ {v} : viewer'[u] = viewer[u]
    BY <2>3, ViewerPut, Zenon
  <2>5. x.of \in Proofs /\ FilesAgree(replayFile, synced) /\ AnsweredOnce(viewer, answered, synced)
    BY BusyFacts, Zenon DEF Busy, ReplayIInv
  <2>6. /\ FilesAgree(replayFile, synced')
        /\ \A q \in Proofs : Spent(synced, q) => Spent(synced', q)
    BY <1>2, <2>5, Zenon DEF FilesAgree
  <2>7. SoundViewer(v, y, replayFile, synced', replayLock')
    BY <1>0, <1>2, <2>1, <2>2, Zenon DEF SoundViewer, Spent
  <2>8. ASSUME NEW u \in Viewers PROVE SoundViewer(u, viewer'[u], replayFile, synced', replayLock')
    <3>1. CASE u = v
      BY <2>4, <2>7, <3>1, Zenon
    <3>2. CASE u # v
      <4>1. replayLock # u /\ SoundViewer(u, viewer[u], replayFile, synced, replayLock)
        BY <1>0, <3>2, Zenon DEF ReplayIInv
      <4> QED
        BY <2>4, <2>6, <3>2, <4>1, OthersStay, Zenon
    <3> QED
      BY <3>1, <3>2, Zenon
  <2>9. answered[x.of] = 0 /\ answered \in [Proofs -> {0, 1}]
    BY <1>0, <2>1, <2>5, Zenon DEF AnsweredOnce
  <2>10. ASSUME NEW u \in Viewers \ {v}, viewer[u].at = "project" PROVE viewer[u].of # x.of
    <3>1. SoundViewer(u, viewer[u], replayFile, synced, replayLock)
      BY Zenon DEF ReplayIInv
    <3>2. Spent(synced, viewer[u].of)
      BY <2>10, <3>1, Zenon DEF SoundViewer
    <3> QED
      BY <1>0, <2>1, <3>2, Zenon
  <2>11. \A p \in Proofs : answered[p] = 1 => Spent(synced', p)
    BY <2>5, <2>6, Zenon DEF AnsweredOnce
  <2>12. \A u \in Viewers : viewer'[u].at = "project" => answered[viewer'[u].of] = 0
    BY <2>2, <2>4, <2>5, <2>9, ZenonT(40) DEF AnsweredOnce
  <2>13. \A u, z \in Viewers : viewer'[u].at = "project" /\ viewer'[z].at = "project"
                               /\ viewer'[u].of = viewer'[z].of => u = z
    <3> SUFFICES ASSUME NEW u \in Viewers, NEW z \in Viewers, viewer'[u].at = "project",
                        viewer'[z].at = "project", viewer'[u].of = viewer'[z].of, u # z
                 PROVE  FALSE
      OBVIOUS
    <3>0. /\ \A q \in Viewers \ {v} : viewer'[q].at = "project" => viewer'[q].of # x.of
          /\ viewer'[v].of = x.of
      BY <2>2, <2>4, <2>10, Zenon
    <3>1. CASE u = v
      BY <3>0, <3>1, Zenon
    <3>2. CASE z = v
      BY <3>0, <3>2, Zenon
    <3>3. CASE u # v /\ z # v
      BY <2>4, <2>5, <3>3, Zenon DEF AnsweredOnce
    <3> QED
      BY <3>1, <3>2, <3>3, Zenon
  <2>14. AnsweredOnce(viewer', answered, synced')
    BY <2>9, <2>11, <2>12, <2>13, Zenon DEF AnsweredOnce
  <2> QED
    BY <1>0, <2>4, <2>6, <2>8, <2>14, Zenon DEF ReplayIInv
<1> QED
  BY <1>1, <1>2, Zenon DEF SyncDirectory

LEMMA ProjectKeeps == ASSUME ReplayIInv, NEW v \in Viewers, Project(v) PROVE ReplayIInv'
<1>1. PICK p \in Proofs : p = viewer[v].of
  BY IdleFacts, Zenon DEF Project, ReplayIInv, SoundViewer, ReplayPlaces, Busy
<1>2. /\ viewer[v].at = "project" /\ answered' = [answered EXCEPT ![p] = @ + 1] /\ Finish(v)
      /\ UNCHANGED <<wall, replayFile, synced, replayLock>>
  BY <1>1, Zenon DEF Project
<1>3. /\ viewer' = [u \in Viewers |-> viewer'[u]] /\ viewer'[v] = Idle
      /\ \A u \in Viewers \ {v} : viewer'[u] = viewer[u]
  BY <1>2, ViewerPut, Zenon DEF Finish
<1>4. AnsweredOnce(viewer, answered, synced) /\ answered \in [Proofs -> {0, 1}]
  BY Zenon DEF ReplayIInv, AnsweredOnce
<1>5. answered[p] = 0
  BY <1>1, <1>2, <1>4, Zenon DEF AnsweredOnce
<1>6. /\ answered' \in [Proofs -> {0, 1}]
      /\ \A q \in Proofs \ {p} : answered'[q] = answered[q]
  BY <1>2, <1>4, <1>5
<1>7. Spent(synced, p)
  BY <1>1, <1>2, Zenon DEF ReplayIInv, SoundViewer
<1>8. \A q \in Proofs : answered'[q] = 1 => Spent(synced, q)
  BY <1>4, <1>6, <1>7, Zenon DEF AnsweredOnce
<1>9. \A u \in Viewers : viewer'[u].at = "project" => u # v /\ viewer'[u] = viewer[u]
  BY <1>3, IdleFacts, Zenon DEF ReplayPlaces
<1>10. ASSUME NEW u \in Viewers, viewer'[u].at = "project" PROVE answered'[viewer'[u].of] = 0
  <2>1. viewer[u].at = "project" /\ viewer'[u].of = viewer[u].of /\ u # v
    BY <1>9, <1>10, Zenon
  <2>2. viewer[u].of # p
    BY <1>1, <1>2, <1>4, <2>1, Zenon DEF AnsweredOnce
  <2>3. viewer[u].of \in Proofs
    BY <2>1, IdleFacts, Zenon DEF ReplayIInv, SoundViewer, ReplayPlaces, Busy
  <2>4. answered[viewer[u].of] = 0
    BY <1>4, <2>1, Zenon DEF AnsweredOnce
  <2> QED
    BY <1>6, <2>1, <2>2, <2>3, <2>4, Zenon
<1>11. \A u, z \in Viewers : viewer'[u].at = "project" /\ viewer'[z].at = "project"
                             /\ viewer'[u].of = viewer'[z].of => u = z
  BY <1>4, <1>9, Zenon DEF AnsweredOnce
<1>12. AnsweredOnce(viewer', answered', synced)
  BY <1>6, <1>8, <1>10, <1>11, Zenon DEF AnsweredOnce
<1>13. \A u \in Viewers : SoundViewer(u, viewer'[u], replayFile, synced, replayLock)
  BY <1>3, IdleIsSound, Zenon DEF ReplayIInv
<1> QED
  BY <1>2, <1>3, <1>12, <1>13, Zenon DEF ReplayIInv

\* Every handler is gone.
LEMMA RestartKeeps ==
  ASSUME ReplayIInv, viewer' = [v \in Viewers |-> Idle], UNCHANGED <<wall, answered>>,
         replayFile' \in {replayFile, synced}, synced' \in {replayFile, synced},
         replayFile' = synced' \/ UNCHANGED <<replayFile, synced>>
  PROVE  ReplayIInv'
<1>1. FilesAgree(replayFile, synced) /\ AnsweredOnce(viewer, answered, synced)
  BY Zenon DEF ReplayIInv
<1>2. FilesAgree(replayFile', synced')
  BY <1>1, Zenon DEF FilesAgree
<1>3. \A v \in Viewers : viewer'[v] = Idle
  OBVIOUS
<1>4. viewer' = [v \in Viewers |-> viewer'[v]]
  OBVIOUS
<1>5. \A v \in Viewers : SoundViewer(v, viewer'[v], replayFile', synced', replayLock')
  BY <1>3, IdleIsSound, Zenon
<1>6. answered \in [Proofs -> {0, 1}] /\ \A p \in Proofs : answered[p] = 1 => Spent(synced', p)
  BY <1>1, Zenon DEF AnsweredOnce, FilesAgree
<1>7. AnsweredOnce(viewer', answered, synced')
  BY <1>3, <1>6, AllIdle, Zenon
<1> QED
  BY <1>2, <1>4, <1>5, <1>7, Zenon DEF ReplayIInv

LEMMA ReplayStep == ASSUME ReplayIInv, [ReplayNext]_replayVars PROVE ReplayIInv'
<1>1. CASE UNCHANGED replayVars \/ WallTicks \/ WallSetBack
  <2>1. UNCHANGED <<replayFile, synced, replayLock, viewer, answered>>
    BY <1>1, Zenon DEF replayVars, WallTicks, WallSetBack
  <2>2. wall' \in Nat
    BY <1>1 DEF replayVars, WallTicks, WallSetBack, ReplayIInv
  <2> QED
    BY <2>1, <2>2, Zenon DEF ReplayIInv
<1>2. CASE Rebind
  BY <1>2, RestartKeeps, Zenon DEF Rebind
<1>3. CASE PowerFails
  BY <1>3, RestartKeeps, Zenon DEF PowerFails
<1>4. ASSUME NEW v \in Viewers, ViewerDies(v) PROVE ReplayIInv'
  <2>1. Finish(v) /\ UNCHANGED <<wall, replayFile, synced, answered>>
    BY <1>4, Zenon DEF ViewerDies
  <2>2. \A u \in Viewers \ {v} : replayLock = u => replayLock' = u
    BY <1>4, Zenon DEF ViewerDies
  <2> QED
    BY <2>1, <2>2, GivesUp, Zenon
<1> QED
  BY <1>1, <1>2, <1>3, <1>4, PresentKeeps, ClaimKeeps, ReplaceKeeps, SyncKeeps, ProjectKeeps, Zenon
  DEF ReplayNext

LEMMA ReplayIInvImplies == ReplayIInv => ReadOnce
<1> SUFFICES ASSUME ReplayIInv PROVE ReadOnce
  OBVIOUS
<1>1. \A p \in Proofs : answered[p] <= 1
  BY DEF ReplayIInv, AnsweredOnce
<1>2. ASSUME NEW v \in Viewers, viewer[v].at = "project"
      PROVE  /\ viewer[v].form = "exact"
             /\ viewer[v].of \in synced.claims \/ SessionEnd[viewer[v].of] <= synced.seen
  BY <1>2, IdleFacts, Zenon DEF ReplayIInv, SoundViewer, Spent, ReplayPlaces
<1>3. Cardinality(replayFile.claims) <= MaxClaims
  BY Zenon DEF ReplayIInv, FilesAgree, Fits
<1> QED
  BY <1>1, <1>2, <1>3, Zenon DEF ReadOnce

\* A signed proof is answered at most once and only to an exact request, over every order in
\* which handlers get the lock, with expired claims dropped, clocks set back, processes killed
\* and renames undone; the replay file never outgrows its capacity
\* (DurableSecSMonitorViewReadReplayStore).
THEOREM ProofsAreReadOnce == ReplaySpec => []ReadOnce
<1>1. ReplayInit => ReplayIInv
  BY ReplayInitSound, Zenon
<1>2. ReplayIInv /\ [ReplayNext]_replayVars => ReplayIInv'
  BY ReplayStep, Zenon
<1>3. ReplayIInv => ReadOnce
  BY ReplayIInvImplies, Zenon
<1> QED
  BY <1>1, <1>2, <1>3, PTL DEF ReplaySpec
-----------------------------------------------------------------------------
(* Delegated reads.  A narrower grant admits less; so what a manifest      *)
(* admits, the request it was reviewed against admits.  A call carries     *)
(* what it found from step to step: Safe says, for every stage, what was   *)
(* already checked about it.                                               *)


\* A chain inside some path of the narrower set is inside some path of the wider one.
LEMMA PathsNarrow ==
    ASSUME NEW chain, NEW child, NEW parent, PathsSubset(child, parent), Within(chain, child),
           \A c \in parent : c # {}
    PROVE  Within(chain, parent)
  BY Zenon DEF PathsSubset, Within, ContainedBy

\* _grant_is_subset is sound: whatever item the granted one admits for an operation and a
\* relationship, the requested one admits as well.
THEOREM NarrowerAdmitsLess ==
    ASSUME NEW granted, NEW requested, NEW operation, NEW rels, NEW i,
           WorkGrantIsSubset(granted, requested),
           \A c \in requested.resource_paths : c # {},
           Admits(granted, operation, rels, i)
    PROVE  Admits(requested, operation, rels, i)
  BY PathsNarrow, Zenon DEF WorkGrantIsSubset, Admits, Selects, SelectorSubset

\* intersect_paths is exact on every chain of containers: an item is inside both ceilings if
\* and only if the callers do not deny the combination and the item is inside it.
THEOREM IntersectionIsExact ==
    ASSUME NEW chain, IsChain(chain), NEW left, NEW right,
           \A p \in left \cup right : p # {}
    PROVE  (Within(chain, left) /\ Within(chain, right))
               <=> (~Denied(left, right) /\ Within(chain, IntersectPaths(left, right)))
<1>1. CASE left = {} \/ right = {}
  BY <1>1, Zenon DEF Within, IntersectPaths, Denied
<1>2. CASE left # {} /\ right # {}
  <2> DEFINE both == IntersectPaths(left, right)
  <2>1. both = {p[1] \cup p[2] : p \in {q \in left \X right : Compatible(q[1], q[2])}}
    BY <1>2, Zenon DEF IntersectPaths
  <2>2. ASSUME NEW a \in left, NEW b \in right, a \subseteq chain, b \subseteq chain
        PROVE  a \cup b \in both
    <3>1. Compatible(a, b)
      BY <2>2, Zenon DEF Compatible, IsChain
    <3>2. <<a, b>> \in {q \in left \X right : Compatible(q[1], q[2])}
      BY <3>1, Zenon
    <3> QED BY <3>2, <2>1
  <2>3. ASSUME NEW c \in both, c \subseteq chain
        PROVE  /\ \E a \in left : a \subseteq chain
               /\ \E b \in right : b \subseteq chain
    <3>1. PICK p \in left \X right : c = p[1] \cup p[2]
      BY <2>1, Zenon
    <3>2. p[1] \in left /\ p[2] \in right
      OBVIOUS
    <3> QED BY <3>1, <3>2, <2>3, Zenon
  <2>4. \A c \in both : c # {}
    BY <2>1
  <2> QED BY <1>2, <2>2, <2>3, <2>4, Zenon DEF Within, Denied
<1> QED BY <1>1, <1>2, Zenon

-----------------------------------------------------------------------------
(* The surface.                                                             *)

\* What the manifest of a credential admits, its request admits.
LEMMA ManifestNarrows ==
    ASSUME NEW c \in Credentials, NEW g \in Manifest[c].work, NEW op, NEW rels, NEW i,
           Admits(g, op, rels, i)
    PROVE  \E r \in Profile[c].work : Admits(r, op, rels, i)
<1>1. PICK r \in Profile[c].work : WorkGrantIsSubset(g, r)
  BY GrantAssumption, Zenon DEF ManifestSubset
<1>2. \A p \in r.resource_paths : p # {}
  BY GrantAssumption, Zenon
<1>3. Admits(r, op, rels, i)
  BY <1>1, <1>2, NarrowerAdmitsLess, Zenon
<1> QED BY <1>3, Zenon

\* An Arena the manifest grants, the request grants.
LEMMA ArenasNarrow ==
    ASSUME NEW c \in Credentials, NEW a, ArenaGranted(c, a)
    PROVE  \E r \in Profile[c].arenas : r.all_arenas \/ a \in r.arena_ids
  BY GrantAssumption, Zenon DEF ManifestSubset, ArenaGranted, ArenaGrantIsSubset

FactSet ==
    [kind : WorkKinds \cup {"none"}, id : ReadWorks \cup {NoTarget}, arena : ReadArenas \cup {NoArena},
     archived : BOOLEAN, chain : SUBSET ({"Arena"} \X ReadArenas)]

CallSet ==
    [at : {"idle", "load", "admit", "read", "arena", "page", "audit", "answered", "denied",
           "upload", "verify", "run", "late"},
     op : Ops, cred : Credentials \cup {NoTarget}, target : ReadWorks \cup {NoTarget},
     rels : SUBSET Relationships, arena : ReadArenas \cup {NoArena}, archived : BOOLEAN,
     loaded : FactSet, asked : SUBSET WorkKinds, items : SUBSET FactSet, arenas : SUBSET ReadArenas,
     audited : BOOLEAN]

DelegatedTypeOK ==
    /\ item \in [ReadWorks -> [made : BOOLEAN, arena : ReadArenas \cup {NoArena}, archived : BOOLEAN]]
    /\ related \in [ReadWorks -> SUBSET ReadWorks]
    /\ call \in [ReadCalls -> CallSet]

Over == {"idle", "denied", "late"}

ItemsApproved(c) ==
    \A i \in c.items : \E r \in Profile[c.cred].work : Admits(r, GrantOp(c.op), c.rels, i)

ArenasApproved(c) ==
    \A a \in c.arenas : \E r \in Profile[c.cred].arenas : r.all_arenas \/ a \in r.arena_ids

\* What was checked of a call by the time it reaches its stage.
Safe(c) ==
    /\ c.at \notin Over => c.cred \in Credentials /\ ScopesOf(c.op) \subseteq Manifest[c.cred].scopes
    /\ c.at \in {"load", "admit", "read"} => c.target \in ReadWorks /\ FirstStep(c.op) = "load"
    /\ c.at = "arena" => c.arena \in ReadArenas
    /\ c.at \in {"arena", "page"} => c.rels = {} /\ c.op \notin {"relationships"}
    /\ c.at = "page" /\ c.op = "members" => c.arena \in ReadArenas /\ ArenaGranted(c.cred, c.arena)
    /\ c.at \in {"upload", "verify", "run"} => c.rels = {} /\ c.op = "query"
    /\ c.at = "run" => \E g \in Manifest[c.cred].work : Unrestricted(g)
    /\ c.at = "admit" => c.loaded.kind = KindOf[c.target]
    /\ c.at = "read" /\ c.op = "relationships" =>
          WorkGrants(c.cred, "relationships", {}, c.rels, FALSE) # {}
    /\ c.at \in {"load", "admit", "arena", "page", "upload", "verify", "run"} =>
          c.items = {} /\ c.arenas = {}
    /\ c.at \in {"read", "audit", "answered"} => ItemsApproved(c) /\ ArenasApproved(c)
    /\ c.at = "answered" => c.audited

DelegatedIInv == DelegatedTypeOK /\ \A x \in ReadCalls : Safe(call[x])

LEMMA FactsTyped ==
    ASSUME DelegatedTypeOK, NEW w \in ReadWorks
    PROVE  Facts(w) \in FactSet /\ Facts(w).kind = KindOf[w]
  BY NameAssumption DEF DelegatedTypeOK, Facts, FactSet

\* A page read with grants of the manifest for the operation discloses approved items.
LEMMA PageApproved ==
    ASSUME DelegatedTypeOK, NEW c \in Credentials, NEW op, NEW rels,
           NEW candidates \in SUBSET ReadWorks, NEW grants \in SUBSET Manifest[c].work,
           \A g \in grants : op \in g.operations /\ rels \subseteq g.relationship_types
    PROVE  /\ Page(candidates, grants) \subseteq FactSet
           /\ \A i \in Page(candidates, grants) :
                 \E r \in Profile[c].work : Admits(r, op, rels, i)
<1>1. Page(candidates, grants) \subseteq FactSet
  BY FactsTyped, Zenon DEF Page
<1>2. ASSUME NEW i \in Page(candidates, grants)
      PROVE  \E r \in Profile[c].work : Admits(r, op, rels, i)
  <2>1. PICK g \in grants : Selects(g, i)
    BY Zenon DEF Page
  <2>2. Admits(g, op, rels, i)
    BY <2>1, Zenon DEF Admits
  <2> QED BY <2>2, ManifestNarrows, Zenon
<1> QED BY <1>1, <1>2, Zenon

LEMMA Resting ==
    ASSUME NEW s \in {"idle", "denied", "late"}
    PROVE  [Waiting EXCEPT !.at = s] \in CallSet /\ Safe([Waiting EXCEPT !.at = s])
  BY ZenonT(30) DEF Waiting, CallSet, Safe, Over, Ops, NoFacts, FactSet

LEMMA WaitingSafe == Waiting \in CallSet /\ Safe(Waiting)
  BY Zenon DEF Waiting, CallSet, Safe, Over, Ops, NoFacts, FactSet

\* A step that changes one call into a safe one keeps the invariant.
LEMMA BecomesKeeps ==
    ASSUME DelegatedIInv, NEW x \in ReadCalls, NEW new \in CallSet, Safe(new), Becomes(x, new)
    PROVE  DelegatedIInv'
  BY Zenon DEF DelegatedIInv, DelegatedTypeOK, Becomes, workVars

LEMMA DeniesKeeps ==
    ASSUME DelegatedIInv, NEW x \in ReadCalls, Denies(x)
    PROVE  DelegatedIInv'
  BY BecomesKeeps, Resting, Zenon DEF Denies

LEMMA InitKeeps == DelegatedInit => DelegatedIInv
<1> SUFFICES ASSUME DelegatedInit PROVE DelegatedIInv
  OBVIOUS
<1>1. DelegatedTypeOK
  BY WaitingSafe DEF DelegatedInit, DelegatedTypeOK
<1>2. \A x \in ReadCalls : Safe(call[x])
  BY WaitingSafe, Zenon DEF DelegatedInit
<1> QED BY <1>1, <1>2, Zenon DEF DelegatedIInv

-----------------------------------------------------------------------------
(* One lemma per group of steps.                                            *)

LEMMA AuthorizeKeeps ==
    ASSUME DelegatedIInv, NEW x \in ReadCalls, NEW c \in Credentials, NEW r \in ReadRequests,
           Authorize(x, c, r)
    PROVE  DelegatedIInv'
<1> DEFINE new == [Waiting EXCEPT !.at = FirstStep(r.op), !.op = r.op, !.cred = c,
                                  !.target = r.target, !.arena = r.arena, !.rels = r.rels,
                                  !.archived = r.archived]
<1>1. CASE Authorized(c, r.op)
  <2>1. FirstStep(r.op) \in {"load", "arena", "upload", "page"}
    BY Zenon DEF FirstStep
  <2>a. /\ r.op \in Ops /\ r.target \in ReadWorks \cup {NoTarget} /\ r.arena \in ReadArenas \cup {NoArena}
        /\ r.rels \in SUBSET Relationships /\ r.archived \in BOOLEAN
    BY ZenonT(40) DEF ReadRequests
  <2>2. new \in CallSet
    BY <2>1, <2>a, WaitingSafe, Zenon DEF CallSet
  <2>3. Safe(new)
    BY <1>1, <2>1 DEF Safe, Over, Waiting, ReadRequests, Authorized, FirstStep, Ops
  <2>4. Becomes(x, new)
    BY <1>1, Zenon DEF Authorize
  <2> QED BY <2>2, <2>3, <2>4, BecomesKeeps, Zenon
<1>2. CASE ~Authorized(c, r.op)
  BY <1>2, DeniesKeeps, Zenon DEF Authorize
<1> QED BY <1>1, <1>2, Zenon

LEMMA LoadKeeps ==
    ASSUME DelegatedIInv, NEW x \in ReadCalls, LoadWork(x)
    PROVE  DelegatedIInv'
<1> DEFINE new == [call[x] EXCEPT !.at = "admit", !.loaded = Facts(call[x].target)]
<1>1. call[x] \in CallSet /\ Safe(call[x]) /\ call[x].at = "load" /\ DelegatedTypeOK
  BY Zenon DEF DelegatedIInv, DelegatedTypeOK, LoadWork
<1>2. call[x].target \in ReadWorks
  BY <1>1, Zenon DEF Safe
<1>3. Facts(call[x].target) \in FactSet /\ Facts(call[x].target).kind = KindOf[call[x].target]
  BY <1>1, <1>2, FactsTyped, Zenon
<1>4. new \in CallSet
  BY <1>1, <1>3, Zenon DEF CallSet
<1>5. Safe(new)
  BY <1>1, <1>2, <1>3, Zenon DEF Safe, CallSet, Over
<1>6. Becomes(x, new) \/ Denies(x)
  BY Zenon DEF LoadWork
<1> QED BY <1>4, <1>5, <1>6, BecomesKeeps, DeniesKeeps, Zenon

LEMMA AdmitKeeps ==
    ASSUME DelegatedIInv, NEW x \in ReadCalls, AdmitWork(x)
    PROVE  DelegatedIInv'
<1> DEFINE c == call[x].cred
           grants == WorkGrants(c, GrantOp(call[x].op), {call[x].loaded.kind}, call[x].rels, FALSE)
           new == [call[x] EXCEPT
                     !.at = IF call[x].op = "get" THEN "audit" ELSE "read",
                     !.items = IF call[x].op = "relationships" THEN {} ELSE {Placed(x)}]
<1>1. call[x] \in CallSet /\ Safe(call[x]) /\ call[x].at = "admit" /\ DelegatedTypeOK
  BY Zenon DEF DelegatedIInv, DelegatedTypeOK, AdmitWork
<1>2. c \in Credentials /\ call[x].target \in ReadWorks
  BY <1>1, Zenon DEF Safe, Over
<1>3. CASE WorkAdmitted(grants, Placed(x))
  <2>1. Placed(x) \in FactSet /\ Placed(x).kind = call[x].loaded.kind
    BY <1>1, <1>2, FactsTyped, ZenonT(30) DEF Placed, FactSet, CallSet, DelegatedTypeOK
  <2>2. PICK g \in grants :
            /\ Placed(x).archived => g.include_archived
            /\ g.work_ids = {} \/ Placed(x).id \in g.work_ids
            /\ g.arena_ids = {} \/ (Placed(x).arena # NoArena /\ Placed(x).arena \in g.arena_ids)
            /\ Within(Placed(x).chain, g.resource_paths)
    BY <1>3, Zenon DEF WorkAdmitted
  <2>3. Admits(g, GrantOp(call[x].op), call[x].rels, Placed(x))
    BY <2>1, <2>2, Zenon DEF WorkGrants, Admits, Selects
  <2>4. \E r \in Profile[c].work : Admits(r, GrantOp(call[x].op), call[x].rels, Placed(x))
    BY <1>2, <2>2, <2>3, ManifestNarrows, Zenon DEF WorkGrants
  <2>5. call[x].op = "relationships" => WorkGrants(c, "relationships", {}, call[x].rels, FALSE) # {}
    BY <2>2, Zenon DEF WorkGrants, GrantOp
  <2>6. new \in CallSet
    BY <1>1, <2>1, ZenonT(30) DEF CallSet
  <2>7. ItemsApproved(new) /\ ArenasApproved(new)
    BY <1>1, <2>4, <2>6 DEF Safe, ItemsApproved, ArenasApproved, CallSet
  <2>8. Safe(new)
    <3>1. /\ new.at \in {"audit", "read"} /\ (new.at = "read" => FirstStep(new.op) = "load")
          /\ new.cred = c /\ new.op = call[x].op /\ new.target = call[x].target
          /\ new.rels = call[x].rels
      BY <1>1, Zenon DEF CallSet, Safe
    <3>2. ScopesOf(new.op) \subseteq Manifest[new.cred].scopes
      BY <1>1, <3>1, Zenon DEF Safe, Over
    <3> HIDE DEF new
    <3> QED BY <1>2, <2>5, <2>7, <3>1, <3>2, Zenon DEF Safe, Over
  <2>9. Becomes(x, new)
    BY <1>3, Zenon DEF AdmitWork
  <2> QED BY <2>6, <2>8, <2>9, BecomesKeeps, Zenon
<1>4. CASE ~WorkAdmitted(grants, Placed(x))
  BY <1>4, DeniesKeeps DEF AdmitWork
<1> QED BY <1>3, <1>4, Zenon

\* The last statement of an operation that found its source admitted.
LEMMA ReadKeeps ==
    ASSUME DelegatedIInv, NEW x \in ReadCalls,
           ReadRelated(x) \/ ReadMembership(x) \/ ReadMaterial(x)
    PROVE  DelegatedIInv'
<1> DEFINE c == call[x].cred
           grants == WorkGrants(c, "relationships", {}, call[x].rels, FALSE)
           page == Page(related[call[x].target], grants)
           now == item[call[x].target].arena
<1>1. call[x] \in CallSet /\ Safe(call[x]) /\ call[x].at = "read" /\ DelegatedTypeOK
  BY Zenon DEF DelegatedIInv, DelegatedTypeOK, ReadRelated, ReadMembership, ReadMaterial
<1>2. c \in Credentials /\ call[x].target \in ReadWorks
  BY <1>1, Zenon DEF Safe, Over
<1>3. ASSUME ReadRelated(x)
      PROVE  DelegatedIInv'
  <2> DEFINE new == [call[x] EXCEPT !.at = "audit", !.items = page]
  <2>1. grants # {} /\ call[x].op = "relationships"
    BY <1>1, <1>3, Zenon DEF Safe, ReadRelated
  <2>2. Becomes(x, new)
    BY <1>3, <2>1, Zenon DEF ReadRelated, RelatedPage
  <2>3. page \subseteq FactSet
        /\ \A i \in page : \E r \in Profile[c].work : Admits(r, "relationships", call[x].rels, i)
    <3>1. related[call[x].target] \in SUBSET ReadWorks
      BY <1>1, <1>2, Zenon DEF DelegatedTypeOK
    <3>2. grants \in SUBSET Manifest[c].work
          /\ \A g \in grants : "relationships" \in g.operations
                               /\ call[x].rels \subseteq g.relationship_types
      BY DEF WorkGrants
    <3> QED BY <1>1, <1>2, <3>1, <3>2, PageApproved, Zenon
  <2>4. new \in CallSet
    BY <1>1, <2>3, Zenon DEF CallSet
  <2>5. ItemsApproved(new) /\ ArenasApproved(new)
    BY <1>1, <2>1, <2>3, <2>4, Zenon DEF Safe, ItemsApproved, ArenasApproved, CallSet, GrantOp
  <2>6. Safe(new)
    BY <1>1, <2>4, <2>5, Zenon DEF Safe, CallSet, Over
  <2> QED BY <2>2, <2>4, <2>6, BecomesKeeps, Zenon
<1>4. ASSUME ReadMembership(x)
      PROVE  DelegatedIInv'
  <2> DEFINE new == [call[x] EXCEPT !.at = "audit", !.arenas = {now} \ {NoArena}]
  <2>1. CASE now # NoArena /\ ~ArenaGranted(c, now)
    BY <1>4, <2>1, DeniesKeeps, Zenon DEF ReadMembership
  <2>2. CASE ~(now # NoArena /\ ~ArenaGranted(c, now))
    <3>1. Becomes(x, new)
      BY <1>4, <2>2, Zenon DEF ReadMembership
    <3>2. now \in ReadArenas \cup {NoArena}
      BY <1>1, <1>2, Zenon DEF DelegatedTypeOK
    <3>3. new \in CallSet
      BY <1>1, <3>2, Zenon DEF CallSet
    <3>a. /\ new.items = call[x].items /\ new.rels = call[x].rels /\ new.op = call[x].op
          /\ new.cred = c /\ new.arenas = {now} \ {NoArena}
      BY <1>1, Zenon DEF CallSet
    <3>b. ItemsApproved(new)
      BY <1>1, <3>a, Zenon DEF Safe, ItemsApproved
    <3>c. ArenasApproved(new)
      BY <1>2, <2>2, <3>2, <3>a, ArenasNarrow, Zenon DEF ArenasApproved
    <3>4. ItemsApproved(new) /\ ArenasApproved(new)
      BY <3>b, <3>c, Zenon
    <3>5. Safe(new)
      BY <1>1, <3>3, <3>4, Zenon DEF Safe, CallSet, Over
    <3> QED BY <3>1, <3>3, <3>5, BecomesKeeps, Zenon
  <2> QED BY <2>1, <2>2, Zenon
<1>5. ASSUME ReadMaterial(x)
      PROVE  DelegatedIInv'
  <2> DEFINE new == [call[x] EXCEPT !.at = "audit"]
  <2>1. new \in CallSet
    BY <1>1, Zenon DEF CallSet
  <2>2. Safe(new)
    BY <1>1, <2>1, Zenon DEF Safe, CallSet, Over, ItemsApproved, ArenasApproved
  <2> QED BY <1>5, <2>1, <2>2, BecomesKeeps, Zenon DEF ReadMaterial
<1> QED BY <1>3, <1>4, <1>5, Zenon

\* The operations that read one page.
LEMMA PageKeeps ==
    ASSUME DelegatedIInv, NEW x \in ReadCalls,
           \/ \E kind \in WorkKinds : PageWork(x, kind)
           \/ PageMembers(x) \/ PageArenas(x) \/ ReadWhole(x)
    PROVE  DelegatedIInv'
<1> DEFINE c == call[x].cred
<1>1. call[x] \in CallSet /\ Safe(call[x]) /\ call[x].at = "page" /\ DelegatedTypeOK
  BY Zenon DEF DelegatedIInv, DelegatedTypeOK, PageWork, PageMembers, PageArenas, ReadWhole
<1>2. c \in Credentials /\ call[x].rels = {} /\ call[x].items = {} /\ call[x].arenas = {}
  BY <1>1, Zenon DEF Safe, Over
<1>3. ASSUME NEW kind \in WorkKinds, PageWork(x, kind)
      PROVE  DelegatedIInv'
  <2> DEFINE grants == WorkGrants(c, "list", {kind}, {}, call[x].archived)
             candidates == {w \in ReadWorks : KindOf[w] = kind
                                          /\ (item[w].archived => call[x].archived)}
             new == [call[x] EXCEPT !.at = "audit", !.items = Page(candidates, grants)]
  <2>1. Becomes(x, new) \/ Denies(x)
    BY <1>3, Zenon DEF PageWork, WorkPage
  <2>2. /\ Page(candidates, grants) \subseteq FactSet
        /\ \A i \in Page(candidates, grants) : \E r \in Profile[c].work : Admits(r, "list", {}, i)
    <3>1. candidates \in SUBSET ReadWorks /\ grants \in SUBSET Manifest[c].work
          /\ \A g \in grants : "list" \in g.operations /\ {} \subseteq g.relationship_types
      BY Zenon DEF WorkGrants
    <3> HIDE DEF candidates, grants
    <3> QED BY <1>1, <1>2, <3>1, PageApproved, Zenon
  <2> HIDE DEF candidates, grants
  <2>3. new \in CallSet
    BY <1>1, <2>2, Zenon DEF CallSet
  <2>a. call[x].op = "list"
    BY <1>3, Zenon DEF PageWork
  <2>b. /\ new.items = Page(candidates, grants) /\ new.rels = {} /\ new.arenas = {}
        /\ new.cred = c /\ GrantOp(new.op) = "list"
    BY <1>1, <1>2, <2>a, Zenon DEF CallSet, GrantOp
  <2>4. ItemsApproved(new) /\ ArenasApproved(new)
    BY <2>b, <2>2, Zenon DEF ItemsApproved, ArenasApproved
  <2>5. Safe(new)
    BY <1>1, <2>3, <2>4, Zenon DEF Safe, CallSet, Over
  <2> QED BY <2>1, <2>3, <2>5, BecomesKeeps, DeniesKeeps, Zenon
<1>4. ASSUME PageMembers(x)
      PROVE  DelegatedIInv'
  <2> DEFINE grants == WorkGrants(c, "list", {}, {}, FALSE)
             candidates == {w \in ReadWorks : item[w].arena = call[x].arena}
             new == [call[x] EXCEPT !.at = "audit", !.arenas = {call[x].arena},
                                    !.items = Page(candidates, grants)]
  <2>1. Becomes(x, new) \/ Denies(x)
    BY <1>4, Zenon DEF PageMembers, MemberPage
  <2>2. /\ Page(candidates, grants) \subseteq FactSet
        /\ \A i \in Page(candidates, grants) : \E r \in Profile[c].work : Admits(r, "list", {}, i)
    <3>1. candidates \in SUBSET ReadWorks /\ grants \in SUBSET Manifest[c].work
          /\ \A g \in grants : "list" \in g.operations /\ {} \subseteq g.relationship_types
      BY Zenon DEF WorkGrants
    <3> HIDE DEF candidates, grants
    <3> QED BY <1>1, <1>2, <3>1, PageApproved, Zenon
  <2> HIDE DEF candidates, grants
  <2>3. call[x].arena \in ReadArenas /\ ArenaGranted(c, call[x].arena) /\ call[x].op = "members"
    BY <1>1, <1>4, Zenon DEF Safe, PageMembers
  <2>4. new \in CallSet
    BY <1>1, <2>2, <2>3, Zenon DEF CallSet
  <2>a. /\ new.items = Page(candidates, grants) /\ new.rels = {}
        /\ new.arenas = {call[x].arena} /\ new.cred = c /\ GrantOp(new.op) = "list"
    BY <1>1, <1>2, <2>3, Zenon DEF CallSet, GrantOp
  <2>5. ItemsApproved(new)
    BY <2>a, <2>2, Zenon DEF ItemsApproved
  <2>6. ArenasApproved(new)
    BY <1>2, <2>3, <2>a, ArenasNarrow, Zenon DEF ArenasApproved
  <2>7. Safe(new)
    BY <1>1, <2>4, <2>5, <2>6, Zenon DEF Safe, CallSet, Over
  <2> QED BY <2>1, <2>4, <2>7, BecomesKeeps, DeniesKeeps, Zenon
<1>5. ASSUME PageArenas(x)
      PROVE  DelegatedIInv'
  <2> DEFINE new == [call[x] EXCEPT !.at = "audit", !.arenas = GrantedArenas(c)]
  <2>1. Becomes(x, new) \/ Denies(x)
    BY <1>5, Zenon DEF PageArenas
  <2>2. new \in CallSet
    BY <1>1, Zenon DEF CallSet, GrantedArenas
  <2>3. ItemsApproved(new)
    BY <1>1, <1>2, <2>2, Zenon DEF ItemsApproved, CallSet
  <2>4. ArenasApproved(new)
    BY <1>1, <1>2, <2>2, ArenasNarrow, Zenon DEF ArenasApproved, CallSet, GrantedArenas
  <2>5. Safe(new)
    BY <1>1, <2>2, <2>3, <2>4, Zenon DEF Safe, CallSet, Over
  <2> QED BY <2>1, <2>2, <2>5, BecomesKeeps, DeniesKeeps, Zenon
<1>6. ASSUME ReadWhole(x)
      PROVE  DelegatedIInv'
  <2> DEFINE new == [call[x] EXCEPT !.at = "audit"]
  <2>1. new \in CallSet
    BY <1>1, Zenon DEF CallSet
  <2>2. Safe(new)
    BY <1>1, <1>2, <2>1, Zenon DEF Safe, CallSet, Over, ItemsApproved, ArenasApproved
  <2> QED BY <1>6, <2>1, <2>2, BecomesKeeps, Zenon DEF ReadWhole
<1> QED BY <1>3, <1>4, <1>5, <1>6, Zenon

LEMMA ArenaKeeps ==
    ASSUME DelegatedIInv, NEW x \in ReadCalls, RequireArena(x)
    PROVE  DelegatedIInv'
<1> DEFINE c == call[x].cred
           one == [call[x] EXCEPT !.at = "audit", !.arenas = {call[x].arena}]
           many == [call[x] EXCEPT !.at = "page"]
<1>1. call[x] \in CallSet /\ Safe(call[x]) /\ call[x].at = "arena"
  BY Zenon DEF DelegatedIInv, DelegatedTypeOK, RequireArena
<1>2. c \in Credentials /\ call[x].arena \in ReadArenas /\ call[x].items = {} /\ call[x].arenas = {}
  BY <1>1, Zenon DEF Safe, Over
<1>3. CASE ~ArenaGranted(c, call[x].arena)
  BY <1>3, DeniesKeeps, Zenon DEF RequireArena
<1>4. CASE ArenaGranted(c, call[x].arena)
  <2>1. one \in CallSet /\ many \in CallSet
    BY <1>1, <1>2, Zenon DEF CallSet
  <2>2. ItemsApproved(one)
    BY <1>1, <1>2, <2>1, Zenon DEF ItemsApproved, CallSet
  <2>3. ArenasApproved(one)
    BY <1>1, <1>2, <1>4, <2>1, ArenasNarrow DEF ArenasApproved, CallSet
  <2>4. Safe(one)
    BY <1>1, <2>1, <2>2, <2>3, ZenonT(40) DEF Safe, CallSet, Over
  <2>5. Safe(many)
    BY <1>1, <1>2, <1>4, <2>1, Zenon DEF Safe, CallSet, Over
  <2>6. Becomes(x, one) \/ Becomes(x, many)
    BY <1>4, Zenon DEF RequireArena
  <2> QED BY <2>1, <2>4, <2>5, <2>6, BecomesKeeps, Zenon
<1> QED BY <1>3, <1>4, Zenon

LEMMA EndKeeps ==
    ASSUME DelegatedIInv, NEW x \in ReadCalls, AuditRead(x) \/ CallAgain(x)
    PROVE  DelegatedIInv'
<1>1. call[x] \in CallSet /\ Safe(call[x])
  BY Zenon DEF DelegatedIInv, DelegatedTypeOK
<1>2. ASSUME AuditRead(x) PROVE DelegatedIInv'
  <2> DEFINE new == [call[x] EXCEPT !.at = "answered", !.audited = TRUE]
  <2>1. new \in CallSet
    BY <1>1, Zenon DEF CallSet
  <2>2. Safe(new)
    BY <1>1, <1>2, <2>1, ZenonT(40) DEF Safe, CallSet, Over, ItemsApproved, ArenasApproved, AuditRead
  <2> QED BY <1>2, <2>1, <2>2, BecomesKeeps, DeniesKeeps, Zenon DEF AuditRead
<1>3. ASSUME CallAgain(x) PROVE DelegatedIInv'
  BY <1>3, WaitingSafe, BecomesKeeps, Zenon DEF CallAgain
<1> QED BY <1>2, <1>3, Zenon

LEMMA QueryKeeps ==
    ASSUME DelegatedIInv, NEW x \in ReadCalls,
           BodyArrives(x) \/ (call[x].at = "verify" /\ \E text \in QueryTexts : StartQuery(x, text))
           \/ EndQuery(x) \/ QueryTimeout(x) \/ LateQueryEnds(x)
    PROVE  DelegatedIInv'
<1> DEFINE c == call[x].cred
<1>1. call[x] \in CallSet /\ Safe(call[x]) /\ DelegatedTypeOK
  BY Zenon DEF DelegatedIInv, DelegatedTypeOK
<1>2. ASSUME BodyArrives(x) PROVE DelegatedIInv'
  <2> DEFINE new == [call[x] EXCEPT !.at = "verify"]
  <2>1. new \in CallSet
    BY <1>1, Zenon DEF CallSet
  <2>2. Safe(new)
    BY <1>1, <1>2, <2>1, Zenon DEF Safe, CallSet, Over, BodyArrives
  <2> QED BY <1>2, <2>1, <2>2, BecomesKeeps, DeniesKeeps, Zenon DEF BodyArrives
<1>3. ASSUME call[x].at = "verify", NEW text \in QueryTexts, StartQuery(x, text) PROVE DelegatedIInv'
  <2> DEFINE new == [call[x] EXCEPT !.at = "run", !.asked = text.kinds]
             starts == /\ Verified(c) /\ "query" \in Manifest[c].scopes
                       /\ Compiles(text) /\ Cardinality(Queries) < MaxQueries
  <2>1. CASE ~starts
    BY <1>3, <2>1, DeniesKeeps, Zenon DEF StartQuery
  <2>2. CASE starts
    <3>1. call[x].at = "verify" /\ c \in Credentials
      BY <1>1, <1>3, Zenon DEF Safe, Over
    <3>2. \E g \in Manifest[c].work : Unrestricted(g)
      BY <2>2, <3>1, Zenon DEF Verified, ValidRecords, ValidManifest
    <3>3. new \in CallSet
      BY <1>1, <2>2, Zenon DEF CallSet, Compiles, NodesParse
    <3>4. Safe(new)
      BY <1>1, <3>1, <3>2, <3>3 DEF Safe, CallSet, Over
    <3> QED BY <1>3, <2>2, <3>3, <3>4, BecomesKeeps, Zenon DEF StartQuery
  <2> QED BY <2>1, <2>2, Zenon
<1>4. ASSUME EndQuery(x) PROVE DelegatedIInv'
  <2>1. call[x].at = "run" /\ c \in Credentials /\ call[x].op = "query" /\ call[x].rels = {}
        /\ call[x].arenas = {}
    BY <1>1, <1>4, Zenon DEF EndQuery, Safe, Over
  <2>2. PICK g \in Manifest[c].work : Unrestricted(g)
    BY <1>1, <2>1, Zenon DEF Safe
  <2>3. Rows(x) \subseteq FactSet
    BY <1>1, FactsTyped, Zenon DEF Rows
  <2>4. ASSUME NEW i \in Rows(x) PROVE \E r \in Profile[c].work : Admits(r, "get", {}, i)
    <3>1. i.kind \in WorkKinds
      BY <1>1, FactsTyped, NameAssumption, Zenon DEF Rows
    <3>2. Admits(g, "get", {}, i)
      BY <2>2, <3>1, NameAssumption DEF Admits, Selects, Unrestricted, Within
    <3> QED BY <2>1, <3>2, ManifestNarrows, Zenon
  <2>5. ASSUME NEW rows \in SUBSET Rows(x),
               Becomes(x, [call[x] EXCEPT !.at = "audit", !.items = rows])
        PROVE  DelegatedIInv'
    <3> DEFINE new == [call[x] EXCEPT !.at = "audit", !.items = rows]
    <3>1. new \in CallSet
      BY <1>1, <2>3, Zenon DEF CallSet
    <3>2. GrantOp(call[x].op) = "get"
      BY <2>1, Zenon DEF GrantOp
    <3>3. /\ new.items = rows /\ new.arenas = {} /\ new.rels = {} /\ new.cred = c
          /\ GrantOp(new.op) = "get"
      BY <1>1, <2>1, <3>2, Zenon DEF CallSet
    <3>4. ItemsApproved(new) /\ ArenasApproved(new)
      BY <2>4, <3>3, Zenon DEF ItemsApproved, ArenasApproved
    <3>5. Safe(new)
      BY <1>1, <2>1, <3>1, <3>4, Zenon DEF Safe, CallSet, Over
    <3> QED BY <2>5, <3>1, <3>5, BecomesKeeps
  <2> QED BY <1>4, <2>5, DeniesKeeps, Zenon DEF EndQuery
<1>5. ASSUME QueryTimeout(x) PROVE DelegatedIInv'
  BY <1>5, Resting, BecomesKeeps, DeniesKeeps, Zenon DEF QueryTimeout
<1>6. ASSUME LateQueryEnds(x) PROVE DelegatedIInv'
  BY <1>6, DeniesKeeps, Zenon DEF LateQueryEnds
<1> QED BY <1>2, <1>3, <1>4, <1>5, <1>6, Zenon

\* The registry, the graph and the clock change no call.
LEMMA SurroundingsKeep ==
    ASSUME DelegatedIInv,
           \/ \E c \in Credentials, s \in Statuses : Publish(c, s)
           \/ \E w \in ReadWorks, a \in ReadArenas \cup {NoArena}, archived \in BOOLEAN, v \in ReadWorks :
                 ChangeWork(w, a, archived, {v})
           \/ ReadTick
    PROVE  DelegatedIInv'
<1>1. CASE \E c \in Credentials, s \in Statuses : Publish(c, s)
  BY <1>1, Zenon DEF Publish, DelegatedIInv, DelegatedTypeOK, workVars
<1>2. CASE \E w \in ReadWorks, a \in ReadArenas \cup {NoArena}, archived \in BOOLEAN, v \in ReadWorks :
               ChangeWork(w, a, archived, {v})
  BY <1>2 DEF ChangeWork, DelegatedIInv, DelegatedTypeOK
<1>3. CASE ReadTick
  BY <1>3 DEF ReadTick, DelegatedIInv, DelegatedTypeOK, workVars
<1> QED BY <1>1, <1>2, <1>3, Zenon

\* Every answer of the delegated surface stays inside the request approved for its
\* credential, and was recorded first.
THEOREM AnswersAreApproved == DelegatedSpec => []AnswersApproved
<1>1. DelegatedInit => DelegatedIInv
  BY InitKeeps
<1>2. DelegatedIInv /\ [DelegatedNext]_delegatedVars => DelegatedIInv'
  <2> SUFFICES ASSUME DelegatedIInv, [DelegatedNext]_delegatedVars PROVE DelegatedIInv'
    OBVIOUS
  <2>1. ASSUME NEW x \in ReadCalls, CallSteps(x) PROVE DelegatedIInv'
    BY Zenon, <2>1, AuthorizeKeeps, LoadKeeps, AdmitKeeps, ReadKeeps, PageKeeps, ArenaKeeps, EndKeeps,
       QueryKeeps DEF CallSteps
  <2>2. CASE UNCHANGED delegatedVars
    BY <2>2 DEF delegatedVars, workVars, DelegatedIInv, DelegatedTypeOK
  <2> QED BY <2>1, <2>2, SurroundingsKeep, Zenon DEF DelegatedNext
<1>3. DelegatedIInv => AnswersApproved
  <2> SUFFICES ASSUME DelegatedIInv, NEW x \in ReadCalls, call[x].at = "answered"
               PROVE  Approved(x) /\ call[x].audited
    BY Zenon DEF AnswersApproved
  <2>1. Safe(call[x])
    BY Zenon DEF DelegatedIInv
  <2>2. call[x].cred \in Credentials /\ ScopesOf(call[x].op) \subseteq Manifest[call[x].cred].scopes
    BY <2>1, Zenon DEF Safe, Over
  <2>3. ScopesOf(call[x].op) \subseteq Profile[call[x].cred].scopes
    BY <2>2, GrantAssumption, Zenon DEF ManifestSubset
  <2> QED BY <2>1, <2>3, Zenon DEF Safe, Approved, ItemsApproved, ArenasApproved
<1> QED BY <1>1, <1>2, <1>3, PTL DEF DelegatedSpec
=============================================================================
