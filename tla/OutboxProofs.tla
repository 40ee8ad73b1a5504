---------------------------- MODULE OutboxProofs ----------------------------
(***************************************************************************)
(* Proofs, for any number of writers, claims, subjects and requests, of    *)
(* what MCOutbox checks on a small instance.                               *)
(***************************************************************************)
EXTENDS Outbox, FiniteSetTheorems, TLAPS

\* What a lookup found stays true: a writer that is about to be answered has a
\* receipt that answers it, and one past the legacy lookup has a fresh claim.
ReplayBacked ==
  /\ \A c \in Clients : pc[c] \in {"replaying", "committed", "replayed"} =>
       req[c].claim \in Recorded /\ Answers(receipts[req[c].claim], req[c])
  /\ \A c \in Clients : pc[c] = "fresh" => req[c].claim \notin LegacyClaims

\* The inductive invariant: the locks protect what was checked before, so a
\* commit never meets a receipt of its claim.
IInv ==
  /\ TypeOK
  /\ LocksProtect
  /\ ReplayBacked
  /\ ExactlyOnce
  /\ LinkedOnce
  /\ AuditIsTruthful
  /\ AnswersAreBacked
  /\ IsFiniteSet(Recorded)
  /\ VersionCountsReceipts

\* A receipt is not the sentinel of a missing one.
LEMMA ReceiptIsReal == \A r \in Requests : ReceiptOf(r) # NoReceipt
  BY SentinelAssumption, Zenon DEF ReceiptOf

\* The scope comparison of the code accepts only receipts that answer.
LEMMA MatchingAnswers ==
  ASSUME NEW receipt, NEW r, MatchingScope(receipt, r)
  PROVE  Answers(receipt, r)
  BY Zenon DEF MatchingScope, Answers

\* Every step leaves every variable in its type.
LEMMA TypeInvariant == TypeOK /\ [Next]_vars => TypeOK'
<1> SUFFICES ASSUME TypeOK, [Next]_vars PROVE TypeOK'
  OBVIOUS
<1> USE RequestAssumption DEF TypeOK, Steps, Outcomes, AuditRecords, Receipts
<1>1. ASSUME NEW c \in Clients, Begin(c) PROVE TypeOK'
  BY <1>1 DEF Begin, store
<1>2. ASSUME NEW c \in Clients, LockGuard(c) PROVE TypeOK'
  BY <1>2, Zenon DEF LockGuard, store
<1>3. ASSUME NEW c \in Clients, NEW x \in Outcomes, Rollback(c, x) PROVE TypeOK'
  BY <1>3, Zenon DEF Rollback, Release, store
<1>4. ASSUME NEW c \in Clients, FindClaim(c) PROVE TypeOK'
  BY <1>4, <1>3, Zenon DEF FindClaim, Replay, store
<1>5. ASSUME NEW c \in Clients, FindLegacy(c) PROVE TypeOK'
  BY <1>5, <1>3, Zenon DEF FindLegacy, store
<1>6. ASSUME NEW c \in Clients, ClaimReceipt(c) PROVE TypeOK'
  BY <1>6, <1>3, Zenon DEF ClaimReceipt, Replay, store
<1>7. ASSUME NEW c \in Clients, Mutate(c) \/ MutationFails(c) \/ Link(c) PROVE TypeOK'
  BY <1>7, <1>3, Zenon DEF Mutate, MutationFails, Link, store
<1>8. ASSUME NEW c \in Clients, Install(c)
      PROVE  /\ receipts' \in [Claims -> Receipts \cup {NoReceipt}]
             /\ version' \in [Subjects -> Nat]
             /\ emitted' \subseteq Subjects \X Claims
             /\ guard' \in Clients \cup {Nobody}
             /\ performed' \in [Claims -> Nat]
  BY <1>8 DEF Install, Release
<1>9. ASSUME NEW c \in Clients, Commit(c) \/ CommitUnacknowledged(c) PROVE TypeOK'
  BY <1>9, <1>8, Zenon DEF Commit, CommitUnacknowledged
<1>10. ASSUME NEW c \in Clients, CommitReplay(c) PROVE TypeOK'
  BY <1>10, Zenon DEF CommitReplay, Release, store
<1>11. ASSUME NEW c \in Clients PROVE Pending(c) \subseteq AuditRecords
  <2>1. req[c].claim \in Claims
    OBVIOUS
  <2>2. \A b \in BOOLEAN : [claim |-> req[c].claim, duplicate |-> b] \in AuditRecords
    BY <2>1, Zenon
  <2> QED
    BY <2>2, Zenon DEF Pending
<1>12. ASSUME NEW c \in Clients, Publish(c) \/ PublishFails(c) PROVE TypeOK'
  BY <1>12, <1>11, Zenon DEF Publish, PublishFails, store
<1>13. ASSUME NEW c \in Clients, Abort(c) PROVE TypeOK'
  BY <1>13, <1>3, Zenon DEF Abort
<1>14. CASE UNCHANGED vars
  BY <1>14, Zenon DEF vars
<1> QED
  BY <1>1, <1>2, <1>4, <1>5, <1>6, <1>7, <1>9, <1>10, <1>12, <1>13, <1>14, Zenon DEF Next, Step

\* The initial state satisfies the inductive invariant.
LEMMA InitInvariant == Init => IInv
<1> SUFFICES ASSUME Init PROVE IInv
  OBVIOUS
<1> USE RequestAssumption DEF Init
<1>1. (CHOOSE r \in Requests : TRUE) \in Requests
  OBVIOUS
<1>2. TypeOK
  BY <1>1, Zenon DEF TypeOK, Steps, Outcomes
<1>3. LocksProtect /\ ReplayBacked
  BY Zenon DEF LocksProtect, Holding, Writing, ReplayBacked
<1>4. Recorded = {}
  BY Zenon DEF Recorded
<1>5. ExactlyOnce /\ LinkedOnce /\ AuditIsTruthful /\ AnswersAreBacked
  BY <1>4, Zenon DEF ExactlyOnce, LinkedOnce, AuditIsTruthful, AnswersAreBacked
<1>6. IsFiniteSet(Recorded) /\ VersionCountsReceipts
  <2>1. \A s \in Subjects : {k \in Recorded : receipts[k].subject = s} = {}
    BY <1>4, Zenon
  <2> QED
    BY <1>4, <2>1, FS_EmptySet, Zenon DEF VersionCountsReceipts
<1> QED
  BY <1>2, <1>3, <1>5, <1>6, Zenon DEF IInv

\* What a step that neither commits nor publishes may do to writer c: the store,
\* the audit log and every other writer stay as they are.
Quiet(c) ==
  /\ UNCHANGED <<receipts, version, emitted, audit, performed>>
  /\ pc' = [pc EXCEPT ![c] = pc'[c]]
  /\ req' = [req EXCEPT ![c] = req'[c]]
  /\ outcome' = [outcome EXCEPT ![c] = outcome'[c]]
  /\ outcome'[c] \notin {"created", "replayed"} \/ UNCHANGED <<req, outcome>>

\* A quiet step keeps the parts of the invariant that speak of the store.
LEMMA QuietKeepsStore ==
  ASSUME TypeOK, NEW c \in Clients, Quiet(c),
         ExactlyOnce, LinkedOnce, AuditIsTruthful, AnswersAreBacked,
         IsFiniteSet(Recorded), VersionCountsReceipts
  PROVE  /\ ExactlyOnce' /\ LinkedOnce' /\ AuditIsTruthful' /\ AnswersAreBacked'
         /\ IsFiniteSet(Recorded)' /\ VersionCountsReceipts'
<1>1. Recorded' = Recorded
  BY Zenon DEF Quiet, Recorded
<1>2. ExactlyOnce' /\ LinkedOnce' /\ AuditIsTruthful'
  BY <1>1 DEF Quiet, ExactlyOnce, LinkedOnce, AuditIsTruthful
<1>3. AnswersAreBacked'
  BY <1>1 DEF Quiet, AnswersAreBacked, Answers, TypeOK
<1>4. VersionCountsReceipts'
  BY <1>1, ZenonT(40) DEF Quiet, VersionCountsReceipts
<1> QED
  BY <1>1, <1>2, <1>3, <1>4, Zenon

\* A quiet step that claims nothing and mutates nothing keeps the locks sound.
LEMMA QuietKeepsLocks ==
  ASSUME TypeOK, NEW c \in Clients, Quiet(c), LocksProtect,
         pc'[c] \notin Holding \/ UNCHANGED <<pc, req>>
  PROVE  LocksProtect'
  BY DEF Quiet, TypeOK, LocksProtect, Holding, Writing, Recorded

\* The steps that end a transaction without effect.
LEMMA RollbackKeeps ==
  ASSUME TypeOK, IInv, NEW c \in Clients, NEW x \in {"conflict", "error"}, Rollback(c, x)
  PROVE  LocksProtect' /\ ReplayBacked' /\ Quiet(c)
<1>1. Quiet(c) /\ pc'[c] = "idle"
  BY Zenon DEF Rollback, Quiet, store, TypeOK
<1>2. LocksProtect'
  BY <1>1, QuietKeepsLocks, Zenon DEF IInv, Holding
<1>3. ReplayBacked'
  BY <1>1 DEF Quiet, IInv, ReplayBacked, Recorded, Answers, TypeOK
<1> QED
  BY <1>1, <1>2, <1>3, Zenon

\* A replay hands out a receipt that answers the request, or none.
LEMMA ReplayKeeps ==
  ASSUME IInv, NEW c \in Clients, req[c].claim \in Recorded,
         Replay(c, receipts[req[c].claim])
  PROVE  LocksProtect' /\ ReplayBacked' /\ Quiet(c)
<1> USE DEF IInv
<1>1. CASE ~ MatchingScope(receipts[req[c].claim], req[c])
  BY <1>1, RollbackKeeps, Zenon DEF Replay
<1>2. CASE MatchingScope(receipts[req[c].claim], req[c])
  <2>1. /\ pc' = [pc EXCEPT ![c] = "replaying"]
        /\ UNCHANGED <<store, guard, req, outcome, audit, performed>>
    BY <1>2, Zenon DEF Replay
  <2>2. Quiet(c) /\ pc'[c] = "replaying"
    BY <2>1, Zenon DEF Quiet, store, TypeOK
  <2>3. LocksProtect'
    BY <2>2, QuietKeepsLocks, Zenon DEF Holding
  <2>4. Answers(receipts[req[c].claim], req[c])
    BY <1>2, MatchingAnswers, Zenon
  <2>5. ReplayBacked'
    BY <2>1, <2>4, Zenon DEF ReplayBacked, Recorded, Answers, TypeOK, store
  <2> QED
    BY <2>2, <2>3, <2>5, Zenon
<1> QED
  BY <1>1, <1>2, Zenon

\* The mutation of a locked subject keeps the locks sound, and so does a claim.
LEMMA WorkKeeps ==
  ASSUME IInv, NEW c \in Clients,
         \/ FindClaim(c) \/ FindLegacy(c) \/ ClaimReceipt(c) \/ Mutate(c)
         \/ MutationFails(c) \/ Link(c) \/ Abort(c)
  PROVE  LocksProtect' /\ ReplayBacked' /\ Quiet(c)
<1> USE DEF IInv
<1>1. ASSUME NEW p \in {"looked", "fresh"},
             p = "fresh" => req[c].claim \notin LegacyClaims,
             pc' = [pc EXCEPT ![c] = p],
             UNCHANGED <<store, guard, req, outcome, audit, performed>>
      PROVE  LocksProtect' /\ ReplayBacked' /\ Quiet(c)
  <2>1. Quiet(c) /\ pc'[c] = p
    BY <1>1, Zenon DEF Quiet, store, TypeOK
  <2>2. LocksProtect'
    BY <2>1, QuietKeepsLocks, Zenon DEF Holding
  <2>3. ReplayBacked'
    BY <1>1, <2>1, Zenon DEF ReplayBacked, Recorded, Answers, TypeOK, store
  <2> QED
    BY <2>1, <2>2, <2>3, Zenon
<1>2. ASSUME receipts[req[c].claim] # NoReceipt PROVE req[c].claim \in Recorded
  BY <1>2, RequestAssumption, Zenon DEF Recorded, TypeOK
<1>3. CASE FindClaim(c)
  BY <1>1, <1>2, <1>3, ReplayKeeps, Zenon DEF FindClaim
<1>4. CASE FindLegacy(c)
  BY <1>1, <1>4, RollbackKeeps, Zenon DEF FindLegacy
<1>5. CASE ClaimReceipt(c)
  <2>1. CASE receipts[req[c].claim] # NoReceipt
    BY <1>2, <1>5, <2>1, ReplayKeeps, Zenon DEF ClaimReceipt
  <2>2. CASE receipts[req[c].claim] = NoReceipt
    <3>1. /\ pc[c] = "fresh" /\ ~ ClaimHeld(req[c].claim, c)
          /\ pc' = [pc EXCEPT ![c] = "claimed"]
          /\ UNCHANGED <<store, guard, req, outcome, audit, performed>>
      BY <1>5, <2>2, Zenon DEF ClaimReceipt
    <3>2. Quiet(c)
      BY <3>1, Zenon DEF Quiet, store, TypeOK
    <3>3. req[c].claim \notin Recorded /\ req[c].claim \notin LegacyClaims
      BY <2>2, <3>1, Zenon DEF Recorded, ReplayBacked
    <3>4. LocksProtect'
      BY <3>1, <3>3, SMTT(30) DEF LocksProtect, Holding, Writing, Recorded, ClaimHeld, store, TypeOK
    <3>5. ReplayBacked'
      BY <3>1, Zenon DEF ReplayBacked, Recorded, Answers, TypeOK, store
    <3> QED
      BY <3>2, <3>4, <3>5, Zenon
  <2> QED
    BY <2>1, <2>2, Zenon
<1>6. CASE Mutate(c)
  <2>1. Quiet(c)
    BY <1>6, Zenon DEF Mutate, Quiet, store, TypeOK
  <2>2. LocksProtect'
    BY <1>6, ZenonT(30) DEF Mutate, LocksProtect, Holding, Writing, Recorded, SubjectHeld, store, TypeOK
  <2>3. ReplayBacked'
    BY <1>6, Zenon DEF Mutate, ReplayBacked, Recorded, Answers, TypeOK, store
  <2> QED
    BY <2>1, <2>2, <2>3
<1>7. CASE Link(c)
  <2>1. Quiet(c)
    BY <1>7, Zenon DEF Link, Quiet, store, TypeOK
  <2>2. LocksProtect'
    BY <1>7, ZenonT(40) DEF Link, LocksProtect, Holding, Writing, Recorded, store, TypeOK
  <2>3. ReplayBacked'
    BY <1>7, Zenon DEF Link, ReplayBacked, Recorded, Answers, TypeOK, store
  <2> QED
    BY <2>1, <2>2, <2>3
<1>8. CASE MutationFails(c) \/ Abort(c)
  BY <1>8, RollbackKeeps, Zenon DEF MutationFails, Abort
<1> QED
  BY <1>3, <1>4, <1>5, <1>6, <1>7, <1>8, Zenon

\* A commit adds one receipt, of a claim that had none, with its mutation.
LEMMA InstallKeeps ==
  ASSUME IInv, NEW c \in Clients, pc[c] = "linked", Install(c)
  PROVE  /\ Recorded' = Recorded \cup {req[c].claim}
         /\ \A k \in Recorded : receipts'[k] = receipts[k]
         /\ receipts'[req[c].claim] = ReceiptOf(req[c])
         /\ ExactlyOnce' /\ LinkedOnce'
         /\ IsFiniteSet(Recorded)' /\ VersionCountsReceipts'
<1> DEFINE r == req[c]
<1> USE DEF IInv
<1>1. r \in Requests /\ r.claim \in Claims /\ r.subject \in Subjects
  BY RequestAssumption, Zenon DEF TypeOK
<1>2. r.claim \notin Recorded
  BY Zenon DEF LocksProtect, Holding
<1>3. /\ receipts' = [receipts EXCEPT ![r.claim] = ReceiptOf(r)]
      /\ version' = [version EXCEPT ![r.subject] = @ + 1]
      /\ emitted' = emitted \cup {<<r.subject, r.claim>>}
      /\ performed' = [performed EXCEPT ![r.claim] = @ + 1]
  BY Zenon DEF Install
<1>4. Recorded' = Recorded \cup {r.claim}
  BY <1>1, <1>3, ReceiptIsReal, Zenon DEF Recorded, TypeOK
<1>5. \A k \in Recorded : receipts'[k] = receipts[k]
  BY <1>2, <1>3, Zenon DEF Recorded, TypeOK
<1>6. receipts'[r.claim] = ReceiptOf(r) /\ ReceiptOf(r).subject = r.subject
  BY <1>1, <1>3, Zenon DEF TypeOK, ReceiptOf
<1>7. ExactlyOnce'
  BY <1>1, <1>2, <1>3, <1>4, SMTT(30) DEF ExactlyOnce, TypeOK
<1>8. LinkedOnce'
  BY <1>2, <1>3, <1>4, <1>5, <1>6, Zenon DEF LinkedOnce
<1>9. IsFiniteSet(Recorded)'
  BY <1>4, FS_AddElement, Zenon
<1>10. ASSUME NEW s \in Subjects
       PROVE  version'[s] = Cardinality({k \in Recorded' : receipts'[k].subject = s})
  <2> DEFINE before == {k \in Recorded : receipts[k].subject = s}
             after == {k \in Recorded' : receipts'[k].subject = s}
  <2>1. IsFiniteSet(before)
    BY FS_Subset, Zenon
  <2>2. version[s] = Cardinality(before)
    BY Zenon DEF VersionCountsReceipts
  <2>3. CASE s = r.subject
    <3>1. after = before \cup {r.claim} /\ r.claim \notin before
      BY <1>2, <1>4, <1>5, <1>6, <2>3, Zenon
    <3>2. Cardinality(after) = Cardinality(before) + 1
      BY <2>1, <3>1, FS_AddElement, Zenon
    <3>3. version'[s] = version[s] + 1
      BY <1>1, <1>3, <2>3, Zenon DEF TypeOK
    <3> QED
      BY <2>2, <3>2, <3>3, Zenon
  <2>4. CASE s # r.subject
    <3>1. after = before
      BY <1>2, <1>4, <1>5, <1>6, <2>4, Zenon
    <3> QED
      BY <1>3, <2>2, <2>4, <3>1, Zenon DEF TypeOK
  <2> QED
    BY <2>3, <2>4, Zenon
<1> QED
  BY <1>4, <1>5, <1>6, <1>7, <1>8, <1>9, <1>10, Zenon DEF VersionCountsReceipts

\* Commits, acknowledged or not, preserve the inductive invariant.
LEMMA CommitKeeps ==
  ASSUME IInv, TypeOK', NEW c \in Clients, Commit(c) \/ CommitUnacknowledged(c)
  PROVE  IInv'
<1> USE DEF IInv
<1>1. /\ pc[c] = "linked" /\ Install(c) /\ UNCHANGED <<req, audit>>
      /\ \E p \in {"committed", "idle"} : pc' = [pc EXCEPT ![c] = p]
      /\ outcome' = [outcome EXCEPT ![c] = outcome'[c]]
      /\ outcome'[c] = outcome[c] \/ outcome'[c] = "error"
  BY Zenon DEF Commit, CommitUnacknowledged, TypeOK
<1>2. /\ Recorded' = Recorded \cup {req[c].claim}
      /\ \A k \in Recorded : receipts'[k] = receipts[k]
      /\ receipts'[req[c].claim] = ReceiptOf(req[c])
      /\ ExactlyOnce' /\ LinkedOnce'
      /\ IsFiniteSet(Recorded)' /\ VersionCountsReceipts'
  BY <1>1, InstallKeeps, Zenon
<1>3. LocksProtect'
  <2>1. pc'[c] \notin Holding /\ \A d \in Clients \ {c} : pc'[d] = pc[d]
    BY <1>1, Zenon DEF TypeOK, Holding
  <2>2. \A d \in Clients \ {c} : pc[d] \in Holding => req[d].claim # req[c].claim
    BY <1>1, Zenon DEF LocksProtect, Holding
  <2>3. \A d \in Clients \ {c} : pc[d] \in Writing =>
           version'[req[d].subject] = version[req[d].subject]
    BY <1>1, SMTT(30) DEF LocksProtect, Writing, Install, TypeOK
  <2> QED
    BY <1>1, <1>2, <2>1, <2>2, <2>3, SMTT(30) DEF LocksProtect, Writing, Holding
<1>4. Answers(receipts'[req[c].claim], req[c])
  BY <1>2 DEF Answers, ReceiptOf
<1>5. ReplayBacked'
  <2>1. req' = req /\ pc'[c] \in {"committed", "idle"} /\ \A d \in Clients \ {c} : pc'[d] = pc[d]
    BY <1>1, Zenon DEF TypeOK
  <2>2. \A d \in Clients : pc'[d] \in {"replaying", "committed", "replayed"} =>
           req[d].claim \in Recorded' /\ Answers(receipts'[req[d].claim], req[d])
    <3> SUFFICES ASSUME NEW d \in Clients, pc'[d] \in {"replaying", "committed", "replayed"}
                 PROVE  req[d].claim \in Recorded' /\ Answers(receipts'[req[d].claim], req[d])
      OBVIOUS
    <3>1. CASE d = c
      BY <1>2, <1>4, <3>1, Zenon
    <3>2. CASE d # c
      BY <1>2, <2>1, <3>2, Zenon DEF ReplayBacked
    <3> QED
      BY <3>1, <3>2, Zenon
  <2> QED
    BY <2>1, <2>2, Zenon DEF ReplayBacked, Answers
<1>6. AuditIsTruthful'
  BY <1>1, <1>2, Zenon DEF AuditIsTruthful
<1>7. AnswersAreBacked'
  <2>1. ASSUME NEW d \in Clients, outcome'[d] \in {"created", "replayed"}
        PROVE  outcome'[d] = outcome[d] /\ req'[d] = req[d]
    BY <1>1, <2>1, Zenon DEF TypeOK
  <2>2. \A d \in Clients : req[d].claim \in Recorded =>
           req[d].claim \in Recorded' /\ receipts'[req[d].claim] = receipts[req[d].claim]
    BY <1>2, Zenon
  <2>3. req' = req /\ audit' = audit
    BY <1>1, Zenon
  <2> SUFFICES ASSUME NEW d \in Clients, outcome'[d] \in {"created", "replayed"}
               PROVE  /\ req[d].claim \in Recorded' /\ Answers(receipts'[req[d].claim], req[d])
                      /\ outcome'[d] = "created" => [claim |-> req[d].claim, duplicate |-> FALSE] \in audit
                      /\ outcome'[d] = "replayed" /\ req[d].path # "api"
                           => [claim |-> req[d].claim, duplicate |-> TRUE] \in audit
    BY <2>3, Zenon DEF AnswersAreBacked, Answers
  <2>4. outcome'[d] = outcome[d]
    BY <2>1, Zenon
  <2>5. req[d].claim \in Recorded /\ Answers(receipts[req[d].claim], req[d])
    BY <2>4, Zenon DEF AnswersAreBacked
  <2> QED
    BY <2>2, <2>4, <2>5, Zenon DEF AnswersAreBacked
<1> QED
  BY <1>2, <1>3, <1>5, <1>6, <1>7, Zenon

\* So does the end of the audit transaction, in success or failure.
LEMMA PublishKeeps ==
  ASSUME IInv, TypeOK', NEW c \in Clients, Publish(c) \/ PublishFails(c)
  PROVE  IInv'
<1> USE DEF IInv
<1>1. /\ pc[c] \in {"committed", "replayed"}
      /\ pc' = [pc EXCEPT ![c] = "idle"]
      /\ audit' \in {audit, audit \cup Pending(c)}
      /\ UNCHANGED <<receipts, version, emitted, req, performed>>
  BY Zenon DEF Publish, PublishFails, store
<1>2. Recorded' = Recorded
  BY <1>1, Zenon DEF Recorded
<1>3. req[c].claim \in Recorded /\ Answers(receipts[req[c].claim], req[c])
  BY <1>1, Zenon DEF ReplayBacked
<1>4. \A a \in Pending(c) : a.claim = req[c].claim
  BY DEF Pending
<1>5. ExactlyOnce' /\ LinkedOnce' /\ AuditIsTruthful'
  BY <1>1, <1>2, <1>3, <1>4, Zenon DEF ExactlyOnce, LinkedOnce, AuditIsTruthful
<1>6. IsFiniteSet(Recorded)' /\ VersionCountsReceipts'
  BY <1>1, <1>2, Zenon DEF VersionCountsReceipts
<1>7. LocksProtect' /\ ReplayBacked'
  BY <1>1, <1>2, ZenonT(30) DEF LocksProtect, ReplayBacked, Holding, Writing, TypeOK
<1>8. AnswersAreBacked'
  <2>1. CASE Publish(c)
    <3>1. /\ outcome' = [outcome EXCEPT ![c] =
                           IF pc[c] = "committed" THEN "created" ELSE "replayed"]
          /\ audit' = audit \cup Pending(c)
      BY <2>1, Zenon DEF Publish
    <3>2. pc[c] = "committed" => [claim |-> req[c].claim, duplicate |-> FALSE] \in audit'
      BY <3>1, Zenon DEF Pending
    <3>3. pc[c] = "replayed" /\ req[c].path # "api"
            => [claim |-> req[c].claim, duplicate |-> TRUE] \in audit'
      BY <3>1, Zenon DEF Pending
    <3> QED
      BY <1>1, <1>2, <1>3, <3>1, <3>2, <3>3, Zenon DEF AnswersAreBacked, TypeOK
  <2>2. CASE PublishFails(c)
    BY <1>1, <1>2, <2>2, Zenon DEF PublishFails, AnswersAreBacked, TypeOK
  <2> QED
    BY <2>1, <2>2, Zenon
<1> QED
  BY <1>5, <1>6, <1>7, <1>8, Zenon

\* Every step preserves the inductive invariant.
LEMMA NextInvariant == IInv /\ [Next]_vars => IInv'
<1> SUFFICES ASSUME IInv, [Next]_vars PROVE IInv'
  OBVIOUS
<1> USE DEF IInv
<1>1. TypeOK'
  BY TypeInvariant, Zenon
<1>2. ASSUME NEW c \in Clients, Quiet(c), LocksProtect', ReplayBacked' PROVE IInv'
  BY <1>1, <1>2, QuietKeepsStore, Zenon
<1>3. ASSUME NEW c \in Clients, Begin(c) \/ LockGuard(c) \/ CommitReplay(c) PROVE IInv'
  <2>1. Quiet(c) /\ pc'[c] \notin Holding
    BY <1>3, Zenon DEF Begin, LockGuard, CommitReplay, Quiet, Holding, store, TypeOK
  <2>2. LocksProtect'
    BY <2>1, QuietKeepsLocks, Zenon
  <2>3. ReplayBacked'
    <3>1. /\ Recorded' = Recorded /\ receipts' = receipts
          /\ \A d \in Clients \ {c} : pc'[d] = pc[d] /\ req'[d] = req[d]
      BY <2>1, Zenon DEF Quiet, Recorded, TypeOK
    <3>2. \/ pc'[c] \in {"waiting", "begun"}
          \/ pc[c] = "replaying" /\ pc'[c] = "replayed" /\ req'[c] = req[c]
      BY <1>3, Zenon DEF Begin, LockGuard, CommitReplay, TypeOK
    <3> QED
      BY <3>1, <3>2, Zenon DEF ReplayBacked
  <2> QED
    BY <1>2, <2>1, <2>2, <2>3, Zenon
<1>4. ASSUME NEW c \in Clients,
             \/ FindClaim(c) \/ FindLegacy(c) \/ ClaimReceipt(c) \/ Mutate(c)
             \/ MutationFails(c) \/ Link(c) \/ Abort(c)
      PROVE  IInv'
  BY <1>2, <1>4, WorkKeeps, Zenon
<1>5. ASSUME NEW c \in Clients, Commit(c) \/ CommitUnacknowledged(c) PROVE IInv'
  BY <1>1, <1>5, CommitKeeps, Zenon
<1>6. ASSUME NEW c \in Clients, Publish(c) \/ PublishFails(c) PROVE IInv'
  BY <1>1, <1>6, PublishKeeps, Zenon
<1>7. CASE UNCHANGED vars
  <2>1. Recorded' = Recorded
    BY <1>7, Zenon DEF vars, Recorded
  <2>2. LocksProtect' /\ ReplayBacked'
    BY <1>7, <2>1, Zenon DEF vars, LocksProtect, ReplayBacked, Answers
  <2>3. ExactlyOnce' /\ LinkedOnce' /\ AuditIsTruthful'
    BY <1>7, <2>1, Zenon DEF vars, ExactlyOnce, LinkedOnce, AuditIsTruthful
  <2>4. AnswersAreBacked' /\ VersionCountsReceipts'
    BY <1>7, <2>1, Zenon DEF vars, AnswersAreBacked, Answers, VersionCountsReceipts
  <2> QED
    BY <1>1, <2>1, <2>2, <2>3, <2>4, Zenon
<1> QED
  BY <1>3, <1>4, <1>5, <1>6, <1>7, Zenon DEF Next, Step

-----------------------------------------------------------------------------
\* The inductive invariant holds in every state a set of writers can reach.
THEOREM Invariant == Spec => []IInv
  BY InitInvariant, NextInvariant, PTL DEF Spec

\* For any number of writers and retries a claim's mutation is committed exactly
\* as often as the claim has a receipt (_record_mutation_with_receipt).
THEOREM MutationExactlyOnce == Spec => []ExactlyOnce
<1>1. IInv => ExactlyOnce
  BY Zenon DEF IInv
<1> QED
  BY <1>1, Invariant, PTL

\* The types, and that receipts, EMITTED_EVENT edges, versions and audit always
\* agree; what a writer checked before it locked is still true when it commits.
THEOREM StoreIsConsistent == Spec => []StoreInv
<1>1. IInv => StoreInv
  BY Zenon DEF IInv, StoreInv
<1> QED
  BY <1>1, Invariant, PTL

\* A caller that is answered holds the receipt of what it asked for, and finds it
\* in the audit log.
THEOREM AnswersAreTrue == Spec => []AnswersAreBacked
<1>1. IInv => AnswersAreBacked
  BY Zenon DEF IInv
<1> QED
  BY <1>1, Invariant, PTL

\* Only a commit touches the receipts and the versions.
LEMMA OnlyCommitsWrite ==
  ASSUME NEW c \in Clients, Begin(c) \/ Step(c) \/ Abort(c),
         ~ (Commit(c) \/ CommitUnacknowledged(c))
  PROVE  UNCHANGED <<receipts, version>>
  BY Zenon DEF Begin, Step, Abort, LockGuard, FindClaim, FindLegacy, ClaimReceipt, Replay, Rollback,
     Mutate, MutationFails, Link, CommitReplay, Publish, PublishFails, store

\* No step of any writer replaces or removes a committed receipt.
THEOREM ReceiptsStay == Spec => ReceiptsArePermanent
<1>1. IInv /\ [Next]_vars => [\A k \in Recorded : receipts'[k] = receipts[k]]_vars
  <2> SUFFICES ASSUME IInv, Next PROVE \A k \in Recorded : receipts'[k] = receipts[k]
    OBVIOUS
  <2>1. PICK c \in Clients : Begin(c) \/ Step(c) \/ Abort(c)
    BY Zenon DEF Next
  <2>2. CASE Commit(c) \/ CommitUnacknowledged(c)
    BY <2>2, InstallKeeps, Zenon DEF Commit, CommitUnacknowledged
  <2>3. CASE ~ (Commit(c) \/ CommitUnacknowledged(c))
    BY <2>1, <2>3, OnlyCommitsWrite, Zenon
  <2> QED
    BY <2>2, <2>3, Zenon
<1> QED
  BY <1>1, Invariant, PTL DEF Spec, ReceiptsArePermanent

\* The concurrent write path implements the store of indivisible writes.
THEOREM Refinement == Spec => ImplementsStore
<1>1. Init => Store!Init
  BY Zenon DEF Init, Store!Init
<1>2. IInv /\ [Next]_vars => [Store!Next]_(Store!vars)
  <2> SUFFICES ASSUME IInv, [Next]_vars PROVE Store!Next \/ UNCHANGED Store!vars
    OBVIOUS
  <2>1. CASE UNCHANGED vars
    BY <2>1, Zenon DEF vars, Store!vars
  <2>2. ASSUME NEW c \in Clients, Begin(c) \/ Step(c) \/ Abort(c)
        PROVE  Store!Next \/ UNCHANGED Store!vars
    <3>1. CASE Commit(c) \/ CommitUnacknowledged(c)
      <4>1. pc[c] = "linked" /\ Install(c)
        BY <3>1, Zenon DEF Commit, CommitUnacknowledged
      <4>2. /\ req[c] \in Requests /\ req[c].claim \in Claims
            /\ req[c].claim \notin Recorded /\ req[c].claim \notin LegacyClaims
            /\ (req[c].op = "create") <=> (version[req[c].subject] = 0)
        BY <4>1, RequestAssumption, Zenon DEF IInv, TypeOK, LocksProtect, Holding, Writing
      <4>3. Store!Apply(req[c])
        BY <4>1, <4>2, Zenon DEF Store!Apply, Install, ReceiptOf, Recorded
      <4> QED
        BY <4>2, <4>3, Zenon DEF Store!Next
    <3>2. CASE ~ (Commit(c) \/ CommitUnacknowledged(c))
      BY <2>2, <3>2, OnlyCommitsWrite, Zenon DEF Store!vars
    <3> QED
      BY <3>1, <3>2, Zenon
  <2> QED
    BY <2>1, <2>2, Zenon DEF Next
<1> QED
  BY <1>1, <1>2, Invariant, PTL DEF Spec, ImplementsStore, Store!Spec
=============================================================================
