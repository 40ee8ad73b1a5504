------------------------------- MODULE Outbox -------------------------------
(***************************************************************************)
(* The idempotent write path: EventOutbox._record_mutation_with_receipt    *)
(* run by concurrent writers over the transactional graph store, inside    *)
(* the audit transaction its callers open.                                 *)
(*                                                                         *)
(* A writer opens a transaction, looks its claim digest up, looks the      *)
(* legacy digest up, claims the receipt (MERGE on a unique property),      *)
(* runs the mutation, links the receipt to its subject, and commits; then  *)
(* the audit transaction around it publishes.  Uncommitted writes are kept *)
(* in the writer's program counter: they are visible to nobody else, but   *)
(* hold the claim and the subject locked until the transaction ends.       *)
(***************************************************************************)
EXTENDS Integers, FiniteSets

CONSTANTS
  Clients,       \* writers: HTTP workers, receivers, command line processes
  Claims,        \* claim digests of (issuer, audience, actor, raw key)
  LegacyClaims,  \* claims whose raw key is already held by a legacy receipt
  Subjects,      \* graph nodes a mutation can have as its subject
  Requests,      \* the requests the writers may send
  NoReceipt,     \* no EventReceipt node has this claim digest
  NoDigest,      \* the caller supplied no exact request digest
  Nobody         \* the named Work guard is free

Paths == {"api", "issue", "named"}
Operations == {"create", "update"}

ASSUME RequestAssumption ==
  /\ Requests # {}
  /\ \A r \in Requests :
       /\ r.claim \in Claims
       /\ r.path \in Paths
       /\ r.op \in Operations
       /\ r.subject \in Subjects
       /\ (r.digest = NoDigest) <=> (r.path = "api")

ASSUME SentinelAssumption ==
  /\ Nobody \notin Clients
  /\ \A r \in Requests :
       NoReceipt # [op |-> r.op, subject |-> r.subject, digest |-> r.digest]

ASSUME LegacyAssumption == LegacyClaims \subseteq Claims

VARIABLES
  receipts,   \* committed EventReceipt of each claim digest
  version,    \* committed version of each subject node, 0 when there is none
  emitted,    \* committed EMITTED_EVENT edges, <<subject, claim>>
  guard,      \* holder of the WorkMutationGuard lock
  pc,         \* where each writer is in _record_mutation_with_receipt
  req,        \* the request each writer is executing, or executed last
  outcome,    \* what the last finished call told its caller
  audit,      \* published write records, [claim, duplicate]
  performed   \* history: committed mutations per claim

store == <<receipts, version, emitted>>
vars == <<receipts, version, emitted, guard, pc, req, outcome, audit, performed>>

-----------------------------------------------------------------------------
\* EventReceipt.new: what of the receipt a later retry is compared with.
ReceiptOf(r) == [op |-> r.op, subject |-> r.subject, digest |-> r.digest]

Receipts == {ReceiptOf(r) : r \in Requests}

\* The writers whose uncommitted claim, and whose uncommitted mutation, hold locks.
Holding == {"claimed", "mutated", "linked"}
Writing == {"mutated", "linked"}

\* Mutant of MatchingScope: the exact request digest is not compared.
ScopeWithoutDigest(receipt, r) ==
  receipt.op = r.op /\ receipt.subject = r.subject

\* _require_matching_scope: operation and subject always, the request digest
\* only when the retry carries one.
MatchingScope(receipt, r) ==
  /\ receipt.op = r.op
  /\ receipt.subject = r.subject
  /\ r.digest # NoDigest => receipt.digest = r.digest

\* Mutant of ClaimHeld: the claim property has no unique constraint.
ClaimUnconstrained(k, c) == FALSE

\* The unique constraint makes a second MERGE of the claim wait for the first.
ClaimHeld(k, c) ==
  \E d \in Clients \ {c} :
     pc[d] \in Holding /\ req[d].claim = k

\* Mutant of SubjectHeld: a mutation does not lock the node it writes.
SubjectUnlocked(s, c) == FALSE

\* The row lock an uncommitted mutation holds on its subject.
SubjectHeld(s, c) ==
  \E d \in Clients \ {c} :
     pc[d] \in Writing /\ req[d].subject = s

\* Mutant of Release: the guard outlives the transaction that took it.
ReleaseForgotten(c) == guard' = guard

\* The transaction ends: the guard lock of work_mutation_transaction goes too.
Release(c) == guard' = IF guard = c THEN Nobody ELSE guard

InTransaction(c) ==
  pc[c] \in {"waiting", "begun", "looked", "fresh", "claimed", "mutated", "linked", "replaying"}

-----------------------------------------------------------------------------
Init ==
  /\ receipts = [k \in Claims |-> NoReceipt]
  /\ version = [s \in Subjects |-> 0]
  /\ emitted = {}
  /\ guard = Nobody
  /\ pc = [c \in Clients |-> "idle"]
  /\ req = [c \in Clients |-> CHOOSE r \in Requests : TRUE]
  /\ outcome = [c \in Clients |-> "none"]
  /\ audit = {}
  /\ performed = [k \in Claims |-> 0]

\* Open the transaction.  The named Work path still has to lock the guard row.
Begin(c) ==
  /\ pc[c] = "idle"
  /\ \E r \in Requests :
       /\ req' = [req EXCEPT ![c] = r]
       /\ pc' = [pc EXCEPT ![c] = IF r.path = "named" THEN "waiting" ELSE "begun"]
  /\ outcome' = [outcome EXCEPT ![c] = "none"]
  /\ UNCHANGED <<store, guard, audit, performed>>

\* _lock_named_work: the MERGE on the guard row waits for its holder to end.
LockGuard(c) ==
  /\ pc[c] = "waiting"
  /\ guard = Nobody
  /\ guard' = c
  /\ pc' = [pc EXCEPT ![c] = "begun"]
  /\ UNCHANGED <<store, req, outcome, audit, performed>>

\* An exception leaves the transaction: every staged write is discarded, the
\* locks are released, and the audit transaction drops its pending records.
Rollback(c, result) ==
  /\ pc' = [pc EXCEPT ![c] = "idle"]
  /\ outcome' = [outcome EXCEPT ![c] = result]
  /\ Release(c)
  /\ UNCHANGED <<store, req, audit, performed>>

\* An existing receipt answers the call, or refuses it.
Replay(c, receipt) ==
  \/ /\ MatchingScope(receipt, req[c])
     /\ pc' = [pc EXCEPT ![c] = "replaying"]
     /\ UNCHANGED <<store, guard, req, outcome, audit, performed>>
  \/ /\ ~ MatchingScope(receipt, req[c])
     /\ Rollback(c, "conflict")

FindClaim(c) ==
  /\ pc[c] = "begun"
  /\ \/ /\ receipts[req[c].claim] # NoReceipt
        /\ Replay(c, receipts[req[c].claim])
     \/ /\ receipts[req[c].claim] = NoReceipt
        /\ pc' = [pc EXCEPT ![c] = "looked"]
        /\ UNCHANGED <<store, guard, req, outcome, audit, performed>>

FindLegacy(c) ==
  /\ pc[c] = "looked"
  /\ \/ /\ req[c].claim \in LegacyClaims
        /\ Rollback(c, "conflict")
     \/ /\ req[c].claim \notin LegacyClaims
        /\ pc' = [pc EXCEPT ![c] = "fresh"]
        /\ UNCHANGED <<store, guard, req, outcome, audit, performed>>

\* claim_event_receipt: MERGE returns the committed receipt, or stages a new one.
ClaimReceipt(c) ==
  /\ pc[c] = "fresh"
  /\ ~ ClaimHeld(req[c].claim, c)
  /\ \/ /\ receipts[req[c].claim] # NoReceipt
        /\ Replay(c, receipts[req[c].claim])
     \/ /\ receipts[req[c].claim] = NoReceipt
        /\ pc' = [pc EXCEPT ![c] = "claimed"]
        /\ UNCHANGED <<store, guard, req, outcome, audit, performed>>

\* mutation(storage): create_node refuses an existing node, every other write
\* a missing one; either may refuse for reasons of its own (a stale version).
Mutate(c) ==
  /\ pc[c] = "claimed"
  /\ ~ SubjectHeld(req[c].subject, c)
  /\ (req[c].op = "create") <=> (version[req[c].subject] = 0)
  /\ pc' = [pc EXCEPT ![c] = "mutated"]
  /\ UNCHANGED <<store, guard, req, outcome, audit, performed>>

MutationFails(c) ==
  /\ pc[c] = "claimed"
  /\ ~ SubjectHeld(req[c].subject, c)
  /\ Rollback(c, "error")

\* link_new_event_receipt and on_result: the edge and the audit record are staged.
Link(c) ==
  /\ pc[c] = "mutated"
  /\ pc' = [pc EXCEPT ![c] = "linked"]
  /\ UNCHANGED <<store, guard, req, outcome, audit, performed>>

\* The server makes receipt, mutation and edge visible in one step.
Install(c) ==
  LET r == req[c] IN
  /\ receipts' = [receipts EXCEPT ![r.claim] = ReceiptOf(r)]
  /\ version' = [version EXCEPT ![r.subject] = @ + 1]
  /\ emitted' = emitted \cup {<<r.subject, r.claim>>}
  /\ performed' = [performed EXCEPT ![r.claim] = @ + 1]
  /\ Release(c)

Commit(c) ==
  /\ pc[c] = "linked"
  /\ Install(c)
  /\ pc' = [pc EXCEPT ![c] = "committed"]
  /\ UNCHANGED <<req, outcome, audit>>

\* The server commits but the driver reports a failure, or the process dies
\* before it hears: the caller is told nothing, the audit records are dropped.
CommitUnacknowledged(c) ==
  /\ pc[c] = "linked"
  /\ Install(c)
  /\ pc' = [pc EXCEPT ![c] = "idle"]
  /\ outcome' = [outcome EXCEPT ![c] = "error"]
  /\ UNCHANGED <<req, audit>>

\* A replay's transaction wrote nothing.
CommitReplay(c) ==
  /\ pc[c] = "replaying"
  /\ Release(c)
  /\ pc' = [pc EXCEPT ![c] = "replayed"]
  /\ UNCHANGED <<store, req, outcome, audit, performed>>

\* The records the audit transaction holds when the store has committed: the
\* api path audits inside the mutation only, the others audit replays as well.
Pending(c) ==
  IF pc[c] = "committed"
  THEN {[claim |-> req[c].claim, duplicate |-> FALSE]}
  ELSE IF req[c].path # "api"
       THEN {[claim |-> req[c].claim, duplicate |-> TRUE]}
       ELSE {}

\* AuditLog.transaction publishes after the storage transaction inside it.
Publish(c) ==
  /\ pc[c] \in {"committed", "replayed"}
  /\ audit' = audit \cup Pending(c)
  /\ outcome' = [outcome EXCEPT ![c] =
                   IF pc[c] = "committed" THEN "created" ELSE "replayed"]
  /\ pc' = [pc EXCEPT ![c] = "idle"]
  /\ UNCHANGED <<store, guard, req, performed>>

\* AuditUnavailable, or a crash: the caller must retry.  A record whose write
\* timed out may still become durable.
PublishFails(c) ==
  /\ pc[c] \in {"committed", "replayed"}
  /\ audit' \in {audit, audit \cup Pending(c)}
  /\ outcome' = [outcome EXCEPT ![c] = "error"]
  /\ pc' = [pc EXCEPT ![c] = "idle"]
  /\ UNCHANGED <<store, guard, req, performed>>

\* A denied second admission, a storage failure, a transaction timeout or a
\* crash, at any point before the commit.
Abort(c) == InTransaction(c) /\ Rollback(c, "error")

Step(c) ==
  \/ LockGuard(c) \/ FindClaim(c) \/ FindLegacy(c) \/ ClaimReceipt(c)
  \/ Mutate(c) \/ MutationFails(c) \/ Link(c)
  \/ Commit(c) \/ CommitUnacknowledged(c) \/ CommitReplay(c)
  \/ Publish(c) \/ PublishFails(c)

Next == \E c \in Clients : Begin(c) \/ Step(c) \/ Abort(c)

Spec == Init /\ [][Next]_vars

\* Worker threads keep running, and the lock manager of the database queues
\* the transactions that wait for a lock, so none is passed over for ever.
FairSpec ==
  /\ Spec
  /\ \A c \in Clients :
       /\ WF_vars(Step(c))
       /\ SF_vars(LockGuard(c))
       /\ SF_vars(ClaimReceipt(c))
       /\ SF_vars(Mutate(c) \/ MutationFails(c))

-----------------------------------------------------------------------------
Outcomes == {"none", "created", "replayed", "conflict", "error"}

Steps ==
  {"idle", "waiting", "begun", "looked", "fresh", "claimed", "mutated",
   "linked", "replaying", "committed", "replayed"}

AuditRecords == [claim : Claims, duplicate : BOOLEAN]

\* Every variable has its type.
TypeOK ==
  /\ receipts \in [Claims -> Receipts \cup {NoReceipt}]
  /\ version \in [Subjects -> Nat]
  /\ emitted \subseteq Subjects \X Claims
  /\ guard \in Clients \cup {Nobody}
  /\ pc \in [Clients -> Steps]
  /\ req \in [Clients -> Requests]
  /\ outcome \in [Clients -> Outcomes]
  /\ audit \subseteq AuditRecords
  /\ performed \in [Claims -> Nat]

Recorded == {k \in Claims : receipts[k] # NoReceipt}

\* However often and by however many writers a claim is retried, across lost
\* acknowledgements and failed audits, its mutation is committed exactly as
\* often as it has a receipt: once or never.
ExactlyOnce ==
  \A k \in Claims : performed[k] = IF k \in Recorded THEN 1 ELSE 0

\* Every receipt is linked to the subject it names by its one EMITTED_EVENT
\* edge, and no edge leads to a claim without a receipt.
LinkedOnce == emitted = {<<receipts[k].subject, k>> : k \in Recorded}

\* No mutation without a receipt and no receipt without its mutation: the
\* version of a subject counts the receipts that name it.
VersionCountsReceipts ==
  \A s \in Subjects :
     version[s] = Cardinality({k \in Recorded : receipts[k].subject = s})

\* The audit log never reports a write the store does not hold: what an
\* aborted transaction recorded through on_result is discarded with it.
AuditIsTruthful == \A a \in audit : a.claim \in Recorded

\* The receipt answers the request: same operation, same subject, and the same
\* digest when the request carries one.
Answers(receipt, r) ==
  /\ receipt.op = r.op /\ receipt.subject = r.subject
  /\ r.digest \in {NoDigest, receipt.digest}

\* A caller that was told its write happened, or was answered from an earlier
\* receipt, holds the receipt of exactly the scope it asked for, and what it
\* was told is in the audit log (but for replays on the api path).
AnswersAreBacked ==
  \A c \in Clients :
     LET k == req[c].claim IN
     /\ outcome[c] \in {"created", "replayed"} =>
          k \in Recorded /\ Answers(receipts[k], req[c])
     /\ outcome[c] = "created" => [claim |-> k, duplicate |-> FALSE] \in audit
     /\ outcome[c] = "replayed" /\ req[c].path # "api" =>
          [claim |-> k, duplicate |-> TRUE] \in audit

\* The locks do their work: what a writer checked before it claimed and before
\* it mutated still holds when it commits, for nobody else can change it.
LocksProtect ==
  /\ \A c \in Clients : pc[c] \in Holding =>
       req[c].claim \notin Recorded /\ req[c].claim \notin LegacyClaims
  /\ \A c \in Clients : pc[c] \in Writing =>
       ((req[c].op = "create") <=> (version[req[c].subject] = 0))
  /\ \A c, d \in Clients :
       /\ pc[c] \in Holding /\ pc[d] \in Holding /\ req[c].claim = req[d].claim
       => c = d
  /\ \A c, d \in Clients :
       /\ pc[c] \in Writing /\ pc[d] \in Writing /\ req[c].subject = req[d].subject
       => c = d

\* The store is consistent and the checks made before a write still hold at its
\* commit: the types, the locks, the edges, the versions and the audit together.
StoreInv ==
  TypeOK /\ LocksProtect /\ LinkedOnce /\ VersionCountsReceipts /\ AuditIsTruthful

\* A committed receipt is never replaced or removed by a later write.
ReceiptsArePermanent ==
  [][\A k \in Recorded : receipts'[k] = receipts[k]]_vars

Store == INSTANCE IdempotentStore

\* To anyone who looks only at receipts and versions, the steps of all writers
\* together are the indivisible writes of IdempotentStore.
ImplementsStore == Store!Spec

\* Every call ends: nobody waits for ever on the guard, on a claim another
\* writer holds, or on a locked subject.
EveryCallEnds == \A c \in Clients : pc[c] # "idle" ~> pc[c] = "idle"
=============================================================================
