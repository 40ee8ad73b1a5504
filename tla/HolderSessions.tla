---------------------------- MODULE HolderSessions ----------------------------
(***************************************************************************)
(* Finite holder sessions: prepare, exchange, status and the fenced read   *)
(* of HolderSessionHost, over the roots HolderGrantHost keeps.  All of it  *)
(* lives in one SQLite database in DELETE journal mode.                    *)
(*                                                                         *)
(* A call runs in a server process; several run at once.  One BEGIN        *)
(* IMMEDIATE transaction is open at a time, readers may share the database *)
(* with it, and a commit that writes waits for the readers.  A handler     *)
(* samples the clock several times, cryptography runs in between, the      *)
(* clock may be set back, and a process may die or time out anywhere.      *)
(***************************************************************************)
EXTENDS Naturals, FiniteSets

CONSTANTS
  Procs,         \* server processes, each serving one call at a time
  Requests,      \* request ids the clients choose
  Roots,         \* grant ids of reusable parents, all of one holder and device
  Auths,         \* signed authorizations a client can make of a challenge
  StatusNonces,  \* nonces of status proofs
  ReadNonces,    \* nonces of read proofs
  ReviewTime,    \* 120 seconds
  Lifetimes,     \* the lifetimes a request ends up with
  ProofTime,     \* how long a proof is good for
  Capacity,      \* 10000 rows in each table
  MaxTime,       \* bound: the clock's largest value
  MaxUpsets,     \* bound: set-backs of the clock, changes of the assignment, and
                 \* departures of policy and membership, at once
  MaxMints,      \* bound: credentials signed
  None

Nonces == StatusNonces \cup ReadNonces

ASSUME SessionAssumption ==
  /\ None \notin Requests \cup Roots \cup Auths \cup Nonces
  /\ {ReviewTime, ProofTime, Capacity, MaxTime, MaxUpsets, MaxMints} \subseteq Nat
  /\ Lifetimes \subseteq Nat
  /\ StatusNonces \cap ReadNonces = {}

VARIABLES
  now,        \* _seconds(None)
  rollbacks,  \* how often the clock was set back
  enabled,    \* the policy file is the one the host was started with
  member,     \* membership_check of the holder
  epoch,      \* revision of the holder's current assignment
  root,       \* holder_roots: status, and the revision it was issued for
  barred,     \* enrollments.revoked: "no", "yes", or "half" inside revoke
  row,        \* holder_sessions
  expired,    \* holder_session_expired_reviews
  replay,     \* holder_session_status_replay and holder_replay
  proof,      \* proofs signed so far
  minted,     \* credentials signed so far
  job,        \* the call each process serves
  given,      \* history: the credentials handed out for a request
  ended,      \* history: requests without a credential answered "expired"
  uses        \* history: how often a proof bought an answer

clockVars == <<now, rollbacks>>
policyVars == <<enabled, member, epoch, root, barred>>
sessionVars == <<row, expired, replay>>
history == <<given, ended, uses>>
vars == <<now, rollbacks, enabled, member, epoch, root, barred, row, expired, replay,
          proof, minted, job, given, ended, uses>>

\* A row of holder_sessions; root = None when there is none, cred = 0 while
\* the credential column is NULL.
Rows == [root : Roots \cup {None}, issued : Nat, deadline : Nat, expires : Nat,
         auth : Auths \cup {None}, cred : Nat]
NoRow == [root |-> None, issued |-> 0, deadline |-> 0, expires |-> 0,
          auth |-> None, cred |-> 0]

Exists(r) == row[r].root # None
Issued(r) == row[r].cred # 0

\* A process between calls.
Idle == [pc |-> "idle", req |-> None, root |-> None, auth |-> None, nonce |-> None,
         time |-> 0, ttl |-> 0, token |-> 0, answer |-> "none"]

\* Places inside a BEGIN IMMEDIATE transaction.
Writing == {"reissue", "sign", "install", "judge", "seal", "commit"}

Locked == \E p \in Procs : job[p].pc \in Writing
Reading == \E p \in Procs : job[p].pc = "disclose"

\* A short write transaction of somebody else can run from start to commit.
Free == ~ Locked /\ ~ Reading

\* _parent and HolderGrantHost._current: the root is active and was issued for
\* the assignment as it is now, and the holder is still a member.
Current(g) == root[g].status = "active" /\ root[g].epoch = epoch /\ member

Within(t, x) == x.issued <= t /\ t < x.expires

Go(p, place) == job' = [job EXCEPT ![p].pc = place]

\* The call returns or raises; what was not committed is rolled back.
Leave(p) == job' = [job EXCEPT ![p] = Idle]

-----------------------------------------------------------------------------
Init ==
  /\ now = 0 /\ rollbacks = 0
  /\ enabled = TRUE /\ member = TRUE
  /\ epoch = 0
  /\ root = [g \in Roots |-> [status |-> "none", epoch |-> 0]]
  /\ barred = "no"
  /\ row = [r \in Requests |-> NoRow]
  /\ expired = {}
  /\ replay = {}
  /\ proof = [n \in Nonces |-> [req |-> None, issued |-> 0, expires |-> 0]]
  /\ minted = 0
  /\ job = [p \in Procs |-> Idle]
  /\ given = [r \in Requests |-> {}]
  /\ ended = {}
  /\ uses = [n \in Nonces |-> 0]

\* compile_prepare works on the supplied parent alone, before any transaction.
Prepare(p, r, g, ttl) ==
  /\ job[p] = Idle /\ enabled
  /\ root[g].status # "none"
  /\ job' = [job EXCEPT ![p] = [Idle EXCEPT
       !.pc = "retain", !.req = r, !.root = g, !.time = now, !.ttl = ttl]]
  /\ UNCHANGED <<clockVars, policyVars, sessionVars, proof, minted, history>>

Challenge(p) ==
  LET t == job[p].time
      ttl == job[p].ttl
  IN [NoRow EXCEPT !.root = job[p].root, !.issued = t, !.expires = t + ttl,
        !.deadline = t + (IF ReviewTime < ttl THEN ReviewTime ELSE ttl)]

\* Mutant of Retain: a request that exists already gets the new challenge.
RetainAgain(p) ==
  /\ job[p].pc = "retain"
  /\ enabled /\ Free
  /\ row' = [row EXCEPT ![job[p].req] = Challenge(p)]
  /\ Leave(p)
  /\ UNCHANGED <<clockVars, policyVars, expired, replay, proof, minted, history>>

\* One transaction: the challenge is kept unless the request has one already,
\* which is the answer then if the request is the same one.
Retain(p) ==
  /\ job[p].pc = "retain"
  /\ \/ /\ enabled /\ Free /\ ~ Exists(job[p].req)
        /\ Cardinality({r \in Requests : Exists(r)}) < Capacity
        /\ row' = [row EXCEPT ![job[p].req] = Challenge(p)]
     \/ /\ \/ ~ enabled
           \/ ~ Locked /\ Exists(job[p].req)
           \/ ~ Locked /\ Cardinality({r \in Requests : Exists(r)}) >= Capacity
        /\ row' = row
  /\ Leave(p)
  /\ UNCHANGED <<clockVars, policyVars, expired, replay, proof, minted, history>>

-----------------------------------------------------------------------------
\* The client has the challenge of its request; both signatures are verified
\* before the transaction, as of the challenge's own time.
Exchange(p, r, a) ==
  /\ job[p] = Idle /\ enabled
  /\ Exists(r)
  /\ job' = [job EXCEPT ![p] = [Idle EXCEPT !.pc = "exchange", !.req = r, !.auth = a]]
  /\ UNCHANGED <<clockVars, policyVars, sessionVars, proof, minted, history>>

\* _review_expired at time t: an earlier verdict stays, whatever the clock says.
ReviewOver(r, t) == r \in expired \/ (~ Issued(r) /\ t >= row[r].deadline)

\* The answer is decided; what is left is COMMIT.
Decide(p, answer, token, t) ==
  job' = [job EXCEPT ![p].pc = "commit", ![p].answer = answer, ![p].token = token,
                     ![p].time = t]

\* BEGIN IMMEDIATE, then the first sample of the clock.
Admit(p) ==
  LET r == job[p].req
      c == row[r]
      valid == enabled /\ now >= c.issued /\ c.auth \in {None, job[p].auth}
  IN /\ job[p].pc = "exchange" /\ ~ Locked
     /\ \/ valid /\ now >= c.expires /\ Decide(p, "expired", 0, now)
        \/ valid /\ now < c.expires /\ Current(c.root) /\ Issued(r) /\ Go(p, "reissue")
        \/ /\ valid /\ now < c.expires /\ Current(c.root) /\ ~ Issued(r)
           /\ IF ReviewOver(r, now) THEN Decide(p, "expired", 0, now) ELSE Go(p, "sign")
        \/ ~ (valid /\ (now >= c.expires \/ Current(c.root))) /\ Leave(p)
     /\ UNCHANGED <<clockVars, policyVars, sessionVars, proof, minted, history>>

\* An exact retry after the credential was issued: the original credential.
Reissue(p) ==
  LET r == job[p].req
      c == row[r]
  IN /\ job[p].pc = "reissue"
     /\ \/ now >= c.expires /\ Decide(p, "expired", 0, now)
        \/ Within(now, c) /\ Current(c.root) /\ Decide(p, "issued", c.cred, now)
        \/ (now < c.issued \/ (now < c.expires /\ ~ Current(c.root))) /\ Leave(p)
     /\ UNCHANGED <<clockVars, policyVars, sessionVars, proof, minted, history>>

\* issue_holder_session has run; the second sample.
Sign(p) ==
  LET r == job[p].req
      c == row[r]
  IN /\ job[p].pc = "sign" /\ minted < MaxMints
     /\ minted' = minted + 1
     /\ \/ enabled /\ now >= c.issued /\ ReviewOver(r, now) /\ Decide(p, "expired", 0, now)
        \/ /\ enabled /\ now >= c.issued /\ ~ ReviewOver(r, now) /\ Current(c.root)
           /\ job' = [job EXCEPT ![p].pc = "install", ![p].token = minted + 1]
        \/ /\ ~ (enabled /\ now >= c.issued /\ (ReviewOver(r, now) \/ Current(c.root)))
           /\ Leave(p)
     /\ UNCHANGED <<clockVars, policyVars, sessionVars, proof, history>>

\* Mutant of Install: the time checked after signing is good enough.
InstallUnchecked(p) ==
  /\ job[p].pc = "install" /\ enabled
  /\ Decide(p, "issued", job[p].token, now)
  /\ UNCHANGED <<clockVars, policyVars, sessionVars, proof, minted, history>>

\* The third sample, after the last look at the parent.
Install(p) ==
  LET r == job[p].req
      c == row[r]
  IN /\ job[p].pc = "install"
     /\ \/ enabled /\ now >= c.issued /\ ReviewOver(r, now) /\ Decide(p, "expired", 0, now)
        \/ enabled /\ now >= c.issued /\ ~ ReviewOver(r, now)
           /\ Decide(p, "issued", job[p].token, now)
        \/ ~ (enabled /\ now >= c.issued) /\ Leave(p)
     /\ UNCHANGED <<clockVars, policyVars, sessionVars, proof, minted, history>>

-----------------------------------------------------------------------------
\* The client signs a proof with its temporary key.
SignProof(n, r) ==
  /\ proof[n].req = None /\ Exists(r)
  /\ proof' = [proof EXCEPT ![n] = [req |-> r, issued |-> now, expires |-> now + ProofTime]]
  /\ UNCHANGED <<clockVars, policyVars, sessionVars, minted, job, history>>

Status(p, n) ==
  /\ job[p] = Idle /\ enabled
  /\ proof[n].req # None
  /\ job' = [job EXCEPT ![p] = [Idle EXCEPT
       !.pc = "status", !.req = proof[n].req, !.nonce = n]]
  /\ UNCHANGED <<clockVars, policyVars, sessionVars, proof, minted, history>>

\* _status_time: the proof and the challenge are both good now.
StatusTime(p) ==
  Within(now, row[job[p].req]) /\ Within(now, proof[job[p].nonce])

\* BEGIN IMMEDIATE, the native verification and the first sample after it.
StatusOpen(p) ==
  /\ job[p].pc = "status" /\ ~ Locked
  /\ \/ enabled /\ StatusTime(p) /\ job' = [job EXCEPT ![p].pc = "judge", ![p].time = now]
     \/ ~ (enabled /\ StatusTime(p)) /\ Leave(p)
  /\ UNCHANGED <<clockVars, policyVars, sessionVars, proof, minted, history>>

\* The table the nonce n belongs to, after DELETE ... WHERE expires <= t.
Kept(n, t) ==
  LET table == IF n \in StatusNonces THEN StatusNonces ELSE ReadNonces
  IN {m \in replay \cap table : proof[m].expires > t}

\* The proof is not in the replay table, and there is room to put it there.
Unused(n, t) == n \notin Kept(n, t) /\ Cardinality(Kept(n, t)) < Capacity

\* The replay tables after n is put into its own at time t.
Consumed(n, t) ==
  (replay \ (IF n \in StatusNonces THEN StatusNonces ELSE ReadNonces)) \cup Kept(n, t) \cup {n}

\* The outcome; a missing parent is an answer here, not an error.
Judge(p) ==
  LET r == job[p].req
      fresh == Unused(job[p].nonce, job[p].time)
  IN /\ job[p].pc = "judge"
     /\ \/ /\ fresh /\ ~ Current(row[r].root)
           /\ job' = [job EXCEPT ![p].pc = "seal", ![p].answer = "revoked"]
        \/ /\ fresh /\ Current(row[r].root) /\ StatusTime(p)
           /\ job' = [job EXCEPT ![p].pc = "seal", ![p].token = row[r].cred,
                ![p].answer = IF ReviewOver(r, now) THEN "expired"
                              ELSE IF Issued(r) THEN "issued" ELSE "pending"]
        \/ ~ (fresh /\ (Current(row[r].root) => StatusTime(p))) /\ Leave(p)
     /\ UNCHANGED <<clockVars, policyVars, sessionVars, proof, minted, history>>

\* The last look at the clock before the answer.
Seal(p) ==
  /\ job[p].pc = "seal"
  /\ \/ enabled /\ StatusTime(p) /\ Go(p, "commit")
     \/ ~ (enabled /\ StatusTime(p)) /\ Leave(p)
  /\ UNCHANGED <<clockVars, policyVars, sessionVars, proof, minted, history>>

-----------------------------------------------------------------------------
\* The history of proofs is kept until the clock is set back.
Used(n) == IF rollbacks = 0 THEN [uses EXCEPT ![n] = @ + 1] ELSE uses

\* What the transaction of an exchange or a status call has written.
Tombstone(p) == job[p].answer = "expired" /\ ~ Issued(job[p].req)
Credential(p) == job[p].answer = "issued" /\ ~ Issued(job[p].req) /\ job[p].nonce = None

Answer(p) ==
  LET r == job[p].req
      n == job[p].nonce
  IN /\ given' = [given EXCEPT ![r] =
                    IF job[p].answer = "issued" THEN @ \cup {job[p].token} ELSE @]
     /\ ended' = IF Tombstone(p) THEN ended \cup {r} ELSE ended
     /\ uses' = IF n = None THEN uses ELSE Used(n)

\* COMMIT, which waits for the readers, and the answer.
Commit(p) ==
  LET r == job[p].req
      n == job[p].nonce
  IN /\ job[p].pc = "commit"
     /\ Reading => ~ Credential(p) /\ ~ Tombstone(p) /\ n = None
     /\ row' = IF Credential(p)
               THEN [row EXCEPT ![r].cred = job[p].token, ![r].auth = job[p].auth] ELSE row
     /\ expired' = IF Tombstone(p) THEN expired \cup {r} ELSE expired
     /\ replay' = IF n = None THEN replay ELSE Consumed(n, job[p].time)
     /\ Answer(p) /\ Leave(p)
     /\ UNCHANGED <<clockVars, policyVars, proof, minted>>

\* The process dies, or gives up waiting for the lock or the readers.
Abort(p) ==
  /\ job[p] # Idle
  /\ Leave(p)
  /\ UNCHANGED <<clockVars, policyVars, sessionVars, proof, minted, history>>

-----------------------------------------------------------------------------
\* verify_request's read transaction: the credential is the retained one, its
\* parent is current, and the native code accepts credential and proof now.
Verify(p, n) ==
  LET r == proof[n].req
  IN /\ job[p] = Idle /\ enabled
     /\ r # None
     /\ row[r].cred \in given[r] /\ Current(row[r].root)
     /\ Within(now, row[r]) /\ Within(now, proof[n])
     /\ job' = [job EXCEPT ![p] = [Idle EXCEPT
          !.pc = "consume", !.req = r, !.nonce = n, !.time = now]]
     /\ UNCHANGED <<clockVars, policyVars, sessionVars, proof, minted, history>>

\* _verified_context: the nonce is consumed, at the time verify_request began.
Consume(p) ==
  LET n == job[p].nonce
      ok == Current(row[job[p].req].root) /\ Unused(n, job[p].time)
  IN /\ job[p].pc = "consume" /\ ~ Locked
     /\ \/ ok /\ ~ Reading /\ replay' = Consumed(n, job[p].time) /\ Go(p, "open")
        \/ ~ ok /\ replay' = replay /\ Leave(p)
     /\ UNCHANGED <<clockVars, policyVars, row, expired, proof, minted, history>>

\* check_clock of the fence.
ReadTime(p) ==
  Within(now, row[job[p].req]) /\ Within(now, proof[job[p].nonce])

\* The fence: a read transaction that stays open while the result is made.
Open(p) ==
  LET r == job[p].req
      ok == enabled /\ ReadTime(p) /\ Issued(r) /\ Current(row[r].root)
  IN /\ job[p].pc = "open"
     /\ \/ ok /\ Go(p, "disclose")
        \/ ~ ok /\ Leave(p)
     /\ UNCHANGED <<clockVars, policyVars, sessionVars, proof, minted, history>>

\* The checks are repeated before the result leaves, with the root as read when
\* the fence was opened.
Disclose(p) ==
  LET r == job[p].req
      n == job[p].nonce
      ok == enabled /\ ReadTime(p) /\ member
  IN /\ job[p].pc = "disclose"
     /\ uses' = IF ok THEN Used(n) ELSE uses
     /\ Leave(p)
     /\ UNCHANGED <<clockVars, policyVars, sessionVars, proof, minted, given, ended>>

-----------------------------------------------------------------------------
\* HolderGrantHost.retain, inside the enrollment's transaction: a new root for
\* the assignment as it is now, unless the device's enrollment is revoked.
Enroll(g) ==
  /\ root[g].status = "none" /\ barred # "yes" /\ Free
  /\ root' = [root EXCEPT ![g] = [status |-> "active", epoch |-> epoch]]
  /\ UNCHANGED <<clockVars, enabled, member, epoch, barred, sessionVars, proof, minted, job, history>>

\* Mutant of RevokeRoots: the update does not wait for readers.
RevokeRootsNow ==
  /\ \E g \in Roots : root[g].status = "active"
  /\ ~ Locked
  /\ root' = [g \in Roots |->
       IF root[g].status = "none" THEN root[g] ELSE [root[g] EXCEPT !.status = "revoked"]]
  /\ barred' = IF barred = "no" THEN "half" ELSE barred
  /\ UNCHANGED <<clockVars, enabled, member, epoch, sessionVars, proof, minted, job, history>>

\* HolderGrantHost.revoke: every root of the device.
RevokeRoots ==
  /\ \E g \in Roots : root[g].status = "active"
  /\ Free
  /\ root' = [g \in Roots |->
       IF root[g].status = "none" THEN root[g] ELSE [root[g] EXCEPT !.status = "revoked"]]
  /\ barred' = IF barred = "no" THEN "half" ELSE barred
  /\ UNCHANGED <<clockVars, enabled, member, epoch, sessionVars, proof, minted, job, history>>

\* The rest of NativeReadEnrollment.revoke, a transaction of its own.
RevokeEnrollment ==
  /\ barred = "half" /\ Free
  /\ barred' = "yes"
  /\ UNCHANGED <<clockVars, enabled, member, epoch, root, sessionVars, proof, minted, job, history>>

Upsets ==
  epoch + rollbacks + (IF enabled THEN 0 ELSE 1) + (IF member THEN 0 ELSE 1)

\* The first operation under a registry that changes the holder's assignment
\* records its revision, in a transaction of its own.
Reassign ==
  /\ Upsets < MaxUpsets /\ Free
  /\ epoch' = epoch + 1
  /\ UNCHANGED <<clockVars, enabled, member, root, barred, sessionVars, proof, minted, job, history>>

\* The membership service and the policy file answer differently than before.
Drift ==
  /\ \/ member' = ~ member /\ enabled' = enabled
     \/ enabled' = ~ enabled /\ member' = member
  /\ UNCHANGED <<clockVars, epoch, root, barred, sessionVars, proof, minted, job, history>>
  /\ Upsets' <= MaxUpsets

\* Time passes, or the clock is set back.
Clock ==
  /\ \/ now < MaxTime /\ now' = now + 1 /\ rollbacks' = rollbacks
     \/ /\ now > 0 /\ Upsets < MaxUpsets
        /\ now' \in 0..(now - 1) /\ rollbacks' = rollbacks + 1
  /\ UNCHANGED <<policyVars, sessionVars, proof, minted, job, history>>

Step(p) ==
  \/ Retain(p) \/ Admit(p) \/ Reissue(p) \/ Sign(p) \/ Install(p)
  \/ StatusOpen(p) \/ Judge(p) \/ Seal(p) \/ Commit(p)
  \/ Consume(p) \/ Open(p) \/ Disclose(p)

Call(p) ==
  \/ \E r \in Requests, g \in Roots, ttl \in Lifetimes : Prepare(p, r, g, ttl)
  \/ \E r \in Requests, a \in Auths : Exchange(p, r, a)
  \/ \E n \in StatusNonces : Status(p, n)
  \/ \E n \in ReadNonces : Verify(p, n)

Next ==
  \/ \E p \in Procs : Call(p) \/ Step(p) \/ Abort(p)
  \/ \E n \in Nonces, r \in Requests : SignProof(n, r)
  \/ \E g \in Roots : Enroll(g)
  \/ RevokeRoots \/ RevokeEnrollment \/ Reassign \/ Drift \/ Clock

Spec == Init /\ [][Next]_vars

-----------------------------------------------------------------------------
Places == Writing \cup {"idle", "retain", "exchange", "status", "consume", "open", "disclose"}

Jobs == [pc : Places, req : Requests \cup {None}, root : Roots \cup {None},
         auth : Auths \cup {None}, nonce : Nonces \cup {None}, time : Nat, ttl : Nat,
         token : Nat, answer : {"none", "pending", "issued", "expired", "revoked"}]

TypeOK ==
  /\ now \in 0..MaxTime /\ rollbacks \in 0..MaxUpsets
  /\ epoch \in 0..MaxUpsets /\ minted \in 0..MaxMints
  /\ enabled \in BOOLEAN /\ member \in BOOLEAN
  /\ root \in [Roots -> [status : {"none", "active", "revoked"}, epoch : Nat]]
  /\ barred \in {"no", "half", "yes"}
  /\ row \in [Requests -> Rows]
  /\ expired \subseteq Requests /\ replay \subseteq Nonces
  /\ proof \in [Nonces -> [req : Requests \cup {None}, issued : Nat, expires : Nat]]
  /\ job \in [Procs -> Jobs]
  /\ given \in [Requests -> SUBSET (1..minted)] /\ ended \subseteq Requests
  /\ uses \in [Nonces -> Nat]

\* Whatever processes race, crash or retry, and whatever the clock does, every
\* credential handed out for a request, by exchange or by status, is the one
\* that is retained for it.
OneCredential ==
  \A r \in Requests : given[r] \subseteq {row[r].cred} /\ 0 \notin given[r]

\* A review that was once answered "expired" without a credential is over for
\* good: no later exchange issues one, even after the clock is set back.
ExpiredIsFinal ==
  /\ \A r \in expired : ~ Issued(r)
  /\ ended \subseteq expired

\* A retained challenge never changes; all that happens to it is that its one
\* credential is added, while the parent is active and current, and decided at
\* a time inside the review.
IssuedUnderReview ==
  [][\A r \in Requests : Exists(r) /\ row'[r] # row[r] =>
       /\ row'[r] = [row[r] EXCEPT !.cred = row'[r].cred, !.auth = row'[r].auth]
       /\ ~ Issued(r)
       /\ root[row[r].root].status = "active" /\ root[row[r].root].epoch = epoch
       /\ \E p \in Procs : /\ job[p].pc = "commit" /\ job[p].req = r
                           /\ row[r].issued <= job[p].time
                           /\ job[p].time < row[r].deadline]_vars

\* For as long as a read is being made behind the fence, its parent is active
\* and belongs to the current assignment: a revocation or a change of the
\* assignment takes effect before the read is admitted or after it has left.
ReadsAreFenced ==
  \A p \in Procs : job[p].pc = "disclose" =>
    LET g == row[job[p].req].root
    IN Issued(job[p].req) /\ root[g].status = "active" /\ root[g].epoch = epoch

\* With a clock that only moves forward a proof buys at most one answer, though
\* a read consumes its nonce at an older time than the table is cleaned at.
ProofsUsedOnce == rollbacks = 0 => \A n \in Nonces : uses[n] <= 1

\* What was given for a request stays bounded by what is retained for it: one
\* credential, none once expired, one answer for a proof.
SessionInv == TypeOK /\ OneCredential /\ ExpiredIsFinal /\ ProofsUsedOnce

\* What is retained for a request bounds what is given for it, and nothing is given or read
\* except under a live review and a live parent (holder_sessions.py, holder_grants.current_read).
SessionsHold == [](SessionInv /\ ReadsAreFenced) /\ IssuedUnderReview
=============================================================================
