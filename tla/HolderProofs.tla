----------------------------- MODULE HolderProofs -----------------------------
(***************************************************************************)
(* Proofs about HolderSessions: SessionsHold for any processes, requests,  *)
(* roots, nonces and times.                                                *)
(***************************************************************************)
EXTENDS HolderSessions, TLAPS

\* The parent as a fenced read and an issue need it: active, and issued for the
\* assignment as it is now.
Live(g) == root[g].status = "active" /\ root[g].epoch = epoch

\* A read whose nonce is consumed.
Behind == {"open", "disclose"}

\* What a call has found out by the time it is where it is, and what still holds:
\* the lock and the fence keep others from changing it.
JobOK(j) ==
  /\ j.pc # "idle" => j.req \in Requests
  /\ j.pc = "retain" => j.root \in Roots
  /\ j.pc \notin {"idle", "retain"} => Exists(j.req)
  /\ j.pc \in {"idle", "retain", "exchange", "reissue", "sign", "install"} => j.nonce = None
  /\ j.pc \in {"status", "judge", "seal"} => j.nonce \in StatusNonces
  /\ j.pc \in {"consume", "open", "disclose"} => j.nonce \in ReadNonces
  /\ j.pc = "commit" => j.nonce \in StatusNonces \cup {None}
  /\ j.nonce # None => proof[j.nonce].req # None
  /\ j.pc = "reissue" => Issued(j.req)
  /\ j.pc \in {"sign", "install"} => ~ Issued(j.req) /\ j.req \notin expired
  /\ j.pc = "install" => j.token # 0 /\ Live(row[j.req].root)
  /\ j.pc \in {"seal", "commit"} /\ j.answer = "issued" /\ j.nonce # None =>
       Issued(j.req) /\ j.token = row[j.req].cred
  /\ j.pc = "commit" /\ j.answer = "issued" /\ j.nonce = None =>
       /\ j.token # 0
       /\ Issued(j.req) => j.token = row[j.req].cred
       /\ ~ Issued(j.req) => /\ j.req \notin expired /\ Live(row[j.req].root)
                             /\ row[j.req].issued <= j.time /\ j.time < row[j.req].deadline
  /\ j.pc = "disclose" => Issued(j.req) /\ Live(row[j.req].root)

\* One BEGIN IMMEDIATE transaction at a time.
LockInv == \A p, q \in Procs : job[p].pc \in Writing /\ job[q].pc \in Writing => p = q

\* Tokens and retained credentials were signed, the latter for a challenge.
MintInv ==
  /\ \A p \in Procs : job[p].token <= minted
  /\ \A r \in Requests : row[r].cred <= minted /\ (Issued(r) => Exists(r))

\* A proof is signed for a retained challenge.
SignedInv == \A n \in Nonces : proof[n].req # None => Exists(proof[n].req)

\* A proof that cannot be used again: it is in its table, or it is over.
Spent(n) == n \in replay \/ proof[n].expires <= now

\* The same for proofs, while the clock has only moved forward: no call has
\* sampled a time that is yet to come, a status call about to commit is the
\* first to use its proof, and so is a read behind the fence while its proof
\* lasts.
TimeOK(j) ==
  /\ j.time <= now
  /\ j.pc = "seal" => j.nonce \notin replay \/ proof[j.nonce].expires <= j.time
  /\ j.pc = "commit" /\ j.nonce # None => uses[j.nonce] = 0
  /\ j.pc \in Behind => Spent(j.nonce) /\ (uses[j.nonce] = 0 \/ proof[j.nonce].expires <= now)

\* Two reads with one proof are only possible when the proof is over.
Apart(j, k) ==
  j.pc \in Behind /\ k.pc \in Behind /\ j.nonce = k.nonce => proof[j.nonce].expires <= now

ProofInv ==
  rollbacks = 0 =>
    /\ \A p \in Procs : TimeOK(job[p])
    /\ \A p, q \in Procs : p # q => Apart(job[p], job[q])
    /\ \A n \in Nonces : uses[n] # 0 => uses[n] = 1 /\ proof[n].req # None /\ Spent(n)

\* The inductive invariant.
IInv ==
  /\ TypeOK
  /\ \A p \in Procs : JobOK(job[p])
  /\ LockInv /\ MintInv /\ SignedInv /\ ProofInv
  /\ OneCredential /\ ExpiredIsFinal

-----------------------------------------------------------------------------
(* The initial states, and what the invariant gives.                       *)

LEMMA IdleIsAJob == Idle \in Jobs
BY SessionAssumption, Zenon DEF Idle, Jobs, Places, Writing

LEMMA IdleFacts ==
  /\ Idle.pc = "idle" /\ Idle.pc \notin Writing /\ Idle.pc \notin Behind
  /\ Idle.req = None /\ Idle.nonce = None /\ Idle.time = 0 /\ Idle.token = 0
BY Zenon DEF Idle, Writing, Behind

LEMMA IdleIsOK == JobOK(Idle)
BY Zenon DEF JobOK, Idle

\* An idle process has sampled no time and holds no token.
LEMMA IdleIsTimely ==
  /\ now \in Nat => TimeOK(Idle)
  /\ now' \in Nat => TimeOK(Idle)'
<1>1. 0 = Idle.time /\ Idle.pc \notin Behind \cup {"seal", "commit"}
  BY Zenon DEF Idle, Behind
<1>2. now \in Nat => TimeOK(Idle)
  BY <1>1 DEF TimeOK
<1>3. now' \in Nat => TimeOK(Idle)'
  BY <1>1 DEF TimeOK
<1> QED
  BY <1>2, <1>3, Zenon

LEMMA IdleHasNoToken == ASSUME NEW m \in Nat PROVE Idle.token <= m
BY DEF Idle

LEMMA InitIInv == Init => IInv
<1> SUFFICES ASSUME Init PROVE IInv
  OBVIOUS
<1>1. TypeOK
  BY SessionAssumption, IdleIsAJob DEF Init, TypeOK, Rows, NoRow, Nonces
<1>2. \A p \in Procs : job[p] = Idle
  BY Zenon DEF Init
<1>3. \A p \in Procs : JobOK(job[p])
  BY <1>2, IdleIsOK, Zenon
<1>4. LockInv
  BY <1>2 DEF LockInv, Idle, Writing
<1>5. MintInv
  BY <1>2 DEF MintInv, Init, Idle, NoRow, Issued
<1>6. ProofInv
  <2>1. \A p \in Procs : TimeOK(job[p])
    BY <1>2 DEF TimeOK, Idle, Behind, Init
  <2>2. \A p, q \in Procs : Apart(job[p], job[q])
    BY <1>2 DEF Apart, Idle, Behind
  <2> QED
    BY <2>1, <2>2, Zenon DEF ProofInv, Init
<1>7. OneCredential /\ ExpiredIsFinal /\ SignedInv
  BY Zenon DEF Init, OneCredential, ExpiredIsFinal, Issued, NoRow, SignedInv
<1> QED
  BY <1>1, <1>3, <1>4, <1>5, <1>6, <1>7, Zenon DEF IInv

LEMMA IInvImplies == IInv => SessionInv /\ ReadsAreFenced
<1> SUFFICES ASSUME IInv PROVE SessionInv /\ ReadsAreFenced
  OBVIOUS
<1>1. ProofsUsedOnce
  BY DEF IInv, ProofInv, ProofsUsedOnce, TypeOK
<1>2. ReadsAreFenced
  BY Zenon DEF IInv, JobOK, ReadsAreFenced, Live
<1> QED
  BY <1>1, <1>2, Zenon DEF IInv, SessionInv

-----------------------------------------------------------------------------
(* Steps of one call that write nothing.                                   *)

LEMMA JobStep ==
  ASSUME IInv, NEW p \in Procs, NEW new \in Jobs,
         job' = [job EXCEPT ![p] = new],
         UNCHANGED <<clockVars, policyVars, sessionVars, proof, history>>,
         minted' \in {minted, minted + 1}, minted' <= MaxMints, new.token <= minted',
         new.pc \in Writing => job[p].pc \in Writing \/ ~ Locked,
         JobOK(new),
         rollbacks = 0 => TimeOK(new),
         rollbacks = 0 => \A q \in Procs \ {p} : Apart(new, job[q])
  PROVE  IInv'
<1> USE DEF clockVars, policyVars, sessionVars, history
<1>0. job \in [Procs -> Jobs] /\ minted \in Nat /\ MaxMints \in Nat
  BY SessionAssumption DEF IInv, TypeOK
<1>1. /\ job' \in [Procs -> Jobs] /\ job'[p] = new
      /\ \A q \in Procs \ {p} : job'[q] = job[q]
  BY <1>0, Zenon
<1>2. TypeOK'
  BY <1>0, <1>1 DEF IInv, TypeOK
<1>3. \A q \in Procs : JobOK(job[q])'
  <2> SUFFICES ASSUME NEW q \in Procs PROVE JobOK(job[q])'
    OBVIOUS
  <2>1. JobOK(job'[q])
    BY <1>1, Zenon DEF IInv
  <2> QED
    BY <2>1, Zenon DEF JobOK, Live, Exists, Issued
<1>4. LockInv'
  BY <1>1, Zenon DEF IInv, LockInv, Locked
<1>5. MintInv'
  BY <1>0, <1>1 DEF IInv, MintInv, TypeOK, Rows, Jobs, Issued, Exists
<1>6. ProofInv'
  <2> SUFFICES ASSUME rollbacks = 0 PROVE ProofInv'
    BY Zenon DEF ProofInv
  <2>1. \A q \in Procs : TimeOK(job[q])'
    <3> SUFFICES ASSUME NEW q \in Procs PROVE TimeOK(job[q])'
      OBVIOUS
    <3>1. TimeOK(job'[q])
      BY <1>1, Zenon DEF IInv, ProofInv
    <3> QED
      BY <3>1, Zenon DEF TimeOK, Spent
  <2>2. \A q, s \in Procs : q # s => Apart(job[q], job[s])'
    <3> SUFFICES ASSUME NEW q \in Procs, NEW s \in Procs, q # s PROVE Apart(job[q], job[s])'
      OBVIOUS
    <3>1. Apart(job'[q], job'[s])
      <4>1. CASE q # p /\ s # p
        BY <1>1, <4>1, Zenon DEF IInv, ProofInv
      <4>2. CASE q = p
        BY <1>1, <4>2, Zenon
      <4>3. CASE s = p
        <5>1. Apart(new, job[q])
          BY <4>3, Zenon
        <5> QED
          BY <1>1, <4>3, <5>1, Zenon DEF Apart
      <4> QED
        BY <4>1, <4>2, <4>3, Zenon
    <3> QED
      BY <3>1, Zenon DEF Apart
  <2> QED
    BY <2>1, <2>2, Zenon DEF ProofInv, IInv, Spent
<1>7. OneCredential' /\ ExpiredIsFinal' /\ SignedInv'
  BY Zenon DEF IInv, OneCredential, ExpiredIsFinal, Issued, SignedInv, Exists
<1> QED
  BY <1>2, <1>3, <1>4, <1>5, <1>6, <1>7, Zenon DEF IInv

\* The same for a call that does not read behind the fence.
LEMMA PlainStep ==
  ASSUME IInv, NEW p \in Procs, NEW new \in Jobs,
         job' = [job EXCEPT ![p] = new],
         UNCHANGED <<clockVars, policyVars, sessionVars, proof, minted, history>>,
         new.token <= minted, new.pc \notin Behind,
         new.pc \in Writing => job[p].pc \in Writing \/ ~ Locked,
         JobOK(new),
         rollbacks = 0 => TimeOK(new)
  PROVE  IInv'
<1>1. \A q \in Procs \ {p} : Apart(new, job[q])
  BY Zenon DEF Apart
<1>2. minted' \in {minted, minted + 1} /\ minted' <= MaxMints /\ new.token <= minted'
  BY SessionAssumption DEF IInv, TypeOK
<1> QED
  BY <1>1, <1>2, JobStep, Zenon

\* A call that ends without a commit.
LEMMA LeaveStep ==
  ASSUME IInv, NEW p \in Procs, Leave(p),
         UNCHANGED <<clockVars, policyVars, sessionVars, proof, history>>,
         minted' \in {minted, minted + 1}, minted' <= MaxMints
  PROVE  IInv'
<1>0. minted' \in Nat
  BY DEF IInv, TypeOK
<1>1. Idle.token <= minted'
  BY <1>0 DEF Idle
<1>2. TimeOK(Idle)
  BY SessionAssumption DEF TimeOK, Idle, Behind, IInv, TypeOK
<1>3. \A q \in Procs \ {p} : Apart(Idle, job[q])
  BY Zenon DEF Apart, Idle, Behind
<1>4. Idle.pc \notin Writing
  BY Zenon DEF Idle, Writing
<1> QED
  BY <1>1, <1>2, <1>3, <1>4, IdleIsAJob, IdleIsOK, JobStep, Zenon DEF Leave

\* The facts every step starts from.
LEMMA Facts ==
  ASSUME IInv, NEW p \in Procs
  PROVE  /\ job \in [Procs -> Jobs] /\ job[p] \in Jobs /\ JobOK(job[p])
         /\ now \in Nat /\ minted \in Nat /\ minted <= MaxMints /\ job[p].token <= minted
         /\ row \in [Requests -> Rows]
         /\ rollbacks = 0 => TimeOK(job[p])
BY SessionAssumption DEF IInv, TypeOK, MintInv, ProofInv

-----------------------------------------------------------------------------
(* A call begins.                                                          *)

LEMMA CallKeeps == ASSUME IInv, NEW p \in Procs, Call(p) PROVE IInv'
<1>0. job \in [Procs -> Jobs] /\ now \in Nat /\ minted \in Nat
  BY Facts, Zenon
<1>1. CASE \E r \in Requests, g \in Roots, ttl \in Lifetimes : Prepare(p, r, g, ttl)
  <2>1. PICK r \in Requests, g \in Roots, ttl \in Lifetimes : Prepare(p, r, g, ttl)
    BY <1>1, Zenon
  <2> DEFINE new == [Idle EXCEPT !.pc = "retain", !.req = r, !.root = g, !.time = now, !.ttl = ttl]
  <2>2. new \in Jobs /\ new.pc = "retain" /\ new.token = 0 /\ new.time = now
    BY <1>0, SessionAssumption, Zenon DEF Idle, Jobs, Places, Writing
  <2>3. JobOK(new)
    BY SessionAssumption, Zenon DEF JobOK, Idle
  <2>4. TimeOK(new)
    BY <1>0, <2>2 DEF TimeOK, Behind
  <2>6. job' = [job EXCEPT ![p] = new]
        /\ UNCHANGED <<clockVars, policyVars, sessionVars, proof, minted, history>>
    BY <2>1, Zenon DEF Prepare
  <2> HIDE DEF new
  <2>7. new.token <= minted /\ new.pc \notin Behind \cup Writing
    BY <1>0, <2>2 DEF Behind, Writing
  <2> QED
    BY <2>2, <2>3, <2>4, <2>6, <2>7, PlainStep, Zenon
<1>2. CASE \E r \in Requests, a \in Auths : Exchange(p, r, a)
  <2>1. PICK r \in Requests, a \in Auths : Exchange(p, r, a)
    BY <1>2, Zenon
  <2> DEFINE new == [Idle EXCEPT !.pc = "exchange", !.req = r, !.auth = a]
  <2>2. new \in Jobs /\ new.pc = "exchange" /\ new.token = 0 /\ new.time = 0
    BY <1>0, SessionAssumption, Zenon DEF Idle, Jobs, Places, Writing
  <2>3. JobOK(new)
    BY SessionAssumption, <2>1, Zenon DEF JobOK, Idle, Exchange
  <2>4. TimeOK(new)
    BY <1>0, <2>2 DEF TimeOK, Behind
  <2>6. job' = [job EXCEPT ![p] = new]
        /\ UNCHANGED <<clockVars, policyVars, sessionVars, proof, minted, history>>
    BY <2>1, Zenon DEF Exchange
  <2> HIDE DEF new
  <2>7. new.token <= minted /\ new.pc \notin Behind \cup Writing
    BY <1>0, <2>2 DEF Behind, Writing
  <2> QED
    BY <2>2, <2>3, <2>4, <2>6, <2>7, PlainStep, Zenon
<1>3. CASE \E n \in StatusNonces : Status(p, n)
  <2>1. PICK n \in StatusNonces : Status(p, n)
    BY <1>3, Zenon
  <2> DEFINE new == [Idle EXCEPT !.pc = "status", !.req = proof[n].req, !.nonce = n]
  <2>2. proof[n].req \in Requests /\ n \in Nonces
    BY <2>1, Zenon DEF Status, IInv, TypeOK, Nonces
  <2>3. new \in Jobs /\ new.pc = "status" /\ new.token = 0 /\ new.time = 0
    BY <1>0, <2>2, SessionAssumption, Zenon DEF Idle, Jobs, Places, Writing
  <2>4. JobOK(new)
    <3>1. Exists(proof[n].req)
      BY <2>1, <2>2, Zenon DEF IInv, SignedInv, Status
    <3> QED
      BY SessionAssumption, <2>1, <2>2, <3>1, Zenon DEF JobOK, Idle, Status
  <2>5. TimeOK(new)
    BY <1>0, <2>3 DEF TimeOK, Behind
  <2>6. job' = [job EXCEPT ![p] = new]
        /\ UNCHANGED <<clockVars, policyVars, sessionVars, proof, minted, history>>
    BY <2>1, Zenon DEF Status
  <2> HIDE DEF new
  <2>7. new.token <= minted /\ new.pc \notin Behind \cup Writing
    BY <1>0, <2>3 DEF Behind, Writing
  <2> QED
    BY <2>3, <2>4, <2>5, <2>6, <2>7, PlainStep, Zenon
<1>4. CASE \E n \in ReadNonces : Verify(p, n)
  <2>1. PICK n \in ReadNonces : Verify(p, n)
    BY <1>4
  <2> DEFINE r == proof[n].req
             new == [Idle EXCEPT !.pc = "consume", !.req = r, !.nonce = n, !.time = now]
  <2>2. proof[n].req \in Requests /\ n \in Nonces
    BY <2>1, Zenon DEF Verify, IInv, TypeOK, Nonces
  <2>3. new \in Jobs /\ new.pc = "consume" /\ new.token = 0 /\ new.time = now
    BY <1>0, <2>2, SessionAssumption, Zenon DEF Idle, Jobs, Places, Writing
  <2>4. JobOK(new)
    <3>1. Exists(proof[n].req)
      BY <2>1, <2>2, Zenon DEF IInv, SignedInv, Verify
    <3> QED
      BY SessionAssumption, <2>1, <2>2, <3>1, Zenon DEF JobOK, Idle, Verify
  <2>5. TimeOK(new)
    BY <1>0, <2>3 DEF TimeOK, Behind
  <2>6. job' = [job EXCEPT ![p] = new]
        /\ UNCHANGED <<clockVars, policyVars, sessionVars, proof, minted, history>>
    BY <2>1, Zenon DEF Verify
  <2> HIDE DEF new
  <2>7. new.token <= minted /\ new.pc \notin Behind \cup Writing
    BY <1>0, <2>3 DEF Behind, Writing
  <2> QED
    BY <2>3, <2>4, <2>5, <2>6, <2>7, PlainStep, Zenon
<1> QED
  BY <1>1, <1>2, <1>3, <1>4, Zenon DEF Call

-----------------------------------------------------------------------------
(* An exchange, up to its commit.                                          *)

LEMMA AdmitKeeps == ASSUME IInv, NEW p \in Procs, Admit(p) PROVE IInv'
<1> DEFINE r == job[p].req
           c == row[r]
           valid == enabled /\ now >= c.issued /\ c.auth \in {None, job[p].auth}
<1>0. /\ job \in [Procs -> Jobs] /\ job[p] \in Jobs /\ JobOK(job[p])
      /\ now \in Nat /\ minted \in Nat /\ minted <= MaxMints /\ job[p].token <= minted
      /\ rollbacks = 0 => TimeOK(job[p])
  BY Facts, Zenon
<1>1. /\ job[p].pc = "exchange" /\ ~ Locked /\ job[p].nonce = None /\ r \in Requests /\ Exists(r)
      /\ UNCHANGED <<clockVars, policyVars, sessionVars, proof, minted, history>>
  BY <1>0, Zenon DEF Admit, JobOK
<1>2. CASE Decide(p, "expired", 0, now)
  <2> DEFINE new == [job[p] EXCEPT !.pc = "commit", !.answer = "expired", !.token = 0, !.time = now]
  <2>1. new \in Jobs /\ new.pc = "commit" /\ new.req = r /\ new.nonce = None /\ new.token = 0
        /\ new.time = now /\ new.answer = "expired"
    BY <1>0, <1>1, ZenonT(30) DEF Jobs, Places, Writing
  <2>2. job' = [job EXCEPT ![p] = new]
    BY <1>0, <1>2, Zenon DEF Decide
  <2>3. JobOK(new)
    BY <1>1, <2>1, Zenon DEF JobOK
  <2>4. TimeOK(new)
    BY <1>0, <2>1 DEF TimeOK, Behind
  <2> HIDE DEF new
  <2>5. new.token <= minted
    BY <1>0, <2>1
  <2> QED
    BY <1>1, <2>1, <2>2, <2>3, <2>4, <2>5, PlainStep, Zenon DEF Behind
<1>3. CASE Issued(r) /\ Go(p, "reissue")
  <2> DEFINE new == [job[p] EXCEPT !.pc = "reissue"]
  <2>1. new \in Jobs /\ new.pc = "reissue" /\ new.req = r /\ new.nonce = None
        /\ new.token = job[p].token /\ new.time = job[p].time
    BY <1>0, <1>1, ZenonT(40) DEF Jobs, Places, Writing
  <2>2. job' = [job EXCEPT ![p] = new]
    BY <1>0, <1>3, Zenon DEF Go
  <2>3. JobOK(new)
    BY <1>1, <1>3, <2>1, Zenon DEF JobOK
  <2>4. rollbacks = 0 => TimeOK(new)
    BY <1>0, <2>1, Zenon DEF TimeOK, Behind
  <2> HIDE DEF new
  <2> QED
    BY <1>0, <1>1, <2>1, <2>2, <2>3, <2>4, PlainStep, Zenon DEF Behind
<1>4. CASE ~ Issued(r) /\ ~ ReviewOver(r, now) /\ Go(p, "sign")
  <2> DEFINE new == [job[p] EXCEPT !.pc = "sign"]
  <2>1. new \in Jobs /\ new.pc = "sign" /\ new.req = r /\ new.nonce = None
        /\ new.token = job[p].token /\ new.time = job[p].time
    BY <1>0, <1>1, ZenonT(40) DEF Jobs, Places, Writing
  <2>2. job' = [job EXCEPT ![p] = new]
    BY <1>0, <1>4, Zenon DEF Go
  <2>3. JobOK(new)
    BY <1>1, <1>4, <2>1, Zenon DEF JobOK, ReviewOver
  <2>4. rollbacks = 0 => TimeOK(new)
    BY <1>0, <2>1, Zenon DEF TimeOK, Behind
  <2> HIDE DEF new
  <2> QED
    BY <1>0, <1>1, <2>1, <2>2, <2>3, <2>4, PlainStep, Zenon DEF Behind
<1>5. CASE Leave(p)
  <2>1. minted' = minted /\ minted' <= MaxMints
    BY <1>0, <1>1, Zenon
  <2> QED
    BY <1>1, <1>5, <2>1, LeaveStep, Zenon
<1> QED
  BY <1>2, <1>3, <1>4, <1>5, Zenon DEF Admit

LEMMA ReissueKeeps == ASSUME IInv, NEW p \in Procs, Reissue(p) PROVE IInv'
<1> DEFINE r == job[p].req
<1>0. /\ job \in [Procs -> Jobs] /\ job[p] \in Jobs /\ JobOK(job[p])
      /\ now \in Nat /\ minted \in Nat /\ minted <= MaxMints
      /\ row \in [Requests -> Rows]
  BY Facts, Zenon
<1>1. /\ job[p].pc = "reissue" /\ job[p].nonce = None /\ r \in Requests /\ Exists(r) /\ Issued(r)
      /\ UNCHANGED <<clockVars, policyVars, sessionVars, proof, minted, history>>
  BY <1>0, Zenon DEF Reissue, JobOK
<1>2. ASSUME NEW answer \in {"expired", "issued"}, NEW token \in Nat, Decide(p, answer, token, now),
             token <= minted, answer = "issued" => token = row[r].cred
      PROVE  IInv'
  <2> DEFINE new == [job[p] EXCEPT !.pc = "commit", !.answer = answer, !.token = token, !.time = now]
  <2>1. new \in Jobs /\ new.pc = "commit" /\ new.req = r /\ new.nonce = None /\ new.token = token
        /\ new.time = now /\ new.answer = answer
    BY <1>0, <1>1, ZenonT(30) DEF Jobs, Places, Writing
  <2>2. job' = [job EXCEPT ![p] = new]
    BY <1>0, <1>2, Zenon DEF Decide
  <2>3. JobOK(new)
    BY <1>1, <1>2, <2>1, Zenon DEF JobOK, Issued
  <2>4. TimeOK(new)
    BY <1>0, <2>1 DEF TimeOK, Behind
  <2> HIDE DEF new
  <2> QED
    BY <1>0, <1>1, <1>2, <2>1, <2>2, <2>3, <2>4, PlainStep, Zenon DEF Behind, Writing
<1>3. CASE Decide(p, "expired", 0, now)
  BY <1>0, <1>2, <1>3
<1>4. CASE Decide(p, "issued", row[r].cred, now)
  <2>1. row[r].cred \in Nat /\ row[r].cred <= minted
    BY <1>0, <1>1, Zenon DEF IInv, MintInv, Rows
  <2> QED
    BY <1>2, <1>4, <2>1, Zenon
<1>5. CASE Leave(p)
  <2>1. minted' = minted /\ minted' <= MaxMints
    BY <1>0, <1>1, Zenon
  <2> QED
    BY <1>1, <1>5, <2>1, LeaveStep, Zenon
<1> QED
  BY <1>3, <1>4, <1>5, Zenon DEF Reissue

LEMMA SignKeeps == ASSUME IInv, NEW p \in Procs, Sign(p) PROVE IInv'
<1> DEFINE r == job[p].req
<1>0. /\ job \in [Procs -> Jobs] /\ job[p] \in Jobs /\ JobOK(job[p])
      /\ now \in Nat /\ minted \in Nat /\ MaxMints \in Nat
      /\ rollbacks = 0 => TimeOK(job[p])
  BY Facts, SessionAssumption, Zenon
<1>1. /\ job[p].pc = "sign" /\ job[p].nonce = None /\ r \in Requests /\ Exists(r)
      /\ ~ Issued(r) /\ r \notin expired
      /\ UNCHANGED <<clockVars, policyVars, sessionVars, proof, history>>
      /\ minted < MaxMints /\ minted' = minted + 1
  BY <1>0, Zenon DEF Sign, JobOK
<1>2. ASSUME NEW new \in Jobs, job' = [job EXCEPT ![p] = new], JobOK(new),
             new.token <= minted + 1, new.pc \in {"commit", "install"},
             rollbacks = 0 => TimeOK(new)
      PROVE  IInv'
  <2>1. \A q \in Procs \ {p} : Apart(new, job[q])
    BY <1>2, Zenon DEF Apart, Behind
  <2>2. minted' \in {minted, minted + 1} /\ minted' <= MaxMints /\ new.token <= minted'
    BY <1>0, <1>1, <1>2
  <2> QED
    BY <1>1, <1>2, <2>1, <2>2, JobStep, Zenon DEF Writing
<1>3. CASE Decide(p, "expired", 0, now)
  <2> DEFINE new == [job[p] EXCEPT !.pc = "commit", !.answer = "expired", !.token = 0, !.time = now]
  <2>1. new \in Jobs /\ new.pc = "commit" /\ new.req = r /\ new.nonce = None /\ new.token = 0
        /\ new.time = now /\ new.answer = "expired"
    BY <1>0, <1>1, ZenonT(30) DEF Jobs, Places, Writing
  <2>2. job' = [job EXCEPT ![p] = new]
    BY <1>0, <1>3, Zenon DEF Decide
  <2>3. JobOK(new)
    BY <1>1, <2>1, Zenon DEF JobOK
  <2>4. TimeOK(new)
    BY <1>0, <2>1 DEF TimeOK, Behind
  <2> HIDE DEF new
  <2>5. new.token <= minted + 1 /\ new.pc \in {"commit", "install"}
    BY <1>0, <2>1
  <2> QED
    BY <1>2, <2>1, <2>2, <2>3, <2>4, <2>5, Zenon
<1>4. CASE Current(row[r].root) /\ job' = [job EXCEPT ![p].pc = "install", ![p].token = minted + 1]
  <2> DEFINE token == minted + 1
             new == [job[p] EXCEPT !.pc = "install", !.token = token]
  <2>0. token \in Nat /\ token # 0
    BY <1>0
  <2> HIDE DEF token
  <2>1. new \in Jobs /\ new.pc = "install" /\ new.req = r /\ new.nonce = None
        /\ new.token = token /\ new.time = job[p].time
    BY <1>0, <1>1, <2>0, ZenonT(30) DEF Jobs, Places, Writing
  <2>2. job' = [job EXCEPT ![p] = new]
    BY <1>0, <1>4, Zenon DEF token
  <2>3. JobOK(new)
    BY <1>0, <1>1, <1>4, <2>0, <2>1, Zenon DEF JobOK, Current, Live
  <2>4. rollbacks = 0 => TimeOK(new)
    BY <1>0, <2>1, Zenon DEF TimeOK, Behind
  <2> HIDE DEF new
  <2>5. new.token <= minted + 1 /\ new.pc \in {"commit", "install"}
    BY <1>0, <2>1 DEF token
  <2> QED
    BY <1>2, <2>1, <2>2, <2>3, <2>4, <2>5, Zenon
<1>5. CASE Leave(p)
  <2>1. minted' = minted + 1 /\ minted' <= MaxMints
    BY <1>0, <1>1
  <2> QED
    BY <1>1, <1>5, <2>1, LeaveStep, Zenon
<1> QED
  BY <1>3, <1>4, <1>5, Zenon DEF Sign

LEMMA InstallKeeps == ASSUME IInv, NEW p \in Procs, Install(p) PROVE IInv'
<1> DEFINE r == job[p].req
<1>0. /\ job \in [Procs -> Jobs] /\ job[p] \in Jobs /\ JobOK(job[p])
      /\ now \in Nat /\ minted \in Nat /\ minted <= MaxMints /\ job[p].token <= minted
      /\ row \in [Requests -> Rows]
  BY Facts, Zenon
<1>1. /\ job[p].pc = "install" /\ job[p].nonce = None /\ r \in Requests /\ Exists(r)
      /\ ~ Issued(r) /\ r \notin expired /\ job[p].token # 0 /\ Live(row[r].root)
      /\ UNCHANGED <<clockVars, policyVars, sessionVars, proof, minted, history>>
  BY <1>0, Zenon DEF Install, JobOK
<1>2. CASE Decide(p, "expired", 0, now)
  <2> DEFINE new == [job[p] EXCEPT !.pc = "commit", !.answer = "expired", !.token = 0, !.time = now]
  <2>1. new \in Jobs /\ new.pc = "commit" /\ new.req = r /\ new.nonce = None /\ new.token = 0
        /\ new.time = now /\ new.answer = "expired"
    BY <1>0, <1>1, ZenonT(30) DEF Jobs, Places, Writing
  <2>2. job' = [job EXCEPT ![p] = new]
    BY <1>0, <1>2, Zenon DEF Decide
  <2>3. JobOK(new)
    BY <1>1, <2>1, Zenon DEF JobOK
  <2>4. TimeOK(new)
    BY <1>0, <2>1 DEF TimeOK, Behind
  <2> HIDE DEF new
  <2>5. new.token <= minted
    BY <1>0, <2>1
  <2> QED
    BY <1>1, <2>1, <2>2, <2>3, <2>4, <2>5, PlainStep, Zenon DEF Behind, Writing
<1>3. CASE now >= row[r].issued /\ ~ ReviewOver(r, now) /\ Decide(p, "issued", job[p].token, now)
  <2> DEFINE new == [job[p] EXCEPT !.pc = "commit", !.answer = "issued", !.token = job[p].token,
                                   !.time = now]
  <2>1. new \in Jobs /\ new.pc = "commit" /\ new.req = r /\ new.nonce = None
        /\ new.token = job[p].token /\ new.time = now /\ new.answer = "issued"
    BY <1>0, <1>1, ZenonT(30) DEF Jobs, Places, Writing
  <2>2. job' = [job EXCEPT ![p] = new]
    BY <1>0, <1>3, Zenon DEF Decide
  <2>3. row[r].issued <= now /\ now < row[r].deadline
    BY <1>0, <1>1, <1>3 DEF ReviewOver, Rows
  <2>4. JobOK(new)
    BY <1>1, <2>1, <2>3, Zenon DEF JobOK
  <2>5. TimeOK(new)
    BY <1>0, <2>1 DEF TimeOK, Behind
  <2> HIDE DEF new
  <2> QED
    BY <1>0, <1>1, <2>1, <2>2, <2>4, <2>5, PlainStep, Zenon DEF Behind, Writing
<1>4. CASE Leave(p)
  <2>1. minted' = minted /\ minted' <= MaxMints
    BY <1>0, <1>1, Zenon
  <2> QED
    BY <1>1, <1>4, <2>1, LeaveStep, Zenon
<1> QED
  BY <1>2, <1>3, <1>4, Zenon DEF Install

-----------------------------------------------------------------------------
(* A status call, up to its commit.                                        *)

LEMMA StatusOpenKeeps == ASSUME IInv, NEW p \in Procs, StatusOpen(p) PROVE IInv'
<1>0. /\ job \in [Procs -> Jobs] /\ job[p] \in Jobs /\ JobOK(job[p])
      /\ now \in Nat /\ minted \in Nat /\ minted <= MaxMints /\ job[p].token <= minted
  BY Facts, Zenon
<1>1. /\ job[p].pc = "status" /\ ~ Locked
      /\ UNCHANGED <<clockVars, policyVars, sessionVars, proof, minted, history>>
  BY Zenon DEF StatusOpen
<1>2. CASE job' = [job EXCEPT ![p].pc = "judge", ![p].time = now]
  <2> DEFINE new == [job[p] EXCEPT !.pc = "judge", !.time = now]
  <2>1. new \in Jobs /\ new.pc = "judge" /\ new.req = job[p].req /\ new.nonce = job[p].nonce
        /\ new.token = job[p].token /\ new.time = now
    BY <1>0, <1>1, Zenon DEF Jobs, Places, Writing
  <2>2. job' = [job EXCEPT ![p] = new]
    BY <1>0, <1>2, Zenon
  <2>3. JobOK(new)
    BY <1>0, <1>1, <2>1, Zenon DEF JobOK
  <2>4. TimeOK(new)
    BY <1>0, <2>1 DEF TimeOK, Behind
  <2> HIDE DEF new
  <2> QED
    BY <1>0, <1>1, <2>1, <2>2, <2>3, <2>4, PlainStep, Zenon DEF Behind
<1>3. CASE Leave(p)
  <2>1. minted' = minted /\ minted' <= MaxMints
    BY <1>0, <1>1, Zenon
  <2> QED
    BY <1>1, <1>3, <2>1, LeaveStep, Zenon
<1> QED
  BY <1>2, <1>3, Zenon DEF StatusOpen

\* A nonce found unused at time t is not in the table, or its proof was over at t.
LEMMA UnusedMeans ==
  ASSUME NEW n \in Nonces, NEW t \in Nat, Unused(n, t), proof[n].expires \in Nat
  PROVE  n \notin replay \/ proof[n].expires <= t
BY DEF Unused, Kept, Nonces

LEMMA JudgeKeeps == ASSUME IInv, NEW p \in Procs, Judge(p) PROVE IInv'
<1> DEFINE r == job[p].req
           n == job[p].nonce
<1>0. /\ job \in [Procs -> Jobs] /\ job[p] \in Jobs /\ JobOK(job[p])
      /\ now \in Nat /\ minted \in Nat /\ minted <= MaxMints /\ job[p].token <= minted
      /\ row \in [Requests -> Rows]
      /\ rollbacks = 0 => TimeOK(job[p])
  BY Facts, Zenon
<1>1. /\ job[p].pc = "judge" /\ r \in Requests /\ n \in StatusNonces /\ n \in Nonces
      /\ UNCHANGED <<clockVars, policyVars, sessionVars, proof, minted, history>>
  BY <1>0, Zenon DEF Judge, JobOK, Nonces
<1>2. ASSUME NEW answer \in {"revoked", "expired", "issued", "pending"}, NEW token \in Nat,
             Unused(n, job[p].time), token <= minted,
             answer = "issued" => Issued(r) /\ token = row[r].cred,
             job' = [job EXCEPT ![p].pc = "seal", ![p].token = token, ![p].answer = answer]
      PROVE  IInv'
  <2> DEFINE new == [job[p] EXCEPT !.pc = "seal", !.token = token, !.answer = answer]
  <2>1. new \in Jobs /\ new.pc = "seal" /\ new.req = r /\ new.nonce = n /\ new.token = token
        /\ new.time = job[p].time /\ new.answer = answer
    BY <1>0, <1>1, Zenon DEF Jobs, Places, Writing
  <2>2. job' = [job EXCEPT ![p] = new]
    BY <1>0, <1>2, Zenon
  <2>3. JobOK(new)
    BY <1>0, <1>1, <1>2, <2>1, Zenon DEF JobOK
  <2>4. rollbacks = 0 => TimeOK(new)
    <3>1. job[p].time \in Nat /\ proof[n].expires \in Nat
      BY <1>0, <1>1, Zenon DEF Jobs, IInv, TypeOK
    <3>2. n \notin replay \/ proof[n].expires <= job[p].time
      BY <1>1, <1>2, <3>1, UnusedMeans, Zenon
    <3> QED
      BY <1>0, <2>1, <3>2, Zenon DEF TimeOK, Behind
  <2> HIDE DEF new
  <2> QED
    BY <1>0, <1>1, <1>2, <2>1, <2>2, <2>3, <2>4, PlainStep, Zenon DEF Behind, Writing
<1>3. CASE /\ Unused(n, job[p].time)
           /\ job' = [job EXCEPT ![p].pc = "seal", ![p].answer = "revoked"]
  <2>1. job' = [job EXCEPT ![p].pc = "seal", ![p].token = job[p].token, ![p].answer = "revoked"]
    BY <1>0, <1>3, Zenon DEF Jobs
  <2>2. job[p].token \in Nat
    BY <1>0, Zenon DEF Jobs
  <2> QED
    BY <1>0, <1>2, <1>3, <2>1, <2>2, Zenon
<1>4. CASE /\ Unused(n, job[p].time)
           /\ job' = [job EXCEPT ![p].pc = "seal", ![p].token = row[r].cred,
                ![p].answer = IF ReviewOver(r, now) THEN "expired"
                              ELSE IF Issued(r) THEN "issued" ELSE "pending"]
  <2>1. row[r].cred \in Nat /\ row[r].cred <= minted
    BY <1>0, <1>1, Zenon DEF IInv, MintInv, Rows
  <2>2. CASE ReviewOver(r, now)
    BY <1>2, <1>4, <2>1, <2>2, Zenon
  <2>3. CASE ~ ReviewOver(r, now) /\ Issued(r)
    BY <1>2, <1>4, <2>1, <2>3, Zenon
  <2>4. CASE ~ ReviewOver(r, now) /\ ~ Issued(r)
    BY <1>2, <1>4, <2>1, <2>4, Zenon
  <2> QED
    BY <2>2, <2>3, <2>4, Zenon
<1>5. CASE Leave(p)
  <2>1. minted' = minted /\ minted' <= MaxMints
    BY <1>0, <1>1, Zenon
  <2> QED
    BY <1>1, <1>5, <2>1, LeaveStep, Zenon
<1> QED
  BY <1>3, <1>4, <1>5, Zenon DEF Judge

LEMMA SealKeeps == ASSUME IInv, NEW p \in Procs, Seal(p) PROVE IInv'
<1> DEFINE n == job[p].nonce
<1>0. /\ job \in [Procs -> Jobs] /\ job[p] \in Jobs /\ JobOK(job[p])
      /\ now \in Nat /\ minted \in Nat /\ minted <= MaxMints /\ job[p].token <= minted
      /\ rollbacks = 0 => TimeOK(job[p])
  BY Facts
<1>1. /\ job[p].pc = "seal" /\ n \in StatusNonces /\ n \in Nonces
      /\ UNCHANGED <<clockVars, policyVars, sessionVars, proof, minted, history>>
  BY <1>0, Zenon DEF Seal, JobOK, Nonces
<1>2. CASE StatusTime(p) /\ Go(p, "commit")
  <2> DEFINE new == [job[p] EXCEPT !.pc = "commit"]
  <2>1. new \in Jobs /\ new.pc = "commit" /\ new.req = job[p].req /\ new.nonce = n
        /\ new.token = job[p].token /\ new.time = job[p].time /\ new.answer = job[p].answer
    BY <1>0, <1>1, Zenon DEF Jobs, Places, Writing
  <2>2. job' = [job EXCEPT ![p] = new]
    BY <1>0, <1>2, Zenon DEF Go
  <2>3. JobOK(new)
    BY <1>0, <1>1, <2>1, SessionAssumption, Zenon DEF JobOK, Nonces
  <2>4. rollbacks = 0 => TimeOK(new)
    <3>1. job[p].time \in Nat /\ proof[n].expires \in Nat
      BY <1>0, <1>1, Zenon DEF Jobs, IInv, TypeOK
    <3>2. now < proof[n].expires
      BY <1>2, Zenon DEF StatusTime, Within
    <3>3. rollbacks = 0 => job[p].time <= now /\ (n \notin replay \/ proof[n].expires <= job[p].time)
      BY <1>0, <1>1, Zenon DEF TimeOK
    <3>4. rollbacks = 0 => uses[n] = 0
      BY <1>0, <1>1, <3>1, <3>2, <3>3 DEF IInv, ProofInv, Spent
    <3> QED
      BY <2>1, <3>3, <3>4, Zenon DEF TimeOK, Behind
  <2> HIDE DEF new
  <2> QED
    BY <1>0, <1>1, <2>1, <2>2, <2>3, <2>4, PlainStep, Zenon DEF Behind, Writing
<1>3. CASE Leave(p)
  <2>1. minted' = minted /\ minted' <= MaxMints
    BY <1>0, <1>1, Zenon
  <2> QED
    BY <1>1, <1>3, <2>1, LeaveStep, Zenon
<1> QED
  BY <1>2, <1>3, Zenon DEF Seal

-----------------------------------------------------------------------------
(* A fenced read.                                                          *)

\* Consuming a nonce drops no proof that is not over at the time it is done.
LEMMA ConsumedKeeps ==
  ASSUME NEW n \in Nonces, NEW t \in Nat, replay \subseteq Nonces,
         \A m \in Nonces : proof[m].expires \in Nat
  PROVE  /\ n \in Consumed(n, t) /\ Consumed(n, t) \subseteq Nonces
         /\ \A m \in replay : m \in Consumed(n, t) \/ proof[m].expires <= t
BY DEF Consumed, Kept

LEMMA SpentStays ==
  ASSUME NEW n \in Nonces, NEW t \in Nat, t <= now, now \in Nat, replay \subseteq Nonces,
         \A m \in Nonces : proof[m].expires \in Nat,
         replay' = Consumed(n, t), UNCHANGED <<proof, now>>
  PROVE  Spent(n)' /\ \A m \in Nonces : Spent(m) => Spent(m)'
<1>1. n \in Consumed(n, t) /\ \A m \in replay : m \in Consumed(n, t) \/ proof[m].expires <= t
  BY ConsumedKeeps, Zenon
<1> QED
  BY <1>1 DEF Spent

LEMMA ConsumeKeeps == ASSUME IInv, NEW p \in Procs, Consume(p) PROVE IInv'
<1>0. /\ job \in [Procs -> Jobs] /\ job[p] \in Jobs /\ JobOK(job[p])
      /\ now \in Nat /\ minted \in Nat /\ minted <= MaxMints /\ job[p].token <= minted
      /\ rollbacks = 0 => TimeOK(job[p])
  BY Facts
<1>1. /\ job[p].pc = "consume" /\ job[p].nonce \in ReadNonces /\ job[p].nonce \in Nonces
      /\ ~ Locked /\ job[p].time \in Nat
      /\ UNCHANGED <<clockVars, policyVars, row, expired, proof, minted, history>>
  BY <1>0, Zenon DEF Consume, JobOK, Nonces, Jobs
<1>n. PICK n \in Nonces, t \in Nat : n = job[p].nonce /\ t = job[p].time
  BY <1>1, Zenon
<1>2. replay \subseteq Nonces /\ \A m \in Nonces : proof[m].expires \in Nat
  BY Zenon DEF IInv, TypeOK
<1>3. CASE Leave(p) /\ replay' = replay
  <2>1. minted' = minted /\ minted' <= MaxMints
    BY <1>0, <1>1, Zenon
  <2> QED
    BY <1>1, <1>3, <2>1, LeaveStep, Zenon DEF sessionVars
<1>4. CASE Unused(n, t) /\ replay' = Consumed(n, t) /\ Go(p, "open")
  <2> DEFINE new == [job[p] EXCEPT !.pc = "open"]
  <2>1. new \in Jobs /\ new.pc = "open" /\ new.req = job[p].req /\ new.nonce = n
        /\ new.token = job[p].token /\ new.time = t
    BY <1>0, <1>1, <1>n, Zenon DEF Jobs, Places, Writing
  <2>2. /\ job' \in [Procs -> Jobs] /\ job'[p] = new
        /\ \A q \in Procs \ {p} : job'[q] = job[q]
    BY <1>0, <1>4, <2>1, Zenon DEF Go
  <2>3. JobOK(new)
    BY <1>0, <1>1, <1>n, <2>1, Zenon DEF JobOK
  <2> HIDE DEF new
  <2>4. TypeOK'
    BY <1>0, <1>1, <1>2, <1>4, <2>2, ConsumedKeeps, Zenon
       DEF IInv, TypeOK, clockVars, policyVars, history
  <2>5. \A q \in Procs : JobOK(job[q])'
    <3> SUFFICES ASSUME NEW q \in Procs PROVE JobOK(job[q])'
      OBVIOUS
    <3>1. JobOK(job'[q])
      BY <2>2, <2>3, Zenon DEF IInv
    <3> QED
      BY <1>1, <3>1, Zenon DEF JobOK, Live, Exists, Issued, policyVars
  <2>6. LockInv'
    BY <1>1, <2>1, <2>2, Zenon DEF LockInv, Locked, Writing
  <2>7. MintInv' /\ SignedInv' /\ OneCredential' /\ ExpiredIsFinal'
    BY <1>0, <1>1, <2>1, <2>2, Zenon
       DEF IInv, MintInv, SignedInv, OneCredential, ExpiredIsFinal, Issued, Exists, history
  <2>8. ProofInv'
    <3> SUFFICES ASSUME rollbacks = 0 PROVE ProofInv'
      BY <1>1, Zenon DEF ProofInv, clockVars
    <3>0. now' = now /\ proof' = proof /\ uses' = uses /\ t <= now
      BY <1>0, <1>1, <1>n, Zenon DEF clockVars, history, TimeOK
    <3>1. Spent(n)' /\ \A m \in Nonces : Spent(m) => Spent(m)'
      BY <1>0, <1>1, <1>2, <1>4, <3>0, SpentStays, Zenon
    <3>2. Spent(n) => proof[n].expires <= now
      <4>1. n \notin replay \/ proof[n].expires <= t
        BY <1>2, <1>4, UnusedMeans, Zenon
      <4>2. \A e \in Nat : e <= t => e <= now
        BY <1>0, <3>0
      <4> QED
        BY <1>2, <4>1, <4>2, Zenon DEF Spent
    <3>3. \A q \in Procs : TimeOK(job[q])'
      <4> SUFFICES ASSUME NEW q \in Procs PROVE TimeOK(job[q])'
        OBVIOUS
      <4>1. CASE q = p
        <5>1. uses[n] = 0 \/ proof[n].expires <= now
          BY <1>1, <3>2, Zenon DEF IInv, ProofInv
        <5> QED
          BY <2>1, <2>2, <3>0, <3>1, <4>1, <5>1, Zenon DEF TimeOK, Behind
      <4>2. CASE q # p
        <5>1. TimeOK(job[q]) /\ JobOK(job[q]) /\ job'[q] = job[q] /\ job[q].pc # "seal"
          BY <1>1, <2>2, <4>2, Zenon DEF IInv, ProofInv, Locked, Writing
        <5>2. job[q].pc \in Behind => job[q].nonce \in Nonces
          BY <5>1, Zenon DEF JobOK, Nonces, Behind
        <5> QED
          BY <3>0, <3>1, <5>1, <5>2, Zenon DEF TimeOK, Behind
      <4> QED
        BY <4>1, <4>2, Zenon
    <3>4. \A q, s \in Procs : q # s => Apart(job[q], job[s])'
      <4>1. \A q \in Procs \ {p} : job[q].pc \in Behind /\ job[q].nonce = n => proof[n].expires <= now
        BY <3>2, Zenon DEF IInv, ProofInv, TimeOK
      <4> SUFFICES ASSUME NEW q \in Procs, NEW s \in Procs, q # s,
                          job'[q].pc \in Behind, job'[s].pc \in Behind, job'[q].nonce = job'[s].nonce
                   PROVE  proof[job'[q].nonce].expires <= now
        BY <3>0, Zenon DEF Apart
      <4>2. CASE q = p
        BY <2>1, <2>2, <4>1, <4>2, Zenon
      <4>3. CASE s = p
        BY <2>1, <2>2, <4>1, <4>3, Zenon
      <4>4. CASE q # p /\ s # p
        BY <2>2, <4>4, Zenon DEF IInv, ProofInv, Apart
      <4> QED
        BY <4>2, <4>3, <4>4, Zenon
    <3> QED
      BY <3>0, <3>1, <3>3, <3>4, Zenon DEF IInv, ProofInv
  <2> QED
    BY <2>4, <2>5, <2>6, <2>7, <2>8, Zenon DEF IInv
<1> QED
  BY <1>n, <1>3, <1>4, Zenon DEF Consume

LEMMA OpenKeeps == ASSUME IInv, NEW p \in Procs, Open(p) PROVE IInv'
<1> DEFINE r == job[p].req
<1>0. /\ job \in [Procs -> Jobs] /\ job[p] \in Jobs /\ JobOK(job[p])
      /\ now \in Nat /\ minted \in Nat /\ minted <= MaxMints /\ job[p].token <= minted
      /\ rollbacks = 0 => TimeOK(job[p])
  BY Facts
<1>1. /\ job[p].pc = "open"
      /\ UNCHANGED <<clockVars, policyVars, sessionVars, proof, minted, history>>
  BY Zenon DEF Open
<1>2. CASE Issued(r) /\ Current(row[r].root) /\ Go(p, "disclose")
  <2> DEFINE new == [job[p] EXCEPT !.pc = "disclose"]
  <2>1. new \in Jobs /\ new.pc = "disclose" /\ new.req = r /\ new.nonce = job[p].nonce
        /\ new.token = job[p].token /\ new.time = job[p].time
    BY <1>0, <1>1, Zenon DEF Jobs, Places, Writing
  <2>2. job' = [job EXCEPT ![p] = new]
    BY <1>0, <1>2, Zenon DEF Go
  <2>3. JobOK(new)
    BY <1>0, <1>1, <1>2, <2>1, Zenon DEF JobOK, Current, Live
  <2>4. rollbacks = 0 => TimeOK(new)
    BY <1>0, <1>1, <2>1, Zenon DEF TimeOK, Behind
  <2>5. rollbacks = 0 => \A q \in Procs \ {p} : Apart(new, job[q])
    BY <1>1, <2>1, Zenon DEF IInv, ProofInv, Apart, Behind
  <2>6. minted' \in {minted, minted + 1} /\ minted' <= MaxMints /\ new.token <= minted'
    BY <1>0, <1>1, <2>1, Zenon
  <2> HIDE DEF new
  <2> QED
    BY <1>1, <2>1, <2>2, <2>3, <2>4, <2>5, <2>6, JobStep, Zenon DEF Writing
<1>3. CASE Leave(p)
  <2>1. minted' = minted /\ minted' <= MaxMints
    BY <1>0, <1>1, Zenon
  <2> QED
    BY <1>1, <1>3, <2>1, LeaveStep, Zenon
<1> QED
  BY <1>2, <1>3, Zenon DEF Open

LEMMA DiscloseKeeps == ASSUME IInv, NEW p \in Procs, Disclose(p) PROVE IInv'
<1> DEFINE ok == enabled /\ ReadTime(p) /\ member
<1>0. /\ job \in [Procs -> Jobs] /\ job[p] \in Jobs /\ JobOK(job[p])
      /\ now \in Nat /\ minted \in Nat /\ minted <= MaxMints
      /\ rollbacks = 0 => TimeOK(job[p])
  BY Facts, Zenon
<1>n. PICK n \in ReadNonces : n \in Nonces /\ n = job[p].nonce
  BY <1>0, Zenon DEF Disclose, JobOK, Nonces
<1>1. /\ job[p].pc = "disclose" /\ Leave(p)
      /\ UNCHANGED <<clockVars, policyVars, sessionVars, proof, minted, given, ended>>
      /\ uses' = IF ok THEN Used(n) ELSE uses
  BY <1>n, Zenon DEF Disclose
<1>2. CASE uses' = uses
  <2>1. minted' = minted /\ minted' <= MaxMints
    BY <1>0, <1>1, Zenon
  <2> QED
    BY <1>1, <1>2, <2>1, LeaveStep, Zenon DEF history
<1>3. CASE ok /\ rollbacks = 0 /\ uses' = [uses EXCEPT ![n] = @ + 1]
  <2>1. /\ job' \in [Procs -> Jobs] /\ job'[p] = Idle
        /\ \A q \in Procs \ {p} : job'[q] = job[q]
    BY <1>0, <1>1, IdleIsAJob, Zenon DEF Leave
  <2>2. uses \in [Nonces -> Nat] /\ uses' \in [Nonces -> Nat]
        /\ \A m \in Nonces \ {n} : uses'[m] = uses[m]
    <3>1. uses \in [Nonces -> Nat]
      BY Zenon DEF IInv, TypeOK
    <3>2. uses[n] + 1 \in Nat
      BY <1>n, <3>1
    <3> QED
      BY <1>n, <1>3, <3>1, <3>2, Zenon
  <2>3. TypeOK'
    BY <1>1, <2>1, <2>2, Zenon DEF IInv, TypeOK, clockVars, policyVars, sessionVars
  <2>4. \A q \in Procs : JobOK(job[q])'
    <3> SUFFICES ASSUME NEW q \in Procs PROVE JobOK(job[q])'
      OBVIOUS
    <3>1. JobOK(job'[q])
      BY <2>1, IdleIsOK, Zenon DEF IInv
    <3> QED
      BY <1>1, <3>1, Zenon DEF JobOK, Live, Exists, Issued, policyVars, sessionVars
  <2>5. LockInv'
    BY <2>1, IdleFacts, Zenon DEF IInv, LockInv, Writing
  <2>6. MintInv' /\ SignedInv' /\ OneCredential' /\ ExpiredIsFinal'
    <3>1. row' = row /\ expired' = expired /\ proof' = proof /\ minted' = minted /\ given' = given
          /\ ended' = ended
      BY <1>1, Zenon DEF sessionVars
    <3>2. \A q \in Procs : job'[q].token <= minted
      <4>1. \A q \in Procs : job[q].token <= minted
        BY Zenon DEF IInv, MintInv
      <4>2. Idle.token <= minted
        BY <1>0, IdleHasNoToken, Zenon
      <4> QED
        BY <2>1, <4>1, <4>2, Zenon
    <3>3. MintInv'
      BY <3>1, <3>2, Zenon DEF IInv, MintInv, Issued, Exists
    <3>4. SignedInv'
      BY <3>1, Zenon DEF IInv, SignedInv, Exists
    <3>5. OneCredential' /\ ExpiredIsFinal'
      BY <3>1, Zenon DEF IInv, OneCredential, ExpiredIsFinal, Issued
    <3> QED
      BY <3>3, <3>4, <3>5, Zenon
  <2>7. ProofInv'
    <3>0. now' = now /\ proof' = proof /\ replay' = replay
      BY <1>1, Zenon DEF clockVars, sessionVars
    <3>1. now < proof[n].expires /\ proof[n].expires \in Nat
      BY <1>n, <1>3, Zenon DEF ReadTime, Within, IInv, TypeOK
    <3>2. uses[n] = 0 /\ Spent(n) /\ proof[n].req # None
      <4>1. n # None /\ job[p].pc \in Behind
        BY <1>n, <1>1, SessionAssumption, Zenon DEF Behind
      <4>2. proof[n].req # None
        BY <1>0, <1>n, <4>1, Zenon DEF JobOK
      <4>3. Spent(n) /\ (uses[n] = 0 \/ proof[n].expires <= now)
        BY <1>0, <1>n, <1>3, <4>1, Zenon DEF TimeOK
      <4>4. ~ (proof[n].expires <= now)
        BY <1>0, <3>1
      <4> QED
        BY <4>2, <4>3, <4>4, Zenon
    <3>3. \A q \in Procs \ {p} : job[q].pc \in Behind => job[q].nonce \in Nonces \ {n}
      <4> SUFFICES ASSUME NEW q \in Procs \ {p}, job[q].pc \in Behind PROVE job[q].nonce \in Nonces \ {n}
        OBVIOUS
      <4>1. job[q].nonce \in Nonces
        BY Zenon DEF IInv, JobOK, Behind, Nonces
      <4>2. Apart(job[p], job[q]) /\ job[p].pc \in Behind /\ now \in Nat
        BY <1>0, <1>1, <1>3, Zenon DEF IInv, ProofInv, Behind
      <4> QED
        BY <1>n, <3>1, <4>1, <4>2 DEF Apart
    <3>4. \A q \in Procs : job[q].pc = "commit" /\ job[q].nonce # None => job[q].nonce \in Nonces \ {n}
      BY <1>n, SessionAssumption, Zenon DEF IInv, JobOK, Nonces
    <3>5. \A q \in Procs : TimeOK(job[q])'
      <4> SUFFICES ASSUME NEW q \in Procs PROVE TimeOK(job[q])'
        OBVIOUS
      <4>1. CASE q = p
        <5>1. TimeOK(Idle)'
          BY <1>0, <3>0, IdleIsTimely, Zenon
        <5> QED
          BY <2>1, <4>1, <5>1, Zenon DEF TimeOK
      <4>2. CASE q # p
        <5>1. TimeOK(job[q]) /\ job'[q] = job[q]
          BY <1>3, <2>1, <4>2, Zenon DEF IInv, ProofInv
        <5> QED
          BY <2>2, <3>0, <3>3, <3>4, <4>2, <5>1, Zenon DEF TimeOK, Spent
      <4> QED
        BY <4>1, <4>2, Zenon
    <3>6. \A q, s \in Procs : q # s => Apart(job[q], job[s])'
      BY <1>3, <2>1, <3>0, IdleFacts, Zenon DEF IInv, ProofInv, Apart, Behind
    <3>7. \A m \in Nonces : uses'[m] # 0 => uses'[m] = 1 /\ proof[m].req # None /\ Spent(m)
      <4>1. uses'[n] = 1
        BY <1>n, <1>3, <2>2, <3>2
      <4>2. \A m \in Nonces : uses[m] # 0 => uses[m] = 1 /\ proof[m].req # None /\ Spent(m)
        BY <1>3, Zenon DEF IInv, ProofInv
      <4> QED
        BY <2>2, <3>2, <4>1, <4>2, Zenon
    <3> QED
      BY <3>0, <3>5, <3>6, <3>7, Zenon DEF ProofInv, Spent
  <2> QED
    BY <2>3, <2>4, <2>5, <2>6, <2>7, Zenon DEF IInv
<1> QED
  BY <1>1, <1>2, <1>3, Zenon DEF Used

-----------------------------------------------------------------------------
(* The steps that write.                                                   *)

LEMMA RetainKeeps == ASSUME IInv, NEW p \in Procs, Retain(p) PROVE IInv'
<1> DEFINE r == job[p].req
<1>0. /\ job \in [Procs -> Jobs] /\ job[p] \in Jobs /\ JobOK(job[p])
      /\ now \in Nat /\ minted \in Nat /\ minted <= MaxMints
      /\ row \in [Requests -> Rows]
  BY Facts
<1>1. /\ job[p].pc = "retain" /\ r \in Requests /\ job[p].root \in Roots /\ Leave(p)
      /\ UNCHANGED <<clockVars, policyVars, expired, replay, proof, minted, history>>
  BY <1>0, Zenon DEF Retain, JobOK
<1>2. CASE row' = row
  <2>1. minted' = minted /\ minted' <= MaxMints
    BY <1>0, <1>1, Zenon
  <2> QED
    BY <1>1, <1>2, <2>1, LeaveStep, Zenon DEF sessionVars
<1>3. CASE Free /\ ~ Exists(r) /\ row' = [row EXCEPT ![r] = Challenge(p)]
  <2>1. Challenge(p) \in Rows /\ Challenge(p).root = job[p].root /\ Challenge(p).cred = 0
    <3> DEFINE t == job[p].time
               ttl == job[p].ttl
               due == t + (IF ReviewTime < ttl THEN ReviewTime ELSE ttl)
               end == t + ttl
    <3>1. t \in Nat /\ due \in Nat /\ end \in Nat
      BY <1>0, SessionAssumption DEF Jobs
    <3>2. Challenge(p) = [root |-> job[p].root, issued |-> t, deadline |-> due, expires |-> end,
                          auth |-> None, cred |-> 0]
      <4>1. Challenge(p) = [NoRow EXCEPT !.root = job[p].root, !.issued = t, !.expires = end, !.deadline = due]
        BY Zenon DEF Challenge
      <4> HIDE DEF t, due, end
      <4> QED
        BY <4>1, Zenon DEF NoRow
    <3> HIDE DEF t, due, end
    <3> QED
      BY <1>1, <3>1, <3>2 DEF Rows
  <2>2. /\ row' \in [Requests -> Rows] /\ row'[r].root \in Roots /\ row'[r].cred = 0
        /\ \A x \in Requests \ {r} : row'[x] = row[x]
    BY <1>0, <1>1, <1>3, <2>1, Zenon
  <2>3. /\ job' \in [Procs -> Jobs] /\ job'[p] = Idle
        /\ \A q \in Procs \ {p} : job'[q] = job[q]
    BY <1>0, <1>1, IdleIsAJob, Zenon DEF Leave
  <2>4. \A x \in Requests : Exists(x) => Exists(x)' /\ x # r
    BY <1>3, <2>2, SessionAssumption, Zenon DEF Exists
  <2>5. row[r].cred = 0 /\ \A x \in Requests : row'[x].cred = row[x].cred
    BY <1>1, <1>3, <2>2, Zenon DEF IInv, MintInv, Issued
  <2>6. TypeOK'
    BY <1>1, <2>2, <2>3, Zenon DEF IInv, TypeOK, clockVars, policyVars, history
  <2>7. \A q \in Procs : JobOK(job[q])'
    <3> SUFFICES ASSUME NEW q \in Procs PROVE JobOK(job[q])'
      OBVIOUS
    <3>1. CASE q = p
      <4>1. JobOK(Idle)'
        BY IdleFacts, Zenon DEF JobOK
      <4> QED
        BY <2>3, <3>1, <4>1, ZenonT(30) DEF JobOK
    <3>2. CASE q # p
      <4>1. JobOK(job[q]) /\ job'[q] = job[q] /\ job[q].pc \notin Writing \cup {"disclose"}
        BY <1>3, <2>3, <3>2, Zenon DEF IInv, Free, Locked, Reading
      <4>2. job[q].pc \notin {"idle", "retain"} => Exists(job[q].req)'
        BY <2>4, <4>1, Zenon DEF JobOK
      <4> QED
        BY <1>1, <4>1, <4>2, Zenon DEF JobOK, Writing
    <3> QED
      BY <3>1, <3>2, Zenon
  <2>8. LockInv'
    BY <2>3, IdleFacts, Zenon DEF IInv, LockInv, Writing
  <2>9. MintInv' /\ SignedInv' /\ OneCredential' /\ ExpiredIsFinal'
    <3>1. MintInv'
      BY <1>0, <1>1, <2>3, <2>4, <2>5, IdleFacts, Zenon DEF IInv, MintInv, Issued
    <3>2. SignedInv'
      BY <1>1, <2>4, Zenon DEF IInv, SignedInv, TypeOK
    <3>3. OneCredential' /\ ExpiredIsFinal'
      BY <1>1, <2>5, Zenon DEF IInv, OneCredential, ExpiredIsFinal, Issued, history, TypeOK
    <3> QED
      BY <3>1, <3>2, <3>3, Zenon
  <2>10. ProofInv'
    <3>0. now' = now /\ proof' = proof /\ replay' = replay /\ uses' = uses /\ rollbacks' = rollbacks
      BY <1>1, Zenon DEF clockVars, history
    <3>1. TimeOK(Idle)
      BY <1>0, IdleIsTimely, Zenon
    <3>2. rollbacks = 0 => \A q \in Procs : TimeOK(job'[q])
      BY <2>3, <3>1, Zenon DEF IInv, ProofInv
    <3>3. rollbacks = 0 => \A q, s \in Procs : q # s => Apart(job'[q], job'[s])
      BY <2>3, IdleFacts, Zenon DEF IInv, ProofInv, Apart, Behind
    <3> QED
      BY <3>0, <3>2, <3>3, Zenon DEF IInv, ProofInv, TimeOK, Apart, Spent
  <2> QED
    BY <2>6, <2>7, <2>8, <2>9, <2>10, Zenon DEF IInv
<1> QED
  BY <1>1, <1>2, <1>3, Zenon DEF Retain

LEMMA CommitKeeps == ASSUME IInv, NEW p \in Procs, Commit(p) PROVE IInv'
<1>0. /\ job \in [Procs -> Jobs] /\ job[p] \in Jobs /\ JobOK(job[p])
      /\ now \in Nat /\ minted \in Nat /\ job[p].token <= minted
      /\ row \in [Requests -> Rows]
      /\ rollbacks = 0 => TimeOK(job[p])
  BY Facts, Zenon
<1>n. PICK r \in Requests, n \in StatusNonces \cup {None}, t \in Nat, token \in Nat :
        r = job[p].req /\ n = job[p].nonce /\ t = job[p].time /\ token = job[p].token
  BY <1>0, Zenon DEF Commit, JobOK, Jobs
<1>1. /\ job[p].pc = "commit" /\ Exists(r) /\ Leave(p)
      /\ UNCHANGED <<clockVars, policyVars, proof, minted>>
  BY <1>0, <1>n, Zenon DEF Commit, JobOK
<1>2. /\ row' = IF Credential(p)
                THEN [row EXCEPT ![r].cred = token, ![r].auth = job[p].auth] ELSE row
      /\ expired' = IF Tombstone(p) THEN expired \cup {r} ELSE expired
      /\ replay' = IF n = None THEN replay ELSE Consumed(n, t)
      /\ given' = [given EXCEPT ![r] = IF job[p].answer = "issued" THEN @ \cup {token} ELSE @]
      /\ ended' = IF Tombstone(p) THEN ended \cup {r} ELSE ended
      /\ uses' = IF n = None THEN uses ELSE Used(n)
  BY <1>n, Zenon DEF Commit, Answer
<1>3. /\ job' \in [Procs -> Jobs] /\ job'[p] = Idle
      /\ \A q \in Procs \ {p} : job'[q] = job[q]
  BY <1>0, <1>1, IdleIsAJob, Zenon DEF Leave
<1>4. \A q \in Procs \ {p} : job[q].pc \notin Writing
  BY <1>1, Zenon DEF IInv, LockInv, Writing
<1>5. job[p].answer = "issued" =>
        /\ token # 0 /\ (Issued(r) => token = row[r].cred)
        /\ ~ Issued(r) => Credential(p) /\ r \notin expired
  <2>1. CASE n = None
    BY <1>0, <1>1, <1>n, <2>1, Zenon DEF JobOK, Credential
  <2>2. CASE n # None
    BY <1>0, <1>1, <1>n, <2>2, Zenon DEF JobOK, Issued
  <2> QED
    BY <2>1, <2>2, Zenon
<1>6. /\ row' \in [Requests -> Rows]
      /\ \A x \in Requests : /\ row'[x].root = row[x].root
                             /\ x # r => row'[x] = row[x]
                             /\ Issued(x) => row'[x].cred = row[x].cred
      /\ row'[r].cred = IF Credential(p) THEN token ELSE row[r].cred
  <2>1. CASE Credential(p)
    <3>1. ~ Issued(r) /\ job[p].auth \in Auths \cup {None}
      BY <1>0, <1>n, <2>1, Zenon DEF Credential, Jobs
    <3> QED
      BY <1>0, <1>1, <1>2, <2>1, <3>1, ZenonT(30) DEF Rows
  <2>2. CASE ~ Credential(p)
    BY <1>0, <1>2, <2>2, Zenon
  <2> QED
    BY <2>1, <2>2, Zenon
<1>cred. /\ \A x \in Requests \ {r} : row'[x].cred = row[x].cred
         /\ Credential(p) => row'[r].cred = token
         /\ ~ Credential(p) => row'[r].cred = row[r].cred
  BY <1>6, Zenon
<1>7. /\ \A x \in Requests : Exists(x)' <=> Exists(x)
      /\ \A x \in Requests : Issued(x) => Issued(x)'
  BY <1>6, Zenon DEF Exists, Issued
<1>8. given \in [Requests -> SUBSET (1..minted)] /\ given' \in [Requests -> SUBSET (1..minted)]
  <2>1. given \in [Requests -> SUBSET (1..minted)]
    BY Zenon DEF IInv, TypeOK
  <2>2. job[p].answer = "issued" => token \in 1..minted
    BY <1>0, <1>n, <1>5
  <2> QED
    BY <1>2, <2>1, <2>2, Zenon
<1>given. /\ \A x \in Requests \ {r} : given'[x] = given[x]
          /\ job[p].answer = "issued" => given'[r] = given[r] \cup {token}
          /\ job[p].answer # "issued" => given'[r] = given[r]
  BY <1>2, <1>8, Zenon
<1>9. /\ uses \in [Nonces -> Nat] /\ uses' \in [Nonces -> Nat]
      /\ n = None => uses' = uses
      /\ \A m \in Nonces : m # n => uses'[m] = uses[m]
      /\ rollbacks = 0 /\ n # None => uses'[n] = uses[n] + 1
  BY <1>1, <1>2 DEF IInv, TypeOK, Used, Nonces
<1>10. replay \subseteq Nonces /\ replay' \subseteq Nonces /\ \A m \in Nonces : proof[m].expires \in Nat
  <2>1. replay \subseteq Nonces /\ \A m \in Nonces : proof[m].expires \in Nat
    BY Zenon DEF IInv, TypeOK
  <2>2. n # None => n \in Nonces
    BY <1>1, Zenon DEF Nonces
  <2> QED
    BY <1>1, <1>2, <2>1, <2>2, ConsumedKeeps, Zenon
<1>11. TypeOK'
  <2>1. expired' \subseteq Requests /\ ended' \subseteq Requests
    BY <1>1, <1>2, Zenon DEF IInv, TypeOK
  <2> QED
    BY <1>1, <1>3, <1>6, <1>8, <1>9, <1>10, <2>1, Zenon DEF IInv, TypeOK, clockVars, policyVars
<1>12. \A q \in Procs : JobOK(job[q])'
  <2> SUFFICES ASSUME NEW q \in Procs PROVE JobOK(job[q])'
    OBVIOUS
  <2>1. CASE q = p
    <3>1. JobOK(Idle)'
      BY IdleFacts, Zenon DEF JobOK
    <3> QED
      BY <1>3, <2>1, <3>1, ZenonT(30) DEF JobOK
  <2>2. CASE q # p
    <3>1. JobOK(job[q]) /\ job'[q] = job[q] /\ job[q].pc \notin Writing
      BY <1>3, <1>4, <2>2, Zenon DEF IInv
    <3>2. job[q].pc \notin {"idle", "retain"} => Exists(job[q].req)'
      BY <1>7, <3>1, Zenon DEF JobOK
    <3>3. job[q].pc = "disclose" => Issued(job[q].req)' /\ Live(row[job[q].req].root)'
      BY <1>1, <1>6, <1>7, <3>1, Zenon DEF JobOK, Live, policyVars
    <3> QED
      BY <1>1, <3>1, <3>2, <3>3, Zenon DEF JobOK, Writing
  <2> QED
    BY <2>1, <2>2, Zenon
<1>13. LockInv'
  <2>1. \A q \in Procs : job'[q].pc \notin Writing
    BY <1>3, <1>4, IdleFacts, Zenon DEF Writing
  <2> QED
    BY <2>1, Zenon DEF LockInv
<1>14. MintInv'
  <2>1. \A x \in Requests : row[x].cred <= minted /\ (Issued(x) => Exists(x))
    BY Zenon DEF IInv, MintInv
  <2>2. \A x \in Requests : row'[x].cred <= minted
    BY <1>0, <1>n, <1>6, <2>1, Zenon
  <2>3. \A x \in Requests : Issued(x)' => Exists(x)'
    BY <1>1, <1>6, <1>7, <2>1, Zenon DEF Issued
  <2>4. \A q \in Procs : job'[q].token <= minted
    <3>1. \A q \in Procs : job[q].token <= minted
      BY Zenon DEF IInv, MintInv
    <3>2. Idle.token <= minted
      BY <1>0, IdleHasNoToken, Zenon
    <3> QED
      BY <1>3, <3>1, <3>2, Zenon
  <2> QED
    BY <1>1, <2>2, <2>3, <2>4, Zenon DEF MintInv
<1>15. SignedInv'
  BY <1>1, <1>7, Zenon DEF IInv, SignedInv, TypeOK
<1>16. OneCredential'
  <2>1. \A x \in Requests \ {r} : given'[x] \subseteq {row'[x].cred} /\ 0 \notin given'[x]
    BY <1>cred, <1>given, Zenon DEF IInv, OneCredential
  <2>2. given[r] \subseteq {row[r].cred} /\ 0 \notin given[r]
    BY <1>1, Zenon DEF IInv, OneCredential
  <2>3. given'[r] \subseteq {row'[r].cred} /\ 0 \notin given'[r]
    <3>1. CASE job[p].answer = "issued" /\ Issued(r)
      <4>1. given'[r] = given[r] \cup {token} /\ row'[r].cred = token /\ row[r].cred = token /\ token # 0
        BY <1>5, <1>cred, <1>given, <3>1, Zenon DEF Credential
      <4> QED
        BY <2>2, <4>1, Zenon
    <3>2. CASE job[p].answer = "issued" /\ ~ Issued(r)
      <4>1. given[r] = {}
        BY <2>2, <3>2, Zenon DEF Issued
      <4>2. given'[r] = given[r] \cup {token} /\ row'[r].cred = token /\ token # 0
        BY <1>5, <1>cred, <1>given, <3>2, Zenon
      <4> QED
        BY <4>1, <4>2, Zenon
    <3>3. CASE job[p].answer # "issued"
      <4>1. given'[r] = given[r] /\ row'[r].cred = row[r].cred
        BY <1>cred, <1>given, <3>3, Zenon DEF Credential
      <4> QED
        BY <2>2, <4>1, Zenon
    <3> QED
      BY <3>1, <3>2, <3>3, Zenon
  <2> QED
    BY <2>1, <2>3, Zenon DEF OneCredential
<1>17. ExpiredIsFinal'
  <2>1. CASE Tombstone(p)
    <3>1. ~ Credential(p) /\ ~ Issued(r) /\ row' = row
      BY <1>n, <1>2, <2>1, Zenon DEF Tombstone, Credential
    <3> QED
      BY <1>2, <2>1, <3>1, Zenon DEF IInv, ExpiredIsFinal, Issued
  <2>2. CASE ~ Tombstone(p)
    <3>1. Credential(p) => r \notin expired
      BY <1>n, <1>5, Zenon DEF Credential
    <3>2. \A x \in expired : x \in Requests /\ ~ Issued(x)
      BY Zenon DEF IInv, ExpiredIsFinal, TypeOK
    <3>3. \A x \in expired : row'[x].cred = row[x].cred
      BY <1>6, <3>1, <3>2, Zenon
    <3> QED
      BY <1>2, <2>2, <3>2, <3>3, Zenon DEF IInv, ExpiredIsFinal, Issued
  <2> QED
    BY <2>1, <2>2, Zenon
<1>18. ProofInv'
  <2> SUFFICES ASSUME rollbacks = 0 PROVE ProofInv'
    BY <1>1, Zenon DEF ProofInv, clockVars
  <2>0. now' = now /\ proof' = proof /\ t <= now
    BY <1>0, <1>1, <1>n, Zenon DEF clockVars, TimeOK
  <2>1. n # None => n \in Nonces /\ n \in StatusNonces
    BY <1>1, Zenon DEF Nonces
  <2>2. (\A m \in Nonces : Spent(m) => Spent(m)') /\ (n # None => Spent(n)')
    <3>1. CASE n = None
      BY <1>2, <2>0, <3>1, Zenon DEF Spent
    <3>2. CASE n # None
      BY <1>0, <1>1, <1>2, <1>10, <2>0, <2>1, <3>2, SpentStays, Zenon
    <3> QED
      BY <3>1, <3>2, Zenon
  <2>3. \A q \in Procs : TimeOK(job[q])'
    <3> SUFFICES ASSUME NEW q \in Procs PROVE TimeOK(job[q])'
      OBVIOUS
    <3>1. CASE q = p
      <4>1. TimeOK(Idle)'
        BY <1>0, <2>0, IdleIsTimely, Zenon
      <4> QED
        BY <1>3, <3>1, <4>1, Zenon DEF TimeOK
    <3>2. CASE q # p
      <4>1. TimeOK(job[q]) /\ JobOK(job[q]) /\ job'[q] = job[q] /\ job[q].pc \notin Writing
        BY <1>3, <1>4, <3>2, Zenon DEF IInv, ProofInv
      <4>2. job[q].pc \in Behind => job[q].nonce \in Nonces /\ job[q].nonce # n
        BY <1>1, <2>1, <4>1, SessionAssumption, Zenon DEF JobOK, Nonces, Behind
      <4> QED
        BY <1>9, <2>0, <2>2, <4>1, <4>2, Zenon DEF TimeOK, Writing
    <3> QED
      BY <3>1, <3>2, Zenon
  <2>4. \A q, s \in Procs : q # s => Apart(job[q], job[s])'
    <3> SUFFICES ASSUME NEW q \in Procs, NEW s \in Procs, q # s,
                        job'[q].pc \in Behind, job'[s].pc \in Behind, job'[q].nonce = job'[s].nonce
                 PROVE  proof[job'[q].nonce].expires <= now
      BY <2>0, Zenon DEF Apart
    <3>1. q # p /\ s # p
      BY <1>3, IdleFacts, Zenon DEF Behind
    <3> QED
      BY <1>3, <3>1, Zenon DEF IInv, ProofInv, Apart
  <2>5. \A m \in Nonces : uses'[m] # 0 => uses'[m] = 1 /\ proof'[m].req # None /\ Spent(m)'
    <3>1. n # None => uses[n] = 0 /\ proof[n].req # None
      BY <1>0, <1>1, <1>n, Zenon DEF TimeOK, JobOK
    <3>2. \A m \in Nonces : uses[m] # 0 => uses[m] = 1 /\ proof[m].req # None /\ Spent(m)
      BY Zenon DEF IInv, ProofInv
    <3>3. n # None => uses'[n] = 1
      BY <1>9, <2>1, <3>1
    <3> SUFFICES ASSUME NEW m \in Nonces, uses'[m] # 0
                 PROVE  uses'[m] = 1 /\ proof[m].req # None /\ Spent(m)'
      BY <2>0, Zenon
    <3>4. CASE m = n /\ n # None
      BY <2>2, <3>1, <3>3, <3>4, Zenon
    <3>5. CASE m # n
      <4>1. uses'[m] = uses[m]
        BY <1>9, <3>5, Zenon
      <4> QED
        BY <2>2, <3>2, <4>1, Zenon
    <3>6. n = None => m # n
      BY SessionAssumption, Zenon
    <3> QED
      BY <3>4, <3>5, <3>6, Zenon
  <2> QED
    BY <2>3, <2>4, <2>5, Zenon DEF ProofInv
<1> QED
  BY <1>11, <1>12, <1>13, <1>14, <1>15, <1>16, <1>17, <1>18, Zenon DEF IInv

-----------------------------------------------------------------------------
(* The clients, the owner and the clock.                                   *)

LEMMA SignProofKeeps ==
  ASSUME IInv, NEW n \in Nonces, NEW r \in Requests, SignProof(n, r) PROVE IInv'
<1>1. /\ proof[n].req = None /\ Exists(r)
      /\ UNCHANGED <<clockVars, policyVars, sessionVars, minted, job, history>>
  BY Zenon DEF SignProof
<1>2. /\ proof' \in [Nonces -> [req : Requests \cup {None}, issued : Nat, expires : Nat]]
      /\ proof'[n].req = r
      /\ \A m \in Nonces \ {n} : proof'[m] = proof[m]
  <2>1. /\ proof \in [Nonces -> [req : Requests \cup {None}, issued : Nat, expires : Nat]]
        /\ now \in Nat
    BY SessionAssumption DEF IInv, TypeOK
  <2>2. now + ProofTime \in Nat
    BY <2>1, SessionAssumption
  <2>3. PICK new \in [req : Requests \cup {None}, issued : Nat, expires : Nat] :
          new.req = r /\ proof' = [proof EXCEPT ![n] = new]
    BY <2>1, <2>2, Zenon DEF SignProof
  <2> QED
    BY <2>1, <2>3, Zenon
<1>3. \A p \in Procs : job[p].nonce # None => job[p].nonce \in Nonces \ {n}
  BY <1>1, Zenon DEF IInv, JobOK, TypeOK, Jobs
<1>4. \A p \in Procs : job[p].pc \in Behind \cup {"seal"} => job[p].nonce # None
  BY SessionAssumption, Zenon DEF IInv, JobOK, Behind, Nonces
<1>5. TypeOK'
  BY <1>1, <1>2, Zenon DEF IInv, TypeOK, clockVars, policyVars, sessionVars, history
<1>6. \A p \in Procs : JobOK(job[p])'
  <2> SUFFICES ASSUME NEW p \in Procs PROVE JobOK(job[p])'
    OBVIOUS
  <2>1. JobOK(job[p]) /\ job' = job /\ (job[p].nonce # None => proof'[job[p].nonce] = proof[job[p].nonce])
    BY <1>1, <1>2, <1>3, Zenon DEF IInv
  <2> QED
    BY <1>1, <2>1, ZenonT(30) DEF JobOK, Live, Exists, Issued, policyVars, sessionVars
<1>7. LockInv' /\ MintInv' /\ OneCredential' /\ ExpiredIsFinal'
  BY <1>1, Zenon DEF IInv, LockInv, MintInv, OneCredential, ExpiredIsFinal, Issued, Exists, sessionVars, history
<1>8. SignedInv'
  BY <1>1, <1>2, Zenon DEF IInv, SignedInv, Exists, sessionVars
<1>9. ProofInv'
  <2> SUFFICES ASSUME rollbacks = 0 PROVE ProofInv'
    BY <1>1, Zenon DEF ProofInv, clockVars
  <2>0. now' = now /\ job' = job /\ replay' = replay /\ uses' = uses
    BY <1>1, Zenon DEF clockVars, sessionVars, history
  <2>1. \A p \in Procs : TimeOK(job[p])'
    BY <1>2, <1>3, <1>4, <2>0, Zenon DEF IInv, ProofInv, TimeOK, Spent
  <2>2. \A p, q \in Procs : p # q => Apart(job[p], job[q])'
    BY <1>2, <1>3, <1>4, <2>0, Zenon DEF IInv, ProofInv, Apart
  <2>3. \A m \in Nonces : uses[m] # 0 => m # n
    BY <1>1, Zenon DEF IInv, ProofInv
  <2> QED
    BY <1>2, <2>0, <2>1, <2>2, <2>3, Zenon DEF IInv, ProofInv, Spent
<1> QED
  BY <1>5, <1>6, <1>7, <1>8, <1>9, Zenon DEF IInv

\* The roots and the assignment change while no call writes or reads behind the
\* fence; the rest of the policy no call relies on.
LEMMA PolicyStep ==
  ASSUME IInv, TypeOK', Free \/ UNCHANGED <<root, epoch>>,
         UNCHANGED <<clockVars, sessionVars, proof, minted, job, history>>
  PROVE  IInv'
<1> USE DEF clockVars, sessionVars, history
<1>1. \A p \in Procs : JobOK(job[p])'
  <2>1. CASE UNCHANGED <<root, epoch>>
    <3> SUFFICES ASSUME NEW p \in Procs PROVE JobOK(job[p])'
      OBVIOUS
    <3>1. JobOK(job[p])
      BY Zenon DEF IInv
    <3> QED
      BY <2>1, <3>1, ZenonT(30) DEF JobOK, Live, Exists, Issued
  <2>2. CASE Free
    <3>1. \A p \in Procs : job[p].pc \notin Writing \cup {"disclose"}
      BY <2>2, Zenon DEF Free, Locked, Reading
    <3> QED
      BY <3>1, ZenonT(30) DEF IInv, JobOK, Exists, Issued, Writing
  <2> QED
    BY <2>1, <2>2, Zenon
<1>2. LockInv' /\ MintInv' /\ SignedInv' /\ OneCredential' /\ ExpiredIsFinal'
  BY Zenon DEF IInv, LockInv, MintInv, SignedInv, OneCredential, ExpiredIsFinal, Issued, Exists
<1>3. ProofInv'
  BY Zenon DEF IInv, ProofInv, TimeOK, Apart, Spent
<1> QED
  BY <1>1, <1>2, <1>3, Zenon DEF IInv

LEMMA PolicyKeeps ==
  ASSUME IInv,
         (\E g \in Roots : Enroll(g)) \/ RevokeRoots \/ RevokeEnrollment \/ Reassign \/ Drift
  PROVE  IInv'
<1>1. CASE \E g \in Roots : Enroll(g)
  <2>1. TypeOK'
    BY <1>1 DEF Enroll, IInv, TypeOK, clockVars, sessionVars, history
  <2> QED
    BY <1>1, <2>1, PolicyStep, Zenon DEF Enroll
<1>2. CASE RevokeRoots
  <2>1. TypeOK'
    BY <1>2, Zenon DEF RevokeRoots, IInv, TypeOK, clockVars, sessionVars, history
  <2> QED
    BY <1>2, <2>1, PolicyStep, Zenon DEF RevokeRoots
<1>3. CASE RevokeEnrollment
  <2>1. TypeOK'
    BY <1>3, Zenon DEF RevokeEnrollment, IInv, TypeOK, clockVars, sessionVars, history
  <2> QED
    BY <1>3, <2>1, PolicyStep, Zenon DEF RevokeEnrollment
<1>4. CASE Reassign
  <2>1. epoch' \in 0..MaxUpsets
    BY <1>4, SessionAssumption DEF Reassign, Upsets, IInv, TypeOK
  <2>2. TypeOK'
    BY <1>4, <2>1, Zenon DEF Reassign, IInv, TypeOK, clockVars, sessionVars, history
  <2> QED
    BY <1>4, <2>2, PolicyStep, Zenon DEF Reassign
<1>5. CASE Drift
  <2>1. TypeOK'
    BY <1>5, Zenon DEF Drift, IInv, TypeOK, clockVars, sessionVars, history
  <2> QED
    BY <1>5, <2>1, PolicyStep, Zenon DEF Drift
<1> QED
  BY <1>1, <1>2, <1>3, <1>4, <1>5, Zenon

LEMMA ClockKeeps == ASSUME IInv, Clock PROVE IInv'
<1>0. UNCHANGED <<policyVars, sessionVars, proof, minted, job, history>>
  BY Zenon DEF Clock
<1>1. /\ now \in Nat /\ now' \in 0..MaxTime /\ rollbacks' \in 0..MaxUpsets
      /\ rollbacks' = 0 => rollbacks = 0 /\ now' = now + 1
  <2>1. /\ MaxTime \in Nat /\ MaxUpsets \in Nat
        /\ now \in 0..MaxTime /\ rollbacks \in 0..MaxUpsets /\ epoch \in 0..MaxUpsets
    BY SessionAssumption, Zenon DEF IInv, TypeOK
  <2>2. CASE now < MaxTime /\ now' = now + 1 /\ rollbacks' = rollbacks
    BY <2>1, <2>2
  <2>3. CASE /\ now > 0 /\ Upsets < MaxUpsets
             /\ now' \in 0..(now - 1) /\ rollbacks' = rollbacks + 1
    <3>1. rollbacks < MaxUpsets
      BY <2>1, <2>3 DEF Upsets
    <3> QED
      BY <2>1, <2>3, <3>1
  <2> QED
    BY <2>2, <2>3, Zenon DEF Clock
<1>2. TypeOK'
  BY <1>0, <1>1, Zenon DEF IInv, TypeOK, policyVars, sessionVars, history
<1>3. \A p \in Procs : JobOK(job[p])'
  <2> SUFFICES ASSUME NEW p \in Procs PROVE JobOK(job[p])'
    OBVIOUS
  <2>1. JobOK(job[p])
    BY Zenon DEF IInv
  <2> QED
    BY <1>0, <2>1, ZenonT(30) DEF JobOK, Live, Exists, Issued, policyVars, sessionVars
<1>4. LockInv' /\ MintInv' /\ SignedInv' /\ OneCredential' /\ ExpiredIsFinal'
  BY <1>0, Zenon DEF IInv, LockInv, MintInv, SignedInv, OneCredential, ExpiredIsFinal, Issued, Exists,
              sessionVars, history
<1>5. ProofInv'
  <2> SUFFICES ASSUME rollbacks' = 0 PROVE ProofInv'
    BY Zenon DEF ProofInv
  <2>0. /\ rollbacks = 0 /\ now' = now + 1 /\ now \in Nat
        /\ proof' = proof /\ job' = job /\ replay' = replay /\ uses' = uses
    BY <1>0, <1>1, Zenon DEF sessionVars, history
  <2>1. \A m \in Nonces : proof[m].expires \in Nat /\ (Spent(m) => Spent(m)')
    BY <2>0 DEF IInv, TypeOK, Spent
  <2>2. \A p \in Procs : job[p].time \in Nat /\ (job[p].pc \in Behind => job[p].nonce \in Nonces)
    BY Zenon DEF IInv, TypeOK, Jobs, JobOK, Behind, Nonces
  <2>3. \A p \in Procs : TimeOK(job[p])'
    <3> SUFFICES ASSUME NEW p \in Procs PROVE TimeOK(job[p])'
      OBVIOUS
    <3>1. TimeOK(job[p])
      BY <2>0, Zenon DEF IInv, ProofInv
    <3>2. job[p].time <= now'
      <4>1. job[p].time <= now
        BY <3>1, Zenon DEF TimeOK
      <4>2. \A t \in Nat : t <= now => t <= now'
        BY <2>0
      <4> QED
        BY <2>2, <4>1, <4>2, Zenon
    <3>3. job[p].pc \in Behind => /\ Spent(job[p].nonce)'
                                  /\ uses[job[p].nonce] = 0 \/ proof[job[p].nonce].expires <= now'
      <4>1. \A t \in Nat : t <= now => t <= now'
        BY <2>0
      <4> SUFFICES ASSUME job[p].pc \in Behind
                   PROVE  /\ Spent(job[p].nonce)'
                          /\ uses[job[p].nonce] = 0 \/ proof[job[p].nonce].expires <= now'
        OBVIOUS
      <4>2. Spent(job[p].nonce) /\ (uses[job[p].nonce] = 0 \/ proof[job[p].nonce].expires <= now)
        BY <3>1, Zenon DEF TimeOK
      <4>3. job[p].nonce \in Nonces /\ proof[job[p].nonce].expires \in Nat
        BY <2>1, <2>2, Zenon
      <4>4. Spent(job[p].nonce)'
        BY <2>0, <2>1, <4>2, <4>3, Zenon
      <4>5. proof[job[p].nonce].expires <= now => proof[job[p].nonce].expires <= now'
        BY <4>1, <4>3, Zenon
      <4> QED
        BY <4>2, <4>4, <4>5, Zenon
    <3> QED
      BY <2>0, <3>1, <3>2, <3>3, ZenonT(30) DEF TimeOK
  <2>4. \A p, q \in Procs : p # q => Apart(job[p], job[q])'
    <3> SUFFICES ASSUME NEW p \in Procs, NEW q \in Procs, p # q,
                        job[p].pc \in Behind, job[q].pc \in Behind, job[p].nonce = job[q].nonce
                 PROVE  proof[job[p].nonce].expires <= now'
      BY <2>0, Zenon DEF Apart
    <3>1. proof[job[p].nonce].expires <= now
      BY <2>0, Zenon DEF IInv, ProofInv, Apart
    <3>2. proof[job[p].nonce].expires \in Nat
      BY <2>1, <2>2, Zenon
    <3>3. \A t \in Nat : t <= now => t <= now'
      BY <2>0
    <3> QED
      BY <3>1, <3>2, <3>3, Zenon
  <2> QED
    BY <2>0, <2>1, <2>3, <2>4, Zenon DEF IInv, ProofInv
<1> QED
  BY <1>2, <1>3, <1>4, <1>5, Zenon DEF IInv

-----------------------------------------------------------------------------
LEMMA NextKeeps == ASSUME IInv, [Next]_vars PROVE IInv'
<1>1. CASE UNCHANGED vars
  <2>1. TypeOK'
    BY <1>1, Zenon DEF vars, IInv, TypeOK
  <2> QED
    BY <1>1, <2>1, PolicyStep, Zenon DEF vars, clockVars, sessionVars, history
<1>2. ASSUME NEW p \in Procs, Step(p) PROVE IInv'
  BY Zenon, <1>2, RetainKeeps, AdmitKeeps, ReissueKeeps, SignKeeps, InstallKeeps, StatusOpenKeeps, JudgeKeeps,
     SealKeeps, CommitKeeps, ConsumeKeeps, OpenKeeps, DiscloseKeeps DEF Step
<1>3. ASSUME NEW p \in Procs, Abort(p) PROVE IInv'
  <2>1. minted' = minted /\ minted' <= MaxMints
    BY <1>3, Facts, Zenon DEF Abort
  <2> QED
    BY <1>3, <2>1, LeaveStep, Zenon DEF Abort
<1> QED
  BY <1>1, <1>2, <1>3, CallKeeps, SignProofKeeps, PolicyKeeps, ClockKeeps, Zenon DEF Next

\* Only a commit changes a retained challenge, and only by its credential.
LEMMA RowsChangeUnderReview ==
  ASSUME IInv, [Next]_vars, NEW r \in Requests, Exists(r), row'[r] # row[r]
  PROVE  /\ row'[r] = [row[r] EXCEPT !.cred = row'[r].cred, !.auth = row'[r].auth]
         /\ ~ Issued(r)
         /\ root[row[r].root].status = "active" /\ root[row[r].root].epoch = epoch
         /\ \E p \in Procs : /\ job[p].pc = "commit" /\ job[p].req = r
                             /\ row[r].issued <= job[p].time
                             /\ job[p].time < row[r].deadline
<1>0. row \in [Requests -> Rows] /\ row' # row
  BY Zenon DEF IInv, TypeOK
<1>1. \E p \in Procs : Retain(p) \/ Commit(p)
  BY <1>0, ZenonT(30) DEF Next, vars, Call, Step, Abort, Prepare, Exchange, Status, Verify, Admit, Reissue, Sign,
     Install, StatusOpen, Judge, Seal, Consume, Open, Disclose, SignProof, Enroll, RevokeRoots,
     RevokeEnrollment, Reassign, Drift, Clock, sessionVars
<1>2. PICK p \in Procs : Retain(p) \/ Commit(p)
  BY <1>1, Zenon
<1>3. ~ Retain(p)
  BY <1>0, Zenon DEF Retain
<1>4. /\ job[p].pc = "commit" /\ Credential(p) /\ JobOK(job[p])
      /\ row' = [row EXCEPT ![job[p].req].cred = job[p].token, ![job[p].req].auth = job[p].auth]
  BY <1>0, <1>2, <1>3, Zenon DEF Commit, IInv
<1>5. job[p].req = r
  BY <1>0, <1>4, Zenon
<1>6. /\ ~ Issued(r) /\ Live(row[r].root)
      /\ row[r].issued <= job[p].time /\ job[p].time < row[r].deadline
  BY <1>4, <1>5, Zenon DEF Credential, JobOK
<1>7. row'[r] = [row[r] EXCEPT !.cred = row'[r].cred, !.auth = row'[r].auth]
  BY <1>0, <1>4, <1>5, Zenon DEF Rows
<1> QED
  BY <1>4, <1>5, <1>6, <1>7, Zenon DEF Live

\* For any number of server processes, requests, roots and proofs, under every
\* behaviour of the clock, the lock and the policy: a request has one credential
\* and none once expired, a proof buys one answer while the clock moves forward,
\* a read made behind the fence has a live parent, and a retained challenge
\* changes only by its one credential, decided inside the review
\* (HolderSessionHost.exchange, status and verify_request).
THEOREM SessionsAreSound == Spec => SessionsHold
<1> DEFINE Under ==
      \A r \in Requests : Exists(r) /\ row'[r] # row[r] =>
        /\ row'[r] = [row[r] EXCEPT !.cred = row'[r].cred, !.auth = row'[r].auth]
        /\ ~ Issued(r)
        /\ root[row[r].root].status = "active" /\ root[row[r].root].epoch = epoch
        /\ \E p \in Procs : /\ job[p].pc = "commit" /\ job[p].req = r
                            /\ row[r].issued <= job[p].time
                            /\ job[p].time < row[r].deadline
<1>1. Init => IInv
  BY InitIInv, Zenon
<1>2. IInv /\ [Next]_vars => IInv'
  BY NextKeeps, Zenon
<1>3. IInv => SessionInv /\ ReadsAreFenced
  BY IInvImplies, Zenon
<1>4. IInv /\ [Next]_vars => [Under]_vars
  BY RowsChangeUnderReview, Zenon
<1> HIDE DEF Under
<1>5. Spec => [](SessionInv /\ ReadsAreFenced) /\ [][Under]_vars
  BY <1>1, <1>2, <1>3, <1>4, PTL DEF Spec
<1> QED
  BY <1>5, Zenon DEF SessionsHold, IssuedUnderReview, Under
=============================================================================
