----------------------------- MODULE OwnerProofs -----------------------------
(***************************************************************************)
(* Proofs about OwnerSetup, for any number of commands, keys, plans and    *)
(* interruptions: the installation serves its registered owner only, and   *)
(* the claim store implements a one-time claim.                            *)
(***************************************************************************)
EXTENDS OwnerSetup, TLAPS

\* Where a command of each kind is while it holds its lock.
SetupPcs == {"handle", "arm", "claim", "redeem", "unlink"}

LaunchPcs == {"agent", "job", "mark", "boot", "probe"}

\* The places of an activation, from the last ones back to all of them.
Dispatching == {"dispatch", "bootstrap", "verify"}

Cutting == {"cutover", "bootout", "plist"} \cup Dispatching

Verifying == {"agentStatus"} \cup Cutting

Bound2 == {"programs"} \cup Verifying

Provisioned == {"bindV1", "bindV2"} \cup Bound2

Starting == {"provision", "installed"} \cup Provisioned

InstallPcs == {"prior", "start"} \cup Starting

Pcs == {"idle", "review", "stage", "stageReview"} \cup SetupPcs \cup LaunchPcs \cup InstallPcs

Runs == [stage : {"dir", "reviewed"}, prev : Nat, inputs : Nat, phases : SUBSET Phases,
         sent : [Effects -> Nat]]

\* A command; what its argument is depends on the place.
IsCommand(x) ==
    /\ x = [pc |-> x.pc, plan |-> x.plan, now |-> x.now, arg |-> x.arg]
    /\ x.pc \in Pcs /\ x.plan \in Plans \cup {None} /\ x.now \in 0..MaxTime

Holders == Plans \cup {None, Unclaimed}

RunType == DOMAIN run \subseteq Plans /\ run \in [DOMAIN run -> Runs]

ProcType == proc = [p \in Procs |-> proc[p]] /\ \A p \in Procs : IsCommand(proc[p])

LockType == lock \in [{"launch", "setup", "install"} -> Procs \cup {None}]

StoreType == store \in Stores \cup {None} /\ proofs \subseteq Challenge

\* The deployment record of the unclaimed service.
SvcType(s) ==
    /\ s.reg \in 0..MaxReg
    /\ s = [stage |-> s.stage, reg |-> s.reg, agent |-> s.agent,
            dispatched |-> s.dispatched, running |-> s.running]

PlainType ==
    /\ reg \in 0..MaxReg /\ clock \in 0..MaxTime /\ native \in Nat
    /\ recv \in [v1 : Nat, v2 : Nat \cup {None}]
    /\ SvcType(svc)
    /\ job \in [Labels -> Holders] /\ listener \in [Labels -> Holders]
    /\ token \in Plans \cup {None}

SetupTypeOK == RunType /\ ProcType /\ LockType /\ StoreType /\ PlainType

\* A challenge of this setup, shown to a Wallet for a reviewed run.
Shown(c) ==
    /\ c \in proofs /\ Reviewed(c.plan)
    /\ store.armed <= c.issued /\ c.expires <= store.deadline

\* What the claim store may hold.
StoreOK ==
    store # None =>
        /\ store.state = "uninitialized" => store.deadline = 0
        /\ store.state # "active" => store.proof = None
        /\ store.state \in {"prepared", "active"} => store.chal # None /\ Shown(store.chal)
        /\ store.state = "active" => store.proof = store.chal

\* Both bindings were installed after the run was staged, and the agent read back.
Installed(pl) ==
    /\ pl \in DOMAIN run /\ OwnerOf(pl)
    /\ {"started", "native", "configured", "agent"} \subseteq run[pl].phases
    /\ recv.v2 # None /\ run[pl].prev < recv.v2

RunOK(pl) ==
    /\ run[pl].prev <= native
    /\ Marked(pl, "started") => OwnerOf(pl)
    /\ ~Marked(pl, "started") => \A e \in Effects : run[pl].sent[e] = 0
    /\ Marked(pl, "active") => job[LabelOf(pl)] = pl
    /\ \A e \in Effects : run[pl].sent[e] <= 1

PlaceOK(l, h) == h \in Plans => l = LabelOf(h) /\ Installed(h)

\* What a command relies on at each place: its lock, and what the lock protects.
CommandOK(p, pc, pl) ==
    /\ pc \in SetupPcs => lock["setup"] = p /\ Reviewed(pl)
    /\ pc \in {"handle", "arm", "claim"} => store # None
    /\ pc \in LaunchPcs => lock["launch"] = p
    /\ pc \in {"agent", "job"} => job["service"] = None
    /\ pc = "stage" => pl \in Plans
    /\ pc = "stageReview" => pl \in DOMAIN run
    /\ pc \in InstallPcs => lock["install"] = p /\ Reviewed(pl) /\ OwnerOf(pl)
    /\ pc \in {"prior", "start"} => ~Marked(pl, "started")
    /\ pc \in Starting => Marked(pl, "started")
    /\ pc = "provision" => run[pl].sent["provision"] = 0
    /\ pc \in Provisioned => Marked(pl, "native")
    /\ pc \in InstallPcs \ ({"plist"} \cup Dispatching) => run[pl].sent["bootout"] = 0
    /\ pc \in InstallPcs \ {"verify"} => run[pl].sent["bootstrap"] = 0
    /\ pc \in Bound2 => recv.v2 # None /\ run[pl].prev < recv.v2
    /\ pc \in Verifying => Marked(pl, "configured")
    /\ pc \in Cutting => Marked(pl, "agent")
    /\ pc \in {"bootout", "plist"} => pl.existing
    /\ pc \in Dispatching => job[LabelOf(pl)] = pl

\* The inductive invariant.
SetupIInv ==
    /\ SetupTypeOK /\ StoreOK
    /\ \A pl \in DOMAIN run : RunOK(pl)
    /\ \A l \in Labels : PlaceOK(l, job[l]) /\ PlaceOK(l, listener[l])
    /\ \A p \in Procs : CommandOK(p, proc[p].pc, proc[p].plan)

-----------------------------------------------------------------------------
(* What no step takes back.                                                *)

Grows ==
    /\ DOMAIN run \subseteq DOMAIN run'
    /\ \A pl \in DOMAIN run :
         /\ run'[pl].prev = run[pl].prev /\ run[pl].phases \subseteq run'[pl].phases
         /\ run[pl].stage = "reviewed" => run'[pl].stage = "reviewed"
    /\ store # None => store' # None
    /\ store # None /\ store.state = "active" => store' = store
    /\ native <= native'
    /\ \A n \in Nat : n <= native /\ recv.v2 # None /\ n < recv.v2 => recv'.v2 # None /\ n < recv'.v2
    /\ \A l \in Labels : job[l] \in Plans => job'[l] = job[l]

LEMMA NatFacts ==
  /\ \A n \in Nat : n <= n /\ n + 1 \in Nat /\ n <= n + 1
  /\ \A m, n, k \in Nat : m <= n /\ n <= k => m <= k
  /\ 0 + 1 = 1 /\ 0 <= 1 /\ 1 <= 1 /\ 0 \in Nat
OBVIOUS

LEMMA NextOrSame == ASSUME NEW n \in Nat, NEW m \in {n, n + 1} PROVE m \in Nat /\ n <= m
OBVIOUS

LEMMA ReviewedStays == ASSUME Grows, NEW pl, Reviewed(pl) PROVE Reviewed(pl)'
BY DEF Grows, Reviewed

LEMMA OwnerStays == ASSUME Grows, NEW pl, OwnerOf(pl) PROVE OwnerOf(pl)'
BY DEF Grows, OwnerOf

LEMMA InstalledStays ==
  ASSUME RunType, Grows, NEW pl, Installed(pl), run[pl].prev <= native
  PROVE  Installed(pl)'
<1>1. pl \in DOMAIN run /\ run[pl].prev \in Nat
  BY DEF Installed, RunType, Runs
<1>2. pl \in DOMAIN run' /\ run'[pl].prev = run[pl].prev /\ run[pl].phases \subseteq run'[pl].phases
  BY <1>1 DEF Grows
<1>3. recv'.v2 # None /\ run[pl].prev < recv'.v2
  BY <1>1 DEF Grows, Installed
<1>4. OwnerOf(pl)'
  BY OwnerStays DEF Installed
<1>5. {"started", "native", "configured", "agent"} \subseteq run'[pl].phases
  BY <1>2 DEF Installed
<1> QED
  BY <1>2, <1>3, <1>4, <1>5 DEF Installed

\* A run that a step does not touch.
LEMMA RunStays ==
  ASSUME Grows, NEW pl \in DOMAIN run, DOMAIN run \subseteq Plans, RunOK(pl),
         native \in Nat, native' \in Nat, run[pl].prev \in Nat,
         run'[pl].phases = run[pl].phases, run'[pl].sent = run[pl].sent
  PROVE  RunOK(pl)'
<1>1. run'[pl].prev = run[pl].prev /\ run[pl].prev <= native'
  BY DEF Grows, RunOK
<1>2. Marked(pl, "started") => OwnerOf(pl)'
  BY OwnerStays DEF RunOK
<1>3. Marked(pl, "active") => job'[LabelOf(pl)] = pl
  <2>1. LabelOf(pl) \in Labels /\ pl \in Plans
    BY DEF LabelOf, Labels
  <2> QED
    BY <2>1 DEF RunOK, Grows
<1> QED
  BY <1>1, <1>2, <1>3 DEF RunOK, Marked

LEMMA StoreStays ==
  ASSUME Grows, StoreOK, store' = store, proofs \subseteq proofs'
  PROVE  StoreOK'
<1>1. \A c : Shown(c) => Shown(c)'
  BY ReviewedStays DEF Shown
<1> QED
  BY <1>1 DEF StoreOK

\* A command that a step leaves where it is, with its locks and its run.
LEMMA CommandStays ==
  ASSUME RunType, Grows, \A x \in DOMAIN run : RunOK(x),
         NEW q \in Procs, NEW pc, NEW pl, CommandOK(q, pc, pl),
         \A l \in {"launch", "setup", "install"} : lock[l] = q => lock'[l] = q,
         pc \in {"agent", "job"} => job'["service"] = None,
         pc \in InstallPcs => run'[pl].phases = run[pl].phases /\ run'[pl].sent = run[pl].sent
  PROVE  CommandOK(q, pc, pl)'
<1>1. Reviewed(pl) => Reviewed(pl)'
  BY ReviewedStays
<1>2. OwnerOf(pl) => OwnerOf(pl)'
  BY OwnerStays
<1>3. store # None => store' # None
  BY DEF Grows
<1>4. pl \in DOMAIN run =>
        /\ pl \in DOMAIN run' /\ run'[pl].prev = run[pl].prev /\ run[pl].prev \in Nat
        /\ run[pl].prev <= native /\ pl \in Plans
  BY DEF Grows, RunType, Runs, RunOK
<1>5. pc \in InstallPcs => pl \in DOMAIN run
  BY DEF CommandOK, Reviewed
<1>6. pc \in Bound2 => recv'.v2 # None /\ run'[pl].prev < recv'.v2
  <2>1. pc \in Bound2 => pc \in InstallPcs
    BY DEF InstallPcs, Starting, Provisioned
  <2> QED
    BY <2>1, <1>4, <1>5 DEF CommandOK, Grows
<1>7. pc \in Dispatching => job'[LabelOf(pl)] = pl
  <2>1. pc \in Dispatching => pc \in InstallPcs
    BY DEF InstallPcs, Starting, Provisioned, Bound2, Verifying, Cutting
  <2>2. LabelOf(pl) \in Labels
    BY DEF LabelOf, Labels
  <2> QED
    BY <2>1, <2>2, <1>4, <1>5 DEF CommandOK, Grows
<1>8. /\ pc \in Cutting => pc \in Verifying
      /\ pc \in Verifying => pc \in Bound2
      /\ pc \in Bound2 => pc \in Provisioned
      /\ pc \in Provisioned => pc \in Starting
      /\ pc \in Starting => pc \in InstallPcs
      /\ pc \in {"prior", "start", "provision"} => pc \in InstallPcs
  BY DEF InstallPcs, Starting, Provisioned, Bound2, Verifying
<1>9. /\ pc \in SetupPcs => lock'["setup"] = q /\ Reviewed(pl)'
      /\ pc \in LaunchPcs => lock'["launch"] = q
      /\ pc \in InstallPcs => lock'["install"] = q /\ Reviewed(pl)' /\ OwnerOf(pl)'
  BY <1>1, <1>2 DEF CommandOK
<1>10. /\ pc \in {"handle", "arm", "claim"} => store' # None
       /\ pc = "stage" => pl \in Plans
       /\ pc = "stageReview" => pl \in DOMAIN run'
       /\ pc \in {"bootout", "plist"} => pl.existing
  BY <1>3, <1>4 DEF CommandOK
<1>11. /\ pc \in {"prior", "start"} => ~Marked(pl, "started")'
       /\ pc \in Starting => Marked(pl, "started")'
       /\ pc \in Provisioned => Marked(pl, "native")'
       /\ pc \in Verifying => Marked(pl, "configured")'
       /\ pc \in Cutting => Marked(pl, "agent")'
  BY <1>8 DEF CommandOK, Marked
<1>12. /\ pc = "provision" => run'[pl].sent["provision"] = 0
       /\ pc \in InstallPcs \ ({"plist"} \cup Dispatching) => run'[pl].sent["bootout"] = 0
       /\ pc \in InstallPcs \ {"verify"} => run'[pl].sent["bootstrap"] = 0
  BY <1>8 DEF CommandOK
<1> QED
  BY <1>6, <1>7, <1>9, <1>10, <1>11, <1>12 DEF CommandOK

\* At these places a command relies on nothing but what is said here.
LEMMA FreeIsOK ==
  ASSUME NEW q, NEW pl, NEW pc \in {"idle", "review"}
  PROVE  CommandOK(q, pc, pl) /\ CommandOK(q, pc, pl)'
BY DEF CommandOK, SetupPcs, LaunchPcs, InstallPcs, Starting, Provisioned, Bound2, Verifying,
       Cutting, Dispatching

LEMMA StagingIsOK ==
  ASSUME NEW q, NEW pl \in Plans, NEW pc \in {"stage", "stageReview"}, pc = "stageReview" => pl \in DOMAIN run'
  PROVE  CommandOK(q, pc, pl)'
BY DEF CommandOK, SetupPcs, LaunchPcs, InstallPcs, Starting, Provisioned, Bound2, Verifying,
       Cutting, Dispatching

LEMMA LaunchIsOK ==
  ASSUME NEW q, NEW pl, NEW pc \in LaunchPcs, lock'["launch"] = q,
         pc \in {"agent", "job"} => job'["service"] = None
  PROVE  CommandOK(q, pc, pl)'
BY DEF CommandOK, SetupPcs, LaunchPcs, InstallPcs, Starting, Provisioned, Bound2, Verifying,
       Cutting, Dispatching

LEMMA SetupIsOK ==
  ASSUME NEW q, NEW pl, NEW pc \in SetupPcs, lock'["setup"] = q, Reviewed(pl)',
         pc \in {"handle", "arm", "claim"} => store' # None
  PROVE  CommandOK(q, pc, pl)'
BY DEF CommandOK, SetupPcs, LaunchPcs, InstallPcs, Starting, Provisioned, Bound2, Verifying,
       Cutting, Dispatching

LEMMA InstallIsOK ==
  ASSUME NEW q, NEW pl, NEW pc \in InstallPcs, lock'["install"] = q, Reviewed(pl)', OwnerOf(pl)',
         pc \in {"prior", "start"} => ~Marked(pl, "started")',
         pc \in Starting => Marked(pl, "started")',
         pc = "provision" => run'[pl].sent["provision"] = 0,
         pc \in Provisioned => Marked(pl, "native")',
         pc \notin {"plist"} \cup Dispatching => run'[pl].sent["bootout"] = 0,
         pc # "verify" => run'[pl].sent["bootstrap"] = 0,
         pc \in Bound2 => recv'.v2 # None /\ run'[pl].prev < recv'.v2,
         pc \in Verifying => Marked(pl, "configured")',
         pc \in Cutting => Marked(pl, "agent")',
         pc \in {"bootout", "plist"} => pl.existing,
         pc \in Dispatching => job'[LabelOf(pl)] = pl
  PROVE  CommandOK(q, pc, pl)'
<1>1. pc \notin SetupPcs \cup LaunchPcs \cup {"stage", "stageReview"}
  BY DEF SetupPcs, LaunchPcs, InstallPcs, Starting, Provisioned, Bound2, Verifying, Cutting, Dispatching
<1>2. pc \notin {"handle", "arm", "claim", "agent", "job"}
  BY <1>1 DEF SetupPcs, LaunchPcs
<1> QED
  BY <1>1, <1>2 DEF CommandOK

\* The same, with what an activation relies on in one formula.
InstallFits(q, pc, pl) ==
    /\ lock["install"] = q /\ Reviewed(pl) /\ OwnerOf(pl)
    /\ pc \in {"prior", "start"} => ~Marked(pl, "started")
    /\ pc \in Starting => Marked(pl, "started")
    /\ pc = "provision" => run[pl].sent["provision"] = 0
    /\ pc \in Provisioned => Marked(pl, "native")
    /\ pc \notin {"plist"} \cup Dispatching => run[pl].sent["bootout"] = 0
    /\ pc # "verify" => run[pl].sent["bootstrap"] = 0
    /\ pc \in Bound2 => recv.v2 # None /\ run[pl].prev < recv.v2
    /\ pc \in Verifying => Marked(pl, "configured")
    /\ pc \in Cutting => Marked(pl, "agent")
    /\ pc \in {"bootout", "plist"} => pl.existing
    /\ pc \in Dispatching => job[LabelOf(pl)] = pl

LEMMA FittingIsOK ==
  ASSUME NEW q, NEW pl, NEW pc \in InstallPcs, InstallFits(q, pc, pl)'
  PROVE  CommandOK(q, pc, pl)'
BY InstallIsOK DEF InstallFits

\* Two commands are never under the same lock.
LEMMA Alone ==
  ASSUME SetupIInv, NEW p \in Procs, NEW q \in Procs \ {p}
  PROVE  /\ proc[p].pc \in LaunchPcs => proc[q].pc \notin LaunchPcs
         /\ proc[p].pc \in SetupPcs => proc[q].pc \notin SetupPcs
         /\ proc[p].pc \in InstallPcs => proc[q].pc \notin InstallPcs
<1>1. CommandOK(p, proc[p].pc, proc[p].plan) /\ CommandOK(q, proc[q].pc, proc[q].plan)
  BY DEF SetupIInv
<1> QED
  BY <1>1 DEF CommandOK

-----------------------------------------------------------------------------
(* A step keeps the invariant when what it touches is sound afterwards.     *)

RunKept(pl) ==
    pl \in DOMAIN run /\ run'[pl].phases = run[pl].phases /\ run'[pl].sent = run[pl].sent

CommandKept(q) ==
    /\ proc'[q] = proc[q]
    /\ \A l \in {"launch", "setup", "install"} : lock[l] = q => lock'[l] = q
    /\ proc[q].pc \in {"agent", "job"} => job'["service"] = None
    /\ proc[q].pc \in InstallPcs => RunKept(proc[q].plan)

LEMMA CommandsKeep ==
  ASSUME SetupIInv, Grows,
         \A q \in Procs : CommandOK(q, proc[q].pc, proc[q].plan)' \/ CommandKept(q)
  PROVE  \A q \in Procs : CommandOK(q, proc[q].pc, proc[q].plan)'
<1>1. RunType /\ \A x \in DOMAIN run : RunOK(x)
  BY DEF SetupIInv, SetupTypeOK
<1>2. ASSUME NEW q \in Procs, CommandKept(q) PROVE CommandOK(q, proc[q].pc, proc[q].plan)'
  <2>1. PICK pc, pl : pc = proc[q].pc /\ pl = proc[q].plan
    OBVIOUS
  <2>2. pc = proc'[q].pc /\ pl = proc'[q].plan
    BY <1>2, <2>1 DEF CommandKept
  <2>3. CommandOK(q, pc, pl)
    BY <2>1 DEF SetupIInv
  <2>4. /\ \A l \in {"launch", "setup", "install"} : lock[l] = q => lock'[l] = q
        /\ pc \in {"agent", "job"} => job'["service"] = None
        /\ pc \in InstallPcs => run'[pl].phases = run[pl].phases /\ run'[pl].sent = run[pl].sent
    BY <1>2, <2>1 DEF CommandKept, RunKept
  <2>5. CommandOK(q, pc, pl)'
    BY <1>1, <2>3, <2>4, CommandStays
  <2> QED
    BY <2>2, <2>5
<1> QED
  BY <1>2

LEMMA StepIsSound ==
  ASSUME SetupIInv, Grows, SetupTypeOK',
         StoreOK' \/ (store' = store /\ proofs \subseteq proofs'),
         \A pl \in DOMAIN run' : RunOK(pl)' \/ RunKept(pl),
         \A l \in Labels : PlaceOK(l, job[l])' \/ job'[l] = job[l],
         \A l \in Labels : PlaceOK(l, listener[l])' \/ listener'[l] \in {listener[l], job[l]},
         \A q \in Procs : CommandOK(q, proc[q].pc, proc[q].plan)' \/ CommandKept(q)
  PROVE  SetupIInv'
<1>1. StoreOK'
  BY StoreStays DEF SetupIInv
<1>2. \A pl \in DOMAIN run' : RunOK(pl)'
  <2> SUFFICES ASSUME NEW pl \in DOMAIN run', RunKept(pl) PROVE RunOK(pl)'
    OBVIOUS
  <2>1. /\ pl \in DOMAIN run /\ DOMAIN run \subseteq Plans /\ run[pl].prev \in Nat
        /\ native \in Nat /\ native' \in Nat /\ RunOK(pl)
    BY DEF SetupIInv, SetupTypeOK, RunType, Runs, PlainType, RunKept
  <2> QED
    BY <2>1, RunStays DEF RunKept
<1>3. ASSUME NEW pl, Installed(pl) PROVE Installed(pl)'
  <2>1. RunType /\ run[pl].prev <= native
    BY <1>3 DEF SetupIInv, SetupTypeOK, Installed, RunOK
  <2> QED
    BY <1>3, <2>1, InstalledStays
<1>4. ASSUME NEW l \in Labels PROVE PlaceOK(l, job[l])' /\ PlaceOK(l, listener[l])'
  <2>1. PlaceOK(l, job[l]) /\ PlaceOK(l, listener[l])
    BY DEF SetupIInv
  <2>2. PlaceOK(l, job[l])'
    BY <1>3, <2>1 DEF PlaceOK
  <2>3. PlaceOK(l, listener[l])'
    BY <1>3, <2>1 DEF PlaceOK
  <2> QED
    BY <2>2, <2>3
<1>5. \A q \in Procs : CommandOK(q, proc[q].pc, proc[q].plan)'
  BY CommandsKeep
<1> QED
  BY <1>1, <1>2, <1>4, <1>5 DEF SetupIInv

-----------------------------------------------------------------------------
(* What the helpers of the commands do.                                     *)

LEMMA PutFacts ==
  ASSUME ProcType, NEW p \in Procs, NEW x, IsCommand(x), proc' = [proc EXCEPT ![p] = x]
  PROVE  ProcType' /\ proc'[p] = x /\ \A q \in Procs \ {p} : proc'[q] = proc[q]
<1>1. /\ proc' = [q \in Procs |-> proc'[q]] /\ proc'[p] = x
      /\ \A q \in Procs \ {p} : proc'[q] = proc[q]
  BY DEF ProcType
<1> QED
  BY <1>1 DEF ProcType

LEMMA GotoFacts ==
  ASSUME ProcType, NEW p \in Procs, NEW pc \in Pcs, Goto(p, pc)
  PROVE  /\ ProcType' /\ \A q \in Procs \ {p} : proc'[q] = proc[q]
         /\ proc'[p].pc = pc /\ proc'[p].plan = proc[p].plan
<1>1. PICK x : x = proc[p]
  OBVIOUS
<1>2. IsCommand(x) /\ proc' = [proc EXCEPT ![p] = [x EXCEPT !.pc = pc]]
  BY <1>1 DEF ProcType, Goto
<1>3. [x EXCEPT !.pc = pc] = [pc |-> pc, plan |-> x.plan, now |-> x.now, arg |-> x.arg]
  BY <1>2 DEF IsCommand
<1>4. PICK y : y = [pc |-> pc, plan |-> x.plan, now |-> x.now, arg |-> x.arg]
  BY Zenon
<1>5. y.pc = pc /\ y.plan = x.plan /\ y.now = x.now /\ y.arg = x.arg
  BY <1>4
<1>6. IsCommand(y)
  BY <1>2, <1>4, <1>5 DEF IsCommand
<1> QED
  BY <1>1, <1>2, <1>3, <1>4, <1>5, <1>6, PutFacts, Zenon

LEMMA BeginFacts ==
  ASSUME ProcType, clock \in 0..MaxTime, NEW p \in Procs, NEW pc \in Pcs, NEW pl \in Plans \cup {None},
         NEW arg, Begin(p, pc, pl, arg)
  PROVE  /\ ProcType' /\ \A q \in Procs \ {p} : proc'[q] = proc[q]
         /\ proc'[p].pc = pc /\ proc'[p].plan = pl /\ proc'[p].arg = arg
<1>1. PICK n \in 0..MaxTime : n = IF pc \in {"handle", "redeem"} THEN clock ELSE 0
  BY SetupAssumption
<1>2. PICK y : y = [pc |-> pc, plan |-> pl, now |-> n, arg |-> arg]
  BY Zenon
<1>21. y.pc = pc /\ y.plan = pl /\ y.now = n /\ y.arg = arg
  BY <1>2
<1>3. IsCommand(y)
  BY <1>2, <1>21 DEF IsCommand
<1>4. proc' = [proc EXCEPT ![p] = y]
  BY <1>1, <1>2 DEF Begin
<1> QED
  BY <1>21, <1>3, <1>4, PutFacts, Zenon

LEMMA IdleIsCommand == IsCommand(Idle) /\ Idle.pc = "idle"
BY SetupAssumption DEF IsCommand, Idle, Pcs

LEMMA FinishFacts ==
  ASSUME ProcType, NEW p \in Procs, Finish(p)
  PROVE  /\ ProcType' /\ \A q \in Procs \ {p} : proc'[q] = proc[q]
         /\ CommandOK(p, proc[p].pc, proc[p].plan)'
<1>1. ProcType' /\ proc'[p] = Idle /\ \A q \in Procs \ {p} : proc'[q] = proc[q]
  BY IdleIsCommand, PutFacts, Zenon DEF Finish
<1>2. PICK pl : pl = Idle.plan
  OBVIOUS
<1>3. CommandOK(p, "idle", pl)'
  BY FreeIsOK
<1> QED
  BY <1>1, <1>2, <1>3, IdleIsCommand

LEMMA LockedFacts ==
  ASSUME LockType, NEW l \in {"launch", "setup", "install"}, NEW p \in Procs, Locked(p, l)
  PROVE  /\ LockType' /\ lock'[l] = p
         /\ \A q \in Procs, m \in {"launch", "setup", "install"} : lock[m] = q => lock'[m] = q
BY SetupAssumption DEF LockType, Locked

LEMMA ReleasedFacts ==
  ASSUME LockType, NEW p \in Procs, Released(p)
  PROVE  /\ LockType'
         /\ \A q \in Procs \ {p}, m \in {"launch", "setup", "install"} : lock[m] = q => lock'[m] = q
BY DEF LockType, Released

\* A run is written in place.
LEMMA WriteFacts ==
  ASSUME RunType, NEW pl \in DOMAIN run, NEW x \in Runs, run' = [run EXCEPT ![pl] = x]
  PROVE  /\ RunType' /\ DOMAIN run' = DOMAIN run /\ run'[pl] = x
         /\ \A y \in DOMAIN run \ {pl} : run'[y] = run[y]
BY DEF RunType

LEMMA MarkFacts ==
  ASSUME RunType, NEW pl \in DOMAIN run, NEW ph \in Phases, Mark(pl, ph)
  PROVE  /\ RunType' /\ DOMAIN run' = DOMAIN run /\ \A y \in DOMAIN run \ {pl} : run'[y] = run[y]
         /\ run'[pl].phases = run[pl].phases \cup {ph} /\ run'[pl].sent = run[pl].sent
         /\ run'[pl].prev = run[pl].prev /\ run'[pl].stage = run[pl].stage
<1>1. PICK x \in Runs : x = run[pl]
  BY DEF RunType
<1>2. PICK y \in Runs : y = [x EXCEPT !.phases = @ \cup {ph}]
  BY Zenon DEF Runs
<1>3. /\ y.phases = x.phases \cup {ph} /\ y.sent = x.sent /\ y.prev = x.prev /\ y.stage = x.stage
  BY <1>2 DEF Runs
<1>4. run' = [run EXCEPT ![pl] = y]
  BY <1>1, <1>2, Zenon DEF Mark
<1> QED
  BY <1>1, <1>3, <1>4, WriteFacts, Zenon

LEMMA SendFacts ==
  ASSUME RunType, NEW pl \in DOMAIN run, NEW e \in Effects, Send(pl, e)
  PROVE  /\ RunType' /\ DOMAIN run' = DOMAIN run /\ \A y \in DOMAIN run \ {pl} : run'[y] = run[y]
         /\ run'[pl].sent[e] = run[pl].sent[e] + 1
         /\ \A f \in Effects \ {e} : run'[pl].sent[f] = run[pl].sent[f]
         /\ run'[pl].phases = run[pl].phases
         /\ run'[pl].prev = run[pl].prev /\ run'[pl].stage = run[pl].stage
<1>1. PICK x \in Runs : x = run[pl]
  BY Zenon DEF RunType
<1>11. x.sent \in [Effects -> Nat]
  BY Zenon DEF Runs
<1>12. PICK z \in [Effects -> Nat] : z = [x.sent EXCEPT ![e] = @ + 1]
  <2>1. x.sent[e] + 1 \in Nat
    BY <1>11
  <2>2. [x.sent EXCEPT ![e] = x.sent[e] + 1] \in [Effects -> Nat]
    BY <1>11, <2>1, Zenon
  <2> QED
    BY <2>2, Zenon
<1>2. z[e] = x.sent[e] + 1 /\ \A f \in Effects \ {e} : z[f] = x.sent[f]
  BY <1>11, <1>12, Zenon
<1>3. PICK y \in Runs : y = [x EXCEPT !.sent = z]
  BY Zenon DEF Runs
<1>4. /\ y.phases = x.phases /\ y.sent = z /\ y.prev = x.prev /\ y.stage = x.stage
  BY <1>3, Zenon DEF Runs
<1>5. run' = [run EXCEPT ![pl] = y]
  BY <1>1, <1>12, <1>3, Zenon DEF Send
<1> QED
  BY <1>1, <1>2, <1>4, <1>5, WriteFacts, Zenon

-----------------------------------------------------------------------------
(* The initial state, and the steps that write neither the store nor a run. *)

LEMMA SetupInitIsSound == SetupInit => SetupIInv
<1> SUFFICES ASSUME SetupInit PROVE SetupIInv
  OBVIOUS
<1>1. DOMAIN run = {} /\ store = None /\ \A p \in Procs : proc[p] = Idle
  BY DEF SetupInit
<1>2. RunType /\ StoreType
  BY <1>1 DEF SetupInit, RunType, StoreType
<1>3. ProcType
  BY IdleIsCommand, Zenon DEF SetupInit, ProcType
<1>4. LockType
  BY Zenon DEF SetupInit, LockType
<1>5. PlainType
  <2>1. reg \in 0..MaxReg /\ clock \in 0..MaxTime /\ native \in Nat /\ svc.reg \in 0..MaxReg
    BY SetupAssumption DEF SetupInit
  <2>2. recv \in [v1 : Nat, v2 : Nat \cup {None}]
    BY Zenon DEF SetupInit
  <2>3. job \in [Labels -> Holders] /\ listener \in [Labels -> Holders] /\ token \in Plans \cup {None}
    BY Zenon DEF SetupInit, Holders
  <2>4. SvcType(svc)
    BY <2>1, Zenon DEF SetupInit, SvcType
  <2> QED
    BY <2>1, <2>2, <2>3, <2>4, Zenon DEF PlainType
<1>6. ASSUME NEW l \in Labels PROVE PlaceOK(l, job[l]) /\ PlaceOK(l, listener[l])
  BY SetupAssumption, Zenon DEF SetupInit, PlaceOK
<1>7. ASSUME NEW p \in Procs PROVE CommandOK(p, proc[p].pc, proc[p].plan)
  BY <1>1, IdleIsCommand, FreeIsOK, Zenon
<1> QED
  BY <1>1, <1>2, <1>3, <1>4, <1>5, <1>6, <1>7, Zenon DEF SetupIInv, SetupTypeOK, StoreOK

LEMMA QuietGrows ==
  ASSUME SetupIInv, UNCHANGED <<native, recv, run, store, job>>
  PROVE  Grows
<1>1. native \in Nat
  BY Zenon DEF SetupIInv, SetupTypeOK, PlainType
<1> QED
  BY <1>1 DEF Grows

LEMMA QuietKeeps ==
  ASSUME SetupIInv, SetupTypeOK', UNCHANGED <<native, recv, run, store, proofs, job>>,
         \A l \in Labels : listener'[l] \in {listener[l], job[l], None, Unclaimed},
         \A q \in Procs :
             \/ CommandOK(q, proc[q].pc, proc[q].plan)'
             \/ /\ proc'[q] = proc[q]
                /\ \A l \in {"launch", "setup", "install"} : lock[l] = q => lock'[l] = q
  PROVE  SetupIInv'
<1>1. Grows
  BY QuietGrows, Zenon
<1>2. \A pl \in DOMAIN run : RunKept(pl)
  BY Zenon DEF RunKept
<1>3. ASSUME NEW q \in Procs
      PROVE  CommandOK(q, proc[q].pc, proc[q].plan)' \/ CommandKept(q)
  <2>1. CommandOK(q, proc[q].pc, proc[q].plan)
    BY Zenon DEF SetupIInv
  <2>2. proc[q].pc \in InstallPcs => RunKept(proc[q].plan)
    BY <1>2, <2>1, Zenon DEF CommandOK, Reviewed
  <2>3. proc[q].pc \in {"agent", "job"} => job'["service"] = None
    BY <2>1, Zenon DEF CommandOK
  <2> QED
    BY <2>2, <2>3, Zenon DEF CommandKept
<1>4. ASSUME NEW l \in Labels
      PROVE  PlaceOK(l, listener[l])' \/ listener'[l] \in {listener[l], job[l]}
  <2>1. listener'[l] \in {None, Unclaimed} => PlaceOK(l, listener[l])'
    BY SetupAssumption, Zenon DEF PlaceOK
  <2> QED
    BY <2>1, Zenon
<1>5. \A pl \in DOMAIN run' : RunOK(pl)' \/ RunKept(pl)
  BY <1>2, Zenon
<1> QED
  BY <1>1, <1>3, <1>4, <1>5, StepIsSound, Zenon

LEMMA QuietCommand ==
  ASSUME SetupIInv, NEW p \in Procs, ProcType', LockType', PlainType',
         UNCHANGED <<native, recv, run, store, proofs, job>>,
         \A l \in Labels : listener'[l] \in {listener[l], job[l], None, Unclaimed},
         \A q \in Procs \ {p} : proc'[q] = proc[q],
         \A q \in Procs \ {p}, l \in {"launch", "setup", "install"} : lock[l] = q => lock'[l] = q,
         CommandOK(p, proc[p].pc, proc[p].plan)'
  PROVE  SetupIInv'
<1>1. RunType' /\ StoreType'
  BY Zenon DEF SetupIInv, SetupTypeOK, RunType, StoreType
<1>2. SetupTypeOK'
  BY <1>1, Zenon DEF SetupTypeOK
<1> QED
  BY <1>2, QuietKeeps, Zenon

LEMMA StopKeeps == ASSUME SetupIInv, NEW p \in Procs, Stop(p) PROVE SetupIInv'
<1>1. SetupTypeOK
  BY Zenon DEF SetupIInv
<1>2. /\ ProcType' /\ \A q \in Procs \ {p} : proc'[q] = proc[q]
      /\ CommandOK(p, proc[p].pc, proc[p].plan)'
  BY <1>1, FinishFacts, Zenon DEF Stop, SetupTypeOK
<1>3. /\ LockType'
      /\ \A q \in Procs \ {p}, m \in {"launch", "setup", "install"} : lock[m] = q => lock'[m] = q
  BY <1>1, ReleasedFacts, Zenon DEF Stop, SetupTypeOK
<1>4. PlainType' /\ UNCHANGED <<native, recv, run, store, proofs, job, listener>>
  BY <1>1, Zenon DEF Stop, SetupTypeOK, PlainType, authority, hosted, owned
<1> QED
  BY <1>2, <1>3, <1>4, QuietCommand, Zenon

LEMMA RebootKeeps == ASSUME SetupIInv, Reboot PROVE SetupIInv'
<1>1. SetupTypeOK
  BY Zenon DEF SetupIInv
<1>2. ProcType' /\ \A q \in Procs : proc'[q] = Idle
  BY IdleIsCommand, Zenon DEF Reboot, ProcType
<1>3. \A q \in Procs : CommandOK(q, proc[q].pc, proc[q].plan)'
  BY <1>2, IdleIsCommand, FreeIsOK, Zenon
<1>4. LockType' /\ RunType' /\ StoreType' /\ PlainType'
  BY <1>1, Zenon DEF Reboot, SetupTypeOK, LockType, RunType, StoreType, PlainType, authority, owned
<1>5. UNCHANGED <<native, recv, run, store, proofs, job>> /\ \A l \in Labels : listener'[l] = job[l]
  BY Zenon DEF Reboot, authority, owned
<1>6. SetupTypeOK'
  BY <1>2, <1>4, Zenon DEF SetupTypeOK
<1> QED
  BY <1>3, <1>5, <1>6, QuietKeeps, Zenon

\* No command takes a step.
LEMMA OutsideKeeps ==
  ASSUME SetupIInv, Tick \/ Register \/ \E l \in Labels : ListenerExits(l)
  PROVE  SetupIInv'
<1>1. SetupTypeOK
  BY Zenon DEF SetupIInv
<1>2. UNCHANGED <<native, recv, run, store, proofs, job, lock, proc, svc, token>>
  BY Zenon DEF Tick, Register, ListenerExits, authority, owned, hosted
<1>3. /\ listener' \in [Labels -> Holders] /\ \A l \in Labels : listener'[l] \in {listener[l], None}
      /\ reg' \in 0..MaxReg /\ clock' \in 0..MaxTime
  BY <1>1, SetupAssumption DEF Tick, Register, ListenerExits, hosted, SetupTypeOK, PlainType, Holders
<1>4. ProcType' /\ LockType' /\ RunType' /\ StoreType'
  BY <1>1, <1>2, Zenon DEF SetupTypeOK, ProcType, LockType, RunType, StoreType
<1>5. PlainType'
  BY <1>1, <1>2, <1>3, Zenon DEF SetupTypeOK, PlainType
<1>6. SetupTypeOK'
  BY <1>4, <1>5, Zenon DEF SetupTypeOK
<1> QED
  BY <1>2, <1>3, <1>6, QuietKeeps, Zenon

LEMMA PrepareServiceKeeps == ASSUME SetupIInv, NEW p \in Procs, PrepareService(p) PROVE SetupIInv'
<1>1. SetupTypeOK
  BY DEF SetupIInv
<1>2. /\ ProcType' /\ \A q \in Procs \ {p} : proc'[q] = proc[q]
      /\ proc'[p].pc = "review"
  <2>1. "review" \in Pcs /\ None \in Plans \cup {None} /\ ProcType /\ clock \in 0..MaxTime
    BY <1>1, Zenon DEF Pcs, SetupTypeOK, PlainType
  <2>2. Begin(p, "review", None, None)
    BY Zenon DEF PrepareService
  <2> QED
    BY <2>1, <2>2, BeginFacts, Zenon
<1>3. CommandOK(p, proc[p].pc, proc[p].plan)'
  BY <1>2, FreeIsOK, Zenon
<1>4. UNCHANGED <<native, recv, run, store, proofs, job, lock, listener, token, reg, clock>>
  BY Zenon DEF PrepareService, authority, owned
<1>5. SvcType(svc')
  BY <1>1, Zenon DEF PrepareService, SetupTypeOK, PlainType, SvcType
<1>6. PlainType' /\ LockType'
  BY <1>1, <1>4, <1>5, Zenon DEF SetupTypeOK, PlainType, LockType, SvcType
<1> QED
  BY <1>2, <1>3, <1>4, <1>6, QuietCommand, Zenon

LEMMA ReviewServiceKeeps == ASSUME SetupIInv, NEW p \in Procs, ReviewService(p) PROVE SetupIInv'
<1>1. SetupTypeOK
  BY DEF SetupIInv
<1>2. /\ ProcType' /\ \A q \in Procs \ {p} : proc'[q] = proc[q]
      /\ CommandOK(p, proc[p].pc, proc[p].plan)'
  BY <1>1, FinishFacts, Zenon DEF ReviewService, SetupTypeOK
<1>4. UNCHANGED <<native, recv, run, store, proofs, job, lock, listener, token, reg, clock>>
  BY Zenon DEF ReviewService, authority, owned
<1>5. SvcType(svc')
  BY <1>1, Zenon DEF ReviewService, SetupTypeOK, PlainType, SvcType
<1>6. PlainType' /\ LockType'
  BY <1>1, <1>4, <1>5 DEF SetupTypeOK, PlainType, LockType, SvcType
<1> QED
  BY <1>2, <1>4, <1>6, QuietCommand, Zenon

LEMMA LaunchChecksKeeps == ASSUME SetupIInv, NEW p \in Procs, LaunchChecks(p) PROVE SetupIInv'
<1>1. SetupTypeOK
  BY DEF SetupIInv
<1>2. /\ ProcType' /\ \A q \in Procs \ {p} : proc'[q] = proc[q]
      /\ proc'[p].pc = "agent"
  <2>1. "agent" \in Pcs /\ None \in Plans \cup {None} /\ ProcType /\ clock \in 0..MaxTime
    BY <1>1, Zenon DEF Pcs, LaunchPcs, SetupTypeOK, PlainType
  <2>2. Begin(p, "agent", None, None)
    BY Zenon DEF LaunchChecks
  <2> QED
    BY <2>1, <2>2, BeginFacts, Zenon
<1>3. /\ LockType' /\ lock'["launch"] = p
      /\ \A q \in Procs, m \in {"launch", "setup", "install"} : lock[m] = q => lock'[m] = q
  BY <1>1, LockedFacts, Zenon DEF LaunchChecks, SetupTypeOK
<1>4. /\ UNCHANGED <<native, recv, run, store, proofs, job, listener, token, reg, clock, svc>>
      /\ job["service"] = None
  BY Zenon DEF LaunchChecks, authority, owned, hosted
<1>5. CommandOK(p, proc[p].pc, proc[p].plan)'
  <2>1. "agent" \in LaunchPcs
    BY Zenon DEF LaunchPcs
  <2> QED
    BY <1>2, <1>3, <1>4, <2>1, LaunchIsOK, Zenon
<1>6. PlainType'
  BY <1>1, <1>4, Zenon DEF SetupTypeOK, PlainType
<1> QED
  BY <1>2, <1>3, <1>4, <1>5, <1>6, QuietCommand, Zenon

\* The launch goes on to its next place under its lock.
LEMMA LaunchGoes ==
  ASSUME SetupIInv, NEW p \in Procs, proc[p].pc \in LaunchPcs, NEW pc \in LaunchPcs, Goto(p, pc),
         lock' = lock, pc \in {"agent", "job"} => job'["service"] = None
  PROVE  /\ ProcType' /\ LockType' /\ \A q \in Procs \ {p} : proc'[q] = proc[q]
         /\ CommandOK(p, proc[p].pc, proc[p].plan)'
<1>1. ProcType /\ LockType /\ pc \in Pcs
  BY Zenon DEF SetupIInv, SetupTypeOK, Pcs
<1>2. lock["launch"] = p
  BY Zenon DEF SetupIInv, CommandOK
<1>3. /\ ProcType' /\ \A q \in Procs \ {p} : proc'[q] = proc[q]
      /\ proc'[p].pc = pc
  BY <1>1, GotoFacts, Zenon
<1>4. LockType'
  BY <1>1, Zenon DEF LockType
<1> QED
  BY <1>2, <1>3, <1>4, LaunchIsOK, Zenon

LEMMA LaunchStepKeeps == ASSUME SetupIInv, NEW p \in Procs, LaunchStep(p) PROVE SetupIInv'
<1>1. SetupTypeOK
  BY DEF SetupIInv
<1>2. /\ UNCHANGED <<native, recv, run, store, proofs, token, reg, clock>>
      /\ {"agent", "job", "mark", "boot", "probe"} = LaunchPcs
  BY Zenon DEF LaunchStep, authority, owned, LaunchPcs
<1>3. CASE At(p, "agent") /\ svc' = [svc EXCEPT !.agent = TRUE] /\ Goto(p, "job") /\ UNCHANGED <<job, listener, lock>>
  <2>1. job["service"] = None
    BY <1>3, Zenon DEF SetupIInv, CommandOK, At
  <2>2. SvcType(svc')
    BY <1>1, <1>3, Zenon DEF SetupTypeOK, PlainType, SvcType
  <2>3. PlainType'
    BY <1>1, <1>2, <1>3, <2>2, Zenon DEF SetupTypeOK, PlainType
  <2> QED
    BY <1>2, <1>3, <2>1, <2>3, LaunchGoes, QuietCommand, Zenon DEF At
<1>4. CASE At(p, "job") /\ job' = [job EXCEPT !["service"] = Unclaimed] /\ Goto(p, "mark") /\ UNCHANGED <<svc, listener, lock>>
  <2>1. job["service"] = None /\ proc[p].pc = "job" /\ "job" \in LaunchPcs /\ "mark" \in LaunchPcs
    BY <1>4, Zenon DEF SetupIInv, CommandOK, At, LaunchPcs
  <2>2. /\ job' \in [Labels -> Holders] /\ job'["service"] = Unclaimed
        /\ \A l \in Labels \ {"service"} : job'[l] = job[l]
    BY <1>1, <1>4, Zenon DEF SetupTypeOK, PlainType, Holders, Labels
  <2>3. /\ ProcType' /\ LockType' /\ \A q \in Procs \ {p} : proc'[q] = proc[q]
        /\ CommandOK(p, proc[p].pc, proc[p].plan)'
    BY <1>4, <2>1, LaunchGoes, Zenon
  <2>4. SetupTypeOK'
    BY <1>1, <1>2, <1>4, <2>2, <2>3, Zenon DEF SetupTypeOK, PlainType, RunType, StoreType
  <2>5. \A l \in Labels : job[l] \in Plans => job'[l] = job[l]
    BY <2>1, <2>2, SetupAssumption, Zenon
  <2>6. Grows
    BY <1>1, <1>2, <2>5 DEF Grows, SetupTypeOK, PlainType
  <2>7. \A l \in Labels : PlaceOK(l, job[l])' \/ job'[l] = job[l]
    BY <2>2, SetupAssumption, Zenon DEF PlaceOK
  <2>8. \A pl \in DOMAIN run : RunKept(pl)
    BY <1>2, Zenon DEF RunKept
  <2>9. ASSUME NEW q \in Procs \ {p} PROVE CommandKept(q)
    <3>1. proc[q].pc \notin {"agent", "job"}
      BY <2>1, Alone, Zenon DEF LaunchPcs
    <3>2. proc[q].pc \in InstallPcs => RunKept(proc[q].plan)
      BY <2>8, Zenon DEF SetupIInv, CommandOK, Reviewed
    <3> QED
      BY <1>4, <2>3, <3>1, <3>2, Zenon DEF CommandKept
  <2>10. \A q \in Procs : CommandOK(q, proc[q].pc, proc[q].plan)' \/ CommandKept(q)
    BY <2>3, <2>9, Zenon
  <2>11. /\ \A pl \in DOMAIN run' : RunOK(pl)' \/ RunKept(pl)
         /\ \A l \in Labels : listener'[l] \in {listener[l], job[l]}
    BY <1>2, <1>4, <2>8, Zenon
  <2> QED
    BY <1>2, <2>4, <2>6, <2>7, <2>10, <2>11, StepIsSound, Zenon
<1>5. CASE At(p, "mark") /\ svc' = [svc EXCEPT !.dispatched = TRUE] /\ Goto(p, "boot") /\ UNCHANGED <<job, listener, lock>>
  <2>2. SvcType(svc')
    BY <1>1, <1>5, Zenon DEF SetupTypeOK, PlainType, SvcType
  <2>3. PlainType'
    BY <1>1, <1>2, <1>5, <2>2, Zenon DEF SetupTypeOK, PlainType
  <2> QED
    BY <1>2, <1>5, <2>3, LaunchGoes, QuietCommand, Zenon DEF At
<1>6. CASE At(p, "boot") /\ listener' = [listener EXCEPT !["service"] = Unclaimed] /\ Goto(p, "probe") /\ UNCHANGED <<svc, job, lock>>
  <2>2. /\ listener' \in [Labels -> Holders]
        /\ \A l \in Labels : listener'[l] \in {listener[l], Unclaimed}
    BY <1>1, <1>6, Zenon DEF SetupTypeOK, PlainType, Holders, Labels
  <2>3. PlainType'
    BY <1>1, <1>2, <1>6, <2>2, Zenon DEF SetupTypeOK, PlainType
  <2> QED
    BY <1>2, <1>6, <2>2, <2>3, LaunchGoes, QuietCommand, Zenon DEF At
<1>7. CASE At(p, "probe") /\ svc' = [svc EXCEPT !.running = TRUE] /\ Finish(p) /\ Released(p) /\ UNCHANGED <<job, listener>>
  <2>2. SvcType(svc')
    BY <1>1, <1>7, Zenon DEF SetupTypeOK, PlainType, SvcType
  <2>3. PlainType' /\ ProcType /\ LockType
    BY <1>1, <1>2, <1>7, <2>2, Zenon DEF SetupTypeOK, PlainType
  <2>4. /\ ProcType' /\ \A q \in Procs \ {p} : proc'[q] = proc[q]
        /\ CommandOK(p, proc[p].pc, proc[p].plan)'
    BY <1>7, <2>3, FinishFacts, Zenon
  <2>5. /\ LockType'
        /\ \A q \in Procs \ {p}, m \in {"launch", "setup", "install"} : lock[m] = q => lock'[m] = q
    BY <1>7, <2>3, ReleasedFacts, Zenon
  <2> QED
    BY <1>2, <1>7, <2>3, <2>4, <2>5, QuietCommand, Zenon
<1> QED
  BY <1>3, <1>4, <1>5, <1>6, <1>7, Zenon DEF LaunchStep

LEMMA SaveOwnerPlanKeeps ==
  ASSUME SetupIInv, NEW p \in Procs, NEW o \in Owners, SaveOwnerPlan(p, o)
  PROVE  SetupIInv'
<1>1. SetupTypeOK
  BY Zenon DEF SetupIInv
<1>2. PICK pl \in Plans : pl = [owner |-> o, reg |-> svc.reg, existing |-> TRUE]
  BY <1>1, Zenon DEF SetupTypeOK, PlainType, SvcType, Plans
<1>3. /\ ProcType' /\ \A q \in Procs \ {p} : proc'[q] = proc[q]
      /\ proc'[p].pc = "stage" /\ proc'[p].plan = pl
  <2>1. "stage" \in Pcs /\ ProcType /\ clock \in 0..MaxTime
    BY <1>1, Zenon DEF Pcs, SetupTypeOK, PlainType
  <2>2. Begin(p, "stage", pl, None)
    BY <1>2, Zenon DEF SaveOwnerPlan
  <2> QED
    BY <2>1, <2>2, BeginFacts, ZenonT(40)
<1>4. UNCHANGED <<native, recv, run, store, proofs, job, lock, listener, token, reg, clock, svc>>
  BY Zenon DEF SaveOwnerPlan, authority, owned
<1>5. CommandOK(p, proc[p].pc, proc[p].plan)'
  BY <1>3, StagingIsOK, Zenon
<1>6. PlainType' /\ LockType'
  BY <1>1, <1>4, Zenon DEF SetupTypeOK, PlainType, LockType
<1> QED
  BY <1>3, <1>4, <1>5, <1>6, QuietCommand, Zenon

\* A claim command goes on to its next place under its lock.
LEMMA ClaimGoes ==
  ASSUME SetupIInv, Grows, NEW p \in Procs, proc[p].pc \in SetupPcs, NEW pc \in SetupPcs,
         proc'[p].pc = pc, proc'[p].plan = proc[p].plan, lock' = lock,
         pc \in {"handle", "arm", "claim"} => store' # None
  PROVE  CommandOK(p, proc[p].pc, proc[p].plan)'
<1>1. lock'["setup"] = p /\ Reviewed(proc[p].plan)
  BY Zenon DEF SetupIInv, CommandOK
<1>2. PICK pl : pl = proc[p].plan
  OBVIOUS
<1>3. Reviewed(pl)'
  BY <1>1, <1>2, ReviewedStays, Zenon
<1>4. CommandOK(p, pc, pl)'
  BY <1>1, <1>3, SetupIsOK, Zenon
<1> QED
  BY <1>2, <1>4, Zenon

LEMMA TakeHandleKeeps == ASSUME SetupIInv, NEW p \in Procs, TakeHandle(p) PROVE SetupIInv'
<1>1. SetupTypeOK /\ proc[p].pc = "handle" /\ proc[p].pc \in SetupPcs
  BY Zenon DEF SetupIInv, TakeHandle, At, SetupPcs
<1>2. store # None /\ Reviewed(proc[p].plan)
  BY <1>1, Zenon DEF SetupIInv, CommandOK
<1>3. PICK pc \in {"arm", "claim"} : Goto(p, pc)
  BY Zenon DEF TakeHandle
<1>4. pc \in SetupPcs /\ pc \in Pcs
  BY Zenon DEF SetupPcs, Pcs
<1>5. /\ ProcType' /\ \A q \in Procs \ {p} : proc'[q] = proc[q]
      /\ proc'[p].pc = pc /\ proc'[p].plan = proc[p].plan
  BY <1>1, <1>3, <1>4, GotoFacts, Zenon DEF SetupTypeOK
<1>6. UNCHANGED <<native, recv, run, store, proofs, job, lock, listener, reg, clock, svc>>
  BY Zenon DEF TakeHandle, authority, hosted
<1>7. token' \in Plans \cup {None}
  <2>1. proc[p].plan \in Plans
    BY <1>1, <1>2, Zenon DEF Reviewed, SetupTypeOK, RunType
  <2> QED
    BY <1>1, <2>1, Zenon DEF TakeHandle, SetupTypeOK, PlainType
<1>8. Grows
  BY <1>6, QuietGrows, Zenon
<1>9. CommandOK(p, proc[p].pc, proc[p].plan)'
  BY <1>1, <1>2, <1>4, <1>5, <1>6, <1>8, ClaimGoes, Zenon
<1>10. PlainType' /\ LockType'
  BY <1>1, <1>6, <1>7, Zenon DEF SetupTypeOK, PlainType, LockType
<1> QED
  BY <1>5, <1>6, <1>9, <1>10, QuietCommand, Zenon

LEMMA BeginCompleteKeeps ==
  ASSUME SetupIInv, NEW p \in Procs, NEW pl \in DOMAIN run, NEW proof \in proofs, BeginComplete(p, pl, proof)
  PROVE  SetupIInv'
<1>1. SetupTypeOK
  BY Zenon DEF SetupIInv
<1>2. pl \in Plans /\ "redeem" \in Pcs /\ "redeem" \in SetupPcs
  BY <1>1, Zenon DEF SetupTypeOK, RunType, Pcs, SetupPcs
<1>3. /\ ProcType' /\ \A q \in Procs \ {p} : proc'[q] = proc[q]
      /\ proc'[p].pc = "redeem" /\ proc'[p].plan = pl
  <2>1. ProcType /\ clock \in 0..MaxTime
    BY <1>1, Zenon DEF SetupTypeOK, PlainType
  <2>2. PICK z : z = proof
    OBVIOUS
  <2>3. Begin(p, "redeem", pl, z)
    BY <2>2, Zenon DEF BeginComplete
  <2> QED
    BY <1>2, <2>1, <2>3, BeginFacts, Zenon
<1>4. /\ LockType' /\ lock'["setup"] = p
      /\ \A q \in Procs, m \in {"launch", "setup", "install"} : lock[m] = q => lock'[m] = q
  BY <1>1, LockedFacts, Zenon DEF BeginComplete, SetupTypeOK
<1>5. UNCHANGED <<native, recv, run, store, proofs, job, listener, token, reg, clock, svc>>
  BY Zenon DEF BeginComplete, authority, owned, hosted
<1>6. Reviewed(pl)'
  BY <1>5, Zenon DEF BeginComplete, Reviewed
<1>7. CommandOK(p, proc[p].pc, proc[p].plan)'
  <2>1. PICK x : x = pl
    OBVIOUS
  <2>2. CommandOK(p, "redeem", x)'
    BY <1>2, <1>4, <1>6, <2>1, SetupIsOK, Zenon
  <2> QED
    BY <1>3, <2>1, <2>2, Zenon
<1>8. PlainType'
  BY <1>1, <1>5, Zenon DEF SetupTypeOK, PlainType
<1> QED
  BY <1>3, <1>4, <1>5, <1>7, <1>8, QuietCommand, Zenon

LEMMA UnlinkKeeps == ASSUME SetupIInv, NEW p \in Procs, Unlink(p) PROVE SetupIInv'
<1>1. SetupTypeOK
  BY DEF SetupIInv
<1>2. /\ ProcType' /\ \A q \in Procs \ {p} : proc'[q] = proc[q]
      /\ CommandOK(p, proc[p].pc, proc[p].plan)'
  BY <1>1, FinishFacts, Zenon DEF Unlink, SetupTypeOK
<1>3. /\ LockType'
      /\ \A q \in Procs \ {p}, m \in {"launch", "setup", "install"} : lock[m] = q => lock'[m] = q
  BY <1>1, ReleasedFacts, Zenon DEF Unlink, SetupTypeOK
<1>4. /\ UNCHANGED <<native, recv, run, store, proofs, job, listener, reg, clock, svc>>
      /\ token' = None
  BY Zenon DEF Unlink, authority, hosted
<1>5. PlainType'
  BY <1>1, <1>4, Zenon DEF SetupTypeOK, PlainType
<1> QED
  BY <1>2, <1>3, <1>4, <1>5, QuietCommand, Zenon

LEMMA ActivateChecksKeeps ==
  ASSUME SetupIInv, NEW p \in Procs, NEW pl \in DOMAIN run, ActivateChecks(p, pl)
  PROVE  SetupIInv'
<1>1. SetupTypeOK
  BY Zenon DEF SetupIInv
<1>2. pl \in Plans /\ "prior" \in Pcs /\ "prior" \in InstallPcs
  BY <1>1, Zenon DEF SetupTypeOK, RunType, Pcs, InstallPcs
<1>3. /\ ProcType' /\ \A q \in Procs \ {p} : proc'[q] = proc[q]
      /\ proc'[p].pc = "prior" /\ proc'[p].plan = pl
  <2>1. ProcType /\ clock \in 0..MaxTime
    BY <1>1, Zenon DEF SetupTypeOK, PlainType
  <2>3. Begin(p, "prior", pl, None)
    BY Zenon DEF ActivateChecks
  <2> QED
    BY <1>2, <2>1, <2>3, BeginFacts, ZenonT(40)
<1>4. /\ LockType' /\ lock'["install"] = p
      /\ \A q \in Procs, m \in {"launch", "setup", "install"} : lock[m] = q => lock'[m] = q
  BY <1>1, LockedFacts, Zenon DEF ActivateChecks, SetupTypeOK
<1>5. UNCHANGED <<native, recv, run, store, proofs, job, listener, token, reg, clock, svc>>
  BY Zenon DEF ActivateChecks, authority, owned, hosted
<1>6. Reviewed(pl) /\ OwnerOf(pl) /\ ~Marked(pl, "started") /\ RunOK(pl)
  BY Zenon DEF ActivateChecks, SetupIInv
<1>7. CommandOK(p, proc[p].pc, proc[p].plan)'
  <2>1. PICK x : x = pl
    OBVIOUS
  <2>2. Grows
    BY <1>5, QuietGrows, Zenon
  <2>3. Reviewed(x)' /\ OwnerOf(x)'
    BY <1>6, <2>1, <2>2, ReviewedStays, OwnerStays, Zenon
  <2>4. /\ ~Marked(x, "started")' /\ run'[x].sent["bootout"] = 0 /\ run'[x].sent["bootstrap"] = 0
    BY <1>5, <1>6, <2>1, Zenon DEF RunOK, Marked, Effects
  <2>5. "prior" \notin Starting
    BY Zenon DEF Starting, Provisioned, Bound2, Verifying, Cutting, Dispatching
  <2>6. "prior" \notin Provisioned /\ "prior" \notin Bound2 /\ "prior" \notin Verifying
    BY <2>5, Zenon DEF Starting, Provisioned, Bound2
  <2>7. "prior" \notin Cutting /\ "prior" \notin Dispatching
    BY <2>6, Zenon DEF Verifying, Cutting
  <2>8. CommandOK(p, "prior", x)'
    BY <1>2, <1>4, <2>3, <2>4, <2>5, <2>6, <2>7, InstallIsOK, Zenon
  <2> QED
    BY <1>3, <2>1, <2>8, Zenon
<1>8. PlainType'
  BY <1>1, <1>5, Zenon DEF SetupTypeOK, PlainType
<1> QED
  BY <1>3, <1>4, <1>5, <1>7, <1>8, QuietCommand, Zenon

-----------------------------------------------------------------------------
(* The steps of a claim that write the store.                               *)

LEMMA StoreStep ==
  ASSUME SetupIInv, NEW p \in Procs, Grows, ProcType', LockType', PlainType', StoreType', StoreOK',
         UNCHANGED <<native, recv, run, job, listener>>,
         \A q \in Procs \ {p} : proc'[q] = proc[q],
         \A q \in Procs \ {p}, l \in {"launch", "setup", "install"} : lock[l] = q => lock'[l] = q,
         CommandOK(p, proc[p].pc, proc[p].plan)'
  PROVE  SetupIInv'
<1>1. RunType' /\ \A pl \in DOMAIN run : RunKept(pl)
  BY Zenon DEF SetupIInv, SetupTypeOK, RunType, RunKept
<1>2. SetupTypeOK'
  BY <1>1, Zenon DEF SetupTypeOK
<1>3. ASSUME NEW q \in Procs \ {p} PROVE CommandKept(q)
  <2>1. CommandOK(q, proc[q].pc, proc[q].plan)
    BY Zenon DEF SetupIInv
  <2>2. proc[q].pc \in InstallPcs => RunKept(proc[q].plan)
    BY <1>1, <2>1, Zenon DEF CommandOK, Reviewed
  <2>3. proc[q].pc \in {"agent", "job"} => job'["service"] = None
    BY <2>1, Zenon DEF CommandOK
  <2> QED
    BY <2>2, <2>3, Zenon DEF CommandKept
<1>4. \A q \in Procs : CommandOK(q, proc[q].pc, proc[q].plan)' \/ CommandKept(q)
  BY <1>3, Zenon
<1>5. \A pl \in DOMAIN run' : RunOK(pl)' \/ RunKept(pl)
  BY <1>1, Zenon
<1> QED
  BY <1>2, <1>4, <1>5, StepIsSound, Zenon

LEMMA StoreGrows ==
  ASSUME SetupIInv, UNCHANGED <<native, recv, run, job>>, store # None => store' # None,
         store # None /\ store.state = "active" => store' = store
  PROVE  Grows
<1>1. native \in Nat
  BY Zenon DEF SetupIInv, SetupTypeOK, PlainType
<1> QED
  BY <1>1 DEF Grows

LEMMA NewStoreFacts ==
  ASSUME NEW pl \in Plans
  PROVE  /\ NewStore(pl) \in Stores /\ NewStore(pl).state = "uninitialized"
         /\ NewStore(pl).deadline = 0 /\ NewStore(pl).proof = None
<1>1. Binding(pl) \in [reg : 0..MaxReg, existing : BOOLEAN]
  BY Zenon DEF Binding, Plans
<1>2. 0 \in 0..MaxTime /\ 0 \in 0..(MaxTime + SetupSeconds)
  BY SetupAssumption
<1> QED
  BY <1>1, <1>2, Zenon DEF NewStore, Stores

LEMMA OpenClaimKeeps ==
  ASSUME SetupIInv, NEW p \in Procs, NEW pl \in DOMAIN run, NEW refresh \in BOOLEAN, OpenClaim(p, pl, refresh)
  PROVE  SetupIInv'
<1>1. SetupTypeOK
  BY Zenon DEF SetupIInv
<1>2. pl \in Plans /\ "handle" \in Pcs /\ "handle" \in SetupPcs
  BY <1>1, Zenon DEF SetupTypeOK, RunType, Pcs, SetupPcs
<1>3. /\ ProcType' /\ \A q \in Procs \ {p} : proc'[q] = proc[q]
      /\ proc'[p].pc = "handle" /\ proc'[p].plan = pl
  <2>1. ProcType /\ clock \in 0..MaxTime
    BY <1>1, Zenon DEF SetupTypeOK, PlainType
  <2>2. Begin(p, "handle", pl, refresh)
    BY Zenon DEF OpenClaim
  <2> QED
    BY <1>2, <2>1, <2>2, BeginFacts, ZenonT(40)
<1>4. /\ LockType' /\ lock'["setup"] = p
      /\ \A q \in Procs, m \in {"launch", "setup", "install"} : lock[m] = q => lock'[m] = q
  BY <1>1, LockedFacts, Zenon DEF OpenClaim, SetupTypeOK
<1>5. /\ UNCHANGED <<native, recv, run, proofs, job, listener, token, reg, clock, svc>>
      /\ store = None => store' = NewStore(pl)
      /\ store # None => store' = store
  BY Zenon DEF OpenClaim, authority, hosted
<1>6. store' \in Stores /\ store' # None
  <2>1. None \notin Stores
    BY NoneAssumption, Zenon
  <2> QED
    BY <1>1, <1>2, <1>5, <2>1, NewStoreFacts, Zenon DEF SetupTypeOK, StoreType
<1>7. StoreType' /\ PlainType'
  BY <1>1, <1>5, <1>6, Zenon DEF SetupTypeOK, StoreType, PlainType
<1>8. Grows
  BY <1>5, <1>6, StoreGrows, Zenon
<1>9. StoreOK'
  <2>1. CASE store = None
    BY <1>2, <1>5, <2>1, NewStoreFacts, Zenon DEF StoreOK
  <2>2. CASE store # None
    BY <1>5, <1>8, <2>2, StoreStays, Zenon DEF SetupIInv
  <2> QED
    BY <2>1, <2>2, Zenon
<1>10. CommandOK(p, proc[p].pc, proc[p].plan)'
  <2>1. PICK x : x = pl
    OBVIOUS
  <2>2. Reviewed(x)'
    BY <1>8, <2>1, ReviewedStays, Zenon DEF OpenClaim
  <2>3. CommandOK(p, "handle", x)'
    BY <1>2, <1>4, <1>6, <2>2, SetupIsOK, Zenon
  <2> QED
    BY <1>3, <2>1, <2>3, Zenon
<1> QED
  BY <1>3, <1>4, <1>5, <1>7, <1>8, <1>9, <1>10, StoreStep, Zenon

LEMMA ArmKeeps == ASSUME SetupIInv, NEW p \in Procs, Arm(p) PROVE SetupIInv'
<1>1. SetupTypeOK /\ proc[p].pc = "arm" /\ proc[p].pc \in SetupPcs /\ "claim" \in SetupPcs /\ "claim" \in Pcs
  BY Zenon DEF SetupIInv, Arm, At, SetupPcs, Pcs
<1>2. store # None
  BY <1>1, Zenon DEF SetupIInv, CommandOK
<1>3. PICK st \in Stores : st = store
  BY <1>1, <1>2, Zenon DEF SetupTypeOK, StoreType
<1>4. PICK n \in 0..MaxTime : n = proc[p].now
  BY <1>1, Zenon DEF SetupTypeOK, ProcType, IsCommand
<1>5. PICK d \in 0..(MaxTime + SetupSeconds) : d = n + SetupSeconds
  BY SetupAssumption
<1>6. /\ store' = [st EXCEPT !.state = "armed", !.armed = n, !.deadline = d]
      /\ st.state = "uninitialized" /\ Goto(p, "claim")
      /\ UNCHANGED <<native, recv, run, proofs, job, listener, token, reg, clock, svc, lock>>
  BY <1>3, <1>4, <1>5, Zenon DEF Arm, authority, hosted
<1>7. PICK new \in Stores : new = [st EXCEPT !.state = "armed", !.armed = n, !.deadline = d]
  BY Zenon DEF Stores
<1>8. new.state = "armed" /\ new.proof = st.proof /\ new # None
  BY <1>7, NoneAssumption, Zenon DEF Stores
<1>9. /\ ProcType' /\ \A q \in Procs \ {p} : proc'[q] = proc[q]
      /\ proc'[p].pc = "claim" /\ proc'[p].plan = proc[p].plan
  BY <1>1, <1>6, GotoFacts, Zenon DEF SetupTypeOK
<1>10. StoreType' /\ PlainType' /\ LockType'
  BY <1>1, <1>6, <1>7, Zenon DEF SetupTypeOK, StoreType, PlainType, LockType
<1>11. Grows
  BY <1>3, <1>6, <1>7, <1>8, StoreGrows, Zenon
<1>12. StoreOK'
  <2>1. st.proof = None
    BY <1>2, <1>3, <1>6, Zenon DEF SetupIInv, StoreOK
  <2>2. store' = new
    BY <1>6, <1>7, Zenon
  <2> QED
    BY <1>8, <2>1, <2>2, Zenon DEF StoreOK
<1>13. CommandOK(p, proc[p].pc, proc[p].plan)'
  BY <1>1, <1>6, <1>7, <1>8, <1>9, <1>11, ClaimGoes, Zenon
<1> QED
  BY <1>6, <1>9, <1>10, <1>11, <1>12, <1>13, StoreStep, Zenon

\* A new challenge is one of this setup.
LEMMA ChallengeFacts ==
  ASSUME SetupIInv, NEW p \in Procs, At(p, "claim"), Authorized(p), NextNonce <= MaxNonce
  PROVE  /\ store \in Stores /\ NewChallenge(p) \in Challenge /\ NewChallenge(p).plan = proc[p].plan
         /\ store.armed <= NewChallenge(p).issued /\ NewChallenge(p).expires <= store.deadline
         /\ Reviewed(proc[p].plan) /\ lock["setup"] = p /\ store.state # "uninitialized"
<1>1. SetupTypeOK /\ proc[p].pc = "claim" /\ "claim" \in SetupPcs
  BY Zenon DEF SetupIInv, At, SetupPcs
<1>2. store # None /\ Reviewed(proc[p].plan) /\ lock["setup"] = p
  BY <1>1, Zenon DEF SetupIInv, CommandOK
<1>3. PICK st \in Stores : st = store
  BY <1>1, <1>2, Zenon DEF SetupTypeOK, StoreType
<1>4. PICK pl \in Plans : pl = proc[p].plan
  BY <1>1, <1>2, Zenon DEF Reviewed, SetupTypeOK, RunType
<1>5. PICK n \in 0..MaxTime : n = proc[p].now
  BY <1>1, Zenon DEF SetupTypeOK, ProcType, IsCommand
<1>6. PICK k \in 1..MaxNonce : k = NextNonce
  <2>1. st.chal \in Challenge \cup {None} /\ MaxNonce \in Nat
    BY SetupAssumption, Zenon DEF Stores
  <2>2. CASE st.chal = None
    BY <1>3, <2>1, <2>2 DEF NextNonce
  <2>3. CASE st.chal # None
    <3>1. st.chal.nonce \in 1..MaxNonce
      BY <2>1, <2>3, Zenon DEF Challenge
    <3> QED
      BY <1>3, <2>1, <2>3, <3>1 DEF NextNonce
  <2> QED
    BY <2>2, <2>3, Zenon
<1>7. st.deadline \in 0..(MaxTime + SetupSeconds) /\ st.armed \in 0..MaxTime
  BY Zenon DEF Stores
<1>8. PICK e \in 0..(MaxTime + SetupSeconds) : e = Earlier(n + ChallengeSeconds, st.deadline) /\ e <= st.deadline
  BY <1>7, SetupAssumption DEF Earlier
<1>9. PICK c \in Challenge : c = [plan |-> pl, nonce |-> k, issued |-> n, expires |-> e]
  BY Zenon DEF Challenge
<1>10. c.plan = pl /\ c.issued = n /\ c.expires = e
  BY <1>9, Zenon
<1>11. c = NewChallenge(p)
  BY <1>3, <1>4, <1>5, <1>6, <1>8, <1>9, Zenon DEF NewChallenge
<1>12. st.armed <= n /\ n < st.deadline
  BY <1>3, <1>5, Zenon DEF Authorized
<1>13. st.state # "uninitialized"
  <2>1. st.state = "uninitialized" => st.deadline = 0
    BY <1>2, <1>3, Zenon DEF SetupIInv, StoreOK
  <2> QED
    BY <1>12, <2>1
<1> QED
  BY <1>2, <1>3, <1>4, <1>8, <1>10, <1>11, <1>12, <1>13, Zenon

\* prepare_claim and refresh_claim store the challenge they show.
LEMMA ShowKeeps ==
  ASSUME SetupIInv, NEW p \in Procs, At(p, "claim"), Authorized(p), NextNonce <= MaxNonce,
         store.state # "active",
         store' = [store EXCEPT !.state = "prepared", !.chal = NewChallenge(p)],
         proofs' = proofs \cup {NewChallenge(p)}, Finish(p), Released(p),
         UNCHANGED <<reg, authority, hosted, run, token, clock>>
  PROVE  SetupIInv'
<1>1. SetupTypeOK
  BY Zenon DEF SetupIInv
<1>2. PICK st \in Stores, c \in Challenge :
        /\ st = store /\ c = NewChallenge(p) /\ st.armed <= c.issued /\ c.expires <= st.deadline
        /\ c.plan = proc[p].plan /\ Reviewed(c.plan)
  BY ChallengeFacts, Zenon
<1>3. PICK new \in Stores : new = [st EXCEPT !.state = "prepared", !.chal = c]
  BY Zenon DEF Stores
<1>4. /\ new.state = "prepared" /\ new.chal = c /\ new.proof = st.proof /\ new.armed = st.armed
      /\ new.deadline = st.deadline /\ new # None /\ c # None /\ st # None
  BY <1>3, NoneAssumption, Zenon DEF Stores
<1>5. store' = new /\ proofs' = proofs \cup {c}
  BY <1>2, <1>3, Zenon
<1>6. UNCHANGED <<native, recv, run, job, listener, token, reg, clock, svc>>
  BY Zenon DEF authority, hosted
<1>7. StoreType' /\ PlainType'
  BY <1>1, <1>5, <1>6, Zenon DEF SetupTypeOK, StoreType, PlainType
<1>8. Grows
  BY <1>2, <1>4, <1>5, <1>6, StoreGrows, Zenon
<1>9. StoreOK'
  <2>1. st.proof = None
    BY <1>2, <1>4, Zenon DEF SetupIInv, StoreOK
  <2>2. Reviewed(c.plan)'
    BY <1>2, <1>8, ReviewedStays, Zenon
  <2>3. Shown(c)'
    BY <1>2, <1>4, <1>5, <2>2, Zenon DEF Shown
  <2> QED
    BY <1>4, <1>5, <2>1, <2>3, Zenon DEF StoreOK
<1>10. /\ ProcType' /\ \A q \in Procs \ {p} : proc'[q] = proc[q]
       /\ CommandOK(p, proc[p].pc, proc[p].plan)'
  BY <1>1, FinishFacts, Zenon DEF SetupTypeOK
<1>11. /\ LockType'
       /\ \A q \in Procs \ {p}, m \in {"launch", "setup", "install"} : lock[m] = q => lock'[m] = q
  BY <1>1, ReleasedFacts, Zenon DEF SetupTypeOK
<1> QED
  BY <1>6, <1>7, <1>8, <1>9, <1>10, <1>11, StoreStep, Zenon

LEMMA PrepareClaimKeeps == ASSUME SetupIInv, NEW p \in Procs, PrepareClaim(p) PROVE SetupIInv'
<1>1. CASE store.state = "prepared"
  <2>1. SetupTypeOK
    BY DEF SetupIInv
  <2>2. /\ ProcType' /\ \A q \in Procs \ {p} : proc'[q] = proc[q]
        /\ CommandOK(p, proc[p].pc, proc[p].plan)'
    BY <2>1, FinishFacts, Zenon DEF PrepareClaim, SetupTypeOK
  <2>3. /\ LockType'
        /\ \A q \in Procs \ {p}, m \in {"launch", "setup", "install"} : lock[m] = q => lock'[m] = q
    BY <2>1, ReleasedFacts, Zenon DEF PrepareClaim, SetupTypeOK
  <2>4. UNCHANGED <<native, recv, run, store, proofs, job, listener, token, reg, clock, svc>>
    BY <1>1, Zenon DEF PrepareClaim, authority, hosted
  <2>5. PlainType'
    BY <2>1, <2>4, Zenon DEF SetupTypeOK, PlainType
  <2> QED
    BY <2>2, <2>3, <2>4, <2>5, QuietCommand, Zenon
<1>2. CASE store.state # "prepared"
  BY <1>2, ShowKeeps, Zenon DEF PrepareClaim
<1> QED
  BY <1>1, <1>2, Zenon

LEMMA RefreshClaimKeeps == ASSUME SetupIInv, NEW p \in Procs, RefreshClaim(p) PROVE SetupIInv'
<1>1. store \in Stores /\ store.state = "prepared"
  BY ChallengeFacts, Zenon DEF RefreshClaim, Refreshable
<1>2. [store EXCEPT !.chal = NewChallenge(p)] = [store EXCEPT !.state = "prepared", !.chal = NewChallenge(p)]
  BY <1>1, Zenon DEF Stores
<1> QED
  BY <1>1, <1>2, ShowKeeps, Zenon DEF RefreshClaim

LEMMA RedeemKeeps == ASSUME SetupIInv, NEW p \in Procs, Redeem(p) PROVE SetupIInv'
<1>1. /\ SetupTypeOK /\ proc[p].pc = "redeem" /\ "redeem" \in SetupPcs /\ "unlink" \in SetupPcs
      /\ "unlink" \in Pcs
  BY Zenon DEF SetupIInv, Redeem, At, SetupPcs, Pcs
<1>2. PICK pl \in Plans : pl = proc[p].plan
  <2>1. Reviewed(proc[p].plan)
    BY <1>1, Zenon DEF SetupIInv, CommandOK
  <2> QED
    BY <1>1, <2>1, Zenon DEF Reviewed, SetupTypeOK, RunType
<1>3. /\ ProcType' /\ \A q \in Procs \ {p} : proc'[q] = proc[q]
      /\ proc'[p].pc = "unlink" /\ proc'[p].plan = pl
  <2>1. ProcType /\ clock \in 0..MaxTime
    BY <1>1, Zenon DEF SetupTypeOK, PlainType
  <2>2. Begin(p, "unlink", pl, None)
    BY <1>2, Zenon DEF Redeem
  <2> QED
    BY <1>1, <2>1, <2>2, BeginFacts, Zenon
<1>4. UNCHANGED <<native, recv, run, proofs, job, listener, token, reg, clock, svc, lock>>
  BY Zenon DEF Redeem, authority, hosted
<1>5. PlainType' /\ LockType'
  BY <1>1, <1>4, Zenon DEF SetupTypeOK, PlainType, LockType
<1>6. CASE OwnerOf(proc[p].plan)
  <2>1. store' = store
    BY <1>6, Zenon DEF Redeem
  <2>2. Grows
    BY <1>4, <2>1, QuietGrows, Zenon
  <2>3. CommandOK(p, proc[p].pc, proc[p].plan)'
    BY <1>1, <1>2, <1>3, <1>4, <2>2, ClaimGoes, Zenon
  <2> QED
    BY <1>3, <1>4, <1>5, <2>1, <2>3, QuietCommand, Zenon
<1>7. CASE ~OwnerOf(proc[p].plan)
  <2>1. /\ store # None /\ store.state = "prepared"
        /\ store' = [store EXCEPT !.state = "active", !.proof = store.chal]
    BY <1>7, Zenon DEF Redeem, Redeemable
  <2>2. PICK st \in Stores : st = store
    BY <1>1, <2>1, Zenon DEF SetupTypeOK, StoreType
  <2>3. st.chal # None /\ Shown(st.chal)
    BY <2>1, <2>2, Zenon DEF SetupIInv, StoreOK
  <2>4. PICK c \in Challenge : c = st.chal
    BY <2>3, Zenon DEF Stores
  <2>5. PICK new \in Stores : new = [st EXCEPT !.state = "active", !.proof = c]
    BY Zenon DEF Stores
  <2>6. /\ new.state = "active" /\ new.chal = c /\ new.proof = c /\ new.armed = st.armed
        /\ new.deadline = st.deadline /\ new # None /\ c # None
    BY <2>4, <2>5, NoneAssumption, Zenon DEF Stores
  <2>7. store' = new
    BY <2>1, <2>2, <2>4, <2>5, Zenon
  <2>8. StoreType'
    BY <1>1, <1>4, <2>7, Zenon DEF SetupTypeOK, StoreType
  <2>9. Grows
    BY <1>4, <2>1, <2>6, <2>7, StoreGrows, Zenon
  <2>10. StoreOK'
    <3>1. Reviewed(c.plan)'
      BY <2>3, <2>4, <2>9, ReviewedStays, Zenon DEF Shown
    <3>2. Shown(c)'
      BY <1>4, <2>2, <2>3, <2>4, <2>6, <2>7, <3>1, Zenon DEF Shown
    <3> QED
      BY <2>6, <2>7, <3>2, Zenon DEF StoreOK
  <2>11. CommandOK(p, proc[p].pc, proc[p].plan)'
    BY <1>1, <1>2, <1>3, <1>4, <2>9, ClaimGoes, Zenon
  <2> QED
    BY <1>3, <1>4, <1>5, <2>8, <2>9, <2>10, <2>11, StoreStep, Zenon
<1> QED
  BY <1>6, <1>7, Zenon

-----------------------------------------------------------------------------
(* Staging a run.                                                           *)

LEMMA StagedKeeps ==
  ASSUME SetupIInv, NEW p \in Procs, NEW pl \in Plans, Stage(pl), ProcType',
         \A q \in Procs \ {p} : proc'[q] = proc[q], proc'[p].pc = "stageReview", proc'[p].plan = pl,
         UNCHANGED <<reg, authority, hosted, owned, lock, clock>>
  PROVE  SetupIInv'
<1>1. SetupTypeOK
  BY Zenon DEF SetupIInv
<1>2. PICK h \in Nat : h = native
  BY <1>1, Zenon DEF SetupTypeOK, PlainType
<1>3. PICK x \in Runs : x = NewRun(h)
  BY <1>2, Zenon DEF NewRun, Runs
<1>4. x.prev = h /\ x.phases = {} /\ \A e \in Effects : x.sent[e] = 0
  BY <1>3, Zenon DEF NewRun
<1>5. /\ pl \notin DOMAIN run /\ DOMAIN run' = DOMAIN run \cup {pl} /\ run'[pl] = x
      /\ \A y \in DOMAIN run : run'[y] = run[y]
  BY <1>2, <1>3, Zenon DEF Stage
<1>6. RunType'
  <2>1. \A y \in DOMAIN run' : run'[y] \in Runs
    BY <1>1, <1>5, Zenon DEF SetupTypeOK, RunType
  <2>2. run' = [y \in DOMAIN run' |-> run'[y]]
    BY Zenon DEF Stage
  <2> QED
    BY <1>1, <1>5, <2>1, <2>2, Zenon DEF SetupTypeOK, RunType
<1>7. UNCHANGED <<native, recv, store, proofs, job, listener, token, reg, clock, svc, lock>>
  BY Zenon DEF authority, hosted, owned
<1>8. SetupTypeOK'
  BY <1>1, <1>6, <1>7, Zenon DEF SetupTypeOK, LockType, StoreType, PlainType
<1>9. Grows
  BY <1>2, <1>5, <1>7, NatFacts, Zenon DEF Grows
<1>10. RunOK(pl)'
  BY <1>2, <1>4, <1>5, <1>7, NatFacts, ZenonT(40) DEF RunOK, Marked
<1>11. \A y \in DOMAIN run : RunKept(y)
  BY <1>5, Zenon DEF RunKept
<1>12. ASSUME NEW q \in Procs \ {p} PROVE CommandKept(q)
  <2>1. CommandOK(q, proc[q].pc, proc[q].plan)
    BY Zenon DEF SetupIInv
  <2>2. proc[q].pc \in InstallPcs => RunKept(proc[q].plan)
    BY <1>11, <2>1, Zenon DEF CommandOK, Reviewed
  <2>3. proc[q].pc \in {"agent", "job"} => job'["service"] = None
    BY <1>7, <2>1, Zenon DEF CommandOK
  <2> QED
    BY <1>7, <2>2, <2>3, Zenon DEF CommandKept
<1>13. CommandOK(p, proc[p].pc, proc[p].plan)'
  BY <1>5, StagingIsOK, Zenon
<1>14. /\ \A q \in Procs : CommandOK(q, proc[q].pc, proc[q].plan)' \/ CommandKept(q)
       /\ \A y \in DOMAIN run' : RunOK(y)' \/ RunKept(y)
  BY <1>5, <1>10, <1>11, <1>12, <1>13, Zenon
<1> QED
  BY <1>7, <1>8, <1>9, <1>14, StepIsSound, Zenon

LEMMA StageRunKeeps == ASSUME SetupIInv, NEW p \in Procs, StageRun(p) PROVE SetupIInv'
<1>1. ProcType /\ clock \in 0..MaxTime /\ "stageReview" \in Pcs /\ reg \in 0..MaxReg
  BY Zenon DEF SetupIInv, SetupTypeOK, PlainType, Pcs
<1>2. UNCHANGED <<reg, authority, hosted, owned, lock, clock>>
  BY Zenon DEF StageRun
<1>3. CASE At(p, "stage") /\ Stage(proc[p].plan) /\ Goto(p, "stageReview")
  <2>1. PICK pl \in Plans : pl = proc[p].plan
    BY <1>3, Zenon DEF At, SetupIInv, CommandOK
  <2>2. /\ ProcType' /\ \A q \in Procs \ {p} : proc'[q] = proc[q]
        /\ proc'[p].pc = "stageReview" /\ proc'[p].plan = pl
    BY <1>1, <1>3, <2>1, GotoFacts, Zenon
  <2> QED
    BY <1>2, <1>3, <2>1, <2>2, StagedKeeps, Zenon
<1>4. ASSUME NEW o \in Owners, NEW pl, pl = [owner |-> o, reg |-> reg, existing |-> FALSE],
             Stage(pl), Begin(p, "stageReview", pl, None)
      PROVE  SetupIInv'
  <2>1. pl \in Plans /\ pl \in Plans \cup {None}
    BY <1>1, <1>4, Zenon DEF Plans
  <2>2. /\ ProcType' /\ \A q \in Procs \ {p} : proc'[q] = proc[q]
        /\ proc'[p].pc = "stageReview" /\ proc'[p].plan = pl
    <3>1. Begin(p, "stageReview", pl, None)
      BY <1>4, Zenon
    <3> QED
      BY <1>1, <2>1, <3>1, BeginFacts, ZenonT(40)
  <2> QED
    BY <1>2, <1>4, <2>1, <2>2, StagedKeeps, Zenon
<1> QED
  BY <1>3, <1>4, Zenon DEF StageRun

LEMMA ReviewRunKeeps == ASSUME SetupIInv, NEW p \in Procs, ReviewRun(p) PROVE SetupIInv'
<1>1. SetupTypeOK
  BY DEF SetupIInv
<1>2. PICK pl \in DOMAIN run : pl = proc[p].plan
  BY Zenon DEF ReviewRun, At, SetupIInv, CommandOK
<1>3. PICK h \in Nat : h = native
  BY <1>1, Zenon DEF SetupTypeOK, PlainType
<1>4. PICK x \in Runs : x = run[pl]
  BY <1>1, Zenon DEF SetupTypeOK, RunType
<1>5. PICK y \in Runs : y = [x EXCEPT !.stage = "reviewed", !.inputs = h]
  BY Zenon DEF Runs
<1>6. y.stage = "reviewed" /\ y.prev = x.prev /\ y.phases = x.phases /\ y.sent = x.sent
  BY <1>5, Zenon DEF Runs
<1>7. run' = [run EXCEPT ![pl] = y]
  BY <1>2, <1>3, <1>4, <1>5, Zenon DEF ReviewRun
<1>8. /\ RunType' /\ DOMAIN run' = DOMAIN run /\ run'[pl] = y
      /\ \A z \in DOMAIN run \ {pl} : run'[z] = run[z]
  BY <1>1, <1>7, WriteFacts, Zenon DEF SetupTypeOK
<1>9. UNCHANGED <<native, recv, store, proofs, job, listener, token, reg, clock, svc, lock>>
  BY Zenon DEF ReviewRun, authority, hosted, owned
<1>10. /\ ProcType' /\ \A q \in Procs \ {p} : proc'[q] = proc[q]
       /\ CommandOK(p, proc[p].pc, proc[p].plan)'
  BY <1>1, FinishFacts, Zenon DEF ReviewRun, SetupTypeOK
<1>11. SetupTypeOK'
  BY <1>1, <1>8, <1>9, <1>10, Zenon DEF SetupTypeOK, LockType, StoreType, PlainType
<1>12. \A z \in DOMAIN run : RunKept(z)
  BY <1>4, <1>6, <1>8, Zenon DEF RunKept
<1>13. Grows
  BY <1>3, <1>4, <1>6, <1>8, <1>9, NatFacts, Zenon DEF Grows
<1>14. ASSUME NEW q \in Procs \ {p} PROVE CommandKept(q)
  <2>1. CommandOK(q, proc[q].pc, proc[q].plan)
    BY Zenon DEF SetupIInv
  <2>2. proc[q].pc \in InstallPcs => RunKept(proc[q].plan)
    BY <1>12, <2>1, Zenon DEF CommandOK, Reviewed
  <2>3. proc[q].pc \in {"agent", "job"} => job'["service"] = None
    BY <1>9, <2>1, Zenon DEF CommandOK
  <2> QED
    BY <1>9, <1>10, <2>2, <2>3, Zenon DEF CommandKept
<1>15. /\ \A q \in Procs : CommandOK(q, proc[q].pc, proc[q].plan)' \/ CommandKept(q)
       /\ \A z \in DOMAIN run' : RunOK(z)' \/ RunKept(z)
  BY <1>8, <1>10, <1>12, <1>14, Zenon
<1> QED
  BY <1>9, <1>11, <1>13, <1>15, StepIsSound, Zenon

-----------------------------------------------------------------------------
(* Activation.  One command at a time is under the install lock, so that    *)
(* what a run records and dispatches is written by that one.                *)

LEMMA InstallStep ==
  ASSUME SetupIInv, Grows, NEW p \in Procs, proc[p].pc \in InstallPcs, NEW pl, pl = proc[p].plan,
         SetupTypeOK', UNCHANGED <<store, proofs>>,
         DOMAIN run' = DOMAIN run, \A y \in DOMAIN run \ {pl} : run'[y] = run[y], RunOK(pl)',
         \A l \in Labels : PlaceOK(l, job[l])' \/ job'[l] = job[l],
         \A l \in Labels : PlaceOK(l, listener[l])' \/ listener'[l] \in {listener[l], job[l]},
         job["service"] = None => job'["service"] = None,
         \A q \in Procs \ {p} : proc'[q] = proc[q],
         \A q \in Procs \ {p}, l \in {"launch", "setup", "install"} : lock[l] = q => lock'[l] = q,
         CommandOK(p, proc[p].pc, proc[p].plan)'
  PROVE  SetupIInv'
<1>1. \A y \in DOMAIN run' : RunOK(y)' \/ RunKept(y)
  BY Zenon DEF RunKept
<1>2. ASSUME NEW q \in Procs \ {p} PROVE CommandKept(q)
  <2>1. proc[q].pc \notin InstallPcs
    BY Alone, Zenon
  <2>2. proc[q].pc \in {"agent", "job"} => job'["service"] = None
    BY Zenon DEF SetupIInv, CommandOK
  <2> QED
    BY <2>1, <2>2, Zenon DEF CommandKept
<1>3. \A q \in Procs : CommandOK(q, proc[q].pc, proc[q].plan)' \/ CommandKept(q)
  BY <1>2, Zenon
<1> QED
  BY <1>1, <1>3, StepIsSound, Zenon

\* What an activation knows wherever it is.
LEMMA InstallFacts ==
  ASSUME SetupIInv, NEW p \in Procs, proc[p].pc \in InstallPcs, NEW pl, pl = proc[p].plan
  PROVE  /\ pl \in DOMAIN run /\ pl \in Plans /\ Reviewed(pl) /\ OwnerOf(pl) /\ RunOK(pl)
         /\ lock["install"] = p /\ RunType /\ ProcType /\ LockType /\ SetupTypeOK /\ native \in Nat
         /\ CommandOK(p, proc[p].pc, pl) /\ LabelOf(pl) \in Labels
         /\ run[pl].prev \in Nat /\ run[pl].sent \in [Effects -> Nat]
<1>1. SetupTypeOK /\ RunType /\ ProcType /\ LockType /\ native \in Nat
  BY Zenon DEF SetupIInv, SetupTypeOK, PlainType
<1>2. CommandOK(p, proc[p].pc, pl)
  BY Zenon DEF SetupIInv
<1>3. lock["install"] = p /\ Reviewed(pl) /\ OwnerOf(pl)
  BY <1>2, Zenon DEF CommandOK
<1>4. pl \in DOMAIN run /\ pl \in Plans
  BY <1>1, <1>3, Zenon DEF Reviewed, RunType
<1>5. RunOK(pl) /\ run[pl].prev \in Nat /\ run[pl].sent \in [Effects -> Nat]
  BY <1>1, <1>4, Zenon DEF SetupIInv, RunType, Runs
<1>6. LabelOf(pl) \in Labels
  BY Zenon DEF LabelOf, Labels
<1> QED
  BY <1>1, <1>2, <1>3, <1>4, <1>5, <1>6, Zenon

\* A phase is recorded; nothing else of the run changes.
LEMMA MarkStep ==
  ASSUME SetupIInv, NEW p \in Procs, proc[p].pc \in InstallPcs, NEW pl, pl = proc[p].plan,
         NEW ph \in Phases, Mark(pl, ph), ph = "active" => job[LabelOf(pl)] = pl,
         UNCHANGED <<reg, authority, hosted, owned, clock>>, ProcType', LockType',
         \A q \in Procs \ {p} : proc'[q] = proc[q],
         \A q \in Procs \ {p}, l \in {"launch", "setup", "install"} : lock[l] = q => lock'[l] = q,
         CommandOK(p, proc[p].pc, proc[p].plan)'
  PROVE  SetupIInv'
<1>1. /\ pl \in DOMAIN run /\ OwnerOf(pl) /\ RunOK(pl) /\ RunType /\ SetupTypeOK /\ native \in Nat
  BY InstallFacts, Zenon
<1>2. /\ RunType' /\ DOMAIN run' = DOMAIN run /\ \A y \in DOMAIN run \ {pl} : run'[y] = run[y]
      /\ run'[pl].phases = run[pl].phases \cup {ph} /\ run'[pl].sent = run[pl].sent
      /\ run'[pl].prev = run[pl].prev /\ run'[pl].stage = run[pl].stage
  BY <1>1, MarkFacts, Zenon
<1>3. UNCHANGED <<native, recv, store, proofs, job, listener, token, reg, clock, svc>>
  BY Zenon DEF authority, hosted, owned
<1>4. SetupTypeOK'
  BY <1>1, <1>2, <1>3, Zenon DEF SetupTypeOK, StoreType, PlainType
<1>5. Grows
  BY <1>1, <1>2, <1>3, NatFacts, Zenon DEF Grows
<1>6. RunOK(pl)'
  <2>1. OwnerOf(pl)'
    BY <1>1, <1>5, OwnerStays, Zenon
  <2> QED
    BY <1>1, <1>2, <1>3, <2>1, Zenon DEF RunOK, Marked
<1> QED
  BY <1>2, <1>3, <1>4, <1>5, <1>6, InstallStep, Zenon

\* The places an activation goes through, with the phase it records in between.
MarkedMoves ==
    { <<"prior", "prior", "start">>, <<"start", "started", "provision">>,
      <<"installed", "native", "bindV1">>, <<"programs", "configured", "agentStatus">>,
      <<"agentStatus", "agent", "cutover">>, <<"cutover", "cutover", "bootout">>,
      <<"dispatch", "dispatch", "bootstrap">> }

LEMMA MarkGoes ==
  ASSUME SetupIInv, NEW p \in Procs, proc[p].pc \in InstallPcs, NEW pl, pl = proc[p].plan,
         NEW pc, pc = proc[p].pc, NEW ph, NEW nx, <<pc, ph, nx>> \in MarkedMoves, Mark(pl, ph),
         UNCHANGED <<native, recv, store, job, lock>>, nx = "bootout" => pl.existing
  PROVE  CommandOK(p, nx, pl)'
<1>1. /\ pl \in DOMAIN run /\ RunOK(pl) /\ RunType /\ native \in Nat
      /\ lock["install"] = p /\ CommandOK(p, pc, pl) /\ Reviewed(pl) /\ OwnerOf(pl)
  BY InstallFacts, Zenon
<1>2. ph \in Phases /\ nx \in InstallPcs
  BY Zenon DEF MarkedMoves, Phases, InstallPcs, Starting, Provisioned, Bound2, Verifying, Cutting, Dispatching
<1>3. /\ DOMAIN run' = DOMAIN run /\ \A y \in DOMAIN run \ {pl} : run'[y] = run[y]
      /\ run'[pl].phases = run[pl].phases \cup {ph} /\ run'[pl].sent = run[pl].sent
      /\ run'[pl].prev = run[pl].prev /\ run'[pl].stage = run[pl].stage
  BY <1>1, <1>2, MarkFacts, Zenon
<1>4. Grows
  BY <1>1, <1>3, NatFacts, Zenon DEF Grows
<1>5. Reviewed(pl)' /\ OwnerOf(pl)' /\ lock'["install"] = p
  BY <1>1, <1>4, ReviewedStays, OwnerStays, Zenon
<1>6. /\ nx \in {"prior", "start"} => ph # "started" /\ pc \in {"prior", "start"}
      /\ nx \in Starting => ph = "started" \/ pc \in Starting
      /\ nx = "provision" => pc = "start"
      /\ nx \in Provisioned => ph = "native" \/ pc \in Provisioned
      /\ nx \notin {"plist"} \cup Dispatching => pc \in InstallPcs \ ({"plist"} \cup Dispatching)
      /\ pc \in InstallPcs \ {"verify"}
  BY Zenon DEF MarkedMoves, InstallPcs, Starting, Provisioned, Bound2, Verifying, Cutting, Dispatching
<1>7. /\ nx \in Bound2 => pc \in Bound2
      /\ nx \in Verifying => ph = "configured" \/ pc \in Verifying
      /\ nx \in Cutting => ph = "agent" \/ pc \in Cutting
      /\ nx \in {"bootout", "plist"} => nx = "bootout"
      /\ nx \in Dispatching => pc \in Dispatching
  BY Zenon DEF MarkedMoves, Bound2, Verifying, Cutting, Dispatching
<1>8. /\ nx \in {"prior", "start"} => ~Marked(pl, "started")'
      /\ nx \in Starting => Marked(pl, "started")'
      /\ nx \in Provisioned => Marked(pl, "native")'
      /\ nx \in Verifying => Marked(pl, "configured")'
      /\ nx \in Cutting => Marked(pl, "agent")'
  BY <1>1, <1>3, <1>6, <1>7, Zenon DEF CommandOK, Marked
<1>9. /\ nx = "provision" => run'[pl].sent["provision"] = 0
      /\ nx \notin {"plist"} \cup Dispatching => run'[pl].sent["bootout"] = 0
      /\ nx # "verify" => run'[pl].sent["bootstrap"] = 0
  BY <1>1, <1>3, <1>6, Zenon DEF CommandOK, RunOK, Effects
<1>10. /\ nx \in Bound2 => recv'.v2 # None /\ run'[pl].prev < recv'.v2
       /\ nx \in Dispatching => job'[LabelOf(pl)] = pl
  BY <1>1, <1>3, <1>7, Zenon DEF CommandOK
<1>11. nx \in {"bootout", "plist"} => pl.existing
  BY <1>7, Zenon
<1>12. InstallFits(p, nx, pl)'
  BY <1>5, <1>8, <1>9, <1>10, <1>11, Zenon DEF InstallFits
<1> QED
  BY <1>2, <1>12, FittingIsOK, Zenon

LEMMA InstallGoes ==
  ASSUME SetupIInv, NEW p \in Procs, proc[p].pc \in InstallPcs, NEW pl, pl = proc[p].plan,
         NEW nx \in InstallPcs, Goto(p, nx), lock' = lock, CommandOK(p, nx, pl)'
  PROVE  /\ ProcType' /\ LockType' /\ \A q \in Procs \ {p} : proc'[q] = proc[q]
         /\ \A q \in Procs \ {p}, l \in {"launch", "setup", "install"} : lock[l] = q => lock'[l] = q
         /\ CommandOK(p, proc[p].pc, proc[p].plan)'
<1>1. ProcType /\ LockType /\ nx \in Pcs
  BY InstallFacts, Zenon DEF Pcs
<1>2. /\ ProcType' /\ \A q \in Procs \ {p} : proc'[q] = proc[q]
      /\ proc'[p].pc = nx /\ proc'[p].plan = pl
  BY <1>1, GotoFacts, Zenon
<1>3. LockType'
  BY <1>1, Zenon DEF LockType
<1> QED
  BY <1>2, <1>3, Zenon

LEMMA MarkedMoveKeeps ==
  ASSUME SetupIInv, NEW p \in Procs, NEW pc, proc[p].pc = pc, NEW ph, NEW nx, <<pc, ph, nx>> \in MarkedMoves,
         Mark(proc[p].plan, ph), Goto(p, nx), nx = "bootout" => proc[p].plan.existing,
         UNCHANGED <<reg, authority, hosted, owned, lock, clock>>
  PROVE  SetupIInv'
<1>1. PICK pl : pl = proc[p].plan
  OBVIOUS
<1>2. pc \in InstallPcs /\ nx \in InstallPcs /\ ph \in Phases /\ ph # "active"
  BY Zenon DEF MarkedMoves, Phases, InstallPcs, Starting, Provisioned, Bound2, Verifying, Cutting, Dispatching
<1>3. UNCHANGED <<native, recv, store, job, lock>>
  BY Zenon DEF authority, hosted, owned
<1>4. CommandOK(p, nx, pl)'
  BY <1>1, <1>2, <1>3, MarkGoes, Zenon
<1>5. /\ ProcType' /\ LockType' /\ \A q \in Procs \ {p} : proc'[q] = proc[q]
      /\ \A q \in Procs \ {p}, l \in {"launch", "setup", "install"} : lock[l] = q => lock'[l] = q
      /\ CommandOK(p, proc[p].pc, proc[p].plan)'
  BY <1>1, <1>2, <1>3, <1>4, InstallGoes, Zenon
<1> QED
  BY <1>1, <1>2, <1>5, MarkStep, Zenon

LEMMA SavePriorKeeps == ASSUME SetupIInv, NEW p \in Procs, SavePrior(p) PROVE SetupIInv'
<1>1. UNCHANGED <<reg, authority, hosted, owned, lock, clock>>
  BY Zenon DEF SavePrior
<1>2. CASE At(p, "prior") /\ Mark(proc[p].plan, "prior") /\ Goto(p, "start")
  <2>1. <<"prior", "prior", "start">> \in MarkedMoves /\ "start" # "bootout"
    BY Zenon DEF MarkedMoves
  <2> QED
    BY <1>1, <1>2, <2>1, MarkedMoveKeeps, Zenon DEF At
<1>3. CASE At(p, "start") /\ Mark(proc[p].plan, "started") /\ Goto(p, "provision")
  <2>1. <<"start", "started", "provision">> \in MarkedMoves /\ "provision" # "bootout"
    BY Zenon DEF MarkedMoves
  <2> QED
    BY <1>1, <1>3, <2>1, MarkedMoveKeeps, Zenon DEF At
<1> QED
  BY <1>2, <1>3, Zenon DEF SavePrior

LEMMA InstallProgramsKeeps == ASSUME SetupIInv, NEW p \in Procs, InstallPrograms(p) PROVE SetupIInv'
<1>1. <<"programs", "configured", "agentStatus">> \in MarkedMoves /\ "agentStatus" # "bootout"
  BY Zenon DEF MarkedMoves
<1> QED
  BY <1>1, MarkedMoveKeeps, Zenon DEF InstallPrograms, At

LEMMA VerifyAgentKeeps == ASSUME SetupIInv, NEW p \in Procs, VerifyAgent(p) PROVE SetupIInv'
<1>1. <<"agentStatus", "agent", "cutover">> \in MarkedMoves /\ "cutover" # "bootout"
  BY Zenon DEF MarkedMoves
<1> QED
  BY <1>1, MarkedMoveKeeps, Zenon DEF VerifyAgent, At

LEMMA CompleteKeeps == ASSUME SetupIInv, NEW p \in Procs, CompleteActivation(p) PROVE SetupIInv'
<1>1. PICK pl : pl = proc[p].plan
  OBVIOUS
<1>2. proc[p].pc = "verify" /\ "verify" \in Dispatching /\ "verify" \in InstallPcs /\ "active" \in Phases
  BY Zenon DEF CompleteActivation, At, Dispatching, InstallPcs, Starting, Provisioned, Bound2, Verifying, Cutting, Phases
<1>3. job[LabelOf(pl)] = pl /\ ProcType /\ LockType
  BY <1>1, <1>2, InstallFacts, ZenonT(40) DEF CommandOK
<1>4. /\ ProcType' /\ \A q \in Procs \ {p} : proc'[q] = proc[q]
      /\ CommandOK(p, proc[p].pc, proc[p].plan)'
  BY <1>3, FinishFacts, Zenon DEF CompleteActivation
<1>5. /\ LockType'
      /\ \A q \in Procs \ {p}, m \in {"launch", "setup", "install"} : lock[m] = q => lock'[m] = q
  BY <1>3, ReleasedFacts, Zenon DEF CompleteActivation
<1>6. Mark(pl, "active") /\ UNCHANGED <<reg, authority, hosted, owned, clock>>
  BY <1>1, Zenon DEF CompleteActivation
<1> QED
  BY <1>1, <1>2, <1>3, <1>4, <1>5, <1>6, MarkStep, Zenon

\* An effect is dispatched for the first time, for a run that was recorded as started.
LEMMA SendStep ==
  ASSUME SetupIInv, NEW p \in Procs, proc[p].pc \in Starting, NEW pl, pl = proc[p].plan,
         NEW e \in Effects, run[pl].sent[e] = 0, Send(pl, e),
         UNCHANGED <<reg, recv, svc, job, owned, clock>>, native' \in {native, native + 1},
         listener' \in [Labels -> Holders],
         \A l \in Labels : listener'[l] \in {listener[l], None} \/ PlaceOK(l, listener[l])',
         ProcType', LockType',
         \A q \in Procs \ {p} : proc'[q] = proc[q],
         \A q \in Procs \ {p}, l \in {"launch", "setup", "install"} : lock[l] = q => lock'[l] = q,
         CommandOK(p, proc[p].pc, proc[p].plan)'
  PROVE  SetupIInv'
<1>0. proc[p].pc \in InstallPcs
  BY Zenon DEF InstallPcs
<1>1. /\ pl \in DOMAIN run /\ OwnerOf(pl) /\ RunOK(pl) /\ RunType /\ SetupTypeOK /\ native \in Nat
      /\ CommandOK(p, proc[p].pc, pl) /\ run[pl].prev \in Nat
  BY <1>0, InstallFacts, Zenon
<1>2. /\ RunType' /\ DOMAIN run' = DOMAIN run /\ \A y \in DOMAIN run \ {pl} : run'[y] = run[y]
      /\ run'[pl].sent[e] = 1 /\ \A f \in Effects \ {e} : run'[pl].sent[f] = run[pl].sent[f]
      /\ run'[pl].phases = run[pl].phases
      /\ run'[pl].prev = run[pl].prev /\ run'[pl].stage = run[pl].stage
  <2>1. run'[pl].sent[e] = 0 + 1
    BY <1>1, SendFacts, Zenon
  <2>2. run'[pl].sent[e] = 1
    BY <2>1, NatFacts, Zenon
  <2> QED
    BY <1>1, <2>2, SendFacts, Zenon
<1>3. UNCHANGED <<recv, store, proofs, job, token, reg, clock, svc>> /\ native' \in Nat /\ native <= native'
  BY <1>1, NextOrSame, Zenon DEF owned
<1>4. SetupTypeOK'
  BY <1>1, <1>2, <1>3, Zenon DEF SetupTypeOK, StoreType, PlainType
<1>5. Grows
  BY <1>1, <1>2, <1>3, ZenonT(40) DEF Grows
<1>6. RunOK(pl)'
  <2>1. OwnerOf(pl)'
    BY <1>1, <1>5, OwnerStays, Zenon
  <2>2. Marked(pl, "started")
    BY <1>1, Zenon DEF CommandOK
  <2>3. \A f \in Effects : run'[pl].sent[f] <= 1
    <3>1. \A f \in Effects : run[pl].sent[f] <= 1
      BY <1>1, Zenon DEF RunOK
    <3>2. ASSUME NEW f \in Effects PROVE run'[pl].sent[f] <= 1
      <4>1. CASE f = e
        BY <1>2, <4>1, NatFacts, Zenon
      <4>2. CASE f # e
        BY <1>2, <3>1, <4>2, Zenon
      <4> QED
        BY <4>1, <4>2, Zenon
    <3> QED
      BY <3>2, Zenon
  <2>4. run'[pl].prev <= native'
    BY <1>1, <1>2, <1>3, NatFacts, Zenon DEF RunOK
  <2> QED
    BY <1>1, <1>2, <1>3, <2>1, <2>2, <2>3, <2>4, Zenon DEF RunOK, Marked
<1>7. \A l \in Labels : PlaceOK(l, listener[l])' \/ listener'[l] \in {listener[l], job[l]}
  BY SetupAssumption, Zenon DEF PlaceOK
<1> QED
  BY <1>0, <1>2, <1>3, <1>4, <1>5, <1>6, <1>7, InstallStep, ZenonT(40)

LEMMA ProvisionKeeps == ASSUME SetupIInv, NEW p \in Procs, Provision(p) PROVE SetupIInv'
<1>1. PICK pl : pl = proc[p].plan
  OBVIOUS
<1>2. UNCHANGED <<reg, recv, hosted, owned, clock>> /\ UNCHANGED <<svc, job, listener>>
  BY Zenon DEF Provision, hosted
<1>3. "provision" \in Starting /\ "provision" \in InstallPcs /\ "installed" \in InstallPcs /\ "provision" \in Effects
  BY Zenon DEF InstallPcs, Starting, Effects
<1>4. CASE /\ At(p, "provision") /\ native' = native + 1 /\ Send(proc[p].plan, "provision")
           /\ Goto(p, "installed") /\ UNCHANGED lock
  <2>1. proc[p].pc = "provision" /\ Send(pl, "provision") /\ native' \in {native, native + 1}
    BY <1>1, <1>4, Zenon DEF At
  <2>2. /\ pl \in DOMAIN run /\ CommandOK(p, "provision", pl) /\ Reviewed(pl) /\ OwnerOf(pl) /\ RunType
        /\ lock["install"] = p /\ SetupTypeOK /\ native \in Nat
    BY <1>1, <1>3, <2>1, InstallFacts, Zenon
  <2>3. /\ run[pl].sent["provision"] = 0 /\ run[pl].sent["bootout"] = 0 /\ run[pl].sent["bootstrap"] = 0
        /\ Marked(pl, "started")
    BY <2>2, Zenon DEF CommandOK, InstallPcs, Starting, Provisioned, Bound2, Verifying, Cutting, Dispatching
  <2>4. /\ DOMAIN run' = DOMAIN run /\ \A y \in DOMAIN run \ {pl} : run'[y] = run[y]
        /\ run'[pl].sent["bootout"] = 0 /\ run'[pl].sent["bootstrap"] = 0
        /\ run'[pl].phases = run[pl].phases
        /\ run'[pl].prev = run[pl].prev /\ run'[pl].stage = run[pl].stage
    BY <1>3, <2>1, <2>2, <2>3, SendFacts, ZenonT(40) DEF Effects
  <2>5. Reviewed(pl)' /\ OwnerOf(pl)' /\ Marked(pl, "started")'
    BY <1>2, <2>2, <2>3, <2>4, Zenon DEF Reviewed, OwnerOf, Marked, owned
  <2>6. CommandOK(p, "installed", pl)'
    <3>1. /\ "installed" \notin {"prior", "start", "provision", "verify", "bootout", "plist"}
          /\ "installed" \notin Provisioned /\ "installed" \notin Bound2 /\ "installed" \notin Verifying
          /\ "installed" \notin Cutting /\ "installed" \notin Dispatching
      BY Zenon DEF Provisioned, Bound2, Verifying, Cutting, Dispatching
    <3>2. lock'["install"] = p
      BY <1>4, <2>2, Zenon
    <3> QED
      BY <1>3, <2>4, <2>5, <3>1, <3>2, InstallIsOK, Zenon
  <2>7. /\ ProcType' /\ LockType' /\ \A q \in Procs \ {p} : proc'[q] = proc[q]
        /\ \A q \in Procs \ {p}, l \in {"launch", "setup", "install"} : lock[l] = q => lock'[l] = q
        /\ CommandOK(p, proc[p].pc, proc[p].plan)'
    BY <1>1, <1>3, <1>4, <2>1, <2>6, InstallGoes, Zenon
  <2>8. listener' \in [Labels -> Holders] /\ \A l \in Labels : listener'[l] = listener[l]
    BY <1>2, <2>2, Zenon DEF SetupTypeOK, PlainType
  <2> QED
    BY <1>1, <1>2, <1>3, <2>1, <2>3, <2>7, <2>8, SendStep, ZenonT(40)
<1>5. CASE /\ At(p, "provision") /\ Send(proc[p].plan, "provision") /\ Finish(p) /\ Released(p)
           /\ UNCHANGED native
  <2>1. proc[p].pc = "provision" /\ Send(pl, "provision") /\ native' \in {native, native + 1}
    BY <1>1, <1>5, Zenon DEF At
  <2>2. CommandOK(p, "provision", pl) /\ SetupTypeOK /\ ProcType /\ LockType
    BY <1>1, <1>3, <2>1, InstallFacts, Zenon
  <2>3. run[pl].sent["provision"] = 0
    BY <2>2, Zenon DEF CommandOK
  <2>4. /\ ProcType' /\ \A q \in Procs \ {p} : proc'[q] = proc[q]
        /\ CommandOK(p, proc[p].pc, proc[p].plan)'
    BY <1>5, <2>2, FinishFacts, Zenon
  <2>5. /\ LockType'
        /\ \A q \in Procs \ {p}, m \in {"launch", "setup", "install"} : lock[m] = q => lock'[m] = q
    BY <1>5, <2>2, ReleasedFacts, Zenon
  <2>8. listener' \in [Labels -> Holders] /\ \A l \in Labels : listener'[l] = listener[l]
    BY <1>2, <2>2, Zenon DEF SetupTypeOK, PlainType
  <2> QED
    BY <1>1, <1>2, <1>3, <2>1, <2>3, <2>4, <2>5, <2>8, SendStep, ZenonT(40)
<1>6. CASE At(p, "installed") /\ Mark(proc[p].plan, "native") /\ Goto(p, "bindV1") /\ UNCHANGED <<native, lock>>
  <2>1. <<"installed", "native", "bindV1">> \in MarkedMoves /\ "bindV1" # "bootout"
    BY Zenon DEF MarkedMoves
  <2>2. UNCHANGED <<reg, authority, hosted, owned, lock, clock>>
    BY <1>2, <1>6, Zenon DEF authority
  <2> QED
    BY <1>6, <2>1, <2>2, MarkedMoveKeeps, Zenon DEF At
<1> QED
  BY <1>4, <1>5, <1>6, Zenon DEF Provision, ConvertedNative

\* A step of an activation that leaves the runs alone.
LEMMA PlainInstallStep ==
  ASSUME SetupIInv, NEW p \in Procs, proc[p].pc \in InstallPcs, NEW pl, pl = proc[p].plan,
         NEW nx \in InstallPcs, Goto(p, nx), CommandOK(p, nx, pl)', Grows,
         UNCHANGED <<reg, native, svc, listener, run, owned, lock, clock>>,
         recv' \in [v1 : Nat, v2 : Nat \cup {None}], job' \in [Labels -> Holders],
         \A l \in Labels : PlaceOK(l, job[l])' \/ job'[l] = job[l],
         job["service"] = None => job'["service"] = None
  PROVE  SetupIInv'
<1>1. pl \in DOMAIN run /\ RunOK(pl) /\ SetupTypeOK /\ native \in Nat /\ run[pl].prev \in Nat
  BY InstallFacts, Zenon
<1>2. /\ ProcType' /\ LockType' /\ \A q \in Procs \ {p} : proc'[q] = proc[q]
      /\ \A q \in Procs \ {p}, l \in {"launch", "setup", "install"} : lock[l] = q => lock'[l] = q
      /\ CommandOK(p, proc[p].pc, proc[p].plan)'
  BY InstallGoes, Zenon
<1>3. UNCHANGED <<store, proofs, token>>
  BY Zenon DEF owned
<1>4. SetupTypeOK'
  BY <1>1, <1>2, <1>3, Zenon DEF SetupTypeOK, StoreType, PlainType, RunType
<1>5. RunOK(pl)'
  <2>1. DOMAIN run \subseteq Plans
    BY <1>1, Zenon DEF SetupTypeOK, RunType
  <2> QED
    BY <1>1, <2>1, RunStays, Zenon
<1> QED
  BY <1>2, <1>3, <1>4, <1>5, InstallStep, Zenon

LEMMA BindReceiversKeeps == ASSUME SetupIInv, NEW p \in Procs, BindReceivers(p) PROVE SetupIInv'
<1>1. PICK pl : pl = proc[p].plan
  OBVIOUS
<1>2. PICK n : n = run[pl].prev
  OBVIOUS
<1>3. UNCHANGED <<reg, native, svc, job, listener, run, owned, lock, clock, store>>
  BY Zenon DEF BindReceivers, hosted, owned
<1>4. proc[p].pc \in {"bindV1", "bindV2"} /\ proc[p].pc \in Provisioned /\ proc[p].pc \in InstallPcs
  BY Zenon DEF BindReceivers, At, InstallPcs, Starting, Provisioned
<1>5. /\ pl \in DOMAIN run /\ Reviewed(pl) /\ OwnerOf(pl) /\ SetupTypeOK /\ lock["install"] = p
      /\ CommandOK(p, proc[p].pc, pl) /\ n \in Nat /\ native \in Nat
  BY <1>1, <1>2, <1>4, InstallFacts, Zenon
<1>6. /\ Marked(pl, "started") /\ Marked(pl, "native")
      /\ run[pl].sent["bootout"] = 0 /\ run[pl].sent["bootstrap"] = 0
  BY <1>4, <1>5, Zenon DEF CommandOK, InstallPcs, Starting, Provisioned, Bound2, Verifying, Cutting, Dispatching
<1>7. Reviewed(pl)' /\ OwnerOf(pl)' /\ Marked(pl, "started")' /\ Marked(pl, "native")' /\ lock'["install"] = p
      /\ run'[pl].sent["bootout"] = 0 /\ run'[pl].sent["bootstrap"] = 0 /\ run'[pl].prev = n
  BY <1>2, <1>3, <1>5, <1>6, Zenon DEF Reviewed, OwnerOf, Marked
<1>8. recv \in [v1 : Nat, v2 : Nat \cup {None}] /\ job' \in [Labels -> Holders] /\ None \notin Nat
  BY <1>3, <1>5, SetupAssumption, Zenon DEF SetupTypeOK, PlainType
<1>9. CASE /\ At(p, "bindV1") /\ recv' = [recv EXCEPT !.v1 = ConvertedNative(run[pl].prev)]
           /\ Goto(p, "bindV2")
  <2>1. recv' \in [v1 : Nat, v2 : Nat \cup {None}] /\ recv'.v2 = recv.v2
    <3>1. n + 1 \in Nat /\ recv' = [recv EXCEPT !.v1 = n + 1]
      BY <1>2, <1>5, <1>9 DEF ConvertedNative
    <3> QED
      BY <3>1, <1>8, Zenon
  <2>2. Grows
    BY <1>3, <1>5, <2>1, NatFacts, Zenon DEF Grows
  <2>3. CommandOK(p, "bindV2", pl)'
    <3>1. /\ "bindV2" \in InstallPcs
          /\ "bindV2" \notin {"prior", "start", "provision", "plist", "verify", "bootout"}
          /\ "bindV2" \notin Bound2 /\ "bindV2" \notin Verifying
          /\ "bindV2" \notin Cutting /\ "bindV2" \notin Dispatching
      BY Zenon DEF InstallPcs, Starting, Provisioned, Bound2, Verifying, Cutting, Dispatching
    <3> QED
      BY <1>7, <3>1, InstallIsOK, Zenon
  <2>4. "bindV2" \in InstallPcs
    BY Zenon DEF InstallPcs, Starting, Provisioned
  <2> QED
    BY <1>1, <1>3, <1>4, <1>8, <1>9, <2>1, <2>2, <2>3, <2>4, PlainInstallStep, Zenon
<1>10. CASE /\ At(p, "bindV2") /\ recv.v2 = None /\ recv' = [recv EXCEPT !.v2 = ConvertedNative(run[pl].prev)]
            /\ Goto(p, "programs")
  <2>1. recv' \in [v1 : Nat, v2 : Nat \cup {None}] /\ recv'.v2 # None /\ n < recv'.v2
    <3>1. n + 1 \in Nat /\ recv' = [recv EXCEPT !.v2 = n + 1]
      BY <1>2, <1>5, <1>10 DEF ConvertedNative
    <3>2. recv' \in [v1 : Nat, v2 : Nat \cup {None}] /\ recv'.v2 = n + 1
      BY <3>1, <1>8, Zenon
    <3> QED
      BY <1>5, <1>8, <3>1, <3>2
  <2>2. Grows
    BY <1>3, <1>5, <1>10, NatFacts, Zenon DEF Grows
  <2>3. CommandOK(p, "programs", pl)'
    <3>1. /\ "programs" \in InstallPcs
          /\ "programs" \notin {"prior", "start", "provision", "plist", "verify", "bootout"}
          /\ "programs" \notin Verifying /\ "programs" \notin Cutting /\ "programs" \notin Dispatching
      BY Zenon DEF InstallPcs, Starting, Provisioned, Bound2, Verifying, Cutting, Dispatching
    <3> QED
      BY <1>7, <2>1, <3>1, InstallIsOK, Zenon
  <2>4. "programs" \in InstallPcs
    BY Zenon DEF InstallPcs, Starting, Provisioned, Bound2
  <2> QED
    BY <1>1, <1>3, <1>4, <1>8, <1>10, <2>1, <2>2, <2>3, <2>4, PlainInstallStep, Zenon
<1> QED
  BY <1>1, <1>9, <1>10, Zenon DEF BindReceivers

\* The run of an activation that reached the cutover is installed.
LEMMA CuttingInstalled ==
  ASSUME SetupIInv, NEW p \in Procs, proc[p].pc \in Cutting, NEW pl, pl = proc[p].plan
  PROVE  Installed(pl) /\ run[pl].prev <= native
<1>1. /\ proc[p].pc \in InstallPcs /\ proc[p].pc \in Starting /\ proc[p].pc \in Provisioned
      /\ proc[p].pc \in Bound2 /\ proc[p].pc \in Verifying
  BY Zenon DEF InstallPcs, Starting, Provisioned, Bound2, Verifying
<1>2. /\ pl \in DOMAIN run /\ OwnerOf(pl) /\ RunOK(pl) /\ CommandOK(p, proc[p].pc, pl)
  BY <1>1, InstallFacts, Zenon
<1> QED
  BY <1>1, <1>2, Zenon DEF CommandOK, Installed, Marked, RunOK

\* The job of the owner's run is put in place.
LEMMA JobPlaced ==
  ASSUME SetupIInv, NEW p \in Procs, proc[p].pc \in {"cutover", "plist"}, NEW pl, pl = proc[p].plan,
         NEW l \in Labels, l = LabelOf(pl), job[l] \notin Plans,
         l = "service" => job[l] # None,
         job' = [job EXCEPT ![l] = pl], Goto(p, "dispatch"),
         UNCHANGED <<reg, native, recv, svc, listener, run, owned, lock, clock>>
  PROVE  SetupIInv'
<1>1. /\ proc[p].pc \in Cutting /\ proc[p].pc \in InstallPcs /\ "dispatch" \in InstallPcs
  BY Zenon DEF InstallPcs, Starting, Provisioned, Bound2, Verifying, Cutting, Dispatching
<1>2. /\ pl \in DOMAIN run /\ pl \in Plans /\ Reviewed(pl) /\ OwnerOf(pl) /\ SetupTypeOK /\ lock["install"] = p
      /\ CommandOK(p, proc[p].pc, pl) /\ RunType /\ run[pl].prev \in Nat /\ native \in Nat
  BY <1>1, InstallFacts, Zenon
<1>3. Installed(pl) /\ run[pl].prev <= native
  BY <1>1, CuttingInstalled, Zenon
<1>4. /\ job \in [Labels -> Holders] /\ recv \in [v1 : Nat, v2 : Nat \cup {None}]
  BY <1>2, Zenon DEF SetupTypeOK, PlainType
<1>5. /\ job' \in [Labels -> Holders] /\ job'[l] = pl /\ \A m \in Labels \ {l} : job'[m] = job[m]
  BY <1>2, <1>4, Zenon DEF Holders
<1>6. UNCHANGED store
  BY Zenon DEF owned
<1>7. Grows
  BY <1>2, <1>5, <1>6, NatFacts, Zenon DEF Grows
<1>8. Installed(pl)'
  BY <1>2, <1>3, <1>7, InstalledStays, Zenon
<1>9. \A m \in Labels : PlaceOK(m, job[m])' \/ job'[m] = job[m]
  BY <1>5, <1>8, Zenon DEF PlaceOK
<1>10. job["service"] = None => job'["service"] = None
  BY <1>5, Zenon DEF Labels
<1>11. run[pl].sent["bootstrap"] = 0
  BY <1>1, <1>2, Zenon DEF CommandOK
<1>12. CommandOK(p, "dispatch", pl)'
  <2>1. "dispatch" \in Dispatching /\ "dispatch" \notin {"prior", "start", "provision", "bootout", "plist", "verify"}
    BY Zenon DEF Dispatching
  <2>2. Reviewed(pl)' /\ OwnerOf(pl)' /\ lock'["install"] = p /\ run'[pl].sent["bootstrap"] = 0
    BY <1>2, <1>6, <1>11, Zenon DEF Reviewed, OwnerOf
  <2>3. /\ Marked(pl, "started")' /\ Marked(pl, "native")' /\ Marked(pl, "configured")' /\ Marked(pl, "agent")'
        /\ recv'.v2 # None /\ run'[pl].prev < recv'.v2
    BY <1>8, Zenon DEF Installed, Marked
  <2>4. job'[LabelOf(pl)] = pl
    BY <1>5, Zenon
  <2> QED
    BY <1>1, <2>1, <2>2, <2>3, <2>4, InstallIsOK, Zenon
<1>13. recv' \in [v1 : Nat, v2 : Nat \cup {None}]
  BY <1>4, Zenon
<1> QED
  BY <1>1, <1>5, <1>7, <1>9, <1>10, <1>12, <1>13, PlainInstallStep, Zenon

\* An effect on the listener is dispatched from the cutover on.
LEMMA ListenerSent ==
  ASSUME SetupIInv, NEW p \in Procs, NEW pc, proc[p].pc = pc, NEW pl, pl = proc[p].plan, NEW e, NEW nx, NEW w,
         \/ pc = "bootout" /\ e = "bootout" /\ nx = "plist" /\ w = None
         \/ pc = "bootstrap" /\ e = "bootstrap" /\ nx = "verify" /\ w = pl,
         Send(pl, e), Goto(p, nx), listener' = [listener EXCEPT ![LabelOf(pl)] = w],
         UNCHANGED <<reg, authority, svc, job, owned, lock, clock>>
  PROVE  SetupIInv'
<1>1. /\ pc \in Cutting /\ pc \in InstallPcs /\ pc \in Starting /\ nx \in InstallPcs /\ e \in Effects
      /\ nx \in Cutting /\ nx \in Verifying /\ nx \in Bound2 /\ nx \in Provisioned /\ nx \in Starting
      /\ nx \notin {"prior", "start", "provision", "bootout"} /\ nx \in {"plist"} \cup Dispatching
  BY Zenon DEF InstallPcs, Starting, Provisioned, Bound2, Verifying, Cutting, Dispatching, Effects
<1>2. /\ pl \in DOMAIN run /\ pl \in Plans /\ Reviewed(pl) /\ OwnerOf(pl) /\ SetupTypeOK /\ lock["install"] = p
      /\ CommandOK(p, pc, pl) /\ RunType /\ run[pl].prev \in Nat /\ native \in Nat /\ LabelOf(pl) \in Labels
  BY <1>1, InstallFacts, Zenon
<1>3. Installed(pl)
  BY <1>1, CuttingInstalled, Zenon
<1>4. /\ run[pl].sent[e] = 0 /\ run[pl].sent["bootstrap"] = 0
      /\ pc = "bootout" => pl.existing
      /\ pc = "bootstrap" => job[LabelOf(pl)] = pl
  BY <1>1, <1>2, Zenon DEF CommandOK, Dispatching
<1>5. UNCHANGED <<native, recv, store, job, lock>>
  BY Zenon DEF authority, owned
<1>6. /\ DOMAIN run' = DOMAIN run /\ run'[pl].phases = run[pl].phases
      /\ run'[pl].prev = run[pl].prev /\ run'[pl].stage = run[pl].stage
      /\ \A f \in Effects \ {e} : run'[pl].sent[f] = run[pl].sent[f]
  BY <1>1, <1>2, SendFacts, Zenon
<1>7. Reviewed(pl)' /\ OwnerOf(pl)' /\ Installed(pl)'
  BY <1>2, <1>3, <1>5, <1>6, Zenon DEF Reviewed, OwnerOf, Installed
<1>8. CommandOK(p, nx, pl)'
  <2>1. /\ Marked(pl, "started")' /\ Marked(pl, "native")' /\ Marked(pl, "configured")' /\ Marked(pl, "agent")'
        /\ recv'.v2 # None /\ run'[pl].prev < recv'.v2
    BY <1>7, Zenon DEF Installed, Marked
  <2>2. nx # "verify" => run'[pl].sent["bootstrap"] = 0
    BY <1>4, <1>6, Zenon DEF Effects
  <2>3. /\ nx \in {"bootout", "plist"} => pl.existing
        /\ nx \in Dispatching => job'[LabelOf(pl)] = pl
        /\ lock'["install"] = p
    BY <1>2, <1>4, <1>5, Zenon DEF Dispatching
  <2> QED
    BY <1>1, <1>7, <2>1, <2>2, <2>3, InstallIsOK, Zenon
<1>9. /\ ProcType' /\ LockType' /\ \A q \in Procs \ {p} : proc'[q] = proc[q]
      /\ \A q \in Procs \ {p}, l \in {"launch", "setup", "install"} : lock[l] = q => lock'[l] = q
      /\ CommandOK(p, proc[p].pc, proc[p].plan)'
  BY <1>1, <1>5, <1>8, InstallGoes, Zenon
<1>10. listener \in [Labels -> Holders] /\ w \in Holders
  BY <1>2, Zenon DEF SetupTypeOK, PlainType, Holders
<1>11. /\ listener' \in [Labels -> Holders] /\ listener'[LabelOf(pl)] = w
       /\ \A l \in Labels \ {LabelOf(pl)} : listener'[l] = listener[l]
  BY <1>2, <1>10, Zenon
<1>12. ASSUME NEW l \in Labels
       PROVE  listener'[l] \in {listener[l], None} \/ PlaceOK(l, listener[l])'
  <2>1. l = LabelOf(pl) /\ w = pl => PlaceOK(l, listener[l])'
    BY <1>7, <1>11, Zenon DEF PlaceOK
  <2> QED
    BY <1>11, <2>1, Zenon
<1> QED
  BY <1>1, <1>4, <1>5, <1>9, <1>11, <1>12, SendStep, Zenon

LEMMA CutoverKeeps == ASSUME SetupIInv, NEW p \in Procs, Cutover(p) PROVE SetupIInv'
<1>1. PICK pl : pl = proc[p].plan
  OBVIOUS
<1>2. UNCHANGED <<reg, authority, svc, planFile, owned, lock, clock>> /\ UNCHANGED <<native, recv>>
  BY Zenon DEF Cutover, authority
<1>3. CASE /\ At(p, "cutover") /\ pl.existing /\ Mark(pl, "cutover") /\ Goto(p, "bootout")
           /\ UNCHANGED <<job, listener>>
  <2>1. <<"cutover", "cutover", "bootout">> \in MarkedMoves
    BY Zenon DEF MarkedMoves
  <2>2. UNCHANGED hosted
    BY <1>2, <1>3, Zenon DEF hosted
  <2> QED
    BY <1>1, <1>2, <1>3, <2>1, <2>2, MarkedMoveKeeps, Zenon DEF At
<1>4. CASE /\ At(p, "bootout") /\ listener' = [listener EXCEPT !["service"] = None]
           /\ Send(pl, "bootout") /\ Goto(p, "plist") /\ UNCHANGED job
  <2>1. proc[p].pc = "bootout"
    BY <1>4, Zenon DEF At
  <2>2. LabelOf(pl) = "service"
    <3>1. CommandOK(p, "bootout", pl)
      BY <1>1, <2>1, Zenon DEF SetupIInv
    <3> QED
      BY <3>1, Zenon DEF CommandOK, LabelOf
  <2>3. listener' = [listener EXCEPT ![LabelOf(pl)] = None]
    BY <1>4, <2>2, Zenon
  <2> QED
    BY <1>1, <1>2, <1>4, <2>1, <2>3, ListenerSent, Zenon
<1>5. CASE /\ At(p, "plist") /\ job["service"] = Unclaimed /\ job' = [job EXCEPT !["service"] = pl]
           /\ Goto(p, "dispatch") /\ UNCHANGED <<listener, run>>
  <2>1. proc[p].pc = "plist" /\ "service" \in Labels
    BY <1>5, Zenon DEF At, Labels
  <2>2. LabelOf(pl) = "service"
    <3>1. CommandOK(p, "plist", pl)
      BY <1>1, <2>1, Zenon DEF SetupIInv
    <3> QED
      BY <3>1, Zenon DEF CommandOK, LabelOf
  <2>3. Unclaimed \notin Plans /\ Unclaimed # None
    BY SetupAssumption, Zenon
  <2> QED
    BY <1>1, <1>2, <1>5, <2>1, <2>2, <2>3, JobPlaced, Zenon
<1>6. CASE /\ At(p, "cutover") /\ ~pl.existing /\ job["endpoint"] = None /\ job' = [job EXCEPT !["endpoint"] = pl]
           /\ Goto(p, "dispatch") /\ UNCHANGED <<listener, run>>
  <2>1. proc[p].pc = "cutover" /\ "endpoint" \in Labels /\ "endpoint" # "service"
    BY <1>6, Zenon DEF At, Labels
  <2>2. LabelOf(pl) = "endpoint"
    BY <1>6, Zenon DEF LabelOf
  <2>3. None \notin Plans
    BY SetupAssumption, Zenon
  <2> QED
    BY <1>1, <1>2, <1>6, <2>1, <2>2, <2>3, JobPlaced, Zenon
<1> QED
  BY <1>1, <1>3, <1>4, <1>5, <1>6, Zenon DEF Cutover

LEMMA DispatchListenerKeeps == ASSUME SetupIInv, NEW p \in Procs, DispatchListener(p) PROVE SetupIInv'
<1>1. PICK pl : pl = proc[p].plan
  OBVIOUS
<1>2. UNCHANGED <<reg, authority, svc, job, planFile, owned, lock, clock>>
  BY Zenon DEF DispatchListener
<1>3. CASE At(p, "dispatch") /\ Mark(pl, "dispatch") /\ Goto(p, "bootstrap") /\ UNCHANGED listener
  <2>1. <<"dispatch", "dispatch", "bootstrap">> \in MarkedMoves /\ "bootstrap" # "bootout"
    BY Zenon DEF MarkedMoves
  <2>2. UNCHANGED hosted
    BY <1>2, <1>3, Zenon DEF hosted
  <2> QED
    BY <1>1, <1>2, <1>3, <2>1, <2>2, MarkedMoveKeeps, Zenon DEF At
<1>4. CASE /\ At(p, "bootstrap") /\ Send(pl, "bootstrap") /\ Goto(p, "verify")
           /\ listener' = [listener EXCEPT ![LabelOf(pl)] = pl]
  <2>1. proc[p].pc = "bootstrap"
    BY <1>4, Zenon DEF At
  <2> QED
    BY <1>1, <1>2, <1>4, <2>1, ListenerSent, Zenon
<1> QED
  BY <1>1, <1>3, <1>4, Zenon DEF DispatchListener

LEMMA AdministerKeeps == ASSUME SetupIInv, Administer PROVE SetupIInv'
<1>1. /\ SetupTypeOK /\ native \in Nat /\ native + 1 \in Nat /\ native <= native + 1
      /\ recv \in [v1 : Nat, v2 : Nat \cup {None}] /\ native + 1 # None
  BY SetupAssumption DEF SetupIInv, SetupTypeOK, PlainType
<1>2. UNCHANGED <<reg, svc, job, listener, run, store, token, proofs, lock, proc, clock>> /\ native' = native + 1
  BY Zenon DEF Administer, hosted, owned
<1>3. /\ recv' \in [v1 : Nat, v2 : Nat \cup {None}]
      /\ recv'.v2 = IF recv.v2 = None THEN None ELSE native + 1
  BY <1>1, Zenon DEF Administer
<1>4. SetupTypeOK'
  <2>1. RunType' /\ ProcType' /\ LockType' /\ StoreType'
    BY <1>1, <1>2, Zenon DEF SetupTypeOK, ProcType, LockType, RunType, StoreType
  <2>2. PlainType'
    BY <1>1, <1>2, <1>3, Zenon DEF SetupTypeOK, PlainType
  <2> QED
    BY <2>1, <2>2, Zenon DEF SetupTypeOK
<1>5. Grows
  <2>1. \A n \in Nat : n <= native /\ recv.v2 # None /\ n < recv.v2 => recv'.v2 # None /\ n < recv'.v2
    BY <1>1, <1>3
  <2> QED
    BY <1>1, <1>2, <2>1, Zenon DEF Grows
<1>6. \A pl \in DOMAIN run : RunKept(pl)
  BY <1>2, Zenon DEF RunKept
<1>7. ASSUME NEW q \in Procs PROVE CommandKept(q)
  <2>1. CommandOK(q, proc[q].pc, proc[q].plan)
    BY Zenon DEF SetupIInv
  <2>2. proc[q].pc \in InstallPcs => RunKept(proc[q].plan)
    BY <1>6, <2>1, Zenon DEF CommandOK, Reviewed
  <2>3. proc[q].pc \in {"agent", "job"} => job'["service"] = None
    BY <1>2, <2>1, Zenon DEF CommandOK
  <2> QED
    BY <1>2, <2>2, <2>3, Zenon DEF CommandKept
<1>8. DOMAIN run' = DOMAIN run
  BY <1>2, Zenon
<1> QED
  BY <1>2, <1>4, <1>5, <1>6, <1>7, <1>8, StepIsSound, Zenon

-----------------------------------------------------------------------------
(* The invariant and the properties of OwnerSetup.                          *)

LEMMA CommandStepKeeps == ASSUME SetupIInv, NEW p \in Procs, CommandStep(p) PROVE SetupIInv'
<1>1. CASE ActivationStep(p)
  BY Zenon, <1>1, SavePriorKeeps, ProvisionKeeps, BindReceiversKeeps, InstallProgramsKeeps, VerifyAgentKeeps,
     CutoverKeeps, DispatchListenerKeeps, CompleteKeeps DEF ActivationStep
<1>2. CASE \/ PrepareService(p) \/ ReviewService(p) \/ LaunchChecks(p) \/ LaunchStep(p)
           \/ \E o \in Owners : SaveOwnerPlan(p, o)
           \/ StageRun(p) \/ ReviewRun(p)
  BY Zenon, <1>2, PrepareServiceKeeps, ReviewServiceKeeps, LaunchChecksKeeps, LaunchStepKeeps, SaveOwnerPlanKeeps,
     StageRunKeeps, ReviewRunKeeps
<1>3. CASE \/ \E pl \in DOMAIN run, refresh \in BOOLEAN : OpenClaim(p, pl, refresh)
           \/ TakeHandle(p) \/ Arm(p) \/ PrepareClaim(p) \/ RefreshClaim(p)
           \/ \E pl \in DOMAIN run, proof \in proofs : BeginComplete(p, pl, proof)
           \/ Redeem(p) \/ Unlink(p)
           \/ \E pl \in DOMAIN run : ActivateChecks(p, pl)
  BY Zenon, <1>3, OpenClaimKeeps, TakeHandleKeeps, ArmKeeps, PrepareClaimKeeps, RefreshClaimKeeps, BeginCompleteKeeps,
     RedeemKeeps, UnlinkKeeps, ActivateChecksKeeps
<1> QED
  BY <1>1, <1>2, <1>3, Zenon DEF CommandStep

LEMMA SetupIInvHolds == SetupSpec => []SetupIInv
<1>1. SetupInit => SetupIInv
  BY SetupInitIsSound, Zenon
<1>2. SetupIInv /\ [SetupNext]_vars => SetupIInv'
  <2> SUFFICES ASSUME SetupIInv, [SetupNext]_vars PROVE SetupIInv'
    OBVIOUS
  <2>1. CASE UNCHANGED vars
    <3>1. UNCHANGED <<reg, native, recv, svc, job, listener, run, store, token, proofs, lock, proc, clock>>
      BY <2>1, Zenon DEF vars, authority, hosted, owned
    <3>2. SetupTypeOK
      BY Zenon DEF SetupIInv
    <3>3. ProcType' /\ LockType' /\ RunType' /\ StoreType' /\ PlainType'
      BY <3>1, <3>2, Zenon DEF SetupTypeOK, ProcType, LockType, RunType, StoreType, PlainType
    <3>4. SetupTypeOK'
      BY <3>3, Zenon DEF SetupTypeOK
    <3> QED
      BY <3>1, <3>4, QuietKeeps, Zenon
  <2>2. CASE Tick
    BY <2>2, OutsideKeeps, Zenon
  <2>3. CASE \E p \in Procs : CommandStep(p)
    BY <2>3, CommandStepKeeps, Zenon
  <2>4. CASE Upset
    BY <2>4, StopKeeps, RebootKeeps, OutsideKeeps, AdministerKeeps, Zenon DEF Upset
  <2> QED
    BY <2>1, <2>2, <2>3, <2>4, Zenon DEF SetupNext
<1> QED
  BY <1>1, <1>2, PTL DEF SetupSpec

\* For any number of commands, keys, plans, stops, reboots and changes by others:
\* the owner is a proof shown to a Wallet for a reviewed run inside the setup
\* window; only the owner's run is started and each of its effects is dispatched
\* at most once; and a job is in place or serves only for that owner, after its
\* policy and bindings were installed and read back (owner_bootstrap.py redeem,
\* owner_install.py activate).
THEOREM InstallationServesItsOwner == SetupSpec => []OwnerInv
<1>1. SetupIInv => OwnerInv
  <2> SUFFICES ASSUME SetupIInv PROVE OwnerRuns /\ AdministersOnlyInstalled
    BY Zenon DEF OwnerInv
  <2>1. store # None /\ store.state = "active" =>
          /\ store.proof \in proofs /\ Reviewed(store.proof.plan)
          /\ store.armed <= store.proof.issued /\ store.proof.expires <= store.deadline
          /\ store.proof = store.chal
    BY Zenon DEF SetupIInv, StoreOK, Shown
  <2>2. ASSUME NEW pl \in DOMAIN run
        PROVE  /\ Marked(pl, "started") => OwnerOf(pl)
               /\ Marked(pl, "active") => job[LabelOf(pl)] = pl
               /\ \A e \in Effects : run[pl].sent[e] <= 1
    BY Zenon DEF SetupIInv, RunOK
  <2>3. ASSUME NEW l \in Labels, NEW pl \in {job[l], listener[l]} \ {None, Unclaimed}
        PROVE  /\ OwnerOf(pl) /\ l = LabelOf(pl)
               /\ {"started", "native", "configured", "agent"} \subseteq run[pl].phases
               /\ run[pl].prev < recv.v2
    <3>1. pl \in Plans
      BY <2>3, Zenon DEF SetupIInv, SetupTypeOK, PlainType, Holders
    <3>2. PlaceOK(l, pl)
      BY <2>3, Zenon DEF SetupIInv
    <3> QED
      BY <3>1, <3>2, Zenon DEF PlaceOK, Installed
  <2>4. OwnerRuns
    BY <2>1, <2>2, Zenon DEF OwnerRuns
  <2> QED
    BY <2>3, <2>4, Zenon DEF AdministersOnlyInstalled
<1> QED
  BY <1>1, SetupIInvHolds, PTL

-----------------------------------------------------------------------------
(* The claim store implements a one-time claim.                             *)

\* Only the claim commands write the store.
LEMMA OthersKeepTheStore ==
  ASSUME [SetupNext]_vars,
         \A p \in Procs : /\ \A pl \in DOMAIN run, refresh \in BOOLEAN : ~OpenClaim(p, pl, refresh)
                          /\ ~Arm(p) /\ ~PrepareClaim(p) /\ ~RefreshClaim(p) /\ ~Redeem(p)
  PROVE  UNCHANGED store
<1>1. CASE UNCHANGED vars \/ Tick
  BY <1>1, Zenon DEF vars, owned, Tick
<1>2. CASE Upset
  BY <1>2, Zenon DEF Upset, Stop, Reboot, Register, Administer, ListenerExits, owned
<1>3. ASSUME NEW p \in Procs, CommandStep(p) PROVE UNCHANGED store
  <2>1. CASE ActivationStep(p)
    BY <2>1, Zenon DEF ActivationStep, SavePrior, Provision, BindReceivers, InstallPrograms, VerifyAgent, Cutover,
       DispatchListener, CompleteActivation, owned
  <2>2. CASE \/ PrepareService(p) \/ ReviewService(p) \/ LaunchChecks(p) \/ LaunchStep(p)
             \/ \E o \in Owners : SaveOwnerPlan(p, o)
             \/ StageRun(p) \/ ReviewRun(p)
    BY <2>2, Zenon DEF PrepareService, ReviewService, LaunchChecks, LaunchStep, SaveOwnerPlan, StageRun, ReviewRun, owned
  <2>3. CASE \/ TakeHandle(p) \/ Unlink(p)
             \/ \E pl \in DOMAIN run, proof \in proofs : BeginComplete(p, pl, proof)
             \/ \E pl \in DOMAIN run : ActivateChecks(p, pl)
    BY <2>3, Zenon DEF TakeHandle, Unlink, BeginComplete, ActivateChecks, owned
  <2> QED
    BY <1>3, <2>1, <2>2, <2>3, Zenon DEF CommandStep
<1> QED
  BY <1>1, <1>2, <1>3, Zenon DEF SetupNext

ClaimStep == [Claim!Open \/ Claim!Take]_<<
    IF store = None \/ store.state = "uninitialized" THEN None ELSE store.deadline,
    IF store = None THEN None ELSE store.proof>>

\* The store is created, unopened and untaken.
LEMMA OpenClaimRefines ==
  ASSUME SetupIInv, NEW p \in Procs, NEW pl \in DOMAIN run, NEW refresh \in BOOLEAN, OpenClaim(p, pl, refresh)
  PROVE  ClaimStep
<1>1. pl \in Plans
  BY Zenon DEF SetupIInv, SetupTypeOK, RunType
<1>2. store # None => store' = store
  BY Zenon DEF OpenClaim
<1>3. store = None => store'.state = "uninitialized" /\ store'.proof = None
  BY <1>1, NewStoreFacts, Zenon DEF OpenClaim
<1> QED
  BY <1>2, <1>3, Zenon DEF ClaimStep

\* arm opens the claim.
LEMMA ArmRefines == ASSUME SetupIInv, NEW p \in Procs, Arm(p) PROVE ClaimStep
<1>1. store # None /\ store.state = "uninitialized" /\ proc[p].now \in 0..MaxTime /\ SetupTypeOK
  BY Zenon DEF SetupIInv, CommandOK, Arm, At, SetupTypeOK, ProcType, IsCommand
<1>2. PICK st \in Stores : st = store
  BY <1>1, Zenon DEF SetupTypeOK, StoreType
<1>3. PICK n \in 0..MaxTime : n = proc[p].now
  BY <1>1, Zenon
<1>4. PICK d \in 0..(MaxTime + SetupSeconds) : d = n + SetupSeconds
  BY SetupAssumption
<1>5. PICK new \in Stores : new = [st EXCEPT !.state = "armed", !.armed = n, !.deadline = d]
  BY Zenon DEF Stores
<1>6. new.state = "armed" /\ new.proof = st.proof /\ new.deadline = d /\ new # None
  BY <1>5, NoneAssumption, Zenon DEF Stores
<1>7. d \in Nat
  BY SetupAssumption
<1>8. store' = new
  BY <1>2, <1>3, <1>4, <1>5, Zenon DEF Arm
<1>9. Claim!Open
  BY <1>1, <1>2, <1>6, <1>7, <1>8, Zenon DEF Claim!Open
<1> QED
  BY <1>9, Zenon DEF ClaimStep

\* A challenge changes neither the deadline nor the owner.
LEMMA ShowRefines ==
  ASSUME SetupIInv, NEW p \in Procs, At(p, "claim"), Authorized(p), NextNonce <= MaxNonce,
         store' = [store EXCEPT !.state = "prepared", !.chal = NewChallenge(p)]
  PROVE  ClaimStep
<1>1. PICK st \in Stores, c \in Challenge : st = store /\ c = NewChallenge(p) /\ st.state # "uninitialized"
  BY ChallengeFacts, Zenon
<1>2. PICK new \in Stores : new = [st EXCEPT !.state = "prepared", !.chal = c]
  BY Zenon DEF Stores
<1>3. /\ new.state = "prepared" /\ new.proof = st.proof /\ new.deadline = st.deadline
      /\ new # None /\ st # None
  BY <1>2, NoneAssumption, Zenon DEF Stores
<1>4. store' = new
  BY <1>1, <1>2, Zenon
<1> QED
  BY <1>1, <1>3, <1>4, Zenon DEF ClaimStep

\* redeem takes the claim, or finds it taken by this very proof.
LEMMA RedeemRefines == ASSUME SetupIInv, NEW p \in Procs, Redeem(p) PROVE ClaimStep
<1>1. CASE OwnerOf(proc[p].plan)
  BY <1>1, Zenon DEF Redeem, ClaimStep
<1>2. CASE ~OwnerOf(proc[p].plan)
  <2>1. /\ store # None /\ store.state = "prepared"
        /\ store' = [store EXCEPT !.state = "active", !.proof = store.chal]
    BY <1>2, Zenon DEF Redeem, Redeemable
  <2>2. PICK st \in Stores : st = store
    BY <2>1, Zenon DEF SetupIInv, SetupTypeOK, StoreType
  <2>3. st.chal # None /\ st.proof = None
    BY <2>1, <2>2, Zenon DEF SetupIInv, StoreOK
  <2>4. PICK c \in Challenge : c = st.chal
    BY <2>3, Zenon DEF Stores
  <2>5. PICK new \in Stores : new = [st EXCEPT !.state = "active", !.proof = c]
    BY Zenon DEF Stores
  <2>6. new.state = "active" /\ new.proof = c /\ new.deadline = st.deadline /\ new # None
    BY <2>5, NoneAssumption, Zenon DEF Stores
  <2>7. st.deadline # None
    <3>1. st.deadline \in 0..(MaxTime + SetupSeconds)
      BY Zenon DEF Stores
    <3> QED
      BY <3>1, SetupAssumption
  <2>8. store' = new
    BY <2>1, <2>2, <2>4, <2>5, Zenon
  <2>9. Claim!Take
    BY <2>1, <2>2, <2>3, <2>6, <2>7, <2>8, Zenon DEF Claim!Take
  <2> QED
    BY <2>9, Zenon DEF ClaimStep
<1> QED
  BY <1>1, <1>2, Zenon

\* Whatever the interleaving of claim-prepare, claim-refresh and claim-complete,
\* of however many keys, and wherever they are stopped, BootstrapStore is a
\* one-time claim: its deadline is set once and its owner is registered once.
THEOREM OwnerIsClaimedOnce == SetupSpec => ImplementsClaim
<1>1. SetupInit => Claim!ClaimInit
  BY Zenon DEF SetupInit, Claim!ClaimInit
<1>2. SetupIInv /\ [SetupNext]_vars => ClaimStep
  <2> SUFFICES ASSUME SetupIInv, [SetupNext]_vars PROVE ClaimStep
    OBVIOUS
  <2>1. CASE UNCHANGED store
    BY <2>1, Zenon DEF ClaimStep
  <2>2. ASSUME NEW p \in Procs, PrepareClaim(p) PROVE ClaimStep
    BY <2>1, <2>2, ShowRefines, Zenon DEF PrepareClaim
  <2>3. ASSUME NEW p \in Procs, RefreshClaim(p) PROVE ClaimStep
    <3>1. store \in Stores /\ store.state = "prepared"
      BY <2>3, ChallengeFacts, Zenon DEF RefreshClaim, Refreshable
    <3>2. [store EXCEPT !.chal = NewChallenge(p)] = [store EXCEPT !.state = "prepared", !.chal = NewChallenge(p)]
      BY <3>1, Zenon DEF Stores
    <3> QED
      BY <2>3, <3>2, ShowRefines, Zenon DEF RefreshClaim
  <2> QED
    BY <2>1, <2>2, <2>3, OthersKeepTheStore, OpenClaimRefines, ArmRefines, RedeemRefines, Zenon
<1> QED
  BY <1>1, <1>2, SetupIInvHolds, PTL DEF SetupSpec, ImplementsClaim, Claim!ClaimSpec, ClaimStep
====
