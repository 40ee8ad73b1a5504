------------------------------ MODULE OwnerSetup ------------------------------
(***************************************************************************)
(* How the first owner of one local graph is set up: the unclaimed Wallet  *)
(* service (ops/wallet_service.py), the one-time owner claim               *)
(* (auth/owner_bootstrap.py, ops/wallet_admin_upgrade.py), and the staging *)
(* and activation of the owner's installation (ops/owner_install.py,       *)
(* ops/service_owner.py).                                                  *)
(*                                                                         *)
(* Every command is a short-lived local process that leaves its progress   *)
(* in files created with O_EXCL.  A process can stop between any two of    *)
(* its durable steps (an error, a time-out, a kill, a reboot); nothing     *)
(* rolls it back and nothing resumes it, and the next command has to read  *)
(* from the files what happened.  Meanwhile others change what a reviewed  *)
(* plan is bound to: the registration of the graph, and the native policy. *)
(***************************************************************************)
EXTENDS Naturals, FiniteSets

CONSTANTS
    Procs,            \* the local commands running at one time
    Owners,           \* the Wallet keys that ask to become the owner
    None,
    Unclaimed,        \* the job and the listener of the unclaimed service
    SetupSeconds,     \* SETUP_MAX_SECONDS, in ticks
    ChallengeSeconds, \* CHALLENGE_SECONDS, in ticks
    MaxReg,           \* bound: changes of the local registration
    MaxUpsets,        \* bound: stops, reboots, exits and changes by others
    MaxRuns,          \* bound: installation runs staged
    MaxNonce,         \* bound: challenges issued
    MaxTime           \* bound: the clock

VARIABLES
    reg,       \* version of local.json and resource-registration.json
    native,    \* version of the native policy: what admin status reports
    recv,      \* policy version each managed receiver binding names
    svc,       \* wallet-services/<resource>: the unclaimed service
    job,       \* the launch agent of each label: None, Unclaimed or a plan
    listener,  \* what serves behind each label
    planFile,  \* owner-registration/plan.json of the unclaimed service
    run,       \* wallet-endpoints/<resource>/<plan digest>: the staged runs
    store,     \* owners/<resource>/registry.sqlite
    token,     \* pending-setup.json: the plan whose setup it authorises
    proofs,    \* the challenges shown to a Wallet, any of which it may sign
    lock,      \* the three advisory file locks
    proc,      \* the commands in progress
    clock,
    upsets     \* stops, reboots, exits and changes so far

owned == <<store, token, proofs>>

hosted == <<svc, job, listener, planFile>>

authority == <<native, recv>>

vars == <<reg, authority, hosted, run, owned, lock, proc, clock, upsets>>

\* A plan is identified by its digest: the key it names, the registration it
\* was drawn up against, and whether it takes over the launched service.
Plans == [owner : Owners, reg : 0..MaxReg, existing : BOOLEAN]

\* None and Unclaimed are nothing else; the durations are natural numbers.
ASSUME SetupAssumption ==
    /\ None \notin Nat \cup Procs \cup Plans /\ Unclaimed \notin Plans \cup {None}
    /\ SetupSeconds \in Nat /\ ChallengeSeconds \in Nat
    /\ MaxReg \in Nat /\ MaxNonce \in Nat /\ MaxTime \in Nat

Labels == {"service", "endpoint"}

LabelOf(pl) == IF pl.existing THEN "service" ELSE "endpoint"

\* The phase files of a run, in the order activate saves them.
Phases == {"prior", "started", "native", "configured", "agent", "cutover", "dispatch", "active"}

Effects == {"provision", "bootout", "bootstrap"}

\* A run as staged; sent counts the effects it dispatched (history).
NewRun(head) ==
    [stage |-> "dir", prev |-> head, inputs |-> 0, phases |-> {}, sent |-> [e \in Effects |-> 0]]

Challenge == [plan : Plans, nonce : 1..MaxNonce, issued : 0..MaxTime, expires : 0..(MaxTime + SetupSeconds)]

\* What the registry of the owner may hold.
Stores ==
    [state : {"uninitialized", "armed", "prepared", "active"},
     binding : [reg : 0..MaxReg, existing : BOOLEAN], armed : 0..MaxTime,
     deadline : 0..(MaxTime + SetupSeconds), chal : Challenge \cup {None}, proof : Challenge \cup {None}]

ASSUME NoneAssumption == None \notin Challenge \cup Stores

Idle == [pc |-> "idle", plan |-> None, now |-> 0, arg |-> None]

SetupInit ==
    /\ reg = 0 /\ clock = 0 /\ native = 1 /\ upsets = 0
    /\ recv = [v1 |-> 1, v2 |-> None]
    /\ svc = [stage |-> "none", reg |-> 0, agent |-> FALSE, dispatched |-> FALSE, running |-> FALSE]
    /\ job = [l \in Labels |-> None]
    /\ listener = [l \in Labels |-> None]
    /\ planFile = None
    /\ run = <<>>
    /\ store = None /\ token = None /\ proofs = {}
    /\ lock = [l \in {"launch", "setup", "install"} |-> None]
    /\ proc = [p \in Procs |-> Idle]

------------------------------------------------------------------------------
(* Processes                                                                *)

At(p, pc) == proc[p].pc = pc

Goto(p, pc) == proc' = [proc EXCEPT ![p].pc = pc]

\* A claim command reads the time once, when it begins; the others do not use it.
Begin(p, pc, pl, arg) ==
    proc' = [proc EXCEPT ![p] = [pc |-> pc, plan |-> pl, arg |-> arg,
                                 now |-> IF pc \in {"handle", "redeem"} THEN clock ELSE 0]]

Finish(p) == proc' = [proc EXCEPT ![p] = Idle]

\* fcntl.flock(LOCK_EX | LOCK_NB) on a private lock file, released when the
\* process ends, however it ends.
Locked(p, l) ==
    /\ lock[l] = None
    /\ lock' = [lock EXCEPT ![l] = p]

Released(p) == lock' = [l \in DOMAIN lock |-> IF lock[l] = p THEN None ELSE lock[l]]

\* A command ends early: a refused check, a failed or timed-out step, a kill.
Stop(p) ==
    /\ ~At(p, "idle")
    /\ Finish(p) /\ Released(p)
    /\ UNCHANGED <<reg, authority, hosted, run, owned, clock>>

\* The machine restarts: no command survives, and launchd loads every agent
\* whose plist is in place (RunAtLoad).
Reboot ==
    /\ proc' = [p \in Procs |-> Idle]
    /\ lock' = [l \in DOMAIN lock |-> None]
    /\ listener' = job
    /\ UNCHANGED <<reg, authority, svc, job, planFile, run, owned, clock>>

\* An installed job that nobody restarts (KeepAlive is false) exits.
ListenerExits(l) ==
    /\ listener[l] # None
    /\ listener' = [listener EXCEPT ![l] = None]
    /\ UNCHANGED <<reg, authority, svc, job, planFile, run, owned, lock, proc, clock>>

\* The graph's registration or configuration is changed by its own commands.
Register ==
    /\ reg < MaxReg
    /\ reg' = reg + 1
    /\ UNCHANGED <<authority, hosted, run, owned, lock, proc, clock>>

\* Another administrator provisions the native policy and binds the receivers.
Administer ==
    /\ native' = native + 1
    /\ recv' = [v1 |-> native + 1, v2 |-> IF recv.v2 = None THEN None ELSE native + 1]
    /\ UNCHANGED <<reg, hosted, run, owned, lock, proc, clock>>

Tick ==
    /\ clock < MaxTime
    /\ clock' = clock + 1
    /\ UNCHANGED <<reg, authority, hosted, run, owned, lock, proc>>

------------------------------------------------------------------------------
(* The unclaimed service: prepare and launch                                *)

\* prepare: refuses any earlier service, owner or staged installation.
PrepareService(p) ==
    /\ At(p, "idle")
    /\ svc.stage = "none" /\ store = None
    /\ DOMAIN run = {}
    /\ svc' = [svc EXCEPT !.stage = "dir", !.reg = reg]
    /\ Begin(p, "review", None, None)
    /\ UNCHANGED <<reg, authority, job, listener, planFile, run, owned, lock, clock>>

\* The deployment, its profile and the launch review are saved last.
ReviewService(p) ==
    /\ At(p, "review")
    /\ svc' = [svc EXCEPT !.stage = "reviewed"]
    /\ Finish(p)
    /\ UNCHANGED <<reg, authority, job, listener, planFile, run, owned, lock, clock>>

\* checked and validate_deployment: the reviewed files, for the graph's current
\* registration and configuration.
Deployed == svc.stage = "reviewed" /\ svc.reg = reg

\* probe: who answers behind the label.
Serves(l, who) == listener[l] = who

\* launch: the reviewed deployment, the graph it was reviewed for, no earlier
\* launch and no job of that name.
LaunchChecks(p) ==
    /\ At(p, "idle")
    /\ Deployed /\ ~svc.dispatched
    /\ job["service"] = None /\ listener["service"] = None
    /\ Locked(p, "launch")
    /\ Begin(p, "agent", None, None)
    /\ UNCHANGED <<reg, authority, hosted, run, owned, clock>>

\* The durable steps of a launch, in order; the dispatch record precedes the
\* dispatch, and the running receipt follows the probe and the publication.
LaunchStep(p) ==
    /\ \/ /\ At(p, "agent") /\ ~svc.agent
          /\ svc' = [svc EXCEPT !.agent = TRUE]
          /\ Goto(p, "job")
          /\ UNCHANGED <<job, listener, lock>>
       \/ /\ At(p, "job")
          /\ job' = [job EXCEPT !["service"] = Unclaimed]
          /\ Goto(p, "mark")
          /\ UNCHANGED <<svc, listener, lock>>
       \/ /\ At(p, "mark")
          /\ svc' = [svc EXCEPT !.dispatched = TRUE]
          /\ Goto(p, "boot")
          /\ UNCHANGED <<job, listener, lock>>
       \/ /\ At(p, "boot")
          /\ listener' = [listener EXCEPT !["service"] = Unclaimed]
          /\ Goto(p, "probe")
          /\ UNCHANGED <<svc, job, lock>>
       \/ /\ At(p, "probe")
          /\ Serves("service", Unclaimed) /\ svc.reg = reg
          /\ svc' = [svc EXCEPT !.running = TRUE]
          /\ Finish(p) /\ Released(p)
          /\ UNCHANGED <<job, listener>>
    /\ UNCHANGED <<reg, authority, planFile, run, owned, clock>>

\* selected_service: the exact launched, still unclaimed instance answers.
SelectedService ==
    /\ Deployed /\ svc.running
    /\ job["service"] = Unclaimed /\ Serves("service", Unclaimed)

------------------------------------------------------------------------------
(* Staging an installation run                                              *)

\* verify_live_graph: the instance, its registration and its configuration are
\* the plan's.
LiveGraph(pl) == pl.reg = reg

\* converted_native: the current policy with the owner's rules, one version on.
ConvertedNative(head) == head + 1

\* service_owner.prepare saves the plan that takes over the service.
SaveOwnerPlan(p, o) ==
    LET pl == [owner |-> o, reg |-> svc.reg, existing |-> TRUE] IN
    /\ At(p, "idle")
    /\ SelectedService /\ planFile = None
    /\ planFile' = pl
    /\ Begin(p, "stage", pl, None)
    /\ UNCHANGED <<reg, authority, svc, job, listener, run, owned, lock, clock>>

\* prepare, up to the run's directory: the instance is the plan's, the native
\* status, policy and managed receiver agree, and nothing of an earlier
\* installation is in the way.
Stage(pl) ==
    /\ LiveGraph(pl) /\ (pl.existing => SelectedService)
    /\ recv = [v1 |-> native, v2 |-> None]
    /\ pl \notin DOMAIN run /\ Cardinality(DOMAIN run) < MaxRuns
    /\ run' = [x \in DOMAIN run \cup {pl} |-> IF x = pl THEN NewRun(native) ELSE run[x]]

\* The plan of the service is staged by the command that saved it; a plan for a
\* listener of its own comes from a file the caller names.
StageRun(p) ==
    /\ \/ At(p, "stage") /\ Stage(proc[p].plan) /\ Goto(p, "stageReview")
       \/ /\ At(p, "idle")
          /\ \E o \in Owners :
                LET pl == [owner |-> o, reg |-> reg, existing |-> FALSE] IN
                Stage(pl) /\ Begin(p, "stageReview", pl, None)
    /\ UNCHANGED <<reg, authority, hosted, owned, lock, clock>>

\* The keys, policies, programs and profile are staged; then the inputs are
\* hashed, the registration compared again, the agent's grant found ready, and
\* the review saved.
ReviewRun(p) ==
    LET pl == proc[p].plan IN
    /\ At(p, "stageReview")
    /\ LiveGraph(pl) /\ recv.v1 = native /\ recv.v2 \in {None, native}
    /\ run' = [run EXCEPT ![pl].stage = "reviewed", ![pl].inputs = native]
    /\ Finish(p)
    /\ UNCHANGED <<reg, authority, hosted, owned, lock, clock>>

------------------------------------------------------------------------------
(* The owner's claim                                                        *)

\* checked_review.  service_owner asks for more before it calls the same
\* commands (its retained plan, the selected service), so its calls are among
\* the direct ones.
Reviewed(pl) == pl \in DOMAIN run /\ run[pl].stage = "reviewed"

\* BootstrapBinding: the graph, its registration and the endpoint.
Binding(pl) == [reg |-> pl.reg, existing |-> pl.existing]

\* BootstrapStore.__init__ on a new file.
NewStore(pl) ==
    [state |-> "uninitialized", binding |-> Binding(pl),
     armed |-> 0, deadline |-> 0, chal |-> None, proof |-> None]

\* BootstrapStore._check_binding and _load.
Bound(pl) ==
    /\ LiveGraph(pl)
    /\ store # None => store.binding = Binding(pl)

OwnerOf(pl) == store # None /\ store.state = "active" /\ store.proof.plan = pl

\* claim-prepare and claim-refresh open the store, which creates it.
OpenClaim(p, pl, refresh) ==
    /\ At(p, "idle")
    /\ Reviewed(pl) /\ Bound(pl)
    /\ Locked(p, "setup")
    /\ store' = IF store = None THEN NewStore(pl) ELSE store
    /\ Begin(p, "handle", pl, refresh)
    /\ UNCHANGED <<reg, authority, hosted, run, token, proofs, clock>>

\* The first claim saves its setup token before it arms; a later one must find
\* the token of its own review.
TakeHandle(p) ==
    LET pl == proc[p].plan IN
    /\ At(p, "handle")
    /\ store.state # "active"
    /\ IF store.state = "uninitialized"
         THEN token = None /\ token' = pl /\ Goto(p, "arm")
         ELSE token = pl /\ token' = token /\ Goto(p, "claim")
    /\ UNCHANGED <<reg, authority, hosted, run, store, proofs, lock, clock>>

\* arm: starts the setup window, once.
Arm(p) ==
    /\ At(p, "arm")
    /\ Bound(proc[p].plan) /\ store.state = "uninitialized"
    /\ store' = [store EXCEPT !.state = "armed", !.armed = proc[p].now,
                              !.deadline = proc[p].now + SetupSeconds]
    /\ Goto(p, "claim")
    /\ UNCHANGED <<reg, authority, hosted, run, token, proofs, lock, clock>>

\* _authorize: the token's secret, inside the setup window.
Authorized(p) ==
    /\ token = proc[p].plan
    /\ store.armed <= proc[p].now /\ proc[p].now < store.deadline

Earlier(a, b) == IF a < b THEN a ELSE b

NextNonce == IF store.chal = None THEN 1 ELSE store.chal.nonce + 1

NewChallenge(p) ==
    [plan |-> proc[p].plan, nonce |-> NextNonce, issued |-> proc[p].now,
     expires |-> Earlier(proc[p].now + ChallengeSeconds, store.deadline)]

\* prepare_claim: the first call issues the challenge, a later one returns it
\* while it lasts.
PrepareClaim(p) ==
    /\ At(p, "claim") /\ proc[p].arg = FALSE
    /\ Bound(proc[p].plan) /\ store.state # "active" /\ Authorized(p)
    /\ IF store.state = "prepared"
         THEN /\ store.chal.plan = proc[p].plan /\ proc[p].now < store.chal.expires
              /\ UNCHANGED <<store, proofs>>
         ELSE /\ NextNonce <= MaxNonce
              /\ store' = [store EXCEPT !.state = "prepared", !.chal = NewChallenge(p)]
              /\ proofs' = proofs \cup {NewChallenge(p)}
    /\ Finish(p) /\ Released(p)
    /\ UNCHANGED <<reg, authority, hosted, run, token, clock>>

Refreshable(p) == store.state = "prepared" /\ store.chal.plan = proc[p].plan

\* Mutant of RefreshClaim: the setup window starts again with the challenge.
RenewedMut(p) ==
    /\ At(p, "claim") /\ proc[p].arg = TRUE
    /\ Bound(proc[p].plan) /\ Authorized(p) /\ Refreshable(p)
    /\ store.chal.issued <= proc[p].now /\ NextNonce <= MaxNonce
    /\ store' = [store EXCEPT !.chal = NewChallenge(p), !.deadline = proc[p].now + SetupSeconds]
    /\ proofs' = proofs \cup {NewChallenge(p)}
    /\ Finish(p) /\ Released(p)
    /\ UNCHANGED <<reg, authority, hosted, run, token, clock>>

\* refresh_claim: a new challenge under the same setup deadline.
RefreshClaim(p) ==
    /\ At(p, "claim") /\ proc[p].arg = TRUE
    /\ Bound(proc[p].plan) /\ Authorized(p) /\ Refreshable(p)
    /\ store.chal.issued <= proc[p].now /\ NextNonce <= MaxNonce
    /\ store' = [store EXCEPT !.chal = NewChallenge(p)]
    /\ proofs' = proofs \cup {NewChallenge(p)}
    /\ Finish(p) /\ Released(p)
    /\ UNCHANGED <<reg, authority, hosted, run, token, clock>>

\* complete_claim takes the lock with a proof the Wallet has signed.
BeginComplete(p, pl, proof) ==
    /\ At(p, "idle")
    /\ Reviewed(pl)
    /\ Locked(p, "setup")
    /\ Begin(p, "redeem", pl, proof)
    /\ UNCHANGED <<reg, authority, hosted, run, owned, clock>>

\* redeem: the proof is of the challenge now retained, inside its lifetime.
Redeemable(p) ==
    /\ Authorized(p) /\ store.state = "prepared"
    /\ proc[p].arg.plan = proc[p].plan /\ proc[p].arg = store.chal
    /\ store.chal.issued <= proc[p].now /\ proc[p].now < store.chal.expires

\* The claim is already redeemed with this very proof, or it is redeemed now:
\* the grant, the event and the state are one transaction.
Redeem(p) ==
    /\ At(p, "redeem")
    /\ IF OwnerOf(proc[p].plan)
         THEN proc[p].arg = store.proof /\ store' = store
         ELSE /\ store # None /\ token = proc[p].plan /\ Bound(proc[p].plan)
              /\ Redeemable(p)
              /\ store' = [store EXCEPT !.state = "active", !.proof = proc[p].arg]
    /\ Begin(p, "unlink", proc[p].plan, None)
    /\ UNCHANGED <<reg, authority, hosted, run, token, proofs, lock, clock>>

\* Only the token of this review is removed.
Unlink(p) ==
    /\ At(p, "unlink")
    /\ token \in {None, proc[p].plan}
    /\ token' = None
    /\ Finish(p) /\ Released(p)
    /\ UNCHANGED <<reg, authority, hosted, run, store, proofs, clock>>

------------------------------------------------------------------------------
(* Activation                                                               *)

Marked(pl, ph) == ph \in run[pl].phases

Mark(pl, ph) == run' = [run EXCEPT ![pl].phases = @ \cup {ph}]

Send(pl, e) == run' = [run EXCEPT ![pl].sent[e] = @ + 1]

\* Mutant of ActivateChecks: the owner's registration is not asked for.
UnownedMut(p, pl) ==
    /\ At(p, "idle")
    /\ Reviewed(pl) /\ ~Marked(pl, "started")
    /\ LiveGraph(pl) /\ run[pl].inputs = native /\ run[pl].prev = native
    /\ IF pl.existing THEN SelectedService ELSE listener["endpoint"] = None
    /\ recv = [v1 |-> native, v2 |-> None]
    /\ Locked(p, "install")
    /\ Begin(p, "prior", pl, None)
    /\ UNCHANGED <<reg, authority, hosted, run, owned, clock>>

\* activate: the reviewed run of the registered owner, never started, with
\* every input as reviewed, and nothing of a generic receiver in place.
ActivateChecks(p, pl) ==
    /\ At(p, "idle")
    /\ Reviewed(pl) /\ OwnerOf(pl) /\ ~Marked(pl, "started")
    /\ LiveGraph(pl) /\ run[pl].inputs = native /\ run[pl].prev = native
    /\ IF pl.existing THEN SelectedService ELSE listener["endpoint"] = None
    /\ recv = [v1 |-> native, v2 |-> None]
    /\ Locked(p, "install")
    /\ Begin(p, "prior", pl, None)
    /\ UNCHANGED <<reg, authority, hosted, run, owned, clock>>

\* The native snapshot and the prior files are saved once, then the record
\* that a native dispatch is possible.
SavePrior(p) ==
    LET pl == proc[p].plan IN
    /\ \/ At(p, "prior") /\ ~Marked(pl, "prior") /\ Mark(pl, "prior") /\ Goto(p, "start")
       \/ At(p, "start") /\ Mark(pl, "started") /\ Goto(p, "provision")
    /\ UNCHANGED <<reg, authority, hosted, owned, lock, clock>>

\* admin provision under the reviewed digest, and its read-back.
Provision(p) ==
    LET pl == proc[p].plan IN
    /\ \/ /\ At(p, "provision") /\ native = run[pl].prev
          /\ native' = ConvertedNative(native)
          /\ Send(pl, "provision") /\ Goto(p, "installed")
          /\ UNCHANGED lock
       \/ /\ At(p, "provision") /\ native # run[pl].prev
          /\ Send(pl, "provision") /\ Finish(p) /\ Released(p)
          /\ UNCHANGED native
       \/ /\ At(p, "installed")
          /\ Mark(pl, "native") /\ Goto(p, "bindV1")
          /\ UNCHANGED <<native, lock>>
    /\ UNCHANGED <<reg, recv, hosted, owned, clock>>

\* The v1 binding is replaced if it is the reviewed one; the v2 binding is new.
BindReceivers(p) ==
    LET pl == proc[p].plan IN
    /\ \/ /\ At(p, "bindV1") /\ recv.v1 = run[pl].inputs
          /\ recv' = [recv EXCEPT !.v1 = ConvertedNative(run[pl].prev)]
          /\ Goto(p, "bindV2")
       \/ /\ At(p, "bindV2") /\ recv.v2 = None
          /\ recv' = [recv EXCEPT !.v2 = ConvertedNative(run[pl].prev)]
          /\ Goto(p, "programs")
    /\ UNCHANGED <<reg, native, hosted, run, owned, lock, clock>>

\* Mutant of InstallPrograms: the agent's own status is not read back.
UnreadMut(p) ==
    /\ At(p, "programs")
    /\ Mark(proc[p].plan, "configured") /\ Goto(p, "cutover")
    /\ UNCHANGED <<reg, authority, hosted, owned, lock, clock>>

\* The native programs and the command line are replaced, each if unchanged.
InstallPrograms(p) ==
    /\ At(p, "programs")
    /\ Mark(proc[p].plan, "configured") /\ Goto(p, "agentStatus")
    /\ UNCHANGED <<reg, authority, hosted, owned, lock, clock>>

\* The new command line reports the agent ready: both bindings are the head's.
AgentReady == recv = [v1 |-> native, v2 |-> native]

VerifyAgent(p) ==
    /\ At(p, "agentStatus") /\ AgentReady
    /\ Mark(proc[p].plan, "agent") /\ Goto(p, "cutover")
    /\ UNCHANGED <<reg, authority, hosted, owned, lock, clock>>

\* The launched service gives way to the owner's job: a record, the stop, the
\* new plist.  A run with a listener of its own only adds its job.
Cutover(p) ==
    LET pl == proc[p].plan IN
    /\ \/ /\ At(p, "cutover") /\ pl.existing /\ job["service"] = Unclaimed
          /\ Mark(pl, "cutover") /\ Goto(p, "bootout")
          /\ UNCHANGED <<job, listener>>
       \/ /\ At(p, "bootout")
          /\ listener' = [listener EXCEPT !["service"] = None]
          /\ Send(pl, "bootout") /\ Goto(p, "plist")
          /\ UNCHANGED job
       \/ /\ At(p, "plist") /\ job["service"] = Unclaimed
          /\ job' = [job EXCEPT !["service"] = pl]
          /\ Goto(p, "dispatch")
          /\ UNCHANGED <<listener, run>>
       \/ /\ At(p, "cutover") /\ ~pl.existing /\ job["endpoint"] = None
          /\ job' = [job EXCEPT !["endpoint"] = pl]
          /\ Goto(p, "dispatch")
          /\ UNCHANGED <<listener, run>>
    /\ UNCHANGED <<reg, authority, svc, planFile, owned, lock, clock>>

\* listener-dispatch is saved, then launchctl bootstrap is called.
DispatchListener(p) ==
    LET pl == proc[p].plan IN
    /\ \/ /\ At(p, "dispatch") /\ Mark(pl, "dispatch") /\ Goto(p, "bootstrap")
          /\ UNCHANGED listener
       \/ /\ At(p, "bootstrap") /\ Send(pl, "bootstrap") /\ Goto(p, "verify")
          /\ listener' = [listener EXCEPT ![LabelOf(pl)] = pl]
    /\ UNCHANGED <<reg, authority, svc, job, planFile, owned, lock, clock>>

\* The profile is polled, the instance verified and published for the reviewed
\* registration, and the run recorded active.
CompleteActivation(p) ==
    LET pl == proc[p].plan IN
    /\ At(p, "verify")
    /\ Serves(LabelOf(pl), pl) /\ LiveGraph(pl)
    /\ Mark(pl, "active")
    /\ Finish(p) /\ Released(p)
    /\ UNCHANGED <<reg, authority, hosted, owned, clock>>

ActivationStep(p) ==
    \/ SavePrior(p) \/ Provision(p) \/ BindReceivers(p) \/ InstallPrograms(p)
    \/ VerifyAgent(p) \/ Cutover(p) \/ DispatchListener(p) \/ CompleteActivation(p)

------------------------------------------------------------------------------

CommandStep(p) ==
    \/ PrepareService(p) \/ ReviewService(p) \/ LaunchChecks(p) \/ LaunchStep(p)
    \/ \E o \in Owners : SaveOwnerPlan(p, o)
    \/ StageRun(p) \/ ReviewRun(p)
    \/ \E pl \in DOMAIN run, refresh \in BOOLEAN : OpenClaim(p, pl, refresh)
    \/ TakeHandle(p) \/ Arm(p) \/ PrepareClaim(p) \/ RefreshClaim(p)
    \/ \E pl \in DOMAIN run, proof \in proofs : BeginComplete(p, pl, proof)
    \/ Redeem(p) \/ Unlink(p)
    \/ \E pl \in DOMAIN run : ActivateChecks(p, pl)
    \/ ActivationStep(p)

Upset ==
    \/ \E p \in Procs : Stop(p)
    \/ Reboot \/ Register \/ Administer
    \/ \E l \in Labels : ListenerExits(l)

SetupNext ==
    \/ Tick /\ UNCHANGED upsets
    \/ (\E p \in Procs : CommandStep(p)) /\ UNCHANGED upsets
    \/ upsets < MaxUpsets /\ Upset /\ upsets' = upsets + 1

SetupSpec == SetupInit /\ [][SetupNext]_vars

------------------------------------------------------------------------------
(* Properties                                                               *)

\* The owner is a proof that was shown to a Wallet for a reviewed run, inside
\* the setup window (redeem).  Only the owner's run is ever started, and no
\* effect outside the run (the native provision, the stop of the unclaimed
\* service, the start of the owner's listener) is dispatched twice for one run,
\* however often it is interrupted and called again: activate saves the record
\* of the dispatch before the dispatch.
OwnerRuns ==
    /\ store # None /\ store.state = "active" =>
         /\ store.proof \in proofs /\ Reviewed(store.proof.plan)
         /\ store.armed <= store.proof.issued /\ store.proof.expires <= store.deadline
         /\ store.proof = store.chal
    /\ \A pl \in DOMAIN run :
         /\ Marked(pl, "started") => OwnerOf(pl)
         /\ Marked(pl, "active") => job[LabelOf(pl)] = pl
         /\ \A e \in Effects : run[pl].sent[e] <= 1

\* A job of the owner's installation is in place, or serves, only for the
\* registered owner, after the native policy and both receiver bindings were
\* installed and the agent was read back as ready on them: neither a stop
\* between two steps nor a reboot brings up a job of another run.
AdministersOnlyInstalled ==
    \A l \in Labels : \A pl \in {job[l], listener[l]} \ {None, Unclaimed} :
        /\ OwnerOf(pl) /\ l = LabelOf(pl)
        /\ {"started", "native", "configured", "agent"} \subseteq run[pl].phases
        /\ run[pl].prev < recv.v2

\* The installation serves its registered owner only, as reviewed and at most once per effect
\* (owner_install.py activate, owner_bootstrap.py redeem).
OwnerInv == OwnerRuns /\ AdministersOnlyInstalled

Claim == INSTANCE OneTimeClaim WITH
    Claims <- Challenge,
    Nothing <- None,
    window <- IF store = None \/ store.state = "uninitialized" THEN None ELSE store.deadline,
    taken <- IF store = None THEN None ELSE store.proof

\* Whatever interleaving of claim-prepare, claim-refresh and claim-complete by
\* however many keys, the claim store behaves as a one-time claim: the setup
\* deadline is set once and the owner is registered once.
ImplementsClaim == Claim!ClaimSpec

====
