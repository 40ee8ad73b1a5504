------------------------------ MODULE OwnerArena ------------------------------
(***************************************************************************)
(* The owner's Arena upgrade (ops/owner_arena_upgrade.py) and the Arena    *)
(* commands it enables (ops/owner_arena_commands.py).                      *)
(*                                                                         *)
(* An upgrade rewrites the policy files and the runtime manifest of every  *)
(* endpoint of the graph.  The files are replaced one at a time by a       *)
(* process that may stop anywhere; what was reviewed, endorsed, started    *)
(* and finished is in the files of the action's directory, and only a      *)
(* later status request takes an interrupted action up again.              *)
(*                                                                         *)
(* The operator, member, enrollment and authority policies of an endpoint  *)
(* are treated alike by an upgrade, and each is refused by a runtime of    *)
(* the other generation: "policy" stands for the four.                     *)
(***************************************************************************)
EXTENDS Naturals, Sequences, FiniteSets

CONSTANTS
    Upgrades,        \* the action ids
    Endpoints,       \* the endpoints of the registered owner; Primary is one
    Primary,
    Workers,         \* RPC processes working on upgrades
    NotYet,
    FileOrder,       \* the changes in the order apply makes them
    ApprovalTicks,   \* lifetime of a challenge
    PolicyEnds,      \* the end of the original policy's validity
    MaxArenaTime,    \* bound: the clock
    MaxArenaFaults        \* bound: revisions of policies by others, and processes
                     \* that stop half-way

VARIABLES
    file,      \* content of each policy file and manifest: generation, revision
    loaded,    \* the manifest each endpoint's service was started with
    up,        \* the directory of each action
    worker,    \* the processes
    create,    \* the Arena command of the owner: its challenge and receipt
    arenaTime, edits, crashes

arenaVars == <<file, loaded, up, worker, create, arenaTime, edits, crashes>>

Kinds == {"policy", "manifest"}

Files == Kinds \X Endpoints

ASSUME FileOrderAssumption ==
    /\ Primary \in Endpoints
    /\ FileOrder \in [1..Cardinality(Files) -> Files]
    /\ \A i, j \in DOMAIN FileOrder :
         /\ FileOrder[i] = FileOrder[j] => i = j
         /\ FileOrder[i][1] = "manifest" /\ i < j => FileOrder[j][1] = "manifest"

Old == [gen |-> NotYet, rev |-> 0]

NoUpgrade ==
    [dir |-> FALSE, before |-> NotYet, expires |-> NotYet, endorsed |-> FALSE, cancelled |-> FALSE,
     prior |-> {}, started |-> FALSE, result |-> FALSE]

Resting == [pc |-> "rest", up |-> NotYet, arg |-> NotYet, locked |-> FALSE]

ArenaInit ==
    /\ file = [f \in Files |-> Old]
    /\ loaded = [e \in Endpoints |-> Old]
    /\ up = [u \in Upgrades |-> NoUpgrade]
    /\ worker = [w \in Workers |-> Resting]
    /\ create = [under |-> NotYet, expires |-> NotYet, arenas |-> 0, receipt |-> FALSE]
    /\ arenaTime = 0 /\ edits = 0 /\ crashes = 0

------------------------------------------------------------------------------

Does(w, pc) == worker[w].pc = pc

Now(w, pc, u, arg, locked) ==
    worker' = [worker EXCEPT ![w] = [pc |-> pc, up |-> u, arg |-> arg, locked |-> locked]]

Then(w, pc) == worker' = [worker EXCEPT ![w].pc = pc]

PolicyEnd(w) == worker' = [worker EXCEPT ![w] = Resting]

\* action_lock of the action, and .apply.lock of them all.
ActionFree(u) == \A w \in Workers : ~(worker[w].up = u /\ worker[w].locked)

Applying == {"start", "files", "stop", "boot", "result"}

ApplyFree == \A w \in Workers : worker[w].pc \notin Applying

\* A process stops: its locks are released, its files stay.
ArenaCrash(w) ==
    /\ ~Does(w, "rest") /\ crashes + edits < MaxArenaFaults
    /\ crashes' = crashes + 1
    /\ PolicyEnd(w)
    /\ UNCHANGED <<file, loaded, up, create, arenaTime, edits>>

ArenaTick ==
    /\ arenaTime < MaxArenaTime
    /\ arenaTime' = arenaTime + 1
    /\ UNCHANGED <<file, loaded, up, worker, create, edits, crashes>>

\* A member assignment is revised in place.
EditMembers(e) ==
    /\ crashes + edits < MaxArenaFaults
    /\ edits' = edits + 1
    /\ file' = [file EXCEPT ![<<"policy", e>>].rev = @ + 1]
    /\ UNCHANGED <<loaded, up, worker, create, arenaTime, crashes>>

------------------------------------------------------------------------------
(* Review and endorsement                                                   *)

\* _configuration and _plan: nothing is upgraded yet, the operator policies are
\* the reviewed ones and every member policy has the original ceiling.
Plannable == \A f \in Files : file[f].gen = NotYet

Target(u, f) == [gen |-> u, rev |-> up[u].before[f].rev + 1]

\* challenge: the directory is made for a new action id, then the proposal and
\* the challenge are saved; an action that exists is only shown again.  Of two
\* requests that find no directory, the one whose O_EXCL save fails ends.
OpenUpgrade(w, u) ==
    /\ Does(w, "rest")
    /\ Plannable /\ arenaTime < PolicyEnds /\ ~up[u].dir
    /\ up' = [up EXCEPT ![u].dir = TRUE]
    /\ Now(w, "challenge", u, file, FALSE)
    /\ UNCHANGED <<file, loaded, create, arenaTime, edits, crashes>>

SaveChallenge(w) ==
    /\ Does(w, "challenge")
    /\ up' = [up EXCEPT ![worker[w].up].before = worker[w].arg,
                        ![worker[w].up].expires = arenaTime + ApprovalTicks]
    /\ PolicyEnd(w)
    /\ UNCHANGED <<file, loaded, create, arenaTime, edits, crashes>>

\* Mutant of Endorsable: a closed action is not looked for.
ReopenedMut(u) ==
    /\ up[u].expires # NotYet
    /\ Plannable /\ up[u].before = file /\ arenaTime < up[u].expires

\* endorse: the action was not closed by a status request, the plan made now is
\* the reviewed one and the approval is fresh.
Endorsable(u) ==
    /\ up[u].expires # NotYet /\ ~up[u].cancelled
    /\ Plannable /\ up[u].before = file /\ arenaTime < up[u].expires

\* execute: the endorsement is saved under the action's lock, which is released
\* before apply.  The same signature again changes nothing.
Endorse(w, u) ==
    /\ Does(w, "rest") /\ ActionFree(u) /\ Endorsable(u)
    /\ up' = [up EXCEPT ![u].endorsed = TRUE]
    /\ Now(w, "apply", u, NotYet, FALSE)
    /\ UNCHANGED <<file, loaded, create, arenaTime, edits, crashes>>

\* status: closes an action that was never endorsed, and takes up one that was,
\* still holding the action's lock.
Status(w, u) ==
    /\ Does(w, "rest") /\ ActionFree(u) /\ up[u].expires # NotYet
    /\ IF up[u].endorsed
         THEN up' = up /\ Now(w, "apply", u, NotYet, TRUE)
         ELSE up' = [up EXCEPT ![u].cancelled = TRUE] /\ UNCHANGED worker
    /\ UNCHANGED <<file, loaded, create, arenaTime, edits, crashes>>

------------------------------------------------------------------------------
(* apply                                                                    *)

\* Every file is as reviewed, or already the target; the original policy is
\* still valid.
Unblocked(u) ==
    /\ up[u].before # NotYet
    /\ arenaTime < PolicyEnds
    /\ \A f \in Files : file[f] \in {up[u].before[f], Target(u, f)}

\* The lock and the checks of apply.  A finished action only returns its
\* result; otherwise the files about to change are backed up.
ApplyChecks(w) ==
    LET u == worker[w].up IN
    /\ Does(w, "apply")
    /\ IF ApplyFree /\ ~up[u].result /\ Unblocked(u)
         THEN /\ up' = [up EXCEPT ![u].prior = @ \cup {f \in Files : file[f] = up[u].before[f]}]
              /\ Then(w, "start")
         ELSE up' = up /\ PolicyEnd(w)
    /\ UNCHANGED <<file, loaded, create, arenaTime, edits, crashes>>

StartUpgrade(w) ==
    /\ Does(w, "start")
    /\ up' = [up EXCEPT ![worker[w].up].started = TRUE]
    /\ Then(w, "files")
    /\ UNCHANGED <<file, loaded, create, arenaTime, edits, crashes>>

\* Mutant of Pending: a file that has its target content already is not skipped.
NotSkippedMut(u) ==
    IF \A f \in Files : file[f] = Target(u, f) THEN <<>> ELSE FileOrder

\* The changes still to make, in order: policies before manifests.
Pending(u) == SelectSeq(FileOrder, LAMBDA f : file[f] # Target(u, f))

\* Mutant of ReplaceFile: the file is written without comparing it first.
OverwriteMut(w) ==
    LET u == worker[w].up IN
    /\ Does(w, "files") /\ Pending(u) # <<>>
    /\ file' = [file EXCEPT ![Head(Pending(u))] = Target(u, Head(Pending(u)))]
    /\ UNCHANGED <<loaded, up, worker, create, arenaTime, edits, crashes>>

\* replace: only the reviewed content is replaced.
ReplaceFile(w) ==
    LET u == worker[w].up IN
    /\ Does(w, "files") /\ Pending(u) # <<>>
    /\ IF file[Head(Pending(u))] = up[u].before[Head(Pending(u))]
         THEN file' = [file EXCEPT ![Head(Pending(u))] = Target(u, Head(Pending(u)))]
              /\ UNCHANGED worker
         ELSE file' = file /\ PolicyEnd(w)
    /\ UNCHANGED <<loaded, up, create, arenaTime, edits, crashes>>

\* The jobs to restart, in the order of their names.
Jobs == SelectSeq(FileOrder, LAMBDA f : f[1] = "manifest")

\* The read-back finds every target; then the jobs are restarted one by one.
ReadBack(w) ==
    /\ Does(w, "files") /\ Pending(worker[w].up) = <<>>
    /\ Now(w, "stop", worker[w].up, Jobs, worker[w].locked)
    /\ UNCHANGED <<file, loaded, up, create, arenaTime, edits, crashes>>

\* _restart: bootout, confirmed, then bootstrap of the same job.
Restart(w) ==
    LET e == Head(worker[w].arg)[2]
        rest == Tail(worker[w].arg) IN
    /\ \/ /\ Does(w, "stop")
          /\ loaded' = [loaded EXCEPT ![e] = NotYet]
          /\ Then(w, "boot")
       \/ /\ Does(w, "boot")
          /\ loaded' = [loaded EXCEPT ![e] = file[<<"manifest", e>>]]
          /\ worker' = [worker EXCEPT ![w].pc = IF rest = <<>> THEN "result" ELSE "stop",
                                      ![w].arg = rest]
    /\ UNCHANGED <<file, up, create, arenaTime, edits, crashes>>

SaveResult(w) ==
    /\ Does(w, "result")
    /\ up' = [up EXCEPT ![worker[w].up].result = TRUE]
    /\ PolicyEnd(w)
    /\ UNCHANGED <<file, loaded, create, arenaTime, edits, crashes>>

------------------------------------------------------------------------------
(* The owner's Arena command                                                *)

\* OwnerArenaCommands.binding: the manifest names an endorsed upgrade and the
\* operator policy is the one it endorses.
Role ==
    LET g == file[<<"manifest", Primary>>].gen IN
    /\ g # NotYet /\ up[g].endorsed
    /\ file[<<"policy", Primary>>].gen = g /\ arenaTime < PolicyEnds

CommandChallenge ==
    /\ Role /\ create.expires = NotYet
    /\ create' = [create EXCEPT !.under = file[<<"manifest", Primary>>].gen,
                                !.expires = arenaTime + ApprovalTicks]
    /\ UNCHANGED <<file, loaded, up, worker, arenaTime, edits, crashes>>

\* execute: the binding and the approval are verified again, inside the
\* adapter; a repeated command finds its receipt.
CommandExecute ==
    /\ create.expires # NotYet /\ arenaTime < create.expires
    /\ Role /\ file[<<"manifest", Primary>>].gen = create.under
    /\ create' = [create EXCEPT !.receipt = TRUE,
                                !.arenas = IF create.receipt THEN @ ELSE @ + 1]
    /\ UNCHANGED <<file, loaded, up, worker, arenaTime, edits, crashes>>

------------------------------------------------------------------------------

WorkerStep(w) ==
    \/ SaveChallenge(w) \/ ApplyChecks(w) \/ StartUpgrade(w)
    \/ ReplaceFile(w) \/ ReadBack(w) \/ Restart(w) \/ SaveResult(w)

ArenaNext ==
    \/ \E w \in Workers :
         \/ WorkerStep(w) \/ ArenaCrash(w)
         \/ \E u \in Upgrades : OpenUpgrade(w, u) \/ Endorse(w, u) \/ Status(w, u)
    \/ \E e \in Endpoints : EditMembers(e)
    \/ CommandChallenge \/ CommandExecute \/ ArenaTick

\* A process goes on until it stops, and the owner's Wallet asks for the status
\* of an action until it has its result.
ArenaFairness ==
    /\ \A w \in Workers : WF_arenaVars(WorkerStep(w))
    /\ \A u \in Upgrades : SF_arenaVars(\E w \in Workers : Status(w, u))

------------------------------------------------------------------------------
(* Properties                                                               *)

\* An action closed as not applied is never applied afterwards, and one that
\* has a result was endorsed (endorse and status share the action's lock).  Two
\* actions never mix: every file that was upgraded belongs to one action, even
\* when an earlier one was left half-way, and its prior content is retained.
\* Manifests come last: a service that is started with an upgraded manifest
\* finds the upgraded policies of every endpoint, and an Arena is created once,
\* under the manifest's endorsed action.
UpgradeInv ==
    /\ \A u \in Upgrades :
         /\ up[u].cancelled => ~up[u].endorsed /\ ~up[u].started
         /\ up[u].result => \A f \in Files : file[f].gen = u
    /\ \A f \in Files : LET u == file[f].gen IN u # NotYet =>
         /\ up[u].started /\ f \in up[u].prior
         /\ \A g \in Files : file[g].gen = NotYet => file[g] = up[u].before[g] \/ edits > 0
         /\ \A g \in Files : file[g].gen \in {u, NotYet}
         /\ f[1] = "manifest" => \A g \in Files : g[1] # "manifest" => file[g].gen = u
    /\ \A e \in Endpoints : loaded[e] # NotYet /\ loaded[e].gen # NotYet =>
         \A g \in Files : file[g].gen = loaded[e].gen
    /\ create.arenas <= 1
    /\ create.arenas = 1 => file[<<"manifest", Primary>>].gen = create.under

\* A revision of a member policy made after the review is never overwritten by
\* the upgrade: apply replaces exactly the content the owner reviewed.
EditsSurvive ==
    [][\A f \in Files : file'[f].gen # file[f].gen =>
          file[f] = up[file'[f].gen].before[f]]_arenaVars

\* However often its process stops, an upgrade that has started is finished by
\* a later status request, unless a file or the validity of the policy was
\* changed under it.
StartedFinishes ==
    \A u \in Upgrades : up[u].started ~> (up[u].result \/ ~Unblocked(u))

\* An upgrade is applied as it was endorsed and reviewed: the files of one action, manifests
\* last, over exactly the content its owner saw (owner_arena_upgrade.py, apply).
UpgradeIsSafe == []UpgradeInv /\ EditsSurvive
====
