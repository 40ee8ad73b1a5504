---------------------------- MODULE Maintenance ----------------------------
(***************************************************************************)
(* The managed maintenance of a local host.                                *)
(*                                                                         *)
(* The recovery pairs (ops/local_recovery.py) are copies of one managed    *)
(* database backup, of the wallet's signing identity and of the secS       *)
(* authority, kept on two disks.  create_recovery fills one directory per  *)
(* disk, publishes both as the latest and then retires old pairs.          *)
(*                                                                         *)
(* A backup (ops/local_maintenance.py) stops both services, dumps the two  *)
(* databases, creates a recovery pair, readmits the services, retires old  *)
(* artifacts and records what happened; `local recovery create` makes a    *)
(* pair from an earlier backup.  Around them an operator starts and stops  *)
(* the services and changes the signer, the policy and the receiver.       *)
(* Every step may be the last one of the process that takes it: it may     *)
(* raise, or be killed.                                                    *)
(***************************************************************************)
EXTENDS Naturals, FiniteSets, TLC

CONSTANTS
  Jobs,         \* processes that run maintenance commands
  Signers,      \* wallet signing identities
  MaxBackups,   \* bound: managed backups ever begun
  MaxSets,      \* bound: recovery ids ever drawn
  MaxTime,      \* bound: readings of the wall clock, which may step back
  MaxVersion,   \* bound: generations of the secS authority
  KeepPairs,    \* KEEP_RECOVERY_PAIRS
  KeepBackups,  \* KEEP_BACKUPS
  MaxDisturbed  \* bound: interventions of the operator and damaged files

ASSUME MaintenanceBounds ==
  /\ {MaxBackups, MaxSets, MaxTime, MaxVersion, MaxDisturbed} \subseteq Nat
  /\ {KeepPairs, KeepBackups} \subseteq Nat \ {0}

VARIABLES
  backups,      \* the managed artifacts a recovery set copies
  sets,         \* the directories under each recovery root, by recovery id
  latest,       \* latest.json of each root; 0 where there is none
  signer,       \* the identity the wallet signs with now
  authority,    \* the secS authority in force: policy and key registry
  drawn,        \* recovery ids drawn so far
  rec,          \* each job's place in create_recovery
  job,          \* what each job is doing; its lock is held unless idle
  db,           \* the Neo4j process: up, draining (no PID file), down
  api,          \* whether the API's launch agent is loaded and serving
  pins,         \* the receiver files under secrets/secs-magik
  begun,        \* managed artifact ids drawn so far
  disturbed,    \* interventions so far
  result,       \* backup-result.json
  lastManaged,  \* last-managed-backup.json; 0 where there is none
  lastBackup    \* last-backup.json; 0 where there is none

host == <<db, api, pins>>
records == <<result, lastManaged, lastBackup>>
pairs == <<sets, latest, signer, authority, drawn>>
vars == <<backups, sets, latest, signer, authority, drawn, rec, job, db, api, pins, begun,
          disturbed, result, lastManaged, lastBackup>>

Roots == {"internal", "external"}
BackupIds == 1 .. MaxBackups
SetIds == 1 .. MaxSets
Authorities == [version : 1 .. MaxVersion, registry : 1 .. MaxVersion, actor : Signers,
                revoked : BOOLEAN]

\* What _snapshot_support saved of the receiver: the key registry, the policy
\* binding and whether receiver.json was there at all.
Pins == [version : 1 .. MaxVersion, registry : 1 .. MaxVersion, admitted : BOOLEAN]

Absent == [state |-> "absent"]
Partial == [state |-> "partial"]
SetRecords == [state : {"whole", "damaged"}, backup : BackupIds,
               signer : Signers, binding : Authorities, at : 0 .. MaxTime]

Idle == [pc |-> "idle"]

\* manifest.json is written last, so a directory without one is partial; the
\* files of a complete set may rot.
Written(d) == d.state \in {"whole", "damaged"}

NoJob == [pc |-> "idle"]
NoResult == [successful |-> TRUE]

\* The receiver files that go with the authority in force: a revoked policy has
\* its admission withdrawn.
Bound ==
  [version |-> authority.version, registry |-> authority.registry,
   admitted |-> ~authority.revoked]

Init ==
  /\ backups = [b \in BackupIds |-> Absent]
  /\ sets = [r \in Roots |-> [i \in SetIds |-> Absent]]
  /\ latest = [r \in Roots |-> 0]
  /\ signer \in Signers
  /\ \E revoked \in BOOLEAN :
       authority = [version |-> 1, registry |-> 1, actor |-> signer, revoked |-> revoked]
  /\ drawn = 0
  /\ rec = [j \in Jobs |-> Idle]
  /\ job = [j \in Jobs |-> NoJob]
  /\ db = "up" /\ api = TRUE
  /\ pins = Bound
  /\ begun = 0 /\ disturbed = 0
  /\ result = NoResult /\ lastManaged = 0 /\ lastBackup = 0

-----------------------------------------------------------------------------
(* verify_recovery_set and its parts *)

\* verify_recovery_set succeeds on complete, undamaged sets only.
Verified(root, i) == sets[root][i].state = "whole"

\* _match_signer: the policy authorises the exported identity.
MatchSigner(policy, public) == policy.actor = public

\* _match_receiver: the saved receiver is bound to this policy, or is absent
\* because every rule of the policy is revoked.
MatchReceiver(saved, policy) ==
  /\ saved.registry = policy.registry
  /\ IF saved.admitted THEN saved.version = policy.version ELSE policy.revoked

\* The identity two copies must share before retention treats them as a pair.
Identity(d) == <<d.backup, d.signer, d.binding>>

VerifiedPairs == {i \in SetIds : /\ \A r \in Roots : Verified(r, i)
                                 /\ Identity(sets["internal"][i]) = Identity(sets["external"][i])}

\* max(timestamps): of the two readings of the clock only the later one counts,
\* and it is kept with the copy made second.
CreatedAt(i) == sets["external"][i].at

\* sorted(verified, reverse=True): later first, ties by the name of the set.
Before(i, k) == CreatedAt(k) < CreatedAt(i) \/ (CreatedAt(k) = CreatedAt(i) /\ k < i)

\* Mutant of Protected: the pair just published is not protected as such.
ProtectedMut(newest) ==
  {i \in VerifiedPairs : Cardinality({k \in VerifiedPairs : Before(k, i)}) < KeepPairs}

\* The new pair, and the latest others until KEEP_RECOVERY_PAIRS are protected.
Protected(newest) ==
  {newest} \cup {i \in VerifiedPairs \ {newest} :
                   Cardinality({k \in VerifiedPairs \ {newest} : Before(k, i)}) + 1 < KeepPairs}

-----------------------------------------------------------------------------
(* create_recovery *)

Go(j, r) == rec' = [rec EXCEPT ![j] = r]

\* The caller sees either a successful result or an exception.
Succeed(j) == Go(j, [pc |-> "ok"])
Raise(j) == Go(j, [pc |-> "raised"])

\* The verified artifact, the disks, the signer profile and the free space are
\* checked, and a recovery id drawn.
BeginRecovery(j, b) ==
  /\ rec[j] = Idle
  /\ IF b \in BackupIds /\ backups[b].state = "whole" /\ drawn < MaxSets
     THEN \/ /\ drawn' = drawn + 1
             /\ Go(j, [pc |-> "export", root |-> "internal", id |-> drawn', backup |-> b,
                       signer |-> signer, binding |-> {}])
          \/ Raise(j) /\ UNCHANGED drawn
     ELSE Raise(j) /\ UNCHANGED drawn
  /\ UNCHANGED <<sets, latest, signer, authority>>

\* The directory is made, the database copied and checked against the artifact's
\* manifest, and the wallet exports the identity it holds now.
Export(j) ==
  /\ rec[j].pc = "export"
  /\ sets' = [sets EXCEPT ![rec[j].root][rec[j].id] = Partial]
  /\ \/ /\ signer = rec[j].signer
        /\ backups[rec[j].backup].state = "whole"
        /\ Go(j, [rec[j] EXCEPT !.pc = "snapshot"])
     \/ Raise(j)
  /\ UNCHANGED <<latest, signer, authority, drawn>>

\* Mutant of SameGeneration: the copies may hold different authorities.
SameGenerationMut(binding) == TRUE

\* "authority_changed_during_recovery"
SameGeneration(binding) == binding \in {{}, {authority}}

\* secS writes a consistent snapshot of the authority in force now; the
\* manifest is written and the whole set verified.
Snapshot(j) ==
  /\ rec[j].pc = "snapshot"
  /\ \/ /\ MatchSigner(authority, rec[j].signer)
        /\ SameGeneration(rec[j].binding)
        /\ MatchReceiver(backups[rec[j].backup].pins, authority)
        /\ \E t \in IF rec[j].root = "internal" THEN {0} ELSE 1 .. MaxTime :
             sets' = [sets EXCEPT ![rec[j].root][rec[j].id] =
                        [state |-> "whole", backup |-> rec[j].backup, signer |-> rec[j].signer,
                         binding |-> authority, at |-> t]]
        /\ Go(j, [rec[j] EXCEPT !.binding = {authority}, !.root = "external",
                                !.pc = IF rec[j].root = "internal" THEN "export" ELSE "recheck"])
     \/ Raise(j) /\ UNCHANGED sets
  /\ UNCHANGED <<latest, signer, authority, drawn>>

\* "A changed signer profile ... cannot become a mixed latest pair."
Recheck(j) ==
  /\ rec[j].pc = "recheck"
  /\ IF signer = rec[j].signer
     THEN Go(j, [rec[j] EXCEPT !.pc = "publish", !.root = "internal"])
     ELSE Raise(j)
  /\ UNCHANGED <<sets, latest, signer, authority, drawn>>

\* latest.json of one root is replaced; the other root follows.
Publish(j) ==
  /\ rec[j].pc = "publish"
  /\ \/ /\ latest' = [latest EXCEPT ![rec[j].root] = rec[j].id]
        /\ Go(j, IF rec[j].root = "internal"
                 THEN [rec[j] EXCEPT !.root = "external"]
                 ELSE [pc |-> "retain", id |-> rec[j].id])
     \/ Raise(j) /\ UNCHANGED latest
  /\ UNCHANGED <<sets, signer, authority, drawn>>

\* retain_recovery_pairs lists the verified pairs and picks those to retire.
Retain(j) ==
  /\ rec[j].pc = "retain"
  /\ LET doomed == VerifiedPairs \ Protected(rec[j].id)
     IN  IF doomed = {}
         THEN Succeed(j)
         ELSE \E i \in doomed :
                Go(j, [pc |-> "remove", root |-> "internal", id |-> i, rest |-> doomed \ {i}])
  /\ UNCHANGED <<sets, latest, signer, authority, drawn>>

\* "Verify again immediately before deletion"
StillVerified(root, i) == Verified(root, i)

\* One directory of a retired pair is removed, or only some of it; create_recovery
\* has succeeded already and reports a retention that raises as incomplete.
Remove(j) ==
  LET r == rec[j]
      cut == [sets EXCEPT ![r.root][r.id] = Partial]
      gone == [sets EXCEPT ![r.root][r.id] = Absent]
  IN  /\ r.pc = "remove"
      /\ IF ~StillVerified(r.root, r.id)
         THEN Succeed(j) /\ UNCHANGED sets
         ELSE \/ sets' = cut /\ Succeed(j)
              \/ /\ sets' = gone
                 /\ \/ /\ r.root = "internal"
                       /\ Go(j, [r EXCEPT !.root = "external"])
                    \/ /\ r.root = "external" /\ r.rest = {}
                       /\ Succeed(j)
                    \/ /\ r.root = "external"
                       /\ \E i \in r.rest :
                            Go(j, [r EXCEPT !.root = "internal", !.id = i, !.rest = @ \ {i}])
      /\ UNCHANGED <<latest, signer, authority, drawn>>

-----------------------------------------------------------------------------
(* The maintenance lock, and the services *)

\* flock with LOCK_EX | LOCK_NB: a job that finds the lock held gives up.
LockFree == \A j \in Jobs : job[j] = NoJob

Healthy == api /\ db = "up"

\* stop_local_services unloads both jobs; Neo4j drains before it exits.
UnloadBoth ==
  /\ api' = FALSE
  /\ db' = IF db = "up" THEN "draining" ELSE db

\* wait_for_neo4j_exit follows the process it saw before unloading; when there
\* was no PID file then, only the PID file tells.
Exited(tracked) == db = "down" \/ (~tracked /\ db = "draining")

\* start_local_services unloads the API, loads Neo4j, applies the migrations and
\* admits the API; it may fail after each of these.
StartServices ==
  \/ UNCHANGED <<db, api>>
  \/ api' = FALSE /\ UNCHANGED db
  \/ api' = FALSE /\ db # "draining" /\ db' = "up"
  \/ api' = TRUE /\ db # "draining" /\ db' = "up"

-----------------------------------------------------------------------------
(* backup *)

Step(j, r) == job' = [job EXCEPT ![j] = r]

StartBackup(j) ==
  /\ LockFree /\ job[j] = NoJob
  /\ result' = [successful |-> FALSE]
  /\ Step(j, [pc |-> "admit"])
  /\ UNCHANGED <<disturbed, backups, rec, begun, lastManaged, lastBackup, pairs, host>>

\* Free space and the health of the source are checked, then the artifact's
\* directory made.
Admit(j) ==
  /\ job[j].pc = "admit"
  /\ \/ /\ Healthy /\ begun < MaxBackups
        /\ begun' = begun + 1
        /\ backups' = [backups EXCEPT ![begun'] = Partial]
        /\ Step(j, [pc |-> "stop", id |-> begun'])
     \/ /\ Step(j, [pc |-> "report", ok |-> FALSE])
        /\ UNCHANGED <<begun, backups>>
  /\ UNCHANGED <<disturbed, rec, records, pairs, host>>

Stop(j) ==
  /\ job[j].pc = "stop"
  /\ UnloadBoth
  /\ Step(j, [pc |-> "exit", id |-> job[j].id, tracked |-> db = "up"])
  /\ UNCHANGED <<disturbed, backups, rec, begun, pins, records, pairs>>

\* The exit is proven and both jobs are still unloaded, or the stop is not
\* proven: the wait is bounded and an ambiguous answer ends it.
AwaitExit(j) ==
  /\ job[j].pc = "exit"
  /\ \/ /\ Exited(job[j].tracked) /\ ~api
        /\ Step(j, [pc |-> "dump", id |-> job[j].id, database |-> "neo4j"])
     \/ Step(j, [pc |-> "readmit", ok |-> FALSE])
  /\ UNCHANGED <<disturbed, backups, rec, begun, records, pairs, host>>

\* neo4j-admin checks and dumps one database; it refuses a store in use.
Dump(j) ==
  /\ job[j].pc = "dump"
  /\ \/ /\ db = "down"
        /\ Step(j, IF job[j].database = "neo4j"
                   THEN [job[j] EXCEPT !.database = "system"]
                   ELSE [pc |-> "manifest", id |-> job[j].id])
     \/ Step(j, [pc |-> "readmit", ok |-> FALSE])
  /\ UNCHANGED <<disturbed, backups, rec, begun, records, pairs, host>>

\* _snapshot_support copies the receiver; the manifest is written and verified.
Manifest(j) ==
  /\ job[j].pc = "manifest"
  /\ \/ /\ backups' = [backups EXCEPT ![job[j].id] = [state |-> "whole", pins |-> pins]]
        /\ Step(j, [job[j] EXCEPT !.pc = "point"])
     \/ Step(j, [pc |-> "readmit", ok |-> FALSE]) /\ UNCHANGED backups
  /\ UNCHANGED <<disturbed, rec, begun, records, pairs, host>>

\* last-managed-backup.json, then the recovery pair.
PointManaged(j) ==
  /\ job[j].pc = "point"
  /\ lastManaged' = job[j].id
  /\ Step(j, [job[j] EXCEPT !.pc = "recover"])
  /\ BeginRecovery(j, job[j].id)
  /\ UNCHANGED <<disturbed, backups, begun, result, lastBackup, host>>

\* Mutant of Recovered: an exception of create_recovery passes for a result.
RecoveredMut(j) == rec[j].pc \in {"ok", "raised"}

Recovered(j) == rec[j].pc = "ok"

\* "recovery_snapshot_failed" when create_recovery raised.
AfterRecovery(j) ==
  /\ job[j].pc = "recover" /\ rec[j].pc \in {"ok", "raised"}
  /\ Step(j, [pc |-> "readmit", id |-> job[j].id, ok |-> Recovered(j)])
  /\ rec' = [rec EXCEPT ![j] = Idle]
  /\ UNCHANGED <<disturbed, backups, begun, records, pairs, host>>

\* The finally clause: `local start` of the selected release and _wait_ready;
\* a readmission that is not proven fails the run.
Readmit(j) ==
  /\ job[j].pc = "readmit"
  /\ StartServices
  /\ \/ /\ Healthy'
        /\ Step(j, [job[j] EXCEPT !.pc = "report"])
     \/ Step(j, [job[j] EXCEPT !.pc = "report", !.ok = FALSE])
  /\ UNCHANGED <<disturbed, backups, rec, begun, pins, records, pairs>>

Report(j) ==
  /\ job[j].pc = "report"
  /\ result' = [successful |-> job[j].ok]
  /\ Step(j, IF job[j].ok THEN [pc |-> "retire", id |-> job[j].id] ELSE NoJob)
  /\ UNCHANGED <<disturbed, backups, rec, begun, lastManaged, lastBackup, pairs, host>>

\* retain_backups keeps the latest KEEP_BACKUPS verified artifacts; completed_at
\* follows the order in which they were begun.
Surplus ==
  {b \in BackupIds : /\ backups[b].state = "whole"
                     /\ Cardinality({k \in BackupIds : k > b /\ backups[k].state = "whole"})
                          >= KeepBackups}

\* One surplus artifact is removed, or part of it, which ends the run with an
\* exception.
Retire(j) ==
  /\ job[j].pc = "retire"
  /\ \E b \in Surplus :
       \/ backups' = [backups EXCEPT ![b] = Absent] /\ UNCHANGED job
       \/ backups' = [backups EXCEPT ![b] = Partial] /\ Step(j, NoJob)
  /\ UNCHANGED <<disturbed, rec, begun, records, pairs, host>>

\* last-backup.json, and the result once more, when retention is through.
PointLast(j) ==
  /\ job[j].pc = "retire" /\ Surplus = {}
  /\ lastBackup' = job[j].id
  /\ result' = [successful |-> TRUE]
  /\ Step(j, NoJob)
  /\ UNCHANGED <<disturbed, backups, rec, begun, lastManaged, pairs, host>>

-----------------------------------------------------------------------------
(* local recovery create, on the artifact given or last-managed-backup.json's *)

StartRecovery(j, b) ==
  /\ LockFree /\ job[j] = NoJob
  /\ BeginRecovery(j, b)
  /\ Step(j, [pc |-> "create"])
  /\ UNCHANGED <<disturbed, backups, begun, records, host>>

FinishRecovery(j) ==
  /\ job[j].pc = "create" /\ rec[j].pc \in {"ok", "raised"}
  /\ Step(j, NoJob)
  /\ rec' = [rec EXCEPT ![j] = Idle]
  /\ UNCHANGED <<disturbed, backups, begun, records, pairs, host>>

CreateRecovery(j) ==
  /\ Export(j) \/ Snapshot(j) \/ Recheck(j) \/ Publish(j) \/ Retain(j) \/ Remove(j)
  /\ UNCHANGED <<disturbed, backups, job, begun, records, host>>

\* A job is killed: the kernel frees its lock, everything else stays as it is.
Killed(j) ==
  /\ job[j] # NoJob
  /\ Step(j, NoJob)
  /\ rec' = [rec EXCEPT ![j] = Idle]
  /\ UNCHANGED <<disturbed, backups, begun, records, pairs, host>>

-----------------------------------------------------------------------------
(* The operator, and the machine *)

Disturbing == disturbed < MaxDisturbed /\ disturbed' = disturbed + 1

\* `local start` and `local stop` do not take the maintenance lock; a start beside
\* a running job counts as an intervention.
LocalStart ==
  /\ StartServices
  /\ IF LockFree THEN UNCHANGED disturbed ELSE Disturbing
  /\ UNCHANGED <<backups, rec, job, begun, pins, records, pairs>>

LocalStop ==
  /\ Disturbing
  /\ UnloadBoth
  /\ UNCHANGED <<backups, rec, job, begun, pins, records, pairs>>

DatabaseExits ==
  /\ db = "draining" /\ db' = "down"
  /\ UNCHANGED <<backups, rec, job, begun, disturbed, api, pins, records, pairs>>

RotateSigner ==
  /\ Disturbing
  /\ signer' \in Signers \ {signer}
  /\ UNCHANGED <<backups, rec, job, begun, sets, latest, authority, drawn, records, host>>

\* A new policy for the current signer, or one that revokes every rule, with the
\* same verifier keys or new ones.
ChangePolicy ==
  /\ Disturbing
  /\ authority.version < MaxVersion
  /\ LET next == authority.version + 1
     IN  \E revoked \in BOOLEAN, keys \in {authority.registry, next} :
           authority' = [version |-> next, registry |-> keys, actor |-> signer, revoked |-> revoked]
  /\ UNCHANGED <<backups, rec, job, begun, sets, latest, signer, drawn, records, host>>

\* The receiver files follow the authority, some time after it changed.
BindReceiver ==
  /\ pins' = Bound
  /\ UNCHANGED <<backups, rec, job, begun, disturbed, db, api, records, pairs>>

\* A stored file rots.
Damage ==
  /\ Disturbing
  /\ UNCHANGED <<rec, job, begun, latest, signer, authority, drawn, records, host>>
  /\ \/ /\ \E r \in Roots, i \in SetIds :
             /\ sets[r][i].state = "whole"
             /\ sets' = [sets EXCEPT ![r][i].state = "damaged"]
        /\ UNCHANGED backups
     \/ /\ \E b \in BackupIds :
             /\ backups[b].state = "whole"
             /\ backups' = [backups EXCEPT ![b].state = "damaged"]
        /\ UNCHANGED sets

BackupStep(j) ==
  \/ StartBackup(j) \/ Admit(j) \/ Stop(j) \/ AwaitExit(j) \/ Dump(j) \/ Manifest(j)
  \/ PointManaged(j) \/ AfterRecovery(j) \/ Readmit(j) \/ Report(j) \/ Retire(j) \/ PointLast(j)

Next ==
  \/ \E j \in Jobs : BackupStep(j) \/ CreateRecovery(j) \/ FinishRecovery(j) \/ Killed(j)
  \/ \E j \in Jobs, b \in BackupIds : StartRecovery(j, b)
  \/ LocalStart \/ LocalStop \/ DatabaseExits
  \/ RotateSigner \/ ChangePolicy \/ BindReceiver \/ Damage

Spec == Init /\ [][Next]_vars

-----------------------------------------------------------------------------
(* Properties *)

TypeOK ==
  /\ backups \in [BackupIds -> {Absent, Partial} \cup [state : {"whole", "damaged"}, pins : Pins]]
  /\ sets \in [Roots -> [SetIds -> {Absent, Partial} \cup SetRecords]]
  /\ latest \in [Roots -> SetIds \cup {0}]
  /\ signer \in Signers /\ authority \in Authorities /\ pins \in Pins
  /\ drawn \in 0 .. MaxSets /\ begun \in 0 .. MaxBackups /\ disturbed \in 0 .. MaxDisturbed
  /\ db \in {"up", "draining", "down"} /\ api \in BOOLEAN
  /\ result \in [successful : BOOLEAN]
  /\ {lastManaged, lastBackup} \subseteq BackupIds \cup {0}

\* Two complete copies of one backup, one identity and one authority.
Pair(i) ==
  /\ \A r \in Roots : Written(sets[r][i])
  /\ Identity(sets["internal"][i]) = Identity(sets["external"][i])

\* A published reference names a complete set that has its like on the other
\* disk, even where a publication was cut between the two references.
LatestIsAPair == \A r \in Roots : latest[r] # 0 => Pair(latest[r])

\* Every complete set could be restored: its policy authorises its signer, and
\* the receiver in its database copy is bound to its policy.
SetsAgree ==
  \A r \in Roots, i \in SetIds : Written(sets[r][i]) =>
    LET s == sets[r][i]
        b == backups[s.backup]
    IN  /\ MatchSigner(s.binding, s.signer)
        /\ Written(b) => MatchReceiver(b.pins, s.binding)

\* last-managed-backup.json, from which `local recovery create` starts, names an
\* artifact retention has left in place.
ManagedIsThere == lastManaged # 0 => Written(backups[lastManaged])

RecoveryInv == TypeOK /\ LatestIsAPair /\ SetsAgree /\ ManagedIsThere

\* Retention (retain_recovery_pairs) removes a set only if it verified at that
\* very moment, is not the latest of either root, and leaves KEEP_RECOVERY_PAIRS
\* other pairs.
RemovalsAreSafe ==
  [][\A r \in Roots, i \in SetIds :
       Written(sets[r][i]) /\ ~Written(sets'[r][i]) =>
         /\ Verified(r, i)
         /\ \A q \in Roots : latest[q] # i
         /\ Cardinality({k \in SetIds \ {i} : Pair(k)}) >= KeepPairs]_vars

\* last-backup.json is written (backup) only for a run whose recovery pair is
\* complete and is the latest on both disks.
SuccessIsComplete ==
  [][\A b \in BackupIds : lastBackup' = b /\ lastBackup # b =>
       /\ latest["internal"] = latest["external"]
       /\ latest["internal"] # 0
       /\ sets["internal"][latest["internal"]].backup = b
       /\ Pair(latest["internal"])]_vars

\* A run that fails, is killed or sees a clock step back costs no pair that is still needed,
\* and never passes for a success (local_maintenance.backup, retain_recovery_pairs).
RecoveryIsKept == RemovalsAreSafe /\ SuccessIsComplete

\* Jobs are interchangeable in the instances that TLC checks, and so are signers.
Symmetry ==
    Permutations(Jobs) \cup Permutations(Signers)
=============================================================================
