--------------------------- MODULE OfflineArtifact ----------------------------
(***************************************************************************)
(* Offline backup artifacts and the guarded restore (ops/backup.py,        *)
(* ops/restore.py, ops/neo4j_offline_backend.py).  dump exports the        *)
(* database of a Docker volume into an artifact directory; the manifest is *)
(* written last.  A restore is planned against an artifact and a target    *)
(* volume, confirmed by a person, checked again and then loaded.           *)
(*                                                                         *)
(* Docker is shared with everybody: a volume without a container may be    *)
(* removed and created again under its name, and a volume may be written   *)
(* at any time.  The adapter therefore creates a container that never runs *)
(* (the holder) to pin a volume while it works.  Contents are numbers; 0   *)
(* is an empty volume or a missing file, Torn a file that was not written  *)
(* to its end.                                                             *)
(***************************************************************************)
EXTENDS Naturals, FiniteSets

CONSTANTS
    Torn,
    MaxContent,        \* bound: states of the source database
    MaxVolumes,        \* bound: volumes created
    MaxDockerUpsets    \* bound: failing commands, killed processes, foreign changes

ASSUME ArtifactAssumption == MaxContent \in Nat \ {0} /\ MaxVolumes \in Nat

VARIABLES
    volume,      \* [Names -> [id, data, labelled, running]], id 0: no such volume
    lastVolume,  \* volumes created so far
    payload,     \* neo4j.dump in the artifact directory
    manifest,    \* manifest.json: the payload and the source volume it describes
    holders,     \* [{"dump", "load"} -> the volume ID its holder pins, or 0]
    scratch,     \* [{"dump", "load"} -> contents of its temporary volume, or Torn for none]
    dumping,     \* the backup process
    restoring,   \* the restore process
    dockerUpsets

artifactVars == <<volume, lastVolume, payload, manifest, holders, scratch, dumping, restoring, dockerUpsets>>

Names == {"source", "target"}
NoScratch == MaxContent + 1
NoManifest == [sum |-> 0, from |-> 0]

ArtifactInit ==
    /\ volume = [source |-> [id |-> 1, data |-> 1, labelled |-> FALSE, running |-> FALSE],
                 target |-> [id |-> 2, data |-> 0, labelled |-> TRUE, running |-> FALSE]]
    /\ lastVolume = 2
    /\ payload = 0
    /\ manifest = NoManifest
    /\ holders = [o \in {"dump", "load"} |-> 0]
    /\ scratch = [o \in {"dump", "load"} |-> NoScratch]
    /\ dumping = [at |-> "idle"]
    /\ restoring = [at |-> "idle"]
    /\ dockerUpsets = 0

-----------------------------------------------------------------------------
(* The surroundings.                                                       *)

Disturb == dockerUpsets < MaxDockerUpsets /\ dockerUpsets' = dockerUpsets + 1

\* Docker refuses to remove a volume that a container uses.
Pinned(name) == \E o \in {"dump", "load"} : holders[o] = volume[name].id

\* The source database is started and stopped, and changes while it runs.
RunSource ==
    /\ dockerUpsets < MaxDockerUpsets
    /\ \/ /\ ~volume["source"].running
          /\ volume' = [volume EXCEPT !["source"].running = TRUE]
          /\ UNCHANGED dockerUpsets
       \/ /\ volume["source"].running /\ volume["source"].data < MaxContent
          /\ volume' = [volume EXCEPT !["source"].data = @ + 1]
          /\ Disturb
       \/ /\ volume["source"].running
          /\ volume' = [volume EXCEPT !["source"].running = FALSE]
          /\ UNCHANGED dockerUpsets
    /\ UNCHANGED <<lastVolume, payload, manifest, holders, scratch, dumping, restoring>>

\* Somebody replaces the target volume, or writes into it.
TouchTarget ==
    /\ Disturb
    /\ \/ /\ ~Pinned("target") /\ lastVolume < MaxVolumes
          /\ \E labelled \in BOOLEAN :
                volume' = [volume EXCEPT !["target"] =
                   [id |-> lastVolume + 1, data |-> 0, labelled |-> labelled, running |-> FALSE]]
          /\ lastVolume' = lastVolume + 1
       \/ /\ ~Pinned("target")
          /\ volume' = [volume EXCEPT !["target"].id = 0]
          /\ UNCHANGED lastVolume
       \/ /\ volume["target"].id # 0 /\ volume["target"].data = 0
          /\ volume' = [volume EXCEPT !["target"].data = MaxContent]
          /\ UNCHANGED lastVolume
    /\ UNCHANGED <<payload, manifest, holders, scratch, dumping, restoring>>

\* The payload in the artifact directory is exchanged.
TouchArtifact ==
    /\ Disturb
    /\ payload \in 1..MaxContent
    /\ \E c \in (1..MaxContent) \ {payload} : payload' = c
    /\ UNCHANGED <<volume, lastVolume, manifest, holders, scratch, dumping, restoring>>

-----------------------------------------------------------------------------
(* The Docker adapter.                                                     *)

\* _inspect_volume: what identifies a volume.
Snapshot(name) == [id |-> volume[name].id, labelled |-> volume[name].labelled]

\* docker create with a mount: a missing volume is created under its name.
MountVolume(name) ==
    IF volume[name].id # 0
    THEN UNCHANGED <<volume, lastVolume>>
    ELSE /\ lastVolume < MaxVolumes
         /\ lastVolume' = lastVolume + 1
         /\ volume' = [volume EXCEPT ![name] =
               [id |-> lastVolume + 1, data |-> 0, labelled |-> FALSE, running |-> FALSE]]

\* The holder of _create_holder: it pins whatever volume has the name now.
Hold(o, name) ==
    /\ MountVolume(name)
    /\ holders' = [holders EXCEPT ![o] = volume'[name].id]

\* Where a command that failed leaves the process.
Failing(p) == [p EXCEPT !.at = "rmtemp", !.ok = FALSE]

\* _remove_volume in the finally block; when it fails, the holder is left behind.
RemoveScratch(o, p) ==
    \/ /\ scratch' = [scratch EXCEPT ![o] = NoScratch]
       /\ p' = [p EXCEPT !.at = "rmholder"]
       /\ UNCHANGED dockerUpsets
    \/ /\ Disturb /\ scratch[o] # NoScratch
       /\ p' = [p EXCEPT !.at = "ended", !.ok = FALSE]
       /\ UNCHANGED scratch

\* Mutant of RemoveHolder: a holder that could not be removed is not reported.
SilentMut(o, p) ==
    \/ /\ holders' = [holders EXCEPT ![o] = 0]
       /\ p' = [p EXCEPT !.at = "ended"]
       /\ UNCHANGED dockerUpsets
    \/ /\ Disturb
       /\ p' = [p EXCEPT !.at = "ended"]
       /\ UNCHANGED holders

\* _remove_container: removed and inspected, or the call fails.
RemoveHolder(o, p) ==
    \/ /\ holders' = [holders EXCEPT ![o] = 0]
       /\ p' = [p EXCEPT !.at = "ended"]
       /\ UNCHANGED dockerUpsets
    \/ /\ Disturb
       /\ p' = [p EXCEPT !.at = "ended", !.ok = FALSE]
       /\ UNCHANGED holders

-----------------------------------------------------------------------------
(* dump and the manifest.                                                  *)

\* dump, first part: an empty artifact directory and an inspected volume.
BeginDump ==
    /\ dumping.at = "idle"
    /\ payload = 0 /\ manifest = NoManifest
    /\ dumping' = [at |-> "inspected", snap |-> Snapshot("source"), ok |-> TRUE, bytes |-> 0]
    /\ UNCHANGED <<volume, lastVolume, payload, manifest, holders, scratch, restoring, dockerUpsets>>

\* The holder, the size probe and the temporary volume.
HoldSource ==
    /\ dumping.at = "inspected"
    /\ Hold("dump", "source")
    /\ scratch' = [scratch EXCEPT !["dump"] = 0]
    /\ dumping' = [dumping EXCEPT !.at = "held"]
    /\ UNCHANGED <<payload, manifest, restoring, dockerUpsets>>

\* neo4j-admin database dump: refuses a database that is in use, may fail.
DumpDatabase ==
    /\ dumping.at = "held"
    /\ \/ /\ ~volume["source"].running
          /\ scratch' = [scratch EXCEPT !["dump"] = volume["source"].data]
          /\ dumping' = [dumping EXCEPT !.at = "dumped", !.bytes = volume["source"].data]
          /\ UNCHANGED dockerUpsets
       \/ /\ volume["source"].running
          /\ dumping' = Failing(dumping)
          /\ UNCHANGED <<scratch, dockerUpsets>>
       \/ /\ Disturb
          /\ dumping' = Failing(dumping)
          /\ UNCHANGED scratch
    /\ UNCHANGED <<volume, lastVolume, payload, manifest, holders, restoring>>

\* payload_export and _write_payload: a new file, written to its end or torn.
WritePayload ==
    /\ dumping.at = "dumped"
    /\ \/ /\ payload = 0
          /\ payload' = scratch["dump"]
          /\ dumping' = [dumping EXCEPT !.at = "rmtemp"]
          /\ UNCHANGED dockerUpsets
       \/ /\ Disturb /\ payload = 0
          /\ payload' = Torn
          /\ dumping' = Failing(dumping)
    /\ UNCHANGED <<volume, lastVolume, manifest, holders, scratch, restoring>>

EndDump ==
    /\ \/ /\ dumping.at = "rmtemp" /\ RemoveScratch("dump", dumping)
          /\ UNCHANGED holders
       \/ /\ dumping.at = "rmholder" /\ RemoveHolder("dump", dumping)
          /\ UNCHANGED scratch
    /\ UNCHANGED <<volume, lastVolume, payload, manifest, restoring>>

\* create_manifest and write_manifest: after a dump that succeeded, what the
\* payload is now; in place, so a process that dies leaves a torn manifest.
WriteManifest ==
    /\ dumping.at = "ended" /\ dumping.ok /\ manifest = NoManifest
    /\ payload # 0
    /\ \/ manifest' = [sum |-> payload, from |-> dumping.snap.id] /\ UNCHANGED dockerUpsets
       \/ manifest' = [sum |-> Torn, from |-> 0] /\ Disturb
    /\ UNCHANGED <<volume, lastVolume, payload, holders, scratch, dumping, restoring>>

-----------------------------------------------------------------------------
(* The restore.                                                            *)

\* load_and_verify_artifact: a whole manifest and exactly the files it lists.
Verified == manifest # NoManifest /\ manifest.sum # Torn /\ payload = manifest.sum

\* preflight_restore: inspect_target agrees with itself while a holder pins the
\* volume, so it is one observation.  The plan needs a disposable, empty volume that is not the source's.
Preflight ==
    /\ restoring.at = "idle"
    /\ Verified
    /\ volume["target"].id \notin {0, manifest.from}
    /\ volume["target"].labelled /\ volume["target"].data = 0
    /\ restoring' = [at |-> "planned", target |-> Snapshot("target"), plan |-> manifest,
                     staged |-> 0, ok |-> TRUE, began |-> FALSE, snap |-> Snapshot("target")]
    /\ UNCHANGED <<volume, lastVolume, payload, manifest, holders, scratch, dumping, dockerUpsets>>

\* _stable_target
StableTarget == Snapshot("target") = restoring.target /\ volume["target"].data = 0

\* execute_restore, up to the private copy: the confirmed plan still describes
\* the target and the artifact, and the copy has the manifest's checksum.
StagePayload ==
    /\ restoring.at = "planned"
    /\ StableTarget /\ Verified /\ manifest = restoring.plan
    /\ restoring' = [restoring EXCEPT !.at = "staged", !.staged = payload]
    /\ UNCHANGED <<volume, lastVolume, payload, manifest, holders, scratch, dumping, dockerUpsets>>

\* The target is inspected again, and load inspects the volume by its name.
BeginLoad ==
    /\ restoring.at = "staged"
    /\ StableTarget
    /\ restoring' = [restoring EXCEPT !.at = "loading", !.snap = Snapshot("target")]
    /\ UNCHANGED <<volume, lastVolume, payload, manifest, holders, scratch, dumping, dockerUpsets>>

\* A check refuses; nothing was changed.
RefuseRestore ==
    /\ \/ restoring.at = "planned" /\ ~(StableTarget /\ Verified /\ manifest = restoring.plan)
       \/ restoring.at = "staged" /\ ~StableTarget
    /\ restoring' = [at |-> "idle"]
    /\ UNCHANGED <<volume, lastVolume, payload, manifest, holders, scratch, dumping, dockerUpsets>>

HoldTarget ==
    /\ restoring.at = "loading"
    /\ Hold("load", "target")
    /\ restoring' = [restoring EXCEPT !.at = "pinned"]
    /\ UNCHANGED <<payload, manifest, scratch, dumping, dockerUpsets>>

\* Mutant of HeldAsPlanned: the volume behind the holder is not compared again.
AnyVolumeMut == TRUE

\* _create_holder compares the volume it pinned, load the target it was given.
HeldAsPlanned == Snapshot("target") = restoring.snap /\ StableTarget

\* The checks behind the holder, then the temporary volume with the payload.
ImportPayload ==
    /\ restoring.at = "pinned"
    /\ \/ /\ HeldAsPlanned
          /\ scratch' = [scratch EXCEPT !["load"] = restoring.staged]
          /\ restoring' = [restoring EXCEPT !.at = "imported"]
          /\ UNCHANGED dockerUpsets
       \/ /\ ~HeldAsPlanned
          /\ restoring' = Failing(restoring)
          /\ UNCHANGED <<scratch, dockerUpsets>>
       \/ /\ Disturb
          /\ scratch' = [scratch EXCEPT !["load"] = 0]
          /\ restoring' = Failing(restoring)
    /\ UNCHANGED <<volume, lastVolume, payload, manifest, holders, dumping>>

\* neo4j-admin database load: refuses a volume that has a database, may fail
\* half way.
LoadDatabase ==
    /\ restoring.at = "imported"
    /\ \/ /\ volume["target"].data = 0
          /\ volume' = [volume EXCEPT !["target"].data = scratch["load"]]
          /\ restoring' = [restoring EXCEPT !.at = "rmtemp", !.began = TRUE]
          /\ UNCHANGED dockerUpsets
       \/ /\ volume["target"].data = 0 /\ Disturb
          /\ volume' = [volume EXCEPT !["target"].data = Torn]
          /\ restoring' = [Failing(restoring) EXCEPT !.began = TRUE]
       \/ /\ volume["target"].data # 0
          /\ restoring' = Failing(restoring)
          /\ UNCHANGED <<volume, dockerUpsets>>
    /\ UNCHANGED <<lastVolume, payload, manifest, holders, scratch, dumping>>

EndLoad ==
    /\ \/ /\ restoring.at = "rmtemp" /\ RemoveScratch("load", restoring)
          /\ UNCHANGED holders
       \/ /\ restoring.at = "rmholder" /\ RemoveHolder("load", restoring)
          /\ UNCHANGED scratch
    /\ UNCHANGED <<volume, lastVolume, payload, manifest, dumping>>

\* complete_post_restore: the checks on the restored database decide.
PostRestore ==
    /\ restoring.at = "ended" /\ restoring.ok
    /\ restoring' = [restoring EXCEPT !.at = IF volume["target"].data = restoring.plan.sum
                                             THEN "ready" ELSE "failed"]
    /\ UNCHANGED <<volume, lastVolume, payload, manifest, holders, scratch, dumping, dockerUpsets>>

\* The process is killed: its containers and temporary volumes stay.
Killed ==
    /\ Disturb
    /\ \/ /\ dumping.at \notin {"idle", "ended"}
          /\ dumping' = [dumping EXCEPT !.at = "ended", !.ok = FALSE]
          /\ UNCHANGED restoring
       \/ /\ restoring.at \notin {"idle", "ended", "ready", "failed"}
          /\ restoring' = [restoring EXCEPT !.at = "ended", !.ok = FALSE]
          /\ UNCHANGED dumping
    /\ UNCHANGED <<volume, lastVolume, payload, manifest, holders, scratch>>

ArtifactNext ==
    \/ RunSource \/ TouchTarget \/ TouchArtifact \/ Killed
    \/ BeginDump \/ HoldSource \/ DumpDatabase \/ WritePayload \/ EndDump \/ WriteManifest
    \/ Preflight \/ StagePayload \/ BeginLoad \/ RefuseRestore
    \/ HoldTarget \/ ImportPayload \/ LoadDatabase \/ EndLoad \/ PostRestore

ArtifactSpec == ArtifactInit /\ [][ArtifactNext]_artifactVars

-----------------------------------------------------------------------------
(* Properties.                                                             *)

\* What a restore puts into a volume is what was confirmed: only the load step
\* writes a database, into the labelled, empty volume of the confirmed plan, and
\* it writes the payload that plan's manifest describes, whatever was exchanged
\* or recreated between the confirmation and the load.
LoadsAsConfirmed ==
    [][restoring.at = "imported" /\ volume' # volume /\ restoring' # restoring =>
          /\ Snapshot("target") = restoring.target /\ restoring.target.labelled
          /\ restoring.target.id # restoring.plan.from
          /\ volume["target"].data = 0
          /\ volume'["target"].data \in {restoring.plan.sum, Torn}
          /\ volume'["source"] = volume["source"]]_artifactVars

\* A call that succeeded left no container and no temporary volume behind.
SuccessLeavesNothing ==
    /\ dumping.at = "ended" /\ dumping.ok => holders["dump"] = 0 /\ scratch["dump"] = NoScratch
    /\ restoring.at \in {"ready", "failed"} => holders["load"] = 0 /\ scratch["load"] = NoScratch

\* An artifact that passes the verification is a whole payload of a dump that
\* succeeded: never a torn one, whichever step the backup stopped at.
VerifiedIsWhole == Verified => payload \in 1..MaxContent /\ dumping.ok

\* A restore loads what was confirmed and nothing else, and success leaves nothing behind
\* (neo4j_offline_backend.py).
RestoresAsConfirmed ==
    [](SuccessLeavesNothing /\ VerifiedIsWhole) /\ LoadsAsConfirmed
=============================================================================
