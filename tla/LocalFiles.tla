----------------------------- MODULE LocalFiles ------------------------------
(***************************************************************************)
(* The small files that the commands of one machine's operator share, with *)
(* their locks: the discovery records and the signer profile.              *)
(*                                                                         *)
(* Local discovery of the graph (local_resources.py, local_services.py).   *)
(* The registration file beside the host's configuration holds the graph's *)
(* resource identifier; register writes it and then publishes a record     *)
(* under ~/.zenith/resources, refresh publishes it again after a start,    *)
(* and publish_service adds a record per interface under                   *)
(* ~/.zenith/services.  All of them take the file lock beside the          *)
(* configuration; the refresh of the private service first reads the       *)
(* registration without it.  Any process may be killed between two writes. *)
(*                                                                         *)
(* A connection is Private (no Wallet connection, the loopback address) or *)
(* one of Connections; it stands for the endpoint too.  seal numbers the   *)
(* contents of the registration file: each write carries a new timestamp.  *)
(*                                                                         *)
(* The signer profile of one operator (ops/signer_profile.py): the saved   *)
(* reference to a Wallet key, made by `auth setup`, `auth key create` and  *)
(* removed by `auth forget`, from several shells at once.  The profile     *)
(* file is replaced under an exclusive lock that is never waited for.  The *)
(* Wallet holds the keys and is external.                                  *)
(***************************************************************************)
EXTENDS Integers, FiniteSets

CONSTANTS
    Registrars,     \* processes
    Connections,    \* Wallet connections
    Private, Nobody,
    MaxSeals,       \* bound: writes of the registration file
    MaxRegistryStops \* bound: processes killed

VARIABLES
    registration,   \* [id, conn, seal]; id 0: no file
    resources,      \* published records of ~/.zenith/resources: [id, conn]
    services,       \* published records of ~/.zenith/services: [id, interface, conn]
    crowded,        \* the directories hold as many foreign records as they may
    holderOf,       \* the process that holds the lock, or Nobody
    ids,            \* resource identifiers drawn
    job,            \* [Registrars -> what the process is doing]
    registryStops

registryVars ==
    <<registration, resources, services, crowded, holderOf, ids, job, registryStops>>

Resting == [at |-> "rest"]

RegistryInit ==
    /\ registration = [id |-> 0, conn |-> Private, seal |-> 0]
    /\ resources = {}
    /\ services = {}
    /\ crowded = FALSE
    /\ holderOf = Nobody
    /\ ids = 0
    /\ job = [p \in Registrars |-> Resting]
    /\ registryStops = 0

\* Other applications fill the shared directories and clear them again.
OthersPublish ==
    /\ crowded' = ~crowded
    /\ UNCHANGED <<registration, resources, services, holderOf, ids, job, registryStops>>

\* A process starts; one that passes an expected digest has read the file.
StartJob(p) ==
    /\ job[p] = Resting
    /\ \E j \in
          [at : {"register"}, conn : Connections \cup {Private}, replace : BOOLEAN,
           expected : {0, registration.seal}]
          \cup {[at |-> "refresh"]}
          \cup [at : {"serve"}, interface : {"wallet-api"}, conn : Connections,
                expected : {0, registration.seal}]
          \cup {[at |-> "read"]} :
             job' = [job EXCEPT ![p] = j]
    /\ UNCHANGED <<registration, resources, services, crowded, holderOf, ids, registryStops>>

Rest(p) == job' = [job EXCEPT ![p] = Resting]

\* flock with LOCK_EX; the kernel releases it with the process.
Lock(p) ==
    /\ job[p].at \in {"register", "refresh", "serve"}
    /\ holderOf = Nobody
    /\ holderOf' = p
    /\ UNCHANGED <<registration, resources, services, crowded, ids, job, registryStops>>

\* register_resource up to the write of the registration file: an identifier
\* once drawn is kept, and anything else changes only on request.
Registrable(j) ==
    /\ j.expected # 0 => registration.seal = j.expected
    /\ registration.id = 0 \/ j.replace \/ registration.conn = j.conn

\* Mutant of Register: the record is published before the identifier is
\* persisted.
PublishedFirstMut(p) ==
    /\ holderOf = p /\ job[p].at = "register"
    /\ IF Registrable(job[p]) /\ registration.seal < MaxSeals
       THEN LET id == IF registration.id = 0 THEN ids + 1 ELSE registration.id IN
            /\ ids' = IF registration.id = 0 THEN ids + 1 ELSE ids
            /\ resources' = {r \in resources : r.id # id} \cup {[id |-> id, conn |-> job[p].conn]}
            /\ job' = [job EXCEPT ![p] = [at |-> "publish"]]
            /\ UNCHANGED <<registration, holderOf>>
       ELSE /\ Rest(p) /\ holderOf' = Nobody
            /\ UNCHANGED <<registration, resources, ids>>
    /\ UNCHANGED <<services, crowded, registryStops>>

Register(p) ==
    /\ holderOf = p /\ job[p].at = "register"
    /\ IF Registrable(job[p]) /\ registration.seal < MaxSeals
       THEN LET id == IF registration.id = 0 THEN ids + 1 ELSE registration.id IN
            /\ ids' = IF registration.id = 0 THEN ids + 1 ELSE ids
            /\ registration' = [id |-> id, conn |-> job[p].conn, seal |-> registration.seal + 1]
            /\ job' = [job EXCEPT ![p] = [at |-> "publish"]]
            /\ UNCHANGED holderOf
       ELSE /\ Rest(p) /\ holderOf' = Nobody
            /\ UNCHANGED <<registration, ids>>
    /\ UNCHANGED <<resources, services, crowded, registryStops>>

\* _publish: a record of this graph is replaced, a new one needs room.
Publishable(id) == (\E r \in resources : r.id = id) \/ ~crowded

\* The record register or refresh publishes is the one in the file.
PublishResource(p) ==
    /\ holderOf = p /\ job[p].at \in {"publish", "refresh"}
    /\ LET id == registration.id IN
       resources' =
          IF id # 0 /\ Publishable(id)
          THEN {r \in resources : r.id # id} \cup {[id |-> id, conn |-> registration.conn]}
          ELSE resources
    /\ Rest(p) /\ holderOf' = Nobody
    /\ UNCHANGED <<registration, services, crowded, ids, registryStops>>

\* refresh_private_service reads the registration without the lock.  A graph
\* registered with a Wallet connection is left for review.
ReadPrivate(p) ==
    /\ job[p].at = "read"
    /\ IF registration.id # 0 /\ registration.conn = Private
       THEN job' = [job EXCEPT ![p] = [at |-> "serve", interface |-> "private-api",
                                       conn |-> Private, expected |-> 0]]
       ELSE Rest(p)
    /\ UNCHANGED <<registration, resources, services, crowded, holderOf, ids, registryStops>>

\* publish_service; an instance is named by graph, interface and endpoint.
PublishService(p) ==
    /\ holderOf = p /\ job[p].at = "serve"
    /\ LET j == job[p]
           record == [id |-> registration.id, interface |-> j.interface, conn |-> j.conn]
       IN services' =
             IF /\ registration.id # 0
                /\ j.expected # 0 => registration.seal = j.expected
                /\ record \in services \/ ~crowded
             THEN services \cup {record}
             ELSE services
    /\ Rest(p) /\ holderOf' = Nobody
    /\ UNCHANGED <<registration, resources, crowded, ids, registryStops>>

RegistrarStops(p) ==
    /\ job[p] # Resting /\ registryStops < MaxRegistryStops
    /\ registryStops' = registryStops + 1
    /\ Rest(p)
    /\ holderOf' = IF holderOf = p THEN Nobody ELSE holderOf
    /\ UNCHANGED <<registration, resources, services, crowded, ids>>

RegistryNext ==
    \/ OthersPublish
    \/ \E p \in Registrars :
          \/ StartJob(p)
          \/ Lock(p)
          \/ Register(p)
          \/ PublishResource(p)
          \/ ReadPrivate(p)
          \/ PublishService(p)
          \/ RegistrarStops(p)

RegistrySpec == RegistryInit /\ [][RegistryNext]_registryVars

-----------------------------------------------------------------------------
(* Properties                                                              *)

\* One graph is published under one identity, through any number of killed
\* registrations, refreshes and replaced connections: every resource and
\* service record carries the identifier of the registration file, which the
\* code persists before publication, and a private service is never
\* published at the address of a Wallet connection
\* (refresh_private_service's unlocked read).
OneIdentity ==
    /\ \A r \in resources \cup services : registration.id # 0 /\ r.id = registration.id
    /\ \A s \in services : s.interface = "private-api" => s.conn = Private

-----------------------------------------------------------------------------
(* The signer profile                                                      *)

CONSTANTS
    Shells,         \* processes running one command each at a time
    KeyPaths,       \* key files
    Pins,           \* public keys, in the order the Wallet makes them
    NoKey, NoSigner, NoShell,
    MaxCommands

VARIABLES walletKeys, signer, profileLock, shell, commands

signerVars == <<walletKeys, signer, profileLock, shell, commands>>

References == [path : KeyPaths, pin : Pins]
NoCommand ==
    [at |-> "idle", does |-> "none", replace |-> FALSE, reference |-> NoSigner, result |-> "none"]

SignerInit ==
    /\ walletKeys \in {[p \in KeyPaths |-> NoKey], [p \in KeyPaths |-> IF p = 1 THEN 1 ELSE NoKey]}
    /\ signer = NoSigner
    /\ profileLock = NoShell
    /\ shell = [s \in Shells |-> NoCommand]
    /\ commands = 0

-----------------------------------------------------------------------------

Becomes(s, c) == shell' = [shell EXCEPT ![s] = c]

\* A command returns or raises: closing the descriptor frees the lock.
Returns(s, result) ==
    /\ Becomes(s, [shell[s] EXCEPT !.at = "idle", !.result = result])
    /\ profileLock' = IF profileLock = s THEN NoShell ELSE profileLock

Begins(s) ==
    /\ shell[s].at = "idle" /\ commands < MaxCommands
    /\ commands' = commands + 1

\* check_wallet_identity: the key file holds the key of this pin.
CheckIdentity(r) == walletKeys[r.path] = r.pin

\* configure_signer: the Wallet is asked before the lock is taken, and may not answer in time.
BeginConfigure(s, r, replace, answers) ==
    /\ Begins(s)
    /\ Becomes(s, [NoCommand EXCEPT
                     !.at = IF CheckIdentity(r) /\ answers THEN "lock" ELSE "idle",
                     !.does = "configure", !.replace = replace, !.reference = r,
                     !.result = IF CheckIdentity(r) /\ answers THEN "none" ELSE "error"])
    /\ UNCHANGED <<walletKeys, signer, profileLock>>

\* create_signer: refused while the environment overrides the profile.
BeginCreate(s, path, overridden) ==
    /\ Begins(s)
    /\ Becomes(s, [NoCommand EXCEPT
                     !.at = IF overridden THEN "idle" ELSE "lock", !.does = "create",
                     !.reference = [path |-> path, pin |-> NoKey],
                     !.result = IF overridden THEN "error" ELSE "none"])
    /\ UNCHANGED <<walletKeys, signer, profileLock>>

BeginForget(s) ==
    /\ Begins(s)
    /\ Becomes(s, [NoCommand EXCEPT !.at = "lock", !.does = "forget"])
    /\ UNCHANGED <<walletKeys, signer, profileLock>>

\* Mutant of TakeLock: the lock is not looked at.
UnlockedMut(s) ==
    /\ shell[s].at = "lock"
    /\ profileLock' = s /\ Becomes(s, [shell[s] EXCEPT !.at = "read"])
    /\ UNCHANGED <<walletKeys, signer, commands>>

\* _locked: LOCK_EX | LOCK_NB.
TakeLock(s) ==
    /\ shell[s].at = "lock"
    /\ IF profileLock = NoShell
       THEN profileLock' = s /\ Becomes(s, [shell[s] EXCEPT !.at = "read"])
       ELSE Returns(s, "error")
    /\ UNCHANGED <<walletKeys, signer, commands>>

\* _read, and what each command makes of a profile that is there.
ReadProfile(s) ==
    /\ shell[s].at = "read"
    /\ LET c == shell[s]
       IN  IF c.does = "forget"
           THEN IF signer = NoSigner THEN Returns(s, "kept")
                ELSE Becomes(s, [c EXCEPT !.at = "unlink"]) /\ UNCHANGED profileLock
           ELSE IF signer # NoSigner /\ ~c.replace THEN Returns(s, "error")
           ELSE /\ Becomes(s, [c EXCEPT !.at = IF c.does = "create" THEN "wallet" ELSE "save"])
                /\ UNCHANGED profileLock
    /\ UNCHANGED <<walletKeys, signer, commands>>

\* wallet_key_operation(--create-identity): a key is never overwritten; the answer may be lost.
CreateKey(s, answers) ==
    /\ shell[s].at = "wallet"
    /\ LET path == shell[s].reference.path
           fresh == {n \in Pins : \A p \in KeyPaths : walletKeys[p] # n}
           made == CHOOSE n \in fresh : \A m \in fresh : n <= m
       IN  IF walletKeys[path] # NoKey \/ fresh = {}
           THEN Returns(s, "error") /\ UNCHANGED walletKeys
           ELSE /\ walletKeys' = [walletKeys EXCEPT ![path] = made]
                /\ IF answers
                   THEN /\ Becomes(s, [shell[s] EXCEPT !.at = "verify", !.reference.pin = made])
                        /\ UNCHANGED profileLock
                   ELSE Returns(s, "error")
    /\ UNCHANGED <<signer, commands>>

\* The identity check of the key just made; a failure leaves the key and says so.
VerifyCreated(s, answers) ==
    /\ shell[s].at = "verify"
    /\ IF CheckIdentity(shell[s].reference) /\ answers
       THEN Becomes(s, [shell[s] EXCEPT !.at = "save"]) /\ UNCHANGED profileLock
       ELSE Returns(s, "incomplete")
    /\ UNCHANGED <<walletKeys, signer, commands>>

\* _save_reference: a temporary file takes the profile's name.  It can fail before that and,
\* in the directory's fsync, after it.
SaveReference(s, written, synced) ==
    /\ shell[s].at = "save" /\ (synced => written)
    /\ signer' = IF written THEN shell[s].reference ELSE signer
    /\ Returns(s, IF synced THEN "configured"
                  ELSE IF shell[s].does = "create" THEN "incomplete" ELSE "error")
    /\ UNCHANGED <<walletKeys, commands>>

UnlinkProfile(s, synced) ==
    /\ shell[s].at = "unlink"
    /\ signer' = NoSigner
    /\ Returns(s, IF synced THEN "removed" ELSE "error")
    /\ UNCHANGED <<walletKeys, commands>>

\* The process is killed; the kernel drops its lock.
KillShell(s) ==
    /\ shell[s].at # "idle"
    /\ Returns(s, "killed")
    /\ UNCHANGED <<walletKeys, signer, commands>>

\* signer_environment and signer_status: a complete environment pair wins, half a pair is an error.
Status(s, environment, pair, check) ==
    /\ Begins(s)
    /\ LET r == IF environment = "pair" THEN pair ELSE signer
       IN  Becomes(s, [NoCommand EXCEPT
                !.does = "status", !.reference = r,
                !.result = IF environment = "half" THEN "error"
                           ELSE IF r = NoSigner THEN "unconfigured"
                           ELSE IF ~check THEN "configured"
                           ELSE IF CheckIdentity(r) THEN "verified" ELSE "error"])
    /\ UNCHANGED <<walletKeys, signer, profileLock>>

SignerNext ==
    \E s \in Shells :
        \/ \E r \in References, replace, answers \in BOOLEAN : BeginConfigure(s, r, replace, answers)
        \/ \E p \in KeyPaths, overridden \in BOOLEAN : BeginCreate(s, p, overridden)
        \/ BeginForget(s)
        \/ TakeLock(s)
        \/ ReadProfile(s)
        \/ \E answers \in BOOLEAN : CreateKey(s, answers)
        \/ \E answers \in BOOLEAN : VerifyCreated(s, answers)
        \/ \E written, synced \in BOOLEAN : SaveReference(s, written, synced)
        \/ \E synced \in BOOLEAN : UnlinkProfile(s, synced)
        \/ KillShell(s)
        \/ \E environment \in {"none", "pair", "half"}, pair \in References, check \in BOOLEAN :
               Status(s, environment, pair, check)

SignerSpec == SignerInit /\ [][SignerNext]_signerVars

-----------------------------------------------------------------------------
\* A saved reference gives way to another only where --replace was asked for; setup and key
\* creation without it fill an empty profile, from however many shells and wherever one is killed.
\* And a saved reference always pins the key its path holds: it can sign.
ProfileDecided ==
    /\ [](signer # NoSigner => CheckIdentity(signer))
    /\ [][signer # NoSigner /\ signer' \notin {NoSigner, signer} =>
            \E s \in Shells : shell[s].at = "save" /\ shell'[s].at = "idle" /\ shell[s].replace]_signerVars
=============================================================================
