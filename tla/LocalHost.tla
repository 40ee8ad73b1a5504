------------------------------ MODULE LocalHost -------------------------------
(***************************************************************************)
(* Setting up the local macOS host (local_host.py): "devgraph local        *)
(* configure" writes the storage secret, Neo4j's configuration, the read   *)
(* credential and its receiver registry, the database's initial password,  *)
(* both launch agents and, last, local.json; "read-credential rotate"      *)
(* replaces the credential pair; the API admits readers by the registry    *)
(* (auth/local_read.py).  A command may be killed inside any write.        *)
(*                                                                         *)
(* A file holds a number (a configuration, a password, a token), Absent,   *)
(* or TornFile when its writer was killed between creating and filling it.     *)
(* One operator runs one command at a time; what they change by hand they  *)
(* change between commands.  neo4j-admin's set-initial-password is         *)
(* external: it sets the password and fills the data directory, or fails   *)
(* and leaves it empty.                                                    *)
(***************************************************************************)
EXTENDS Naturals, FiniteSets

CONSTANTS
    Configs,          \* configurations of one data root (numbers)
    Absent, TornFile,
    MaxDraws,         \* bound: passwords and tokens drawn
    MaxHostUpsets     \* bound: kills, failures, edits by hand

VARIABLES
    file,        \* [Files -> contents]
    leftover,    \* files whose ".new" sibling a killed writer left behind
    dbPassword,  \* the password in Neo4j's data directory; 0: the directory is empty
    expired,     \* tokens whose registry entry has run out
    drawn,       \* passwords and tokens drawn so far
    cli,         \* the running command, or the answer of the last one
    hostUpsets

hostVars == <<file, leftover, dbPassword, expired, drawn, cli, hostUpsets>>

Agents == {"neo4j.plist", "api.plist"}
Files == {"secret", "neo4j.conf", "registry", "token", "local.json"} \cup Agents
Rendered == 0     \* neo4j.conf as rendered for this data root
Edited == 1       \* neo4j.conf after an edit by hand
HostIdle == {"none", "ready", "rotated", "failed", "killed"}

HostInit ==
    /\ file = [f \in Files |-> Absent]
    /\ leftover = {}
    /\ dbPassword = 0
    /\ expired = {}
    /\ drawn = 0
    /\ cli = [at |-> "none"]
    /\ hostUpsets = 0

-----------------------------------------------------------------------------
(* The surroundings.                                                       *)

HostUpset == hostUpsets < MaxHostUpsets /\ hostUpsets' = hostUpsets + 1

\* A file is lost, or neo4j.conf is edited, between two commands.
OperatorEdits ==
    /\ cli.at \in HostIdle /\ HostUpset
    /\ \/ \E f \in {"secret", "registry", "token"} :
             file[f] # Absent /\ file' = [file EXCEPT ![f] = Absent]
       \/ file["neo4j.conf"] = Rendered /\ file' = [file EXCEPT !["neo4j.conf"] = Edited]
    /\ UNCHANGED <<leftover, dbPassword, expired, drawn, cli>>

TokenExpires ==
    /\ file["registry"] \notin {Absent, TornFile} \cup expired
    /\ HostUpset
    /\ expired' = expired \cup {file["registry"]}
    /\ UNCHANGED <<file, leftover, dbPassword, drawn, cli>>

-----------------------------------------------------------------------------
(* Writing one file.                                                       *)

\* What happens to a file's path when contents c are written there: a new
\* file is created exclusively, an existing one replaced through ".new".
Writable(f) == file[f] = Absent \/ f \notin leftover

Wrote(f, c) == file' = [file EXCEPT ![f] = c] /\ UNCHANGED leftover

\* The command fails without another write.
Fail == cli' = [at |-> "failed"] /\ UNCHANGED <<file, leftover, dbPassword, drawn>>

\* The command is killed inside the write of f, before it took effect.
KilledWriting(f) ==
    /\ HostUpset
    /\ cli' = [at |-> "killed"]
    /\ IF file[f] = Absent
       THEN file' = [file EXCEPT ![f] = TornFile] /\ UNCHANGED leftover
       ELSE leftover' = leftover \cup {f} /\ UNCHANGED file
    /\ UNCHANGED <<dbPassword, drawn>>

-----------------------------------------------------------------------------
(* devgraph local configure                                                *)

\* _validate_replaceable_file: a different or torn local.json is replaced
\* only on request.
ConfigReplaceable == file["local.json"] \in {Absent, cli.cfg} \/ cli.replace

\* _validate_agent_target: an existing agent is kept when equal and replaced,
\* on request, only when it parses and carries the expected label.
AgentReplaceable(f) ==
    \/ file[f] \in {Absent, cli.cfg}
    \/ cli.replace /\ file[f] # TornFile

Configure(c, replace) ==
    /\ cli.at \in HostIdle /\ drawn + 2 <= MaxDraws
    /\ cli' = [at |-> "validate", cfg |-> c, replace |-> replace, rotate |-> FALSE]
    /\ UNCHANGED <<file, leftover, dbPassword, drawn>>

\* Everything configure_local_host validates before its first write.
ConfigureChecks ==
    /\ cli.at = "validate"
    /\ IF ConfigReplaceable /\ \A f \in Agents : AgentReplaceable(f)
       THEN cli' = [cli EXCEPT !.at = "secret"] /\ UNCHANGED <<file, leftover, dbPassword, drawn>>
       ELSE Fail

\* Mutant of SecretAdmissible: a lost secret is generated again although the
\* database already has a password.
RegeneratedMut == file["secret"] # TornFile

\* provision_storage refuses database files without their secret, and
\* _write_secret_once refuses an empty secret file.
SecretAdmissible == file["secret"] # TornFile /\ ~(file["secret"] = Absent /\ dbPassword # 0)

ProvisionSecret ==
    /\ cli.at = "secret"
    /\ IF ~SecretAdmissible
       THEN Fail
       ELSE \/ /\ file["secret"] # Absent
               /\ cli' = [cli EXCEPT !.at = "conf"]
               /\ UNCHANGED <<file, leftover, dbPassword, drawn>>
            \/ /\ file["secret"] = Absent
               /\ drawn' = drawn + 1
               /\ Wrote("secret", drawn')
               /\ cli' = [cli EXCEPT !.at = "conf"]
               /\ UNCHANGED dbPassword

\* _write_config_once: an existing configuration must be the rendered one.
ProvisionConf ==
    /\ cli.at = "conf"
    /\ IF file["neo4j.conf"] \in {Absent, Rendered}
       THEN /\ Wrote("neo4j.conf", Rendered)
            /\ cli' = [cli EXCEPT !.at = "registry"]
            /\ UNCHANGED <<dbPassword, drawn>>
       ELSE Fail

\* LocalReadCredentialVerifier.verify: the registry is read on every call.
Admits(t) == t = file["registry"] /\ t \notin {Absent, TornFile} \cup expired

Half == (file["token"] = Absent) # (file["registry"] = Absent)
Whole == file["token"] # Absent /\ file["registry"] # Absent

\* configure goes on to the password, rotate to its status report.
AfterPair == IF cli.rotate THEN "status" ELSE "password"

\* provision_local_read_credential up to the write of the registry.
ProvisionRegistry ==
    /\ cli.at = "registry"
    /\ \/ /\ ~cli.rotate /\ Whole /\ Admits(file["token"])
          /\ cli' = [cli EXCEPT !.at = AfterPair]
          /\ UNCHANGED <<file, leftover, dbPassword, drawn>>
       \/ /\ ~cli.rotate /\ (Half \/ (Whole /\ ~Admits(file["token"])))
          /\ Fail
       \/ /\ cli.rotate \/ ~(Half \/ Whole)
          /\ IF Writable("registry")
             THEN /\ drawn' = drawn + 1
                  /\ Wrote("registry", drawn')
                  /\ cli' = [cli EXCEPT !.at = "token"]
                  /\ UNCHANGED dbPassword
             ELSE Fail

ProvisionToken ==
    /\ cli.at = "token"
    /\ IF Writable("token")
       THEN /\ Wrote("token", drawn)
            /\ cli' = [cli EXCEPT !.at = AfterPair]
            /\ UNCHANGED <<dbPassword, drawn>>
       ELSE Fail

\* initialize_initial_password
InitialPassword ==
    /\ cli.at = "password"
    /\ dbPassword' = IF dbPassword = 0 THEN file["secret"] ELSE dbPassword
    /\ cli' = [cli EXCEPT !.at = "neo4j.plist"]
    /\ UNCHANGED <<file, leftover, drawn>>

\* The data root or an executable is missing, or neo4j-admin fails.
Unavailable ==
    /\ cli.at = "validate" \/ (cli.at = "password" /\ dbPassword = 0)
    /\ HostUpset /\ Fail

\* install_agents validates both targets again, to the same result, and
\* writes both.
AfterAgent(f) == IF f = "neo4j.plist" THEN "api.plist" ELSE "local.json"

InstallAgent(f) ==
    /\ cli.at = f
    /\ IF file[f] = cli.cfg \/ Writable(f)
       THEN /\ Wrote(f, cli.cfg)
            /\ cli' = [cli EXCEPT !.at = AfterAgent(f)]
            /\ UNCHANGED <<dbPassword, drawn>>
       ELSE Fail

WriteLocalConfig ==
    /\ cli.at = "local.json"
    /\ IF file["local.json"] = cli.cfg \/ Writable("local.json")
       THEN /\ Wrote("local.json", cli.cfg)
            /\ cli' = [at |-> "ready", cfg |-> cli.cfg]
            /\ UNCHANGED <<dbPassword, drawn>>
       ELSE Fail

-----------------------------------------------------------------------------
(* devgraph local read-credential rotate                                   *)

\* The command needs a local.json that loads.
Rotate ==
    /\ cli.at \in HostIdle /\ drawn < MaxDraws
    /\ file["local.json"] \in Configs
    /\ cli' = [at |-> "registry", cfg |-> file["local.json"], replace |-> TRUE, rotate |-> TRUE]
    /\ UNCHANGED <<file, leftover, dbPassword, drawn>>

\* local_read_credential_status: the new token must verify.
RotateStatus ==
    /\ cli.at = "status"
    /\ IF Admits(file["token"])
       THEN cli' = [at |-> "rotated"] /\ UNCHANGED <<file, leftover, dbPassword, drawn>>
       ELSE Fail

-----------------------------------------------------------------------------
Kill ==
    \/ cli.at \in Files /\ file[cli.at] # cli.cfg /\ KilledWriting(cli.at)
    \/ cli.at = "conf" /\ file["neo4j.conf"] = Absent /\ KilledWriting("neo4j.conf")
    \/ /\ cli.at \in {"validate", "password", "status"} /\ HostUpset
       /\ cli' = [at |-> "killed"]
       /\ UNCHANGED <<file, leftover, dbPassword, drawn>>

Command ==
    \/ \E c \in Configs, replace \in BOOLEAN : Configure(c, replace)
    \/ ConfigureChecks
    \/ ProvisionSecret
    \/ ProvisionConf
    \/ ProvisionRegistry
    \/ ProvisionToken
    \/ InitialPassword
    \/ \E f \in Agents : InstallAgent(f)
    \/ WriteLocalConfig
    \/ Rotate
    \/ RotateStatus

HostNext ==
    \/ OperatorEdits
    \/ TokenExpires
    \/ Command /\ UNCHANGED <<expired, hostUpsets>>
    \/ (Unavailable \/ Kill) /\ UNCHANGED <<expired>>

HostSpec == HostInit /\ [][HostNext]_hostVars

-----------------------------------------------------------------------------
(* Properties                                                              *)

\* A configure that answers ready_to_start (local_host.py, configure_local_host)
\* leaves a host that can be started, whatever earlier commands were killed
\* and whatever was lost in between: the secret file holds the password the
\* database was initialised with, the token is the one the registry knows,
\* neo4j.conf is the rendered one and both agents and local.json are of the
\* configuration asked for.
ReadyIsComplete ==
    [][cli.at # "ready" /\ cli'.at = "ready" =>
          /\ file'["secret"] = dbPassword' /\ dbPassword' \in 1 .. MaxDraws
          /\ file'["token"] = file'["registry"] /\ file'["token"] \in 1 .. MaxDraws
          /\ file'["neo4j.conf"] = Rendered
          /\ \A f \in Agents \cup {"local.json"} : file'[f] = cli.cfg]_hostVars
====
