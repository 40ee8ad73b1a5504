------------------------------ MODULE MCProgress ------------------------------
(***************************************************************************)
(* What must eventually happen, for TLC: on the service, the audit queue   *)
(* and migrations; on the owner's machine, the Arena upgrade and the       *)
(* browser's native host.  They share no state: part names the one that    *)
(* runs, the others stay where they began.  Each is given the fairness its *)
(* module states.  The operator who retries a migration and the clock of   *)
(* the native host could act in an initial state, so their fairness holds  *)
(* for their own part only.                                                *)
(***************************************************************************)
EXTENDS RetainedAudit, Migration, OwnerArena, BrowserHost

CONSTANTS e1, e2

VARIABLE part

MCOperationSizes == {2, 4}
MCData == {2}

\* The changes of two endpoints in path order, the manifests last.
TwoEndpoints ==
  << <<"policy", e1>>, <<"policy", e2>>, <<"manifest", e1>>, <<"manifest", e2>> >>

progressVars == <<part, auditVars, vars, arenaVars, browserVars>>

-----------------------------------------------------------------------------
(* The service.                                                             *)

ServiceInit == part \in {"audit", "migration"} /\ AuditInit /\ Init /\ ArenaInit /\ BrowserInit

ServiceNext ==
  \/ part = "audit" /\ AuditNext /\ UNCHANGED <<part, vars, arenaVars, browserVars>>
  \/ part = "migration" /\ Next /\ UNCHANGED <<part, auditVars, arenaVars, browserVars>>

ServiceSpec ==
  /\ ServiceInit
  /\ [][ServiceNext]_progressVars
  /\ AuditFairness /\ Fairness
  /\ \A r \in Runners : SF_vars(part = "migration" /\ Retry(r))

\* A migration that is retried under the attempt that owns it completes and
\* gives the ownership back, whatever failed or crashed before (ops/migrate.py).
MigrationCompletes == part = "migration" => Completes

-----------------------------------------------------------------------------
(* The owner's machine.                                                     *)

MachineInit == part \in {"arena", "browser"} /\ AuditInit /\ Init /\ ArenaInit /\ BrowserInit

MachineNext ==
  \/ part = "arena" /\ ArenaNext /\ UNCHANGED <<part, auditVars, vars, browserVars>>
  \/ part = "browser" /\ BrowserNext /\ UNCHANGED <<part, auditVars, vars, arenaVars>>

MachineSpec ==
  /\ MachineInit
  /\ [][MachineNext]_progressVars
  /\ ArenaFairness /\ BrowserFairness
  /\ WF_browserVars(part = "browser" /\ ClockTicks)
=============================================================================
