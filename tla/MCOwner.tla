------------------------------- MODULE MCOwner -------------------------------
(***************************************************************************)
(* The owner's side for TLC: taking the installation over, enabling Arena  *)
(* commands, granting agents native authority, and the native client that  *)
(* uses it.  The four share no state: part names the one that runs, the    *)
(* others stay where they began.                                           *)
(***************************************************************************)
EXTENDS OwnerSetup, OwnerArena, NativeAuthority, NativeClient, TLC

CONSTANTS e1, e2

VARIABLE part

\* The changes of two endpoints in path order, the manifests last.
TwoEndpoints ==
  << <<"policy", e1>>, <<"policy", e2>>, <<"manifest", e1>>, <<"manifest", e2>> >>

ownerVars == <<part, vars, arenaVars, grantVars, nativeVars>>

OwnerInit ==
  /\ part \in {"setup", "arena", "grants", "native"}
  /\ SetupInit /\ ArenaInit /\ GrantInit /\ NativeInit

Others(p) ==
  /\ part = p /\ UNCHANGED part
  /\ p # "setup" => UNCHANGED vars
  /\ p # "arena" => UNCHANGED arenaVars
  /\ p # "grants" => UNCHANGED grantVars
  /\ p # "native" => UNCHANGED nativeVars

OwnerNext ==
  \/ Others("setup") /\ SetupNext
  \/ Others("arena") /\ ArenaNext
  \/ Others("grants") /\ GrantNext
  \/ Others("native") /\ NativeNext

OwnerSpec == OwnerInit /\ [][OwnerNext]_ownerVars

\* The commands are alike, and so are the keys.
Symmetry == Permutations(Procs) \cup Permutations(Owners)
=============================================================================
