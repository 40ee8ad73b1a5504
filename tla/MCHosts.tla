------------------------------- MODULE MCHosts -------------------------------
(***************************************************************************)
(* The programs that run beside the service, for TLC: migrations, the      *)
(* delivery dispatcher, the monitor's replay file, offline artifacts, the  *)
(* local host, its registry and signer profile.                            *)
(*                                                                         *)
(* They share no state, so a behaviour is one of one component: part names *)
(* it, the others stay in their initial states, and the state spaces add   *)
(* up instead of multiplying.                                              *)
(***************************************************************************)
EXTENDS Migration, Dispatcher, MonitorReplay, OfflineArtifact, LocalHost,
        LocalFiles, Topology, TLC

CONSTANTS p1, p2

VARIABLE part

hostsVars == <<part, vars, dispatchVars, replayVars, artifactVars, hostVars,
               registryVars, signerVars, topologyVars>>

MCData == {2}

\* The session of one proof is over before the last clock value, the other's with it.
MCSessionEnd == p1 :> 1 @@ p2 :> 3

-----------------------------------------------------------------------------
(* Topology: two Arenas, a work item with a child that depends on it, and   *)
(* filters that cut at each stage of the selection.                         *)

MCLinks == {<<"A1", "CONTAINS_WORK", "w1">>, <<"w1", "HAS_CHILD", "w2">>, <<"w2", "DEPENDS_ON", "w1">>}
MCOrder == <<"A1", "A2", "w1", "w2">>

Everything ==
  [arena |-> "", anchor |-> "", category |-> {"arena", "work"}, progress |-> {"not_started", "done"},
   archived |-> "include", relationship |-> {"CONTAINS_WORK", "HAS_CHILD", "DEPENDS_ON"}, node_limit |-> 3]
MCViews ==
  {Everything, [Everything EXCEPT !.arena = "A1", !.progress = {"done"}],
   [Everything EXCEPT !.anchor = "w1", !.archived = "exclude", !.node_limit = 1]}

TopologyGrant ==
  [operations |-> {"list", "relationships"}, ids |-> {}, include_archived |-> TRUE,
   relationship_types |-> {"children", "parent", "dependencies"}, selector |-> [mode |-> "all", refs |-> {}]]
MCAccesses ==
  {[work |-> {TopologyGrant}, arenas |-> {"A1"}],
   [work |-> {[TopologyGrant EXCEPT !.selector = [mode |-> "descendants", refs |-> {"w1"}]]}, arenas |-> {"A1"}],
   [work |-> {[TopologyGrant EXCEPT !.operations = {"list"}, !.ids = {"w2"}, !.include_archived = FALSE]},
    arenas |-> {"A2"}]}

-----------------------------------------------------------------------------

HostsInit ==
  /\ part \in {"migration", "dispatcher", "replay", "artifact", "host", "registry", "signer",
              "topology"}
  /\ Init /\ DispatchInit /\ ReplayInit /\ ArtifactInit /\ HostInit
  /\ RegistryInit /\ SignerInit /\ TopologyInit
  /\ part # "dispatcher" => serialised
  /\ part # "signer" => walletKeys = [k \in KeyPaths |-> NoKey]

Others(p) ==
  /\ part = p /\ UNCHANGED part
  /\ p # "migration" => UNCHANGED vars
  /\ p # "dispatcher" => UNCHANGED dispatchVars
  /\ p # "replay" => UNCHANGED replayVars
  /\ p # "artifact" => UNCHANGED artifactVars
  /\ p # "host" => UNCHANGED hostVars
  /\ p # "registry" => UNCHANGED registryVars
  /\ p # "signer" => UNCHANGED signerVars
  /\ p # "topology" => UNCHANGED topologyVars

HostsNext ==
  \/ Others("migration") /\ Next
  \/ Others("dispatcher") /\ DispatchNext
  \/ Others("replay") /\ ReplayNext
  \/ Others("artifact") /\ ArtifactNext
  \/ Others("host") /\ HostNext
  \/ Others("registry") /\ RegistryNext
  \/ Others("signer") /\ SignerNext
  \/ Others("topology") /\ TopologyNext

HostsSpec == HostsInit /\ [][HostsNext]_hostsVars

\* Runners and attempt ids are interchangeable.
Symmetry == Permutations(Runners) \cup Permutations(Attempts)

\* What one machine keeps is whole: a graph has one identity in the registry
\* (local_resources.py), a host reports ready only with everything it needs
\* (local_host.py), and the signer profile is what one command decided
\* (signer_profile.py).
LocalStateIsWhole == []OneIdentity /\ ReadyIsComplete /\ ProfileDecided
=============================================================================
