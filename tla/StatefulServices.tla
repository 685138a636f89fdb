-------------------------- MODULE StatefulServices --------------------------
(***************************************************************************)
(* The services of rust-core that keep state between calls: peer-to-peer   *)
(* sync, sync through git, the knowledge graph and plugins.  They share no *)
(* state, so a behaviour is one of a single service and the others stay as *)
(* they begin.                                                             *)
(***************************************************************************)
EXTENDS PeerSync, GitSync, KnowledgeGraph, PluginHost

VARIABLE part   \* the service that moves

statefulVars == <<peerVars, gitVars, graphVars, pluginVars, part>>

StatefulInit == PeersInit /\ GitInit /\ GraphInit /\ PluginsInit

StatefulNext ==
    /\ UNCHANGED part
    /\ \/ /\ part = "peers" /\ PeersNext
          /\ UNCHANGED <<gitVars, graphVars, pluginVars>>
       \/ /\ part = "git" /\ GitNext
          /\ UNCHANGED <<peerVars, graphVars, pluginVars>>
       \/ /\ part = "graph" /\ GraphNext
          /\ UNCHANGED <<peerVars, gitVars, pluginVars>>
       \/ /\ part = "plugins" /\ PluginsNext
          /\ UNCHANGED <<peerVars, gitVars, graphVars>>

StatefulSpec == StatefulInit /\ [][StatefulNext]_statefulVars

-----------------------------------------------------------------------------
(* Properties.  A part that does not move stays as it began, so what is costly to
   evaluate is asked of the part that moves. *)

\* Queues, repositories, the graph and the plugins have their types.
ServicesTypeOK == PeersTypeOK /\ GitTypeOK /\ GraphTypeOK /\ PluginsTypeOK

\* The two sides of a service agree: a node and its loop about what is left after
\* a stop and who is connected, the plugin manager and the sandbox about what runs.
TwoSidesAgree == StopIsLast /\ ShownIsLinked /\ EnabledRuns

\* The searches of the graph find what they are named for, over cycles, loops,
\* unreachable nodes and edges of any weight.
SearchesExact ==
    part = "graph" => ClustersAreReachable /\ PathIsFound /\ RelatedIsNear
=============================================================================
