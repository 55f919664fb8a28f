--------------------------- MODULE MCReplication ---------------------------
(***************************************************************************)
(* The cluster of module Replication over the nodes of MCCluster.          *)
(***************************************************************************)
EXTENDS ReplicationProperties, MCCluster
=============================================================================
