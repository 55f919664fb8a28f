----------------------------- MODULE MCClients -----------------------------
(***************************************************************************)
(* The cluster with its clients over the nodes of MCCluster.               *)
(***************************************************************************)
EXTENDS Clients, MCCluster

\* No step and no property tells one command from another.
MCCommands == Permutations(Command)
=============================================================================
