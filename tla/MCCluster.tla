----------------------------- MODULE MCCluster -----------------------------
(***************************************************************************)
(* Clusters whose nodes are given all the others as peers, in an order of  *)
(* their own: three nodes, the least with a majority that is not all of    *)
(* them; the pair a, b, where a majority is both; and four nodes, where    *)
(* half of them is no majority.                                            *)
(***************************************************************************)
EXTENDS TLC

CONSTANTS a, b, c, d

MCServer == {a, b, c}
MCPeers  == (a :> <<b, c>>) @@ (b :> <<c, a>>) @@ (c :> <<a, b>>)

MCPair      == {a, b}
MCPairPeers == (a :> <<b>>) @@ (b :> <<a>>)

MCFour      == {a, b, c, d}
MCFourPeers == (a :> <<b, c, d>>) @@ (b :> <<c, d, a>>)
               @@ (c :> <<d, a, b>>) @@ (d :> <<a, b, c>>)
=============================================================================
