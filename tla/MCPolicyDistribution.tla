------------------------ MODULE MCPolicyDistribution ------------------------
(* One zone, bound by a host of the edge and by one of another edge, and   *)
(* two contents, one with a global document that does not compile.         *)
EXTENDS PolicyDistribution, TLC

CONSTANTS z, h1, h2, g1, g2

MCZones   == {z}
MCHosts   == {h1, h2}
MCAllowed == {h1}
MCValid   == {g1, g2}

Holds(global, zone, b1, b2) ==
    [rules |-> [p \in Parts |-> IF p = "global" THEN global ELSE zone],
     bind  |-> (h1 :> b1) @@ (h2 :> b2)]

MCContents == {Holds(g1, g1, z, z), Holds(Bad, g2, z, z)}
=============================================================================
