---------------------------- MODULE MCRuleReload ----------------------------
(* Two ConfigMaps, one in the controller's namespace, and the contents     *)
(* that the reload tells apart.                                            *)
EXTENDS RuleReload

CONSTANTS own, tenant, r1, r2

MCCMs   == {own, tenant}
MCOwn   == {own}
MCValid == {r1, r2, Blank}

CM(role, others, doc) == [role |-> role, others |-> others, doc |-> doc]

MCContents ==
    {CM("zone", FALSE, d) : d \in {r1, r2, Blank, Bad, Boom}}
        \cup {CM("global", FALSE, d) : d \in {r1, Bad}}
        \cup {CM("zone", TRUE, r1), CM("other", FALSE, r1)}

WAFAndTransform == {"waf", "transform"}
=============================================================================
