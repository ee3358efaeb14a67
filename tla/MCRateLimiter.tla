--------------------------- MODULE MCRateLimiter ---------------------------
(***************************************************************************)
(* One sliding and one fixed limit, a zone that may be renamed, and edits  *)
(* of the cluster that each change what a reload must tell apart.          *)
(***************************************************************************)
EXTENDS RateLimiter, TLC

CONSTANTS a, o, y, z

Sliding == [key |-> "host", alg |-> "sliding", rate |-> 2, size |-> 3]
Fixed == [key |-> "ip", alg |-> "fixed", rate |-> 1, size |-> 3]
Limit(id, shape) == [id |-> id, shape |-> shape, mode |-> "enforce",
                     gated |-> FALSE, wellFormed |-> TRUE]
Shadow(l) == [l EXCEPT !.mode = "shadow"]
Gated(l) == [l EXCEPT !.gated = TRUE]

S == Limit("s", Sliding)
F == Limit("f", Fixed)

Zone(k, docs) == [w \in {k} |-> docs]
P(hosts, global, zones, bound) ==
    [hosts |-> hosts, global |-> global, zones |-> zones, route |-> bound]

MCHosts == {a}
MCZoneKeys == {y, z}
Two(dy, dz) == [w \in {y, z} |-> IF w = y THEN dy ELSE dz]

\* A zone with one limit ...
MCLoaded == {P({a}, << >>, Zone(z, <<<<S>>>>), z)}

\* ... which then has siblings in the zone and in the global set; gets a new
\* shape, next to a document without limits; is rejected for a window that is
\* too short and a key without database; or whose zone is renamed.
MCContents ==
    MCLoaded \cup
    {P({a, o}, <<<<Gated(F)>>>>, Two(<<<<S>>>>, <<<<S>>, <<Shadow(F)>>>>), z),
     P({a}, <<<<>>>>, Zone(z, <<<<Limit("s", Fixed)>>>>), z),
     P({}, <<<<[F EXCEPT !.shape.size = 1]>>>>,
         Zone(z, <<<<[S EXCEPT !.shape.key = "country"]>>>>), z),
     P({a}, << >>, Zone(y, <<<<S>>>>), y)}

\* Requests are interchangeable.
Perms == Permutations(Reqs)
=============================================================================
