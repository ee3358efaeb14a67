SPECIFICATION Spec
CONSTANTS
    Old = Old
    New = New
    Versions <- MCVersions
    Replicas = {r1, r2}
    Pollers = {p1}
    BreakerK = 2
    ProactiveJ = 1
INVARIANT StoreWholeAtRest
INVARIANT FutileMintsBounded
PROPERTY EdgeConverges
