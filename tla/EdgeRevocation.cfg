CONSTANTS
    CAs = {C1, C2}
    Replicas = {r1, r2}
    Cores = {k1}
    Edges = {e1, e2}
    Ids = {a, b}
    Jobs = {j1, j2}
    LastEdit = 2
    MaxMints = 1
    Age <- MCAge
SPECIFICATION Spec
SYMMETRY Sym
INVARIANTS FleetNeverSevered RevokedStaysOut BootstrapAgrees
