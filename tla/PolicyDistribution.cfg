SPECIFICATION PolicyFairSpec
CONSTANTS
    z = z  h1 = h1  h2 = h2  g1 = g1  g2 = g2
    Bad = Bad  Absent = Absent  Boot = Boot
    Zones <- MCZones
    Hosts <- MCHosts
    Allowed <- MCAllowed
    Valid <- MCValid
    Contents <- MCContents
    Handlers = {s1}
    MaxFaults = 1
    MaxTurns = 2
INVARIANTS ClaimNotAtBoot
PROPERTIES PolicyConverges StreamConverges
