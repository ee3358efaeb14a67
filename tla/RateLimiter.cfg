SPECIFICATION Spec
CONSTANTS
  Reqs = {r1, r2}
  a = a
  o = o
  y = y
  z = z
  Hosts <- MCHosts
  ZoneKeys <- MCZoneKeys
  Contents <- MCContents
  Loaded <- MCLoaded
  Allowed <- MCHosts
  Start = 6
  MaxTime = 11
  MaxBack = 2
  MaxUpdates = 2
  MaxWrites = 1
  Second = 2
  Hour = 3
  Resolvers = {}
INVARIANTS
  RateHeld
  AfterHonest
PROPERTIES
  BoundRouteLimited
SYMMETRY Perms
