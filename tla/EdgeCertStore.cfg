SPECIFICATION CertFairSpec
CONSTANTS
    d1 = d1  d2 = d2  h1 = h1  h2 = h2
    Domains <- MCDomains
    Configured <- MCConfigured
    Handshakes <- MCHandshakes
    Loop = Loop
    MaxInFlight = 1
    MaxMiss = 1
    MaxVersion = 2
INVARIANTS BoundedFetches
PROPERTIES HandshakesEnd CacheConverges
