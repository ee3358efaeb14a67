SPECIFICATION FairSpec
CONSTANTS
    s1 = s1  x1 = x1  x2 = x2  i1 = i1  p1 = p1  p2 = p2
    Services <- OneService
    Slices <- TwoSlices
    IPs <- OneIP
    Ports <- TwoPorts
    g1 = g1  g2 = g2
    Reloads <- TwoReloads
    NoService = NoService
    NoPort = NoPort
    Absent = Absent
    Free = Free
    MaxWrites = 2
    Relabel = FALSE
CHECK_DEADLOCK FALSE
INVARIANTS TypeOK HostFresh PortFreshUnlessUnasked
PROPERTIES HostsConverge
