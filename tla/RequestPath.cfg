CONSTANTS
    r1 = r1
    r2 = r2
    Reqs = {r1, r2}
    Watched = r1
    Pods = {"p", "q"}
    Routes <- MCRoutes
    Protos <- MCProtos
    Starts <- MCStarts
    Configs <- MCConfigs
    MaxRetry = 2
    Wrap = 2
    MaxRolls = 1
SPECIFICATION Spec
INVARIANTS OnceOnly ProbeOwned GaugeExact
PROPERTIES ReachesHealthyPod RequestsEnd StaleVerdictHeals
