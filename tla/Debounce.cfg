SPECIFICATION DebounceFairSpec
CONSTANTS
    w1 = w1  w2 = w2  g1 = g1  g2 = g2  k1 = k1  k2 = k2
    Callers <- MCCallers
    Timers <- MCTimers
    Keys <- MCKeys
    Owner <- MCOwner
    Poison <- MCPoison
    Free = Free
    MaxVersion = 2
    GlobalKeys <- MCGlobalKeys
INVARIANTS DebounceTypeOK Settled SecretsFollow
PROPERTIES NoRegress Converges
