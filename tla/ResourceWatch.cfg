SPECIFICATION WatchFairSpec
CONSTANTS
    k1 = k1  k2 = k2
    Keys <- MCKeys
    MaxOps = 3
    MaxQueue = 3
INVARIANTS LiveObjectsTracked
PROPERTIES SelfHeals
