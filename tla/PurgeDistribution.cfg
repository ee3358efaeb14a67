SPECIFICATION FairSpec
CONSTANTS
    MaxPurges = 4
    MaxKeep = 2
    MaxCPRestarts = 1
    MaxEdgeRestarts = 1
INVARIANTS CaughtUpEnforces
PROPERTIES CursorRealigns
