SPECIFICATION FairSpec
CONSTANTS
    own = own  tenant = tenant  r1 = r1  r2 = r2
    Blank = Blank  Bad = Bad  Boom = Boom  Absent = Absent
    Features <- WAFAndTransform
    CMs <- MCCMs
    Own <- MCOwn
    Valid <- MCValid
    Contents <- MCContents
    MaxWrites = 4
CHECK_DEADLOCK FALSE
INVARIANTS RebuiltUnlessTorn BadEditKeepsRules
PROPERTIES RulesConverge
