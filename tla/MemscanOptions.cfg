SPECIFICATION FairSpec
CONSTANTS
    Values = {0, 6, 7, 9}
    INT_MAX = 3
    UINT_MAX = 7
    UCHAR_MAX = 1
    MaxOptions = 3
    MaxFilters = 1
INVARIANTS
    TargetHonoured
    ScansOnlyItself
    ParentPrintsLast
    CleanReturn
PROPERTY
    EveryProcessEnds
