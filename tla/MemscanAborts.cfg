SPECIFICATION Spec
CONSTANTS
    Values = {0, 7}
    INT_MAX = 3
    UINT_MAX = 7
    UCHAR_MAX = 1
    MaxOptions = 1
    MaxFilters = 0
INVARIANT
    HealthyNeverAborts
