SPECIFICATION Spec
CONSTANTS
    NumPages = 2
    PFNs = {0, 4}
    Offsets = {0, 1}
    Types = {0, 1}
    PageSize = 4
    Ram = {4, 5, 6, 7}
INVARIANTS
    RegionOfTheFrame
