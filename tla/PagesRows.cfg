SPECIFICATION Spec
CONSTANTS
    NumPages = 3
    PFNs = {0, 4}
    Offsets = {0, 2}
    Types = {0, 1}
    PageSize = 4
    Ram = {4, 5, 6, 7}
INVARIANTS
    NoDescriptorLost
    RowsPartition
    
    NeighbouringRowsDiffer
