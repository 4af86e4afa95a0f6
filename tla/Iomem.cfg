SPECIFICATION FairSpec
CONSTANTS
    MaxPhysAddr = 4
    Unmapped = unmapped
    ram = ram
    rom = rom
    Descriptions = {unmapped, ram, rom}
    Requests <- MCRequests
INVARIANTS
    StrictlySorted
    WalkFindsTheRegion
    EveryAddressCountedOnce
    SortedWhenPrinted
    TotalIsMappedMemory
PROPERTIES
    ImplementsMap
    SortTerminates
