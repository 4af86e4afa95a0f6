SPECIFICATION Spec
CONSTANTS
    t1 = t1
    t2 = t2
    t3 = t3
    Fillers = {t1, t2, t3}
    allocateHeapMemory = TRUE
    allocateLocalMemory = TRUE
    allocateMappedMemory = TRUE
    numMallocs = 3
    numLocals = 3
SYMMETRY FillerSymmetry
INVARIANTS
    NoDanglingLocals
    FillsLiveMemory
    AllocatedIsComplete
    ReleasedIsComplete
PROPERTY
    NoLateWrite
