SPECIFICATION FairSpec
CONSTANTS
    main = main
    MaxThreads = 2
    allocateHeapMemory = TRUE
    allocateLocalMemory = TRUE
    allocateMappedMemory = TRUE
    numMallocs = 2
    numLocals = 2
    openFileWithBlockIO = TRUE
    openFileWithStreamIO = TRUE
    openFileWithMapIO = TRUE
    blockSize = 3
    streamSize = 0
    mmapSize = 1
    fileBufferSize = 2
    oneMegabyte = 2
    blockMayFail = TRUE
    streamMayFail = FALSE
INVARIANTS
    FillsLiveMemory
    ReadsOpenFiles
    ScanSeesPreparedProcess
    PreparedAlone
    CleanExit
PROPERTY
    Terminates
