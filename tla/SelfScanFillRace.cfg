SPECIFICATION Spec
CONSTANTS
    main = main
    MaxThreads = 1
    allocateHeapMemory = TRUE
    allocateLocalMemory = TRUE
    allocateMappedMemory = TRUE
    numMallocs = 1
    numLocals = 1
    openFileWithBlockIO = TRUE
    openFileWithStreamIO = TRUE
    openFileWithMapIO = TRUE
    blockSize = 1
    streamSize = 1
    mmapSize = 1
    fileBufferSize = 1
    oneMegabyte = 1
    blockMayFail = FALSE
    streamMayFail = FALSE
INVARIANT
    FilledBeforeScan
