SPECIFICATION FairSpec
CONSTANTS
    r1 = r1
    Readers = {r1}
    openFileWithBlockIO = FALSE
    openFileWithStreamIO = TRUE
    openFileWithMapIO = FALSE
    blockSize = 0
    streamSize = 3
    mmapSize = 1
    fileBufferSize = 2
    oneMegabyte = 2
    blockMayFail = FALSE
    streamMayFail = TRUE
PROPERTY
    StreamReadTerminates
