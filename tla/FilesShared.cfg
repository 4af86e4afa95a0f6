SPECIFICATION Spec
CONSTANTS
    r1 = r1
    r2 = r2
    r3 = r3
    Readers = {r1, r2, r3}
    openFileWithBlockIO = TRUE
    openFileWithStreamIO = TRUE
    openFileWithMapIO = TRUE
    blockSize = 5
    streamSize = 3
    mmapSize = 1
    fileBufferSize = 2
    oneMegabyte = 2
    blockMayFail = TRUE
    streamMayFail = TRUE
SYMMETRY ReaderSymmetry
INVARIANTS
    RewoundWhenIdle
    BlockContentsRead
    StreamReadBounded
