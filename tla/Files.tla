------------------------------- MODULE Files -------------------------------
(***************************************************************************)
(* files.c: the pre-scan files of --block, --stream and --map_file.        *)
(*                                                                         *)
(* main() opens the files once; then any number of threads run             *)
(* readPreScanFiles() at the same time on ONE file descriptor and ONE      *)
(* FILE*, so that the file offset and the end-of-file flag are shared      *)
(* between loops that each believe to own them; main() closes the files    *)
(* when no thread reads any more.                                          *)
(*                                                                         *)
(* A step is one system or library call (read, lseek, fread, feof, rewind) *)
(* with the tests on thread-local data that follow it.  Sizes are in       *)
(* abstract units; a buffer of fileBufferSize units is filled by one call. *)
(***************************************************************************)
EXTENDS Integers

CONSTANTS
    Readers,               \* the threads that may call readPreScanFiles()
    openFileWithBlockIO,   \* --block
    openFileWithStreamIO,  \* --stream
    openFileWithMapIO,     \* --map_file
    blockSize,             \* blockFileStat.st_size
    streamSize,            \* size of the --stream file
    mmapSize,              \* mmapFileStat.st_size
    fileBufferSize,        \* four pages
    oneMegabyte,           \* the most --stream reads before it stops
    blockMayFail,          \* read() and lseek() may return -1
    streamMayFail          \* fread() may return 0 without reaching the end

ASSUME FilesAssumption ==
    /\ {openFileWithBlockIO, openFileWithStreamIO, openFileWithMapIO,
        blockMayFail, streamMayFail} \subseteq BOOLEAN
    /\ blockSize \in Nat /\ streamSize \in Nat /\ mmapSize \in Nat
    /\ fileBufferSize \in Nat \ {0}
    /\ oneMegabyte \in Nat

VARIABLES
    files,         \* how far main() is in openPreScanFiles / closePreScanFiles
    opened,        \* which of block_fd, stream_fd and mmapBuffer are valid
    blockOffset,   \* the file offset of block_fd
    streamOffset,  \* the position of stream_fd
    streamEof,     \* what feof( stream_fd ) returns
    reading,       \* the call each reader makes next, "idle" outside of the function
    numRead,       \* numRead of the loop a reader is in (index i in the mmap loop)
    blockTouched,  \* history: the positions of the --block file that were read
    blockWarned,   \* the WARNING "unable to read --buffer" was printed
    seekFailed,    \* history: the last lseek() has failed
    fatal          \* FATAL_ERROR ended the process

vars == <<files, opened, blockOffset, streamOffset, streamEof, reading,
          numRead, blockTouched, blockWarned, seekFailed, fatal>>

\* What a thread changes, and what only main() changes.
fileVars == <<files, opened>>

----------------------------------------------------------------------------

\* The number of units a read at offset returns from a file of size units.
Got(offset, size) ==
    IF offset + fileBufferSize <= size THEN fileBufferSize ELSE size - offset

\* Where readPreScanFiles() goes when it is done with one kind of file.
AfterStream == IF openFileWithMapIO THEN "map" ELSE "idle"
AfterBlock  == IF openFileWithStreamIO THEN "fread" ELSE AfterStream
FirstRead   == IF openFileWithBlockIO THEN "read" ELSE AfterBlock

Init ==
    /\ files = "openBlock"
    /\ opened = {}
    /\ blockOffset = 0
    /\ streamOffset = 0
    /\ streamEof = FALSE
    /\ reading = [r \in Readers |-> "idle"]
    /\ numRead = [r \in Readers |-> 0]
    /\ blockTouched = {}
    /\ blockWarned = FALSE
    /\ seekFailed = FALSE
    /\ fatal = FALSE

----------------------------------------------------------------------------
(* openPreScanFiles() and closePreScanFiles(), one step per kind of file.   *)

\* Open one kind of file; stat(), open(), fopen() and mmap() may fail.  An
\* empty --map_file always fails: mmap() refuses a length of zero.
Open(kind, wanted, mayOpen, from, to) ==
    /\ ~fatal
    /\ files = from
    /\ IF wanted
       THEN \/ /\ mayOpen
               /\ opened' = opened \cup {kind}
               /\ files' = to
               /\ UNCHANGED fatal
            \/ /\ fatal' = TRUE
               /\ UNCHANGED fileVars
       ELSE /\ files' = to
            /\ UNCHANGED <<opened, fatal>>
    /\ UNCHANGED <<blockOffset, streamOffset, streamEof, reading, numRead,
                   blockTouched, blockWarned, seekFailed>>

OpenBlock  == Open("block", openFileWithBlockIO, TRUE, "openBlock", "openStream")
OpenStream == Open("stream", openFileWithStreamIO, TRUE, "openStream", "openMap")
OpenMap    == Open("map", openFileWithMapIO, mmapSize > 0, "openMap", "open")

OpenStep == OpenBlock \/ OpenStream \/ OpenMap

BeginClose ==
    /\ ~fatal
    /\ files = "open"
    /\ files' = "closeBlock"
    /\ UNCHANGED <<opened, blockOffset, streamOffset, streamEof, reading,
                   numRead, blockTouched, blockWarned, seekFailed, fatal>>

Close(kind, from, to) ==
    /\ ~fatal
    /\ files = from
    /\ opened' = opened \ {kind}
    /\ files' = to
    /\ UNCHANGED <<blockOffset, streamOffset, streamEof, reading, numRead,
                   blockTouched, blockWarned, seekFailed, fatal>>

CloseBlock  == Close("block", "closeBlock", "closeStream")
CloseStream == Close("stream", "closeStream", "closeMap")
CloseMap    == Close("map", "closeMap", "closed")

CloseStep == CloseBlock \/ CloseStream \/ CloseMap

----------------------------------------------------------------------------
(* readPreScanFiles(), run by thread r.                                    *)

\* Mistaken: the file pointer is reset before the loop instead of after it.
BeginReadSeeking(r) ==
    /\ ~fatal
    /\ reading[r] = "idle"
    /\ reading' = [reading EXCEPT ![r] = FirstRead]
    /\ numRead' = [numRead EXCEPT ![r] = 0]
    /\ blockOffset' = 0
    /\ UNCHANGED <<files, opened, streamOffset, streamEof, blockTouched,
                   blockWarned, seekFailed, fatal>>

\* The call: malloc the buffer or die, then go to the first open file.
BeginRead(r) ==
    /\ ~fatal
    /\ reading[r] = "idle"
    /\ \/ /\ reading' = [reading EXCEPT ![r] = FirstRead]
          /\ numRead' = [numRead EXCEPT ![r] = 0]
          /\ UNCHANGED fatal
       \/ /\ fatal' = TRUE
          /\ UNCHANGED <<reading, numRead>>
    /\ UNCHANGED <<files, opened, blockOffset, streamOffset, streamEof,
                   blockTouched, blockWarned, seekFailed>>

\* read() at the shared offset; the loop goes on while it returned something
\* and this thread has seen fewer units than the file had when it was opened.
ReadBlock(r) ==
    LET result == Got(blockOffset, blockSize)
    IN  /\ ~fatal
        /\ reading[r] = "read"
        /\ blockOffset' = blockOffset + result
        /\ blockTouched' = blockTouched \cup blockOffset .. (blockOffset + result - 1)
        /\ numRead' = [numRead EXCEPT ![r] = @ + result]
        /\ reading' = [reading EXCEPT
              ![r] = IF result > 0 /\ numRead[r] + result < blockSize
                     THEN "read" ELSE "lseek"]
        /\ UNCHANGED <<fileVars, streamOffset, streamEof, blockWarned,
                       seekFailed, fatal>>

\* read() fails: a warning, and `continue' evaluates the condition of the
\* do-while loop, which is false.
ReadBlockFails(r) ==
    /\ ~fatal
    /\ reading[r] = "read"
    /\ blockMayFail
    /\ blockWarned' = TRUE
    /\ reading' = [reading EXCEPT ![r] = "lseek"]
    /\ UNCHANGED <<fileVars, blockOffset, streamOffset, streamEof, numRead,
                   blockTouched, seekFailed, fatal>>

\* Mistaken: the file pointer is not reset.
SeekBlockNot(r) ==
    /\ ~fatal
    /\ reading[r] = "lseek"
    /\ reading' = [reading EXCEPT ![r] = AfterBlock]
    /\ numRead' = [numRead EXCEPT ![r] = 0]
    /\ UNCHANGED <<fileVars, blockOffset, streamOffset, streamEof,
                   blockTouched, blockWarned, seekFailed, fatal>>

\* lseek( block_fd, 0, SEEK_SET ) moves the offset of every reader.
SeekBlock(r) ==
    /\ ~fatal
    /\ reading[r] = "lseek"
    /\ blockOffset' = 0
    /\ seekFailed' = FALSE
    /\ reading' = [reading EXCEPT ![r] = AfterBlock]
    /\ numRead' = [numRead EXCEPT ![r] = 0]
    /\ UNCHANGED <<fileVars, streamOffset, streamEof, blockTouched,
                   blockWarned, fatal>>

\* lseek() fails: a warning, and the offset of every reader stays where it is.
SeekBlockFails(r) ==
    /\ ~fatal
    /\ reading[r] = "lseek"
    /\ blockMayFail
    /\ seekFailed' = TRUE
    /\ reading' = [reading EXCEPT ![r] = AfterBlock]
    /\ numRead' = [numRead EXCEPT ![r] = 0]
    /\ UNCHANGED <<fileVars, blockOffset, streamOffset, streamEof,
                   blockTouched, blockWarned, fatal>>

\* fread() returns a full buffer, or less and the end-of-file flag is set.
ReadStream(r) ==
    LET result == Got(streamOffset, streamSize)
    IN  /\ ~fatal
        /\ reading[r] = "fread"
        /\ streamOffset' = streamOffset + result
        /\ streamEof' = (streamEof \/ result < fileBufferSize)
        /\ numRead' = [numRead EXCEPT ![r] = @ + result]
        /\ reading' = [reading EXCEPT ![r] = "feof"]
        /\ UNCHANGED <<fileVars, blockOffset, blockTouched, blockWarned,
                       seekFailed, fatal>>

\* fread() fails: it returns 0 and sets the error flag, which is never tested.
ReadStreamFails(r) ==
    /\ ~fatal
    /\ reading[r] = "fread"
    /\ streamMayFail
    /\ reading' = [reading EXCEPT ![r] = "feof"]
    /\ UNCHANGED <<fileVars, blockOffset, streamOffset, streamEof, numRead,
                   blockTouched, blockWarned, seekFailed, fatal>>

\* Mistaken: only the end of the file stops the loop.
TestStreamUnbounded(r) ==
    /\ ~fatal
    /\ reading[r] = "feof"
    /\ reading' = [reading EXCEPT ![r] = IF ~streamEof THEN "fread" ELSE "rewind"]
    /\ UNCHANGED <<fileVars, blockOffset, streamOffset, streamEof, numRead,
                   blockTouched, blockWarned, seekFailed, fatal>>

\* while( !feof( stream_fd ) && numRead <= ONE_MEGABYTE )
TestStream(r) ==
    /\ ~fatal
    /\ reading[r] = "feof"
    /\ reading' = [reading EXCEPT
          ![r] = IF ~streamEof /\ numRead[r] <= oneMegabyte
                 THEN "fread" ELSE "rewind"]
    /\ UNCHANGED <<fileVars, blockOffset, streamOffset, streamEof, numRead,
                   blockTouched, blockWarned, seekFailed, fatal>>

\* rewind() moves the position of every reader and clears everyone's flag.
RewindStream(r) ==
    /\ ~fatal
    /\ reading[r] = "rewind"
    /\ streamOffset' = 0
    /\ streamEof' = FALSE
    /\ reading' = [reading EXCEPT ![r] = AfterStream]
    /\ numRead' = [numRead EXCEPT ![r] = 0]
    /\ UNCHANGED <<fileVars, blockOffset, blockTouched, blockWarned,
                   seekFailed, fatal>>

\* One round of the loop over the mapped bytes, or its end and free().
ReadMap(r) ==
    /\ ~fatal
    /\ reading[r] = "map"
    /\ IF numRead[r] < mmapSize
       THEN /\ numRead' = [numRead EXCEPT ![r] = @ + 1]
            /\ UNCHANGED reading
       ELSE /\ reading' = [reading EXCEPT ![r] = "idle"]
            /\ numRead' = [numRead EXCEPT ![r] = 0]
    /\ UNCHANGED <<fileVars, blockOffset, streamOffset, streamEof,
                   blockTouched, blockWarned, seekFailed, fatal>>

ReadStep(r) ==
    \/ ReadBlock(r) \/ ReadBlockFails(r) \/ SeekBlock(r) \/ SeekBlockFails(r)
    \/ ReadStream(r) \/ ReadStreamFails(r) \/ TestStream(r) \/ RewindStream(r)
    \/ ReadMap(r)

----------------------------------------------------------------------------
(* The component under any caller that opens the files before it reads     *)
(* them and closes them when no reader is left.                            *)

Done ==
    /\ fatal \/ files = "closed"
    /\ UNCHANGED vars

Next ==
    \/ OpenStep
    \/ \E r \in Readers : files = "open" /\ BeginRead(r)
    \/ \E r \in Readers : ReadStep(r)
    \/ (\A r \in Readers : reading[r] = "idle") /\ BeginClose
    \/ CloseStep
    \/ Done

Spec == Init /\ [][Next]_vars

\* Every reader that is inside of the function is scheduled again and again.
FairSpec == Spec /\ \A r \in Readers : WF_vars(ReadStep(r))

----------------------------------------------------------------------------

Phases == {"idle", "read", "lseek", "fread", "feof", "rewind", "map"}

TypeInvariant ==
    /\ files \in {"openBlock", "openStream", "openMap", "open",
                  "closeBlock", "closeStream", "closeMap", "closed"}
    /\ opened \subseteq {"block", "stream", "map"}
    /\ blockOffset \in 0 .. blockSize
    /\ streamOffset \in 0 .. streamSize
    /\ streamEof \in BOOLEAN
    /\ reading \in [Readers -> Phases]
    /\ numRead \in [Readers -> Nat]
    /\ blockTouched \subseteq 0 .. blockSize - 1
    /\ blockWarned \in BOOLEAN
    /\ seekFailed \in BOOLEAN
    /\ fatal \in BOOLEAN

\* The loops reset the file pointers (files.c:117-119 and 147-150).  Although
\* every reader moves the offsets of all the others, they are at the start and
\* the end-of-file flag is clear whenever no reader is between its first read
\* and its reset, so the next round of any thread starts afresh; but for the
\* --block file after an lseek() that failed, which only prints a warning
\* (files.c:132-135), until a later one succeeds.
RewoundWhenIdle ==
    /\ (\A r \in Readers : reading[r] \notin {"read", "lseek"}) /\ ~seekFailed
          => blockOffset = 0
    /\ (\A r \in Readers : reading[r] \notin {"fread", "feof", "rewind"})
          => streamOffset = 0 /\ ~streamEof

\* --read really brings the whole --block file in: however the readers share
\* the offset, the first one that leaves its read loop without an error does
\* so when every position of the file was read by somebody.
BlockContentsRead ==
    (\E r \in Readers : reading[r] = "lseek") /\ ~blockWarned
       => blockTouched = 0 .. blockSize - 1

\* `--stream' files will read the first 1M of data (files.c:154): a reader
\* stops at most one buffer past the limit, whatever the others do.
StreamReadBounded ==
    \A r \in Readers :
       reading[r] \in {"fread", "feof", "rewind"} =>
          /\ numRead[r] <= oneMegabyte + fileBufferSize
          /\ reading[r] = "fread" => numRead[r] <= oneMegabyte

\* A thread that reads the --stream file comes to the end of its loop: "the
\* loop is designed to terminate when the read gets to the end of the file"
\* (files.c:148-149).
StreamReadTerminates ==
    \A r \in Readers : reading[r] = "fread" ~> reading[r] \in {"rewind", "map", "idle"}
=============================================================================
