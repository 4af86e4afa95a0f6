---------------------------- MODULE FilesProofs ----------------------------
(***************************************************************************)
(* Proofs about Files for any set of readers, any file sizes and any       *)
(* choice of options: the type invariant, that the offsets are reset when  *)
(* nobody reads and the last lseek() did not fail, that the first reader   *)
(* to finish leaves a file that was read completely, and that a --stream   *)
(* reader stops after one megabyte.                                        *)
(***************************************************************************)
EXTENDS Files, TLAPS

\* What makes BlockContentsRead inductive.  As long as part of the file was
\* never read, nobody has reset the offset: the positions before it were all
\* read, and no reader has counted more than were read.
Unread ==
    ~blockWarned /\ blockTouched # 0 .. blockSize - 1 =>
       /\ \A r \in Readers : reading[r] # "lseek"
       /\ 0 .. blockOffset - 1 \subseteq blockTouched
       /\ \A r \in Readers : reading[r] = "read" => numRead[r] <= blockOffset

IInv == TypeInvariant /\ RewoundWhenIdle /\ Unread /\ StreamReadBounded

----------------------------------------------------------------------------

\* A read returns at most a buffer, stays inside of the file and returns
\* nothing only at its end.
LEMMA GotBounds ==
    ASSUME NEW size \in Nat, NEW offset \in 0 .. size
    PROVE  /\ Got(offset, size) \in 0 .. fileBufferSize
           /\ offset + Got(offset, size) \in 0 .. size
           /\ Got(offset, size) = 0 => offset = size
  BY FilesAssumption DEF Got

\* The function goes on to a phase of its own, and never back to --block.
LEMMA NextPhases ==
    /\ FirstRead \in {"read", "fread", "map", "idle"}
    /\ AfterBlock \in {"fread", "map", "idle"}
    /\ AfterStream \in {"map", "idle"}
  BY DEF FirstRead, AfterBlock, AfterStream

LEMMA InitIInv == Init => IInv
<1> SUFFICES ASSUME Init PROVE IInv
  OBVIOUS
<1>1. TypeInvariant
  <2>1. 0 \in 0 .. blockSize /\ 0 \in 0 .. streamSize
    BY FilesAssumption
  <2>2. reading \in [Readers -> Phases] /\ numRead \in [Readers -> Nat]
    BY DEF Init, Phases
  <2> QED BY <2>1, <2>2 DEF Init, TypeInvariant
<1>2. RewoundWhenIdle /\ StreamReadBounded
  BY FilesAssumption DEF Init, RewoundWhenIdle, StreamReadBounded
<1>3. Unread
  BY FilesAssumption DEF Init, Unread
<1> QED BY <1>1, <1>2, <1>3 DEF IInv

\* Steps of main() change nothing the readers' invariants speak of.
LEMMA MainStep ==
    ASSUME IInv,
           files' \in {"openBlock", "openStream", "openMap", "open",
                       "closeBlock", "closeStream", "closeMap", "closed"},
           opened' \subseteq {"block", "stream", "map"},
           fatal' \in BOOLEAN,
           UNCHANGED <<blockOffset, streamOffset, streamEof, reading, numRead,
                       blockTouched, blockWarned, seekFailed>>
    PROVE  IInv'
  BY DEF IInv, TypeInvariant, RewoundWhenIdle, Unread, StreamReadBounded

LEMMA BeginReadStep ==
    ASSUME IInv, NEW r \in Readers, BeginRead(r)
    PROVE  IInv'
<1> USE DEF IInv
<1>1. CASE fatal' = TRUE /\ UNCHANGED <<reading, numRead>>
  BY <1>1, MainStep DEF BeginRead, TypeInvariant
<1>2. CASE /\ reading' = [reading EXCEPT ![r] = FirstRead]
           /\ numRead' = [numRead EXCEPT ![r] = 0]
           /\ UNCHANGED fatal
  <2> USE <1>2 DEF BeginRead
  <2>1. TypeInvariant'
    BY NextPhases DEF TypeInvariant, Phases
  <2>2. RewoundWhenIdle'
    <3>1. \A q \in Readers : q # r => reading'[q] = reading[q]
      BY DEF TypeInvariant
    <3>2. reading[r] = "idle"
      BY DEF BeginRead
    <3> QED BY <3>1, <3>2 DEF RewoundWhenIdle, TypeInvariant
  <2>3. Unread'
    BY NextPhases DEF Unread, TypeInvariant
  <2>4. StreamReadBounded'
    BY FilesAssumption DEF StreamReadBounded, TypeInvariant
  <2> QED BY <2>1, <2>2, <2>3, <2>4
<1> QED BY <1>1, <1>2 DEF BeginRead

LEMMA ReadBlockStep ==
    ASSUME IInv, NEW r \in Readers, ReadBlock(r)
    PROVE  IInv'
<1> DEFINE result == Got(blockOffset, blockSize)
<1> USE DEF IInv
<1>1. /\ result \in 0 .. fileBufferSize
      /\ blockOffset + result \in 0 .. blockSize
      /\ result = 0 => blockOffset = blockSize
  BY GotBounds, FilesAssumption DEF TypeInvariant
<1>2. /\ reading[r] = "read"
      /\ blockOffset' = blockOffset + result
      /\ blockTouched' = blockTouched \cup blockOffset .. (blockOffset + result - 1)
      /\ numRead' = [numRead EXCEPT ![r] = @ + result]
      /\ reading' = [reading EXCEPT
              ![r] = IF result > 0 /\ numRead[r] + result < blockSize
                     THEN "read" ELSE "lseek"]
      /\ UNCHANGED <<fileVars, streamOffset, streamEof, blockWarned,
                     seekFailed, fatal>>
  BY DEF ReadBlock
<1> HIDE DEF result
<1>3. /\ result \in Nat /\ blockOffset \in Nat /\ blockSize \in Nat
      /\ numRead \in [Readers -> Nat] /\ reading \in [Readers -> Phases]
  BY <1>1, FilesAssumption DEF TypeInvariant
<1>4. TypeInvariant'
  <2>1. blockTouched' \subseteq 0 .. blockSize - 1
    BY <1>1, <1>2, <1>3 DEF TypeInvariant
  <2>2. reading' \in [Readers -> Phases] /\ numRead' \in [Readers -> Nat]
    BY <1>2, <1>3 DEF Phases
  <2> QED BY <1>1, <1>2, <2>1, <2>2 DEF TypeInvariant, fileVars
<1>5. RewoundWhenIdle'
  BY <1>2, <1>3 DEF RewoundWhenIdle
<1>6. Unread'
  <2> SUFFICES ASSUME ~blockWarned, blockTouched' # 0 .. blockSize - 1
               PROVE  /\ \A q \in Readers : reading'[q] # "lseek"
                      /\ 0 .. blockOffset' - 1 \subseteq blockTouched'
                      /\ \A q \in Readers : reading'[q] = "read" => numRead'[q] <= blockOffset'
    BY <1>2 DEF Unread
  <2>1. blockTouched # 0 .. blockSize - 1
    BY <1>2, <1>4 DEF TypeInvariant
  <2>2. /\ \A q \in Readers : reading[q] # "lseek"
        /\ 0 .. blockOffset - 1 \subseteq blockTouched
        /\ \A q \in Readers : reading[q] = "read" => numRead[q] <= blockOffset
    BY <2>1 DEF Unread
  <2>3. 0 .. blockOffset' - 1 \subseteq blockTouched'
    BY <1>2, <1>3, <2>2
  <2>4. blockOffset' # blockSize
    BY <1>4, <2>3 DEF TypeInvariant
  <2>5. result > 0 /\ numRead[r] + result < blockSize
    BY <1>1, <1>2, <1>3, <2>2, <2>4
  <2>6. \A q \in Readers : reading'[q] # "lseek"
    BY <1>2, <1>3, <2>2, <2>5
  <2>7. \A q \in Readers : reading'[q] = "read" => numRead'[q] <= blockOffset'
    BY <1>2, <1>3, <2>2
  <2> QED BY <2>3, <2>6, <2>7
<1>7. StreamReadBounded'
  BY <1>2, <1>3 DEF StreamReadBounded
<1> QED BY <1>4, <1>5, <1>6, <1>7

\* The other steps of readPreScanFiles().
LEMMA ReadStepOther ==
    ASSUME IInv, NEW r \in Readers, ReadStep(r), ~ReadBlock(r)
    PROVE  IInv'
<1> USE DEF IInv
<1>0. /\ reading \in [Readers -> Phases] /\ numRead \in [Readers -> Nat]
      /\ blockSize \in Nat /\ streamSize \in Nat /\ oneMegabyte \in Nat
      /\ fileBufferSize \in Nat /\ blockOffset \in Nat
  BY FilesAssumption DEF TypeInvariant
<1>1. CASE ReadBlockFails(r)
  <2> USE <1>1 DEF ReadBlockFails
  <2>1. TypeInvariant'
    BY DEF TypeInvariant, Phases, fileVars
  <2>2. RewoundWhenIdle'
    BY <1>0 DEF RewoundWhenIdle
  <2>3. Unread'
    BY DEF Unread
  <2>4. StreamReadBounded'
    BY <1>0 DEF StreamReadBounded
  <2> QED BY <2>1, <2>2, <2>3, <2>4
<1>2. CASE SeekBlock(r)
  <2>1. TypeInvariant'
    <3>1. reading' \in [Readers -> Phases] /\ numRead' \in [Readers -> Nat]
      BY <1>0, <1>2, NextPhases DEF SeekBlock, Phases
    <3>2. blockOffset' \in 0 .. blockSize
      BY <1>0, <1>2 DEF SeekBlock
    <3>3. seekFailed' \in BOOLEAN
      BY <1>2, Zenon DEF SeekBlock
    <3>4. UNCHANGED <<files, opened, streamOffset, streamEof, blockTouched,
                      blockWarned, fatal>>
      BY <1>2 DEF SeekBlock, fileVars
    <3> QED BY <3>1, <3>2, <3>3, <3>4 DEF TypeInvariant
  <2> USE <1>2 DEF SeekBlock
  <2>2. RewoundWhenIdle'
    BY <1>0, NextPhases DEF RewoundWhenIdle
  <2>3. Unread'
    BY <1>0, NextPhases DEF Unread
  <2>4. StreamReadBounded'
    BY <1>0 DEF StreamReadBounded
  <2> QED BY <2>1, <2>2, <2>3, <2>4
<1>3. CASE SeekBlockFails(r)
  <2> USE <1>3 DEF SeekBlockFails
  <2>1. TypeInvariant'
    BY <1>0, NextPhases DEF TypeInvariant, Phases, fileVars
  <2>2. RewoundWhenIdle'
    BY <1>0, NextPhases DEF RewoundWhenIdle
  <2>3. Unread'
    BY <1>0, NextPhases DEF Unread
  <2>4. StreamReadBounded'
    BY <1>0 DEF StreamReadBounded
  <2> QED BY <2>1, <2>2, <2>3, <2>4
<1>4. CASE ReadStream(r)
  <2>1. /\ Got(streamOffset, streamSize) \in 0 .. fileBufferSize
        /\ streamOffset + Got(streamOffset, streamSize) \in 0 .. streamSize
    BY <1>0, GotBounds DEF TypeInvariant
  <2> USE <1>4 DEF ReadStream
  <2>2. TypeInvariant'
    BY <1>0, <2>1 DEF TypeInvariant, Phases, fileVars
  <2>3. RewoundWhenIdle'
    BY <1>0 DEF RewoundWhenIdle
  <2>4. Unread'
    BY <1>0 DEF Unread
  <2>5. StreamReadBounded'
    BY <1>0, <2>1 DEF StreamReadBounded
  <2> QED BY <2>2, <2>3, <2>4, <2>5
<1>5. CASE ReadStreamFails(r)
  <2> USE <1>5 DEF ReadStreamFails
  <2>1. TypeInvariant'
    BY DEF TypeInvariant, Phases, fileVars
  <2>2. RewoundWhenIdle'
    BY <1>0 DEF RewoundWhenIdle
  <2>3. Unread'
    BY <1>0 DEF Unread
  <2>4. StreamReadBounded'
    BY <1>0 DEF StreamReadBounded
  <2> QED BY <2>1, <2>2, <2>3, <2>4
<1>6. CASE TestStream(r)
  <2> USE <1>6 DEF TestStream
  <2>1. TypeInvariant'
    BY DEF TypeInvariant, Phases, fileVars
  <2>2. RewoundWhenIdle'
    BY <1>0 DEF RewoundWhenIdle
  <2>3. Unread'
    BY <1>0 DEF Unread
  <2>4. StreamReadBounded'
    BY <1>0 DEF StreamReadBounded
  <2> QED BY <2>1, <2>2, <2>3, <2>4
<1>7. CASE RewindStream(r)
  <2>1. TypeInvariant'
    <3>1. reading' \in [Readers -> Phases] /\ numRead' \in [Readers -> Nat]
      BY <1>0, <1>7, NextPhases DEF RewindStream, Phases
    <3>2. streamOffset' \in 0 .. streamSize
      BY <1>0, <1>7 DEF RewindStream
    <3>3. streamEof' \in BOOLEAN
      BY <1>7, Zenon DEF RewindStream
    <3>4. UNCHANGED <<files, opened, blockOffset, blockTouched, blockWarned,
                      seekFailed, fatal>>
      BY <1>7 DEF RewindStream, fileVars
    <3> QED BY <3>1, <3>2, <3>3, <3>4 DEF TypeInvariant
  <2> USE <1>7 DEF RewindStream
  <2>2. RewoundWhenIdle'
    BY <1>0, NextPhases DEF RewoundWhenIdle
  <2>3. Unread'
    BY <1>0, NextPhases DEF Unread
  <2>4. StreamReadBounded'
    BY <1>0, NextPhases DEF StreamReadBounded
  <2> QED BY <2>1, <2>2, <2>3, <2>4
<1>8. CASE ReadMap(r)
  <2>1. TypeInvariant'
    <3>1. reading' \in [Readers -> Phases] /\ numRead' \in [Readers -> Nat]
      BY <1>0, <1>8 DEF ReadMap, Phases
    <3>2. UNCHANGED <<files, opened, blockOffset, streamOffset, streamEof,
                      blockTouched, blockWarned, seekFailed, fatal>>
      BY <1>8 DEF ReadMap, fileVars
    <3> QED BY <3>1, <3>2 DEF TypeInvariant
  <2> USE <1>8 DEF ReadMap
  <2>2. RewoundWhenIdle'
    BY <1>0 DEF RewoundWhenIdle
  <2>3. Unread'
    BY <1>0 DEF Unread
  <2>4. StreamReadBounded'
    BY <1>0 DEF StreamReadBounded
  <2> QED BY <2>1, <2>2, <2>3, <2>4
<1> QED BY <1>1, <1>2, <1>3, <1>4, <1>5, <1>6, <1>7, <1>8 DEF ReadStep

LEMMA NextIInv == IInv /\ [Next]_vars => IInv'
<1> SUFFICES ASSUME IInv, [Next]_vars PROVE IInv'
  OBVIOUS
<1>1. CASE OpenStep
  BY <1>1, MainStep
  DEF OpenStep, OpenBlock, OpenStream, OpenMap, Open, fileVars, IInv, TypeInvariant
<1>2. ASSUME NEW r \in Readers, BeginRead(r) PROVE IInv'
  BY <1>2, BeginReadStep
<1>3. ASSUME NEW r \in Readers, ReadStep(r) PROVE IInv'
  BY <1>3, ReadBlockStep, ReadStepOther
<1>4. CASE BeginClose
  BY <1>4, MainStep DEF BeginClose, IInv, TypeInvariant
<1>5. CASE CloseStep
  BY <1>5, MainStep
  DEF CloseStep, CloseBlock, CloseStream, CloseMap, Close, IInv, TypeInvariant
<1>6. CASE UNCHANGED vars
  BY <1>6, MainStep DEF vars, IInv, TypeInvariant
<1> QED BY <1>1, <1>2, <1>3, <1>4, <1>5, <1>6 DEF Next, Done

----------------------------------------------------------------------------

LEMMA InvariantHolds == Spec => []IInv
  BY InitIInv, NextIInv, PTL DEF Spec

\* The type invariant of Files, for any readers, sizes and options.
THEOREM TypeCorrect == Spec => []TypeInvariant
  BY InvariantHolds, PTL DEF IInv

\* No thread leaves an offset or an end-of-file flag behind (files.c:132-135,
\* 155): when no reader is in a loop, the files are at their start, the --block
\* file unless the last lseek() on it has failed.
THEOREM Rewound == Spec => []RewoundWhenIdle
  BY InvariantHolds, PTL DEF IInv

\* The first reader out of the read() loop (files.c:116-132) leaves a file
\* that was read completely, however many readers share the descriptor.
THEOREM ContentsRead == Spec => []BlockContentsRead
<1>1. IInv => BlockContentsRead
  BY DEF IInv, Unread, BlockContentsRead
<1> QED BY <1>1, InvariantHolds, PTL

\* The fread() loop (files.c:146-154) counts at most a buffer past 1M.
THEOREM StreamBounded == Spec => []StreamReadBounded
  BY InvariantHolds, PTL DEF IInv
=============================================================================
