-------------------------------- MODULE Trim --------------------------------
(***************************************************************************)
(* The trimming of C strings in trim.c, in place and in one buffer.        *)
(*                                                                         *)
(* A buffer holds one character per index from 0 on, a terminator and,     *)
(* behind it, whatever bytes were there.  trim() is a state machine: its   *)
(* local variables `state', `index' and `distance' are variables here and  *)
(* one execution of its outer switch is one step.  The other functions     *)
(* have no state of their own and are operators on buffers.                *)
(***************************************************************************)
EXTENDS Naturals, FiniteSets, SequencesExt

CONSTANTS
    Graphic,    \* characters isspace() is false for
    Spaces,     \* characters isspace() is true for, the blank among them
    Blank,      \* ' '
    NUL,        \* the terminator '\0'
    BufferSize  \* bytes of the buffer

ASSUME TrimAssumption ==
    /\ BufferSize \in Nat \ {0}
    /\ Blank \in Spaces
    /\ NUL \notin Graphic \cup Spaces
    /\ Graphic \cap Spaces = {}

Index == 0 .. BufferSize - 1
Chars == Graphic \cup Spaces \cup {NUL}

\* Every buffer a caller can pass: there is a terminator in it.
Strings == {s \in [Index -> Chars] : \E i \in Index : s[i] = NUL}

VARIABLES
    function,   \* the function called
    inString,   \* the buffer
    state, index, distance,     \* the local variables of trim()
    passed      \* history: the buffer when the function was called

vars == <<function, inString, state, index, distance, passed>>

-----------------------------------------------------------------------------
(* Operators on buffers *)

\* classifyChar().
classifyChar(c) ==
    IF c = NUL THEN "END" ELSE IF c \in Spaces THEN "WHITESPACE" ELSE "ASCII"

\* The first index from i on of a character that is in S.
FirstFrom(s, i, S) ==
    CHOOSE j \in Index : /\ i <= j /\ s[j] \in S
                         /\ \A k \in i .. j - 1 : s[k] \notin S

strlen(s) == FirstFrom(s, 0, {NUL})

\* Mistaken: the loop does not end at the terminator.
shift_leftBuffer(s, current_position, dist) ==
    [i \in Index |-> IF i \in (current_position - dist) .. (BufferSize - 1 - dist)
                     THEN s[i + dist] ELSE s[i]]

\* shift_left(): the copy loop ends with the terminator it has copied.
shift_left(s, current_position, dist) ==
    LET end == FirstFrom(s, current_position, {NUL})
    IN  [i \in Index |-> IF i \in (current_position - dist) .. (end - dist)
                         THEN s[i + dist] ELSE s[i]]

trim_left(s) ==
    LET i == FirstFrom(s, 0, Chars \ Spaces)
    IN  IF i = 0 THEN s ELSE shift_left(s, i, i)

\* trim_right() steps back over spaces from the end of the string.
trim_right(s) ==
    LET i == CHOOSE j \in 0 .. strlen(s) :
                 /\ j = 0 \/ s[j - 1] \notin Spaces
                 /\ \A k \in j .. strlen(s) - 1 : s[k] \in Spaces
    IN  [s EXCEPT ![i] = NUL]

trim_edges(s) == trim_right(trim_left(s))

-----------------------------------------------------------------------------
\* The function f is called with the buffer s.
Called(f, s) ==
    /\ function = f
    /\ inString = s /\ passed = s
    /\ state = "START" /\ index = 0 /\ distance = 0

Functions == {"trim", "trim_left", "trim_right", "trim_edges"}

Init == \E f \in Functions, s \in Strings : Called(f, s)

\* trim() is in state `at', and the character at `index' is of class `class'.
Sees(at, class) ==
    /\ function = "trim" /\ state = at
    /\ classifyChar(inString[index]) = class

Frame == UNCHANGED <<function, passed>>

Start ==
    \/ /\ Sees("START", "END")
       /\ state' = "DONE" /\ UNCHANGED <<inString, index, distance>>
    \/ /\ Sees("START", "ASCII")
       /\ state' = "IN_WORD" /\ index' = index + 1
       /\ UNCHANGED <<inString, distance>>
    \/ /\ Sees("START", "WHITESPACE")
       /\ state' = "WORK_TO_DO" /\ index' = index + 1
       /\ distance' = distance + 1 /\ UNCHANGED inString

InWord ==
    \/ /\ Sees("IN_WORD", "END")
       /\ state' = "DONE" /\ UNCHANGED <<inString, index, distance>>
    \/ /\ Sees("IN_WORD", "ASCII")
       /\ index' = index + 1 /\ UNCHANGED <<inString, state, distance>>
    \/ /\ Sees("IN_WORD", "WHITESPACE")
       /\ inString' = [inString EXCEPT ![index] = Blank]
       /\ state' = "ON_NOTICE" /\ index' = index + 1 /\ UNCHANGED distance

\* One blank has been kept; it goes again if the word was the last one.
OnNotice ==
    \/ /\ Sees("ON_NOTICE", "END")
       /\ state' = "SHIFT" /\ distance' = distance + 1
       /\ UNCHANGED <<inString, index>>
    \/ /\ Sees("ON_NOTICE", "ASCII")
       /\ state' = "IN_WORD" /\ index' = index + 1
       /\ UNCHANGED <<inString, distance>>
    \/ /\ Sees("ON_NOTICE", "WHITESPACE")
       /\ state' = "WORK_TO_DO" /\ index' = index + 1 /\ distance' = 2
       /\ UNCHANGED inString

\* Mistaken: a space is counted and not stepped over.
WorkToDoForever ==
    \/ /\ Sees("WORK_TO_DO", "END") \/ Sees("WORK_TO_DO", "ASCII")
       /\ state' = "SHIFT" /\ UNCHANGED <<inString, index, distance>>
    \/ Sees("WORK_TO_DO", "WHITESPACE") /\ UNCHANGED <<inString, state, index, distance>>

WorkToDo ==
    \/ /\ Sees("WORK_TO_DO", "END") \/ Sees("WORK_TO_DO", "ASCII")
       /\ state' = "SHIFT" /\ UNCHANGED <<inString, index, distance>>
    \/ /\ Sees("WORK_TO_DO", "WHITESPACE")
       /\ index' = index + 1 /\ distance' = distance + 1
       /\ UNCHANGED <<inString, state>>

\* The ASSERT of shift_left().
Asserted(dist) == dist <= index

\* Mistaken: the distance of this shift counts for the next one too.
ShiftToKeepsDistance(next, dist) ==
    /\ Asserted(dist)
    /\ inString' = shift_left(inString, index, dist)
    /\ index' = index - dist
    /\ UNCHANGED distance
    /\ state' = next

ShiftTo(next, dist) ==
    /\ Asserted(dist)
    /\ inString' = shift_left(inString, index, dist)
    /\ index' = index - dist
    /\ distance' = 0
    /\ state' = next

\* Mistaken: the first word gets a blank before it as well.
RoomForSpaceAlways == distance - 1

\* A word that is not the first keeps one blank before it.
RoomForSpace == IF index - distance > 0 THEN distance - 1 ELSE distance

\* Nothing happens if a space is met: the ASSERT( false ) there would be a
\* deadlock of the model.
Shift ==
    \/ Sees("SHIFT", "END") /\ ShiftTo("DONE", distance)
    \/ Sees("SHIFT", "ASCII") /\ ShiftTo("IN_WORD", RoomForSpace)

\* The functions without a state machine.
TrimInOneStep ==
    /\ function # "trim" /\ state = "START"
    /\ inString' = CASE function = "trim_left"  -> trim_left(inString)
                     [] function = "trim_right" -> trim_right(inString)
                     [] function = "trim_edges" -> trim_edges(inString)
    /\ state' = "DONE" /\ UNCHANGED <<index, distance>>

Step == Start \/ InWord \/ OnNotice \/ WorkToDo \/ Shift

\* The call has returned.
Returned == state = "DONE" /\ UNCHANGED vars

Next == \/ (Step \/ TrimInOneStep) /\ Frame
        \/ Returned

Spec == Init /\ [][Next]_vars

-----------------------------------------------------------------------------
(* Properties *)

\* The terminator the scan of trim() will stop at is never behind `index',
\* the buffer always holds a string, and shift_left() is never asked for more
\* than its ASSERT allows.
TypeInvariant ==
    /\ inString \in [Index -> Chars]
    /\ state \in {"START", "IN_WORD", "ON_NOTICE", "WORK_TO_DO", "SHIFT", "DONE"}
    /\ index \in Index
    /\ distance \in 0 .. index

\* The characters of the string in s.
Contents(s) == [i \in 1 .. strlen(s) |-> s[i - 1]]

\* The indices of the string s with a graphic character at or before them, at
\* or behind them.
After(s)  == {i \in 0 .. strlen(s) - 1 : \E j \in 0 .. i : s[j] \in Graphic}
Before(s) == {i \in 0 .. strlen(s) - 1 :
                  \E j \in i .. strlen(s) - 1 : s[j] \in Graphic}

\* What the characters of s with their index in `kept' read, one for one.
Reading(s, kept) ==
    [i \in 1 .. Cardinality(kept) |->
        s[CHOOSE j \in kept : Cardinality({k \in kept : k <= j}) = i]]

\* trim() promises (trim.h:43-56) to drop the whitespace at both ends and to
\* make every run of it inside one blank: what is left is each graphic
\* character and, for the first space of a run between two of them, a blank.
FullyTrimmed(s) ==
    LET inner == After(s) \cap Before(s)
        kept  == {i \in inner : s[i] \in Graphic \/ s[i - 1] \in Graphic}
        text  == Reading(s, kept)
    IN  [i \in DOMAIN text |-> IF text[i] \in Graphic THEN text[i] ELSE Blank]

\* When a function returns, the string is the one its documentation
\* describes, whatever the runs of spaces: `distance' counts right in every
\* state of trim(), and the others drop the spaces at their ends and keep
\* those inside.
ReturnsTrimmed ==
    state = "DONE" =>
        LET text == Contents(inString)
        IN  /\ function = "trim"       => text = FullyTrimmed(passed)
            /\ function = "trim_left"  => text = Reading(passed, After(passed))
            /\ function = "trim_right" => text = Reading(passed, Before(passed))
            /\ function = "trim_edges" =>
                  text = Reading(passed, After(passed) \cap Before(passed))

\* The functions work in place: no byte behind the terminator that was passed
\* changes, and the string never grows.
NothingBehindTheString ==
    /\ \A i \in strlen(passed) .. BufferSize - 1 : inString[i] = passed[i]
    /\ strlen(inString) <= strlen(passed)

\* The scan goes back by `distance' after each shift; it ends all the same.
Terminates == <>(state = "DONE")

=============================================================================
