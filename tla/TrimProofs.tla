----------------------------- MODULE TrimProofs -----------------------------
(***************************************************************************)
(* Proofs about Trim for a buffer of any size and any characters: trim()   *)
(* never leaves the string it was given, shift_left() is never asked for   *)
(* more than its ASSERT allows, no function touches a byte behind the      *)
(* string, and each returns the string it promises.                        *)
(*                                                                         *)
(* The last of these needs an invariant of the scan in place, TInv: trim() *)
(* has read the first o characters of the string as it was passed; at the  *)
(* front of the buffer stands what FullyTrimmed() keeps of them, with a    *)
(* blank more if they end in spaces; from `index' on the buffer still      *)
(* holds the rest of what was passed.                                      *)
(*                                                                         *)
(* Convert implements Trim, so all of it holds of the calls in convert.c   *)
(* too; what they return is read from the promised string, a string that   *)
(* is no number is refused, and one that is a number is accepted as what   *)
(* its digits stand for.                                                   *)
(***************************************************************************)
EXTENDS Convert, FiniteSetTheorems, TLAPS

\* The string that was passed ends at n: the bytes from there on are what they
\* were, the terminator among them.
Ends(n) ==
    /\ n \in Index /\ passed[n] = NUL
    /\ \A i \in Index : n <= i => inString[i] = passed[i]

\* What `distance' counts in each state of trim(), which never steps over the
\* terminator.
Counts ==
    /\ index <= strlen(passed)
    /\ state \in {"START", "IN_WORD", "ON_NOTICE"} => distance = 0
    /\ state = "ON_NOTICE" => index >= 1
    /\ state \in {"WORK_TO_DO", "SHIFT"} => distance >= 1

IInv ==
    /\ TypeInvariant
    /\ passed \in Strings /\ function \in Functions
    /\ Ends(strlen(passed)) /\ Counts

----------------------------------------------------------------------------
(* Buffers                                                                 *)

\* A set of natural numbers that is not empty has a least element.
LEMMA Least ==
    ASSUME NEW S \in SUBSET Nat, S # {}
    PROVE  \E n \in S : \A m \in S : n <= m
<1> DEFINE Less == {p \in Nat \X Nat : p[1] < p[2]}
<1>1. IsWellFoundedOn(Less, Nat)
  BY NatLessThanWellFounded DEF OpToRel
<1>2. PICK n \in S : \A m \in S : ~(<<m, n>> \in Less)
  <2> HIDE DEF Less
  <2> QED BY <1>1, WFMin
<1>3. \A m \in S : n <= m
  <2> SUFFICES ASSUME NEW m \in S PROVE n <= m
    OBVIOUS
  <2>1. ~(<<m, n>> \in Less)
    BY <1>2
  <2> QED BY <2>1
<1> QED BY <1>3

LEMMA IndexIsNat == \A i \in Index : i \in Nat /\ i <= BufferSize - 1
  BY TrimAssumption DEF Index

\* FirstFrom() finds the first character of S if there is one.
LEMMA First ==
    ASSUME NEW s, NEW i \in Nat, NEW S, NEW n \in Index, i <= n, s[n] \in S
    PROVE  /\ FirstFrom(s, i, S) \in Index
           /\ i <= FirstFrom(s, i, S) /\ FirstFrom(s, i, S) <= n
           /\ s[FirstFrom(s, i, S)] \in S
           /\ \A k \in i .. FirstFrom(s, i, S) - 1 : s[k] \notin S
<1> DEFINE Found == {j \in Index : i <= j /\ s[j] \in S}
<1>1. Found \in SUBSET Nat /\ n \in Found
  BY IndexIsNat
<1>2. PICK j \in Found : \A m \in Found : j <= m
  BY <1>1, Least
<1>3. \A k \in i .. j - 1 : s[k] \notin S
  <2> SUFFICES ASSUME NEW k \in i .. j - 1, s[k] \in S PROVE FALSE
    OBVIOUS
  <2>1. k \in Index /\ i <= k /\ k < j
    <3>1. j \in Nat /\ j \in Index /\ BufferSize \in Nat
      BY <1>2, IndexIsNat, TrimAssumption
    <3> QED BY <3>1 DEF Index
  <2>2. k \in Found
    BY <2>1
  <2>3. j <= k
    BY <1>2, <2>2
  <2> QED BY <2>1, <2>3, IndexIsNat
<1>4. \E m \in Index : /\ i <= m /\ s[m] \in S
                       /\ \A k \in i .. m - 1 : s[k] \notin S
  BY <1>2, <1>3
<1> DEFINE f == FirstFrom(s, i, S)
<1>5. f \in Index /\ i <= f /\ s[f] \in S /\ \A k \in i .. f - 1 : s[k] \notin S
  BY <1>4 DEF FirstFrom
<1>6. f <= n
  <2> HIDE DEF f
  <2> QED BY <1>5, IndexIsNat
<1> QED BY <1>5, <1>6

\* strlen() is the index of the first terminator.
LEMMA Length ==
    ASSUME NEW s, NEW n \in Index, s[n] = NUL
    PROVE  /\ strlen(s) \in Index /\ strlen(s) <= n /\ s[strlen(s)] = NUL
           /\ \A k \in 0 .. strlen(s) - 1 : s[k] # NUL
<1>1. n \in Nat /\ s[n] \in {NUL}
  BY IndexIsNat
<1> QED BY <1>1, First DEF strlen

\* shift_left() changes nothing behind the terminator, and keeps one there.
LEMMA ShiftLeft ==
    ASSUME NEW s \in [Index -> Chars], NEW pos \in Index, NEW dist \in 0 .. pos,
           NEW n \in Index, pos <= n, s[n] = NUL
    PROVE  /\ shift_left(s, pos, dist) \in [Index -> Chars]
           /\ \A i \in Index : n <= i => shift_left(s, pos, dist)[i] = s[i]
<1> DEFINE end == FirstFrom(s, pos, {NUL})
           t   == shift_left(s, pos, dist)
<1>1. end \in Index /\ pos <= end /\ end <= n /\ s[end] = NUL
  BY First, IndexIsNat
<1>2. t = [i \in Index |-> IF i \in (pos - dist) .. (end - dist) THEN s[i + dist] ELSE s[i]]
  BY DEF shift_left
<1> HIDE DEF end
<1>3. pos \in Nat /\ dist \in Nat /\ dist <= pos /\ end \in Nat /\ n \in Nat
  BY <1>1, IndexIsNat
<1>4. \A i \in Index : i \in (pos - dist) .. (end - dist) => i + dist \in Index
  <2> SUFFICES ASSUME NEW i \in Index, i \in (pos - dist) .. (end - dist)
               PROVE  i + dist \in Index
    OBVIOUS
  <2>1. i \in Nat /\ i + dist \in Nat /\ i + dist <= end /\ BufferSize \in Nat
    BY <1>3, IndexIsNat, TrimAssumption
  <2>2. i + dist <= BufferSize - 1
    BY <1>1, <1>3, <2>1, IndexIsNat
  <2> QED BY <2>1, <2>2 DEF Index
<1>5. t \in [Index -> Chars]
  <2> HIDE DEF t
  <2> QED BY <1>2, <1>4
<1>6. ASSUME NEW i \in Index, n <= i PROVE t[i] = s[i]
  <2>1. i \in (pos - dist) .. (end - dist) => dist = 0
    BY <1>1, <1>3, <1>6, IndexIsNat
  <2> HIDE DEF t
  <2> QED BY <1>2, <2>1, IndexIsNat
<1> HIDE DEF t
<1>7. t \in [Index -> Chars] /\ \A i \in Index : n <= i => t[i] = s[i]
  BY <1>5, <1>6
<1> QED BY <1>7 DEF t

\* Dropping the spaces at an end keeps a string, and what is behind it.
LEMMA TrimLeft ==
    ASSUME NEW s \in [Index -> Chars], NEW n \in Index, s[n] = NUL
    PROVE  /\ trim_left(s) \in [Index -> Chars]
           /\ \A i \in Index : n <= i => trim_left(s)[i] = s[i]
<1> DEFINE first == FirstFrom(s, 0, Chars \ Spaces)
<1>1. s[n] \in Chars \ Spaces /\ 0 <= n /\ n \in Nat
  BY TrimAssumption, IndexIsNat DEF Chars
<1>2. first \in Index /\ first <= n
  BY <1>1, First
<1>3. trim_left(s) = IF first = 0 THEN s ELSE shift_left(s, first, first)
  BY DEF trim_left
<1> HIDE DEF first
<1>4. first \in 0 .. first
  BY <1>2, IndexIsNat
<1>5. /\ shift_left(s, first, first) \in [Index -> Chars]
      /\ \A i \in Index : n <= i => shift_left(s, first, first)[i] = s[i]
  BY <1>2, <1>4, ShiftLeft
<1> QED BY <1>3, <1>5

\* Where trim_right() stops stepping back.
LEMMA RightEnd ==
    ASSUME NEW s, NEW n \in Nat
    PROVE  \E j \in 0 .. n : /\ j = 0 \/ s[j - 1] \notin Spaces
                             /\ \A k \in j .. n - 1 : s[k] \in Spaces
<1> DEFINE Behind == {j \in 0 .. n : \A k \in j .. n - 1 : s[k] \in Spaces}
<1>1. Behind \in SUBSET Nat /\ n \in Behind
  OBVIOUS
<1>2. PICK j \in Behind : \A m \in Behind : j <= m
  BY <1>1, Least
<1>3. j = 0 \/ s[j - 1] \notin Spaces
  <2> SUFFICES ASSUME j # 0, s[j - 1] \in Spaces PROVE FALSE
    OBVIOUS
  <2>1. j \in Nat /\ j - 1 \in 0 .. n /\ \A k \in j .. n - 1 : s[k] \in Spaces
    BY <1>2
  <2>2. \A k \in j - 1 .. n - 1 : k = j - 1 \/ k \in j .. n - 1
    BY <2>1
  <2>3. j - 1 \in Behind
    BY <2>1, <2>2
  <2>4. j <= j - 1
    BY <1>2, <2>3
  <2> QED BY <2>1, <2>4
<1> QED BY <1>2, <1>3

LEMMA TrimRight ==
    ASSUME NEW s \in [Index -> Chars], NEW n \in Index, s[n] = NUL
    PROVE  /\ trim_right(s) \in [Index -> Chars]
           /\ \A i \in Index : n <= i => trim_right(s)[i] = s[i]
<1>1. strlen(s) \in Index /\ strlen(s) <= n /\ strlen(s) \in Nat /\ n \in Nat
  BY Length, IndexIsNat
<1> DEFINE P(j) == /\ j = 0 \/ s[j - 1] \notin Spaces
                   /\ \A k \in j .. strlen(s) - 1 : s[k] \in Spaces
           end == CHOOSE m \in 0 .. strlen(s) : P(m)
<1>2. end \in 0 .. strlen(s)
  <2>1. \E m \in 0 .. strlen(s) : P(m)
    BY <1>1, RightEnd
  <2> HIDE DEF P
  <2> QED BY <2>1, Zenon
<1>3. trim_right(s) = [s EXCEPT ![end] = NUL]
  BY DEF trim_right
<1> HIDE DEF end
<1>4. trim_right(s) \in [Index -> Chars]
  BY <1>3 DEF Chars
<1>5. \A i \in Index : n <= i => trim_right(s)[i] = s[i]
  BY <1>1, <1>2, <1>3, IndexIsNat
<1> QED BY <1>4, <1>5

LEMMA TrimEdges ==
    ASSUME NEW s \in [Index -> Chars], NEW n \in Index, s[n] = NUL
    PROVE  /\ trim_edges(s) \in [Index -> Chars]
           /\ \A i \in Index : n <= i => trim_edges(s)[i] = s[i]
<1>1. /\ trim_left(s) \in [Index -> Chars] /\ trim_left(s)[n] = NUL
      /\ \A i \in Index : n <= i => trim_left(s)[i] = s[i]
  BY TrimLeft, IndexIsNat
<1>2. /\ trim_right(trim_left(s)) \in [Index -> Chars]
      /\ \A i \in Index : n <= i => trim_right(trim_left(s))[i] = trim_left(s)[i]
  BY <1>1, TrimRight
<1> QED BY <1>1, <1>2 DEF trim_edges

----------------------------------------------------------------------------
(* The steps                                                               *)

LEMMA InitIInv == Init => IInv
<1> SUFFICES ASSUME NEW f \in Functions, NEW s \in Strings, Called(f, s) PROVE IInv
  BY DEF Init
<1>1. PICK n \in Index : s[n] = NUL
  BY DEF Strings
<1>2. strlen(s) \in Index /\ s[strlen(s)] = NUL /\ strlen(s) \in Nat
  BY <1>1, Length, IndexIsNat
<1>3. 0 \in Index
  BY TrimAssumption DEF Index
<1>4. TypeInvariant
  BY <1>3 DEF Called, TypeInvariant, Strings
<1>5. Ends(strlen(passed)) /\ Counts
  BY <1>2 DEF Called, Ends, Counts
<1> QED BY <1>4, <1>5 DEF IInv, Called

\* What a step of trim() may rely on.
LEMMA InString ==
    ASSUME IInv
    PROVE  /\ strlen(passed) \in Index /\ inString[strlen(passed)] = NUL
           /\ index \in Index /\ index \in Nat /\ strlen(passed) \in Nat
           /\ index <= strlen(passed)
           /\ distance \in Nat /\ distance <= index
           /\ inString \in [Index -> Chars]
           /\ inString[index] # NUL =>
                 index < strlen(passed) /\ index + 1 \in Index
<1>1. /\ strlen(passed) \in Index /\ inString[strlen(passed)] = NUL
      /\ index \in Index /\ index \in Nat /\ strlen(passed) \in Nat
      /\ index <= strlen(passed)
      /\ distance \in Nat /\ distance <= index
      /\ inString \in [Index -> Chars]
  BY IndexIsNat DEF IInv, TypeInvariant, Ends, Counts
<1>2. ASSUME inString[index] # NUL
      PROVE  index < strlen(passed) /\ index + 1 \in Index
  <2>1. index < strlen(passed)
    BY <1>1, <1>2
  <2>2. index + 1 <= BufferSize - 1 /\ BufferSize \in Nat
    BY <1>1, <2>1, IndexIsNat, TrimAssumption
  <2> QED BY <1>1, <2>1, <2>2 DEF Index
<1> QED BY <1>1, <1>2

\* trim() steps over a character, or stays where it is, in the same buffer.
LEMMA StepOver ==
    ASSUME IInv, UNCHANGED <<inString, function, passed>>,
           state' \in {"START", "IN_WORD", "ON_NOTICE", "WORK_TO_DO", "SHIFT", "DONE"},
           \/ index' = index
           \/ inString[index] # NUL /\ index' = index + 1,
           distance' \in 0 .. index',
           state' \in {"START", "IN_WORD", "ON_NOTICE"} => distance' = 0,
           state' = "ON_NOTICE" => index' >= 1,
           state' \in {"WORK_TO_DO", "SHIFT"} => distance' >= 1
    PROVE  IInv'
<1>1. index' \in Index /\ index' <= strlen(passed)
  BY InString
<1>2. TypeInvariant'
  BY <1>1 DEF IInv, TypeInvariant
<1>3. Ends(strlen(passed))' /\ Counts'
  BY <1>1 DEF IInv, Ends, Counts
<1> QED BY <1>2, <1>3 DEF IInv

LEMMA StartStep == ASSUME IInv, Start, Frame PROVE IInv'
<1>1. distance = 0 /\ state = "START"
  BY DEF Start, Sees, IInv, Counts
<1> QED BY <1>1, InString, StepOver DEF Start, Sees, classifyChar, Frame

LEMMA WorkToDoStep == ASSUME IInv, WorkToDo, Frame PROVE IInv'
<1>1. distance >= 1
  BY DEF WorkToDo, Sees, IInv, Counts
<1> QED BY <1>1, InString, StepOver DEF WorkToDo, Sees, classifyChar, Frame

LEMMA OnNoticeStep == ASSUME IInv, OnNotice, Frame PROVE IInv'
<1>1. distance = 0 /\ index >= 1
  BY DEF OnNotice, Sees, IInv, Counts
<1> QED BY <1>1, InString, StepOver DEF OnNotice, Sees, classifyChar, Frame

\* The first space behind a word becomes a blank.
LEMMA InWordStep == ASSUME IInv, InWord, Frame PROVE IInv'
<1>1. distance = 0
  BY DEF InWord, Sees, IInv, Counts
<1>2. CASE ~Sees("IN_WORD", "WHITESPACE")
  BY <1>1, <1>2, InString, StepOver DEF InWord, Sees, classifyChar, Frame
<1>3. CASE Sees("IN_WORD", "WHITESPACE")
  <2>1. /\ inString' = [inString EXCEPT ![index] = Blank]
        /\ state' = "ON_NOTICE" /\ index' = index + 1 /\ distance' = 0
        /\ UNCHANGED <<function, passed>> /\ inString[index] # NUL
    BY <1>1, <1>3 DEF InWord, Sees, classifyChar, Frame
  <2>2. TypeInvariant'
    BY <2>1, InString, TrimAssumption DEF TypeInvariant, Chars
  <2>3. Ends(strlen(passed))'
    BY <2>1, InString, IndexIsNat DEF IInv, Ends
  <2>4. Counts'
    BY <2>1, InString DEF Counts
  <2> QED BY <2>1, <2>2, <2>3, <2>4 DEF IInv
<1> QED BY <1>2, <1>3

\* The rest of the string moves to the left.
LEMMA ShiftStep == ASSUME IInv, Shift, Frame PROVE IInv'
<1>1. PICK next \in {"DONE", "IN_WORD"}, dist \in {distance, RoomForSpace} : ShiftTo(next, dist)
  BY DEF Shift
<1>2. distance >= 1
  BY DEF Shift, Sees, IInv, Counts
<1>3. dist \in 0 .. index
  BY <1>1, <1>2, InString DEF RoomForSpace
<1>4. /\ inString' = shift_left(inString, index, dist) /\ index' = index - dist
      /\ distance' = 0 /\ state' = next /\ UNCHANGED <<function, passed>>
  BY <1>1 DEF ShiftTo, Frame
<1>5. /\ inString' \in [Index -> Chars]
      /\ \A i \in Index : strlen(passed) <= i => inString'[i] = inString[i]
  BY <1>3, <1>4, InString, ShiftLeft
<1>6. index' \in Index /\ index' <= strlen(passed) /\ index' \in Nat
  <2>1. index' \in Nat /\ index' <= index
    BY <1>3, <1>4, InString
  <2>2. index' <= BufferSize - 1 /\ BufferSize \in Nat
    BY <2>1, InString, IndexIsNat, TrimAssumption
  <2> QED BY <2>1, <2>2, InString DEF Index
<1>7. TypeInvariant'
  BY <1>4, <1>5, <1>6 DEF TypeInvariant
<1>8. Ends(strlen(passed))' /\ Counts'
  BY <1>4, <1>5, <1>6 DEF IInv, Ends, Counts
<1> QED BY <1>4, <1>7, <1>8 DEF IInv

LEMMA OneStep == ASSUME IInv, TrimInOneStep, Frame PROVE IInv'
<1>1. /\ state' = "DONE" /\ UNCHANGED <<index, distance, function, passed>>
      /\ function # "trim"
      /\ inString' = CASE function = "trim_left"  -> trim_left(inString)
                       [] function = "trim_right" -> trim_right(inString)
                       [] function = "trim_edges" -> trim_edges(inString)
  BY DEF TrimInOneStep, Frame
<1>2. inString' \in {trim_left(inString), trim_right(inString), trim_edges(inString)}
  BY <1>1 DEF IInv, Functions
<1>3. /\ inString' \in [Index -> Chars]
      /\ \A i \in Index : strlen(passed) <= i => inString'[i] = inString[i]
  BY <1>2, InString, TrimLeft, TrimRight, TrimEdges
<1>4. TypeInvariant'
  BY <1>1, <1>3 DEF IInv, TypeInvariant
<1>5. Ends(strlen(passed))' /\ Counts'
  BY <1>1, <1>3 DEF IInv, Ends, Counts
<1> QED BY <1>1, <1>4, <1>5 DEF IInv

LEMMA NextIInv == IInv /\ [Next]_vars => IInv'
<1> SUFFICES ASSUME IInv, [Next]_vars PROVE IInv'
  OBVIOUS
<1>1. CASE Step /\ Frame
  BY <1>1, StartStep, InWordStep, OnNoticeStep, WorkToDoStep, ShiftStep DEF Step
<1>2. CASE TrimInOneStep /\ Frame
  BY <1>2, OneStep
<1>3. CASE UNCHANGED vars
  BY <1>3 DEF vars, IInv, TypeInvariant, Ends, Counts
<1> QED BY <1>1, <1>2, <1>3 DEF Next, Returned

\* Every step of trim(), and the other functions, preserve IInv.
LEMMA InvariantHolds == Spec => []IInv
  BY InitIInv, NextIInv, PTL DEF Spec

----------------------------------------------------------------------------

\* trim() stays inside of the string, whatever is in it, and the ASSERT of
\* shift_left() holds (trim.c:118).
THEOREM TypeCorrect == Spec => []TypeInvariant
  BY InvariantHolds, PTL DEF IInv

\* No function writes behind the string it was given, or makes it longer.
THEOREM StaysInTheString == Spec => []NothingBehindTheString
<1>1. IInv => NothingBehindTheString
  <2> SUFFICES ASSUME IInv PROVE NothingBehindTheString
    OBVIOUS
  <2>1. \A i \in strlen(passed) .. BufferSize - 1 : inString[i] = passed[i]
    <3>1. \A i \in strlen(passed) .. BufferSize - 1 : i \in Index /\ strlen(passed) <= i
      BY InString, TrimAssumption DEF Index
    <3> QED BY <3>1 DEF IInv, Ends
  <2>2. strlen(inString) <= strlen(passed)
    BY InString, Length
  <2> QED BY <2>1, <2>2 DEF NothingBehindTheString
<1> QED BY <1>1, InvariantHolds, PTL

-----------------------------------------------------------------------------
(* What trim() has kept                                                    *)

\* The indices before o of what is kept of p: the graphic characters and the
\* first space behind each word.
Kept(p, o) == {i \in 0 .. o - 1 : p[i] \in Graphic \/ (i >= 1 /\ p[i - 1] \in Graphic)}

Mark(c) == IF c \in Graphic THEN c ELSE Blank

\* The elements of K up to j.
Upto(K, j) == {k \in K : k <= j}

\* The buffer s begins with the characters of p at the indices K.
Reads(s, p, K) ==
    \A i \in 1 .. Cardinality(K) :
        \E j \in K : Cardinality(Upto(K, j)) = i /\ s[i - 1] = Mark(p[j])

\* From index x on, the buffer s holds what p holds from index o on.
Follows(s, x, p, o) == \A i \in o .. strlen(p) : s[x + (i - o)] = p[i]

LEMMA KeptNext ==
    ASSUME NEW p, NEW o \in Nat
    PROVE  /\ Kept(p, o) \in SUBSET Nat /\ IsFiniteSet(Kept(p, o))
           /\ Cardinality(Kept(p, o)) \in Nat
           /\ \A k \in Kept(p, o) : k < o
           /\ Kept(p, o + 1) =
                IF p[o] \in Graphic \/ (o >= 1 /\ p[o - 1] \in Graphic)
                THEN Kept(p, o) \cup {o} ELSE Kept(p, o)
<1>1. Kept(p, o) \in SUBSET (0 .. o - 1)
  BY DEF Kept
<1>2. 0 \in Int /\ o - 1 \in Int
  OBVIOUS
<1>3. IsFiniteSet(0 .. o - 1)
  BY <1>2, FS_Interval
<1>4. IsFiniteSet(Kept(p, o)) /\ Cardinality(Kept(p, o)) \in Nat
  BY <1>1, <1>3, FS_Subset, FS_CardinalityType
<1>5. \A i : i \in 0 .. (o + 1) - 1 <=> i \in 0 .. o - 1 \/ i = o
  OBVIOUS
<1>6. Kept(p, o + 1) =
         IF p[o] \in Graphic \/ (o >= 1 /\ p[o - 1] \in Graphic)
         THEN Kept(p, o) \cup {o} ELSE Kept(p, o)
  <2>1. CASE p[o] \in Graphic \/ (o >= 1 /\ p[o - 1] \in Graphic)
    <3>1. Kept(p, o + 1) = Kept(p, o) \cup {o}
      BY <1>5, <2>1 DEF Kept
    <3> QED BY <2>1, <3>1
  <2>2. CASE ~(p[o] \in Graphic \/ (o >= 1 /\ p[o - 1] \in Graphic))
    <3>1. Kept(p, o + 1) = Kept(p, o)
      BY <1>5, <2>2 DEF Kept
    <3> QED BY <2>2, <3>1
  <2> QED BY <2>1, <2>2
<1> QED BY <1>1, <1>4, <1>6

\* Only what has been read matters.
LEMMA ReadsSame ==
    ASSUME NEW s, NEW t, NEW p, NEW K, Reads(s, p, K), Cardinality(K) \in Nat,
           \A i \in 0 .. Cardinality(K) - 1 : t[i] = s[i]
    PROVE  Reads(t, p, K)
<1>1. \A i \in 1 .. Cardinality(K) : i - 1 \in 0 .. Cardinality(K) - 1
  OBVIOUS
<1> QED BY <1>1 DEF Reads

\* The elements up to j of a set with one more element behind all others.
LEMMA UptoLast ==
    ASSUME NEW K \in SUBSET Nat, IsFiniteSet(K), NEW x \in Nat, \A k \in K : k < x
    PROVE  /\ x \notin K /\ Cardinality(K) \in Nat
           /\ Cardinality(K \cup {x}) = Cardinality(K) + 1
           /\ Upto(K \cup {x}, x) = K \cup {x}
           /\ \A j \in K : Upto(K \cup {x}, j) = Upto(K, j)
<1>1. x \notin K
  OBVIOUS
<1>2. Cardinality(K) \in Nat /\ Cardinality(K \cup {x}) = Cardinality(K) + 1
  BY <1>1, FS_AddElement, FS_CardinalityType
<1>3. Upto(K \cup {x}, x) = K \cup {x}
  <2>1. \A k \in K \cup {x} : k <= x
    OBVIOUS
  <2> QED BY <2>1, Zenon DEF Upto
<1>4. ASSUME NEW j \in K PROVE Upto(K \cup {x}, j) = Upto(K, j)
  <2>1. ~(x <= j)
    OBVIOUS
  <2> QED BY <2>1, Zenon DEF Upto
<1> QED BY <1>1, <1>2, <1>3, <1>4

\* One more character is read.
LEMMA ReadsAdd ==
    ASSUME NEW s, NEW p, NEW K \in SUBSET Nat, IsFiniteSet(K), NEW x \in Nat,
           \A k \in K : k < x, Reads(s, p, K), s[Cardinality(K)] = Mark(p[x])
    PROVE  Reads(s, p, K \cup {x}) /\ Cardinality(K \cup {x}) = Cardinality(K) + 1
<1> DEFINE c == Cardinality(K)
           L == K \cup {x}
<1>1. /\ c \in Nat /\ Cardinality(L) = c + 1 /\ Upto(L, x) = L
      /\ \A j \in K : Upto(L, j) = Upto(K, j)
  BY UptoLast
<1>2. ASSUME NEW i \in 1 .. c + 1
      PROVE  \E j \in L : Cardinality(Upto(L, j)) = i /\ s[i - 1] = Mark(p[j])
  <2>1. CASE i = c + 1
    <3>1. i - 1 = c /\ x \in L
      BY <1>1, <2>1
    <3>2. Cardinality(Upto(L, x)) = i
      BY <1>1, <2>1, Zenon
    <3> QED BY <3>1, <3>2
  <2>2. CASE i # c + 1
    <3>1. i \in 1 .. c
      BY <1>1, <2>2
    <3>2. PICK j \in K : Cardinality(Upto(K, j)) = i /\ s[i - 1] = Mark(p[j])
      BY <3>1 DEF Reads
    <3>3. j \in L /\ Cardinality(Upto(L, j)) = i
      BY <1>1, <3>2, Zenon
    <3> QED BY <3>2, <3>3
  <2> QED BY <2>1, <2>2
<1>3. Reads(s, p, L)
  <2> HIDE DEF L, c
  <2> QED BY <1>1, <1>2, Zenon DEF Reads
<1> QED BY <1>1, <1>3

\* The last character is given back.
LEMMA ReadsDrop ==
    ASSUME NEW s, NEW p, NEW K \in SUBSET Nat, IsFiniteSet(K), NEW x \in Nat,
           \A k \in K : k < x, Reads(s, p, K \cup {x})
    PROVE  Reads(s, p, K) /\ Cardinality(K \cup {x}) = Cardinality(K) + 1
<1> DEFINE c == Cardinality(K)
           L == K \cup {x}
<1>1. /\ c \in Nat /\ Cardinality(L) = c + 1 /\ Upto(L, x) = L
      /\ \A j \in K : Upto(L, j) = Upto(K, j)
  BY UptoLast
<1>2. ASSUME NEW i \in 1 .. c
      PROVE  \E j \in K : Cardinality(Upto(K, j)) = i /\ s[i - 1] = Mark(p[j])
  <2>1. i \in 1 .. Cardinality(L) /\ i # c + 1
    BY <1>1
  <2>2. PICK j \in L : Cardinality(Upto(L, j)) = i /\ s[i - 1] = Mark(p[j])
    BY <2>1, Zenon DEF Reads
  <2>3. j # x
    <3> SUFFICES ASSUME j = x PROVE FALSE
      OBVIOUS
    <3>1. Cardinality(Upto(L, j)) = c + 1
      BY <1>1, Zenon
    <3> QED BY <2>1, <2>2, <3>1
  <2>4. j \in K
    BY <2>2, <2>3
  <2>5. Cardinality(Upto(K, j)) = i
    BY <1>1, <2>2, <2>4, Zenon
  <2> QED BY <2>2, <2>4, <2>5
<1>3. Reads(s, p, K)
  BY <1>2 DEF Reads
<1> QED BY <1>1, <1>3

\* Different elements have different ranks.
LEMMA Ranks ==
    ASSUME NEW K \in SUBSET Nat, IsFiniteSet(K), NEW j \in K, NEW k \in K,
           Cardinality(Upto(K, j)) = Cardinality(Upto(K, k))
    PROVE  j = k
<1>1. ASSUME NEW a \in K, NEW b \in K, a < b,
             Cardinality(Upto(K, a)) = Cardinality(Upto(K, b))
      PROVE  FALSE
  <2>1. Upto(K, a) \in SUBSET Upto(K, b) /\ b \in Upto(K, b) /\ b \notin Upto(K, a)
    <3>1. \A m \in K : m <= a => m <= b
      BY <1>1
    <3>2. b <= b /\ ~(b <= a)
      BY <1>1
    <3> QED BY <3>1, <3>2, Zenon DEF Upto
  <2>2. IsFiniteSet(Upto(K, b))
    <3>1. Upto(K, b) \in SUBSET K
      BY DEF Upto
    <3> QED BY <3>1, FS_Subset
  <2>3. Upto(K, a) = Upto(K, b)
    BY <1>1, <2>1, <2>2, FS_Subset
  <2> QED BY <2>1, <2>3
<1>2. j \in Nat /\ k \in Nat
  OBVIOUS
<1>3. j < k \/ j = k \/ k < j
  BY <1>2
<1> QED BY <1>1, <1>3
\* The element of rank i, which is the one Reading() reads.
Ranked(K, i) == CHOOSE m \in K : Cardinality({k \in K : k <= m}) = i

LEMMA Chosen ==
    ASSUME NEW K \in SUBSET Nat, IsFiniteSet(K), NEW j \in K, NEW i,
           Cardinality(Upto(K, j)) = i
    PROVE  Ranked(K, i) = j
<1> DEFINE m == Ranked(K, i)
<1>1. \E n \in K : Cardinality({k \in K : k <= n}) = i
  BY Zenon DEF Upto
<1>2. m \in K /\ Cardinality({k \in K : k <= m}) = i
  BY <1>1, Zenon DEF Ranked
<1>3. Cardinality(Upto(K, m)) = Cardinality(Upto(K, j))
  BY <1>2, Zenon DEF Upto
<1> HIDE DEF m
<1>4. m = j
  BY <1>2, <1>3, Ranks
<1> QED BY <1>4 DEF m

\* Where a string ends.
LEMMA StrlenIs ==
    ASSUME NEW s, NEW n \in Index, s[n] = NUL, \A k \in 0 .. n - 1 : s[k] # NUL
    PROVE  strlen(s) = n
<1>1. n \in Nat /\ strlen(s) \in Nat /\ strlen(s) <= n /\ s[strlen(s)] = NUL
  BY Length, IndexIsNat
<1>2. strlen(s) \notin 0 .. n - 1
  BY <1>1
<1> HIDE DEF strlen
<1> QED BY <1>1, <1>2

\* What a string is made of.
LEMMA StringIs ==
    ASSUME NEW p \in Strings
    PROVE  /\ p \in [Index -> Chars]
           /\ strlen(p) \in Index /\ strlen(p) \in Nat /\ p[strlen(p)] = NUL
           /\ \A k \in 0 .. strlen(p) - 1 : k \in Index /\ p[k] # NUL
           /\ p[strlen(p)] \notin Graphic
<1>1. PICK n \in Index : p[n] = NUL
  BY DEF Strings
<1> QED BY <1>1, Length, IndexIsNat, TrimAssumption DEF Strings, Index

\* What FullyTrimmed() keeps.
FullyKept(p) ==
    {i \in After(p) \cap Before(p) : p[i] \in Graphic \/ p[i - 1] \in Graphic}

\* A string that reads what is to be kept, and ends there, is the one that is
\* promised.
LEMMA TrimmedText ==
    ASSUME NEW t \in [Index -> Chars], NEW p, NEW K \in SUBSET Nat,
           IsFiniteSet(K), K = FullyKept(p),
           Cardinality(K) \in Index, Reads(t, p, K), t[Cardinality(K)] = NUL
    PROVE  Contents(t) = FullyTrimmed(p)
<1> DEFINE c == Cardinality(K)
           text == Reading(p, K)
<1>1. c \in Nat
  BY IndexIsNat
<1>2. ASSUME NEW i \in 1 .. c PROVE t[i - 1] = Mark(text[i])
  <2>1. PICK j \in K : Cardinality(Upto(K, j)) = i /\ t[i - 1] = Mark(p[j])
    BY <1>2, Zenon DEF Reads
  <2>2. Ranked(K, i) = j
    BY <2>1, Chosen
  <2>3. text[i] = p[j]
    BY <1>2, <2>2, Zenon DEF Reading, Ranked
  <2> QED BY <2>1, <2>3, Zenon
<1>3. \A k \in 0 .. c - 1 : t[k] # NUL
  <2> SUFFICES ASSUME NEW k \in 0 .. c - 1 PROVE t[k] # NUL
    OBVIOUS
  <2>1. k + 1 \in 1 .. c /\ (k + 1) - 1 = k
    BY <1>1
  <2>2. t[k] = Mark(text[k + 1])
    BY <1>2, <2>1
  <2> QED BY <2>2, TrimAssumption DEF Mark
<1>4. strlen(t) = c
  BY <1>3, StrlenIs
<1>5. Contents(t) = [i \in 1 .. c |-> Mark(text[i])]
  BY <1>2, <1>4, Zenon DEF Contents
<1>6. DOMAIN text = 1 .. c
  BY Zenon DEF Reading
<1>7. FullyTrimmed(p) = [i \in DOMAIN text |-> IF text[i] \in Graphic THEN text[i] ELSE Blank]
  BY Zenon DEF FullyTrimmed, FullyKept
<1> QED BY <1>5, <1>6, <1>7, Zenon DEF Mark

\* The last graphic character before n.
LEMMA LastGraphic ==
    ASSUME NEW p, NEW n \in Nat
    PROVE  \/ \A k \in 0 .. n - 1 : p[k] \notin Graphic
           \/ \E g \in 0 .. n - 1 : /\ p[g] \in Graphic
                                    /\ \A k \in g + 1 .. n - 1 : p[k] \notin Graphic
<1> DEFINE Behind == {j \in 0 .. n : \A k \in j .. n - 1 : p[k] \notin Graphic}
<1>1. Behind \in SUBSET Nat /\ n \in Behind
  OBVIOUS
<1>2. PICK j \in Behind : \A m \in Behind : j <= m
  BY <1>1, Least
<1>3. CASE j = 0
  BY <1>2, <1>3
<1>4. CASE j # 0
  <2>1. j \in Nat /\ j - 1 \in 0 .. n - 1 /\ (j - 1) + 1 = j
        /\ \A k \in j .. n - 1 : p[k] \notin Graphic
    BY <1>2, <1>4
  <2>2. p[j - 1] \in Graphic
    <3> SUFFICES ASSUME p[j - 1] \notin Graphic PROVE FALSE
      OBVIOUS
    <3>1. \A k \in j - 1 .. n - 1 : k = j - 1 \/ k \in j .. n - 1
      BY <2>1
    <3>2. j - 1 \in Behind
      BY <2>1, <3>1
    <3>3. j <= j - 1
      BY <1>2, <3>2
    <3> QED BY <2>1, <3>3
  <2> QED BY <2>1, <2>2
<1> QED BY <1>3, <1>4

\* Up to the last graphic character, what trim() has kept is what is promised.
LEMMA LastWord ==
    ASSUME NEW p \in Strings, NEW g \in 0 .. strlen(p) - 1, p[g] \in Graphic,
           \A k \in g + 1 .. strlen(p) - 1 : p[k] \notin Graphic
    PROVE  FullyKept(p) = Kept(p, g + 1)
<1> DEFINE n == strlen(p)
<1>1. n \in Nat
  BY StringIs
<1> HIDE DEF n
<1>2. ASSUME NEW i \in FullyKept(p) PROVE i \in Kept(p, g + 1)
  <2>1. i \in 0 .. n - 1 /\ (\E j \in 0 .. i : p[j] \in Graphic)
        /\ (\E j \in i .. n - 1 : p[j] \in Graphic)
        /\ (p[i] \in Graphic \/ p[i - 1] \in Graphic)
    BY <1>2, Zenon DEF FullyKept, After, Before, n
  <2>2. PICK j \in i .. n - 1 : p[j] \in Graphic
    BY <2>1
  <2>3. j \notin g + 1 .. n - 1
    BY <2>2 DEF n
  <2>4. i \in 0 .. (g + 1) - 1
    BY <1>1, <2>1, <2>2, <2>3
  <2>5. p[i] \in Graphic \/ (i >= 1 /\ p[i - 1] \in Graphic)
    <3>1. CASE i = 0
      <4>1. \A j1 \in 0 .. i : j1 = i
        BY <3>1
      <4> QED BY <2>1, <4>1
    <3>2. CASE i # 0
      BY <2>1, <3>2
    <3> QED BY <3>1, <3>2
  <2> QED BY <2>4, <2>5 DEF Kept
<1>3. ASSUME NEW i \in Kept(p, g + 1) PROVE i \in FullyKept(p)
  <2>1. i \in 0 .. (g + 1) - 1 /\ (p[i] \in Graphic \/ (i >= 1 /\ p[i - 1] \in Graphic))
    BY <1>3, Zenon DEF Kept
  <2>2. i \in 0 .. n - 1 /\ g \in i .. n - 1 /\ i \in 0 .. i
        /\ (i >= 1 => i - 1 \in 0 .. i)
    BY <1>1, <2>1 DEF n
  <2>3. \E j \in 0 .. i : p[j] \in Graphic
    BY <2>1, <2>2
  <2>4. \E j \in i .. n - 1 : p[j] \in Graphic
    BY <2>2
  <2>5. i \in After(p) /\ i \in Before(p)
    BY <2>2, <2>3, <2>4, Zenon DEF After, Before, n
  <2> QED BY <2>1, <2>5 DEF FullyKept
<1> QED BY <1>2, <1>3

LEMMA NoWord ==
    ASSUME NEW p \in Strings, \A k \in 0 .. strlen(p) - 1 : p[k] \notin Graphic
    PROVE  FullyKept(p) = {}
<1> SUFFICES ASSUME NEW i \in FullyKept(p) PROVE FALSE
  OBVIOUS
<1>1. i \in 0 .. strlen(p) - 1 /\ \E j \in i .. strlen(p) - 1 : p[j] \in Graphic
  BY Zenon DEF FullyKept, Before
<1>2. strlen(p) \in Nat
  BY StringIs
<1> QED BY <1>1, <1>2

\* If the string ends in a space, trim() has kept one more.
LEMMA OneMore ==
    ASSUME NEW p, NEW n \in Nat, NEW g \in 0 .. n - 1, p[g] \in Graphic,
           \A k \in g + 1 .. n - 1 : p[k] \notin Graphic, p[n - 1] \notin Graphic
    PROVE  Kept(p, n) = Kept(p, g + 1) \cup {g + 1}
<1>1. g # n - 1
  OBVIOUS
<1>2. g + 1 \in 0 .. n - 1 /\ g + 1 >= 1 /\ (g + 1) - 1 = g
  BY <1>1
<1>3. g + 1 \in Kept(p, n)
  BY <1>2 DEF Kept
<1>4. ASSUME NEW i \in Kept(p, n) PROVE i \in Kept(p, g + 1) \/ i = g + 1
  <2>1. i \in 0 .. n - 1 /\ (p[i] \in Graphic \/ (i >= 1 /\ p[i - 1] \in Graphic))
    BY <1>4, Zenon DEF Kept
  <2>2. i \notin g + 1 .. n - 1 \/ i - 1 \notin g + 1 .. n - 1
    BY <2>1
  <2>3. i \in 0 .. (g + 1) - 1 \/ i = g + 1
    BY <2>1, <2>2
  <2> QED BY <2>1, <2>3 DEF Kept
<1>5. ASSUME NEW i \in Kept(p, g + 1) PROVE i \in Kept(p, n)
  <2>1. i \in 0 .. (g + 1) - 1 /\ (p[i] \in Graphic \/ (i >= 1 /\ p[i - 1] \in Graphic))
    BY <1>5, Zenon DEF Kept
  <2>2. i \in 0 .. n - 1
    BY <2>1
  <2> QED BY <2>1, <2>2 DEF Kept
<1> QED BY <1>3, <1>4, <1>5

\* shift_left() leaves what is before its target alone, and moves the rest of
\* the string there.
LEMMA ShiftMoves ==
    ASSUME NEW s \in [Index -> Chars], NEW p \in Strings,
           NEW pos \in Index, NEW dist \in 0 .. pos, NEW o \in pos .. strlen(p),
           Follows(s, pos, p, o)
    PROVE  /\ \A i \in 0 .. (pos - dist) - 1 : shift_left(s, pos, dist)[i] = s[i]
           /\ Follows(shift_left(s, pos, dist), pos - dist, p, o)
<1> DEFINE n   == strlen(p)
           end == FirstFrom(s, pos, {NUL})
           t   == shift_left(s, pos, dist)
<1>1. /\ n \in Index /\ n \in Nat /\ p[n] = NUL
      /\ \A k \in 0 .. n - 1 : k \in Index /\ p[k] # NUL
      /\ pos \in Nat /\ dist \in Nat /\ o \in Nat /\ pos <= o /\ o <= n /\ dist <= pos
      /\ BufferSize \in Nat /\ n <= BufferSize - 1
  BY StringIs, IndexIsNat, TrimAssumption
<1>2. t = [i \in Index |-> IF i \in (pos - dist) .. (end - dist) THEN s[i + dist] ELSE s[i]]
  BY Zenon DEF shift_left
<1> DEFINE e == pos + (n - o)
<1>3. \A i \in o .. n : s[pos + (i - o)] = p[i]
  BY DEF Follows
<1>4. e \in Index /\ pos <= e /\ s[e] = NUL
  <2>1. e \in Nat /\ pos <= e /\ e <= n /\ n \in o .. n
    BY <1>1
  <2>2. s[e] = NUL
    BY <1>1, <1>3, <2>1
  <2> QED BY <1>1, <2>1, <2>2 DEF Index
<1>5. end \in Index /\ pos <= end /\ end <= e /\ s[end] = NUL /\ end \in Nat
  <2> HIDE DEF e
  <2>1. s[e] \in {NUL}
    BY <1>4
  <2>2. end \in Index /\ pos <= end /\ end <= e /\ s[end] \in {NUL}
    BY <1>1, <1>4, <2>1, First
  <2> QED BY <2>2, IndexIsNat
<1> HIDE DEF end, t, n
<1>6. end = e
  <2>1. o + (end - pos) \in o .. n /\ pos + ((o + (end - pos)) - o) = end
    BY <1>1, <1>5
  <2>2. s[end] = p[o + (end - pos)]
    BY <1>3, <2>1
  <2>3. o + (end - pos) \notin 0 .. n - 1
    BY <1>1, <1>5, <2>2
  <2> QED BY <1>1, <1>5, <2>1, <2>3
<1>7. ASSUME NEW i \in 0 .. (pos - dist) - 1 PROVE t[i] = s[i]
  <2>1. i \in Index /\ i \notin (pos - dist) .. (end - dist)
    BY <1>1 DEF Index
  <2> QED BY <1>2, <2>1
<1>8. ASSUME NEW i \in o .. n PROVE t[(pos - dist) + (i - o)] = p[i]
  <2>1. /\ (pos - dist) + (i - o) \in Index
        /\ (pos - dist) + (i - o) \in (pos - dist) .. (end - dist)
        /\ ((pos - dist) + (i - o)) + dist = pos + (i - o)
    BY <1>1, <1>6 DEF Index
  <2>2. t[(pos - dist) + (i - o)] = s[((pos - dist) + (i - o)) + dist]
    BY <1>2, <2>1, Zenon
  <2> QED BY <1>3, <2>1, <2>2, Zenon
<1>9. Follows(t, pos - dist, p, o)
  BY <1>8, Zenon DEF Follows, n
<1> QED BY <1>7, <1>9, Zenon DEF t

\* What trim() has done when it has read the o characters at the front of p, at
\* `x' of the buffer s: they have been copied to the front as they are to be
\* kept, what is not copied yet is as it was, and the state st tells what the
\* last character was.
Room(x, d) == IF x - d > 0 THEN d - 1 ELSE d

Progress(st, s, x, d, p, o) ==
    /\ o \in x .. strlen(p)
    /\ Follows(s, x, p, o)
    /\ Reads(s, p, Kept(p, o))
    /\ st \in {"START", "IN_WORD", "ON_NOTICE"} => Cardinality(Kept(p, o)) = x
    /\ st \in {"WORK_TO_DO", "SHIFT"} => Cardinality(Kept(p, o)) = x - Room(x, d)
    /\ st = "START" => o = 0
    /\ st = "IN_WORD" => p[o] \in Graphic \/ (o >= 1 /\ p[o - 1] \in Graphic)
    /\ st = "ON_NOTICE" => o >= 2 /\ p[o - 2] \in Graphic /\ p[o - 1] \notin Graphic
    /\ st \in {"WORK_TO_DO", "SHIFT"} => o >= 1 /\ p[o - 1] \notin Graphic

TInv ==
    /\ IInv
    /\ ReturnsTrimmed
    /\ state = "START" => inString = passed /\ index = 0
    /\ function = "trim" /\ state # "DONE" =>
          \E o \in Nat : Progress(state, inString, index, distance, passed, o)

\* One character on, the rest of the string is still to come.
LEMMA FollowsOn ==
    ASSUME NEW s, NEW x \in Nat, NEW p \in Strings, NEW o \in x .. strlen(p),
           Follows(s, x, p, o)
    PROVE  /\ s[x] = p[o]
           /\ s[x] # NUL => o + 1 \in x + 1 .. strlen(p) /\ Follows(s, x + 1, p, o + 1)
           /\ s[x] = NUL => o = strlen(p)
<1>1. strlen(p) \in Nat /\ p[strlen(p)] = NUL /\ o \in Nat /\ o <= strlen(p) /\ x <= o
      /\ \A k \in 0 .. strlen(p) - 1 : p[k] # NUL
  BY StringIs
<1> HIDE DEF strlen
<1>2. s[x] = p[o]
  <2>1. o \in o .. strlen(p) /\ x + (o - o) = x
    BY <1>1
  <2>2. s[x + (o - o)] = p[o]
    BY <2>1 DEF Follows
  <2> QED BY <2>1, <2>2, Zenon
<1>3. ASSUME s[x] # NUL
      PROVE  o + 1 \in x + 1 .. strlen(p) /\ Follows(s, x + 1, p, o + 1)
  <2>1. o # strlen(p)
    BY <1>1, <1>2, <1>3
  <2>2. o + 1 \in x + 1 .. strlen(p)
    BY <1>1, <2>1
  <2>3. \A i \in o + 1 .. strlen(p) : i \in o .. strlen(p) /\ (x + 1) + (i - (o + 1)) = x + (i - o)
    BY <1>1
  <2>4. Follows(s, x + 1, p, o + 1)
    BY <2>3 DEF Follows
  <2> QED BY <2>2, <2>4
<1>4. ASSUME s[x] = NUL PROVE o = strlen(p)
  <2>1. o \notin 0 .. strlen(p) - 1
    BY <1>1, <1>2, <1>4
  <2> QED BY <1>1, <2>1
<1> QED BY <1>2, <1>3, <1>4

\* A character is kept.
LEMMA CharKept ==
    ASSUME NEW s, NEW p, NEW o \in Nat, NEW x,
           Cardinality(Kept(p, o)) = x, Reads(s, p, Kept(p, o)),
           s[x] = Mark(p[o]), p[o] \in Graphic \/ (o >= 1 /\ p[o - 1] \in Graphic)
    PROVE  Reads(s, p, Kept(p, o + 1)) /\ Cardinality(Kept(p, o + 1)) = x + 1
<1> DEFINE K == Kept(p, o)
<1>1. K \in SUBSET Nat /\ IsFiniteSet(K) /\ \A k \in K : k < o
  BY KeptNext
<1>2. Kept(p, o + 1) = K \cup {o}
  BY KeptNext
<1>3. s[Cardinality(K)] = Mark(p[o])
  BY Zenon
<1> HIDE DEF K
<1>4. Reads(s, p, K)
  BY Zenon DEF K
<1>5. Reads(s, p, K \cup {o}) /\ Cardinality(K \cup {o}) = Cardinality(K) + 1
  BY <1>1, <1>3, <1>4, ReadsAdd
<1> QED BY <1>2, <1>5, Zenon DEF K

\* A space is not kept.
LEMMA CharDropped ==
    ASSUME NEW p, NEW o \in Nat,
           p[o] \notin Graphic, ~(o >= 1 /\ p[o - 1] \in Graphic)
    PROVE  Kept(p, o + 1) = Kept(p, o)
  BY KeptNext

LEMMA InitTInv == Init => TInv
<1> SUFFICES ASSUME NEW f \in Functions, NEW s \in Strings, Called(f, s) PROVE TInv
  BY DEF Init
<1>1. IInv
  BY InitIInv DEF Init
<1>2. inString = passed /\ index = 0 /\ state = "START" /\ passed \in Strings /\ passed = s
  BY DEF Called
<1>3. Kept(passed, 0) = {}
  BY DEF Kept
<1>4. Cardinality(Kept(passed, 0)) = 0
  BY <1>3, FS_EmptySet, Zenon
<1>5. Reads(inString, passed, Kept(passed, 0))
  <2>1. \A i : i \notin 1 .. 0
    OBVIOUS
  <2> QED BY <1>4, <2>1, Zenon DEF Reads
<1>6. Follows(inString, index, passed, 0) /\ 0 \in index .. strlen(passed)
  <2>1. strlen(passed) \in Nat
    BY <1>2, StringIs
  <2> QED BY <1>2, <2>1 DEF Follows
<1>7. Progress(state, inString, index, distance, passed, 0)
  BY <1>2, <1>4, <1>5, <1>6 DEF Progress
<1> QED BY <1>1, <1>2, <1>7 DEF TInv, ReturnsTrimmed

\* A character of a word is kept.
LEMMA WordGoesOn ==
    ASSUME NEW st \in {"START", "IN_WORD", "ON_NOTICE"}, NEW s, NEW x \in Nat,
           NEW d, NEW p \in Strings, NEW o \in Nat, Progress(st, s, x, d, p, o),
           s[x] \in Graphic
    PROVE  Progress("IN_WORD", s, x + 1, 0, p, o + 1)
<1>1. o \in x .. strlen(p) /\ Follows(s, x, p, o) /\ Reads(s, p, Kept(p, o))
      /\ Cardinality(Kept(p, o)) = x
  BY Zenon DEF Progress
<1>2. s[x] = p[o] /\ o + 1 \in x + 1 .. strlen(p) /\ Follows(s, x + 1, p, o + 1)
  BY <1>1, FollowsOn, TrimAssumption
<1>3. p[o] \in Graphic /\ s[x] = Mark(p[o])
  BY <1>2 DEF Mark
<1>4. Reads(s, p, Kept(p, o + 1)) /\ Cardinality(Kept(p, o + 1)) = x + 1
  BY <1>1, <1>3, CharKept
<1>5. o + 1 >= 1 /\ (o + 1) - 1 = o
  OBVIOUS
<1> QED BY <1>2, <1>3, <1>4, <1>5 DEF Progress

LEMMA SpaceAtStart ==
    ASSUME NEW s, NEW d, NEW p \in Strings, NEW o \in Nat,
           Progress("START", s, 0, d, p, o), s[0] \in Spaces
    PROVE  Progress("WORK_TO_DO", s, 1, 1, p, 1)
<1>1. o = 0 /\ 0 \in 0 .. strlen(p) /\ Follows(s, 0, p, 0)
      /\ Reads(s, p, Kept(p, 0)) /\ Cardinality(Kept(p, 0)) = 0
  BY DEF Progress
<1>2. s[0] # NUL /\ s[0] \notin Graphic
  BY TrimAssumption
<1>3. s[0] = p[0] /\ 0 + 1 \in 0 + 1 .. strlen(p) /\ Follows(s, 0 + 1, p, 0 + 1)
  BY <1>1, <1>2, FollowsOn
<1>4. p[0] \notin Graphic
  BY <1>2, <1>3
<1>5. Kept(p, 0 + 1) = Kept(p, 0)
  BY <1>4, CharDropped
<1>6. 0 + 1 = 1 /\ 1 >= 1 /\ 1 - 1 = 0 /\ 1 - Room(1, 1) = 0
  BY DEF Room
<1>7. Kept(p, 1) = Kept(p, 0)
  BY <1>5, <1>6
<1>8. Reads(s, p, Kept(p, 1)) /\ Cardinality(Kept(p, 1)) = 1 - Room(1, 1)
  BY <1>1, <1>6, <1>7, Zenon
<1>9. 1 \in 1 .. strlen(p) /\ Follows(s, 1, p, 1)
  BY <1>3, <1>6, Zenon
<1> QED BY <1>4, <1>6, <1>8, <1>9 DEF Progress

\* The first space behind a word is kept, as a blank.
LEMMA WordEnds ==
    ASSUME NEW s \in [Index -> Chars], NEW x \in Index, NEW d, NEW p \in Strings,
           NEW o \in Nat, Progress("IN_WORD", s, x, d, p, o), s[x] \in Spaces
    PROVE  Progress("ON_NOTICE", [s EXCEPT ![x] = Blank], x + 1, 0, p, o + 1)
<1> DEFINE t == [s EXCEPT ![x] = Blank]
<1>0. x \in Nat
  BY IndexIsNat
<1>1. o \in x .. strlen(p) /\ Follows(s, x, p, o) /\ Reads(s, p, Kept(p, o))
      /\ Cardinality(Kept(p, o)) = x
      /\ (p[o] \in Graphic \/ (o >= 1 /\ p[o - 1] \in Graphic))
  BY Zenon DEF Progress
<1>2. s[x] # NUL /\ s[x] \notin Graphic
  BY TrimAssumption
<1>3. s[x] = p[o] /\ o + 1 \in x + 1 .. strlen(p) /\ Follows(s, x + 1, p, o + 1)
  BY <1>0, <1>1, <1>2, FollowsOn
<1>4. p[o] \notin Graphic /\ o >= 1 /\ p[o - 1] \in Graphic
  BY <1>1, <1>2, <1>3
<1>5. t[x] = Blank /\ \A i \in Index : i # x => t[i] = s[i]
  OBVIOUS
<1>6. strlen(p) \in Nat /\ strlen(p) <= BufferSize - 1 /\ BufferSize \in Nat /\ x <= o
      /\ o + 1 <= strlen(p)
  BY <1>1, <1>3, StringIs, IndexIsNat, TrimAssumption
<1> HIDE DEF t
<1>7. ASSUME NEW i \in o + 1 .. strlen(p) PROVE t[(x + 1) + (i - (o + 1))] = p[i]
  <2>1. (x + 1) + (i - (o + 1)) \in Index /\ (x + 1) + (i - (o + 1)) # x
    BY <1>0, <1>6 DEF Index
  <2>2. s[(x + 1) + (i - (o + 1))] = p[i]
    BY <1>3 DEF Follows
  <2> QED BY <1>5, <2>1, <2>2
<1>8. Follows(t, x + 1, p, o + 1)
  BY <1>7, Zenon DEF Follows
<1>9. \A i \in 0 .. x - 1 : t[i] = s[i]
  <2>1. \A i \in 0 .. x - 1 : i \in Index /\ i # x
    BY <1>0, <1>6 DEF Index
  <2> QED BY <1>5, <2>1
<1>10. Reads(t, p, Kept(p, o))
  <2>1. \A i \in 0 .. Cardinality(Kept(p, o)) - 1 : t[i] = s[i]
    BY <1>1, <1>9, Zenon
  <2>2. Cardinality(Kept(p, o)) \in Nat
    BY KeptNext
  <2> QED BY <1>1, <2>1, <2>2, ReadsSame
<1>11. t[x] = Mark(p[o])
  BY <1>4, <1>5 DEF Mark
<1>12. Reads(t, p, Kept(p, o + 1)) /\ Cardinality(Kept(p, o + 1)) = x + 1
  BY <1>1, <1>4, <1>10, <1>11, CharKept
<1>13. o + 1 >= 2 /\ (o + 1) - 1 = o /\ (o + 1) - 2 = o - 1
  BY <1>4
<1>14. Progress("ON_NOTICE", t, x + 1, 0, p, o + 1)
  BY <1>3, <1>4, <1>8, <1>12, <1>13 DEF Progress
<1> QED BY <1>14 DEF t

\* Two of the characters that have been read are kept when the second space in
\* a row, or the end, is seen.
LEMMA NoticedTwo ==
    ASSUME NEW s, NEW x \in Nat, NEW d, NEW p \in Strings,
           NEW o \in Nat, Progress("ON_NOTICE", s, x, d, p, o)
    PROVE  x >= 2
<1>1. Cardinality(Kept(p, o)) = x /\ o >= 2 /\ p[o - 2] \in Graphic
  BY DEF Progress
<1>2. o - 1 \in Kept(p, o) /\ o - 2 \in Kept(p, o)
  BY <1>1 DEF Kept
<1>3. IsFiniteSet(Kept(p, o))
  BY KeptNext
<1> DEFINE Two == {o - 2} \cup {o - 1}
<1>4. Cardinality(Two) = 2
  <2>1. IsFiniteSet({o - 2}) /\ Cardinality({o - 2}) = 1
    BY FS_Singleton
  <2>2. o - 1 \notin {o - 2}
    BY <1>1
  <2>3. Cardinality({o - 2} \cup {o - 1}) = Cardinality({o - 2}) + 1
    BY <2>1, <2>2, FS_AddElement
  <2> QED BY <2>1, <2>3
<1>5. Two \in SUBSET Kept(p, o)
  BY <1>2
<1>6. Cardinality(Two) <= Cardinality(Kept(p, o))
  BY <1>3, <1>5, FS_Subset
<1> HIDE DEF Two
<1> QED BY <1>1, <1>4, <1>6

LEMMA NoticedEnd ==
    ASSUME NEW s, NEW x \in Nat, NEW p \in Strings,
           NEW o \in Nat, Progress("ON_NOTICE", s, x, 0, p, o)
    PROVE  Progress("SHIFT", s, x, 1, p, o)
<1>1. x >= 2
  BY NoticedTwo
<1>2. x - Room(x, 1) = x
  BY <1>1 DEF Room
<1>3. o >= 1 /\ Cardinality(Kept(p, o)) = x - Room(x, 1)
  BY <1>2 DEF Progress
<1> QED BY <1>3 DEF Progress

LEMMA NoticedSpace ==
    ASSUME NEW s, NEW x \in Nat, NEW p \in Strings, NEW o \in Nat,
           Progress("ON_NOTICE", s, x, 0, p, o), s[x] \in Spaces
    PROVE  Progress("WORK_TO_DO", s, x + 1, 2, p, o + 1)
<1>1. /\ o \in x .. strlen(p) /\ Follows(s, x, p, o) /\ Reads(s, p, Kept(p, o))
      /\ Cardinality(Kept(p, o)) = x /\ o >= 2 /\ p[o - 1] \notin Graphic
  BY DEF Progress
<1>2. s[x] # NUL /\ s[x] \notin Graphic
  BY TrimAssumption
<1>3. s[x] = p[o] /\ o + 1 \in x + 1 .. strlen(p) /\ Follows(s, x + 1, p, o + 1)
  BY <1>1, <1>2, FollowsOn
<1>4. Kept(p, o + 1) = Kept(p, o)
  BY <1>1, <1>2, <1>3, CharDropped
<1>5. (x + 1) - Room(x + 1, 2) = x
  BY NoticedTwo DEF Room
<1>6. Reads(s, p, Kept(p, o + 1)) /\ Cardinality(Kept(p, o + 1)) = (x + 1) - Room(x + 1, 2)
  BY <1>1, <1>4, <1>5, Zenon
<1>7. o + 1 >= 1 /\ p[(o + 1) - 1] \notin Graphic
  BY <1>2, <1>3
<1> QED BY <1>3, <1>6, <1>7 DEF Progress

LEMMA WorkSpace ==
    ASSUME NEW s, NEW x \in Nat, NEW d \in Nat, NEW p \in Strings, NEW o \in Nat,
           Progress("WORK_TO_DO", s, x, d, p, o), s[x] \in Spaces
    PROVE  Progress("WORK_TO_DO", s, x + 1, d + 1, p, o + 1)
<1>1. /\ o \in x .. strlen(p) /\ Follows(s, x, p, o) /\ Reads(s, p, Kept(p, o))
      /\ Cardinality(Kept(p, o)) = x - Room(x, d) /\ o >= 1 /\ p[o - 1] \notin Graphic
  BY DEF Progress
<1>2. s[x] # NUL /\ s[x] \notin Graphic
  BY TrimAssumption
<1>3. s[x] = p[o] /\ o + 1 \in x + 1 .. strlen(p) /\ Follows(s, x + 1, p, o + 1)
  BY <1>1, <1>2, FollowsOn
<1>4. Kept(p, o + 1) = Kept(p, o)
  BY <1>1, <1>2, <1>3, CharDropped
<1>5. (x + 1) - Room(x + 1, d + 1) = x - Room(x, d)
  BY DEF Room
<1>6. Reads(s, p, Kept(p, o + 1)) /\ Cardinality(Kept(p, o + 1)) = (x + 1) - Room(x + 1, d + 1)
  BY <1>1, <1>4, <1>5, Zenon
<1>7. o + 1 >= 1 /\ p[(o + 1) - 1] \notin Graphic
  BY <1>2, <1>3
<1> QED BY <1>3, <1>6, <1>7 DEF Progress

\* The rest of the string is moved to behind the one blank, or to the front.
LEMMA ShiftToWord ==
    ASSUME NEW s \in [Index -> Chars], NEW x \in Index, NEW d \in 0 .. x,
           d >= 1, NEW p \in Strings, NEW o \in Nat,
           Progress("SHIFT", s, x, d, p, o), s[x] \in Graphic
    PROVE  Progress("IN_WORD", shift_left(s, x, Room(x, d)), x - Room(x, d), 0, p, o)
<1> DEFINE r == Room(x, d)
           t == shift_left(s, x, r)
<1>1. /\ o \in x .. strlen(p) /\ Follows(s, x, p, o) /\ Reads(s, p, Kept(p, o))
      /\ Cardinality(Kept(p, o)) = x - r
  BY DEF Progress
<1>2. x \in Nat /\ r \in 0 .. x
  BY IndexIsNat DEF Room
<1> HIDE DEF r
<1>3. /\ \A i \in 0 .. (x - r) - 1 : t[i] = s[i]
      /\ Follows(t, x - r, p, o)
  BY <1>1, <1>2, ShiftMoves, Zenon
<1> HIDE DEF t
<1>4. Reads(t, p, Kept(p, o))
  <2>1. \A i \in 0 .. Cardinality(Kept(p, o)) - 1 : t[i] = s[i]
    BY <1>1, <1>3, Zenon
  <2>2. Cardinality(Kept(p, o)) \in Nat
    BY KeptNext
  <2> QED BY <1>1, <2>1, <2>2, ReadsSame
<1>5. p[o] \in Graphic
  BY <1>1, <1>2, FollowsOn
<1>6. o \in x - r .. strlen(p)
  BY <1>1, <1>2
<1>7. Progress("IN_WORD", t, x - r, 0, p, o)
  BY <1>1, <1>3, <1>4, <1>5, <1>6 DEF Progress
<1> QED BY <1>7 DEF t, r
\* The string ends behind a word, or is empty.
LEMMA EndsInWord ==
    ASSUME NEW st \in {"START", "IN_WORD"}, NEW s \in [Index -> Chars],
           NEW x \in Index, NEW d, NEW p \in Strings, NEW o \in Nat,
           Progress(st, s, x, d, p, o), s[x] = NUL
    PROVE  Contents(s) = FullyTrimmed(p)
<1>1. /\ o \in x .. strlen(p) /\ Follows(s, x, p, o) /\ Reads(s, p, Kept(p, o))
      /\ Cardinality(Kept(p, o)) = x
      /\ st = "START" => o = 0
      /\ st = "IN_WORD" => p[o] \in Graphic \/ (o >= 1 /\ p[o - 1] \in Graphic)
  BY DEF Progress
<1>2. x \in Nat
  BY IndexIsNat
<1>3. o = strlen(p)
  BY <1>1, <1>2, FollowsOn
<1>4. FullyKept(p) = Kept(p, o)
  <2>1. CASE st = "START"
    <3>1. o = 0
      BY <1>1, <2>1
    <3>2. \A k \in 0 .. strlen(p) - 1 : p[k] \notin Graphic
      BY <1>3, <3>1
    <3>3. FullyKept(p) = {}
      BY <3>2, NoWord
    <3>4. Kept(p, o) = {}
      BY <3>1 DEF Kept
    <3> QED BY <3>3, <3>4, Zenon
  <2>2. CASE st = "IN_WORD"
    <3>1. o >= 1 /\ p[o - 1] \in Graphic
      BY <1>1, <1>3, <2>2, StringIs
    <3>2. o - 1 \in 0 .. strlen(p) - 1 /\ (o - 1) + 1 = o
      BY <1>3, <3>1
    <3>3. \A k \in (o - 1) + 1 .. strlen(p) - 1 : p[k] \notin Graphic
      BY <1>3
    <3>4. FullyKept(p) = Kept(p, (o - 1) + 1)
      BY <3>1, <3>2, <3>3, LastWord
    <3> QED BY <3>2, <3>4, Zenon
  <2> QED BY <2>1, <2>2
<1>5. Kept(p, o) \in SUBSET Nat /\ IsFiniteSet(Kept(p, o))
  BY KeptNext
<1>6. Cardinality(Kept(p, o)) \in Index /\ s[Cardinality(Kept(p, o))] = NUL
  BY <1>1, Zenon
<1> QED BY <1>1, <1>4, <1>5, <1>6, TrimmedText, Zenon

\* The string ends in spaces: the blank that was kept goes too.
LEMMA EndsInSpaces ==
    ASSUME NEW s \in [Index -> Chars], NEW x \in Index, NEW d \in 0 .. x,
           d >= 1, NEW p \in Strings, NEW o \in Nat,
           Progress("SHIFT", s, x, d, p, o), s[x] = NUL
    PROVE  Contents(shift_left(s, x, d)) = FullyTrimmed(p)
<1> DEFINE t == shift_left(s, x, d)
           c == Cardinality(Kept(p, o))
<1>1. /\ o \in x .. strlen(p) /\ Follows(s, x, p, o) /\ Reads(s, p, Kept(p, o))
      /\ c = x - Room(x, d) /\ o >= 1 /\ p[o - 1] \notin Graphic
  BY DEF Progress
<1>2. x \in Nat /\ d \in Nat /\ d <= x /\ c \in Nat /\ x - d \in Nat /\ x - d \in Index
  <2>1. x \in Nat /\ x <= BufferSize - 1 /\ BufferSize \in Nat
    BY IndexIsNat, TrimAssumption
  <2>2. d \in Nat /\ d <= x /\ x - d \in Nat /\ x - d \in Index
    BY <2>1 DEF Index
  <2>3. c \in Nat
    BY KeptNext, Zenon
  <2> QED BY <2>1, <2>2, <2>3, Zenon
<1>3. o = strlen(p)
  BY <1>1, <1>2, FollowsOn
<1>4. /\ \A i \in 0 .. (x - d) - 1 : t[i] = s[i]
      /\ Follows(t, x - d, p, o)
  BY <1>1, <1>2, ShiftMoves, Zenon
<1>5. t \in [Index -> Chars]
  <2>1. x <= x
    BY <1>2
  <2> QED BY <2>1, ShiftLeft, Zenon
<1> HIDE DEF t
<1>6. t[x - d] = NUL
  <2>1. o \in (x - d) .. strlen(p)
    BY <1>1, <1>2
  <2>2. t[x - d] = p[o]
    BY <1>2, <1>4, <2>1, FollowsOn
  <2> QED BY <1>3, <2>2, StringIs
<1>7. CASE \A k \in 0 .. o - 1 : p[k] \notin Graphic
  <2>1. FullyKept(p) = {}
    BY <1>3, <1>7, NoWord
  <2>2. Kept(p, o) = {}
    <3>1. ASSUME NEW i \in Kept(p, o) PROVE FALSE
      <4>1. i \in 0 .. o - 1 /\ (p[i] \in Graphic \/ (i >= 1 /\ p[i - 1] \in Graphic))
        BY <3>1, Zenon DEF Kept
      <4>2. i >= 1 => i - 1 \in 0 .. o - 1
        BY <4>1
      <4> QED BY <1>7, <4>1, <4>2
    <3> QED BY <3>1
  <2>3. c = 0
    BY <2>2, FS_EmptySet, Zenon
  <2>4. x - d = 0
    BY <1>1, <1>2, <2>3 DEF Room
  <2>5. Cardinality({}) = 0 /\ IsFiniteSet({}) /\ {} \in SUBSET Nat
    BY FS_EmptySet
  <2>6. Reads(t, p, {})
    <3>1. \A i : i \notin 1 .. 0
      OBVIOUS
    <3> QED BY <2>5, <3>1, Zenon DEF Reads
  <2>7. Cardinality({}) \in Index /\ t[Cardinality({})] = NUL
    BY <1>2, <1>6, <2>4, <2>5, Zenon
  <2>8. {} = FullyKept(p)
    BY <2>1, Zenon
  <2>9. Contents(t) = FullyTrimmed(p)
    BY <1>5, <2>5, <2>6, <2>7, <2>8, TrimmedText, Zenon
  <2> QED BY <2>9 DEF t
<1>8. CASE \E g \in 0 .. o - 1 : /\ p[g] \in Graphic
                                 /\ \A k \in g + 1 .. o - 1 : p[k] \notin Graphic
  <2>1. PICK g \in 0 .. o - 1 : /\ p[g] \in Graphic
                                /\ \A k \in g + 1 .. o - 1 : p[k] \notin Graphic
    BY <1>8
  <2> DEFINE K == Kept(p, g + 1)
  <2>2. FullyKept(p) = K
    BY <1>3, <2>1, LastWord
  <2>3. Kept(p, o) = K \cup {g + 1}
    BY <1>1, <2>1, OneMore
  <2>4. K \in SUBSET Nat /\ IsFiniteSet(K) /\ g + 1 \in Nat /\ \A k \in K : k < g + 1
    <3>1. g + 1 \in Nat
      BY <2>1
    <3> QED BY <3>1, KeptNext, Zenon
  <2> HIDE DEF K
  <2>5. Cardinality(K) \in Nat
    BY <2>4, FS_CardinalityType
  <2>6. Reads(s, p, K) /\ Cardinality(K \cup {g + 1}) = Cardinality(K) + 1
    <3>1. Reads(s, p, K \cup {g + 1})
      BY <1>1, <2>3, Zenon
    <3> QED BY <2>4, <3>1, ReadsDrop
  <2>7. c = Cardinality(K) + 1
    BY <2>3, <2>6, Zenon
  <2>8. Cardinality(K) = x - d
    BY <1>1, <1>2, <2>5, <2>7 DEF Room
  <2>9. Reads(t, p, K)
    <3>1. \A i \in 0 .. Cardinality(K) - 1 : t[i] = s[i]
      BY <1>4, <2>8, Zenon
    <3> QED BY <2>5, <2>6, <3>1, ReadsSame
  <2>10. Cardinality(K) \in Index /\ t[Cardinality(K)] = NUL
    BY <1>2, <1>6, <2>8, Zenon
  <2>11. K = FullyKept(p)
    BY <2>2, Zenon
  <2>12. Contents(t) = FullyTrimmed(p)
    BY <1>5, <2>4, <2>9, <2>10, <2>11, TrimmedText, Zenon
  <2> QED BY <2>12 DEF t
<1> QED BY <1>7, <1>8, LastGraphic

\* What trim() has seen, and what it has done so far.
LEMMA Seen ==
    ASSUME IInv, NEW at
    PROVE  /\ Sees(at, "END")        => inString[index] = NUL
           /\ Sees(at, "ASCII")      => inString[index] \in Graphic
           /\ Sees(at, "WHITESPACE") => inString[index] \in Spaces
<1>1. inString[index] \in Chars
  BY InString
<1> QED BY <1>1 DEF Sees, classifyChar, Chars

LEMMA SoFar ==
    ASSUME TInv, function = "trim", state # "DONE"
    PROVE  \E o \in Nat : Progress(state, inString, index, distance, passed, o)
  BY DEF TInv

\* What the next state of trim() has to keep.
LEMMA GoesOn ==
    ASSUME IInv', state' \notin {"START", "DONE"}, NEW o \in Nat,
           Progress(state', inString', index', distance', passed', o)
    PROVE  TInv'
  BY DEF TInv, ReturnsTrimmed

LEMMA Returns ==
    ASSUME IInv', state' = "DONE", function' = "trim",
           Contents(inString') = FullyTrimmed(passed')
    PROVE  TInv'
<1>1. ReturnsTrimmed'
  BY Zenon DEF ReturnsTrimmed
<1> QED BY <1>1 DEF TInv

LEMMA StartTrims == ASSUME TInv, Start, Frame, IInv' PROVE TInv'
<1>1. /\ function = "trim" /\ state = "START" /\ IInv /\ passed \in Strings
      /\ distance = 0 /\ index = 0
      /\ passed' = passed /\ function' = function
  BY DEF TInv, IInv, Counts, Start, Sees, Frame
<1>2. PICK o \in Nat : Progress("START", inString, index, distance, passed, o)
  BY <1>1, SoFar
<1>3. CASE Sees("START", "END")
  <2>1. state' = "DONE" /\ inString' = inString /\ inString[index] = NUL
    BY <1>1, <1>3, Seen DEF Start, Sees
  <2>2. Contents(inString) = FullyTrimmed(passed)
    BY <1>1, <1>2, <2>1, InString, EndsInWord
  <2> QED BY <1>1, <2>1, <2>2, Returns
<1>4. CASE Sees("START", "ASCII")
  <2>1. /\ state' = "IN_WORD" /\ inString' = inString /\ inString[index] \in Graphic
        /\ index' = index + 1 /\ distance' = 0
    BY <1>1, <1>4, Seen DEF Start, Sees
  <2>2. Progress("IN_WORD", inString, index + 1, 0, passed, o + 1)
    BY <1>1, <1>2, <2>1, InString, WordGoesOn
  <2>3. Progress(state', inString', index', distance', passed', o + 1)
    BY <1>1, <2>1, <2>2, Zenon
  <2> QED BY <2>1, <2>3, GoesOn
<1>5. CASE Sees("START", "WHITESPACE")
  <2>1. /\ state' = "WORK_TO_DO" /\ inString' = inString /\ inString[0] \in Spaces
        /\ index' = 1 /\ distance' = 1
    BY <1>1, <1>5, Seen DEF Start, Sees
  <2>2. Progress("WORK_TO_DO", inString, 1, 1, passed, 1)
    BY <1>1, <1>2, <2>1, SpaceAtStart
  <2>3. Progress(state', inString', index', distance', passed', 1)
    BY <1>1, <2>1, <2>2, Zenon
  <2> QED BY <2>1, <2>3, GoesOn
<1> QED BY <1>3, <1>4, <1>5 DEF Start

LEMMA InWordTrims == ASSUME TInv, InWord, Frame, IInv' PROVE TInv'
<1>1. /\ function = "trim" /\ state = "IN_WORD" /\ IInv /\ passed \in Strings
      /\ distance = 0 /\ passed' = passed /\ function' = function
  BY DEF TInv, IInv, Counts, InWord, Sees, Frame
<1>2. PICK o \in Nat : Progress("IN_WORD", inString, index, distance, passed, o)
  BY <1>1, SoFar
<1>3. CASE Sees("IN_WORD", "END")
  <2>1. state' = "DONE" /\ inString' = inString /\ inString[index] = NUL
    BY <1>1, <1>3, Seen DEF InWord, Sees
  <2>2. Contents(inString) = FullyTrimmed(passed)
    BY <1>1, <1>2, <2>1, InString, EndsInWord
  <2> QED BY <1>1, <2>1, <2>2, Returns
<1>4. CASE Sees("IN_WORD", "ASCII")
  <2>1. /\ state' = "IN_WORD" /\ inString' = inString /\ inString[index] \in Graphic
        /\ index' = index + 1 /\ distance' = 0
    BY <1>1, <1>4, Seen DEF InWord, Sees
  <2>2. Progress("IN_WORD", inString, index + 1, 0, passed, o + 1)
    BY <1>1, <1>2, <2>1, InString, WordGoesOn
  <2>3. Progress(state', inString', index', distance', passed', o + 1)
    BY <1>1, <2>1, <2>2, Zenon
  <2> QED BY <2>1, <2>3, GoesOn
<1>5. CASE Sees("IN_WORD", "WHITESPACE")
  <2>1. /\ state' = "ON_NOTICE" /\ inString' = [inString EXCEPT ![index] = Blank]
        /\ inString[index] \in Spaces /\ index' = index + 1 /\ distance' = 0
    BY <1>1, <1>5, Seen DEF InWord, Sees
  <2>2. Progress("ON_NOTICE", [inString EXCEPT ![index] = Blank], index + 1, 0, passed, o + 1)
    BY <1>1, <1>2, <2>1, InString, WordEnds, Zenon
  <2>3. Progress(state', inString', index', distance', passed', o + 1)
    BY <1>1, <2>1, <2>2, Zenon
  <2>4. state' \notin {"START", "DONE"} /\ o + 1 \in Nat
    <3>1. state' = "ON_NOTICE"
      BY <2>1, Zenon
    <3> QED BY <3>1
  <2> QED BY <2>3, <2>4, GoesOn
<1> QED BY <1>3, <1>4, <1>5 DEF InWord

LEMMA OnNoticeTrims == ASSUME TInv, OnNotice, Frame, IInv' PROVE TInv'
<1>1. /\ function = "trim" /\ state = "ON_NOTICE" /\ IInv /\ passed \in Strings
      /\ distance = 0 /\ passed' = passed /\ function' = function
  BY DEF TInv, IInv, Counts, OnNotice, Sees, Frame
<1>2. PICK o \in Nat : Progress("ON_NOTICE", inString, index, 0, passed, o)
  BY <1>1, SoFar
<1>3. CASE Sees("ON_NOTICE", "END")
  <2>1. /\ state' = "SHIFT" /\ inString' = inString /\ index' = index /\ distance' = 1
    BY <1>1, <1>3 DEF OnNotice, Sees
  <2>2. Progress("SHIFT", inString, index, 1, passed, o)
    BY <1>1, <1>2, InString, NoticedEnd
  <2>3. Progress(state', inString', index', distance', passed', o)
    BY <1>1, <2>1, <2>2, Zenon
  <2> QED BY <2>1, <2>3, GoesOn
<1>4. CASE Sees("ON_NOTICE", "ASCII")
  <2>1. /\ state' = "IN_WORD" /\ inString' = inString /\ inString[index] \in Graphic
        /\ index' = index + 1 /\ distance' = 0
    BY <1>1, <1>4, Seen DEF OnNotice, Sees
  <2>2. Progress("IN_WORD", inString, index + 1, 0, passed, o + 1)
    BY <1>1, <1>2, <2>1, InString, WordGoesOn
  <2>3. Progress(state', inString', index', distance', passed', o + 1)
    BY <1>1, <2>1, <2>2, Zenon
  <2> QED BY <2>1, <2>3, GoesOn
<1>5. CASE Sees("ON_NOTICE", "WHITESPACE")
  <2>1. /\ state' = "WORK_TO_DO" /\ inString' = inString
        /\ inString[index] \in Spaces /\ index' = index + 1 /\ distance' = 2
    BY <1>1, <1>5, Seen DEF OnNotice, Sees
  <2>2. Progress("WORK_TO_DO", inString, index + 1, 2, passed, o + 1)
    BY <1>1, <1>2, <2>1, InString, NoticedSpace
  <2>3. Progress(state', inString', index', distance', passed', o + 1)
    BY <1>1, <2>1, <2>2, Zenon
  <2> QED BY <2>1, <2>3, GoesOn
<1> QED BY <1>3, <1>4, <1>5 DEF OnNotice

LEMMA WorkToDoTrims == ASSUME TInv, WorkToDo, Frame, IInv' PROVE TInv'
<1>1. /\ function = "trim" /\ state = "WORK_TO_DO" /\ IInv /\ passed \in Strings
      /\ passed' = passed /\ function' = function
  BY DEF TInv, IInv, WorkToDo, Sees, Frame
<1>2. PICK o \in Nat : Progress("WORK_TO_DO", inString, index, distance, passed, o)
  BY <1>1, SoFar
<1>3. CASE ~Sees("WORK_TO_DO", "WHITESPACE")
  <2>1. state' = "SHIFT" /\ inString' = inString /\ index' = index /\ distance' = distance
    BY <1>1, <1>3 DEF WorkToDo
  <2>2. Progress("SHIFT", inString, index, distance, passed, o)
    BY <1>2 DEF Progress
  <2>3. Progress(state', inString', index', distance', passed', o)
    BY <1>1, <2>1, <2>2, Zenon
  <2> QED BY <2>1, <2>3, GoesOn
<1>4. CASE Sees("WORK_TO_DO", "WHITESPACE")
  <2>1. /\ state' = "WORK_TO_DO" /\ inString' = inString
        /\ inString[index] \in Spaces /\ index' = index + 1 /\ distance' = distance + 1
    BY <1>1, <1>4, Seen DEF WorkToDo, Sees, classifyChar
  <2>2. Progress("WORK_TO_DO", inString, index + 1, distance + 1, passed, o + 1)
    BY <1>1, <1>2, <2>1, InString, WorkSpace
  <2>3. Progress(state', inString', index', distance', passed', o + 1)
    BY <1>1, <2>1, <2>2, Zenon
  <2> QED BY <2>1, <2>3, GoesOn
<1> QED BY <1>3, <1>4

LEMMA ShiftTrims == ASSUME TInv, Shift, Frame, IInv' PROVE TInv'
<1>1. /\ function = "trim" /\ state = "SHIFT" /\ IInv /\ passed \in Strings
      /\ distance >= 1 /\ passed' = passed /\ function' = function
  BY DEF TInv, IInv, Counts, Shift, Sees, Frame
<1>2. PICK o \in Nat : Progress("SHIFT", inString, index, distance, passed, o)
  BY <1>1, SoFar
<1>3. inString \in [Index -> Chars] /\ index \in Index /\ distance \in 0 .. index
  BY <1>1, InString
<1>4. CASE Sees("SHIFT", "END") /\ ShiftTo("DONE", distance)
  <2>1. state' = "DONE" /\ inString' = shift_left(inString, index, distance)
        /\ inString[index] = NUL
    BY <1>1, <1>4, Seen DEF ShiftTo
  <2>2. Contents(shift_left(inString, index, distance)) = FullyTrimmed(passed)
    BY <1>1, <1>2, <1>3, <2>1, EndsInSpaces
  <2>3. Contents(inString') = FullyTrimmed(passed')
    BY <1>1, <2>1, <2>2, Zenon
  <2> QED BY <1>1, <2>1, <2>3, Returns
<1>5. CASE Sees("SHIFT", "ASCII") /\ ShiftTo("IN_WORD", RoomForSpace)
  <2>1. RoomForSpace = Room(index, distance)
    BY DEF RoomForSpace, Room
  <2>2. /\ state' = "IN_WORD" /\ inString[index] \in Graphic
        /\ inString' = shift_left(inString, index, Room(index, distance))
        /\ index' = index - Room(index, distance) /\ distance' = 0
    BY <1>1, <1>5, <2>1, Seen, Zenon DEF ShiftTo
  <2>3. Progress("IN_WORD", shift_left(inString, index, Room(index, distance)),
                 index - Room(index, distance), 0, passed, o)
    BY <1>1, <1>2, <1>3, <2>2, ShiftToWord
  <2>4. Progress(state', inString', index', distance', passed', o)
    BY <1>1, <2>2, <2>3, Zenon
  <2> QED BY <2>2, <2>4, GoesOn
<1> QED BY <1>4, <1>5 DEF Shift

\* The characters of an interval of a string, one for one.
LEMMA IntervalReading ==
    ASSUME NEW t, NEW s, NEW a \in Nat, NEW b \in Nat, a <= b, strlen(t) = b - a,
           \A i \in 0 .. (b - a) - 1 : t[i] = s[a + i]
    PROVE  Contents(t) = Reading(s, a .. b - 1)
<1> DEFINE K == a .. b - 1
<1>1. K \in SUBSET Nat /\ IsFiniteSet(K) /\ Cardinality(K) = b - a
  <2>1. a \in Int /\ b - 1 \in Int
    OBVIOUS
  <2>2. IsFiniteSet(K) /\ Cardinality(K) = IF a > b - 1 THEN 0 ELSE (b - 1) - a + 1
    BY <2>1, FS_Interval
  <2>3. (IF a > b - 1 THEN 0 ELSE (b - 1) - a + 1) = b - a
    OBVIOUS
  <2>4. Cardinality(K) = b - a
    BY <2>2, <2>3, Zenon
  <2>5. K \in SUBSET Nat
    OBVIOUS
  <2> QED BY <2>2, <2>4, <2>5, Zenon
<1>2. ASSUME NEW i \in 1 .. b - a PROVE t[i - 1] = s[Ranked(K, i)]
  <2>0. PICK j \in Nat : j = a + (i - 1)
    OBVIOUS
  <2>1. j \in K /\ i - 1 \in 0 .. (b - a) - 1
    BY <2>0
  <2>2. Upto(K, j) = a .. j
    <3>1. \A k : k \in K /\ k <= j <=> k \in a .. j
      BY <2>1
    <3> QED BY <3>1, Zenon DEF Upto
  <2>3. Cardinality(a .. j) = i
    <3>1. a \in Int /\ j \in Int
      BY <2>1
    <3>2. Cardinality(a .. j) = IF a > j THEN 0 ELSE j - a + 1
      BY <3>1, FS_Interval
    <3>3. (IF a > j THEN 0 ELSE j - a + 1) = i
      BY <2>0
    <3> QED BY <3>2, <3>3, Zenon
  <2>4. t[i - 1] = s[j]
    BY <2>0, <2>1
  <2> HIDE DEF K
  <2>5. Cardinality(Upto(K, j)) = i
    BY <2>2, <2>3, Zenon
  <2>6. Ranked(K, i) = j
    BY <1>1, <2>1, <2>5, Chosen, Zenon
  <2> QED BY <2>4, <2>6, Zenon
<1>3. Contents(t) = [i \in 1 .. b - a |-> t[i - 1]]
  BY Zenon DEF Contents
<1>4. Reading(s, K) = [i \in 1 .. b - a |-> s[Ranked(K, i)]]
  BY <1>1, Zenon DEF Reading, Ranked
<1> QED BY <1>2, <1>3, <1>4, Zenon

\* trim_left() keeps what is not before the first graphic character.
LEMMA LeftEdge ==
    ASSUME NEW p \in Strings
    PROVE  /\ trim_left(p) \in Strings
           /\ \E f \in 0 .. strlen(p) :
                 /\ After(p) = f .. strlen(p) - 1
                 /\ strlen(trim_left(p)) = strlen(p) - f
                 /\ \A i \in 0 .. strlen(p) - f : trim_left(p)[i] = p[f + i]
<1> DEFINE n == strlen(p)
           f == FirstFrom(p, 0, Chars \ Spaces)
           t == trim_left(p)
<1>1. /\ p \in [Index -> Chars] /\ n \in Index /\ n \in Nat /\ p[n] = NUL
      /\ \A k \in 0 .. n - 1 : k \in Index /\ p[k] # NUL
      /\ BufferSize \in Nat /\ n <= BufferSize - 1
  BY StringIs, IndexIsNat, TrimAssumption
<1>2. t \in Strings
  <2>1. n <= n
    BY <1>1
  <2>2. t \in [Index -> Chars] /\ t[n] = NUL
    BY <1>1, <2>1, TrimLeft, Zenon
  <2> QED BY <1>1, <2>2, Zenon DEF Strings
<1>3. /\ f \in Index /\ f <= n /\ p[f] \in Chars \ Spaces /\ f \in Nat
      /\ \A k \in 0 .. f - 1 : p[k] \notin Chars \ Spaces
  <2>1. p[n] \in Chars \ Spaces /\ 0 <= n /\ 0 \in Nat
    BY <1>1, TrimAssumption DEF Chars
  <2>2. /\ f \in Index /\ f <= n /\ p[f] \in Chars \ Spaces
        /\ \A k \in 0 .. f - 1 : p[k] \notin Chars \ Spaces
    BY <1>1, <2>1, First, Zenon
  <2> QED BY <2>2, IndexIsNat
<1>4. t = IF f = 0 THEN p ELSE shift_left(p, f, f)
  BY Zenon DEF trim_left
<1> HIDE DEF f, t, n
<1>5. ASSUME NEW i \in 0 .. n - f PROVE t[i] = p[f + i]
  <2>1. CASE f = 0
    BY <1>4, <2>1
  <2>2. CASE f # 0
    <3>1. Follows(p, f, p, f)
      <4>1. \A i1 \in f .. strlen(p) : f + (i1 - f) = i1
        BY <1>1, <1>3 DEF n
      <4> QED BY <4>1, Zenon DEF Follows
    <3>2. f \in 0 .. f /\ f \in f .. strlen(p)
      BY <1>1, <1>3 DEF n
    <3>3. Follows(shift_left(p, f, f), f - f, p, f)
      BY <1>1, <1>3, <3>1, <3>2, ShiftMoves, Zenon
    <3>4. f + i \in f .. strlen(p) /\ (f - f) + ((f + i) - f) = i
      BY <1>1, <1>3 DEF n
    <3>5. t[(f - f) + ((f + i) - f)] = p[f + i]
      BY <1>4, <2>2, <3>3, <3>4, Zenon DEF Follows
    <3> QED BY <3>4, <3>5, Zenon
  <2> QED BY <2>1, <2>2
<1>6. strlen(t) = n - f
  <2>1. n - f \in Index /\ n - f \in 0 .. n - f /\ f + (n - f) = n
    BY <1>1, <1>3 DEF Index
  <2>2. t[n - f] = NUL
    BY <1>1, <1>5, <2>1
  <2>3. \A k \in 0 .. (n - f) - 1 : k \in 0 .. n - f /\ f + k \in 0 .. n - 1
    BY <1>1, <1>3
  <2>4. \A k \in 0 .. (n - f) - 1 : t[k] # NUL
    BY <1>1, <1>5, <2>3
  <2> QED BY <2>1, <2>2, <2>4, StrlenIs
<1>7. \A i : i \in After(p) <=> i \in f .. n - 1
  <2>1. ASSUME NEW i \in After(p) PROVE i \in f .. n - 1
    <3>1. PICK j \in 0 .. i : i \in 0 .. n - 1 /\ p[j] \in Graphic
      BY Zenon DEF After, n
    <3>2. p[j] \in Chars \ Spaces
      BY <3>1, TrimAssumption DEF Chars
    <3>3. j \notin 0 .. f - 1
      BY <1>3, <3>2
    <3> QED BY <1>1, <1>3, <3>1, <3>3
  <2>2. ASSUME NEW i \in f .. n - 1 PROVE i \in After(p)
    <3>1. f \in 0 .. n - 1 /\ f \in 0 .. i /\ i \in 0 .. n - 1
      BY <1>1, <1>3
    <3>2. p[f] \in Graphic
      BY <1>1, <1>3, <3>1 DEF Chars
    <3> QED BY <3>1, <3>2, Zenon DEF After, n
  <2> QED BY <2>1, <2>2
<1>8. After(p) = f .. n - 1
  BY <1>7
<1>9. f \in 0 .. n
  BY <1>1, <1>3
<1>10. \E g \in 0 .. n : /\ After(p) = g .. n - 1 /\ strlen(t) = n - g
                         /\ \A i \in 0 .. n - g : t[i] = p[g + i]
  BY <1>5, <1>6, <1>8, <1>9, Zenon
<1> QED BY <1>2, <1>10, Zenon DEF t, n

\* trim_right() keeps what is not behind the last graphic character.
LEMMA RightEdge ==
    ASSUME NEW s \in Strings
    PROVE  \E e \in 0 .. strlen(s) :
              /\ Before(s) = 0 .. e - 1
              /\ strlen(trim_right(s)) = e
              /\ \A i \in 0 .. e - 1 : trim_right(s)[i] = s[i]
<1> DEFINE n == strlen(s)
           P(j) == /\ j = 0 \/ s[j - 1] \notin Spaces
                   /\ \A k \in j .. strlen(s) - 1 : s[k] \in Spaces
           e == CHOOSE m \in 0 .. strlen(s) : P(m)
           t == trim_right(s)
<1>1. /\ s \in [Index -> Chars] /\ n \in Index /\ n \in Nat /\ s[n] = NUL
      /\ \A k \in 0 .. n - 1 : k \in Index /\ s[k] # NUL
      /\ BufferSize \in Nat /\ n <= BufferSize - 1
  BY StringIs, IndexIsNat, TrimAssumption
<1>2. \E m \in 0 .. strlen(s) : P(m)
  <2>1. strlen(s) \in Nat
    BY StringIs
  <2> QED BY <2>1, RightEnd
<1>3. e \in 0 .. strlen(s) /\ P(e)
  <2> HIDE DEF P
  <2> QED BY <1>2, Zenon
<1>4. t = [s EXCEPT ![e] = NUL]
  BY Zenon DEF trim_right
<1> HIDE DEF e, t
<1>5. /\ e \in 0 .. n /\ e \in Nat /\ e \in Index /\ e <= n
      /\ e = 0 \/ s[e - 1] \notin Spaces
      /\ \A k \in e .. n - 1 : s[k] \in Spaces
  <2>1. e \in 0 .. n /\ (e = 0 \/ s[e - 1] \notin Spaces) /\ \A k \in e .. n - 1 : s[k] \in Spaces
    BY <1>3, Zenon
  <2> HIDE DEF n, P
  <2>2. e \in Nat /\ e <= n /\ e \in Index
    BY <1>1, <2>1 DEF Index
  <2> QED BY <2>1, <2>2
<1> HIDE DEF n, P
<1>6. t[e] = NUL /\ \A i \in Index : i # e => t[i] = s[i]
  BY <1>1, <1>4, <1>5
<1>7. \A i \in 0 .. e - 1 : i \in 0 .. n - 1 /\ i \in Index /\ i # e
  BY <1>1, <1>5
<1>8. \A i \in 0 .. e - 1 : t[i] = s[i]
  BY <1>6, <1>7
<1>9. strlen(t) = e
  <2>1. \A i \in 0 .. e - 1 : t[i] # NUL
    BY <1>1, <1>7, <1>8
  <2> QED BY <1>5, <1>6, <2>1, StrlenIs
<1>10. \A i : i \in Before(s) <=> i \in 0 .. e - 1
  <2>1. ASSUME NEW i \in Before(s) PROVE i \in 0 .. e - 1
    <3>1. i \in 0 .. n - 1 /\ \E j \in i .. n - 1 : s[j] \in Graphic
      BY Zenon DEF Before, n
    <3>2. PICK j \in i .. n - 1 : s[j] \in Graphic
      BY <3>1
    <3>3. j \notin e .. n - 1
      BY <1>5, <3>2, TrimAssumption
    <3> QED BY <1>1, <1>5, <3>1, <3>2, <3>3
  <2>2. ASSUME NEW i \in 0 .. e - 1 PROVE i \in Before(s)
    <3>1. e # 0 /\ e - 1 \in 0 .. n - 1 /\ e - 1 \in i .. n - 1 /\ i \in 0 .. n - 1
      BY <1>1, <1>5
    <3>2. s[e - 1] \in Graphic
      BY <1>1, <1>5, <3>1 DEF Chars
    <3> QED BY <3>1, <3>2, Zenon DEF Before, n
  <2> QED BY <2>1, <2>2
<1>11. Before(s) = 0 .. e - 1
  BY <1>10
<1>12. \E m \in 0 .. n : /\ Before(s) = 0 .. m - 1 /\ strlen(t) = m
                         /\ \A i \in 0 .. m - 1 : t[i] = s[i]
  BY <1>5, <1>8, <1>9, <1>11, Zenon
<1> QED BY <1>12, Zenon DEF t, n

LEMMA TrimsLeft ==
    ASSUME NEW p \in Strings
    PROVE  Contents(trim_left(p)) = Reading(p, After(p))
<1>1. PICK f \in 0 .. strlen(p) :
         /\ After(p) = f .. strlen(p) - 1
         /\ strlen(trim_left(p)) = strlen(p) - f
         /\ \A i \in 0 .. strlen(p) - f : trim_left(p)[i] = p[f + i]
  BY LeftEdge, Zenon
<1>2. strlen(p) \in Nat
  BY StringIs
<1>3. f \in Nat /\ f <= strlen(p) /\ \A i \in 0 .. (strlen(p) - f) - 1 : i \in 0 .. strlen(p) - f
  BY <1>2
<1>4. \A i \in 0 .. (strlen(p) - f) - 1 : trim_left(p)[i] = p[f + i]
  BY <1>1, <1>3, Zenon
<1>5. Contents(trim_left(p)) = Reading(p, f .. strlen(p) - 1)
  BY <1>1, <1>2, <1>3, <1>4, IntervalReading, Zenon
<1> QED BY <1>1, <1>5, Zenon

LEMMA TrimsRight ==
    ASSUME NEW p \in Strings
    PROVE  Contents(trim_right(p)) = Reading(p, Before(p))
<1>1. PICK e \in 0 .. strlen(p) :
         /\ Before(p) = 0 .. e - 1 /\ strlen(trim_right(p)) = e
         /\ \A i \in 0 .. e - 1 : trim_right(p)[i] = p[i]
  BY RightEdge, Zenon
<1>2. e \in Nat /\ 0 \in Nat /\ 0 <= e /\ e - 0 = e /\ \A i \in 0 .. e - 1 : 0 + i = i
  <2>1. strlen(p) \in Nat
    BY StringIs
  <2> QED BY <2>1
<1>3. strlen(trim_right(p)) = e - 0
  BY <1>1, <1>2, Zenon
<1>4. \A i \in 0 .. (e - 0) - 1 : trim_right(p)[i] = p[0 + i]
  BY <1>1, <1>2, Zenon
<1>5. Contents(trim_right(p)) = Reading(p, 0 .. e - 1)
  BY <1>2, <1>3, <1>4, IntervalReading, Zenon
<1> QED BY <1>1, <1>5, Zenon

\* trim_edges() keeps what is between the first and the last graphic character.
LEMMA TrimsEdges ==
    ASSUME NEW p \in Strings
    PROVE  Contents(trim_edges(p)) = Reading(p, After(p) \cap Before(p))
<1> DEFINE n == strlen(p)
           t == trim_left(p)
           u == trim_right(t)
<1>1. n \in Nat /\ t \in Strings
  BY StringIs, LeftEdge
<1>2. PICK f \in 0 .. n :
         /\ After(p) = f .. n - 1 /\ strlen(t) = n - f
         /\ \A i \in 0 .. n - f : t[i] = p[f + i]
  BY LeftEdge, Zenon
<1>3. PICK e \in 0 .. strlen(t) :
         /\ Before(t) = 0 .. e - 1 /\ strlen(u) = e
         /\ \A i \in 0 .. e - 1 : u[i] = t[i]
  BY <1>1, RightEdge, Zenon
<1> HIDE DEF n, t, u
<1>4. f \in Nat /\ f <= n /\ e \in Nat /\ e <= n - f /\ f + e \in Nat /\ f <= f + e
      /\ (f + e) - f = e
  BY <1>1, <1>2, <1>3
<1>5. ASSUME NEW i \in 0 .. ((f + e) - f) - 1 PROVE u[i] = p[f + i]
  <2>1. i \in 0 .. e - 1 /\ i \in 0 .. n - f
    BY <1>1, <1>4
  <2> QED BY <1>2, <1>3, <2>1, Zenon
<1>6. strlen(u) = (f + e) - f
  BY <1>3, <1>4, Zenon
<1>7. Contents(u) = Reading(p, f .. (f + e) - 1)
  BY <1>4, <1>5, <1>6, IntervalReading, Zenon
<1>8. ASSUME NEW i \in f .. n - 1
      PROVE  i \in Before(p) <=> i \in f .. (f + e) - 1
  <2>1. i \in 0 .. n - 1 /\ i - f \in 0 .. (n - f) - 1
    BY <1>1, <1>4
  <2>2. i \in Before(p) <=> \E j \in i .. n - 1 : p[j] \in Graphic
    BY <2>1, Zenon DEF Before, n
  <2>3. i - f \in Before(t) <=> \E j \in i - f .. (n - f) - 1 : t[j] \in Graphic
    BY <1>2, <2>1, Zenon DEF Before
  <2>4. ASSUME NEW j \in i .. n - 1, p[j] \in Graphic
        PROVE  \E k \in i - f .. (n - f) - 1 : t[k] \in Graphic
    <3>1. j - f \in i - f .. (n - f) - 1 /\ j - f \in 0 .. n - f /\ f + (j - f) = j
      BY <1>1, <1>4
    <3>2. t[j - f] = p[f + (j - f)]
      BY <1>2, <3>1, Zenon
    <3> QED BY <2>4, <3>1, <3>2
  <2>5. ASSUME NEW j \in i - f .. (n - f) - 1, t[j] \in Graphic
        PROVE  \E k \in i .. n - 1 : p[k] \in Graphic
    <3>1. f + j \in i .. n - 1 /\ j \in 0 .. n - f
      BY <1>1, <1>4
    <3>2. t[j] = p[f + j]
      BY <1>2, <3>1, Zenon
    <3> QED BY <2>5, <3>1, <3>2
  <2>6. i - f \in 0 .. e - 1 <=> i \in f .. (f + e) - 1
    BY <1>4
  <2> QED BY <1>3, <2>2, <2>3, <2>4, <2>5, <2>6, Zenon
<1>9. \A i : i \in After(p) \cap Before(p) <=> i \in f .. (f + e) - 1
  <2>1. \A i : i \in f .. (f + e) - 1 => i \in f .. n - 1
    BY <1>1, <1>4
  <2> QED BY <1>2, <1>8, <2>1, Zenon
<1>10. After(p) \cap Before(p) = f .. (f + e) - 1
  BY <1>9, Zenon
<1>11. u = trim_edges(p)
  BY Zenon DEF trim_edges, u, t
<1> QED BY <1>7, <1>10, <1>11, Zenon

LEMMA OneStepTrims == ASSUME TInv, TrimInOneStep, Frame, IInv' PROVE TInv'
<1>1. /\ function \in {"trim_left", "trim_right", "trim_edges"} /\ state = "START"
      /\ state' = "DONE" /\ function' = function /\ passed' = passed
      /\ passed \in Strings /\ inString = passed
      /\ inString' = CASE function = "trim_left"  -> trim_left(inString)
                       [] function = "trim_right" -> trim_right(inString)
                       [] function = "trim_edges" -> trim_edges(inString)
  BY DEF TrimInOneStep, Frame, TInv, IInv, Functions
<1>2. CASE function = "trim_left"
  <2>1. inString' = trim_left(passed)
    BY <1>1, <1>2
  <2>2. Contents(inString') = Reading(passed', After(passed'))
    BY <1>1, <2>1, TrimsLeft, Zenon
  <2>3. ReturnsTrimmed'
    BY <1>1, <1>2, <2>2 DEF ReturnsTrimmed
  <2> QED BY <1>1, <2>3 DEF TInv
<1>3. CASE function = "trim_right"
  <2>1. inString' = trim_right(passed)
    BY <1>1, <1>3
  <2>2. Contents(inString') = Reading(passed', Before(passed'))
    BY <1>1, <2>1, TrimsRight, Zenon
  <2>3. ReturnsTrimmed'
    BY <1>1, <1>3, <2>2 DEF ReturnsTrimmed
  <2> QED BY <1>1, <2>3 DEF TInv
<1>4. CASE function = "trim_edges"
  <2>1. inString' = trim_edges(passed)
    BY <1>1, <1>4
  <2>2. Contents(inString') = Reading(passed', After(passed') \cap Before(passed'))
    BY <1>1, <2>1, TrimsEdges, Zenon
  <2>3. ReturnsTrimmed'
    BY <1>1, <1>4, <2>2 DEF ReturnsTrimmed
  <2> QED BY <1>1, <2>3 DEF TInv
<1> QED BY <1>1, <1>2, <1>3, <1>4

LEMMA NextTInv == TInv /\ [Next]_vars => TInv'
<1> SUFFICES ASSUME TInv, [Next]_vars PROVE TInv'
  OBVIOUS
<1>1. IInv'
  BY NextIInv DEF TInv
<1>2. CASE Step /\ Frame
  BY <1>1, <1>2, StartTrims, InWordTrims, OnNoticeTrims, WorkToDoTrims,
     ShiftTrims DEF Step
<1>3. CASE TrimInOneStep /\ Frame
  BY <1>1, <1>3, OneStepTrims
<1>4. CASE UNCHANGED vars
  BY <1>1, <1>4 DEF vars, TInv, ReturnsTrimmed
<1> QED BY <1>2, <1>3, <1>4 DEF Next, Returned

\* Whatever the string and its spaces, each function returns the one it
\* promises: trim() one blank for every run of spaces between two words, the
\* others what is left when the spaces at the ends are gone.
THEOREM TrimmedAsPromised == Spec => []ReturnsTrimmed
<1>1. TInv => ReturnsTrimmed
  BY DEF TInv
<1> QED BY <1>1, InitTInv, NextTInv, PTL DEF Spec

-----------------------------------------------------------------------------
(* The scan ends                                                           *)

\* Where the string ends that begins at x.
StringEnd(s, x) == FirstFrom(s, x, {NUL})

LEMMA StringEndIs ==
    ASSUME NEW s, NEW x \in Nat, NEW e \in Index, x <= e, s[e] = NUL,
           \A k \in x .. e - 1 : s[k] # NUL
    PROVE  StringEnd(s, x) = e
<1> DEFINE f == StringEnd(s, x)
<1>1. /\ f \in Index /\ x <= f /\ f <= e /\ s[f] \in {NUL}
  BY First DEF StringEnd
<1>2. f \in Nat /\ e \in Nat
  BY <1>1, IndexIsNat
<1> HIDE DEF f
<1>3. ~(f < e)
  <2> SUFFICES ASSUME f < e PROVE FALSE
    OBVIOUS
  <2>1. f \in x .. e - 1
    BY <1>1, <1>2
  <2> QED BY <1>1, <2>1
<1>4. f = e
  BY <1>1, <1>2, <1>3
<1> QED BY <1>4 DEF f

LEMMA StringEndFacts ==
    ASSUME NEW s, NEW x \in Nat, NEW n \in Index, x <= n, s[n] = NUL
    PROVE  /\ StringEnd(s, x) \in Index /\ StringEnd(s, x) \in Nat
           /\ x <= StringEnd(s, x) /\ StringEnd(s, x) <= n /\ s[StringEnd(s, x)] = NUL
           /\ \A k \in x .. StringEnd(s, x) - 1 : s[k] # NUL
<1>1. s[n] \in {NUL}
  OBVIOUS
<1>2. /\ FirstFrom(s, x, {NUL}) \in Index
      /\ x <= FirstFrom(s, x, {NUL}) /\ FirstFrom(s, x, {NUL}) <= n
      /\ s[FirstFrom(s, x, {NUL})] \in {NUL}
      /\ \A k \in x .. FirstFrom(s, x, {NUL}) - 1 : s[k] \notin {NUL}
  BY <1>1, First
<1> QED BY <1>2, IndexIsNat DEF StringEnd

\* The end stays where it is when a character before it has been read or
\* replaced.
LEMMA EndKept ==
    ASSUME NEW s, NEW t, NEW x \in Index, NEW n \in Index, x <= n, s[n] = NUL, s[x] # NUL,
           \A k \in x + 1 .. BufferSize - 1 : t[k] = s[k]
    PROVE  StringEnd(t, x + 1) = StringEnd(s, x) /\ x + 1 <= StringEnd(s, x)
<1> DEFINE e == StringEnd(s, x)
<1>1. x \in Nat /\ BufferSize \in Nat
  BY IndexIsNat, TrimAssumption
<1>2. /\ e \in Index /\ e \in Nat /\ x <= e /\ s[e] = NUL
      /\ \A k \in x .. e - 1 : s[k] # NUL
  BY <1>1, StringEndFacts
<1> HIDE DEF e
<1>3. x + 1 <= e /\ e <= BufferSize - 1
  <2>1. e # x
    BY <1>2
  <2> QED BY <1>1, <1>2, <2>1, IndexIsNat
<1>4. t[e] = NUL /\ \A k \in x + 1 .. e - 1 : t[k] # NUL
  <2>1. e \in x + 1 .. BufferSize - 1
    BY <1>1, <1>2, <1>3
  <2>2. \A k \in x + 1 .. e - 1 : k \in x + 1 .. BufferSize - 1 /\ k \in x .. e - 1
    BY <1>1, <1>2, <1>3
  <2> QED BY <1>2, <2>1, <2>2
<1>5. StringEnd(t, x + 1) = e
  BY <1>1, <1>2, <1>3, <1>4, StringEndIs
<1> QED BY <1>3, <1>5 DEF e

\* shift_left() moves the end with the rest of the string.
LEMMA EndShifted ==
    ASSUME NEW s \in [Index -> Chars], NEW pos \in Index, NEW dist \in 0 .. pos,
           NEW n \in Index, pos <= n, s[n] = NUL
    PROVE  StringEnd(shift_left(s, pos, dist), pos - dist) = StringEnd(s, pos) - dist
<1> DEFINE e == StringEnd(s, pos)
           t == shift_left(s, pos, dist)
<1>1. pos \in Nat /\ dist \in Nat /\ dist <= pos
  BY IndexIsNat
<1>2. /\ e \in Index /\ e \in Nat /\ pos <= e /\ s[e] = NUL
      /\ \A k \in pos .. e - 1 : s[k] # NUL
  BY <1>1, StringEndFacts
<1>3. t = [i \in Index |-> IF i \in (pos - dist) .. (e - dist) THEN s[i + dist] ELSE s[i]]
  BY Zenon DEF shift_left, StringEnd
<1> HIDE DEF e, t
<1>4. BufferSize \in Nat /\ e <= BufferSize - 1
  BY <1>2, IndexIsNat, TrimAssumption
<1>5. \A i \in (pos - dist) .. (e - dist) : i \in Index /\ t[i] = s[i + dist]
  BY <1>1, <1>2, <1>3, <1>4 DEF Index
<1>6. t[e - dist] = NUL /\ e - dist \in Index
  <2>1. e - dist \in (pos - dist) .. (e - dist) /\ (e - dist) + dist = e
    BY <1>1, <1>2
  <2> QED BY <1>2, <1>5, <2>1
<1>7. ASSUME NEW k \in pos - dist .. (e - dist) - 1 PROVE t[k] # NUL
  <2>1. k \in (pos - dist) .. (e - dist) /\ k + dist \in pos .. e - 1
    BY <1>1, <1>2
  <2> QED BY <1>2, <1>5, <2>1
<1>8. pos - dist \in Nat /\ pos - dist <= e - dist
  BY <1>1, <1>2
<1>9. StringEnd(t, pos - dist) = e - dist
  BY <1>6, <1>7, <1>8, StringEndIs
<1> QED BY <1>9 DEF e, t

\* What can still happen before the next character is read.
Rank(st) ==
    IF st = "DONE" THEN 0
    ELSE IF st \in {"START", "IN_WORD"} THEN 1
    ELSE IF st = "SHIFT" THEN 2
    ELSE 3

\* The characters that have not been read, and how many steps they take at most.
Ahead == StringEnd(inString, index) - index
StepsLeft == 3 * Ahead + Rank(state)

LEMMA AheadIs ==
    ASSUME IInv
    PROVE  Ahead \in Nat /\ Rank(state) \in 0 .. 3 /\ StepsLeft \in Nat
           /\ StringEnd(inString, index) <= strlen(passed)
<1>1. StringEnd(inString, index) \in Nat /\ index <= StringEnd(inString, index)
      /\ StringEnd(inString, index) <= strlen(passed) /\ index \in Nat
  BY InString, StringEndFacts
<1>2. Ahead \in Nat
  BY <1>1 DEF Ahead
<1>3. Rank(state) \in 0 .. 3
  BY DEF Rank
<1> QED BY <1>1, <1>2, <1>3 DEF StepsLeft

\* A step reads a character, or comes closer to the next one or to the end.
Reads1 == Ahead' = Ahead - 1 /\ Ahead >= 1 /\ Rank(state) >= 1 /\ Rank(state') <= 3
Turns  == Ahead' = Ahead /\ Rank(state') < Rank(state)

LEMMA ReadsOne ==
    ASSUME IInv, inString[index] # NUL, index' = index + 1,
           \A k \in index + 1 .. BufferSize - 1 : inString'[k] = inString[k],
           state # "DONE"
    PROVE  Reads1
<1>1. /\ strlen(passed) \in Index /\ inString[strlen(passed)] = NUL
      /\ index \in Index /\ index \in Nat /\ index <= strlen(passed)
  BY InString
<1>2. StringEnd(inString', index + 1) = StringEnd(inString, index)
      /\ index + 1 <= StringEnd(inString, index)
  BY <1>1, EndKept
<1>3. StringEnd(inString, index) \in Nat
  BY <1>1, StringEndFacts
<1>4. Ahead' = StringEnd(inString, index) - (index + 1)
  BY <1>2, Zenon DEF Ahead
<1>5. PICK e \in Nat : e = StringEnd(inString, index)
  BY <1>3
<1>6. Ahead' = e - (index + 1) /\ Ahead = e - index /\ index + 1 <= e
  BY <1>2, <1>4, <1>5, Zenon DEF Ahead
<1>7. Ahead' = Ahead - 1 /\ Ahead >= 1
  BY <1>1, <1>6
<1>8. Rank(state) >= 1 /\ Rank(state') <= 3
  BY DEF Rank
<1> QED BY <1>7, <1>8 DEF Reads1

LEMMA TurnsTo ==
    ASSUME IInv, UNCHANGED <<inString, index>>, Rank(state') < Rank(state)
    PROVE  Turns
<1>1. Ahead' = Ahead
  BY Zenon DEF Ahead
<1> QED BY <1>1 DEF Turns

LEMMA ShiftTurns ==
    ASSUME IInv, Shift
    PROVE  Turns
<1>1. PICK next \in {"DONE", "IN_WORD"}, dist \in {distance, RoomForSpace} : ShiftTo(next, dist)
  BY DEF Shift
<1>2. distance >= 1 /\ state = "SHIFT"
  BY DEF Shift, Sees, IInv, Counts
<1>3. dist \in 0 .. index
  BY <1>1, <1>2, InString DEF RoomForSpace
<1>4. /\ inString' = shift_left(inString, index, dist) /\ index' = index - dist
      /\ state' = next
  BY <1>1, Zenon DEF ShiftTo
<1>5. /\ strlen(passed) \in Index /\ inString[strlen(passed)] = NUL
      /\ index \in Index /\ index \in Nat /\ index <= strlen(passed)
      /\ inString \in [Index -> Chars]
  BY InString
<1>6. StringEnd(shift_left(inString, index, dist), index - dist)
         = StringEnd(inString, index) - dist
  BY <1>3, <1>5, EndShifted
<1>7. PICK e \in Nat : e = StringEnd(inString, index)
  BY <1>5, StringEndFacts
<1>8. Ahead' = (e - dist) - (index - dist) /\ Ahead = e - index
  BY <1>4, <1>6, <1>7, Zenon DEF Ahead
<1>9. Ahead' = Ahead
  <2>1. dist \in Nat
    BY <1>3, <1>5
  <2>2. (e - dist) - (index - dist) = e - index
    BY <1>5, <2>1
  <2> QED BY <1>8, <2>2, Zenon
<1>10. Rank(state') < Rank(state)
  <2>1. state' \in {"DONE", "IN_WORD"}
    BY <1>4
  <2> QED BY <1>2, <2>1 DEF Rank
<1> QED BY <1>9, <1>10 DEF Turns

LEMMA StepTurns ==
    ASSUME IInv, Step
    PROVE  Reads1 \/ Turns
<1>1. index \in Nat /\ BufferSize \in Nat /\ inString \in [Index -> Chars]
  BY InString, TrimAssumption
<1>2. ASSUME UNCHANGED inString
      PROVE  \A k \in index + 1 .. BufferSize - 1 : inString'[k] = inString[k]
  BY <1>2
<1>3. ASSUME NEW st, ~Sees(st, "END"), state = st, function = "trim"
      PROVE  inString[index] # NUL
  BY <1>3 DEF Sees, classifyChar
<1>4. CASE Start
  <2>1. CASE Sees("START", "END")
    <3>1. state = "START" /\ state' = "DONE" /\ UNCHANGED <<inString, index>>
      BY <1>4, <2>1 DEF Start, Sees
    <3>2. Rank(state') < Rank(state)
      BY <3>1 DEF Rank
    <3> QED BY <3>1, <3>2, TurnsTo
  <2>2. CASE ~Sees("START", "END")
    <3>1. state = "START" /\ function = "trim" /\ UNCHANGED inString /\ index' = index + 1
      BY <1>4, <2>2 DEF Start, Sees
    <3>2. inString[index] # NUL
      BY <1>3, <2>2, <3>1
    <3> QED BY <1>2, <3>1, <3>2, ReadsOne
  <2> QED BY <2>1, <2>2
<1>5. CASE InWord
  <2>1. CASE Sees("IN_WORD", "END")
    <3>1. state = "IN_WORD" /\ state' = "DONE" /\ UNCHANGED <<inString, index>>
      BY <1>5, <2>1 DEF InWord, Sees
    <3>2. Rank(state') < Rank(state)
      BY <3>1 DEF Rank
    <3> QED BY <3>1, <3>2, TurnsTo
  <2>2. CASE ~Sees("IN_WORD", "END")
    <3>1. state = "IN_WORD" /\ function = "trim" /\ index' = index + 1
          /\ (UNCHANGED inString \/ inString' = [inString EXCEPT ![index] = Blank])
      BY <1>5, <2>2 DEF InWord, Sees
    <3>2. inString[index] # NUL
      BY <1>3, <2>2, <3>1
    <3>3. \A k \in index + 1 .. BufferSize - 1 : inString'[k] = inString[k]
      <4>1. CASE UNCHANGED inString
        BY <1>2, <4>1
      <4>2. CASE inString' = [inString EXCEPT ![index] = Blank]
        <5>1. \A k \in index + 1 .. BufferSize - 1 : k \in Index /\ k # index
          BY <1>1 DEF Index
        <5> QED BY <1>1, <4>2, <5>1
      <4> QED BY <3>1, <4>1, <4>2
    <3> QED BY <3>1, <3>2, <3>3, ReadsOne
  <2> QED BY <2>1, <2>2
<1>6. CASE OnNotice
  <2>1. CASE Sees("ON_NOTICE", "END")
    <3>1. state = "ON_NOTICE" /\ state' = "SHIFT" /\ UNCHANGED <<inString, index>>
      BY <1>6, <2>1 DEF OnNotice, Sees
    <3>2. Rank(state') < Rank(state)
      BY <3>1 DEF Rank
    <3> QED BY <3>1, <3>2, TurnsTo
  <2>2. CASE ~Sees("ON_NOTICE", "END")
    <3>1. state = "ON_NOTICE" /\ function = "trim" /\ UNCHANGED inString /\ index' = index + 1
      BY <1>6, <2>2 DEF OnNotice, Sees
    <3>2. inString[index] # NUL
      BY <1>3, <2>2, <3>1
    <3> QED BY <1>2, <3>1, <3>2, ReadsOne
  <2> QED BY <2>1, <2>2
<1>7. CASE WorkToDo
  <2>1. CASE Sees("WORK_TO_DO", "END") \/ Sees("WORK_TO_DO", "ASCII")
    <3>1. state = "WORK_TO_DO" /\ state' = "SHIFT" /\ UNCHANGED <<inString, index>>
      BY <1>7, <2>1 DEF WorkToDo, Sees
    <3>2. Rank(state') < Rank(state)
      BY <3>1 DEF Rank
    <3> QED BY <3>1, <3>2, TurnsTo
  <2>2. CASE ~(Sees("WORK_TO_DO", "END") \/ Sees("WORK_TO_DO", "ASCII"))
    <3>1. state = "WORK_TO_DO" /\ function = "trim" /\ UNCHANGED inString /\ index' = index + 1
      BY <1>7, <2>2 DEF WorkToDo, Sees
    <3>2. inString[index] # NUL
      BY <1>3, <2>2, <3>1
    <3> QED BY <1>2, <3>1, <3>2, ReadsOne
  <2> QED BY <2>1, <2>2
<1>8. CASE Shift
  BY <1>8, ShiftTurns
<1> QED BY <1>4, <1>5, <1>6, <1>7, <1>8 DEF Step

\* No step is the last one before the call has returned: each state of trim()
\* has a case for the character it meets, and the ASSERTs of the shift hold, the
\* ASSERT( false ) for a space among them (trim.c:94, 118).
NeverStuck ==
    state # "DONE" =>
        IF function # "trim" THEN state = "START"
        ELSE state = "SHIFT" => /\ ~Sees("SHIFT", "WHITESPACE")
                                /\ Asserted(distance) /\ Asserted(RoomForSpace)

\* A shift begins at a word or at the end of the string.
AtWord ==
    /\ function # "trim" => state \in {"START", "DONE"}
    /\ state = "SHIFT" => inString[index] \notin Spaces

LEMMA AtWordNext == IInv /\ AtWord /\ [Next]_vars => AtWord'
<1> SUFFICES ASSUME IInv, AtWord, [Next]_vars PROVE AtWord'
  OBVIOUS
<1>1. CASE Step /\ Frame
  <2>1. function = "trim" /\ function' = "trim"
    BY <1>1 DEF Step, Frame, Start, InWord, OnNotice, WorkToDo, Shift, Sees
  <2>2. ASSUME state' = "SHIFT" PROVE inString'[index'] \notin Spaces
    <3>1. UNCHANGED <<inString, index>> /\ classifyChar(inString[index]) \in {"END", "ASCII"}
      <4>1. CASE OnNotice
        BY <2>2, <4>1 DEF OnNotice, Sees
      <4>2. CASE WorkToDo
        BY <2>2, <4>2 DEF WorkToDo, Sees
      <4>3. ~Start /\ ~InWord
        BY <2>2 DEF Start, InWord, Sees
      <4>4. ~Shift
        BY <2>2 DEF Shift, ShiftTo
      <4> QED BY <1>1, <4>1, <4>2, <4>3, <4>4 DEF Step
    <3>2. classifyChar(inString[index]) # "WHITESPACE"
      BY <3>1
    <3>3. inString[index] \notin Spaces
      <4>1. inString[index] \in Spaces => inString[index] # NUL
        BY TrimAssumption
      <4> QED BY <3>2, <4>1 DEF classifyChar
    <3> QED BY <3>1, <3>3
  <2> QED BY <2>1, <2>2 DEF AtWord
<1>2. CASE TrimInOneStep /\ Frame
  BY <1>2 DEF TrimInOneStep, Frame, AtWord
<1>3. CASE UNCHANGED vars
  BY <1>3 DEF vars, AtWord
<1> QED BY <1>1, <1>2, <1>3 DEF Next, Returned

\* Until it has returned, a call always has a step to take.
THEOREM NeverStops == Spec => []NeverStuck
<1>1. Init => AtWord
  BY DEF Init, Called, AtWord
<1>2. IInv /\ AtWord => NeverStuck
  <2> SUFFICES ASSUME IInv, AtWord, state # "DONE"
               PROVE  IF function # "trim" THEN state = "START"
                      ELSE state = "SHIFT" => /\ ~Sees("SHIFT", "WHITESPACE")
                                              /\ Asserted(distance) /\ Asserted(RoomForSpace)
    BY DEF NeverStuck
  <2>1. Asserted(distance) /\ Asserted(RoomForSpace)
    <3>1. distance \in Nat /\ index \in Nat /\ distance <= index
      BY InString
    <3> QED BY <3>1 DEF Asserted, RoomForSpace
  <2>2. state = "SHIFT" => ~Sees("SHIFT", "WHITESPACE")
    BY DEF AtWord, Sees, classifyChar
  <2> QED BY <2>1, <2>2, Zenon DEF AtWord
<1> QED BY <1>1, <1>2, AtWordNext, InvariantHolds, PTL DEF Spec

\* At most three steps for each character of the string, and one more.
FewSteps == StepsLeft \in 0 .. 3 * strlen(passed) + 1

\* Each step leaves fewer.
ComesCloser == state # "DONE" => StepsLeft' < StepsLeft

\* The measure is a number, and the string never ends behind the one passed.
Measured ==
    /\ Ahead \in Nat /\ Rank(state) \in 0 .. 3 /\ StepsLeft \in Nat
    /\ StringEnd(inString, index) \in Index
    /\ StringEnd(inString, index) <= strlen(passed)

LEMMA IsMeasured == TInv => Measured
<1> SUFFICES ASSUME TInv PROVE Measured
  OBVIOUS
<1>1. StringEnd(inString, index) \in Index
  BY InString, StringEndFacts DEF TInv
<1> QED BY <1>1, AheadIs DEF TInv, Measured

LEMMA FromStart ==
    ASSUME TInv, state = "START"
    PROVE  StepsLeft = 3 * strlen(passed) + 1 /\ strlen(passed) \in Nat
<1>1. inString = passed /\ index = 0 /\ passed \in Strings
  BY DEF TInv, IInv
<1>2. StringEnd(inString, index) = strlen(passed)
  BY <1>1, Zenon DEF StringEnd, strlen
<1>3. strlen(passed) \in Nat
  BY <1>1, StringIs
<1>4. Rank(state) = 1
  BY DEF Rank
<1>5. PICK n \in Nat : n = strlen(passed)
  BY <1>3
<1>6. StepsLeft = 3 * (n - 0) + 1
  BY <1>1, <1>2, <1>4, <1>5, Zenon DEF StepsLeft, Ahead
<1>7. 3 * (n - 0) + 1 = 3 * n + 1
  OBVIOUS
<1> QED BY <1>5, <1>6, <1>7, Zenon

LEMMA NextCloser ==
    ASSUME TInv, TInv', [Next]_vars
    PROVE  UNCHANGED vars \/ (StepsLeft' < StepsLeft /\ strlen(passed') = strlen(passed))
<1>1. CASE Step /\ Frame
  <2>1. Reads1 \/ Turns
    BY <1>1, StepTurns DEF TInv
  <2>2. Ahead \in Nat /\ Rank(state) \in 0 .. 3
    BY AheadIs DEF TInv
  <2>3. Ahead' \in Nat /\ Rank(state') \in 0 .. 3
    <3>1. Measured'
      BY IsMeasured, PTL
    <3> QED BY <3>1, Zenon DEF Measured
  <2>4. StepsLeft = 3 * Ahead + Rank(state) /\ StepsLeft' = 3 * Ahead' + Rank(state')
    BY Zenon DEF StepsLeft
  <2>5. PICK a \in Nat, b \in Nat, r \in 0 .. 3, q \in 0 .. 3 :
           a = Ahead /\ b = Ahead' /\ r = Rank(state) /\ q = Rank(state')
    BY <2>2, <2>3
  <2>6. (b = a - 1 /\ r >= 1 /\ q <= 3) \/ (b = a /\ q < r)
    BY <2>1, <2>5, Zenon DEF Reads1, Turns
  <2>7. 3 * b + q < 3 * a + r
    BY <2>6
  <2>8. StepsLeft' < StepsLeft
    BY <2>4, <2>5, <2>7, Zenon
  <2> QED BY <1>1, <2>8, Zenon DEF Frame
<1>2. CASE TrimInOneStep /\ Frame
  <2>1. state = "START" /\ state' = "DONE" /\ passed' = passed /\ index' = index
    BY <1>2 DEF TrimInOneStep, Frame
  <2>2. StepsLeft = 3 * strlen(passed) + 1 /\ strlen(passed) \in Nat
    BY <2>1, FromStart
  <2>3. Measured'
    BY IsMeasured, PTL
  <2>4. index = 0
    BY <2>1 DEF TInv
  <2>5. StringEnd(inString', index') - index' \in Nat
        /\ StringEnd(inString', index') <= strlen(passed)
    BY <2>1, <2>3, Zenon DEF Measured, Ahead
  <2>6. Rank(state') = 0
    BY <2>1 DEF Rank
  <2>7. PICK a \in Nat : a = StringEnd(inString', index') - index'
    BY <2>5
  <2>8. StepsLeft' = 3 * a + 0
    BY <2>6, <2>7, Zenon DEF StepsLeft, Ahead
  <2>9. a <= strlen(passed)
    <3>1. StringEnd(inString', index') \in Index
      BY <2>3, Zenon DEF Measured
    <3>2. StringEnd(inString', index') \in Nat
      BY <3>1, IndexIsNat
    <3> QED BY <2>1, <2>4, <2>5, <2>7, <3>2
  <2>10. PICK n \in Nat : n = strlen(passed)
    BY <2>2
  <2>11. 3 * a + 0 < 3 * n + 1
    BY <2>9, <2>10
  <2>12. StepsLeft' < StepsLeft
    BY <2>2, <2>8, <2>10, <2>11, Zenon
  <2> QED BY <2>1, <2>12, Zenon
<1>3. CASE UNCHANGED vars
  BY <1>3
<1> QED BY <1>1, <1>2, <1>3 DEF Next, Returned

\* The scan ends, whatever the string is: each step brings it closer to its end,
\* also a shift, which goes back in the buffer by `distance', and a call takes no
\* more than three steps for a character and one more.
THEOREM ScanEnds == Spec => []FewSteps /\ [][ComesCloser]_vars
<1>1. TInv /\ state = "START" => FewSteps
  <2> SUFFICES ASSUME TInv, state = "START" PROVE FewSteps
    OBVIOUS
  <2>1. StepsLeft = 3 * strlen(passed) + 1 /\ strlen(passed) \in Nat
    BY FromStart
  <2>2. PICK n \in Nat : n = strlen(passed)
    BY <2>1
  <2>3. 3 * n + 1 \in 0 .. 3 * n + 1
    OBVIOUS
  <2> QED BY <2>1, <2>2, <2>3, Zenon DEF FewSteps
<1>2. Init => state = "START"
  BY DEF Init, Called
<1>3. TInv /\ FewSteps /\ [Next]_vars /\ TInv' => FewSteps'
  <2> SUFFICES ASSUME TInv, FewSteps, [Next]_vars, TInv' PROVE FewSteps'
    OBVIOUS
  <2>1. CASE UNCHANGED vars
    <3>1. UNCHANGED <<inString, index, state, passed>>
      BY <2>1 DEF vars
    <3>2. UNCHANGED <<StepsLeft, strlen(passed)>>
      BY <3>1, Zenon DEF StepsLeft, Ahead
    <3> QED BY <3>2, Zenon DEF FewSteps
  <2>2. CASE StepsLeft' < StepsLeft /\ strlen(passed') = strlen(passed)
    <3>1. StepsLeft' \in Nat
      <4>1. Measured'
        BY IsMeasured, PTL
      <4> QED BY <4>1, Zenon DEF Measured
    <3>2. strlen(passed) \in Nat
      BY InString DEF TInv
    <3>3. PICK l \in Nat, m \in Nat, n \in Nat :
             l = StepsLeft' /\ m = StepsLeft /\ n = strlen(passed)
      <4>1. StepsLeft \in Nat
        BY AheadIs DEF TInv
      <4> QED BY <3>1, <3>2, <4>1
    <3>4. m \in 0 .. 3 * n + 1 /\ l < m
      BY <2>2, <3>3, Zenon DEF FewSteps
    <3>5. l \in 0 .. 3 * n + 1
      BY <3>4
    <3> QED BY <2>2, <3>3, <3>5, Zenon DEF FewSteps
  <2> QED BY <2>1, <2>2, NextCloser
<1>4. TInv /\ TInv' /\ [Next]_vars => [ComesCloser]_vars
  BY NextCloser, Zenon DEF ComesCloser
<1> QED BY <1>1, <1>2, <1>3, <1>4, InitTInv, NextTInv, PTL DEF Spec

-----------------------------------------------------------------------------
(* The conversions of Convert                                              *)

\* A conversion does nothing to the string but to call trim().
LEMMA ConvertStarts == ConvertInit => Init
<1> SUFFICES ASSUME ConvertInit PROVE Init
  OBVIOUS
<1>1. PICK f \in Functions, s \in Strings : Called(f, s)
  BY ConvertAssumption DEF ConvertInit, Functions
<1> QED BY <1>1 DEF Init

LEMMA ConvertSteps == [ConvertNext]_allVars => [Next]_vars
  BY DEF ConvertNext, TrimStep, Convert, Finished, Next, allVars

\* So what has been proved of trim() and its relatives holds of the calls that
\* convert.c makes, too: convert.c implements Spec.
THEOREM ConvertTrims == ConvertSpec => Spec
  BY ConvertStarts, ConvertSteps, PTL DEF ConvertSpec, Spec

\* The number is read from the text that trim() promises.
ReadFromTrimmed ==
    caller # "none" /\ outcome # Pending =>
        outcome = IF caller = "scale" THEN WithScale(FullyTrimmed(passed))
                                      ELSE WithBasePrefix(FullyTrimmed(passed))

\* A conversion calls trim() and none of its relatives.
ByTrim == caller # "none" => function = "trim"

LEMMA ConvertReads ==
    ASSUME TInv, ByTrim, Convert
    PROVE  ReadFromTrimmed'
<1>1. /\ caller # "none" /\ state = "DONE" /\ caller' = caller /\ passed' = passed
      /\ outcome' = IF caller = "scale" THEN WithScale(Contents(inString))
                                        ELSE WithBasePrefix(Contents(inString))
  BY Zenon DEF Convert, vars
<1>2. Contents(inString) = FullyTrimmed(passed)
  BY <1>1, Zenon DEF TInv, ReturnsTrimmed, ByTrim
<1>3. outcome' = IF caller' = "scale" THEN WithScale(FullyTrimmed(passed'))
                                      ELSE WithBasePrefix(FullyTrimmed(passed'))
  BY <1>1, <1>2, Zenon
<1> QED BY <1>3, Zenon DEF ReadFromTrimmed

\* What a conversion returns is read from the string as it was passed with its
\* spaces trimmed as trim() promises, and from nothing else: not from what an
\* earlier step of trim() left in the buffer, or from the bytes behind its end.
THEOREM ConvertedFromTrimmed == ConvertSpec => []ReadFromTrimmed
<1>1. ConvertInit => ByTrim /\ ReadFromTrimmed
  BY DEF ConvertInit, ByTrim, Called, ReadFromTrimmed
<1>2. TInv /\ ByTrim /\ ReadFromTrimmed /\ [ConvertNext]_allVars
         => (ByTrim /\ ReadFromTrimmed)'
  <2> SUFFICES ASSUME TInv, ByTrim, ReadFromTrimmed, [ConvertNext]_allVars
               PROVE  (ByTrim /\ ReadFromTrimmed)'
    OBVIOUS
  <2>1. CASE TrimStep
    <3>1. UNCHANGED <<function, passed, caller, outcome>>
      BY <2>1 DEF TrimStep, Frame, convertVars
    <3> QED BY <3>1, Zenon DEF ByTrim, ReadFromTrimmed
  <2>2. CASE Convert
    <3>1. UNCHANGED <<function, caller>>
      BY <2>2 DEF Convert, vars
    <3>2. ReadFromTrimmed'
      BY <2>2, ConvertReads
    <3> QED BY <3>1, <3>2 DEF ByTrim
  <2>3. CASE UNCHANGED allVars
    <3>1. UNCHANGED <<function, passed, caller, outcome>>
      BY <2>3 DEF allVars, vars, convertVars
    <3> QED BY <3>1, Zenon DEF ByTrim, ReadFromTrimmed
  <2> QED BY <2>1, <2>2, <2>3 DEF ConvertNext, Finished
<1>3. Spec => []TInv
  BY InitTInv, NextTInv, PTL DEF Spec
<1> QED BY <1>1, <1>2, <1>3, ConvertTrims, PTL DEF ConvertSpec

-----------------------------------------------------------------------------
(* What is no number                                                       *)

\* The trimmed text begins with a graphic character.
LEMMA TextStarts ==
    ASSUME NEW p \in Strings, 1 \in DOMAIN FullyTrimmed(p)
    PROVE  FullyTrimmed(p)[1] \in Graphic
<1> DEFINE K == FullyKept(p)
           n == strlen(p)
           text == Reading(p, K)
<1>1. n \in Nat
  BY StringIs
<1>2. \A i : i \in K <=> /\ i \in 0 .. n - 1
                         /\ \E j \in 0 .. i : p[j] \in Graphic
                         /\ \E j \in i .. n - 1 : p[j] \in Graphic
                         /\ p[i] \in Graphic \/ p[i - 1] \in Graphic
  BY Zenon DEF FullyKept, After, Before
<1> HIDE DEF K, n
<1>3. K \in SUBSET Nat /\ IsFiniteSet(K)
  <2>1. K \in SUBSET (0 .. n - 1)
    BY <1>2, Zenon
  <2>2. 0 \in Int /\ n - 1 \in Int
    BY <1>1
  <2>3. IsFiniteSet(K)
    BY <2>1, <2>2, FS_Interval, FS_Subset
  <2> QED BY <1>1, <2>1, <2>3
<1>4. FullyTrimmed(p) = [i \in DOMAIN text |-> IF text[i] \in Graphic THEN text[i] ELSE Blank]
  BY Zenon DEF FullyTrimmed, FullyKept, K
<1>5. 1 \in 1 .. Cardinality(K) /\ text[1] = p[Ranked(K, 1)]
  <2>1. DOMAIN text = 1 .. Cardinality(K)
    BY Zenon DEF Reading
  <2>2. 1 \in 1 .. Cardinality(K)
    BY <1>4, <2>1, Zenon
  <2> QED BY <2>2, Zenon DEF Reading, Ranked
<1>6. K # {}
  <2> SUFFICES ASSUME K = {} PROVE FALSE
    OBVIOUS
  <2>1. Cardinality(K) = 0
    BY FS_EmptySet, Zenon
  <2> QED BY <1>5, <2>1
<1>7. PICK m \in K : \A k \in K : m <= k
  BY <1>3, <1>6, Least
<1>8. Ranked(K, 1) = m
  <2>1. \A k \in K : k <= m => k = m
    BY <1>3, <1>7
  <2>2. m <= m
    BY <1>3
  <2>3. Upto(K, m) = {m}
    BY <2>1, <2>2, Zenon DEF Upto
  <2>4. Cardinality(Upto(K, m)) = 1
    BY <2>3, FS_Singleton, Zenon
  <2> QED BY <1>3, <2>4, Chosen
<1>9. p[m] \in Graphic
  <2>1. PICK j \in 0 .. m : p[j] \in Graphic
    BY <1>2, Zenon
  <2>2. j \in 0 .. n - 1 /\ j \in 0 .. j /\ j \in j .. n - 1
    BY <1>1, <1>2
  <2>3. j \in K
    BY <1>2, <2>1, <2>2, Zenon
  <2>4. m <= j
    BY <1>7, <2>3
  <2>5. j = m
    BY <1>3, <2>4
  <2> QED BY <2>1, <2>5
<1>10. text[1] \in Graphic
  BY <1>5, <1>8, <1>9, Zenon
<1> HIDE DEF text
<1> QED BY <1>4, <1>10

\* The characters in S that t begins with, and no more of them than there are.
LEMMA LeadingIs ==
    ASSUME NEW t, Len(t) \in Nat, NEW S
    PROVE  /\ Leading(t, S) \in 0 .. Len(t)
           /\ \A i \in 1 .. Leading(t, S) : t[i] \in S
           /\ \A n \in 0 .. Len(t) : (\A i \in 1 .. n : t[i] \in S) => n <= Leading(t, S)
<1> DEFINE N == {n \in 0 .. Len(t) : \A i \in 1 .. n : t[i] \in S}
           D == {d \in 0 .. Len(t) : Len(t) - d \in N}
<1>1. 0 \in N
  OBVIOUS
<1>2. D \in SUBSET Nat /\ Len(t) \in D
  BY <1>1
<1>3. PICK d \in D : \A e \in D : d <= e
  BY <1>2, Least
<1>4. Len(t) - d \in N
  BY <1>3
<1>5. ASSUME NEW m \in N PROVE Len(t) - d >= m
  <2>1. Len(t) - m \in 0 .. Len(t) /\ Len(t) - (Len(t) - m) = m
    OBVIOUS
  <2>2. Len(t) - m \in D
    BY <2>1
  <2>3. d <= Len(t) - m
    BY <1>3, <2>2
  <2> QED BY <1>3, <2>3
<1>6. Max(N) \in N /\ \A m \in N : Max(N) >= m
  <2> HIDE DEF N
  <2> QED BY <1>4, <1>5, Zenon DEF Max
<1> QED BY <1>6 DEF Leading

\* A text begins with n characters in S and is at its end or goes on with
\* another one.
LEMMA LeadingEnds ==
    ASSUME NEW t, Len(t) \in Nat, NEW S, NEW n \in 0 .. Len(t),
           \A i \in 1 .. n : t[i] \in S, n = Len(t) \/ t[n + 1] \notin S
    PROVE  Leading(t, S) = n
<1>1. /\ Leading(t, S) \in 0 .. Len(t)
      /\ \A i \in 1 .. Leading(t, S) : t[i] \in S
      /\ n <= Leading(t, S)
  BY LeadingIs
<1>2. PICK m \in 0 .. Len(t) : m = Leading(t, S)
  BY <1>1
<1>3. ~(n + 1 <= m)
  <2> SUFFICES ASSUME n + 1 <= m PROVE FALSE
    OBVIOUS
  <2>1. n + 1 \in 1 .. m /\ n # Len(t)
    BY <1>2
  <2>2. t[n + 1] \in S
    BY <1>1, <1>2, <2>1, Zenon
  <2> QED BY <2>1, <2>2
<1> QED BY <1>1, <1>2, <1>3

LEMMA WithoutNone ==
    ASSUME NEW t \in Seq(Chars)
    PROVE  Without(0, t) = t
  BY DEF Without

\* What strtoull() makes of a text without a space, a sign or a prefix.
LEMMA StrtoullIs ==
    ASSUME NEW t \in Seq(Chars), t # <<>>, t[1] \notin Spaces \cup {Plus, Minus},
           NEW base \in Nat, ~(base = 16 /\ IsPrefix(<<Zero, X>>, t))
    PROVE  LET n     == Leading(t, DigitsOf(base))
               value == ValueOf(SubSeq(t, 1, n), base)
           IN  strtoull(t, base) =
                  IF n = 0 THEN [value |-> 0, rest |-> t, errno |-> FALSE]
                  ELSE [value |-> IF value >= Modulus THEN Modulus - 1 ELSE value,
                        rest  |-> Without(n, t),
                        errno |-> value >= Modulus]
<1> DEFINE blanks   == Leading(t, Spaces)
           signed   == blanks < Len(t) /\ t[blanks + 1] \in {Plus, Minus}
           sign     == blanks + (IF signed THEN 1 ELSE 0)
           prefixed == /\ base = 16
                       /\ IsPrefix(<<Zero, X>>, Without(sign, t))
                       /\ Leading(Without(sign + 2, t), DigitsOf(16)) > 0
           first    == sign + (IF prefixed THEN 2 ELSE 0)
           n        == Leading(Without(first, t), DigitsOf(base))
           value    == ValueOf(SubSeq(t, first + 1, first + n), base)
           result   == CASE value >= Modulus -> Modulus - 1
                         [] value < Modulus /\ signed /\ t[sign] = Minus
                               -> (-value) % Modulus
                         [] OTHER -> value
<1>1. strtoull(t, base) =
         IF n = 0 THEN [value |-> 0, rest |-> t, errno |-> FALSE]
         ELSE [value |-> result, rest |-> Without(first + n, t), errno |-> value >= Modulus]
  BY Zenon DEF strtoull
<1>2. Len(t) \in Nat /\ Len(t) >= 1
  OBVIOUS
<1>3. blanks = 0
  <2>1. blanks \in 0 .. Len(t) /\ \A i \in 1 .. blanks : t[i] \in Spaces
    BY <1>2, LeadingIs
  <2> HIDE DEF blanks
  <2>2. 1 \notin 1 .. blanks
    BY <2>1
  <2> QED BY <1>2, <2>1, <2>2
<1> HIDE DEF result, value, n, first, prefixed, sign, signed, blanks
<1>4. ~signed
  BY <1>3 DEF signed
<1>5. sign = 0
  BY <1>3, <1>4 DEF sign
<1>6. ~prefixed
  BY <1>5, WithoutNone, Zenon DEF prefixed
<1>7. first = 0
  BY <1>5, <1>6 DEF first
<1>8. n = Leading(t, DigitsOf(base))
  BY <1>7, WithoutNone, Zenon DEF n
<1>9. n \in Nat /\ first + n = n /\ first + 1 = 1
  <2>1. n \in 0 .. Len(t)
    BY <1>2, <1>8, LeadingIs
  <2> QED BY <1>2, <1>7, <2>1
<1>10. value = ValueOf(SubSeq(t, 1, n), base)
  BY <1>9, Zenon DEF value
<1>11. result = IF value >= Modulus THEN Modulus - 1 ELSE value
  BY <1>4, Zenon DEF result
<1> HIDE DEF result
<1> QED BY <1>1, <1>8, <1>9, <1>10, <1>11, Zenon

LEMMA StrtoullRest ==
    ASSUME NEW t \in Seq(Chars), t # <<>>, t[1] \notin Spaces \cup {Plus, Minus},
           NEW base \in Nat, ~(base = 16 /\ IsPrefix(<<Zero, X>>, t))
    PROVE  strtoull(t, base).rest =
              IF Leading(t, DigitsOf(base)) = 0 THEN t
              ELSE Without(Leading(t, DigitsOf(base)), t)
<1> DEFINE n     == Leading(t, DigitsOf(base))
           value == ValueOf(SubSeq(t, 1, n), base)
<1>1. strtoull(t, base) =
         IF n = 0 THEN [value |-> 0, rest |-> t, errno |-> FALSE]
         ELSE [value |-> IF value >= Modulus THEN Modulus - 1 ELSE value,
               rest  |-> Without(n, t),
               errno |-> value >= Modulus]
  BY StrtoullIs, Zenon
<1> HIDE DEF n, value
<1>2. strtoull(t, base).rest = IF n = 0 THEN t ELSE Without(n, t)
  BY <1>1
<1> QED BY <1>2, Zenon DEF n

LEMMA FrontIs ==
    ASSUME NEW t \in Seq(Chars), t # <<>>
    PROVE  /\ Len(t) \in Nat /\ Len(t) >= 1
           /\ Front(t) \in Seq(Chars) /\ Len(Front(t)) = Len(t) - 1
           /\ \A i \in 1 .. Len(t) - 1 : Front(t)[i] = t[i]
<1>1. Len(t) \in Nat /\ Len(t) >= 1
  OBVIOUS
<1>2. Front(t) = SubSeq(t, 1, Len(t) - 1)
  BY Zenon DEF Front
<1>3. Front(t) \in Seq(Chars)
  BY <1>1, <1>2
<1>4. Len(Front(t)) = Len(t) - 1
  <2>1. Len(SubSeq(t, 1, Len(t) - 1)) = Len(t) - 1
    <3> DEFINE k == Len(t) - 1
    <3>1. k \in Nat /\ k <= Len(t)
      BY <1>1
    <3> HIDE DEF k
    <3>2. Len(SubSeq(t, 1, k)) = k
      BY <1>1, <3>1
    <3> QED BY <3>2 DEF k
  <2> QED BY <1>2, <2>1, Zenon
<1>5. \A i \in 1 .. Len(t) - 1 : Front(t)[i] = t[i]
  BY <1>1, <1>2
<1> QED BY <1>1, <1>3, <1>4, <1>5

\* If nothing is left behind the digits, or one character, the others are digits.
LEMMA AllDigits ==
    ASSUME NEW t \in Seq(Chars), t # <<>>, t[1] \notin Spaces \cup {Plus, Minus},
           NEW base \in Nat, ~(base = 16 /\ IsPrefix(<<Zero, X>>, t))
    PROVE  /\ strtoull(t, base).rest = <<>> => IsNumeral(t, base)
           /\ \A u : strtoull(t, base).rest = <<u>> =>
                        Last(t) = u /\ (Front(t) = <<>> \/ IsNumeral(Front(t), base))
<1> DEFINE n    == Leading(t, DigitsOf(base))
           rest == strtoull(t, base).rest
<1>1. Len(t) \in Nat /\ Len(t) >= 1
  OBVIOUS
<1>2. n \in 0 .. Len(t) /\ \A i \in 1 .. n : t[i] \in DigitsOf(base)
  BY <1>1, LeadingIs
<1>3. rest = IF n = 0 THEN t ELSE SubSeq(t, n + 1, Len(t))
  BY StrtoullRest, Zenon DEF Without
<1> HIDE DEF n, rest
<1>4. ASSUME rest = <<>> PROVE IsNumeral(t, base)
  <2>1. n # 0 /\ SubSeq(t, n + 1, Len(t)) = <<>>
    BY <1>3, <1>4
  <2>2. ASSUME n < Len(t) PROVE FALSE
    <3>1. Len(SubSeq(t, n + 1, Len(t))) = Len(t) - n
      BY <1>1, <1>2, <2>2
    <3>2. Len(SubSeq(t, n + 1, Len(t))) = Len(<<>>)
      BY <2>1, Zenon
    <3>3. Len(<<>>) = 0
      OBVIOUS
    <3>4. Len(t) - n = 0
      BY <3>1, <3>2, <3>3, Zenon
    <3> QED BY <1>1, <1>2, <2>2, <3>4
  <2>3. n = Len(t)
    BY <1>1, <1>2, <2>2
  <2>4. Range(t) \subseteq DigitsOf(base)
    BY <1>2, <2>3 DEF Range
  <2> QED BY <2>4 DEF IsNumeral
<1>5. ASSUME NEW u, rest = <<u>>
      PROVE  Last(t) = u /\ (Front(t) = <<>> \/ IsNumeral(Front(t), base))
  <2>1. Len(rest) = 1 /\ rest[1] = u
    BY <1>5
  <2>2. CASE n = 0
    <3>1. Len(t) = 1 /\ t[1] = u
      BY <1>3, <2>1, <2>2
    <3>2. Front(t) = <<>>
      BY <3>1 DEF Front
    <3>3. Last(t) = u
      BY <3>1 DEF Last
    <3> QED BY <3>2, <3>3
  <2>3. CASE n # 0
    <3>1. rest = SubSeq(t, n + 1, Len(t))
      BY <1>3, <2>3
    <3>2. n + 1 = Len(t)
      BY <1>1, <1>2, <2>1, <3>1
    <3>3. Last(t) = u
      BY <1>1, <1>2, <2>1, <3>1, <3>2 DEF Last
    <3>4. Front(t) \in Seq(Chars) /\ Len(Front(t)) = n /\ \A i \in 1 .. n : Front(t)[i] = t[i]
      BY <1>1, <1>2, <3>2 DEF Front
    <3>5. Range(Front(t)) \subseteq DigitsOf(base)
      BY <1>2, <3>4 DEF Range
    <3>6. Front(t) # <<>>
      BY <1>2, <2>3, <3>4
    <3> QED BY <3>3, <3>5, <3>6 DEF IsNumeral
  <2> QED BY <2>2, <2>3
<1> QED BY <1>4, <1>5 DEF rest

\* A size is digits and perhaps a unit, but for the sizes that begin with a `+'
\* and a unit alone.
IsSize(t) ==
    LET hasUnit == t # <<>> /\ Last(t) \in DOMAIN Unit
        digits  == IF hasUnit THEN Front(t) ELSE t
    IN  IsNumeral(digits, 10) \/ digits = <<>> \/ t[1] = Plus

LEMMA OnlySizes ==
    ASSUME NEW t \in Seq(Chars), t # <<>> => t[1] \in Graphic,
           WithScale(t).how = "accepted"
    PROVE  IsSize(t)
<1>1. Aborted.how # "accepted" /\ Fatal.how # "accepted"
  BY DEF Aborted, Fatal
<1>2. t # <<>>
  BY <1>1, Zenon DEF WithScale
<1>3. t[1] # Minus
  BY <1>1, <1>2, Zenon DEF WithScale
<1>4. WithScale(t) = Scaled(strtoull(t, 10))
  BY <1>2, <1>3, Zenon DEF WithScale
<1> DEFINE rest == strtoull(t, 10).rest
<1>5. rest = <<>> \/ \E u \in DOMAIN Unit : rest = <<u>>
  BY <1>1, <1>4, Zenon DEF Scaled
<1>6. CASE t[1] = Plus
  BY <1>6 DEF IsSize
<1>7. CASE t[1] # Plus
  <2>1. t[1] \notin Spaces \cup {Plus, Minus}
    BY <1>2, <1>3, <1>7, TrimAssumption
  <2>2. 10 \in Nat /\ 10 # 16
    OBVIOUS
  <2>3. /\ rest = <<>> => IsNumeral(t, 10)
        /\ \A u : rest = <<u>> => Last(t) = u /\ (Front(t) = <<>> \/ IsNumeral(Front(t), 10))
    BY <1>2, <2>1, <2>2, AllDigits, Zenon
  <2> HIDE DEF rest
  <2>4. CASE rest = <<>>
    <3>1. IsNumeral(t, 10)
      BY <2>3, <2>4
    <3>2. ASSUME Front(t) # <<>> PROVE IsNumeral(Front(t), 10)
      <4>1. Len(t) \in Nat /\ Front(t) \in Seq(Chars) /\ Len(Front(t)) = Len(t) - 1
            /\ \A i \in 1 .. Len(t) - 1 : Front(t)[i] = t[i]
        BY <1>2, FrontIs
      <4>2. \A i \in 1 .. Len(t) : t[i] \in DigitsOf(10)
        BY <3>1 DEF IsNumeral, Range
      <4>3. Range(Front(t)) \subseteq DigitsOf(10)
        BY <4>1, <4>2 DEF Range
      <4> QED BY <3>2, <4>3 DEF IsNumeral
    <3> QED BY <3>1, <3>2, Zenon DEF IsSize
  <2>5. CASE \E u \in DOMAIN Unit : rest = <<u>>
    BY <1>2, <2>3, <2>5, Zenon DEF IsSize
  <2> QED BY <1>5, <2>4, <2>5
<1> QED BY <1>6, <1>7

\* A number is digits behind a prefix or none, but for what strtoull() allows
\* behind it.
IsPrefixed(t) ==
    BehindPrefix(t) = <<>> \/ MoreThanDigits(t) \/ IsNumeral(BehindPrefix(t), BaseOf(t))

\* The prefixes are skipped, and only they.
LEMMA PrefixSkipped ==
    ASSUME NEW t \in Seq(Chars)
    PROVE  WithBasePrefix(t) =
              LET number == strtoull(BehindPrefix(t), BaseOf(t))
              IN  IF number.errno \/ number.rest # <<>> THEN Fatal
                  ELSE Accepted(number.value)
<1> DEFINE hex    == WithoutPrefix(t, X)
           digits == WithoutPrefix(hex, B)
           base   == IF Prefixed(hex, B) THEN 2 ELSE IF Prefixed(t, X) THEN 16 ELSE 10
<1>1. digits = BehindPrefix(t) /\ base = BaseOf(t)
  <2>1. CASE Prefixed(t, X)
    <3>1. hex = Without(2, t)
      BY <2>1, Zenon DEF WithoutPrefix
    <3>2. CASE Prefixed(hex, B)
      <4>1. BinaryInHex(t)
        BY <2>1, <3>1, <3>2, Zenon DEF BinaryInHex
      <4> QED BY <3>1, <3>2, <4>1, Zenon DEF BaseOf, BehindPrefix, WithoutPrefix
    <3>3. CASE ~Prefixed(hex, B)
      <4>1. ~BinaryInHex(t)
        BY <3>1, <3>3, Zenon DEF BinaryInHex
      <4>2. BaseOf(t) = 16
        BY <2>1, <4>1, Zenon DEF BaseOf
      <4>3. BaseOf(t) # 10
        BY <4>2
      <4> QED BY <2>1, <3>1, <3>3, <4>1, <4>2, <4>3, Zenon DEF BehindPrefix, WithoutPrefix
    <3> QED BY <3>2, <3>3
  <2>2. CASE ~Prefixed(t, X)
    <3>1. hex = t /\ ~BinaryInHex(t)
      BY <2>2, Zenon DEF WithoutPrefix, BinaryInHex
    <3>2. CASE Prefixed(t, B)
      <4>1. BaseOf(t) = 2
        BY <2>2, <3>1, <3>2, Zenon DEF BaseOf
      <4>2. BaseOf(t) # 10
        BY <4>1
      <4> QED BY <3>1, <3>2, <4>1, <4>2, Zenon DEF BehindPrefix, WithoutPrefix
    <3>3. CASE ~Prefixed(t, B)
      <4>1. BaseOf(t) = 10
        BY <2>2, <3>1, <3>3, Zenon DEF BaseOf
      <4> QED BY <2>2, <3>1, <3>3, <4>1, Zenon DEF BehindPrefix, WithoutPrefix
    <3> QED BY <3>2, <3>3
  <2> QED BY <2>1, <2>2
<1>2. WithBasePrefix(t) = LET number == strtoull(digits, base)
                          IN  IF number.errno \/ number.rest # <<>> THEN Fatal
                              ELSE Accepted(number.value)
  BY Zenon DEF WithBasePrefix
<1> HIDE DEF digits, base
<1> QED BY <1>1, <1>2, Zenon

LEMMA BehindIs ==
    ASSUME NEW t \in Seq(Chars)
    PROVE  /\ BaseOf(t) \in Nat /\ BehindPrefix(t) \in Seq(Chars)
           /\ ~MoreThanDigits(t) =>
                 /\ BehindPrefix(t)[1] \notin Spaces \cup {Plus, Minus}
                 /\ ~(BaseOf(t) = 16 /\ IsPrefix(<<Zero, X>>, BehindPrefix(t)))
<1>1. BaseOf(t) \in Nat
  BY DEF BaseOf
<1>2. \A u \in Seq(Chars) : Without(2, u) \in Seq(Chars)
  BY DEF Without
<1>3. BehindPrefix(t) \in Seq(Chars)
  BY <1>2, Zenon DEF BehindPrefix
<1>4. ASSUME ~MoreThanDigits(t)
      PROVE  /\ BehindPrefix(t)[1] \notin {Plus, Minus} \cup Spaces
             /\ ~(BaseOf(t) = 16 /\ IsPrefix(<<Zero, X>>, BehindPrefix(t)))
  BY <1>4, Zenon DEF MoreThanDigits, Prefixed
<1> QED BY <1>1, <1>3, <1>4

LEMMA OnlyPrefixed ==
    ASSUME NEW t \in Seq(Chars), WithBasePrefix(t).how = "accepted"
    PROVE  IsPrefixed(t)
<1>1. Fatal.how # "accepted"
  BY DEF Fatal
<1>2. SUFFICES ASSUME BehindPrefix(t) # <<>>, ~MoreThanDigits(t)
               PROVE  IsNumeral(BehindPrefix(t), BaseOf(t))
  BY Zenon DEF IsPrefixed
<1>3. strtoull(BehindPrefix(t), BaseOf(t)).rest = <<>>
  BY <1>1, PrefixSkipped, Zenon
<1> QED BY <1>2, <1>3, BehindIs, AllDigits, Zenon

\* Without a digit, strtoull() returns 0 and leaves the text.
LEMMA StrtoullEmpty ==
    ASSUME NEW base \in Nat
    PROVE  strtoull(<<>>, base) = [value |-> 0, rest |-> <<>>, errno |-> FALSE]
<1> DEFINE t        == <<>>
           blanks   == Leading(t, Spaces)
           signed   == blanks < Len(t) /\ t[blanks + 1] \in {Plus, Minus}
           sign     == blanks + (IF signed THEN 1 ELSE 0)
           prefixed == /\ base = 16
                       /\ IsPrefix(<<Zero, X>>, Without(sign, t))
                       /\ Leading(Without(sign + 2, t), DigitsOf(16)) > 0
           first    == sign + (IF prefixed THEN 2 ELSE 0)
           n        == Leading(Without(first, t), DigitsOf(base))
           value    == ValueOf(SubSeq(t, first + 1, first + n), base)
           result   == CASE value >= Modulus -> Modulus - 1
                         [] value < Modulus /\ signed /\ t[sign] = Minus
                               -> (-value) % Modulus
                         [] OTHER -> value
<1>1. strtoull(t, base) =
         IF n = 0 THEN [value |-> 0, rest |-> t, errno |-> FALSE]
         ELSE [value |-> result, rest |-> Without(first + n, t), errno |-> value >= Modulus]
  BY Zenon DEF strtoull
<1>2. t \in Seq(Chars) /\ Len(t) = 0
  OBVIOUS
<1>3. \A S : Leading(t, S) \in 0 .. 0
  BY <1>2, LeadingIs
<1> HIDE DEF result, value
<1>4. blanks = 0
  BY <1>3
<1> HIDE DEF n, first, prefixed, sign, signed, blanks
<1>5. sign = 0
  BY <1>2, <1>4 DEF signed, sign
<1>6. first \in Nat
  BY <1>5 DEF first
<1>7. Without(first, t) = <<>>
  BY <1>6 DEF Without
<1>8. n = 0
  <2>1. n \in 0 .. 0
    BY <1>3, <1>7, Zenon DEF n
  <2> QED BY <2>1
<1> QED BY <1>1, <1>8

-----------------------------------------------------------------------------
(* The number that digits stand for                                        *)

\* The recursion of a fold: each set of elements of D, up to D itself, is taken
\* to g of one of them, c[R], and of what the others are taken to.
Folding(f, D, c, g) ==
    [R \in SUBSET D |-> IF R = {} THEN 0 ELSE g[<<f[R \ {c[R]}], c[R]>>]]

\* A function that folds every set of up to n elements.
FoldsUpto(f, n, D, c, g) ==
    \A R \in SUBSET D : Cardinality(R) <= n => f[R] = Folding(f, D, c, g)[R]

\* Folding once more makes it right for sets with one more element.
LEMMA FoldOnceMore ==
    ASSUME NEW D, IsFiniteSet(D),
           NEW c, \A R \in SUBSET D : R # {} => c[R] \in R,
           NEW g, \A n \in Nat, x \in D : g[<<n, x>>] \in Nat,
           NEW n \in Nat, NEW f \in [SUBSET D -> Nat], FoldsUpto(f, n, D, c, g)
    PROVE  /\ Folding(f, D, c, g) \in [SUBSET D -> Nat]
           /\ FoldsUpto(Folding(f, D, c, g), n + 1, D, c, g)
<1> DEFINE h == Folding(f, D, c, g)
<1>1. h \in [SUBSET D -> Nat]
  <2> SUFFICES ASSUME NEW R \in SUBSET D
               PROVE  (IF R = {} THEN 0 ELSE g[<<f[R \ {c[R]}], c[R]>>]) \in Nat
    BY DEF Folding
  <2>1. CASE R = {}
    BY <2>1
  <2>2. CASE R # {}
    <3>1. c[R] \in D /\ R \ {c[R]} \in SUBSET D
      BY <2>2
    <3>2. f[R \ {c[R]}] \in Nat
      BY <3>1
    <3> QED BY <2>2, <3>1, <3>2
  <2> QED BY <2>1, <2>2
<1>2. ASSUME NEW R \in SUBSET D, Cardinality(R) <= n + 1
      PROVE  h[R] = Folding(h, D, c, g)[R]
  <2>1. h[R] = IF R = {} THEN 0 ELSE g[<<f[R \ {c[R]}], c[R]>>]
    BY DEF Folding
  <2>2. Folding(h, D, c, g)[R] = IF R = {} THEN 0 ELSE g[<<h[R \ {c[R]}], c[R]>>]
    BY Zenon DEF Folding
  <2>3. CASE R = {}
    BY <2>1, <2>2, <2>3
  <2>4. CASE R # {}
    <3> DEFINE Q == R \ {c[R]}
    <3>1. IsFiniteSet(R) /\ Cardinality(R) \in Nat
      BY FS_Subset, FS_CardinalityType
    <3>2. c[R] \in R /\ Q \in SUBSET D
      BY <2>4
    <3>3. Cardinality(Q) = Cardinality(R) - 1
      BY <3>1, <3>2, FS_RemoveElement
    <3> HIDE DEF Q
    <3>4. Cardinality(Q) <= n
      BY <1>2, <3>1, <3>3
    <3>5. f[Q] = h[Q]
      BY <3>2, <3>4, Zenon DEF FoldsUpto
    <3> HIDE DEF h
    <3> QED BY <2>1, <2>2, <2>4, <3>5, Zenon DEF Q
  <2> QED BY <2>3, <2>4
<1> HIDE DEF h
<1>3. \A R \in SUBSET D : Cardinality(R) <= n + 1 => h[R] = Folding(h, D, c, g)[R]
  BY <1>2
<1>4. FoldsUpto(h, n + 1, D, c, g)
  BY <1>3, Zenon DEF FoldsUpto
<1> QED BY <1>1, <1>4, Zenon DEF h

\* So there is a function that folds the sets of every size: D is finite.
LEMMA FoldExists ==
    ASSUME NEW D, IsFiniteSet(D),
           NEW c, \A R \in SUBSET D : R # {} => c[R] \in R,
           NEW g, \A n \in Nat, x \in D : g[<<n, x>>] \in Nat
    PROVE  \E f \in [SUBSET D -> Nat] : f = Folding(f, D, c, g)
<1> DEFINE Bad == {n \in Nat : ~ \E f \in [SUBSET D -> Nat] : FoldsUpto(f, n, D, c, g)}
<1>1. \A R \in SUBSET D : IsFiniteSet(R) /\ Cardinality(R) \in Nat /\ Cardinality(R) <= Cardinality(D)
  BY FS_Subset, FS_CardinalityType
<1>2. Cardinality(D) \in Nat
  BY FS_CardinalityType
<1>3. 0 \notin Bad
  <2> DEFINE f == [R \in SUBSET D |-> 0]
  <2>1. f \in [SUBSET D -> Nat]
    OBVIOUS
  <2>2. ASSUME NEW R \in SUBSET D, Cardinality(R) <= 0
        PROVE  f[R] = Folding(f, D, c, g)[R]
    <3>1. Cardinality(R) = 0
      BY <1>1, <2>2
    <3>2. R = {}
      BY <1>1, <3>1, FS_EmptySet
    <3> QED BY <3>2 DEF Folding
  <2> HIDE DEF f
  <2>3. FoldsUpto(f, 0, D, c, g)
    BY <2>2 DEF FoldsUpto
  <2> QED BY <2>1, <2>3
<1>4. \A n \in Nat : n \notin Bad => n + 1 \notin Bad
  <2> SUFFICES ASSUME NEW n \in Nat, n \notin Bad PROVE n + 1 \notin Bad
    OBVIOUS
  <2>1. PICK f \in [SUBSET D -> Nat] : FoldsUpto(f, n, D, c, g)
    OBVIOUS
  <2>2. /\ Folding(f, D, c, g) \in [SUBSET D -> Nat]
        /\ FoldsUpto(Folding(f, D, c, g), n + 1, D, c, g)
    BY <2>1, FoldOnceMore
  <2> QED BY <2>2
<1>5. Bad = {}
  <2> HIDE DEF Bad
  <2> SUFFICES ASSUME Bad # {} PROVE FALSE
    OBVIOUS
  <2>1. Bad \in SUBSET Nat
    BY DEF Bad
  <2>2. PICK n \in Bad : \A m \in Bad : n <= m
    BY <2>1, Least
  <2>3. n \in Nat /\ n # 0
    BY <1>3, <2>1
  <2>4. n - 1 \in Nat /\ n - 1 \notin Bad /\ n - 1 + 1 = n
    BY <2>2, <2>3
  <2>5. n - 1 + 1 \notin Bad
    BY <1>4, <2>4
  <2> QED BY <2>2, <2>4, <2>5
<1>6. PICK f \in [SUBSET D -> Nat] : FoldsUpto(f, Cardinality(D), D, c, g)
  BY <1>2, <1>5
<1>7. \A R \in SUBSET D : f[R] = Folding(f, D, c, g)[R]
  BY <1>1, <1>6, Zenon DEF FoldsUpto
<1>8. f = [R \in SUBSET D |-> f[R]]
  OBVIOUS
<1>9. Folding(f, D, c, g) = [R \in SUBSET D |-> Folding(f, D, c, g)[R]]
  BY Zenon DEF Folding
<1>10. f = Folding(f, D, c, g)
  BY <1>7, <1>8, <1>9, Zenon
<1> QED BY <1>10, Zenon

\* The recursion of the place values: p counts base to the power of n.
Powers(p, base, last) == [n \in 0 .. last |-> IF n = 0 THEN 1 ELSE base * p[n - 1]]

Places(base, last) == CHOOSE p : p = Powers(p, base, last)

LEMMA PowersExist ==
    ASSUME NEW base \in Nat, NEW last \in Nat
    PROVE  \E p \in [0 .. last -> Nat] : p = Powers(p, base, last)
<1> DEFINE Bad == {n \in Nat : ~ \E p \in [0 .. n -> Nat] : p = Powers(p, base, n)}
<1>1. 0 \notin Bad
  <2> DEFINE p == [n \in 0 .. 0 |-> 1]
  <2>1. p \in [0 .. 0 -> Nat]
    OBVIOUS
  <2>2. p = Powers(p, base, 0)
    BY DEF Powers
  <2> HIDE DEF p
  <2> QED BY <2>1, <2>2
<1>2. \A n \in Nat : n \notin Bad => n + 1 \notin Bad
  <2> SUFFICES ASSUME NEW n \in Nat, n \notin Bad PROVE n + 1 \notin Bad
    OBVIOUS
  <2>1. PICK p \in [0 .. n -> Nat] : p = Powers(p, base, n)
    OBVIOUS
  <2> DEFINE q == [k \in 0 .. n + 1 |-> IF k = n + 1 THEN base * p[n] ELSE p[k]]
  <2>2. base * p[n] \in Nat
    <3>1. p[n] \in Nat
      OBVIOUS
    <3> QED BY <3>1
  <2>3. q \in [0 .. n + 1 -> Nat]
    BY <2>2
  <2>4. ASSUME NEW k \in 0 .. n + 1
        PROVE  q[k] = IF k = 0 THEN 1 ELSE base * q[k - 1]
    <3>1. CASE k = n + 1
      <4>1. k # 0 /\ k - 1 = n /\ n \in 0 .. n + 1 /\ n # n + 1
        BY <3>1
      <4>2. q[k] = base * p[n] /\ q[n] = p[n]
        BY <3>1, <4>1
      <4> HIDE DEF q
      <4> QED BY <4>1, <4>2
    <3>2. CASE k # n + 1
      <4>1. k \in 0 .. n
        BY <3>2
      <4>2. p[k] = IF k = 0 THEN 1 ELSE base * p[k - 1]
        <5>1. p[k] = Powers(p, base, n)[k]
          BY <2>1, Zenon
        <5> QED BY <4>1, <5>1, Zenon DEF Powers
      <4>3. q[k] = p[k]
        BY <3>2
      <4>4. ASSUME k # 0 PROVE q[k - 1] = p[k - 1]
        BY <4>1, <4>4
      <4> HIDE DEF q
      <4> QED BY <4>2, <4>3, <4>4, Zenon
    <3> QED BY <3>1, <3>2
  <2>5. q = Powers(q, base, n + 1)
    <3> HIDE DEF q
    <3>1. Powers(q, base, n + 1) = [k \in 0 .. n + 1 |-> IF k = 0 THEN 1 ELSE base * q[k - 1]]
      BY Zenon DEF Powers
    <3>2. q = [k \in 0 .. n + 1 |-> q[k]]
      BY <2>3
    <3> QED BY <2>4, <3>1, <3>2, Zenon
  <2> HIDE DEF q
  <2> QED BY <2>3, <2>5
<1>3. Bad = {}
  <2> HIDE DEF Bad
  <2> SUFFICES ASSUME Bad # {} PROVE FALSE
    OBVIOUS
  <2>1. Bad \in SUBSET Nat
    BY DEF Bad
  <2>2. PICK n \in Bad : \A m \in Bad : n <= m
    BY <2>1, Least
  <2>3. n \in Nat /\ n # 0
    BY <1>1, <2>1
  <2>4. n - 1 \in Nat /\ n - 1 \notin Bad /\ n - 1 + 1 = n
    BY <2>2, <2>3
  <2>5. n - 1 + 1 \notin Bad
    BY <1>2, <2>4
  <2> QED BY <2>2, <2>4, <2>5
<1> QED BY <1>3

\* The last place counts 1, and every other one base times the one behind it.
LEMMA PlacesAre ==
    ASSUME NEW base \in Nat, NEW last \in Nat
    PROVE  /\ Places(base, last) \in [0 .. last -> Nat]
           /\ Places(base, last)[0] = 1
           /\ \A n \in 0 .. last : n # 0 =>
                 Places(base, last)[n] = base * Places(base, last)[n - 1]
<1> DEFINE p == Places(base, last)
<1>1. PICK w \in [0 .. last -> Nat] : w = Powers(w, base, last)
  BY PowersExist
<1>2. p = Powers(p, base, last)
  BY <1>1, Zenon DEF Places
<1> HIDE DEF p
<1>3. DOMAIN p = 0 .. last /\ p = [n \in 0 .. last |-> p[n]]
  <2>1. DOMAIN Powers(p, base, last) = 0 .. last
    BY DEF Powers
  <2>2. Powers(p, base, last) = [n \in 0 .. last |-> Powers(p, base, last)[n]]
    BY DEF Powers
  <2> QED BY <1>2, <2>1, <2>2, Zenon
<1>4. \A n \in 0 .. last : p[n] = IF n = 0 THEN 1 ELSE base * p[n - 1]
  <2> SUFFICES ASSUME NEW n \in 0 .. last
               PROVE  p[n] = IF n = 0 THEN 1 ELSE base * p[n - 1]
    OBVIOUS
  <2>1. p[n] = Powers(p, base, last)[n]
    BY <1>2, Zenon
  <2> QED BY <2>1, Zenon DEF Powers
<1>5. \A n \in 0 .. last : p[n] \in Nat
  <2> DEFINE Bad == {n \in 0 .. last : p[n] \notin Nat}
  <2> SUFFICES ASSUME Bad # {} PROVE FALSE
    OBVIOUS
  <2>1. Bad \in SUBSET Nat
    OBVIOUS
  <2>2. PICK n \in Bad : \A m \in Bad : n <= m
    <3> HIDE DEF Bad
    <3> QED BY <2>1, Least
  <2>3. n \in 0 .. last /\ n # 0
    BY <1>4
  <2>4. n - 1 \in 0 .. last /\ ~(n <= n - 1)
    BY <2>3
  <2>5. p[n - 1] \in Nat
    BY <2>2, <2>4
  <2>6. p[n] = base * p[n - 1]
    BY <1>4, <2>3, Zenon
  <2> HIDE DEF Bad
  <2>7. p[n] \in Nat
    BY <2>5, <2>6
  <2> QED BY <2>2, <2>7 DEF Bad
<1>6. p \in [0 .. last -> Nat]
  BY <1>3, <1>5, Zenon
<1>7. 0 \in 0 .. last
  OBVIOUS
<1>8. p[0] = 1
  BY <1>4, <1>7
<1> QED BY <1>4, <1>6, <1>8, Zenon DEF p

\* What the digit at i counts in its place.
Term(digits, base, i) ==
    DigitValue[digits[i]] * Places(base, Len(digits))[Len(digits) - i]

\* The recursions of the two folds over the digits: the terms are added in any
\* order, the digits read from the left to the right.
Adding(f, digits, base) ==
    [R \in SUBSET (DOMAIN digits) |->
        IF R = {} THEN 0
        ELSE Term(digits, base, CHOOSE i \in R : TRUE) + f[R \ {CHOOSE i \in R : TRUE}]]

Horner(f, digits, base) ==
    [R \in SUBSET (DOMAIN digits) |->
        IF R = {} THEN 0 ELSE f[R \ {Max(R)}] * base + DigitValue[digits[Max(R)]]]

LEMMA NumberIs ==
    ASSUME NEW digits, NEW base
    PROVE  Number(digits, base) = (CHOOSE f : f = Adding(f, digits, base))[DOMAIN digits]
  BY Zenon DEF Number, MapThenSumSet, MapThenFoldSet, Adding, Term, Places, Powers

LEMMA ValueIs ==
    ASSUME NEW digits, NEW base
    PROVE  ValueOf(digits, base) = (CHOOSE f : f = Horner(f, digits, base))[DOMAIN digits]
  BY Zenon DEF ValueOf, FoldLeft, MapThenFoldSet, Horner

LEMMA DigitFacts ==
    ASSUME NEW digits \in Seq(DOMAIN DigitValue), NEW base \in Nat
    PROVE  /\ Len(digits) \in Nat /\ DOMAIN digits = 1 .. Len(digits)
           /\ IsFiniteSet(DOMAIN digits)
           /\ \A i \in DOMAIN digits : DigitValue[digits[i]] \in Nat
           /\ \A i \in DOMAIN digits : Term(digits, base, i) \in Nat
<1>1. Len(digits) \in Nat /\ DOMAIN digits = 1 .. Len(digits)
  OBVIOUS
<1>2. IsFiniteSet(DOMAIN digits)
  <2>1. 1 \in Int /\ Len(digits) \in Int
    BY <1>1
  <2> QED BY <1>1, <2>1, FS_Interval
<1>3. \A i \in DOMAIN digits : digits[i] \in DOMAIN DigitValue
  OBVIOUS
<1>4. \A i \in DOMAIN digits : DigitValue[digits[i]] \in Nat
  BY <1>3, ConvertAssumption
<1>5. ASSUME NEW i \in DOMAIN digits PROVE Term(digits, base, i) \in Nat
  <2> DEFINE v == DigitValue[digits[i]]
             w == Places(base, Len(digits))[Len(digits) - i]
  <2>1. v \in Nat
    BY <1>4
  <2>2. Len(digits) - i \in 0 .. Len(digits)
    BY <1>1
  <2>3. w \in Nat
    BY <1>1, <2>2, PlacesAre
  <2>4. Term(digits, base, i) = v * w
    BY DEF Term
  <2> HIDE DEF v, w
  <2> QED BY <2>1, <2>3, <2>4
<1> QED BY <1>1, <1>2, <1>4, <1>5

LEMMA MaxIs ==
    ASSUME NEW n \in Nat, NEW R \in SUBSET (1 .. n), R # {}
    PROVE  Max(R) \in R /\ \A i \in R : i <= Max(R)
<1> DEFINE D == {d \in 0 .. n : n - d \in R}
<1>1. PICK i \in R : TRUE
  OBVIOUS
<1>2. n - i \in D
  <2>1. i \in 1 .. n
    OBVIOUS
  <2>2. n - i \in 0 .. n /\ n - (n - i) = i
    BY <2>1
  <2> QED BY <1>1, <2>2
<1>3. PICK d \in D : \A e \in D : d <= e
  <2>1. D \in SUBSET Nat
    OBVIOUS
  <2> HIDE DEF D
  <2> QED BY <1>2, <2>1, Least
<1>4. \A k \in R : n - d >= k
  <2> SUFFICES ASSUME NEW k \in R PROVE n - d >= k
    OBVIOUS
  <2>1. k \in 1 .. n
    OBVIOUS
  <2>2. n - k \in 0 .. n /\ n - (n - k) = k
    BY <2>1
  <2>3. n - k \in D
    BY <2>2
  <2> QED BY <1>3, <2>1, <2>3
<1>5. Max(R) \in R /\ \A k \in R : Max(R) >= k
  BY <1>3, <1>4, Zenon DEF Max
<1> QED BY <1>5

\* Both folds exist.
LEMMA AddingExists ==
    ASSUME NEW digits \in Seq(DOMAIN DigitValue), NEW base \in Nat
    PROVE  \E f \in [SUBSET (DOMAIN digits) -> Nat] : f = Adding(f, digits, base)
<1> DEFINE D == DOMAIN digits
           c == [R \in SUBSET D |-> CHOOSE i \in R : TRUE]
           g == [p \in Nat \X D |-> Term(digits, base, p[2]) + p[1]]
<1>1. IsFiniteSet(D) /\ \A i \in D : Term(digits, base, i) \in Nat
  BY DigitFacts
<1>2. \A R \in SUBSET D : R # {} => c[R] \in R
  OBVIOUS
<1>3. \A n \in Nat, i \in D : g[<<n, i>>] = Term(digits, base, i) + n
  OBVIOUS
<1>4. ASSUME NEW n \in Nat, NEW i \in D PROVE g[<<n, i>>] \in Nat
  <2>1. Term(digits, base, i) \in Nat /\ g[<<n, i>>] = Term(digits, base, i) + n
    BY <1>1, <1>3, Zenon
  <2> HIDE DEF g
  <2> QED BY <2>1
<1>5. \A R \in SUBSET D : c[R] = CHOOSE i \in R : TRUE
  OBVIOUS
<1> HIDE DEF D, c, g
<1>6. PICK f \in [SUBSET D -> Nat] : f = Folding(f, D, c, g)
  BY <1>1, <1>2, <1>4, FoldExists
<1>7. ASSUME NEW R \in SUBSET D
      PROVE  f[R] = IF R = {} THEN 0
                    ELSE Term(digits, base, CHOOSE i \in R : TRUE) + f[R \ {CHOOSE i \in R : TRUE}]
  <2> DEFINE x == CHOOSE i \in R : TRUE
  <2>1. f[R] = Folding(f, D, c, g)[R]
    BY <1>6, Zenon
  <2>2. f[R] = IF R = {} THEN 0 ELSE g[<<f[R \ {x}], x>>]
    BY <1>5, <2>1, Zenon DEF Folding
  <2>3. ASSUME R # {} PROVE x \in D /\ f[R \ {x}] \in Nat
    <3>1. x \in R
      BY <2>3
    <3> HIDE DEF x
    <3> QED BY <3>1
  <2> HIDE DEF x
  <2>4. ASSUME R # {} PROVE g[<<f[R \ {x}], x>>] = Term(digits, base, x) + f[R \ {x}]
    BY <1>3, <2>3, <2>4, Zenon
  <2> QED BY <2>2, <2>4, Zenon DEF x
<1>8. f = [R \in SUBSET D |-> f[R]]
  OBVIOUS
<1>9. f = Adding(f, digits, base)
  BY <1>7, <1>8, Zenon DEF Adding, D
<1> QED BY <1>9, Zenon DEF D

LEMMA HornerExists ==
    ASSUME NEW digits \in Seq(DOMAIN DigitValue), NEW base \in Nat
    PROVE  \E f \in [SUBSET (DOMAIN digits) -> Nat] : f = Horner(f, digits, base)
<1> DEFINE D == DOMAIN digits
           c == [R \in SUBSET D |-> Max(R)]
           g == [p \in Nat \X D |-> p[1] * base + DigitValue[digits[p[2]]]]
<1>1. /\ IsFiniteSet(D) /\ D = 1 .. Len(digits) /\ Len(digits) \in Nat
      /\ \A i \in D : DigitValue[digits[i]] \in Nat
  BY DigitFacts
<1>2. ASSUME NEW R \in SUBSET D, R # {} PROVE Max(R) \in R
  <2>1. R \in SUBSET (1 .. Len(digits))
    BY <1>1, Zenon
  <2> QED BY <1>1, <1>2, <2>1, MaxIs
<1>3. \A n \in Nat, i \in D : g[<<n, i>>] = n * base + DigitValue[digits[i]]
  OBVIOUS
<1>4. ASSUME NEW n \in Nat, NEW i \in D PROVE g[<<n, i>>] \in Nat
  <2> DEFINE v == DigitValue[digits[i]]
  <2>1. v \in Nat /\ g[<<n, i>>] = n * base + v
    BY <1>1, <1>3, Zenon
  <2> HIDE DEF v, g
  <2>2. n * base \in Nat
    OBVIOUS
  <2> QED BY <2>1, <2>2
<1>5. \A R \in SUBSET D : c[R] = Max(R)
  OBVIOUS
<1>6. \A R \in SUBSET D : R # {} => c[R] \in R
  BY <1>2, <1>5, Zenon
<1> HIDE DEF D, c, g
<1>7. PICK f \in [SUBSET D -> Nat] : f = Folding(f, D, c, g)
  BY <1>1, <1>4, <1>6, FoldExists
<1>8. ASSUME NEW R \in SUBSET D
      PROVE  f[R] = IF R = {} THEN 0
                    ELSE f[R \ {Max(R)}] * base + DigitValue[digits[Max(R)]]
  <2> DEFINE x == Max(R)
  <2>1. f[R] = Folding(f, D, c, g)[R]
    BY <1>7, Zenon
  <2>2. f[R] = IF R = {} THEN 0 ELSE g[<<f[R \ {x}], x>>]
    BY <1>5, <2>1, Zenon DEF Folding
  <2>3. ASSUME R # {} PROVE x \in D /\ f[R \ {x}] \in Nat
    <3>1. x \in R
      BY <1>2, <2>3
    <3> HIDE DEF x
    <3> QED BY <3>1
  <2> HIDE DEF x
  <2>4. ASSUME R # {} PROVE g[<<f[R \ {x}], x>>] = f[R \ {x}] * base + DigitValue[digits[x]]
    BY <1>3, <2>3, <2>4, Zenon
  <2> QED BY <2>2, <2>4, Zenon DEF x
<1>9. f = [R \in SUBSET D |-> f[R]]
  OBVIOUS
<1>10. f = Horner(f, digits, base)
  BY <1>8, <1>9, Zenon DEF Horner, D
<1> QED BY <1>10, Zenon DEF D

\* A sum of the terms does not depend on the order in which they are added.
InAnyOrder(f, R, digits, base) ==
    /\ f[R] \in Nat
    /\ \A i \in R : f[R] = Term(digits, base, i) + f[R \ {i}]

LEMMA AddingStep ==
    ASSUME NEW digits \in Seq(DOMAIN DigitValue), NEW base \in Nat,
           NEW f, f = Adding(f, digits, base), NEW R \in SUBSET (DOMAIN digits),
           \A Q \in SUBSET R : Q # R => InAnyOrder(f, Q, digits, base)
    PROVE  InAnyOrder(f, R, digits, base)
<1> DEFINE T(i) == Term(digits, base, i)
           x == CHOOSE i \in R : TRUE
<1>1. f[R] = IF R = {} THEN 0 ELSE T(x) + f[R \ {x}]
  <2>1. f[R] = Adding(f, digits, base)[R]
    BY Zenon
  <2> QED BY <2>1, Zenon DEF Adding
<1>2. \A i \in R : T(i) \in Nat
  BY DigitFacts
<1>3. CASE R = {}
  BY <1>1, <1>3 DEF InAnyOrder
<1>4. CASE R # {}
  <2>1. x \in R
    BY <1>4
  <2>2. f[R] = T(x) + f[R \ {x}]
    BY <1>1, <1>4, Zenon
  <2>3. T(x) \in Nat
    BY <1>2, <2>1, Zenon
  <2> HIDE DEF x, T
  <2>4. f[R \ {x}] \in Nat
    <3>1. R \ {x} \in SUBSET R /\ R \ {x} # R
      BY <2>1
    <3> QED BY <3>1, Zenon DEF InAnyOrder
  <2>5. f[R] \in Nat
    BY <2>2, <2>3, <2>4
  <2>6. ASSUME NEW i \in R PROVE f[R] = T(i) + f[R \ {i}]
    <3>1. CASE i = x
      BY <2>2, <3>1, Zenon
    <3>2. CASE i # x
      <4> DEFINE Q == (R \ {x}) \ {i}
      <4>1. /\ R \ {x} \in SUBSET R /\ R \ {x} # R /\ i \in R \ {x}
            /\ R \ {i} \in SUBSET R /\ R \ {i} # R /\ x \in R \ {i}
            /\ Q \in SUBSET R /\ Q # R /\ (R \ {i}) \ {x} = Q
        BY <2>1, <3>2
      <4>2. f[R \ {x}] = T(i) + f[Q]
        BY <4>1, Zenon DEF InAnyOrder, T
      <4>3. f[R \ {i}] = T(x) + f[Q]
        BY <4>1, Zenon DEF InAnyOrder, T
      <4>4. f[Q] \in Nat /\ T(i) \in Nat
        BY <1>2, <4>1, Zenon DEF InAnyOrder, T
      <4> HIDE DEF Q
      <4>5. T(x) + f[R \ {x}] = T(i) + f[R \ {i}]
        <5>1. PICK q \in Nat : q = f[Q]
          BY <4>4
        <5>2. PICK a \in Nat : a = T(x)
          BY <2>3
        <5>3. PICK b \in Nat : b = T(i)
          BY <4>4
        <5>4. T(x) + f[R \ {x}] = a + (b + q)
          BY <4>2, <5>1, <5>2, <5>3, Zenon
        <5>5. T(i) + f[R \ {i}] = b + (a + q)
          BY <4>3, <5>1, <5>2, <5>3, Zenon
        <5>6. a + (b + q) = b + (a + q)
          OBVIOUS
        <5> QED BY <5>4, <5>5, <5>6, Zenon
      <4> QED BY <2>2, <4>5, Zenon
    <3> QED BY <3>1, <3>2
  <2> QED BY <2>5, <2>6, Zenon DEF InAnyOrder, T
<1> QED BY <1>3, <1>4

LEMMA AddsInAnyOrder ==
    ASSUME NEW digits \in Seq(DOMAIN DigitValue), NEW base \in Nat,
           NEW f, f = Adding(f, digits, base)
    PROVE  \A R \in SUBSET (DOMAIN digits) : InAnyOrder(f, R, digits, base)
<1> DEFINE D == DOMAIN digits
           Wrong == {R \in SUBSET D : ~InAnyOrder(f, R, digits, base)}
           Sizes == {n \in Nat : \E R \in Wrong : Cardinality(R) = n}
<1> SUFFICES ASSUME Wrong # {} PROVE FALSE
  OBVIOUS
<1>1. \A R \in SUBSET D : IsFiniteSet(R) /\ Cardinality(R) \in Nat
  <2>1. IsFiniteSet(D)
    BY DigitFacts
  <2> QED BY <2>1, FS_Subset, FS_CardinalityType
<1>2. Wrong \in SUBSET (SUBSET D)
  OBVIOUS
<1> HIDE DEF Wrong, D
<1>3. Sizes # {} /\ Sizes \in SUBSET Nat
  BY <1>1, <1>2
<1>4. PICK n \in Sizes : \A m \in Sizes : n <= m
  <2> HIDE DEF Sizes
  <2> QED BY <1>3, Least
<1>5. PICK R \in Wrong : Cardinality(R) = n
  BY <1>4
<1>6. R \in SUBSET D /\ IsFiniteSet(R)
  BY <1>1, <1>2
<1>7. ASSUME NEW Q \in SUBSET R, Q # R PROVE InAnyOrder(f, Q, digits, base)
  <2>1. Q \in SUBSET D
    BY <1>6
  <2>2. Cardinality(Q) \in Nat /\ Cardinality(Q) < n
    <3>1. Cardinality(Q) < Cardinality(R)
      <4>1. Cardinality(Q) <= Cardinality(R)
            /\ (Cardinality(Q) = Cardinality(R) => Q = R)
        BY <1>6, FS_Subset
      <4> QED BY <1>1, <1>6, <1>7, <2>1, <4>1
    <3> QED BY <1>1, <1>5, <2>1, <3>1
  <2>3. Cardinality(Q) \notin Sizes
    <3> HIDE DEF Sizes
    <3>1. n \in Nat
      BY <1>3
    <3> QED BY <1>4, <2>2, <3>1
  <2>4. Q \notin Wrong
    BY <2>2, <2>3
  <2> QED BY <2>1, <2>4 DEF Wrong
<1>8. InAnyOrder(f, R, digits, base)
  BY <1>6, <1>7, AddingStep, Zenon DEF D
<1> QED BY <1>8, Zenon DEF Wrong

\* Reading one more digit.
LEMMA HornerStep ==
    ASSUME NEW digits \in Seq(DOMAIN DigitValue), NEW base \in Nat,
           NEW f, f = Horner(f, digits, base), NEW k \in 1 .. Len(digits)
    PROVE  f[1 .. k] = f[1 .. k - 1] * base + DigitValue[digits[k]]
<1> DEFINE R == 1 .. k
<1>1. Len(digits) \in Nat /\ DOMAIN digits = 1 .. Len(digits)
  BY DigitFacts
<1>2. R \in SUBSET (DOMAIN digits) /\ k \in R /\ R # {}
  <2> DEFINE n == Len(digits)
  <2>1. n \in Nat /\ k \in 1 .. n
    BY <1>1
  <2> HIDE DEF n
  <2>2. R \in SUBSET (1 .. n) /\ k \in R
    BY <2>1
  <2> HIDE DEF R
  <2> QED BY <1>1, <2>2 DEF n
<1>3. Max(R) = k
  <2>1. Max(R) \in R /\ \A i \in R : i <= Max(R)
    <3>1. k \in Nat
      BY <1>1
    <3> QED BY <1>2, <3>1, MaxIs
  <2>2. PICK m \in R : m = Max(R)
    BY <2>1
  <2>3. m <= k /\ k <= m
    BY <1>2, <2>1, <2>2
  <2>4. m = k
    BY <1>1, <2>3
  <2> QED BY <2>2, <2>4
<1>4. R \ {k} = 1 .. k - 1
  BY <1>1
<1> HIDE DEF R
<1>5. f[R] = f[R \ {Max(R)}] * base + DigitValue[digits[Max(R)]]
  <2>1. f[R] = Horner(f, digits, base)[R]
    BY Zenon
  <2>2. f[R] = IF R = {} THEN 0 ELSE f[R \ {Max(R)}] * base + DigitValue[digits[Max(R)]]
    BY <1>2, <2>1, Zenon DEF Horner
  <2> QED BY <1>2, <2>2, Zenon
<1> QED BY <1>3, <1>4, <1>5, Zenon DEF R

\* One more digit, in the place behind those that have been read.
LEMMA Shifted ==
    ASSUME NEW a \in Nat, NEW b \in Nat, NEW d \in Nat, NEW w \in Nat
    PROVE  (a * b + d) * w = a * (b * w) + d * w
  OBVIOUS

\* The digits that have been read count what they count in their places.
ReadSoFar(f, g, k, digits, base) ==
    /\ f[1 .. k] \in Nat
    /\ f[1 .. k] * Places(base, Len(digits))[Len(digits) - k] = g[1 .. k]

LEMMA ReadingStep ==
    ASSUME NEW digits \in Seq(DOMAIN DigitValue), NEW base \in Nat,
           NEW f, f = Horner(f, digits, base),
           NEW g, g = Adding(g, digits, base),
           NEW k \in 1 .. Len(digits), ReadSoFar(f, g, k - 1, digits, base)
    PROVE  ReadSoFar(f, g, k, digits, base)
<1> DEFINE last == Len(digits)
           w(n) == Places(base, last)[n]
           d == DigitValue[digits[k]]
<1>1. last \in Nat /\ DOMAIN digits = 1 .. last /\ d \in Nat
  BY DigitFacts
<1>2. /\ k \in 1 .. last /\ last - k \in 0 .. last /\ last - (k - 1) \in 0 .. last
      /\ last - (k - 1) # 0 /\ last - (k - 1) - 1 = last - k
  BY <1>1
<1>3. w(last - (k - 1)) = base * w(last - k) /\ w(last - k) \in Nat
  <2>1. /\ Places(base, last) \in [0 .. last -> Nat]
        /\ \A n \in 0 .. last : n # 0 => w(n) = base * w(n - 1)
    BY <1>1, PlacesAre
  <2> HIDE DEF last
  <2>2. w(last - (k - 1)) = base * w(last - (k - 1) - 1)
    BY <1>2, <2>1, Zenon
  <2>3. w(last - k) \in Nat
    BY <1>2, <2>1
  <2> QED BY <1>2, <2>2, <2>3, Zenon
<1>4. f[1 .. k] = f[1 .. k - 1] * base + d
  BY HornerStep
<1>5. g[1 .. k] = d * w(last - k) + g[1 .. k - 1]
  <2> DEFINE R == 1 .. k
  <2>1. R \in SUBSET (1 .. last) /\ k \in R /\ R \ {k} = 1 .. k - 1
    <3> HIDE DEF last
    <3> QED BY <1>1, <1>2
  <2> HIDE DEF R
  <2>2. R \in SUBSET (DOMAIN digits)
    BY <1>1, <2>1, Zenon
  <2>3. InAnyOrder(g, R, digits, base)
    BY <2>2, AddsInAnyOrder
  <2>4. g[R] = Term(digits, base, k) + g[R \ {k}]
    BY <2>1, <2>3, Zenon DEF InAnyOrder
  <2> QED BY <2>1, <2>4, Zenon DEF Term, R
<1>6. f[1 .. k - 1] \in Nat /\ f[1 .. k - 1] * w(last - (k - 1)) = g[1 .. k - 1]
  BY Zenon DEF ReadSoFar
<1> HIDE DEF d, w, last
<1>7. PICK a \in Nat : a = f[1 .. k - 1]
  BY <1>6
<1>8. PICK p \in Nat : p = w(last - k)
  BY <1>3
<1>9. f[1 .. k] = a * base + d /\ g[1 .. k] = d * p + a * (base * p)
  BY <1>3, <1>4, <1>5, <1>6, <1>7, <1>8, Zenon
<1>10. (a * base + d) * p = a * (base * p) + d * p
  BY <1>1, Shifted
<1>11. a * base + d \in Nat /\ a * (base * p) \in Nat /\ d * p \in Nat
  <2>1. a * base \in Nat /\ base * p \in Nat /\ d * p \in Nat
    BY <1>1
  <2>2. \A m \in Nat : a * m \in Nat
    OBVIOUS
  <2> QED BY <1>1, <2>1, <2>2
<1>12. a * (base * p) + d * p = d * p + a * (base * p)
  BY <1>11
<1>13. f[1 .. k] * w(last - k) = g[1 .. k] /\ f[1 .. k] \in Nat
  BY <1>8, <1>9, <1>10, <1>11, <1>12, Zenon
<1> QED BY <1>13, Zenon DEF ReadSoFar, w, last

\* Reading the digits from the left to the right gives the number they stand
\* for, position by position, in every base: what strtoull() computes, digit by
\* digit, is what the positional system says.
LEMMA ReadAsWritten ==
    ASSUME NEW digits \in Seq(DOMAIN DigitValue), NEW base \in Nat
    PROVE  ValueOf(digits, base) = Number(digits, base) /\ Number(digits, base) \in Nat
<1> DEFINE last == Len(digits)
           f == CHOOSE h : h = Horner(h, digits, base)
           g == CHOOSE h : h = Adding(h, digits, base)
           Bad == {k \in 0 .. last : ~ReadSoFar(f, g, k, digits, base)}
<1>1. f = Horner(f, digits, base) /\ g = Adding(g, digits, base)
  <2>1. \E h : h = Horner(h, digits, base)
    BY HornerExists
  <2>2. \E h : h = Adding(h, digits, base)
    BY AddingExists
  <2> QED BY <2>1, <2>2, Zenon
<1>2. ValueOf(digits, base) = f[DOMAIN digits] /\ Number(digits, base) = g[DOMAIN digits]
  BY ValueIs, NumberIs, Zenon
<1> HIDE DEF f, g
<1>3. last \in Nat /\ DOMAIN digits = 1 .. last
  BY DigitFacts
<1>4. Places(base, last) \in [0 .. last -> Nat] /\ Places(base, last)[0] = 1
  BY <1>3, PlacesAre
<1> HIDE DEF last
<1>5. 0 \notin Bad
  <2>1. 1 .. 0 = {} /\ {} \in SUBSET (DOMAIN digits) /\ last - 0 \in 0 .. last
    BY <1>3
  <2>2. f[{}] = 0
    <3>1. f[{}] = Horner(f, digits, base)[{}]
      BY <1>1, Zenon
    <3> QED BY <2>1, <3>1, Zenon DEF Horner
  <2>3. g[{}] = 0
    <3>1. g[{}] = Adding(g, digits, base)[{}]
      BY <1>1, Zenon
    <3> QED BY <2>1, <3>1, Zenon DEF Adding
  <2>4. PICK p \in Nat : p = Places(base, last)[last - 0]
    BY <1>4, <2>1
  <2>5. 0 * p = 0 /\ 0 \in Nat
    OBVIOUS
  <2>6. ReadSoFar(f, g, 0, digits, base)
    BY <2>1, <2>2, <2>3, <2>4, <2>5, Zenon DEF ReadSoFar, last
  <2> QED BY <2>6
<1>6. ASSUME NEW k \in 1 .. last, k - 1 \notin Bad PROVE k \notin Bad
  <2>1. k - 1 \in 0 .. last
    BY <1>3
  <2>2. ReadSoFar(f, g, k - 1, digits, base)
    BY <1>6, <2>1
  <2>3. ReadSoFar(f, g, k, digits, base)
    BY <1>1, <2>2, ReadingStep DEF last
  <2> QED BY <2>3
<1>7. Bad = {}
  <2>1. Bad \in SUBSET (0 .. last)
    OBVIOUS
  <2> HIDE DEF Bad
  <2> SUFFICES ASSUME Bad # {} PROVE FALSE
    OBVIOUS
  <2>2. PICK n \in Bad : \A m \in Bad : n <= m
    <3>1. Bad \in SUBSET Nat
      BY <1>3, <2>1
    <3> QED BY <3>1, Least
  <2>3. n \in 1 .. last
    BY <1>3, <1>5, <2>1
  <2>4. n - 1 \notin Bad
    BY <1>3, <2>2, <2>3
  <2> QED BY <1>6, <2>2, <2>3, <2>4
<1>8. f[1 .. last] \in Nat /\ f[1 .. last] * Places(base, last)[last - last] = g[1 .. last]
  <2>1. last \in 0 .. last
    BY <1>3
  <2>2. ReadSoFar(f, g, last, digits, base)
    BY <1>7, <2>1
  <2> QED BY <2>2, Zenon DEF ReadSoFar, last
<1>9. last - last = 0
  BY <1>3
<1>10. f[1 .. last] * 1 = g[1 .. last]
  BY <1>4, <1>8, <1>9, Zenon
<1>11. PICK a \in Nat : a = f[1 .. last]
  BY <1>8
<1>12. a * 1 = a
  OBVIOUS
<1> QED BY <1>2, <1>3, <1>10, <1>11, <1>12, Zenon

-----------------------------------------------------------------------------
(* What the conversions return                                             *)

LEMMA NumeralFacts ==
    ASSUME NEW t \in Seq(Chars), NEW base \in Nat, IsNumeral(t, base)
    PROVE  /\ t \in Seq(DOMAIN DigitValue)
           /\ Len(t) \in Nat /\ Len(t) >= 1
           /\ \A i \in 1 .. Len(t) : t[i] \in DigitsOf(base)
           /\ t[1] \notin Spaces \cup {Plus, Minus}
<1>1. t # <<>> /\ Len(t) \in Nat /\ Len(t) >= 1
  BY DEF IsNumeral
<1>2. \A i \in 1 .. Len(t) : t[i] \in DigitsOf(base)
  <2>1. Range(t) \subseteq DigitsOf(base)
    BY Zenon DEF IsNumeral
  <2>2. \A i \in 1 .. Len(t) : t[i] \in Range(t)
    BY DEF Range
  <2> QED BY <2>1, <2>2
<1>3. \A i \in 1 .. Len(t) : t[i] \in DOMAIN DigitValue
  BY <1>2 DEF DigitsOf
<1>4. t[1] \notin Spaces \cup {Plus, Minus}
  <2>1. t[1] \in DOMAIN DigitValue
    BY <1>1, <1>3
  <2> QED BY <2>1, TrimAssumption, ConvertAssumption
<1>5. t \in Seq(DOMAIN DigitValue)
  <2>1. t = [i \in 1 .. Len(t) |-> t[i]]
    OBVIOUS
  <2>2. [i \in 1 .. Len(t) |-> t[i]] \in Seq(DOMAIN DigitValue)
    BY <1>1, <1>3
  <2> QED BY <2>1, <2>2, Zenon
<1> QED BY <1>1, <1>2, <1>4, <1>5, Zenon

\* strtoull() reads digits up to a character that is none; the number is the
\* one they stand for, unless it does not fit.
LEMMA DigitsRead ==
    ASSUME NEW t \in Seq(Chars), NEW base \in Nat,
           NEW n \in 1 .. Len(t), IsNumeral(SubSeq(t, 1, n), base),
           n = Len(t) \/ t[n + 1] \notin DigitsOf(base),
           ~(base = 16 /\ IsPrefix(<<Zero, X>>, t))
    PROVE  LET number == Number(SubSeq(t, 1, n), base)
           IN  /\ number \in Nat
               /\ strtoull(t, base) =
                     [value |-> IF number >= Modulus THEN Modulus - 1 ELSE number,
                      rest  |-> Without(n, t),
                      errno |-> number >= Modulus]
<1> DEFINE digits == SubSeq(t, 1, n)
<1>1. Len(t) \in Nat /\ n \in Nat /\ n >= 1 /\ n <= Len(t) /\ n # 0
  OBVIOUS
<1>2. digits \in Seq(Chars) /\ Len(digits) = n /\ \A i \in 1 .. n : digits[i] = t[i]
  BY <1>1
<1> HIDE DEF digits
<1>3. /\ digits \in Seq(DOMAIN DigitValue)
      /\ \A i \in 1 .. Len(digits) : digits[i] \in DigitsOf(base)
      /\ digits[1] \notin Spaces \cup {Plus, Minus}
  BY <1>2, NumeralFacts DEF digits
<1>4. /\ \A i \in 1 .. n : t[i] \in DigitsOf(base)
      /\ t[1] \notin Spaces \cup {Plus, Minus}
      /\ t # <<>>
  BY <1>1, <1>2, <1>3
<1>5. Leading(t, DigitsOf(base)) = n
  <2>1. n \in 0 .. Len(t)
    BY <1>1
  <2> QED BY <1>1, <1>4, <2>1, LeadingEnds
<1>6. ValueOf(digits, base) = Number(digits, base) /\ Number(digits, base) \in Nat
  BY <1>3, ReadAsWritten
<1> DEFINE value == ValueOf(SubSeq(t, 1, Leading(t, DigitsOf(base))), base)
<1>7. strtoull(t, base) =
         IF Leading(t, DigitsOf(base)) = 0 THEN [value |-> 0, rest |-> t, errno |-> FALSE]
         ELSE [value |-> IF value >= Modulus THEN Modulus - 1 ELSE value,
               rest  |-> Without(Leading(t, DigitsOf(base)), t),
               errno |-> value >= Modulus]
  BY <1>4, StrtoullIs, Zenon
<1>8. value = Number(digits, base)
  BY <1>5, <1>6, Zenon DEF digits
<1> HIDE DEF value
<1>9. strtoull(t, base) =
         [value |-> IF value >= Modulus THEN Modulus - 1 ELSE value,
          rest  |-> Without(n, t),
          errno |-> value >= Modulus]
  BY <1>1, <1>5, <1>7, Zenon
<1> QED BY <1>6, <1>8, <1>9, Zenon DEF digits

LEMMA Modulo ==
    ASSUME NEW m \in Nat, NEW n \in Nat, n < m
    PROVE  n % m = n
  OBVIOUS

LEMMA ModulusIs == Modulus \in Nat /\ Modulus >= 1
  BY ConvertAssumption DEF Modulus

\* A size of digits alone.
LEMMA PlainSize ==
    ASSUME NEW t \in Seq(Chars), IsNumeral(t, 10), Number(t, 10) < Modulus
    PROVE  WithScale(t) = Accepted(Number(t, 10))
<1> DEFINE v == Number(t, 10)
           s == strtoull(t, 10)
<1>1. 10 \in Nat /\ 10 # 16
  OBVIOUS
<1>2. t \in Seq(DOMAIN DigitValue) /\ Len(t) \in Nat /\ Len(t) >= 1 /\ t[1] # Minus /\ t # <<>>
  BY <1>1, NumeralFacts
<1>3. Len(t) \in 1 .. Len(t) /\ SubSeq(t, 1, Len(t)) = t
  BY <1>2
<1>4. v \in Nat /\ s = [value |-> IF v >= Modulus THEN Modulus - 1 ELSE v,
                        rest  |-> Without(Len(t), t),
                        errno |-> v >= Modulus]
  <2> DEFINE k == Len(t)
  <2>1. k \in 1 .. Len(t) /\ IsNumeral(SubSeq(t, 1, k), 10) /\ k = Len(t)
    BY <1>3, Zenon
  <2> HIDE DEF k
  <2>2. /\ Number(SubSeq(t, 1, k), 10) \in Nat
        /\ s = [value |-> IF Number(SubSeq(t, 1, k), 10) >= Modulus THEN Modulus - 1
                          ELSE Number(SubSeq(t, 1, k), 10),
                rest  |-> Without(k, t),
                errno |-> Number(SubSeq(t, 1, k), 10) >= Modulus]
    BY <1>1, <2>1, DigitsRead, Zenon
  <2> QED BY <1>3, <2>2, Zenon DEF k
<1>5. Without(Len(t), t) = <<>>
  BY <1>2 DEF Without
<1> HIDE DEF v, s
<1>6. ~(v >= Modulus)
  BY <1>4, ModulusIs DEF v
<1>7. s.value = v /\ s.rest = <<>> /\ ~s.errno
  BY <1>4, <1>5, <1>6
<1>8. Scaled(s) = Accepted(v)
  BY <1>7, Zenon DEF Scaled
<1>9. WithScale(t) = Scaled(s)
  BY <1>2, Zenon DEF WithScale, s
<1> QED BY <1>8, <1>9, Zenon DEF v

\* A size of digits and a unit.
LEMMA ScaledSize ==
    ASSUME NEW t \in Seq(Chars), t # <<>>, Last(t) \in DOMAIN Unit, IsNumeral(Front(t), 10),
           Number(Front(t), 10) * Unit[Last(t)] < Modulus
    PROVE  WithScale(t) = Accepted(Number(Front(t), 10) * Unit[Last(t)])
<1> DEFINE v == Number(Front(t), 10)
           s == strtoull(t, 10)
           u == Last(t)
           n == Len(t) - 1
<1>1. 10 \in Nat /\ 10 # 16
  OBVIOUS
<1>2. /\ Len(t) \in Nat /\ Len(t) >= 1 /\ Front(t) \in Seq(Chars) /\ Len(Front(t)) = n
      /\ \A i \in 1 .. n : Front(t)[i] = t[i]
  BY FrontIs
<1>3. n >= 1 /\ Front(t)[1] \notin Spaces \cup {Plus, Minus}
  BY <1>1, <1>2, NumeralFacts
<1>4. n \in 1 .. Len(t) /\ n + 1 = Len(t)
  BY <1>2, <1>3
<1>5. t[1] # Minus
  <2>1. 1 \in 1 .. n
    BY <1>2, <1>3
  <2> QED BY <1>2, <1>3, <2>1
<1>6. Front(t) = SubSeq(t, 1, n)
  BY Zenon DEF Front
<1>7. u \notin DigitsOf(10) /\ t[n + 1] = u
  <2>1. ASSUME u \in DigitsOf(10) PROVE FALSE
    <3>1. u \in DOMAIN DigitValue /\ DigitValue[u] < 10 /\ DigitValue[u] \in Nat
      BY <2>1, ConvertAssumption DEF DigitsOf
    <3>2. DigitValue[u] >= 10
      BY <3>1, ConvertAssumption
    <3> QED BY <3>1, <3>2
  <2>2. t[n + 1] = u
    BY <1>4, Zenon DEF Last
  <2> QED BY <2>1, <2>2
<1>8. v \in Nat /\ s = [value |-> IF v >= Modulus THEN Modulus - 1 ELSE v,
                        rest  |-> Without(n, t),
                        errno |-> v >= Modulus]
  <2> DEFINE w == Number(SubSeq(t, 1, n), 10)
  <2>1. IsNumeral(SubSeq(t, 1, n), 10) /\ (n = Len(t) \/ t[n + 1] \notin DigitsOf(10))
    BY <1>6, <1>7, Zenon
  <2> HIDE DEF n
  <2>2. /\ w \in Nat
        /\ s = [value |-> IF w >= Modulus THEN Modulus - 1 ELSE w,
                rest  |-> Without(n, t),
                errno |-> w >= Modulus]
    BY <1>1, <1>4, <2>1, DigitsRead, Zenon
  <2> QED BY <1>6, <2>2, Zenon
<1>9. Without(n, t) = <<u>>
  <2>1. Without(n, t) = SubSeq(t, Len(t), Len(t))
    BY <1>4, Zenon DEF Without
  <2>2. SubSeq(t, Len(t), Len(t)) = <<t[Len(t)]>>
    <3> DEFINE k == Len(t)
               r == SubSeq(t, k, k)
    <3>1. k \in Nat /\ k >= 1 /\ k <= Len(t)
      BY <1>2
    <3> HIDE DEF k
    <3>2. r \in Seq(Chars) /\ Len(r) = 1 /\ r[1] = t[k]
      BY <3>1
    <3> HIDE DEF r
    <3>3. r = <<r[1]>>
      BY <3>2
    <3> QED BY <3>2, <3>3, Zenon DEF r, k
  <2> QED BY <2>1, <2>2, Zenon DEF Last
<1>10. Unit[u] \in Nat /\ Unit[u] >= 1
  BY ConvertAssumption
<1> HIDE DEF v, s, u, n
<1>11. v * Unit[u] \in Nat /\ v <= v * Unit[u]
  <2>1. PICK f \in Nat : f = Unit[u] /\ f >= 1
    BY <1>10
  <2>2. v * f \in Nat /\ v <= v * f
    BY <1>8, <2>1
  <2> QED BY <2>1, <2>2, Zenon
<1>12. v * Unit[u] < Modulus
  BY Zenon DEF v, u
<1>13. ~(v >= Modulus)
  BY <1>8, <1>11, <1>12, ModulusIs
<1>14. (v * Unit[u]) % Modulus = v * Unit[u]
  BY <1>11, <1>12, ModulusIs, Modulo
<1>15. s.value = v /\ s.rest = <<u>> /\ ~s.errno
  BY <1>8, <1>9, <1>13
<1>16. <<u>> # <<>> /\ <<u>>[1] = u
  OBVIOUS
<1>17. \E c \in DOMAIN Unit : s.rest = <<c>>
  BY <1>15, Zenon DEF u
<1>18. Scaled(s) = Accepted(v * Unit[u])
  BY <1>14, <1>15, <1>16, <1>17, Zenon DEF Scaled
<1>19. WithScale(t) = Scaled(s)
  BY <1>5, Zenon DEF WithScale, s
<1> QED BY <1>18, <1>19, Zenon DEF v, u

LEMMA SizeRead ==
    ASSUME NEW t \in Seq(Chars), t # <<>> => t[1] \in Graphic
    PROVE  LET hasUnit == t # <<>> /\ Last(t) \in DOMAIN Unit
               digits  == IF hasUnit THEN Front(t) ELSE t
               number  == Number(digits, 10) * (IF hasUnit THEN Unit[Last(t)] ELSE 1)
           IN  IF IsNumeral(digits, 10)
               THEN number < Modulus => WithScale(t) = Accepted(number)
               ELSE WithScale(t).how = "accepted" => t[1] = Plus \/ digits = <<>>
<1> DEFINE hasUnit == t # <<>> /\ Last(t) \in DOMAIN Unit
           digits  == IF hasUnit THEN Front(t) ELSE t
           number  == Number(digits, 10) * (IF hasUnit THEN Unit[Last(t)] ELSE 1)
<1>1. ASSUME IsNumeral(digits, 10), number < Modulus
      PROVE  WithScale(t) = Accepted(number)
  <2>1. CASE hasUnit
    <3>1. digits = Front(t) /\ number = Number(Front(t), 10) * Unit[Last(t)]
      BY <2>1, Zenon
    <3> HIDE DEF digits, number
    <3>2. IsNumeral(Front(t), 10) /\ Number(Front(t), 10) * Unit[Last(t)] < Modulus
      BY <1>1, <3>1, Zenon
    <3> QED BY <2>1, <3>1, <3>2, ScaledSize, Zenon
  <2>2. CASE ~hasUnit
    <3>1. digits = t /\ number = Number(t, 10) * 1
      BY <2>2, Zenon
    <3> HIDE DEF digits, number, hasUnit
    <3>2. IsNumeral(t, 10)
      BY <1>1, <3>1, Zenon
    <3>3. Number(t, 10) \in Nat
      <4>1. 10 \in Nat
        OBVIOUS
      <4>2. t \in Seq(DOMAIN DigitValue)
        BY <3>2, <4>1, NumeralFacts, Zenon
      <4> QED BY <4>1, <4>2, ReadAsWritten
    <3>4. number = Number(t, 10)
      BY <3>1, <3>3
    <3>5. Number(t, 10) < Modulus
      BY <1>1, <3>4, Zenon
    <3> QED BY <3>2, <3>4, <3>5, PlainSize, Zenon
  <2> QED BY <2>1, <2>2, Zenon
<1>2. ASSUME ~IsNumeral(digits, 10), WithScale(t).how = "accepted"
      PROVE  t[1] = Plus \/ digits = <<>>
  <2>1. IsSize(t)
    BY <1>2, OnlySizes
  <2> QED BY <1>2, <2>1, Zenon DEF IsSize
<1> HIDE DEF digits, number
<1>3. IF IsNumeral(digits, 10)
      THEN number < Modulus => WithScale(t) = Accepted(number)
      ELSE WithScale(t).how = "accepted" => t[1] = Plus \/ digits = <<>>
  BY <1>1, <1>2, Zenon
<1> QED BY <1>3, Zenon DEF digits, number

LEMMA NumberRead ==
    ASSUME NEW t \in Seq(Chars)
    PROVE  LET number == Number(BehindPrefix(t), BaseOf(t))
           IN  IF BehindPrefix(t) = <<>> THEN WithBasePrefix(t) = Accepted(0)
               ELSE \/ MoreThanDigits(t)
                    \/ WithBasePrefix(t) =
                          IF IsNumeral(BehindPrefix(t), BaseOf(t)) /\ number < Modulus
                          THEN Accepted(number) ELSE Fatal
<1> DEFINE base   == BaseOf(t)
           digits == BehindPrefix(t)
           number == Number(digits, base)
           s      == strtoull(digits, base)
<1>1. base \in Nat /\ digits \in Seq(Chars)
  BY BehindIs, Zenon
<1>2. WithBasePrefix(t) = IF s.errno \/ s.rest # <<>> THEN Fatal ELSE Accepted(s.value)
  BY PrefixSkipped, Zenon
<1> HIDE DEF base, digits
<1>3. CASE digits = <<>>
  <2>1. s = [value |-> 0, rest |-> <<>>, errno |-> FALSE]
    BY <1>1, <1>3, StrtoullEmpty, Zenon
  <2> HIDE DEF s
  <2>2. s.value = 0 /\ s.rest = <<>> /\ ~s.errno
    BY <2>1
  <2> QED BY <1>2, <1>3, <2>2, Zenon DEF digits
<1>4. CASE digits # <<>> /\ MoreThanDigits(t)
  BY <1>4, Zenon DEF digits
<1>5. ASSUME digits # <<>>, ~MoreThanDigits(t)
      PROVE  WithBasePrefix(t) = IF IsNumeral(digits, base) /\ number < Modulus
                                 THEN Accepted(number) ELSE Fatal
  <2> /\ digits[1] \notin Spaces \cup {Plus, Minus}
      /\ ~(base = 16 /\ IsPrefix(<<Zero, X>>, digits))
    BY <1>5, BehindIs, Zenon DEF base, digits
  <2>1. CASE ~IsNumeral(digits, base)
    <3>1. s.rest # <<>>
      BY <1>1, <1>5, <2>1, AllDigits, Zenon
    <3> HIDE DEF s
    <3> QED BY <1>2, <2>1, <3>1, Zenon
  <2>2. CASE IsNumeral(digits, base)
    <3> DEFINE n == Len(digits)
    <3>1. n \in Nat /\ n >= 1 /\ digits = SubSeq(digits, 1, n)
      BY <1>1, <1>5
    <3>2. n \in 1 .. Len(digits) /\ n = Len(digits)
      BY <3>1
    <3>3. Without(n, digits) = <<>>
      BY <3>1 DEF Without
    <3> HIDE DEF n
    <3>4. LET w == Number(SubSeq(digits, 1, n), base)
          IN  /\ w \in Nat
              /\ s = [value |-> IF w >= Modulus THEN Modulus - 1 ELSE w,
                      rest  |-> Without(n, digits),
                      errno |-> w >= Modulus]
      <4>1. IsNumeral(SubSeq(digits, 1, n), base)
        BY <2>2, <3>1, Zenon
      <4> QED BY <1>1, <1>5, <3>2, <4>1, DigitsRead, Zenon
    <3>5. /\ number \in Nat
          /\ s = [value |-> IF number >= Modulus THEN Modulus - 1 ELSE number,
                  rest  |-> <<>>,
                  errno |-> number >= Modulus]
      BY <3>1, <3>3, <3>4, Zenon
    <3> HIDE DEF s, number
    <3>6. /\ s.rest = <<>> /\ s.errno = (number >= Modulus)
          /\ s.value = IF number >= Modulus THEN Modulus - 1 ELSE number
      BY <3>5, Zenon
    <3>7. number < Modulus <=> ~(number >= Modulus)
      BY <3>5, ModulusIs
    <3>8. CASE number >= Modulus
      BY <1>2, <3>6, <3>7, <3>8, Zenon
    <3>9. CASE ~(number >= Modulus)
      BY <1>2, <2>2, <3>6, <3>7, <3>9, Zenon
    <3> QED BY <3>8, <3>9
  <2> QED BY <2>1, <2>2
<1> QED BY <1>3, <1>4, <1>5, Zenon DEF number, base, digits

LEMMA ConvertByTrim == ConvertSpec => []ByTrim
<1>1. ConvertInit => ByTrim
  BY DEF ConvertInit, ByTrim, Called
<1>2. ByTrim /\ [ConvertNext]_allVars => ByTrim'
  <2>1. [ConvertNext]_allVars => UNCHANGED <<function, caller>>
    BY DEF ConvertNext, TrimStep, Frame, Convert, Finished, allVars, vars, convertVars
  <2> QED BY <2>1, Zenon DEF ByTrim
<1> QED BY <1>1, <1>2, PTL DEF ConvertSpec

\* A conversion that has ended has called trim(), which has returned.
CallReturned ==
    /\ caller \in {"none", "scale", "prefix"}
    /\ outcome # Pending => caller # "none" /\ function = "trim" /\ state = "DONE"

LEMMA ConvertReturned == ConvertSpec => []CallReturned
<1>1. ConvertInit => CallReturned
  BY DEF ConvertInit, Pending, CallReturned
<1>2. CallReturned /\ [ConvertNext]_allVars /\ ByTrim => CallReturned'
  <2> SUFFICES ASSUME CallReturned, [ConvertNext]_allVars, ByTrim PROVE CallReturned'
    OBVIOUS
  <2>1. CASE TrimStep
    <3>1. state # "DONE" /\ UNCHANGED <<function, caller, outcome>>
      BY <2>1 DEF TrimStep, Frame, convertVars, Step, Start, InWord, OnNotice, WorkToDo,
                  Shift, Sees, TrimInOneStep
    <3> QED BY <3>1, Zenon DEF CallReturned
  <2>2. CASE Convert
    <3>1. caller # "none" /\ state = "DONE" /\ UNCHANGED <<state, function, caller>>
      BY <2>2 DEF Convert, vars
    <3> QED BY <3>1, Zenon DEF ByTrim, CallReturned
  <2>3. CASE UNCHANGED allVars
    <3>1. UNCHANGED <<function, state, caller, outcome>>
      BY <2>3 DEF allVars, vars, convertVars
    <3> QED BY <3>1, Zenon DEF CallReturned
  <2> QED BY <2>1, <2>2, <2>3 DEF ConvertNext, Finished
<1> QED BY <1>1, <1>2, ConvertByTrim, PTL DEF ConvertSpec

\* What a conversion has read is a string, and begins with no space.
LEMMA TextRead ==
    ASSUME TInv, CallReturned, outcome # Pending
    PROVE  /\ FullyTrimmed(passed) \in Seq(Chars)
           /\ FullyTrimmed(passed) # <<>> => FullyTrimmed(passed)[1] \in Graphic
<1> DEFINE t == FullyTrimmed(passed)
<1>1. t = Contents(inString)
  BY Zenon DEF TInv, ReturnsTrimmed, CallReturned
<1>2. Contents(inString) \in Seq(Chars)
  <2>1. inString \in Strings
    BY InString DEF TInv, Strings
  <2>2. strlen(inString) \in Nat /\ \A k \in 0 .. strlen(inString) - 1 : inString[k] \in Chars
    BY <2>1, StringIs
  <2>3. \A i \in 1 .. strlen(inString) : inString[i - 1] \in Chars
    BY <2>2
  <2> QED BY <2>2, <2>3 DEF Contents
<1>3. passed \in Strings
  BY DEF TInv, IInv
<1>4. ASSUME t # <<>> PROVE t[1] \in Graphic
  <2>1. Contents(inString) # <<>>
    BY <1>1, <1>4, Zenon
  <2>2. 1 \in DOMAIN Contents(inString)
    BY <1>2, <2>1
  <2>3. 1 \in DOMAIN FullyTrimmed(passed)
    BY <1>1, <2>2, Zenon
  <2> QED BY <1>3, <2>3, TextStarts
<1> QED BY <1>1, <1>2, <1>4, Zenon

\* A size that fits is accepted as the number of bytes that was written, in
\* digits and with a unit of the table or none, for texts of any length, and
\* what is no size is refused, but for texts with a `+' and a unit alone
\* (convert.c:23-65).
THEOREM SizesAsWritten == ConvertSpec => []ScaledAsWritten
<1>1. TInv /\ CallReturned /\ ReadFromTrimmed => ScaledAsWritten
  <2> SUFFICES ASSUME TInv, CallReturned, ReadFromTrimmed PROVE ScaledAsWritten
    OBVIOUS
  <2> DEFINE t       == FullyTrimmed(passed)
             hasUnit == t # <<>> /\ Last(t) \in DOMAIN Unit
             digits  == IF hasUnit THEN Front(t) ELSE t
             number  == Number(digits, 10) * (IF hasUnit THEN Unit[Last(t)] ELSE 1)
  <2>1. SUFFICES ASSUME caller = "scale", outcome # Pending
                 PROVE  IF IsNumeral(digits, 10)
                        THEN number < Modulus => outcome = Accepted(number)
                        ELSE outcome.how = "accepted" => t[1] = Plus \/ digits = <<>>
    BY Zenon DEF ScaledAsWritten
  <2>2. t \in Seq(Chars) /\ (t # <<>> => t[1] \in Graphic)
    BY <2>1, TextRead
  <2>3. caller # "none"
    BY <2>1
  <2>4. outcome = WithScale(t)
    BY <2>1, <2>3, Zenon DEF ReadFromTrimmed
  <2> HIDE DEF t
  <2>5. IF IsNumeral(digits, 10)
        THEN number < Modulus => WithScale(t) = Accepted(number)
        ELSE WithScale(t).how = "accepted" => t[1] = Plus \/ digits = <<>>
    BY <2>2, SizeRead, Zenon
  <2> HIDE DEF digits, number
  <2> QED BY <2>4, <2>5, Zenon
<1>2. Spec => []TInv
  BY InitTInv, NextTInv, PTL DEF Spec
<1> QED BY <1>1, <1>2, ConvertTrims, ConvertedFromTrimmed, ConvertReturned, PTL

\* In texts of any length, digits that fit are accepted as the number they stand
\* for in the base of their prefix, digits that do not are refused, nothing at
\* all is 0, 0x0b1 is binary, and any other text is refused but for those of
\* MoreThanDigits, in which strtoull() accepts a space, a sign or one more 0x;
\* of them nothing is said (convert.c:69-98).
THEOREM PrefixedNumbersAsWritten == ConvertSpec => []PrefixedAsWritten
<1>1. TInv /\ CallReturned /\ ReadFromTrimmed => PrefixedAsWritten
  <2> SUFFICES ASSUME TInv, CallReturned, ReadFromTrimmed PROVE PrefixedAsWritten
    OBVIOUS
  <2> DEFINE t      == FullyTrimmed(passed)
             number == Number(BehindPrefix(t), BaseOf(t))
             Read(o) == IF BehindPrefix(t) = <<>> THEN o = Accepted(0)
                        ELSE \/ MoreThanDigits(t)
                             \/ o = IF IsNumeral(BehindPrefix(t), BaseOf(t)) /\ number < Modulus
                                    THEN Accepted(number) ELSE Fatal
  <2>1. SUFFICES ASSUME caller = "prefix", outcome # Pending PROVE Read(outcome)
    BY Zenon DEF PrefixedAsWritten
  <2>2. t \in Seq(Chars)
    BY <2>1, TextRead
  <2>3. caller # "none" /\ caller # "scale"
    BY <2>1
  <2>4. outcome = WithBasePrefix(t)
    BY <2>1, <2>3, Zenon DEF ReadFromTrimmed
  <2> HIDE DEF t
  <2>5. Read(WithBasePrefix(t))
    BY <2>2, NumberRead, Zenon
  <2> HIDE DEF Read
  <2> QED BY <2>4, <2>5, Zenon
<1>2. Spec => []TInv
  BY InitTInv, NextTInv, PTL DEF Spec
<1> QED BY <1>1, <1>2, ConvertTrims, ConvertedFromTrimmed, ConvertReturned, PTL

\* What is no size, or no number with a prefix, is refused.
RefusesTheRest ==
    outcome.how = "accepted" =>
       /\ caller = "scale"  => IsSize(FullyTrimmed(passed))
       /\ caller = "prefix" => IsPrefixed(FullyTrimmed(passed))

\* A conversion accepts only texts that are numbers, of any length, but for the
\* exceptions that are named in IsSize and IsPrefixed (convert.c:35-59, 73-90).
THEOREM OnlyNumbersAccepted == ConvertSpec => []RefusesTheRest
<1>1. TInv /\ CallReturned /\ ReadFromTrimmed => RefusesTheRest
  <2> SUFFICES ASSUME TInv, CallReturned, ReadFromTrimmed, outcome.how = "accepted"
               PROVE  /\ caller = "scale"  => IsSize(FullyTrimmed(passed))
                      /\ caller = "prefix" => IsPrefixed(FullyTrimmed(passed))
    BY Zenon DEF RefusesTheRest
  <2> DEFINE t == FullyTrimmed(passed)
  <2>1. outcome # Pending
    BY DEF Pending
  <2>2. t \in Seq(Chars) /\ (t # <<>> => t[1] \in Graphic)
    BY <2>1, TextRead
  <2>3. outcome = IF caller = "scale" THEN WithScale(t) ELSE WithBasePrefix(t)
    BY <2>1, Zenon DEF ReadFromTrimmed, CallReturned
  <2> HIDE DEF t
  <2>4. caller = "scale" => IsSize(t)
    BY <2>2, <2>3, OnlySizes, Zenon
  <2>5. ASSUME caller = "prefix" PROVE IsPrefixed(t)
    <3>1. caller # "scale"
      BY <2>5
    <3>2. outcome = WithBasePrefix(t)
      BY <2>3, <3>1, Zenon
    <3> QED BY <2>2, <3>2, OnlyPrefixed, Zenon
  <2> QED BY <2>4, <2>5 DEF t
<1>2. Spec => []TInv
  BY InitTInv, NextTInv, PTL DEF Spec
<1> QED BY <1>1, <1>2, ConvertTrims, ConvertedFromTrimmed, ConvertReturned, PTL

=============================================================================
