------------------------------ MODULE Convert -------------------------------
(***************************************************************************)
(* The conversions of option values in convert.c.  Both trim the string    *)
(* they are given, in its buffer, with trim() of module Trim; a string is  *)
(* cut into digits and what follows them by strtoull(), which is modelled  *)
(* by what the C standard and the GNU library say of it.                   *)
(*                                                                         *)
(* An unsigned long long counts up to ULLONG_MAX.  The digits and the      *)
(* units are characters of Graphic with a value; the units are those of    *)
(* the table in convert.h, with factors whose products pass ULLONG_MAX as  *)
(* early as the real ones pass 2^64 - 1.                                   *)
(***************************************************************************)
EXTENDS Trim, Integers

CONSTANTS
    ULLONG_MAX,   \* the largest unsigned long long
    DigitValue,   \* the value of each digit
    Unit,         \* the factor of each unit
    Zero, X, B, Plus, Minus,    \* '0', 'x', 'b', '+' and '-'
    Words,        \* the buffers that are trimmed
    Numerals      \* the buffers that are converted

ASSUME ConvertAssumption ==
    /\ ULLONG_MAX \in Nat \ {0}
    /\ DigitValue \in [DOMAIN DigitValue -> Nat] /\ Unit \in [DOMAIN Unit -> Nat \ {0}]
    /\ DOMAIN DigitValue \subseteq Graphic /\ DOMAIN Unit \subseteq Graphic
    /\ {Zero, X, B, Plus, Minus} \subseteq Graphic
    /\ {Plus, Minus} \cap DOMAIN DigitValue = {}
    /\ \A u \in DOMAIN Unit \cap DOMAIN DigitValue : DigitValue[u] >= 10
    /\ Words \subseteq Strings /\ Numerals \subseteq Strings

VARIABLES
    caller,   \* the conversion: "scale", "prefix", or "none" if trim() and its
              \* relatives are called for themselves
    outcome   \* how the conversion ends, and the number it returns

convertVars == <<caller, outcome>>
allVars == <<vars, convertVars>>

Modulus == ULLONG_MAX + 1

Accepted(value) == [how |-> "accepted", value |-> value]
Fatal   == [how |-> "fatal", value |-> 0]
Aborted == [how |-> "aborted", value |-> 0]
Pending == [how |-> "pending", value |-> 0]

ConvertInit ==
    /\ \/ caller = "none" /\ \E f \in Functions, s \in Words : Called(f, s)
       \/ caller \in {"scale", "prefix"} /\ \E s \in Numerals : Called("trim", s)
    /\ outcome = Pending

----------------------------------------------------------------------------
(* strtoull()                                                              *)

\* The number of characters in S that t begins with, and t without n of them.
Leading(t, S) == Max({n \in 0 .. Len(t) : \A i \in 1 .. n : t[i] \in S})
Without(n, t) == SubSeq(t, n + 1, Len(t))

DigitsOf(base) == {c \in DOMAIN DigitValue : DigitValue[c] < base}
ValueOf(digits, base) ==
    FoldLeft(LAMBDA v, c : v * base + DigitValue[c], 0, digits)

\* An optional sign and, for base 16, an optional 0x; digits; the rest.  A
\* number that does not fit is ULLONG_MAX with errno set, a negative one that
\* does is negated in unsigned arithmetic, and without a digit the result is 0.
strtoull(t, base) ==
    LET blanks   == Leading(t, Spaces)
        signed   == blanks < Len(t) /\ t[blanks + 1] \in {Plus, Minus}
        sign     == blanks + (IF signed THEN 1 ELSE 0)
        prefixed == /\ base = 16
                    /\ IsPrefix(<<Zero, X>>, Without(sign, t))
                    /\ Leading(Without(sign + 2, t), DigitsOf(16)) > 0
        first    == sign + (IF prefixed THEN 2 ELSE 0)
        n        == Leading(Without(first, t), DigitsOf(base))
        value    == ValueOf(SubSeq(t, first + 1, first + n), base)
    IN  IF n = 0 THEN [value |-> 0, rest |-> t, errno |-> FALSE]
        ELSE [value |-> CASE value >= Modulus -> Modulus - 1
                          [] value < Modulus /\ signed /\ t[sign] = Minus
                                -> (-value) % Modulus
                          [] OTHER -> value,
              rest  |-> Without(first + n, t),
              errno |-> value >= Modulus]

----------------------------------------------------------------------------
(* The two conversions                                                     *)

\* Mistaken: only the first character behind the number is looked at.
ScaledByFirst(number) ==
    IF number.value = 0 /\ number.errno THEN Fatal
    ELSE IF number.rest = <<>> THEN Accepted(number.value)
    ELSE IF number.rest[1] \in DOMAIN Unit
         THEN Accepted((number.value * Unit[number.rest[1]]) % Modulus)
    ELSE Fatal

\* errno only counts if the result is 0, and the product wraps.
Scaled(number) ==
    IF number.value = 0 /\ number.errno THEN Fatal
    ELSE IF number.rest = <<>> THEN Accepted(number.value)
    ELSE IF \E u \in DOMAIN Unit : number.rest = <<u>>
         THEN Accepted((number.value * Unit[number.rest[1]]) % Modulus)
    ELSE Fatal

WithScale(t) ==
    CASE t = <<>> -> Aborted
      [] t # <<>> /\ t[1] = Minus -> Fatal
      [] OTHER -> Scaled(strtoull(t, 10))

Prefixed(t, c) == IsPrefix(<<Zero, c>>, t)
WithoutPrefix(t, c) == IF Prefixed(t, c) THEN Without(2, t) ELSE t

\* Mistaken: the prefix of a binary number is not skipped.
WithBasePrefixKept(t) ==
    LET digits == WithoutPrefix(t, X)
        base   == IF Prefixed(digits, B) THEN 2 ELSE IF Prefixed(t, X) THEN 16 ELSE 10
        number == strtoull(digits, base)
    IN  IF number.errno \/ number.rest # <<>> THEN Fatal ELSE Accepted(number.value)

\* The second test looks at what is left after the first: in 0x0b1 both match.
WithBasePrefix(t) ==
    LET hex    == WithoutPrefix(t, X)
        digits == WithoutPrefix(hex, B)
        base   == IF Prefixed(hex, B) THEN 2 ELSE IF Prefixed(t, X) THEN 16 ELSE 10
        number == strtoull(digits, base)
    IN  IF number.errno \/ number.rest # <<>> THEN Fatal ELSE Accepted(number.value)

\* The conversion goes on when trim() has returned.
Convert ==
    /\ caller # "none"
    /\ state = "DONE"
    /\ outcome = Pending
    /\ outcome' = IF caller = "scale" THEN WithScale(Contents(inString))
                                      ELSE WithBasePrefix(Contents(inString))
    /\ UNCHANGED <<vars, caller>>

TrimStep == (Step \/ TrimInOneStep) /\ Frame /\ UNCHANGED convertVars

Finished ==
    /\ state = "DONE"
    /\ caller # "none" => outcome # Pending
    /\ UNCHANGED allVars

ConvertNext == TrimStep \/ Convert \/ Finished

ConvertSpec == ConvertInit /\ [][ConvertNext]_allVars

\* One thread runs the loop of trim() and nothing in it waits.
FairSpec == ConvertSpec /\ WF_allVars(TrimStep)

----------------------------------------------------------------------------

\* The number the digits stand for, position by position: the place n digits
\* from the right counts base to the power of n.
Number(digits, base) ==
    LET place[n \in 0 .. Len(digits)] == IF n = 0 THEN 1 ELSE base * place[n - 1]
    IN  MapThenSumSet(LAMBDA i : DigitValue[digits[i]] * place[Len(digits) - i],
                      DOMAIN digits)

IsNumeral(t, base) == t # <<>> /\ Range(t) \subseteq DigitsOf(base)

\* A size that fits is the number of bytes that was written, with the unit of
\* the table in convert.h, whatever the spaces around it; anything that is no
\* size is refused, but for a text that begins with a `+' and a unit alone, which
\* is 0 (convert.c:35-59).  A size that does not fit is accepted as some other
\* number, about which nothing is said: errno is only looked at if the result is
\* 0, and the product wraps (convert.c:39-53).
ScaledAsWritten ==
    caller = "scale" /\ outcome # Pending =>
       LET text    == FullyTrimmed(passed)
           hasUnit == text # <<>> /\ Last(text) \in DOMAIN Unit
           digits  == IF hasUnit THEN Front(text) ELSE text
           number  == Number(digits, 10) * (IF hasUnit THEN Unit[Last(text)] ELSE 1)
       IN  IF IsNumeral(digits, 10)
           THEN number < Modulus => outcome = Accepted(number)
           ELSE outcome.how = "accepted" => text[1] = Plus \/ digits = <<>>

\* The base of a text, and what stands behind its prefix.  By the table in
\* convert.h, 0x0b1 is hexadecimal; the code takes it for a binary number with
\* two prefixes (convert.c:74-81).
BinaryInHex(text) == Prefixed(text, X) /\ Prefixed(Without(2, text), B)
BaseOf(text) ==
    IF BinaryInHex(text) THEN 2
    ELSE IF Prefixed(text, X) THEN 16 ELSE IF Prefixed(text, B) THEN 2 ELSE 10
BehindPrefix(text) ==
    IF BinaryInHex(text) THEN Without(2, Without(2, text))
    ELSE IF BaseOf(text) = 10 THEN text ELSE Without(2, text)

\* What strtoull() accepts besides digits: a space or a sign before them, and for
\* base 16 one more 0x.  Of these texts nothing is said below; a number with a
\* `-' is one of them, it is accepted as ULLONG_MAX + 1 less the number.
MoreThanDigits(text) ==
    \/ BehindPrefix(text)[1] \in {Plus, Minus} \cup Spaces
    \/ BaseOf(text) = 16 /\ Prefixed(BehindPrefix(text), X)

\* Digits in the base of their prefix are converted to the number they stand
\* for, or refused if it does not fit, and a text in which something else
\* follows the prefix is refused (convert.c:82-90).  The code makes 0 of a text
\* with nothing behind the prefix, the empty text included, and 1 of 0x0b1.
PrefixedAsWritten ==
    caller = "prefix" /\ outcome # Pending =>
       LET text   == FullyTrimmed(passed)
           number == Number(BehindPrefix(text), BaseOf(text))
       IN  IF BehindPrefix(text) = <<>> THEN outcome = Accepted(0)
           ELSE \/ MoreThanDigits(text)
                \/ outcome = IF IsNumeral(BehindPrefix(text), BaseOf(text)) /\ number < Modulus
                             THEN Accepted(number) ELSE Fatal
=============================================================================
