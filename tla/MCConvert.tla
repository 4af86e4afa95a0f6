------------------------------ MODULE MCConvert -----------------------------
EXTENDS Convert

\* Every buffer over two letters, two spaces and the terminator.
MCWords == {s \in [Index -> {"1", "x", " ", "tab", NUL}] : \E i \in Index : s[i] = NUL}

\* The buffer that holds the string t and nothing behind it.
Buffer(t) == [i \in Index |-> IF i < Len(t) THEN t[i + 1] ELSE NUL]

\* Every string of up to four characters but a tab, and those of five that may
\* be prefixes and digits.
MCNumerals ==
    {Buffer(t) : t \in BoundedSeq(Graphic \cup {Blank}, 4)
                       \cup [1 .. 5 -> {"0", "1", "x", "b"}]}

MCDigitValue == "0" :> 0 @@ "1" :> 1 @@ "b" :> 11

\* Products leave 5 bits from 7M and 11k on.
MCUnit == "k" :> 3 @@ "M" :> 5
=============================================================================
