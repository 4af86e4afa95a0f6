SPECIFICATION FairSpec
CONSTANTS
    Graphic = {"0", "1", "x", "b", "k", "M", "+", "-"}
    Spaces = {" ", "tab"}
    Blank = " "
    NUL = "nul"
    BufferSize = 6
    ULLONG_MAX = 31
    DigitValue <- MCDigitValue
    Unit <- MCUnit
    Zero = "0"
    X = "x"
    B = "b"
    Plus = "+"
    Minus = "-"
    Words <- MCWords
    Numerals <- MCNumerals
INVARIANTS
    TypeInvariant
    ReturnsTrimmed
    NothingBehindTheString
    ScaledAsWritten
    PrefixedAsWritten
PROPERTY
    Terminates
