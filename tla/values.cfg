\* Every value of two integer types, with 32 and with 8 values, through any functions.
CONSTANTS
    Wide = 16
    Narrow = 4
    Tick = 2
    Coarse = 3
    Null = Null
    Empty = Empty
    NullText = NullText
    Word = Word
    Bytes = Bytes
    Real = Real
    Texts <- MCTexts
    Blobs <- MCBlobs
    Reals <- MCReals
SPECIFICATION Spec
INVARIANTS Intact
