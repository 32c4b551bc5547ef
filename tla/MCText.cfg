\* Json: buffers that hold no text, one pair and no more, one pair with its end, two
\* pairs. Numbers: words of 12 bits, whose largest, 4095, has four digits and, like
\* 2^32 - 1, ends in a 5; 10 is a character that is no digit. Base64: two whole
\* groups; of the characters one is the padding and two are the same number (63).
\* Wire: bits at both ends of the word and of a byte, and one that is refused.
CONSTANTS
    Letter = {"a", "b"}
    Key <- MCKey
    Value <- MCValue
    BufferSize = {1, 8, 9, 16}
    ValueSize = {2, 3}
    MaxCalls = 4
    MaxTexts = 2
    Characters = {0, 4, 5, 6, 9, 10}
    MaxLength = 5
    UINT32_MAX = 4095
    MAX_UINT32_POW_10_EXPONENT = 4
    DataByte = {0, 106, 255}
    Character = {43, 47, 61, 95}
    MaxData = 6
    MaxText = 6
    MaxLimit = 9
    SIZE = 64
    WireWord <- MCWord
    Blob <- MCBlob
    StaleByte = {{0, 7}}
    BufferBytes = 5
    BitNumber = {0, 8, 31, 32}
    MaxWrites = 3
SPECIFICATION Spec
INVARIANTS
    TypeOK
    TextSaysWhatWasAdded
    FindsWhatWasAdded
    ReadsNumeral
    EncodesBits
    DecodesBits
    FieldsReadBack
