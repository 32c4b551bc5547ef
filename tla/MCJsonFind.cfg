CONSTANTS
    Letter = {"a", "b"}
    Key <- MCKey
    Value <- MCValue
    BufferSize = {16}
    ValueSize = {2, 3}
    MaxCalls = 4
    MaxTexts = 2
    Characters = {0, 4, 5, 6, 9, 10}
    MaxLength = 5
    UINT32_MAX = 4095
    MAX_UINT32_POW_10_EXPONENT = 4
    DataByte = {0, 106, 255}
    Character = {43, 47, 61, 95}
    MaxData = 6
    MaxText = 6
    MaxLimit = 9
    SIZE = 64
    WireWord <- MCWord
    Blob <- MCBlob
    StaleByte = {{0, 7}}
    BufferBytes = 5
    BitNumber = {0, 8, 31, 32}
    MaxWrites = 3
SPECIFICATION Spec
INVARIANT KeyIsFound
