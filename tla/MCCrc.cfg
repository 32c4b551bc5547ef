\* All 45 CRC functions.
CONSTANTS
    Variants <- AllVariants
    Bytes <- MCBytes
    MaxMessage = 9
    SmallMessage = 3
SPECIFICATION MCSpec
INVARIANTS
    TypeOK
    AgreesWithTests
PROPERTIES
    LookupIsDivision
    ChecksumSpec
