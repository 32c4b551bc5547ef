\* Two elements are enough: the right child of the root is not there.
CONSTANTS
    MaxElements = 2
    Comparators <- MCOneRanking
    Word = 8
    MaxNested = 2
SPECIFICATION MCSpec
INVARIANT ComparesInBounds
CHECK_DEADLOCK FALSE
