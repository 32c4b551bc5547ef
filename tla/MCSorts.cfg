\* Six elements make a heap of three levels; with five, bubble and selection sort have
\* passes enough for every combination of swaps and early exits.
CONSTANTS
    MaxElements = 6
    Comparators <- MCComparators
    Word = 8
    MaxNested = 5
SPECIFICATION MCSpec
INVARIANTS
    BubbleElements
    BubbleStable
    BubblePass
    BubbleSorts
    SelectionElements
    SelectionLoops
    SelectionSorts
    HeapElements
    HeapKept
    HeapSorts
PROPERTIES
    BubbleTerminates
    SelectionTerminates
    HeapTerminates
CHECK_DEADLOCK FALSE
