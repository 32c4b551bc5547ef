\* Up to three slots and three elements: every front/rear/size combination, with
\* wrap-around and reinitialisation to a smaller or larger capacity.
CONSTANTS
    Element = {a, b, c}
    NULL = NULL
    MaxCapacity = 3
SPECIFICATION Spec
INVARIANTS TypeOK RingShape
PROPERTIES LiveSlotsKept FifoSpec
