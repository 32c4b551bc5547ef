\* Three priorities: better than, equal to and worse than a stored one.
CONSTANTS
    Element = {a, b}
    Priority = {0, 1, 2}
    NULL = NULL
    MaxCapacity = 3
SPECIFICATION Spec
INVARIANTS TypeOK CallInv
PROPERTIES StoreSpec CallsReturn
