\* Three slots: a task in the middle can free, fill or switch one before and one
\* behind itself. Two functions: one put over another would show.
CONSTANTS
    Function = {f, g}
    NULL = NULL
    NumTasks = 3
SPECIFICATION Spec
INVARIANTS TypeOK PassInv
PROPERTIES NoOverwrite NoStarvation PassEnds
