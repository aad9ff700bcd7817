CONSTANTS
    Tasks = {1, 2}
    Dead = 3
    Sigs = {4, 5}
    SIMG = 5
    Cap = 5
    BaseSlot = 2
    Handlers <- MCHandlers
SPECIFICATION Spec
INVARIANTS TypeOK
PROPERTIES CallStackRefinement
\* A panic halts the kernel: the halted states have no successor.
CHECK_DEADLOCK FALSE
