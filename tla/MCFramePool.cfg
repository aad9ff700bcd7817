\* One block of 4 words x 2 bits, 7 frames: the last word is partial, so the
\* word scan's upper bound (upper / WordBits) is exercised.
CONSTANTS
    WordBits = 2
    Words = 4
    Size = 7
SPECIFICATION Spec
INVARIANTS AccountingExact NoDoubleAllocation
PROPERTIES FirstFitRefinement
\* the kernel halts on panic("pool allocator full")
CHECK_DEADLOCK FALSE
