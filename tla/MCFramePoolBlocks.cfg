\* Two full blocks of 2 words x 2 bits.  Every frame of block 1 is freed
\* through pool_free's word index (pos >> 5) % 1024, which lies past the
\* block's bitmap.
CONSTANTS
    WordBits = 2
    Words = 2
    Size = 8
SPECIFICATION Spec
INVARIANT NoDoubleAllocation
CHECK_DEADLOCK FALSE
