----------------------------- MODULE FramePool -----------------------------
(***************************************************************************)
(* The physical frame allocator of src/kernel/lib/pool.c.                  *)
(*                                                                         *)
(* The pool is an array of blocks ("pools" in the code).  Each block has   *)
(* Words bitmap words of WordBits bits (32 x 32 = 1024 slots in the code), *)
(* a count of free slots (total), a cached lowest-possibly-free slot       *)
(* (first) and its capacity (upper).  A bitmap word is modelled as the set *)
(* of its bit positions that are set.                                      *)
(*                                                                         *)
(* The callers of frame_new/frame_free are an environment holding a bag   *)
(* of the frames they were given (held); they only free frames they hold. *)
(* A panic ("pool allocator full") halts the kernel: halted.              *)
(***************************************************************************)
EXTENDS Integers, FiniteSets, Bags, FiniteSetsExt

CONSTANTS
    WordBits,   \* bits per bitmap word (32 in the code)
    Words,      \* bitmap words per block (32 in the code)
    Size        \* frames the pool is created for (pool_new's size)

ASSUME WordBits \in Nat \ {0} /\ Words \in Nat \ {0} /\ Size \in Nat \ {0}

VARIABLES
    word,       \* word[p][w]: the set bits of bitmap word w of block p
    first,      \* first[p]: cached lowest-possibly-free slot of block p
    total,      \* total[p]: free slots of block p
    held,       \* bag of frames the callers hold
    halted      \* the kernel panicked

vars == <<word, first, total, held, halted>>

Bits       == 0 .. WordBits - 1
BlockSlots == WordBits * Words           \* 1024 in the code (p << 10)
NPool      == (Size - 1) \div BlockSlots + 1
Blocks     == 0 .. NPool - 1
WordIdx    == 0 .. Words - 1

\* pool[i].upper: the capacity pool_new gives block i
Upper(p) ==
    IF p # NPool - 1 THEN BlockSlots ELSE Size - (NPool - 1) * BlockSlots

(***************************************************************************)
(* pool_new: every block cleared, first = 0, total = upper = capacity.     *)
(***************************************************************************)
Init ==
    /\ word   = [p \in Blocks |-> [w \in WordIdx |-> {}]]
    /\ first  = [p \in Blocks |-> 0]
    /\ total  = [p \in Blocks |-> Upper(p)]
    /\ held   = EmptyBag
    /\ halted = FALSE

(***************************************************************************)
(* pool_alloc, step by step.                                               *)
(***************************************************************************)
\* "for (p = 0; pool[p].total == 0; p++)": blocks past NPool are zeroed
\* (setup != 0x4224), so the loop reaches "full" when no block has room.
FreeBlocks == {p \in Blocks : total[p] # 0}

\* "for (w = first / 32; w < upper / 32; w++) if (word[w] != ~0) break;"
ScanWord(p) ==
    LET lo   == first[p] \div WordBits
        hi   == Upper(p) \div WordBits
        cand == {w \in lo .. hi - 1 : w \in WordIdx /\ word[p][w] # Bits}
    IN  IF cand # {} THEN Min(cand) ELSE Max({lo, hi})

\* The word the bit scan reads.  An index past the bitmap reads whatever
\* memory follows it: any value.
WordRead(p, w) == IF w \in WordIdx THEN {word[p][w]} ELSE SUBSET Bits

\* Variant of the bit scan testing bit b + 1 instead of bit b.
LowestClearOffByOne(v) == Min({b \in 0 .. WordBits : b + 1 \notin v})

\* "for (b = 0; word[w] & (1 << b); b++);" -- WordBits when the word is full
LowestClear(v) == Min({b \in 0 .. WordBits : b \notin v})

\* The (word, bit) pairs pool_alloc can end on in block p.
Outcomes(p) ==
    LET w == ScanWord(p)
    IN  {[w |-> w, b |-> LowestClear(v)] : v \in WordRead(p, w)}

\* pool_alloc returns ((p << 10) | ((w << 5) | b)).
FrameOf(p, w, b) == p * BlockSlots + w * WordBits + b

\* pool_alloc when it finds a free bit: set it, decrement total, advance
\* first only if the slot taken was first; the caller now holds the frame.
PoolAlloc ==
    /\ ~halted
    /\ FreeBlocks # {}
    /\ LET p == Min(FreeBlocks) IN
       \E o \in Outcomes(p) :
          /\ o.b < WordBits
          /\ word'  = IF o.w \in WordIdx
                        THEN [word EXCEPT ![p][o.w] = @ \cup {o.b}]
                        ELSE word
          /\ total' = [total EXCEPT ![p] = @ - 1]
          /\ first' = IF first[p] = o.w * WordBits + o.b
                        THEN [first EXCEPT ![p] = @ + 1]
                        ELSE first
          /\ held'  = held (+) SetToBag({FrameOf(p, o.w, o.b)})
          /\ UNCHANGED halted

\* pool_alloc's "full" label: no block with room, or the scanned word is
\* full; printk + panic("pool allocator full").
PoolAllocFull ==
    /\ ~halted
    /\ \/ FreeBlocks = {}
       \/ /\ FreeBlocks # {}
          /\ WordBits \in {o.b : o \in Outcomes(Min(FreeBlocks))}
    /\ halted' = TRUE
    /\ UNCHANGED <<word, first, total, held>>

(***************************************************************************)
(* pool_free(pos): p = pos >> 10, w = (pos >> 5) % 1024, b = pos % 32;     *)
(* clear the bit, first = min(first, (w << 5) | b), total++.  A word       *)
(* index past the bitmap writes outside it: that write is not modelled.   *)
(***************************************************************************)
\* Variants of pool_free: one keeps a stale first, one leaves the bit set.
PoolFreeStaleFirst ==
    /\ ~halted
    /\ \E pos \in BagToSet(held) :
         LET p == pos \div BlockSlots
             w == (pos \div WordBits) % BlockSlots
             b == pos % WordBits
         IN  /\ word'  = IF w \in WordIdx
                           THEN [word EXCEPT ![p][w] = @ \ {b}]
                           ELSE word
             /\ total' = [total EXCEPT ![p] = @ + 1]
             /\ held'  = held (-) SetToBag({pos})
             /\ UNCHANGED <<first, halted>>

PoolFreeNoClear ==
    /\ ~halted
    /\ \E pos \in BagToSet(held) :
         LET p == pos \div BlockSlots
             w == (pos \div WordBits) % BlockSlots
             b == pos % WordBits
         IN  /\ first' = [first EXCEPT ![p] = Min({@, w * WordBits + b})]
             /\ total' = [total EXCEPT ![p] = @ + 1]
             /\ held'  = held (-) SetToBag({pos})
             /\ UNCHANGED <<word, halted>>

PoolFree ==
    /\ ~halted
    /\ \E pos \in BagToSet(held) :
         LET p == pos \div BlockSlots
             w == (pos \div WordBits) % BlockSlots
             b == pos % WordBits
         IN  /\ word'  = IF w \in WordIdx
                           THEN [word EXCEPT ![p][w] = @ \ {b}]
                           ELSE word
             /\ first' = [first EXCEPT ![p] = Min({@, w * WordBits + b})]
             /\ total' = [total EXCEPT ![p] = @ + 1]
             /\ held'  = held (-) SetToBag({pos})
             /\ UNCHANGED halted

(***************************************************************************)
(* pool_query: sum of (upper - total) over the initialised blocks.         *)
(***************************************************************************)
RECURSIVE QuerySum(_)
QuerySum(ps) ==
    IF ps = {} THEN 0
    ELSE LET p == Min(ps) IN (Upper(p) - total[p]) + QuerySum(ps \ {p})

PoolQuery == QuerySum(Blocks)

Next == PoolAlloc \/ PoolAllocFull \/ PoolFree

Spec == Init /\ [][Next]_vars

(***************************************************************************)
(* Properties                                                              *)
(***************************************************************************)
\* The frames whose bit is set in some bitmap.
UsedFrames ==
    UNION {{FrameOf(p, w, b) : b \in word[p][w]} : p \in Blocks, w \in WordIdx}

\* Accounting: the bitmaps mark exactly the frames the callers hold, and
\* pool_query counts them.  Broken by a pool_alloc/pool_free that updates
\* the bitmap, the free count and the caller's view inconsistently.
AccountingExact ==
    /\ UsedFrames = BagToSet(held)
    /\ PoolQuery = BagCardinality(held)

\* No frame is handed out by pool_alloc while a caller still holds it.
NoDoubleAllocation ==
    \A f \in BagToSet(held) : CopiesIn(f, held) = 1

====
