--------------------------- MODULE FrameAllocator ---------------------------
(***************************************************************************)
(* What the frame allocator promises (spec section 4.1): a set of          *)
(* allocated frames out of 0 .. Size-1; an allocation takes the lowest     *)
(* free frame (first fit by frame index) and fails fatally when none is    *)
(* free; a free returns an allocated frame.                                *)
(***************************************************************************)
EXTENDS Integers, FiniteSets, FiniteSetsExt

CONSTANT Size

VARIABLES allocated, halted

FreeFrames == (0 .. Size - 1) \ allocated

Alloc ==
    /\ ~halted
    /\ FreeFrames # {}
    /\ allocated' = allocated \cup {Min(FreeFrames)}
    /\ UNCHANGED halted

Exhausted ==
    /\ ~halted
    /\ FreeFrames = {}
    /\ halted' = TRUE
    /\ UNCHANGED allocated

Free ==
    /\ ~halted
    /\ \E f \in allocated : allocated' = allocated \ {f}
    /\ UNCHANGED halted

Init == allocated = {} /\ halted = FALSE

Spec == Init /\ [][Alloc \/ Exhausted \/ Free]_<<allocated, halted>>

====
