------------------------------ MODULE MCSignal ------------------------------
(***************************************************************************)
(* signal()/sret() checked against the abstract call stack of CallStack.   *)
(* The callers of task t are read off its images (Callers in Signal).     *)
(***************************************************************************)
EXTENDS Signal

\* Task 1 handles signal 4 and S_IMG (5); task 2 handles signal 4 only.
MCHandlers == {<<1, 4>>, <<1, 5>>, <<2, 4>>}

Abstract == INSTANCE CallStack WITH
    callers <- [t \in Tasks |-> Callers(t)],
    running <- curr,
    live    <- exists,
    halted  <- panic # "none",
    Limit   <- Cap - BaseSlot - 1

\* signal() and sret() implement the LIFO call/return discipline: every
\* call that goes through pushes its caller, every return pops the latest
\* one and goes fatal exactly on an empty chain or a dead caller, and
\* overflow is fatal only at the depth bound.
CallStackRefinement == Abstract!Spec

====
