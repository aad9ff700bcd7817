----------------------------- MODULE CallStack -----------------------------
(***************************************************************************)
(* What the synchronous call/return transport promises (spec 4.4, 7, 8):   *)
(* each task has a LIFO stack of the tasks that called into it.  A call    *)
(* pushes the caller on the target's stack and runs the target; a return   *)
(* by the running task pops its latest caller and resumes its previous     *)
(* context.  A call that would nest deeper than Limit, a return with no    *)
(* pending call, and a return to a caller that no longer exists are fatal. *)
(* Calls that fail with an error code, and scheduling, change no stack.    *)
(***************************************************************************)
EXTENDS Integers, Sequences

CONSTANTS Tasks, Limit

VARIABLES callers, running, live, halted

Call(src, t) ==
    /\ ~halted
    /\ src = running
    /\ t \in live
    /\ Len(callers[t]) + 1 <= Limit
    /\ callers' = [callers EXCEPT ![t] = Append(@, src)]
    /\ running' = t
    /\ UNCHANGED <<live, halted>>

\* Entering the reserved margin may be fatal.
Overflow(t) ==
    /\ ~halted
    /\ t \in live
    /\ Len(callers[t]) + 1 >= Limit
    /\ halted' = TRUE
    /\ UNCHANGED <<callers, running, live>>

Return ==
    /\ ~halted
    /\ callers[running] # <<>>
    /\ callers[running][Len(callers[running])] \in live
    /\ callers' = [callers EXCEPT ![running] = SubSeq(@, 1, Len(@) - 1)]
    /\ UNCHANGED <<running, live, halted>>

ReturnFatal ==
    /\ ~halted
    /\ \/ callers[running] = <<>>
       \/ callers[running][Len(callers[running])] \notin live
    /\ halted' = TRUE
    /\ UNCHANGED <<callers, running, live>>

Kill(t) ==
    /\ ~halted
    /\ t \in live
    /\ live' = live \ {t}
    /\ running' \in live'
    /\ UNCHANGED <<callers, halted>>

Switch ==
    /\ ~halted
    /\ running' \in live
    /\ UNCHANGED <<callers, live, halted>>

Next ==
    \/ \E src, t \in Tasks : Call(src, t)
    \/ \E t \in Tasks : Overflow(t) \/ Kill(t)
    \/ Return \/ ReturnFatal \/ Switch

Init ==
    /\ callers = [t \in Tasks |-> <<>>]
    /\ running \in Tasks
    /\ live = Tasks
    /\ halted = FALSE

Spec == Init /\ [][Next]_<<callers, running, live, halted>>

====
