------------------------------- MODULE Signal -------------------------------
(***************************************************************************)
(* Synchronous signal call and return, src/kernel/task/signal.c.           *)
(*                                                                         *)
(* Each task keeps a stack of saved register images in its state-saving   *)
(* stack.  An image is at slot k when it sits at SSTACK_TOP - k * size;    *)
(* the stack holds slots 1 .. Cap (SSTACK_BSE is slot Cap), and a task's   *)
(* first image is at BaseSlot.  stk[t] lists t's live images from the      *)
(* base up; its last element is t->image.  t->tss_esp is always the slot   *)
(* above t->image, so it is not a separate variable.  Images above the     *)
(* top are dead memory that a push overwrites before reading, so they are  *)
(* not kept.  Of the registers only the error code that ret() writes into  *)
(* eax of the caller's image is kept, as err[t] for t's top image: a push  *)
(* overwrites it with arg0 and a pop resumes an image whose eax holds the  *)
(* interrupted user register, so neither carries a call result.  The      *)
(* arguments, the signal number and the calling pid given to a handler    *)
(* are data no property tells apart.                                       *)
(*                                                                         *)
(* curr is curr_pid, the task whose top image the CPU runs.  Tasks         *)
(* register handlers (signal_table[] in their own space) before the model  *)
(* starts: signal.c only reads that table.  The scheduler switching tasks on the timer is an environment   *)
(* action; killing a task (exit_call) is modelled from the spec.           *)
(***************************************************************************)
EXTENDS Integers, Sequences, FiniteSets

CONSTANTS
    Tasks,      \* pids of the tasks (positive integers)
    Dead,       \* a pid with no task
    Sigs,       \* signal numbers user code sends
    SIMG,       \* S_IMG, the state-stack escalation signal
    Cap,        \* slots of the state-saving stack
    BaseSlot,   \* slot of a task's first image
    Handlers    \* <<t, s>> \in Handlers: signal_table[s] set in t's space

NoTask == 0     \* caller of a task no call is pending on
Flags  == {"NOERR", "EKILL", "BLOCK", "UNBLK", "SUPER"}

ASSUME Tasks \subseteq Nat \ {0} /\ Dead \in Nat \ (Tasks \cup {0})
ASSUME Handlers \subseteq Tasks \X Sigs /\ SIMG \in Sigs /\ BaseSlot \in 2 .. Cap - 2

VARIABLES
    exists,     \* tasks task_get finds
    curr,       \* curr_pid
    stk,        \* stk[t]: t's images, base first, t->image last
    err,        \* err[t]: error code in eax of t->image
    caller,     \* caller[t]: t->caller
    blocked,    \* blocked[t]: TF_BLOCK set in t->flags
    panic       \* "none" or the message the kernel halted with

vars == <<exists, curr, stk, err, caller, blocked, panic>>

Image == [caller : Tasks \cup {NoTask}]
BaseImage == [caller |-> NoTask]

Front(s) == SubSeq(s, 1, Len(s) - 1)
Running  == panic = "none"

Init ==
    /\ exists  = Tasks
    /\ curr    \in Tasks
    /\ stk     = [t \in Tasks |-> <<BaseImage>>]
    /\ err     = [t \in Tasks |-> "none"]
    /\ caller  = [t \in Tasks |-> NoTask]
    /\ blocked = [t \in Tasks |-> FALSE]
    /\ panic   = "none"

(***************************************************************************)
(* signal(targ, sig, ...) issued by the running task.                      *)
(***************************************************************************)
\* No task targ: return the caller's image, with ENOTASK unless TF_NOERR.
SignalNoTask(targ, flags) ==
    /\ Running
    /\ targ \notin exists
    /\ err' = IF "NOERR" \in flags THEN err ELSE [err EXCEPT ![curr] = "ENOTASK"]
    /\ UNCHANGED <<exists, curr, stk, caller, blocked, panic>>

\* No handler: switch back to the caller, with ENOSIG unless TF_NOERR.
SignalNoHandler(targ, sig, flags) ==
    /\ Running
    /\ targ \in exists
    /\ <<targ, sig>> \notin Handlers
    /\ "EKILL" \notin flags
    /\ err' = IF "NOERR" \in flags THEN err ELSE [err EXCEPT ![curr] = "ENOSIG"]
    /\ UNCHANGED <<exists, curr, stk, caller, blocked, panic>>

\* No handler and TF_EKILL: exit_call on the target.
SignalKill(targ, sig, flags) ==
    /\ Running
    /\ targ \in exists
    /\ <<targ, sig>> \notin Handlers
    /\ "EKILL" \in flags
    /\ exists' = exists \ {targ}
    /\ curr' \in {u \in exists' : ~blocked[u]}
    /\ UNCHANGED <<stk, err, caller, blocked, panic>>

\* Variant of the push that does not save t->caller into the old image.
PushedNoSave(t) == Append(stk[t], stk[t][Len(stk[t])])

\* The images after saving the caller and pushing a copy of the top image.
Pushed(t) ==
    LET saved == [stk[t] EXCEPT ![Len(stk[t])].caller = caller[t]]
    IN  Append(saved, saved[Len(saved)])

\* The new image lands in the reserved margin (below SSTACK_BSE + 2 images)
\* and the call is not already the escalation: signal(targ, S_IMG, TF_SUPER).
Escalates(t, flags) == BaseSlot + Len(Pushed(t)) - 1 >= Cap - 1 /\ "SUPER" \notin flags

\* Variant of the bounds check that tests the old image, before the
\* decrement of t->image.
FinalSlotBeforePush(t, flags) ==
    BaseSlot + Len(stk[t]) - 1
      + (IF Escalates(t, flags) /\ <<t, SIMG>> \in Handlers THEN 1 ELSE 0)

\* The slot of t->image after the escalation.  With an S_IMG handler the
\* nested signal pushes once more; without one it returns ENOSIG and
\* pushes nothing.
FinalSlot(t, flags) ==
    BaseSlot + Len(Pushed(t)) - 1
      + (IF Escalates(t, flags) /\ <<t, SIMG>> \in Handlers THEN 1 ELSE 0)

\* The call goes through: block/unblock, chain the caller, push, describe
\* the signal in the new image, and run the target.
SignalCall(targ, sig, flags) ==
    LET src == curr
        blk == IF "BLOCK" \in flags THEN [blocked EXCEPT ![src] = TRUE]
                                    ELSE blocked
    IN
    /\ Running
    /\ targ \in exists
    /\ <<targ, sig>> \in Handlers
    /\ FinalSlot(targ, flags) < Cap
    /\ blocked' = IF "UNBLK" \in flags THEN [blk EXCEPT ![targ] = FALSE] ELSE blk
    /\ stk'     = [stk EXCEPT ![targ] = Pushed(targ)]
    /\ err'     = [err EXCEPT ![targ] = "none"]
    /\ caller'  = [caller EXCEPT ![targ] = src]
    /\ curr'    = targ
    /\ UNCHANGED <<exists, panic>>

\* The push (or the escalation's push) reaches SSTACK_BSE + one image:
\* panic("task state stack overflow").
SignalOverflow(targ, sig, flags) ==
    /\ Running
    /\ targ \in exists
    /\ <<targ, sig>> \in Handlers
    /\ FinalSlot(targ, flags) >= Cap
    /\ panic' = "overflow"
    /\ UNCHANGED <<exists, curr, stk, err, caller, blocked>>

(***************************************************************************)
(* sret(image) by the running task: unblock the recorded caller if the     *)
(* return value has TF_UNBLK, pop the image, restore the previous caller.  *)
(***************************************************************************)
Sret(unblk) ==
    LET t == curr
        c == caller[t]
    IN
    /\ Running
    /\ c \in exists
    /\ Len(stk[t]) > 1
    /\ blocked' = IF unblk THEN [blocked EXCEPT ![c] = FALSE] ELSE blocked
    /\ stk'     = [stk EXCEPT ![t] = Front(@)]
    /\ err'     = [err EXCEPT ![t] = "none"]
    /\ caller'  = [caller EXCEPT ![t] = stk[t][Len(stk[t]) - 1].caller]
    /\ UNCHANGED <<exists, curr, panic>>

\* task_get(t->caller) finds nothing: panic("invalid caller"); or the pop
\* reaches slot 1: panic("task state stack underflow").
SretFatal ==
    /\ Running
    /\ \/ caller[curr] \notin exists
       \/ Len(stk[curr]) = 1
    /\ panic' = IF caller[curr] \notin exists THEN "invalid caller" ELSE "underflow"
    /\ UNCHANGED <<exists, curr, stk, err, caller, blocked>>

\* The timer interrupt hands the CPU to a task that is not blocked.
Schedule ==
    /\ Running
    /\ \E t \in exists : ~blocked[t] /\ curr' = t
    /\ UNCHANGED <<exists, stk, err, caller, blocked, panic>>

\* Each outcome of signal() is enumerated over the flags it reads.
Next ==
    \/ \E targ \in Tasks \cup {Dead} :
          \/ \E flags \in SUBSET {"NOERR"} : SignalNoTask(targ, flags)
          \/ \E sig \in Sigs :
                \/ \E flags \in SUBSET {"NOERR", "EKILL"} :
                      SignalNoHandler(targ, sig, flags) \/ SignalKill(targ, sig, flags)
                \/ \E flags \in SUBSET {"BLOCK", "UNBLK", "SUPER"} :
                      SignalCall(targ, sig, flags) \/ SignalOverflow(targ, sig, flags)
    \/ \E unblk \in BOOLEAN : Sret(unblk)
    \/ SretFatal
    \/ Schedule

Spec == Init /\ [][Next]_vars

\* Every image of every task lies in the state-saving stack, in the slots
\* BaseSlot .. Cap - 1 above SSTACK_BSE, whatever signal() and sret() do.
TypeOK ==
    /\ exists \subseteq Tasks
    /\ curr \in Tasks
    /\ \A t \in Tasks : stk[t] \in Seq(Image) /\ Len(stk[t]) \in 1 .. Cap - BaseSlot
    /\ err \in [Tasks -> {"none", "ENOTASK", "ENOSIG"}]
    /\ caller \in [Tasks -> Tasks \cup {NoTask}]
    /\ blocked \in [Tasks -> BOOLEAN]
    /\ panic \in {"none", "overflow", "invalid caller", "underflow"}

\* The pending callers of t, oldest first: image k + 1 holds, in its
\* caller field, the task that called into image k, and t->caller is the
\* caller of the top image.
Callers(t) ==
    LET d == Len(stk[t]) - 1
    IN  [k \in 1 .. d |-> IF k = d THEN caller[t] ELSE stk[t][k + 1].caller]

====
