------------------------------- MODULE Thread -------------------------------
(***************************************************************************)
(* Threads and asynchronous signals of the flux kernel, src/kernel/thread.c *)
(*                                                                         *)
(* A process has NSlots thread slots (128 in the code); slot i owns the    *)
(* stack segment KSPACE - SEGSZ * 128 + SEGSZ * i, whose top pages are     *)
(* mapped when a thread is bound there.  The 16 stack pages are one frame  *)
(* here: sframe[p][i] is the frame mapped at slot i's stack in p's space.  *)
(* Thread structures are heap blocks; heap_free does not clear a block, so *)
(* a block keeps the stack field it had (tstack) while it is free and a    *)
(* thread_alloc that gets it back sees that value until it is written.    *)
(* Each process has one user page it can grant (upage).                    *)
(*                                                                         *)
(* The scheduler (schedule_insert/remove/next), process creation and      *)
(* syscall_exit are not under src/ and are modelled from the spec.        *)
(* thread_switch's FPU save area (a heap allocation) is not modelled.     *)
(***************************************************************************)
EXTENDS Integers, Sequences, FiniteSets

CONSTANTS
    Procs,      \* process ids 1 .. n; process p starts with thread block p
    Blocks,     \* heap blocks a thread_t can occupy (a superset of Procs)
    NSlots,     \* thread slots per process (128 in the code)
    NFrames,    \* physical frames 0 .. NFrames - 1
    Sigs,       \* signal numbers
    Policy,     \* Policy[p][s]: signal_policy[s] of process p
    Handle,     \* processes with a signal_handle entry point
    MaxMail     \* heap blocks for struct signal_queue entries

None == -1      \* no frame / no stack / no thread / NULL
SlotIdx == 0 .. NSlots - 1
SQ == 1 .. MaxMail

ASSUME Procs \subseteq Blocks /\ Handle \subseteq Procs
ASSUME Policy \in [Procs -> [Sigs -> {"EVENT", "QUEUE", "ABORT"}]]

VARIABLES
    live,       \* heap blocks holding a thread
    tproc,      \* tproc[b]: thread->proc
    tstack,     \* tstack[b]: slot index of thread->stack, None if 0
    tgrant,     \* tgrant[b]: frame granted to the thread, None if 0
    slot,       \* slot[p][i]: proc->thread[i], None if NULL
    sframe,     \* sframe[p][i]: frame mapped at slot i's stack, None if absent
    upage,      \* upage[p]: frame of p's grantable user page
    sq,         \* sq[n]: signal_queue entry n (source, grant, next)
    sqlive,     \* the signal_queue entries heap_alloc has handed out
    mbout,      \* mbout[p][s]: p_targ->mailbox_out[s], the head
    mbin,       \* mbin[p][s]: p_targ->mailbox_in[s], the tail
    sent,       \* history: sent[p][s], the signals queued to p, in order
    sched,      \* runnable threads (the scheduler's run set)
    running,    \* the thread on the CPU
    alive,      \* processes not exited
    allocated,  \* the frame allocator's allocated frames
    halted      \* the kernel panicked (frame exhaustion)

vars == <<live, tproc, tstack, tgrant, slot, sframe, upage, sq, sqlive,
          mbout, mbin, sent, sched, running, alive, allocated, halted>>

mail == <<sq, sqlive, mbout, mbin, sent>>

FA == INSTANCE FrameAllocator WITH Size <- NFrames

\* The frame frame_new returns, and the k-th one of several in a row.
NewFrame(k) == CHOOSE f \in FA!FreeFrames :
                 Cardinality({g \in FA!FreeFrames : g < f}) = k - 1

(***************************************************************************)
(* Boot: process p has thread block p bound to slot 0 with its stack      *)
(* frame, and one user page; the frames are the lowest ones.              *)
(***************************************************************************)
NProcs == Cardinality(Procs)

Init ==
    /\ live    = Procs
    /\ tproc   = [b \in Blocks |-> IF b \in Procs THEN b ELSE None]
    /\ tstack  = [b \in Blocks |-> IF b \in Procs THEN 0 ELSE None]
    /\ tgrant  = [b \in Blocks |-> None]
    /\ slot    = [p \in Procs |-> [i \in SlotIdx |-> IF i = 0 THEN p ELSE None]]
    /\ sframe  = [p \in Procs |-> [i \in SlotIdx |-> IF i = 0 THEN p - 1 ELSE None]]
    /\ upage   = [p \in Procs |-> NProcs + p - 1]
    /\ sq      = [n \in SQ |-> [source |-> None, grant |-> None, next |-> None]]
    /\ sqlive  = {}
    /\ mbout   = [p \in Procs |-> [s \in Sigs |-> None]]
    /\ mbin    = [p \in Procs |-> [s \in Sigs |-> None]]
    /\ sent    = [p \in Procs |-> [s \in Sigs |-> <<>>]]
    /\ sched   = Procs
    /\ running \in Procs
    /\ alive   = Procs
    /\ allocated = 0 .. 2 * NProcs - 1
    /\ halted  = FALSE

(***************************************************************************)
(* thread_fire(image, targ, sig, grant), by the running thread.            *)
(***************************************************************************)
\* The sender process.
Sender == tproc[running]

\* Frames the grant takes: the replacement page of the sender.
GrantNeeds(grant) == IF grant THEN 1 ELSE 0

\* "if (grant)": the sender's page now maps a fresh frame and the old
\* frame travels with the signal.
Granted(grant) == IF grant THEN upage[Sender] ELSE None

\* Variant of the grant that hands the frame on but leaves the sender's
\* mapping in place.
GrantNoReplace(grant) == upage

GrantPages(grant) ==
    IF grant THEN [upage EXCEPT ![Sender] = NewFrame(1)] ELSE upage

\* thread_bind's slot search: the lowest free slot, None when out of threads.
FreeSlot(p) ==
    IF \E i \in SlotIdx : slot[p][i] = None
    THEN CHOOSE i \in SlotIdx : slot[p][i] = None /\ \A j \in 0 .. i - 1 : slot[p][j] # None
    ELSE None

\* thread_alloc: a heap block no thread occupies.
ThreadAlloc == Blocks \ live

\* The rest of thread_bind: the top 16 pages of slot i's segment (one frame
\* here, the k-th frame_new of the fire) are mapped in p's space.
BindStack(p, i, k) == [sframe EXCEPT ![p][i] = NewFrame(k)]

\* Dispatched as EVENT: the policy says so and a handler is registered.
IsEvent(targ, sig) == Policy[targ][sig] = "EVENT" /\ targ \in Handle

\* EVENT: thread_alloc a block, thread_bind it (slot, 16 stack pages) and
\* make it runnable; it is returned and runs next.
FireEvent(targ, sig, grant) ==
    LET i == FreeSlot(targ)
    IN
    /\ ~halted
    /\ targ \in alive
    /\ IsEvent(targ, sig)
    /\ i # None
    /\ Cardinality(FA!FreeFrames) >= GrantNeeds(grant) + 1
    /\ \E b \in ThreadAlloc :
         /\ live'    = live \cup {b}
         /\ tproc'   = [tproc EXCEPT ![b] = targ]
         /\ tstack'  = [tstack EXCEPT ![b] = i]
         /\ tgrant'  = [tgrant EXCEPT ![b] = Granted(grant)]
         /\ slot'    = [slot EXCEPT ![targ][i] = b]
         /\ sframe'  = BindStack(targ, i, GrantNeeds(grant) + 1)
         /\ sched'   = sched \cup {b}
         /\ running' = b
    /\ upage'     = GrantPages(grant)
    /\ allocated' = allocated \cup {NewFrame(k) : k \in 1 .. GrantNeeds(grant) + 1}
    /\ UNCHANGED <<mail, alive, halted>>

\* EVENT with the process out of threads: thread_bind returns 0, which is
\* not checked.  The block keeps the stack field left in it; proc is set
\* by thread_fire itself; the thread is scheduled and runs.
FireEventNoSlot(targ, sig, grant) ==
    /\ ~halted
    /\ targ \in alive
    /\ IsEvent(targ, sig)
    /\ FreeSlot(targ) = None
    /\ Cardinality(FA!FreeFrames) >= GrantNeeds(grant)
    /\ \E b \in ThreadAlloc :
         /\ live'    = live \cup {b}
         /\ tproc'   = [tproc EXCEPT ![b] = targ]
         /\ tgrant'  = [tgrant EXCEPT ![b] = Granted(grant)]
         /\ sched'   = sched \cup {b}
         /\ running' = b
    /\ upage'     = GrantPages(grant)
    /\ allocated' = allocated \cup {NewFrame(k) : k \in 1 .. GrantNeeds(grant)}
    /\ UNCHANGED <<tstack, slot, sframe, mail, alive, halted>>

\* heap_alloc of a signal_queue entry (the heap's choice is not under src/:
\* the lowest free block).
SqAlloc == CHOOSE n \in SQ \ sqlive : \A m \in SQ \ sqlive : n <= m

\* Variant that moves mailbox_in to the new entry before linking through
\* it: the entry links to itself and the old tail's next stays NULL.
EnqueueInFirst(p, s, n, e) ==
    /\ sq'   = IF mbout[p][s] # None THEN [sq EXCEPT ![n] = [e EXCEPT !.next = n]]
                                      ELSE [sq EXCEPT ![n] = e]
    /\ mbin' = [mbin EXCEPT ![p][s] = n]
    /\ mbout' = IF mbout[p][s] # None THEN mbout ELSE [mbout EXCEPT ![p][s] = n]

\* The append of entry n holding e: through the old tail when the queue
\* has a head, as head and tail when it is empty.
Enqueue(p, s, n, e) ==
    IF mbout[p][s] # None
    THEN /\ sq'    = [sq EXCEPT ![n] = e, ![mbin[p][s]].next = n]
         /\ mbin'  = [mbin EXCEPT ![p][s] = n]
         /\ UNCHANGED mbout
    ELSE /\ sq'    = [sq EXCEPT ![n] = e]
         /\ mbout' = [mbout EXCEPT ![p][s] = n]
         /\ mbin'  = [mbin EXCEPT ![p][s] = n]

\* QUEUE, or EVENT without a handler: a signal_queue entry (sig, grant,
\* source, next NULL) is appended at the tail of the mailbox; the sender
\* keeps running.
FireQueue(targ, sig, grant) ==
    LET e == [source |-> Sender, grant |-> Granted(grant), next |-> None]
    IN
    /\ ~halted
    /\ targ \in alive
    /\ Policy[targ][sig] \in {"EVENT", "QUEUE"}
    /\ ~IsEvent(targ, sig)
    /\ sqlive # SQ
    /\ Cardinality(FA!FreeFrames) >= GrantNeeds(grant)
    /\ sqlive' = sqlive \cup {SqAlloc}
    /\ Enqueue(targ, sig, SqAlloc, e)
    /\ sent' = [sent EXCEPT ![targ][sig] = Append(@, [source |-> e.source, grant |-> e.grant])]
    /\ upage'     = GrantPages(grant)
    /\ allocated' = allocated \cup {NewFrame(k) : k \in 1 .. GrantNeeds(grant)}
    /\ UNCHANGED <<live, tproc, tstack, tgrant, slot, sframe, sched,
                   running, alive, halted>>

\* ABORT: return syscall_exit(image), the exit of the sending process: its
\* threads leave the run set and another thread runs.
FireAbort(targ, sig, grant) ==
    LET p == Sender
    IN
    /\ ~halted
    /\ targ \in alive
    /\ Policy[targ][sig] = "ABORT"
    /\ Cardinality(FA!FreeFrames) >= GrantNeeds(grant)
    /\ alive'   = alive \ {p}
    /\ sched'   = {b \in sched : tproc[b] # p}
    /\ running' \in sched'
    /\ upage'     = GrantPages(grant)
    /\ allocated' = allocated \cup {NewFrame(k) : k \in 1 .. GrantNeeds(grant)}
    /\ UNCHANGED <<live, tproc, tstack, tgrant, slot, sframe, mail, halted>>

\* frame_new (for the grant or the stack) finds the pool empty: panic.
FireExhausted(targ, sig, grant) ==
    /\ ~halted
    /\ targ \in alive
    /\ Cardinality(FA!FreeFrames) <
         GrantNeeds(grant) + (IF IsEvent(targ, sig) /\ FreeSlot(targ) # None THEN 1 ELSE 0)
    /\ halted' = TRUE
    /\ UNCHANGED <<live, tproc, tstack, tgrant, slot, sframe, upage, mail,
                   sched, running, alive, allocated>>

(***************************************************************************)
(* thread_drop(image): schedule_remove, thread_switch to schedule_next(),  *)
(* then thread_free of the old thread.                                     *)
(***************************************************************************)
\* thread_free: "proc->thread[i] = NULL" for the slot its stack field names.
FreedSlots(b) ==
    IF tstack[b] = None THEN slot ELSE [slot EXCEPT ![tproc[b]][tstack[b]] = None]

\* thread_free: the present pages of that stack segment are freed and cleared.
FreedFrames(b) ==
    IF tstack[b] = None THEN {}
    ELSE {sframe[tproc[b]][tstack[b]]} \ {None}

ThreadDrop ==
    LET old == running
    IN
    /\ ~halted
    /\ sched \ {old} # {}
    /\ running' \in sched \ {old}
    /\ sched'     = sched \ {old}
    /\ slot'      = FreedSlots(old)
    /\ sframe'    = IF tstack[old] = None THEN sframe
                    ELSE [sframe EXCEPT ![tproc[old]][tstack[old]] = None]
    /\ allocated' = allocated \ FreedFrames(old)
    /\ live'      = live \ {old}
    /\ UNCHANGED <<tproc, tstack, tgrant, upage, mail, alive, halted>>

\* A timer tick: the scheduler switches to another runnable thread.
Preempt ==
    /\ ~halted
    /\ running' \in sched \ {running}
    /\ UNCHANGED <<live, tproc, tstack, tgrant, slot, sframe, upage, mail,
                   sched, alive, allocated, halted>>

Next ==
    \/ \E targ \in Procs, sig \in Sigs, grant \in BOOLEAN :
          \/ FireEvent(targ, sig, grant)
          \/ FireEventNoSlot(targ, sig, grant)
          \/ FireQueue(targ, sig, grant)
          \/ FireAbort(targ, sig, grant)
          \/ FireExhausted(targ, sig, grant)
    \/ ThreadDrop
    \/ Preempt

Spec == Init /\ [][Next]_vars

(***************************************************************************)
(* Properties                                                              *)
(***************************************************************************)
\* The frames something refers to, one entry per reference: the processes'
\* user pages, the mapped thread stacks, the grants held by live threads
\* and by queued signals.
Refs ==
    {[at |-> <<"page", p>>, frame |-> upage[p]] : p \in Procs}
    \cup {[at |-> <<"stack", p, i>>, frame |-> sframe[p][i]] : p \in Procs, i \in SlotIdx}
    \cup {[at |-> <<"thread", b>>, frame |-> tgrant[b]] : b \in live}
    \cup {[at |-> <<"mail", n>>, frame |-> sq[n].grant] : n \in sqlive}

\* Every frame has a single owner (spec section 3): a frame that a user
\* page, a thread stack, a thread's grant or a queued signal refers to is
\* allocated, and no two of them refer to the same frame.  Broken by a
\* grant in thread_fire that hands the frame on without remapping the
\* sender's page, or by thread_bind/thread_free mapping or freeing a frame
\* still in use.
FrameOwnership ==
    \A r \in {x \in Refs : x.frame # None} :
        /\ r.frame \in allocated
        /\ \A r2 \in Refs \ {r} : r2.frame # r.frame

\* A thread's stack field and its process's slot table agree: a live
\* thread with a stack owns that slot, which has its frames mapped, and a
\* filled slot holds a live thread of that process bound there.  The
\* unchecked thread_bind in thread_fire gives a thread, out of slots, the
\* stack field its heap block had before.
ThreadSlotsConsistent ==
    /\ \A b \in live : tstack[b] # None =>
          /\ slot[tproc[b]][tstack[b]] = b
          /\ sframe[tproc[b]][tstack[b]] # None
    /\ \A p \in Procs, i \in SlotIdx : slot[p][i] # None =>
          /\ slot[p][i] \in live
          /\ tproc[slot[p][i]] = p /\ tstack[slot[p][i]] = i

\* The entries reached from n along next, at most k of them (a cycle is
\* cut off after k).
RECURSIVE Walk(_, _)
Walk(n, k) == IF n = None \/ k = 0 THEN <<>> ELSE <<n>> \o Walk(sq[n].next, k - 1)

\* Mailbox FIFO (spec sections 4.5 and 8): the entries a consumer drains
\* from mailbox_out along next are the signals thread_fire queued to that
\* process and signal number, in the order they were fired, each with its
\* true source and grant, and mailbox_in is the last of them.  Broken by an
\* append that moves mailbox_in before linking through it, or that takes
\* a non-empty queue for an empty one.
MailboxFIFO ==
    \A p \in Procs, s \in Sigs :
        LET d == Walk(mbout[p][s], MaxMail + 1)
        IN  /\ [k \in 1 .. Len(d) |-> [source |-> sq[d[k]].source,
                                       grant |-> sq[d[k]].grant]] = sent[p][s]
            /\ mbin[p][s] = IF d = <<>> THEN None ELSE d[Len(d)]

\* No frame leaks (spec section 2, Frame: "at any instant either free or
\* owned by exactly one page-table slot or address-space structure"): every
\* allocated frame is one a user page, a thread stack, a thread's grant or
\* a queued signal refers to.  thread_fire takes the granted frame out of
\* the sender's page before the policy switch, and the ABORT case returns
\* syscall_exit(image) without handing it to anyone.
NoFrameLeak == allocated = {r.frame : r \in Refs} \ {None}

====
