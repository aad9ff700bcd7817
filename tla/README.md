# TLA+ models of the rhombus kernel

This directory holds TLA+ models of the parts of the rhombus sources (`src/`)
that have state the TLC model checker can explore. It also holds the TLC
configurations that check them. `PROJECT.json` records each component and its
status, each run, the mutants that show each property can fail, the map from
every modelled definition to its source lines, the findings, and the hazards.

`src/` mixes two generations of the kernel:

- **khaos:** `kernel/init/`, `kernel/lib/pool.c`, `kernel/src/mem/map.c` and
  `kernel/task/signal.c`.
- **flux:** `kernel/init.c` and `kernel/thread.c`.

The models follow each file as written.

## The system and how its parts interact

| Part | Source | What it does |
|------|--------|--------------|
| Frame pool | `kernel/lib/pool.c` | A bitmap allocator of physical frames. It uses blocks of 32 words of 32 bits, each block with a free count (`total`), a cached lowest-possibly-free slot (`first`) and a capacity (`upper`). `frame_new`/`frame_free` (`mem.h`) call it. |
| Address spaces | `kernel/src/mem/map.c`, `mem.h` | Page directories with one user page table (below `LSPACE`), a linked kernel table, a temporary window (`TMP_MAP`) and a self-map (`PGE_MAP`). Operations: `map_clone`, `map_clean`, `map_free`, `map_load`, `p_alloc`, `p_free`. Every frame comes from, and returns to, the frame pool. |
| Signals | `kernel/task/signal.c` | The synchronous call primitive. `signal()` pushes a register image onto the target task's state stack and runs the handler. `sret()` pops it. The caller chain is kept in `t->caller` and in the images' `caller` fields. |
| Threads | `kernel/thread.c` | flux's asynchronous `thread_fire`: a signal policy per process (event, queue or abort), mailboxes, and thread stacks bound in fixed slots. |
| Terminal | `driver/terminal.c` | A text-mode console driver. `terminal_write` answers a write request by passing each byte to `char_write`, which keeps the cursor and the start of the current line (`c_base`) in 16-bit counters and scrolls the screen. |
| VFS daemon | `daemon/vfsd/main.c`, `libc/string/strcpy.c` | The name service. `vfs_handle` answers FIND and ADD queries. It first rewrites the query's path in place with `path_preprocess`, which adds a leading slash, collapses slash runs, cuts a trailing slash and copies back with `strcpy`. Then it looks the path up in, or adds it to, a trie that is outside `src/`. |
| Others | drivers, libc, fish | User-level programs with no state a property is about. |

## Modules

| Module | Models | State | Actions |
|--------|--------|-------|---------|
| `FrameAllocator` | Abstract first-fit allocator | `allocated`, `halted` | `Alloc` (lowest free frame), `Exhausted`, `Free` |
| `FramePool` | `pool.c` | `word[p][w]` (set bits), `first`, `total`, `held` (bag of frames callers hold), `halted` | `PoolAlloc`, `PoolAllocFull`, `PoolFree`; `PoolQuery` is an operator |
| `MCFramePool` | Refinement of `FramePool` to `FrameAllocator` | none | none |
| `AddressSpace` | `map.c` and `p_alloc`/`p_free` | `mem[f][s]` (entry `s` of frame `f`), `allocated`, `live` roots, `active` (CR3), `halted`, `strayFree` (history) | `MapClone`, `MapCloneExhausted`, `MapClean`, `MapFree`, `MapLoad`, `PAlloc`, `PAllocExhausted`, `PFree` |
| `CallStack` | Abstract call/return (spec §4.4) | per-task stack of callers, `running`, `live`, `halted` | `Call`, `Overflow`, `Return`, `ReturnFatal`, `Kill`, `Switch` |
| `Signal` | `signal.c` | `stk[t]` (images, base first), `err`, `caller`, `blocked`, `exists`, `curr`, `panic` | `SignalNoTask`, `SignalNoHandler`, `SignalKill`, `SignalCall`, `SignalOverflow`, `Sret`, `SretFatal`, `Schedule` |
| `MCSignal` | Refinement of `Signal` to `CallStack` | none | none |
| `Thread` | `thread.c` | `live` thread blocks with `tproc`, `tstack`, `tgrant`; `slot[p][i]`, `sframe[p][i]`, `upage[p]`, the `signal_queue` entries `sq` (`sqlive` handed out), `mbout[p][s]`/`mbin[p][s]` (`mailbox_out`/`mailbox_in`), `sent` (history), `sched`, `running`, `alive`, `allocated`, `halted` | `FireEvent`, `FireEventNoSlot`, `FireQueue`, `FireAbort`, `FireExhausted`, `ThreadDrop`, `Preempt` |
| `MCThread` | Two processes and their policy tables | none | none |
| `Terminal` | `terminal.c` | `cursor`, `c_base`, `buffer` | `TerminalWrite` (a whole request); `CharWrite`, `Scroll` and `Put` are operators |
| `VfsPath` | `vfs_handle`, `path_preprocess`, `strcpy` | `tree` (keys stored), `added` and `lastFind` (history) | `VfsHandle` (one FIND or ADD request), split into `VfsFind` and `VfsAdd` |
| `Ata` | `ata_init` in `driver/ata/main.c` | loop drive `dr`, `pc`, `err`, `flags[d]`, `sectsize[d]`; the device's `kind[d]` and command state `dstate`; `idOk` (history) | `Identify`, `Poll1`, `Classify`, `Poll2`, `ReadIdentify`, and the device's `DeviceReady` |

### FramePool

`FramePool` keeps the code's data layout, with two changes:

- **Scaled-down sizes.** There are `WordBits` bits per word and `Words` words
  per block, against 32 and 32 in the code. `pool_free`'s `% 1024` becomes
  `% BlockSlots`.
- **Abstracted reads and writes outside the bitmap.** A `pool_alloc` word scan
  that runs past the bitmap reads memory that follows it. That word is any
  value (`WordRead`). A `pool_free` write outside the bitmap is not modelled.

`held` models the callers: they free only frames they hold. Each action covers
the whole function:

- `PoolAlloc` is the block loop, the word scan, the bit scan, the mark, the
  decrement and the `first` update, all in one step.
- `PoolAllocFull` is the `full:` label and the panic.

In a single block, the bitmap's set bits are exactly `FrameAllocator`'s
`allocated` set. This refinement (`MCFramePool`) lets `AddressSpace` use the
abstract allocator: `FA == INSTANCE FrameAllocator`.

### AddressSpace

Physical memory is `mem[f][s]`: the entries of every frame read as a directory
or table. A frame has four slots: `USER`, `SHARED`, `TMP` and `SELF`.

- **Boot state.** Frame 0 and the kernel table `KT` are reserved at boot, by
  `init_mem`'s allocation of the low 4 MB. The boot space's root links `KT`
  and maps itself.
- **`MapClone`** is all of `map_clone`. It covers `map_alloc`, the cleared
  root with its self-map, and `map_temp` into the loaded space's `TMP` slot.
  It allocates an *uncleared* table frame and a fresh frame holding a copy for
  each present page. It links `SHARED`. Frames are taken from the allocator in
  the code's order: root, table, then pages.
- **`MapClean`** frees every entry's frame of a present user table, then the
  table, then clears the directory entry.
- **`MapFree`** frees the root. Its callers clean the space first and never
  free the loaded space. The callers are not under `src/`, so the model
  takes this as the action's guard, and no property is stated about it.
- **`PAlloc` and `PFree`** are `p_alloc` and `p_free` in the loaded space.
  `p_alloc` may first create a cleared table. That step is modelled from the
  spec, because `page_set` is not under `src/`.

- **`UserWrite`** is the environment: user code storing into one of its
  mapped pages. It writes a cleared entry or a mapping of a frame in
  `UserFrames`. A freed user page therefore holds arbitrary entries when
  `map_clone` reuses it as an uncleared table.

Permission bits, user data other than frame identity, and the kernel table's
contents are not modelled.

The module has violation runs only. Both bugs (`map_clean`'s stray free and
`map_clone`'s uncleared table) break frame ownership within a few steps of
any run that has user pages. A run without user pages, or with user pages
that are never written, would only show that nothing happens.

### Signal

Slot `k` of the state stack is the image at `SSTACK_TOP - k * sizeof(image_t)`.
`SSTACK_BSE` is slot `Cap`, and a task's first image is at `BaseSlot` (2).
That is where `sret`'s underflow test places it, since task creation is not
under `src/`.

`SignalCall` is the whole successful path of `signal()`:

1. the block and unblock flags;
2. `t->image->caller = t->caller; t->caller = caller`;
3. the copy-down push;
4. the escalation, if any;
5. the switch to the target.

The escalation `signal(targ, S_IMG, …, TF_SUPER)` is folded into the same step
as `FinalSlot`:

- With an S_IMG handler, it pushes once more and always panics (`SignalOverflow`).
  The handler never runs. The spec says the overflow signal handles or grows
  the stack, so this is a divergence; the hazard list records it.
- Without one, it returns `ENOSIG` into the new image. The outer call then
  overwrites that with `arg0`, so it has no effect.

`sret()` does not switch tasks. It pops the running task's image, unblocks the
recorded caller if the return value has `TF_UNBLK`, and restores `t->caller`
from the resumed image. It panics on a dead caller first, then on underflow.

Three things come from outside `src/` and are modelled from the spec:

- `exit_call` (used by `TF_EKILL`);
- the scheduler (`Schedule` picks a task that is not blocked);
- task creation (`Init`).

The handler registers, the arguments, the signal number and the sender's pid
are data no property distinguishes, so they are left out. Only the error code
`ret()` writes is kept, as `err`. Each outcome of `signal()` is enumerated
only over the flags it reads.

`MCSignal` maps the images to `CallStack`:

- `callers[t]` is read off the chain (`Callers`): image `k+1`'s `caller`
  field for `k < d`, and `t->caller` for the top image.
- `Limit` is `Cap - BaseSlot - 1`. Calls that end in an error stutter.

One divergence from spec 4.4 is recorded as a hazard and not checked by any
run. `signal()` ignores the target's `TF_BLOCK`, and `sret()` resumes the same
task's previous image. So the following can happen:

1. Task 2 calls 1 with `TF_BLOCK`.
2. 1 calls 2, a nested call into a blocked caller.
3. The `sret` of that nested handler resumes 2's context from before its call
   to 1, while that call is still pending.

The spec says the caller's execution does not resume until the matching
return. Stating this as an invariant needs a history of blocking calls that
the refinement to `CallStack` does not keep.

### Thread

A thread structure is a heap block (`Blocks`). `heap_free` does not clear a
block, so a free block keeps its `stack` field (`tstack`). When
`thread_alloc` returns the block again, the thread sees that value until it
is overwritten. The 16 stack pages of slot `i` are one frame, `sframe[p][i]`.
Each process has one grantable user page, `upage[p]`.

`thread_fire` is one action per outcome:

- `FireEvent`: EVENT with a handler, and `thread_bind` finds the lowest free
  slot. The grant's `frame_new` comes first, then the stack's. The new thread
  is scheduled and runs.
- `FireEventNoSlot`: the same, but the process is out of slots. `bind`'s 0 is
  ignored, so the block keeps its old `stack`, and `proc` is set at line 86.
- `FireQueue`: QUEUE, or EVENT without a handler (the `case` falls through).
  A `signal_queue` entry is allocated and appended as the code does it
  (`Enqueue`). If `mailbox_out` is set, the old tail's `next` is linked to the
  entry and then `mailbox_in` is moved; otherwise the entry becomes both head
  and tail. `sent` records the order of the fires. `MailboxFIFO` (spec §8,
  "Mailbox FIFO") says the list walked from `mailbox_out` is exactly that
  order, with the true sources and grants, and that `mailbox_in` is its last
  entry.
- `FireAbort`: `syscall_exit(image)`. The sender's process exits (modelled
  from the spec, since `syscall_exit` is not under `src/`).
- `FireExhausted`: a `frame_new` finds the pool empty and panics.

A grant replaces the sender's page with a fresh frame and hands the old frame
to the new thread or the mailbox entry.

ABORT exits the sender where spec 4.5 says the target. `syscall_exit` is not
under `src/`, so which process exits is a hazard that no run checks. On the
same path the granted frame is already out of the sender's page and is
handed to no thread and no mailbox entry. `NoFrameLeak` (spec §2, "Frame")
says every allocated frame is referenced by a user page, a stack slot, a
thread's grant or a queued signal; the `thread_grant_leak` run finds it
violated by one ABORT with a grant.

`ThreadDrop` is `thread_drop`: remove the thread, switch to another runnable
one, then `thread_free`. That clears the slot its `stack` names and frees that
slot's frames. `Preempt` is a timer-driven `thread_switch`. `thread_drop`
runs with interrupts off, so its three calls are one step.

`thread_fire` copies the new thread's `eflags` from `thread[0]` after
`thread_bind`. When slot 0 was free, that is the new thread itself, with the
recycled block's uninitialised `eflags`. The model reaches this state (a drop
of a process's first thread, then an EVENT), but registers are not modelled,
so it is a hazard without a property.

Not modelled:

- the FPU save area (a heap leak, listed as a hazard);
- the register values;
- mailbox draining (`syscall_mail` is not under `src/`).

### Terminal

`TerminalWrite` is one whole `terminal_write` call on a valid request: the loop
over the bytes (`WriteAll`, recursive) calls `CharWrite` on each. `CharWrite`
is `char_write`: scroll if the cursor is past the screen, handle the byte,
scroll again. `Put` is the `switch`, one case per control byte and the default
for the rest. Every assignment to a `uint16_t` is taken modulo 2^16 (`U16`).

Left out:

- the cell contents (`vbuf`), since no property reads them; scrolling is kept
  as the subtraction of `WIDTH` that comes with the copy;
- the hardware cursor port writes and the reply;
- a request that fails `req_check`, since `req_check` and `tail` are in the
  tail library, outside `src/`.
- two requests handled at once. `char_write` updates the static counters with
  no lock, so concurrent handlers would race. Whether the handler layer runs
  them concurrently is decided outside `src/`; the hazard list records it.

### VfsPath

`VfsHandle` is one whole `vfs_handle` call for a FIND or an ADD query.
`PathPreprocess` follows the function line by line over byte arrays indexed
from 0:

- `SkipSlashes` is the leading-slash loop;
- `CopyLoop` is the copy loop, where `j` advances even for a skipped slash;
- the cut is at `j - 1` or at `j`, depending on `path[i-1]`;
- `StrCpy` is libc's `strcpy`, which copies no terminator.

Bytes are `"/"`, `"a"` (any other character) and `"NUL"`. Every byte the code
reads without writing it first is a nondeterministic choice:

- the stack buffer's cells that the copy loop skips;
- the byte before `q->path0`, read for an empty path;
- the bytes after the client's terminator, which are drawn from `TailBytes`.

The trie (`vfs_get`, `vfs_add`) is outside `src/`. It is modelled as exact
lookup in a set of keys. `Normal` is the reference: a leading slash, single
slashes and no trailing slash, which is what the three loops are written to
produce. `FindAfterAdd` says a FIND of a path finds what an ADD of a path with
the same normal form stored. Both handler branches run under `m_vfs` on a
packet private to the request, so a request is one step. The NULL-packet
error reply and the reply `send` change nothing in the daemon.

### Ata

`ata_init` probes the drives in order. `Identify` covers select, the
IDENTIFY command and the first status read; a status of 0 means no drive.
Then come the loop that waits for BSY to clear (`Poll1`), the signature
classification of an aborted command (`Classify`), the loop that waits for
DRQ (`Poll2`) and the 256-word read (`ReadIdentify`).

Each polling loop is one action. Its guard is the loop's exit condition, so
a device that stays busy makes the model stutter, as the code spins.

The drives are the environment. Each is absent, a floating bus (reads all
ones), an ATA disk, an ATAPI device, a SATA device, or a device that aborts
IDENTIFY without a signature. A busy device eventually offers data
(`DeviceReady`). Data read while no data is offered is any value, so
`ID_TYPE` may or may not be zero.

## Runs

| Run | Config | Expect | What it shows |
|-----|--------|--------|---------------|
| `frame_pool_single_block` | `MCFramePool.cfg` | pass | In one block of 4×2 slots with 7 frames, `AccountingExact`, `NoDoubleAllocation` and `FirstFitRefinement` hold. Every allocation is the lowest free frame, despite the lagging `first` cache. |
| `frame_pool_two_blocks` | `MCFramePoolBlocks.cfg` | violation | Two blocks of 2×2. Freeing frame 4 (block 1) clears no bit. The next allocations return frame 8 (past memory) and then a held frame. |
| `map_clean_stray_free` | `MCAddressSpaceClean.cfg` | violation | Clone, `p_alloc`, then `map_clean` frees frame 0 (`FreeOnlyOwned`). |
| `map_clone_stale_table` | `MCAddressSpaceReuse.cfg` | violation | A freed root is reused as a child's user table. The child then maps `KT` and the old root as user pages (`CloneMirrorsParent`). |
| `signal_call_stack` | `MCSignal.cfg` | pass | 2 tasks, signals {4, 5=S_IMG}, `Cap` 5. Images stay in the stack (`TypeOK`), and `signal`/`sret` refine `CallStack` (`CallStackRefinement`). |
| `vfs_path_lookup` | `MCVfsPath.cfg` | violation | Clients zero their packets and send paths of up to 3 bytes. ADD `"/"` stores `"/"`, but FIND `"//"` asks for `"//"`: the trailing-slash cut blanks the buffer and `strcpy` copies nothing back (`FindAfterAdd`). |
| `thread_frames` | `MCThread.cfg` | pass | 2 processes, 3 heap blocks, 1 slot each, 5 frames, 2 `signal_queue` entries. Through event threads, out-of-slot threads, queued grants, ABORT exits, drops and exhaustion, no frame has two owners and every referenced frame is allocated (`FrameOwnership`), and each mailbox list drains in the order its signals were fired (`MailboxFIFO`). |
| `thread_stale_stack` | `MCThreadThreadSlotsConsistent.cfg` | violation | Process 2's boot thread is dropped. An EVENT into full process 1 reuses that block, whose stale `stack` names process 1's slot 0, which is held by its boot thread (`ThreadSlotsConsistent`). |
| `thread_grant_leak` | `MCThreadNoFrameLeak.cfg` | violation | One ABORT fire with a grant: the sender's page is remapped to a fresh frame, and the old frame is still allocated but referenced by nothing (`NoFrameLeak`). |
| `terminal_line_base` | `MCTerminal.cfg` | violation | On a 4×2 screen, 8 printable bytes with no newline make the line longer than the screen. The scroll takes 4 from `c_base` = 0, so it wraps to 65532 and backspace stops moving the cursor (`LineBaseBehindCursor`). |
| `ata_identify_error` | `MCAta.cfg` | violation | Drive 0 is SATA. Its IDENTIFY is aborted with the SATA signature, and the DRQ wait ends in ERR. The data port is read anyway and the drive is kept (`PresentDrivesIdentified`). |

Each property of a passing run has a mutant in `PROJECT.json`. A mutant is a
variant operator that models a plausible bug, and TLC finds the property
violated with it:

| Property | Mutant |
|----------|--------|
| `AccountingExact` | `pool_free` without the bit clear |
| `NoDoubleAllocation` | Bit scan testing bit `b+1` |
| `FirstFitRefinement` | `pool_free` not lowering `first` |
| `TypeOK` (Signal) | Bounds test on the old image |
| `CallStackRefinement` | Push without saving `t->caller` |
| `FrameOwnership` | Grant that does not remap the sender's page |
| `MailboxFIFO` | Append that moves `mailbox_in` before linking through it (lines 107 and 108 swapped) |

### Bounds and why they are enough

- **FramePool.** 7 frames in words of 2 bits: the last word is partial
  (`upper / 32` truncates). Enough frames to fill a word, free inside it and
  reallocate. The two-block run needs only the second block.
- **AddressSpace.** Both runs are violations. `UserFrames = {0}` lets user
  code write one mapping of frame 0 besides a cleared entry, which is enough
  for the reused table to hold foreign frames.
- **Signal.** `Cap` 5 gives each task two nested calls before the margin.
  Task 1 has an S_IMG handler and task 2 does not, so both escalation outcomes
  occur. A third pid that never exists covers "no such task". Runs take about
  a minute.
- **Terminal.** A 4×2 screen, a tab width of 2 and one printable byte, with
  requests of up to 2 bytes drawn from every control byte and the printable
  one. A line longer than the screen needs only 8 printable bytes. On the
  code's 80×25 screen the same wrap needs 2000 bytes without a newline; the
  arithmetic does not depend on the dimensions.
- **VfsPath.** Paths of up to 3 bytes, with one ADD and any number of FINDs.
  That is enough for `"//"`, `"//a"` (which becomes `"/aa"`) and `"a//b"`'s
  one-byte gap to occur. With `TailBytes = {"NUL"}` the violation needs no
  help from leftover client bytes.
- **Ata.** Two drives with every device kind each. Every branch of the
  classification is reached.
- **Thread.** One slot per process makes every EVENT into a process with a
  live thread an out-of-slots fire, and three heap blocks allow one reused
  block. Five frames (four at boot) allow one grant or one stack, and then
  exhaustion; an EVENT with a grant always exhausts. Two signals give each
  policy outcome. Two `signal_queue` entries, shared by all mailboxes as the
  kernel heap is, let one mailbox hold two signals, the least for an order.
  The stale-stack run uses the same bounds. About 470,000 states in 40
  seconds.

### Fairness

No liveness property is checked. The kernel's progress depends on the
scheduler (not under `src/`) and on user handlers returning. Nothing in
`src/` guarantees either, so any fairness assumption would be invented.
`thread_init` programs the timer at 256 Hz, which would justify weak fairness
of `Preempt`. But that only means some switch happens. Which thread runs is
`schedule_next`'s choice, and no thread-level property follows from it
without a scheduling policy. The waits that could hang (a blocked caller,
`signal.c:34`; the ATA polls, `ata/main.c:113`) end or not depending on user
handlers and devices. They are listed as hazards.
Deadlock checking is off in every configuration: a panic halts the kernel,
and the model's halted states have no successor.

## What is not modelled, and the plan

Modelled so far: FramePool, AddressSpace, Signal, Thread, Ata's detection
loop, the terminal's write path and the VFS daemon's request handler. The map covers about a third of the lines under `src/`. Most of the
rest is headers, start-up code, printing and port I/O.

Not modelled, and why nothing more of `src/` is modelled faithfully:

- **The ABORT divergence** (`thread.c:118`). Which process `syscall_exit`
  ends is decided outside `src/`. It is recorded as a hazard.
- **The FPU save area** (`thread.c:267`) and the **terminal's concurrent
  writers** (`terminal.c:62`). These are recorded as hazards, each with the
  interleaving that shows it. The first is a heap leak that no run's state
  tells apart. The second needs the handler-thread semantics of the libc
  event layer, which is not under `src/`.
- **Register contents** (`eflags` at `thread.c:84`, the arguments of
  `signal`). They are data that no property here depends on.
- **Everything else under `src/`.** It is listed below: code with no state a
  model checker could explore, or state owned by code outside `src/`.

Out of scope:

- `strcmp`: nothing under `src/` calls it, so no property of a caller depends
  on its order of signed `char`s.
- `init.c`/`init/main.c`: call sequences and printing.
- The ATA driver's register values, sizes, model string and printing.
- `dl_load` (its unchecked `p_memsz - p_filesz` is in the hazard list), `fb_getmode`, libc start-up and driver glue: parsing and message
  formatting.
- `fish`: an interactive loop.
- The headers: declarations and macros. The two definitions of `RP_CONS`/`RP_INDEX`/`RP_PID` disagree on the layout of a resource pointer, which the hazard list records.
- `page.c`, the scheduler, task creation, `exit_call`, `syscall_exit` and
  `process_get`: not under `src/`.
