---------------------------- MODULE AddressSpace ----------------------------
(***************************************************************************)
(* The address-space manager of src/kernel/src/mem/map.c on top of the     *)
(* first-fit frame allocator (FrameAllocator, which FramePool refines).    *)
(*                                                                         *)
(* Physical memory is mem[f][s]: entry s of frame f read as a page         *)
(* directory or page table.  An entry is [p |-> present, f |-> frame];     *)
(* a cleared entry is Zero (page_ufmt(0) = frame 0).  A directory has one  *)
(* user slot (USER, below LSPACE), the linked kernel/library slot          *)
(* (SHARED), the temporary-window slot (TMP, TMP_MAP >> 22) and the        *)
(* self-map slot (SELF, PGE_MAP >> 22).  Page tables use the same slot     *)
(* numbers; user pages live in the slots UserPages of the user table.      *)
(*                                                                         *)
(* A space is named by its root frame.  Frame 0 (low memory) and the       *)
(* kernel table KT are allocated at boot (init_mem) and never owned by a   *)
(* space.  Permission bits are not modelled, nor are user data: a data     *)
(* page keeps the content its frame had.                                   *)
(***************************************************************************)
EXTENDS Integers, FiniteSets, SequencesExt, FiniteSetsExt

CONSTANTS
    NFrames,     \* physical frames 0 .. NFrames-1
    UserPages,   \* table slots user code maps pages at
    MaxSpaces,   \* bound on live address spaces (fork depth of the workload)
    Teardown,    \* whether processes exit (map_clean / map_free are called)
    UserFrames   \* frame numbers of the present words user code stores

USER == 0  SHARED == 1  TMP == 2  SELF == 3
Slots  == 0 .. 3
Frames == 0 .. NFrames - 1
KT     == 1          \* the kernel page table linked into every space
BootRoot == 2        \* the boot address space's root
Reserved == {0, KT}  \* frames init_mem hands to the kernel itself

ASSUME UserPages \subseteq Slots /\ MaxSpaces \in Nat /\ Teardown \in BOOLEAN
ASSUME UserFrames \subseteq 0 .. NFrames - 1
ASSUME NFrames > BootRoot

VARIABLES
    mem,         \* mem[f][s]: entry s of frame f
    allocated,   \* the frame allocator's allocated frames
    halted,      \* the kernel panicked (frame exhaustion)
    live,        \* roots of the existing address spaces
    active,      \* the root loaded in CR3
    strayFree    \* frames map_clean freed that the cleaned space did not own

vars == <<mem, allocated, halted, live, active, strayFree>>

FA == INSTANCE FrameAllocator WITH Size <- NFrames

Entry == [p : BOOLEAN, f : Frames]
Zero  == [p |-> FALSE, f |-> 0]
Map(f) == [p |-> TRUE, f |-> f]

\* The free frames in the order frame_new hands them out.
FreeInOrder == SetToSortSeq(FA!FreeFrames, <)

\* The user table of space m and its present user pages.
HasTable(m) == mem[m][USER].p
TableOf(m)  == mem[m][USER].f
PresentPages(m) ==
    IF HasTable(m) THEN {j \in Slots : mem[TableOf(m)][j].p} ELSE {}

Init ==
    /\ mem = [f \in Frames |->
                IF f = BootRoot
                THEN [s \in Slots |-> CASE s = SHARED -> Map(KT)
                                        [] s = SELF   -> Map(BootRoot)
                                        [] OTHER      -> Zero]
                ELSE [s \in Slots |-> Zero]]
    /\ allocated = Reserved \cup {BootRoot}
    /\ halted    = FALSE
    /\ live      = {BootRoot}
    /\ active    = BootRoot
    /\ strayFree = {}

(***************************************************************************)
(* map_clone (with map_alloc and map_temp): a fresh cleared root with its  *)
(* self-map, installed in the active space's TMP slot; for the active      *)
(* space's user table a fresh table frame (not cleared), and for each of   *)
(* its present pages a fresh frame holding a copy; the SHARED slot linked. *)
(* Frames are taken in that order: root, table, pages by slot.             *)
(***************************************************************************)
CloneNeeds ==
    IF HasTable(active) THEN 2 + Cardinality(PresentPages(active)) ELSE 1

\* The frame the clone gives to the k-th present page (slots ascending).
ClonePage(j) ==
    LET ps == SetToSortSeq(PresentPages(active), <)
    IN  FreeInOrder[2 + CHOOSE k \in 1 .. Len(ps) : ps[k] = j]

CloneMem ==
    LET r     == FreeInOrder[1]
        t     == FreeInOrder[2]
        src   == active
        pages == PresentPages(src)
        new   == {ClonePage(j) : j \in pages}
    IN  [f \in Frames |->
          CASE f = r ->
                 [s \in Slots |-> CASE s = SELF -> Map(r)
                                  [] s = SHARED /\ mem[src][SHARED].p
                                                -> mem[src][SHARED]
                                  [] s = USER /\ HasTable(src) -> Map(t)
                                  [] OTHER -> Zero]
            [] HasTable(src) /\ f = t ->
                 [s \in Slots |-> IF s \in pages THEN Map(ClonePage(s))
                                                 ELSE mem[t][s]]
            [] f \in new ->
                 mem[mem[TableOf(src)][CHOOSE j \in pages : ClonePage(j) = f].f]
            [] f = src -> [mem[src] EXCEPT ![TMP] = Map(r)]
            [] OTHER -> mem[f]]

MapClone ==
    /\ ~halted
    /\ Cardinality(live) < MaxSpaces
    /\ Len(FreeInOrder) >= CloneNeeds
    /\ mem'       = CloneMem
    /\ allocated' = allocated \cup {FreeInOrder[k] : k \in 1 .. CloneNeeds}
    /\ live'      = live \cup {FreeInOrder[1]}
    /\ UNCHANGED <<halted, active, strayFree>>

\* map_clone's frame_new finds the pool empty: panic.
MapCloneExhausted ==
    /\ ~halted
    /\ Cardinality(live) < MaxSpaces
    /\ Len(FreeInOrder) < CloneNeeds
    /\ halted' = TRUE
    /\ UNCHANGED <<mem, allocated, live, active, strayFree>>

(***************************************************************************)
(* map_clean(m): map_temp(m); for the present user table, frame_free every *)
(* one of its entries (present or not) and clear it, then free the table   *)
(* and clear the directory entry.                                          *)
(***************************************************************************)
OwnedBy(m) ==
    {m} \cup (IF HasTable(m)
              THEN {TableOf(m)} \cup {mem[TableOf(m)][j].f : j \in PresentPages(m)}
              ELSE {})

MapClean(m) ==
    LET T     == TableOf(m)
        freed == IF HasTable(m) THEN {mem[T][j].f : j \in Slots} \cup {T} ELSE {}
        temp  == [mem EXCEPT ![active][TMP] = Map(m)]
    IN
    /\ Teardown
    /\ ~halted
    /\ m \in live
    /\ mem' = IF HasTable(m)
                THEN [temp EXCEPT ![T] = [s \in Slots |-> Zero],
                                  ![m][USER] = Zero]
                ELSE temp
    /\ allocated' = allocated \ freed
    /\ strayFree' = strayFree \cup (freed \ OwnedBy(m))
    /\ UNCHANGED <<halted, live, active>>

(***************************************************************************)
(* map_free(m): frame_free of the root.  Its callers clean the space first *)
(* and do not free the loaded space.                                       *)
(***************************************************************************)
MapFree(m) ==
    /\ Teardown
    /\ ~halted
    /\ m \in live \ {active}
    /\ ~HasTable(m)
    /\ allocated' = allocated \ {m}
    /\ live'      = live \ {m}
    /\ UNCHANGED <<mem, halted, active, strayFree>>

\* map_load(m): CR3 := m.
MapLoad(m) ==
    /\ ~halted
    /\ m \in live
    /\ active' = m
    /\ UNCHANGED <<mem, allocated, halted, live, strayFree>>

(***************************************************************************)
(* p_alloc(addr) in the loaded space: frame_new() for the page, then       *)
(* page_set, which creates a cleared user table first if there is none.   *)
(***************************************************************************)
\* Frames p_alloc takes: the page, and a table when there is none.
PAllocNeeds == IF HasTable(active) THEN 1 ELSE 2

PAlloc(j) ==
    LET pg  == FreeInOrder[1]
        tbl == IF HasTable(active) THEN TableOf(active) ELSE FreeInOrder[2]
    IN
    /\ ~halted
    /\ j \in UserPages \ PresentPages(active)
    /\ Len(FreeInOrder) >= PAllocNeeds
    /\ mem' = IF HasTable(active)
                THEN [mem EXCEPT ![tbl][j] = Map(pg)]
                ELSE [mem EXCEPT ![tbl] = [s \in Slots |->
                                             IF s = j THEN Map(pg) ELSE Zero],
                                 ![active][USER] = Map(tbl)]
    /\ allocated' = allocated \cup {pg, tbl}
    /\ UNCHANGED <<halted, live, active, strayFree>>

\* p_alloc's frame_new finds the pool empty: panic.
PAllocExhausted(j) ==
    /\ ~halted
    /\ j \in UserPages \ PresentPages(active)
    /\ Len(FreeInOrder) < PAllocNeeds
    /\ halted' = TRUE
    /\ UNCHANGED <<mem, allocated, live, active, strayFree>>

\* p_free(addr) in the loaded space: frame_free the page's frame, clear it.
PFree(j) ==
    /\ ~halted
    /\ j \in PresentPages(active)
    /\ allocated' = allocated \ {mem[TableOf(active)][j].f}
    /\ mem' = [mem EXCEPT ![TableOf(active)][j] = Zero]
    /\ UNCHANGED <<halted, live, active, strayFree>>

(***************************************************************************)
(* The environment: user code stores a word in one of the loaded space's  *)
(* present pages (they are mapped user, read-write).  A page later read   *)
(* as a page table, when its frame is reused, is read as entries; a word  *)
(* is an entry by its present bit and frame number.                       *)
(***************************************************************************)
UserWrite(j, s, v) ==
    /\ ~halted
    /\ j \in PresentPages(active)
    /\ mem' = [mem EXCEPT ![mem[TableOf(active)][j].f][s] = v]
    /\ UNCHANGED <<allocated, halted, live, active, strayFree>>

Next ==
    \/ \E j, s \in Slots, v \in {Zero} \cup {Map(f) : f \in UserFrames} :
          UserWrite(j, s, v)
    \/ MapClone
    \/ MapCloneExhausted
    \/ \E m \in Frames : MapClean(m) \/ MapFree(m) \/ MapLoad(m)
    \/ \E j \in Slots : PAlloc(j) \/ PAllocExhausted(j) \/ PFree(j)

Spec == Init /\ [][Next]_vars

(***************************************************************************)
(* Properties                                                              *)
(***************************************************************************)
\* map_clean frees only frames the cleaned space owns.
FreeOnlyOwned == strayFree = {}

\* A clone's user region is the loaded space's, page for page: the child's
\* table maps exactly the parent's present pages, each on a frame the
\* parent does not use, holding the same content.
CloneMirrorsParent ==
    [][\A r \in live' \ live :
         /\ HasTable(r)' = HasTable(active)
         /\ PresentPages(r)' = PresentPages(active)
         /\ \A j \in PresentPages(active) :
               LET c == mem'[TableOf(r)'][j].f
                   p == mem[TableOf(active)][j].f
               IN  c \notin OwnedBy(active) /\ mem'[c] = mem[p]]_vars

====
