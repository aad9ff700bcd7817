------------------------------- MODULE VfsPath -------------------------------
(***************************************************************************)
(* The VFS daemon's request handler, vfs_handle in src/daemon/vfsd/main.c, *)
(* with path_preprocess and libc's strcpy (src/libc/string/strcpy.c).     *)
(*                                                                         *)
(* A query carries a command and a path in q->path0, a byte array.  FIND   *)
(* and ADD first rewrite the path in place with path_preprocess and then   *)
(* look it up in, or add it to, the name store (vfs_get / vfs_add, the     *)
(* trie outside src/, modelled as a set of keys with exact lookup).  Both  *)
(* run under m_vfs, and the packet is private to the request, so one      *)
(* request is one step.                                                    *)
(*                                                                         *)
(* Bytes are "/", "a" (any other character) and "NUL".  Arrays are         *)
(* functions from C indices.  Uninitialised bytes (the stack buffer of     *)
(* path_preprocess, the byte before q->path0, the bytes of q->path0 after  *)
(* the client's terminator) are a nondeterministic choice of byte.         *)
(***************************************************************************)
EXTENDS Integers, Sequences, FiniteSets, SequencesExt

CONSTANTS
    MaxLen,     \* longest path a client sends
    MaxAdds,    \* number of ADD requests explored
    TailBytes   \* what q->path0 may hold after the client's terminator

Bytes == {"/", "a", "NUL"}

\* q->path0: room for the longest path, the one byte longer preprocessed
\* path, and one byte past it.
Cap == MaxLen + 2

VARIABLES
    tree,       \* the keys vfs_add stored under vfs_root
    added,      \* history: the normal forms of the paths clients ADDed
    lastFind    \* history: the last FIND's path, the key vfs_get was given,
                \* whether the path's normal form had been ADDed by then, and
                \* whether vfs_get found it

vars == <<tree, added, lastFind>>

(***************************************************************************)
(* C strings                                                               *)
(***************************************************************************)
\* The length of the C string in array a: the index of its first NUL.  A
\* string that fills the modelled cells ends at the next one.
StrLen(a) ==
    IF \E k \in DOMAIN a : a[k] = "NUL"
    THEN Min({k \in DOMAIN a : a[k] = "NUL"}) ELSE Cap

\* The C string in a, as a sequence.
Str(a) == [k \in 1 .. StrLen(a) |-> a[k - 1]]

\* strcpy: copy s's characters over d; the terminator is not copied.
StrCpy(d, s) == [k \in DOMAIN d |-> IF k < StrLen(s) THEN s[k] ELSE d[k]]

(***************************************************************************)
(* path_preprocess                                                         *)
(***************************************************************************)
\* "for (;path[i] == '/'; i++);"
RECURSIVE SkipSlashes(_, _)
SkipSlashes(path, i) == IF path[i] = "/" THEN SkipSlashes(path, i + 1) ELSE i

\* The copy loop: a slash followed by a slash is skipped, but j advances
\* for every byte, so the skipped cell of the buffer keeps its old byte.
RECURSIVE CopyLoop(_, _, _, _)
CopyLoop(path, i, j, buf) ==
    IF path[i] = "NUL"
    THEN [i |-> i, j |-> j, buf |-> buf]
    ELSE CopyLoop(path, i + 1, j + 1,
                  IF path[i] = "/" /\ path[i + 1] = "/"
                  THEN buf ELSE [buf EXCEPT ![j] = path[i]])

\* The whole function on q->path0.  junk is the buffer's uninitialised
\* contents, before the byte preceding the path (read as path[-1] when the
\* path is empty).  Only cells 1 .. MaxLen can be skipped over and read
\* back; the cells past them are written before they are read.
PathPreprocess(path, junk, before) ==
    LET buffer == [k \in 0 .. Cap |-> IF k = 0 THEN "/"
                                      ELSE IF k <= MaxLen THEN junk[k] ELSE "NUL"]
        r      == CopyLoop(path, SkipSlashes(path, 0), 1, buffer)
        last   == IF r.i = 0 THEN before ELSE path[r.i - 1]
        term   == IF last = "/" THEN [r.buf EXCEPT ![r.j - 1] = "NUL"]
                                ELSE [r.buf EXCEPT ![r.j] = "NUL"]
    IN  StrCpy(path, term)

(***************************************************************************)
(* The reference: what the loops of path_preprocess are written to give.   *)
(* A leading slash, runs of slashes collapsed, no trailing slash except    *)
(* for the root.                                                           *)
(***************************************************************************)
Collapse(acc, c) == IF c = "/" /\ acc # <<>> /\ Last(acc) = "/" THEN acc ELSE Append(acc, c)

Normal(s) ==
    LET t == FoldLeft(Collapse, <<>>, <<"/">> \o s)
    IN  IF Len(t) > 1 /\ Last(t) = "/" THEN Front(t) ELSE t

(***************************************************************************)
(* The handler                                                             *)
(***************************************************************************)
\* The arrays a client can send: a path of at most MaxLen bytes, its
\* terminator, and bytes of TailBytes in the rest of the array.
Queries == {a \in [0 .. Cap - 1 -> Bytes] :
               /\ StrLen(a) <= MaxLen
               /\ \A k \in StrLen(a) + 1 .. Cap - 1 : a[k] \in TailBytes}

Init ==
    /\ tree = {}
    /\ added = {}
    /\ lastFind = [path |-> <<>>, key |-> <<>>, added |-> FALSE, found |-> FALSE]

\* VFS_CMD_FIND: look the preprocessed path up.
VfsFind(path, key) ==
    /\ lastFind' = [path |-> Str(path), key |-> key,
                    added |-> Normal(Str(path)) \in added, found |-> key \in tree]
    /\ UNCHANGED <<tree, added>>

\* VFS_CMD_ADD: store the preprocessed path.
VfsAdd(path, key) ==
    /\ Cardinality(added) < MaxAdds
    /\ tree' = tree \cup {key}
    /\ added' = added \cup {Normal(Str(path))}
    /\ UNCHANGED lastFind

VfsHandle ==
    \E path \in Queries, junk \in [1 .. MaxLen -> Bytes], before \in Bytes :
        LET key == Str(PathPreprocess(path, junk, before))
        IN  VfsFind(path, key) \/ VfsAdd(path, key)

Next == VfsHandle

Spec == Init /\ [][Next]_vars

(***************************************************************************)
(* Properties                                                              *)
(***************************************************************************)
\* A FIND reaches what an ADD stored for the same path, where two paths are
\* the same when they differ only in repeated, leading or trailing slashes:
\* the rewriting path_preprocess does before vfs_get and vfs_add is meant
\* to make them one key.
FindAfterAdd == lastFind.added => lastFind.found

====
