------------------------------ MODULE Terminal ------------------------------
(***************************************************************************)
(* The text-mode terminal driver, src/driver/terminal.c.                   *)
(*                                                                         *)
(* terminal_write writes a request's bytes with char_write, one after the  *)
(* other, then moves the hardware cursor.  char_write keeps the cursor    *)
(* (a cell index into the WIDTH x HEIGHT screen) and c_base (the cell      *)
(* where the current input line starts, the limit of a backspace) in      *)
(* 16-bit counters, and scrolls the screen up one row when the cursor     *)
(* reaches the end, before and after handling the byte.                   *)
(*                                                                         *)
(* The cell contents (vbuf) are data no property here tells apart; the     *)
(* scrolling that copies them is the subtraction of WIDTH it comes with.  *)
(***************************************************************************)
EXTENDS Integers, Sequences

CONSTANTS
    WIDTH, HEIGHT,  \* 80 and 25 in the code
    TAB,            \* 4 in the code
    Printable,      \* ordinary bytes (the default case), as model values
    MaxReq          \* longest request (r->datasize)

\* The control bytes char_write tells apart.
Controls == {"NUL", "TAB", "LF", "CR", "BS"}
Bytes == Controls \cup Printable

VARIABLES
    cursor,     \* cursor
    c_base,     \* c_base
    buffer      \* buffer: the line base before the last newline

vars == <<cursor, c_base, buffer>>

Screen == WIDTH * HEIGHT

\* Arithmetic assigned to a uint16_t.
U16(n) == n % 65536

\* terminal_init clears the screen; the counters start at 0.
Init == cursor = 0 /\ c_base = 0 /\ buffer = 0

\* The terminal state as a record, to compose the steps of char_write.
State == [cursor |-> cursor, c_base |-> c_base, buffer |-> buffer]

\* "if (cursor >= WIDTH * HEIGHT)": move every row up one and take WIDTH off
\* both counters.
Scroll(st) ==
    IF st.cursor >= Screen
    THEN [st EXCEPT !.cursor = U16(@ - WIDTH), !.c_base = U16(@ - WIDTH)]
    ELSE st

\* The switch on the byte.  A newline starts the next row (the code adds
\* the literal 80, WIDTH in the build).
Put(st, c) ==
    CASE c = "NUL" -> st
      [] c = "TAB" -> [st EXCEPT !.cursor = U16(@ + TAB - (@ % TAB))]
      [] c = "LF"  -> LET row == U16(st.cursor - (st.cursor % WIDTH) + WIDTH)
                      IN [st EXCEPT !.buffer = st.c_base, !.cursor = row, !.c_base = row]
      [] c = "CR"  -> LET row == st.cursor - (st.cursor % WIDTH)
                      IN [st EXCEPT !.cursor = row, !.c_base = row]
      [] c = "BS"  -> IF st.c_base < st.cursor THEN [st EXCEPT !.cursor = @ - 1] ELSE st
      [] OTHER     -> [st EXCEPT !.cursor = U16(@ + 1)]

CharWrite(st, c) == Scroll(Put(Scroll(st), c))

\* The loop of terminal_write over the request's bytes.
RECURSIVE WriteAll(_, _)
WriteAll(st, data) ==
    IF data = <<>> THEN st ELSE WriteAll(CharWrite(st, Head(data)), Tail(data))

\* A valid write request (req_check succeeds): every byte is written.
TerminalWrite(data) ==
    LET st == WriteAll(State, data)
    IN  /\ cursor' = st.cursor
        /\ c_base' = st.c_base
        /\ buffer' = st.buffer

Requests == UNION {[1 .. n -> Bytes] : n \in 1 .. MaxReq}

Next == \E data \in Requests : TerminalWrite(data)

Spec == Init /\ [][Next]_vars

(***************************************************************************)
(* Properties                                                              *)
(***************************************************************************)
\* The current line starts at or before the cursor, so that a backspace
\* erases back to the start of the line and no further: char_write's "\b"
\* case relies on it.  A line longer than the screen is scrolled from under
\* its base, and the 16-bit c_base goes below zero.
LineBaseBehindCursor == c_base <= cursor

====
