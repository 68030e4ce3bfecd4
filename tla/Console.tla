------------------------------- MODULE Console -------------------------------
(***************************************************************************)
(* The text console, kernel/hal/console.cpp.  Its state is one record: the *)
(* cells of the VGA buffer, row by row, and the cursor.  A caller prints   *)
(* several characters in one step of its own, so the functions of the      *)
(* console are operators from a state to a state.  The colour is constant  *)
(* and the hardware cursor follows the variables: both are left out.       *)
(***************************************************************************)
EXTENDS Naturals, Sequences

CONSTANTS VGA_WIDTH, VGA_HEIGHT,  \* 80 and 25 in the code
          Space,                  \* what an empty cell shows
          Newline, Rubout         \* the characters '\n' and '\b'

VgaCells == 0 .. (VGA_WIDTH * VGA_HEIGHT - 1)

State(cells, x, y) == [cells |-> cells, cursor_x |-> x, cursor_y |-> y]

vga_clear == State([i \in VgaCells |-> Space], 0, 0)

Cursor(con) == con.cursor_y * VGA_WIDTH + con.cursor_x

\* The character itself, before the cursor is brought back on the screen.
Struck(con, c) ==
    CASE c = Newline -> State(con.cells, 0, con.cursor_y + 1)
      [] c = Rubout /\ con.cursor_x = 0 -> con
      [] c = Rubout /\ con.cursor_x > 0 ->
            State([con.cells EXCEPT ![Cursor(con) - 1] = Space],
                  con.cursor_x - 1, con.cursor_y)
      [] OTHER ->
            State([con.cells EXCEPT ![Cursor(con)] = c],
                  con.cursor_x + 1, con.cursor_y)

\* Mistakes: the row is left one column late; the last row is never scrolled.
Wrapped_Late(con) ==
    IF con.cursor_x > VGA_WIDTH THEN State(con.cells, 0, con.cursor_y + 1) ELSE con

Wrapped(con) ==
    IF con.cursor_x >= VGA_WIDTH THEN State(con.cells, 0, con.cursor_y + 1) ELSE con

\* Below the last row everything moves up by one.
scroll_if_needed(con) ==
    IF con.cursor_y < VGA_HEIGHT THEN con
    ELSE State([i \in VgaCells |-> IF i + VGA_WIDTH \in VgaCells
                                   THEN con.cells[i + VGA_WIDTH] ELSE Space],
               con.cursor_x, VGA_HEIGHT - 1)

vga_put_char(con, c) == scroll_if_needed(Wrapped(Struck(con, c)))

\* The text character by character.
vga_write(con, text) ==
    LET Written[k \in 0 .. Len(text)] ==
            IF k = 0 THEN con ELSE vga_put_char(Written[k - 1], text[k])
    IN  Written[Len(text)]

\* The row the cursor is in.
CursorRow(con) ==
    [k \in 1 .. VGA_WIDTH |-> con.cells[con.cursor_y * VGA_WIDTH + k - 1]]

\* The cursor is on the screen, so that the next character, wherever it goes,
\* is stored inside the VGA buffer.
OnScreen(con) ==
    /\ DOMAIN con.cells = VgaCells
    /\ con.cursor_x < VGA_WIDTH
    /\ con.cursor_y < VGA_HEIGHT
=============================================================================
