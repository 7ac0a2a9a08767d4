-------------------------------- MODULE Tty --------------------------------
(***************************************************************************)
(* The text terminal of kernel/arch/i386/tty.c.                            *)
(*                                                                         *)
(* The file's statics, the text buffer and the hardware cursor are one     *)
(* record; its functions are operators from such a record to the next one. *)
(* The buffer is addressed as the code does, by row * VGA_WIDTH + column.  *)
(* Of the colours nothing is kept.  VGA_CELLS is what boot.S maps of the   *)
(* buffer, one page: an access past it is a page fault, which halts the    *)
(* kernel, and sets fault here.                                            *)
(***************************************************************************)
EXTENDS Integers, Sequences, SequencesExt, FiniteSetsExt

CONSTANTS
  VGA_WIDTH, VGA_HEIGHT, TAB_WIDTH,   \* 80, 25, 8
  VGA_CELLS                           \* 2048, a page of 16-bit cells

ASSUME TtySizes ==
  /\ VGA_WIDTH \in Nat \ {0} /\ VGA_HEIGHT \in Nat \ {0}
  /\ TAB_WIDTH \in Nat \ {0}
  /\ VGA_CELLS \in Nat /\ VGA_WIDTH * VGA_HEIGHT <= VGA_CELLS

Cells == 0 .. VGA_CELLS - 1
Blank == " "

terminal_sync_cursor(t) == [t EXCEPT !.cursor = t.row * VGA_WIDTH + t.column]

(* Mutant: the last row keeps its text.                                    *)
Bug_terminal_scroll(t) ==
  [t EXCEPT
     !.cells = [i \in Cells |-> IF i < (VGA_HEIGHT - 1) * VGA_WIDTH
                                THEN t.cells[i + VGA_WIDTH] ELSE t.cells[i]],
     !.row = IF @ > 0 THEN @ - 1 ELSE @]

terminal_scroll(t) ==
  LET last == (VGA_HEIGHT - 1) * VGA_WIDTH IN
  [t EXCEPT
     !.cells = [i \in Cells |-> CASE i < last -> t.cells[i + VGA_WIDTH]
                                  [] i \in last .. last + VGA_WIDTH - 1 -> Blank
                                  [] OTHER -> t.cells[i]],
     !.row = IF @ > 0 THEN @ - 1 ELSE @]

terminal_newline(t) ==
  LET n == [t EXCEPT !.column = 0, !.row = @ + 1]
  IN  IF n.row >= VGA_HEIGHT THEN terminal_scroll(n) ELSE n

terminal_putentryat(t, c, x, y) ==
  LET index == y * VGA_WIDTH + x
  IN  IF index \in Cells THEN [t EXCEPT !.cells[index] = c]
      ELSE [t EXCEPT !.fault = TRUE]

terminal_backspace(t) ==
  IF t.column = 0 THEN t
  ELSE terminal_putentryat([t EXCEPT !.column = @ - 1], Blank, t.column - 1, t.row)

(* Blanks up to the next tab stop; at a stop, or past the last column, the *)
(* loop does not run at all.                                               *)
terminal_tab(t) ==
  LET tab == ((t.column + TAB_WIDTH - 1) \div TAB_WIDTH) * TAB_WIDTH
      stop == IF t.column >= VGA_WIDTH THEN t.column ELSE Min({tab, VGA_WIDTH})
      at(x) == t.row * VGA_WIDTH + x
  IN  [t EXCEPT !.column = stop,
                !.cells = [i \in Cells |-> IF i \in at(t.column) .. at(stop) - 1
                                           THEN Blank ELSE @[i]]]

(* Mutant: the end of the row is missed.                                   *)
Bug_terminal_printable(t, c) ==
  [terminal_putentryat(t, c, t.column, t.row) EXCEPT !.column = @ + 1]

terminal_printable(t, c) ==
  LET p == [terminal_putentryat(t, c, t.column, t.row) EXCEPT !.column = @ + 1]
  IN  IF p.column = VGA_WIDTH THEN terminal_newline(p) ELSE p

terminal_putchar(t, c) ==
  CASE t.fault -> t
    [] ~t.fault /\ c = "esc" -> t
    [] ~t.fault /\ c # "esc" ->
         terminal_sync_cursor(
           CASE c = "nl"  -> terminal_newline(t)
             [] c = "cr"  -> [t EXCEPT !.column = 0]
             [] c = "bs"  -> terminal_backspace(t)
             [] c = "tab" -> terminal_tab(t)
             [] OTHER     -> terminal_printable(t, c))

(* The terminal after each number of characters of data.                   *)
Written(t, data) ==
  LET w[n \in 0 .. Len(data)] ==
        IF n = 0 THEN t ELSE terminal_putchar(w[n - 1], data[n])
  IN  w

terminal_write(t, data) == Written(t, data)[Len(data)]

terminal_initialize ==
  terminal_sync_cursor([row |-> 0, column |-> 0, cursor |-> 0, fault |-> FALSE,
                        cells |-> [i \in Cells |-> Blank]])
=============================================================================
