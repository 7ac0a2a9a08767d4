---------------------------- MODULE ShellProofs ----------------------------
(***************************************************************************)
(* Theorems about Shell and Tty, for every screen, line length, set of     *)
(* characters and texts: the line executed is the line typed, the cursor   *)
(* stays on the screen, and the screen shows the line.                     *)
(*                                                                         *)
(* terminal_write is a recursion over its text.  What it preserves is      *)
(* proved by induction in the form of NatInductionOnSet, whose parameter   *)
(* is a set.                                                               *)
(***************************************************************************)
EXTENDS Shell, TLAPS, WellFoundedInduction

(***************************************************************************)
(* Induction and arithmetic.                                               *)
(***************************************************************************)
(* A set that holds 0 and the successor of each of its members holds all   *)
(* natural numbers.                                                        *)
LEMMA NatInductionOnSet ==
  ASSUME NEW T, 0 \in T, \A n \in Nat : n \in T => n + 1 \in T
  PROVE  Nat \subseteq T
<1> DEFINE R == {ss \in Nat \X Nat : ss[1] < ss[2]}
           S == Nat \ T
<1>1. IsWellFoundedOn(R, Nat)
  BY NatLessThanWellFounded, Zenon DEF OpToRel
<1> SUFFICES ASSUME S # {} PROVE FALSE
  OBVIOUS
<1>2. PICK x \in S : \A y \in S : ~(<<y, x>> \in R)
  BY <1>1, WFMin
<1>3. \A y \in S : ~(y < x)
  BY <1>2
<1>4. x # 0 /\ x - 1 \in Nat
  OBVIOUS
<1>5. x - 1 \in T
  BY <1>3, <1>4
<1>6. (x - 1) + 1 = x
  OBVIOUS
<1> QED BY <1>4, <1>5, <1>6

(* Written is what its recursion says, for every text.                     *)
LEMMA WrittenRecursion ==
  ASSUME NEW t, NEW C, NEW data \in Seq(C)
  PROVE  LET w == Written(t, data) IN
         /\ w[0] = t
         /\ \A n \in 1 .. Len(data) : w[n] = terminal_putchar(w[n - 1], data[n])
<1> DEFINE N == Len(data)
           G(f, n) == IF n = 0 THEN t ELSE terminal_putchar(f[n - 1], data[n])
           Solves(f, m) == f = [n \in 0 .. m |-> G(f, n)]
           T == {m \in Nat : \E f : Solves(f, m)}
<1>1. N \in Nat
  OBVIOUS
<1>2. 0 \in T
  <2> DEFINE f == [n \in 0 .. 0 |-> t]
  <2>1. [n \in 0 .. 0 |-> G(f, n)] = [n \in 0 .. 0 |-> t]
    <3>1. \A n \in 0 .. 0 : G(f, n) = t
      OBVIOUS
    <3> HIDE DEF G
    <3> QED BY <3>1
  <2> QED BY <2>1
<1>3. ASSUME NEW m \in Nat, m \in T PROVE m + 1 \in T
  <2>1. PICK f : Solves(f, m)
    BY <1>3
  <2> DEFINE g == [n \in 0 .. m + 1 |-> IF n = m + 1 THEN terminal_putchar(f[m], data[m + 1])
                                        ELSE f[n]]
  <2>2. ASSUME NEW n \in 0 .. m + 1 PROVE g[n] = G(g, n)
    <3>1. CASE n = 0
      <4>1. g[0] = f[0] /\ f[0] = t
        BY <2>1
      <4> QED BY <3>1, <4>1
    <3>2. CASE n = m + 1
      <4>1. g[m] = f[m]
        OBVIOUS
      <4>2. g[m + 1] = terminal_putchar(f[m], data[m + 1])
        OBVIOUS
      <4>3. n - 1 = m /\ n # 0
        BY <3>2
      <4> HIDE DEF g
      <4> QED BY <3>2, <4>1, <4>2, <4>3
    <3>3. CASE n # 0 /\ n # m + 1
      <4>1. n \in 0 .. m /\ n - 1 \in 0 .. m
        BY <3>3
      <4>2. g[n] = f[n] /\ g[n - 1] = f[n - 1]
        BY <4>1
      <4>3. f[n] = G(f, n)
        <5> HIDE DEF G
        <5> QED BY <2>1, <4>1
      <4> HIDE DEF g
      <4> QED BY <3>3, <4>2, <4>3
    <3> QED BY <3>1, <3>2, <3>3
  <2>3. Solves(g, m + 1)
    <3>1. g = [n \in 0 .. m + 1 |-> g[n]]
      OBVIOUS
    <3> HIDE DEF g, G
    <3> QED BY <2>2, <3>1
  <2> HIDE DEF g, Solves
  <2>4. \E h : Solves(h, m + 1)
    BY <2>3
  <2> QED BY <2>4
<1>4. N \in T
  <2> HIDE DEF T
  <2> QED BY <1>1, <1>2, <1>3, NatInductionOnSet
<1> DEFINE w == Written(t, data)
<1>5. Solves(w, N)
  <2>1. \E f : Solves(f, N)
    BY <1>4
  <2>2. w = CHOOSE f : Solves(f, N)
    BY DEF Written
  <2> HIDE DEF w, Solves
  <2> QED BY <2>1, <2>2
<1> HIDE DEF w
<1>6. w[0] = t /\ \A n \in 1 .. N : w[n] = terminal_putchar(w[n - 1], data[n])
  BY <1>1, <1>5
<1> QED BY <1>6 DEF w

(* terminal_write stays in a set of terminals that terminal_putchar does   *)
(* not leave.                                                              *)
LEMMA WriteKeeps ==
  ASSUME NEW C, NEW data \in Seq(C), NEW TT, NEW t \in TT,
         \A u \in TT : \A c \in C : terminal_putchar(u, c) \in TT
  PROVE  /\ terminal_write(t, data) \in TT
         /\ \A n \in 0 .. Len(data) : Written(t, data)[n] \in TT
<1> DEFINE w == Written(t, data)
           N == Len(data)
           T == {n \in Nat : n <= N => w[n] \in TT}
<1>1. N \in Nat /\ \A n \in 1 .. N : data[n] \in C
  OBVIOUS
<1>2. w[0] = t /\ \A n \in 1 .. N : w[n] = terminal_putchar(w[n - 1], data[n])
  BY WrittenRecursion
<1> HIDE DEF w, N
<1>3. 0 \in T
  BY <1>2
<1>4. ASSUME NEW n \in Nat, n \in T PROVE n + 1 \in T
  <2> SUFFICES ASSUME n + 1 <= N PROVE w[n + 1] \in TT
    OBVIOUS
  <2>1. n \in Nat /\ n <= N /\ n + 1 \in 1 .. N /\ (n + 1) - 1 = n
    BY <1>1
  <2>2. w[n] \in TT
    BY <1>4, <2>1
  <2> QED BY <1>1, <1>2, <2>1, <2>2
<1>5. Nat \subseteq T
  <2> HIDE DEF T
  <2> QED BY <1>3, <1>4, NatInductionOnSet
<1>6. \A n \in 0 .. N : w[n] \in TT
  BY <1>1, <1>5
<1>7. w[N] \in TT
  BY <1>1, <1>6
<1> QED BY <1>6, <1>7 DEF w, N, terminal_write

(* A prefix of a sequence.                                                 *)
LEMMA Prefix ==
  ASSUME NEW S, NEW s \in Seq(S), NEW n \in Nat, n <= Len(s)
  PROVE  /\ SubSeq(s, 1, n) \in Seq(S) /\ Len(SubSeq(s, 1, n)) = n
         /\ \A i \in 1 .. n : SubSeq(s, 1, n)[i] = s[i]
  OBVIOUS

(* Row q and column r are the quotient and the remainder of their cell.    *)
LEMMA DivUnique ==
  ASSUME NEW q \in Nat, NEW r \in Nat, NEW p \in Nat \ {0}, r < p
  PROVE  (q * p + r) \div p = q /\ (q * p + r) % p = r
<1> DEFINE b == q * p
           x == b + r
<1>1. b \in Nat /\ x \in Nat
  OBVIOUS
<1> DEFINE d == x \div p
<1>2. d \in Nat /\ x = p * d + (x % p) /\ x % p \in 0 .. p - 1
  BY <1>1
<1> HIDE DEF d, x
<1>3. d = q
  <2>1. CASE d <= q - 1
    <3>1. p * d <= p * (q - 1) /\ p * (q - 1) = b - p /\ p * d \in Int
      BY <1>2, <2>1
    <3> QED BY <1>1, <1>2, <3>1 DEF x
  <2>2. CASE d >= q + 1
    <3>1. p * d >= p * (q + 1) /\ p * (q + 1) = b + p /\ p * d \in Int
      BY <1>2, <2>2
    <3> QED BY <1>1, <1>2, <3>1 DEF x
  <2> QED BY <1>2, <2>1, <2>2
<1>4. p * d = b
  BY <1>3
<1>5. x % p = r
  BY <1>1, <1>2, <1>4 DEF x
<1> QED BY <1>3, <1>5 DEF d, x

(* Where the rows of the screen start and where the screen ends.           *)
LEMMA Rows ==
  ASSUME NEW y \in Nat, y < VGA_HEIGHT
  PROVE  LET base == y * VGA_WIDTH
             last == (VGA_HEIGHT - 1) * VGA_WIDTH
             end == VGA_WIDTH * VGA_HEIGHT
         IN  /\ base \in Nat /\ last \in Nat /\ end \in Nat
             /\ (y + 1) * VGA_WIDTH = base + VGA_WIDTH
             /\ last + VGA_WIDTH = end /\ end <= VGA_CELLS
             /\ VGA_WIDTH * (VGA_HEIGHT - 1) = last
             /\ IF y + 1 >= VGA_HEIGHT THEN base = last ELSE base + VGA_WIDTH <= last
<1>1. VGA_WIDTH \in Nat \ {0} /\ VGA_HEIGHT \in Nat \ {0}
      /\ VGA_WIDTH * VGA_HEIGHT <= VGA_CELLS
  BY TtySizes
<1>2. y * VGA_WIDTH \in Nat /\ (VGA_HEIGHT - 1) * VGA_WIDTH \in Nat
      /\ VGA_WIDTH * VGA_HEIGHT \in Nat
  BY <1>1
<1>3. (y + 1) * VGA_WIDTH = y * VGA_WIDTH + VGA_WIDTH
  BY <1>1
<1>4. (VGA_HEIGHT - 1) * VGA_WIDTH + VGA_WIDTH = VGA_WIDTH * VGA_HEIGHT
      /\ VGA_WIDTH * (VGA_HEIGHT - 1) = (VGA_HEIGHT - 1) * VGA_WIDTH
  BY <1>1
<1>5. CASE y + 1 >= VGA_HEIGHT
  <2>1. y = VGA_HEIGHT - 1
    BY <1>1, <1>5
  <2> QED BY <1>1, <1>2, <1>3, <1>4, <1>5, <2>1
<1>6. CASE ~(y + 1 >= VGA_HEIGHT)
  <2>1. y + 1 <= VGA_HEIGHT - 1
    BY <1>1, <1>6
  <2>2. (y + 1) * VGA_WIDTH <= (VGA_HEIGHT - 1) * VGA_WIDTH
    BY <1>1, <2>1
  <2> QED BY <1>1, <1>2, <1>3, <1>4, <1>6, <2>2
<1> QED BY <1>5, <1>6

(***************************************************************************)
(* The terminal.                                                           *)
(***************************************************************************)
Terminals == [row : Nat, column : Nat, cursor : Nat, fault : BOOLEAN,
              cells : [Cells -> Chars]]

(* Every function of tty.c keeps the types of the terminal's statics.      *)
LEMMA ScrollType ==
  ASSUME NEW t \in Terminals
  PROVE  terminal_scroll(t) \in Terminals
<1> DEFINE last == (VGA_HEIGHT - 1) * VGA_WIDTH
           cells == [i \in Cells |-> CASE i < last -> t.cells[i + VGA_WIDTH]
                                       [] i \in last .. last + VGA_WIDTH - 1 -> Blank
                                       [] OTHER -> t.cells[i]]
<1>1. last \in Nat /\ VGA_WIDTH \in Nat /\ last + VGA_WIDTH <= VGA_CELLS /\ VGA_CELLS \in Nat
  BY TtySizes, Rows
<1> HIDE DEF last
<1>2. ASSUME NEW i \in Cells PROVE cells[i] \in Chars
  <2>1. CASE i < last
    <3>1. i + VGA_WIDTH \in Cells
      BY <1>1, <2>1 DEF Cells
    <3> QED BY <1>1, <2>1, <3>1 DEF Terminals, Cells
  <2>2. CASE ~(i < last)
    BY <1>1, <2>2 DEF Terminals, Cells, Chars
  <2> QED BY <2>1, <2>2
<1>3. cells \in [Cells -> Chars]
  <2>1. cells = [i \in Cells |-> cells[i]]
    OBVIOUS
  <2> HIDE DEF cells
  <2> QED BY <1>2, <2>1
<1>4. terminal_scroll(t) = [t EXCEPT !.cells = cells, !.row = IF @ > 0 THEN @ - 1 ELSE @]
  BY DEF terminal_scroll, last
<1> DEFINE row == IF t.row > 0 THEN t.row - 1 ELSE t.row
<1>5. row \in Nat /\ terminal_scroll(t) = [t EXCEPT !.cells = cells, !.row = row]
  <2> HIDE DEF cells
  <2> QED BY <1>4 DEF Terminals
<1> HIDE DEF cells, row
<1> QED BY <1>3, <1>5 DEF Terminals

LEMMA NewlineType ==
  ASSUME NEW t \in Terminals
  PROVE  terminal_newline(t) \in Terminals
<1> DEFINE n == [t EXCEPT !.column = 0, !.row = @ + 1]
<1>1. n \in Terminals
  <2>1. t.row + 1 \in Nat
    BY DEF Terminals
  <2> QED BY <2>1 DEF Terminals
<1> HIDE DEF n
<1> QED BY <1>1, ScrollType DEF terminal_newline, n

LEMMA PutEntryType ==
  ASSUME NEW t \in Terminals, NEW c \in Chars, NEW x, NEW y
  PROVE  terminal_putentryat(t, c, x, y) \in Terminals
<1> DEFINE index == y * VGA_WIDTH + x
<1> HIDE DEF index
<1>1. [t EXCEPT !.fault = TRUE] \in Terminals
  BY DEF Terminals
<1>2. index \in Cells => [t EXCEPT !.cells[index] = c] \in Terminals
  BY DEF Terminals
<1> QED BY <1>1, <1>2 DEF terminal_putentryat, index

LEMMA TabType ==
  ASSUME NEW t \in Terminals
  PROVE  terminal_tab(t) \in Terminals
<1> DEFINE tab == ((t.column + TAB_WIDTH - 1) \div TAB_WIDTH) * TAB_WIDTH
           stop == IF t.column >= VGA_WIDTH THEN t.column ELSE Min({tab, VGA_WIDTH})
           at(x) == t.row * VGA_WIDTH + x
           cells == [i \in Cells |-> IF i \in at(t.column) .. at(stop) - 1
                                     THEN Blank ELSE t.cells[i]]
<1>1. stop \in Nat
  <2>1. t.column \in Nat /\ VGA_WIDTH \in Nat /\ TAB_WIDTH \in Nat \ {0}
    BY TtySizes DEF Terminals
  <2>2. tab \in Nat
    <3> DEFINE a == t.column + TAB_WIDTH - 1
    <3>1. a \in Nat
      BY <2>1
    <3> HIDE DEF a
    <3>2. a \div TAB_WIDTH \in Nat
      BY <2>1, <3>1
    <3> QED BY <2>1, <3>2 DEF a
  <2> HIDE DEF tab
  <2>3. Min({tab, VGA_WIDTH}) \in {tab, VGA_WIDTH}
    <3>1. \E x \in {tab, VGA_WIDTH} : \A y \in {tab, VGA_WIDTH} : x <= y
      BY <2>1, <2>2
    <3> QED BY <3>1 DEF Min
  <2> QED BY <2>1, <2>2, <2>3
<1> HIDE DEF stop
<1>2. cells \in [Cells -> Chars]
  BY DEF Terminals, Chars
<1>3. terminal_tab(t) = [t EXCEPT !.column = stop, !.cells = cells]
  BY DEF terminal_tab, stop, Terminals
<1> HIDE DEF cells
<1> QED BY <1>1, <1>2, <1>3 DEF Terminals

LEMMA PutcharType ==
  ASSUME NEW t \in Terminals, NEW c \in Chars
  PROVE  terminal_putchar(t, c) \in Terminals
<1>1. ASSUME NEW u \in Terminals PROVE terminal_sync_cursor(u) \in Terminals
  <2>1. u.row * VGA_WIDTH + u.column \in Nat
    BY TtySizes DEF Terminals
  <2> QED BY <2>1 DEF Terminals, terminal_sync_cursor
<1>2. terminal_backspace(t) \in Terminals
  <2>1. CASE t.column = 0
    BY <2>1 DEF terminal_backspace
  <2>2. CASE t.column # 0
    <3> DEFINE u == [t EXCEPT !.column = @ - 1]
    <3>1. u \in Terminals
      BY <2>2 DEF Terminals
    <3> HIDE DEF u
    <3>2. Blank \in Chars
      BY DEF Chars
    <3>3. terminal_putentryat(u, Blank, t.column - 1, t.row) \in Terminals
      BY <3>1, <3>2, PutEntryType
    <3> QED BY <2>2, <3>3 DEF terminal_backspace, u
  <2> QED BY <2>1, <2>2
<1>3. terminal_printable(t, c) \in Terminals
  <2> DEFINE e == terminal_putentryat(t, c, t.column, t.row)
             p == [e EXCEPT !.column = @ + 1]
  <2>1. e \in Terminals
    BY PutEntryType
  <2> HIDE DEF e
  <2>2. p \in Terminals
    BY <2>1 DEF Terminals
  <2> HIDE DEF p
  <2> QED BY <2>2, NewlineType DEF terminal_printable, p, e
<1>4. [t EXCEPT !.column = 0] \in Terminals
  BY DEF Terminals
<1> DEFINE s == CASE c = "nl"  -> terminal_newline(t)
                  [] c = "cr"  -> [t EXCEPT !.column = 0]
                  [] c = "bs"  -> terminal_backspace(t)
                  [] c = "tab" -> terminal_tab(t)
                  [] OTHER     -> terminal_printable(t, c)
<1>5. s \in Terminals
  BY <1>2, <1>3, <1>4, NewlineType, TabType
<1> HIDE DEF s
<1>6. terminal_sync_cursor(s) \in Terminals
  BY <1>1, <1>5
<1> QED BY <1>6 DEF terminal_putchar, s, Terminals

(***************************************************************************)
(* Without tabs and carriage returns the cursor stays on the screen, at    *)
(* the row and column of the statics, with nothing written after it.       *)
(***************************************************************************)
ScreenEnd == VGA_WIDTH * VGA_HEIGHT
LastRow == (VGA_HEIGHT - 1) * VGA_WIDTH

AtCursor(t) ==
  /\ t \in Terminals /\ ~t.fault
  /\ t.row < VGA_HEIGHT /\ t.column < VGA_WIDTH
  /\ t.cursor = t.row * VGA_WIDTH + t.column

OnScreen(t) == AtCursor(t) /\ \A i \in t.cursor .. ScreenEnd - 1 : t.cells[i] = Blank

Screens == {t \in Terminals : OnScreen(t)}

(* u shows cells one row further up, with an empty last row.               *)
Scrolled(u, cells) ==
  \A i \in Cells : /\ i < LastRow => u.cells[i] = cells[i + VGA_WIDTH]
                   /\ i \in LastRow .. ScreenEnd - 1 => u.cells[i] = Blank

(* The sizes of the screen.                                                *)
LEMMA ScreenSizes ==
  /\ VGA_WIDTH \in Nat \ {0} /\ VGA_HEIGHT \in Nat \ {0} /\ VGA_CELLS \in Nat
  /\ LastRow \in Nat /\ ScreenEnd \in Nat /\ LastRow + VGA_WIDTH = ScreenEnd
  /\ ScreenEnd <= VGA_CELLS
  /\ VGA_WIDTH * (VGA_HEIGHT - 1) = LastRow
<1>1. 0 \in Nat /\ 0 < VGA_HEIGHT
  BY TtySizes
<1> QED BY <1>1, TtySizes, Rows DEF LastRow, ScreenEnd

(* A new line starts the next row, or scrolls on the last one.             *)
LEMMA NewlineEffect ==
  ASSUME NEW t \in Terminals, t.row < VGA_HEIGHT
  PROVE  LET u == terminal_sync_cursor(terminal_newline(t)) IN
         /\ u \in Terminals /\ u.fault = t.fault /\ u.column = 0 /\ u.row < VGA_HEIGHT
         /\ u.cursor = u.row * VGA_WIDTH + u.column
         /\ \/ u.cursor = t.row * VGA_WIDTH + VGA_WIDTH /\ u.cells = t.cells
               /\ u.cursor <= LastRow
            \/ t.row * VGA_WIDTH = LastRow /\ u.cursor = LastRow /\ Scrolled(u, t.cells)
<1> DEFINE n == [t EXCEPT !.column = 0, !.row = @ + 1]
           v == terminal_newline(t)
           u == terminal_sync_cursor(v)
           base == t.row * VGA_WIDTH
<1>1. /\ t.row \in Nat /\ t.cells \in [Cells -> Chars] /\ t.fault \in BOOLEAN
  BY DEF Terminals
<1>2. /\ n \in Terminals /\ n.row = t.row + 1 /\ n.column = 0 /\ n.fault = t.fault
      /\ n.cells = t.cells
  <2>1. t.row + 1 \in Nat
    BY <1>1
  <2> QED BY <2>1 DEF Terminals
<1>3. /\ base \in Nat /\ (t.row + 1) * VGA_WIDTH = base + VGA_WIDTH
      /\ IF t.row + 1 >= VGA_HEIGHT THEN base = LastRow ELSE base + VGA_WIDTH <= LastRow
  BY <1>1, Rows DEF LastRow
<1>4. v \in Terminals
  BY NewlineType
<1>5. /\ u.row = v.row /\ u.column = v.column /\ u.cells = v.cells /\ u.fault = v.fault
      /\ u.cursor = v.row * VGA_WIDTH + v.column /\ u \in Terminals
  <2>1. v.row * VGA_WIDTH + v.column \in Nat
    BY <1>4, ScreenSizes DEF Terminals
  <2> HIDE DEF v
  <2> QED BY <1>4, <2>1 DEF terminal_sync_cursor, Terminals
<1> HIDE DEF n
<1>6. v = IF n.row >= VGA_HEIGHT THEN terminal_scroll(n) ELSE n
  BY DEF terminal_newline, n
<1> HIDE DEF u, v
<1>7. CASE ~(t.row + 1 >= VGA_HEIGHT)
  <2>1. v = n
    BY <1>2, <1>6, <1>7
  <2>2. u.cursor = base + VGA_WIDTH
    BY <1>2, <1>3, <1>5, <2>1, ScreenSizes
  <2> QED BY <1>1, <1>2, <1>3, <1>5, <1>7, <2>1, <2>2, ScreenSizes DEF u, v
<1>8. CASE t.row + 1 >= VGA_HEIGHT
  <2>1. v = terminal_scroll(n)
    BY <1>2, <1>6, <1>8
  <2> DEFINE cells == [i \in Cells |-> CASE i < LastRow -> n.cells[i + VGA_WIDTH]
                                         [] i \in LastRow .. LastRow + VGA_WIDTH - 1 -> Blank
                                         [] OTHER -> n.cells[i]]
  <2>2. v = [n EXCEPT !.cells = cells, !.row = IF @ > 0 THEN @ - 1 ELSE @]
    BY <2>1 DEF terminal_scroll, LastRow
  <2>3. n.row > 0 /\ n.row - 1 = t.row
    BY <1>1, <1>2
  <2>4. v.row = t.row /\ v.column = 0 /\ v.fault = t.fault /\ v.cells = cells
    <3> HIDE DEF cells
    <3> QED BY <1>2, <2>2, <2>3 DEF Terminals
  <2>5. Scrolled(u, t.cells)
    <3> SUFFICES ASSUME NEW i \in Cells
                 PROVE  /\ i < LastRow => u.cells[i] = t.cells[i + VGA_WIDTH]
                        /\ i \in LastRow .. ScreenEnd - 1 => u.cells[i] = Blank
      BY DEF Scrolled
    <3>1. u.cells[i] = cells[i]
      BY <1>5, <2>4
    <3>2. i \in Nat
      BY ScreenSizes DEF Cells
    <3>3. i < LastRow => cells[i] = t.cells[i + VGA_WIDTH]
      BY <1>2, <3>2, ScreenSizes
    <3>4. i \in LastRow .. ScreenEnd - 1 => cells[i] = Blank
      BY <3>2, ScreenSizes
    <3> QED BY <3>1, <3>3, <3>4
  <2>6. u.cursor = LastRow
    BY <1>3, <1>5, <1>8, <2>4, ScreenSizes
  <2> QED BY <1>3, <1>5, <1>8, <2>4, <2>5, <2>6 DEF u, v
<1> QED BY <1>7, <1>8

(* A character that is no control is written at the cursor, which moves on *)
(* or, at the end of the screen, to the start of the emptied last row.     *)
LEMMA PlainEffect ==
  ASSUME NEW t, AtCursor(t), NEW c \in Chars, c \notin Controls \cup {"tab"}
  PROVE  LET u == terminal_putchar(t, c)
             cells == [t.cells EXCEPT ![t.cursor] = c]
         IN  /\ AtCursor(u)
             /\ \/ u.cursor = t.cursor + 1 /\ u.cells = cells
                \/ t.cursor + 1 = ScreenEnd /\ u.cursor = LastRow /\ Scrolled(u, cells)
<1> DEFINE cells == [t.cells EXCEPT ![t.cursor] = c]
           base == t.row * VGA_WIDTH
           e == terminal_putentryat(t, c, t.column, t.row)
           p == [e EXCEPT !.column = @ + 1]
           u == terminal_putchar(t, c)
<1>1. /\ t \in Terminals /\ t.fault = FALSE /\ t.row \in Nat /\ t.row < VGA_HEIGHT
      /\ t.column \in Nat /\ t.column < VGA_WIDTH /\ t.cursor = base + t.column
      /\ t.cells \in [Cells -> Chars] /\ t.cursor \in Nat
  BY DEF AtCursor, Terminals
<1>2. /\ base \in Nat /\ (t.row + 1) * VGA_WIDTH = base + VGA_WIDTH
      /\ IF t.row + 1 >= VGA_HEIGHT THEN base = LastRow ELSE base + VGA_WIDTH <= LastRow
  BY <1>1, Rows DEF LastRow
<1>3. t.cursor \in Cells
  <2> HIDE DEF base
  <2>1. base + VGA_WIDTH <= ScreenEnd
    BY <1>2, ScreenSizes
  <2>2. /\ VGA_CELLS \in Nat /\ ScreenEnd \in Nat /\ ScreenEnd <= VGA_CELLS
        /\ VGA_WIDTH \in Nat
    BY ScreenSizes
  <2>3. t.cursor \in Nat /\ t.cursor < base + VGA_WIDTH
    BY <1>1, <1>2, <2>2
  <2> QED BY <1>2, <2>1, <2>2, <2>3 DEF Cells
<1>4. e = [t EXCEPT !.cells[t.cursor] = c]
  BY <1>1, <1>3 DEF terminal_putentryat
<1>5. /\ e \in Terminals /\ e.row = t.row /\ e.column = t.column /\ e.fault = FALSE
      /\ e.cells = cells
  BY <1>1, <1>3, <1>4 DEF Terminals
<1> HIDE DEF e
<1>6. /\ p \in Terminals /\ p.row = t.row /\ p.column = t.column + 1 /\ p.fault = FALSE
      /\ p.cells = cells
  <2>1. t.column + 1 \in Nat
    BY <1>1
  <2> QED BY <1>5, <2>1 DEF Terminals
<1> HIDE DEF p
<1>7. u = terminal_sync_cursor(IF p.column = VGA_WIDTH THEN terminal_newline(p) ELSE p)
  <2>1. /\ c # "nl" /\ c # "cr" /\ c # "bs" /\ c # "esc" /\ c # "tab"
    BY DEF Controls
  <2>2. u = terminal_sync_cursor(terminal_printable(t, c))
    BY <1>1, <2>1 DEF terminal_putchar
  <2> QED BY <2>2 DEF terminal_printable, p, e
<1> HIDE DEF u, cells
<1>8. CASE p.column # VGA_WIDTH
  <2>1. u = terminal_sync_cursor(p)
    BY <1>7, <1>8
  <2>2. base + (t.column + 1) \in Nat /\ p.row * VGA_WIDTH = base
    BY <1>1, <1>2, <1>6
  <2>3. p.row * VGA_WIDTH + p.column \in Nat
    BY <1>6, <2>2
  <2>4. /\ u.row = p.row /\ u.column = p.column /\ u.cells = p.cells /\ u.fault = p.fault
        /\ u.cursor = p.row * VGA_WIDTH + p.column /\ u \in Terminals
    BY <1>6, <2>1, <2>3 DEF terminal_sync_cursor, Terminals
  <2>5. t.column + 1 < VGA_WIDTH
    BY <1>1, <1>6, <1>8, ScreenSizes
  <2>6. u.cursor = t.cursor + 1
    <3> HIDE DEF base
    <3> QED BY <1>1, <1>2, <1>6, <2>2, <2>4
  <2> QED BY <1>1, <1>6, <2>4, <2>5, <2>6 DEF AtCursor, u, cells
<1>9. CASE p.column = VGA_WIDTH
  <2>1. u = terminal_sync_cursor(terminal_newline(p))
    BY <1>7, <1>9
  <2>2. /\ u \in Terminals /\ u.fault = p.fault /\ u.column = 0 /\ u.row < VGA_HEIGHT
        /\ u.cursor = u.row * VGA_WIDTH + u.column
        /\ \/ u.cursor = p.row * VGA_WIDTH + VGA_WIDTH /\ u.cells = p.cells
              /\ u.cursor <= LastRow
           \/ p.row * VGA_WIDTH = LastRow /\ u.cursor = LastRow /\ Scrolled(u, p.cells)
    BY <1>1, <1>6, <2>1, NewlineEffect
  <2>3. AtCursor(u)
    BY <1>6, <2>2, ScreenSizes DEF AtCursor
  <2>4. t.cursor + 1 = base + VGA_WIDTH
    <3> HIDE DEF base
    <3> QED BY <1>1, <1>2, <1>6, <1>9
  <2>5. p.row * VGA_WIDTH = base
    BY <1>6
  <2>6. \/ u.cursor = t.cursor + 1 /\ u.cells = cells
        \/ t.cursor + 1 = ScreenEnd /\ u.cursor = LastRow /\ Scrolled(u, cells)
    <3> HIDE DEF base
    <3> QED BY <1>6, <2>2, <2>4, <2>5, ScreenSizes
  <2> QED BY <2>3, <2>6 DEF u, cells
<1> QED BY <1>8, <1>9

(* Backspace inside a row empties the cell before the cursor; in the first *)
(* column it does nothing.                                                 *)
LEMMA BackspaceEffect ==
  ASSUME NEW t, AtCursor(t)
  PROVE  LET u == terminal_putchar(t, "bs") IN
         /\ AtCursor(u)
         /\ t.column = 0 => u.cursor = t.cursor /\ u.cells = t.cells
         /\ t.column # 0 => /\ u.cursor = t.cursor - 1 /\ t.cursor - 1 \in Cells
                            /\ u.cells = [t.cells EXCEPT ![t.cursor - 1] = Blank]
<1> DEFINE base == t.row * VGA_WIDTH
           b == terminal_backspace(t)
           u == terminal_putchar(t, "bs")
<1>1. /\ t \in Terminals /\ t.fault = FALSE /\ t.row \in Nat /\ t.row < VGA_HEIGHT
      /\ t.column \in Nat /\ t.column < VGA_WIDTH /\ t.cursor = base + t.column
      /\ t.cells \in [Cells -> Chars] /\ t.cursor \in Nat
  BY DEF AtCursor, Terminals
<1>2. /\ base \in Nat
      /\ IF t.row + 1 >= VGA_HEIGHT THEN base = LastRow ELSE base + VGA_WIDTH <= LastRow
  BY <1>1, Rows DEF LastRow
<1>3. u = terminal_sync_cursor(b)
  BY <1>1 DEF terminal_putchar
<1>4. CASE t.column = 0
  <2>1. b = t
    BY <1>4 DEF terminal_backspace
  <2>2. u = [t EXCEPT !.cursor = t.row * VGA_WIDTH + t.column]
    BY <1>3, <2>1 DEF terminal_sync_cursor
  <2>3. u.cursor = t.cursor /\ u.cells = t.cells /\ u.row = t.row /\ u.column = t.column
        /\ u.fault = FALSE /\ u \in Terminals
    BY <1>1, <2>2 DEF Terminals
  <2> HIDE DEF u
  <2>4. AtCursor(u)
    BY <1>1, <2>3 DEF AtCursor
  <2> QED BY <1>4, <2>3, <2>4 DEF u
<1>5. CASE t.column # 0
  <2> DEFINE d == [t EXCEPT !.column = @ - 1]
             x == t.column - 1
  <2>1. /\ x \in Nat /\ x < VGA_WIDTH /\ base + x = t.cursor - 1 /\ t.cursor - 1 \in Cells
        /\ base + x \in Nat
    <3>1. /\ VGA_CELLS \in Nat /\ ScreenEnd \in Nat /\ ScreenEnd <= VGA_CELLS
          /\ VGA_WIDTH \in Nat /\ LastRow \in Nat /\ LastRow + VGA_WIDTH = ScreenEnd
      BY ScreenSizes
    <3> HIDE DEF base
    <3>2. base + VGA_WIDTH <= ScreenEnd
      BY <1>2, <3>1
    <3>3. x \in Nat /\ x < VGA_WIDTH /\ base + x = t.cursor - 1 /\ base + x \in Nat
      BY <1>1, <1>2, <1>5, <3>1
    <3>4. base + x < VGA_CELLS
      BY <1>2, <3>1, <3>2, <3>3
    <3> QED BY <3>1, <3>3, <3>4 DEF Cells
  <2>2. d \in Terminals /\ d.row = t.row /\ d.column = x /\ d.cells = t.cells
        /\ d.fault = FALSE
    BY <1>1, <2>1 DEF Terminals
  <2>3. b = terminal_putentryat(d, Blank, x, t.row)
    BY <1>5 DEF terminal_backspace
  <2> HIDE DEF d
  <2>4. b = [d EXCEPT !.cells[t.cursor - 1] = Blank]
    BY <2>1, <2>3 DEF terminal_putentryat
  <2> HIDE DEF b, x
  <2>5. /\ b.row = t.row /\ b.column = x /\ b.fault = FALSE /\ b \in Terminals
        /\ b.cells = [t.cells EXCEPT ![t.cursor - 1] = Blank]
    <3>1. Blank \in Chars
      BY DEF Chars
    <3> QED BY <2>1, <2>2, <2>4, <3>1 DEF Terminals
  <2>6. u = [b EXCEPT !.cursor = b.row * VGA_WIDTH + b.column]
    BY <1>3 DEF terminal_sync_cursor
  <2>7. b.row * VGA_WIDTH + b.column = t.cursor - 1 /\ t.cursor - 1 \in Nat
    BY <2>1, <2>5
  <2>8. /\ u.row = t.row /\ u.column = x /\ u.fault = FALSE /\ u \in Terminals
        /\ u.cursor = t.cursor - 1 /\ u.cells = b.cells
    <3> DEFINE k == b.row * VGA_WIDTH + b.column
    <3> HIDE DEF k, u
    <3> QED BY <2>5, <2>6, <2>7 DEF Terminals, k
  <2> HIDE DEF u
  <2>9. AtCursor(u)
    BY <1>1, <2>1, <2>8 DEF AtCursor
  <2> QED BY <1>5, <2>1, <2>5, <2>8, <2>9 DEF u
<1> QED BY <1>4, <1>5

(* Only tabs and carriage returns can take the cursor off what is written. *)
LEMMA PutcharOnScreen ==
  ASSUME NEW t \in Screens, NEW c \in Chars \ {"tab", "cr"}
  PROVE  terminal_putchar(t, c) \in Screens
<1> DEFINE u == terminal_putchar(t, c)
<1>1. /\ AtCursor(t) /\ t \in Terminals /\ t.cursor \in Nat /\ t.cells \in [Cells -> Chars]
      /\ \A i \in t.cursor .. ScreenEnd - 1 : t.cells[i] = Blank
  BY DEF Screens, OnScreen, AtCursor, Terminals
<1>2. /\ VGA_CELLS \in Nat /\ ScreenEnd \in Nat /\ ScreenEnd <= VGA_CELLS
      /\ VGA_WIDTH \in Nat /\ LastRow \in Nat /\ LastRow + VGA_WIDTH = ScreenEnd
  BY ScreenSizes
<1>3. u \in Terminals
  BY <1>1, PutcharType
<1>4. SUFFICES OnScreen(u)
  BY <1>3 DEF Screens
<1>5. CASE c = "esc"
  BY <1>1, <1>5 DEF terminal_putchar, AtCursor, OnScreen
<1>6. CASE c = "nl"
  <2>1. u = terminal_sync_cursor(terminal_newline(t))
    BY <1>1, <1>6 DEF terminal_putchar, AtCursor
  <2>2. /\ u \in Terminals /\ u.fault = t.fault /\ u.column = 0 /\ u.row < VGA_HEIGHT
        /\ u.cursor = u.row * VGA_WIDTH + u.column
        /\ \/ u.cursor = t.row * VGA_WIDTH + VGA_WIDTH /\ u.cells = t.cells
              /\ u.cursor <= LastRow
           \/ t.row * VGA_WIDTH = LastRow /\ u.cursor = LastRow /\ Scrolled(u, t.cells)
    BY <1>1, <2>1, NewlineEffect DEF AtCursor
  <2> HIDE DEF u
  <2>3. AtCursor(u)
    BY <1>1, <2>2, ScreenSizes DEF AtCursor
  <2>4. \A i \in u.cursor .. ScreenEnd - 1 : u.cells[i] = Blank
    <3>1. CASE u.cursor = t.row * VGA_WIDTH + VGA_WIDTH /\ u.cells = t.cells
      <4> DEFINE base == t.row * VGA_WIDTH
      <4>1. base \in Nat /\ t.column \in Nat /\ t.column < VGA_WIDTH
            /\ t.cursor = base + t.column /\ u.cursor = base + VGA_WIDTH
        BY <1>1, <1>2, <3>1, Rows DEF AtCursor, Terminals
      <4> HIDE DEF base
      <4>2. t.cursor <= u.cursor /\ u.cursor \in Nat
        BY <1>1, <1>2, <4>1
      <4> QED BY <1>1, <1>2, <3>1, <4>2
    <3>2. CASE u.cursor = LastRow /\ Scrolled(u, t.cells)
      <4>1. \A i \in LastRow .. ScreenEnd - 1 : i \in Cells
        BY <1>2 DEF Cells
      <4> QED BY <3>2, <4>1 DEF Scrolled
    <3> QED BY <2>2, <3>1, <3>2
  <2> QED BY <2>3, <2>4 DEF OnScreen
<1>7. CASE c = "bs"
  <2>1. /\ AtCursor(u)
        /\ t.column = 0 => u.cursor = t.cursor /\ u.cells = t.cells
        /\ t.column # 0 => /\ u.cursor = t.cursor - 1 /\ t.cursor - 1 \in Cells
                           /\ u.cells = [t.cells EXCEPT ![t.cursor - 1] = Blank]
    BY <1>1, <1>7, BackspaceEffect
  <2> HIDE DEF u
  <2>2. \A i \in u.cursor .. ScreenEnd - 1 : u.cells[i] = Blank
    <3>1. CASE t.column = 0
      BY <1>1, <2>1, <3>1
    <3>2. CASE t.column # 0
      <4> SUFFICES ASSUME NEW i \in u.cursor .. ScreenEnd - 1 PROVE u.cells[i] = Blank
        OBVIOUS
      <4>1. t.cursor - 1 \in Nat /\ i \in Nat /\ i \in Cells
        BY <1>1, <1>2, <2>1, <3>2 DEF Cells
      <4>2. CASE i = t.cursor - 1
        BY <1>1, <2>1, <3>2, <4>1, <4>2
      <4>3. CASE i # t.cursor - 1
        <5>1. i \in t.cursor .. ScreenEnd - 1
          BY <1>1, <1>2, <2>1, <3>2, <4>1, <4>3
        <5> QED BY <1>1, <2>1, <3>2, <4>1, <4>3, <5>1
      <4> QED BY <4>2, <4>3
    <3> QED BY <3>1, <3>2
  <2> QED BY <2>1, <2>2 DEF OnScreen
<1>8. CASE c \notin {"esc", "nl", "bs"}
  <2> DEFINE cells == [t.cells EXCEPT ![t.cursor] = c]
  <2>1. /\ AtCursor(u)
        /\ \/ u.cursor = t.cursor + 1 /\ u.cells = cells
           \/ t.cursor + 1 = ScreenEnd /\ u.cursor = LastRow /\ Scrolled(u, cells)
    <3>1. c \notin Controls \cup {"tab"}
      BY <1>8 DEF Controls
    <3> QED BY <1>1, <3>1, PlainEffect
  <2> HIDE DEF u
  <2>2. \A i \in u.cursor .. ScreenEnd - 1 : u.cells[i] = Blank
    <3>1. CASE u.cursor = t.cursor + 1 /\ u.cells = cells
      <4> SUFFICES ASSUME NEW i \in u.cursor .. ScreenEnd - 1 PROVE u.cells[i] = Blank
        OBVIOUS
      <4>1. i \in Cells /\ i # t.cursor /\ i \in t.cursor .. ScreenEnd - 1
        BY <1>1, <1>2, <3>1 DEF Cells
      <4> QED BY <1>1, <3>1, <4>1
    <3>2. CASE u.cursor = LastRow /\ Scrolled(u, cells)
      <4>1. \A i \in LastRow .. ScreenEnd - 1 : i \in Cells
        BY <1>2 DEF Cells
      <4> HIDE DEF cells
      <4> QED BY <3>2, <4>1 DEF Scrolled
    <3> QED BY <2>1, <3>1, <3>2
  <2> QED BY <2>1, <2>2 DEF OnScreen
<1> QED BY <1>5, <1>6, <1>7, <1>8

(***************************************************************************)
(* What stands before the cursor.                                          *)
(***************************************************************************)
Shows(t, text) ==
  /\ Len(text) <= t.cursor
  /\ \A i \in 1 .. Len(text) : t.cells[t.cursor - Len(text) + i - 1] = text[i]

(* A character typed stands after the text before it, also when the screen *)
(* scrolls under it.                                                       *)
LEMMA PlainShows ==
  ASSUME NEW t, AtCursor(t), NEW text \in Seq(Chars), Shows(t, text),
         NEW c \in Chars, c \notin Controls \cup {"tab"}, Len(text) + 1 <= LastRow
  PROVE  Shows(terminal_putchar(t, c), Append(text, c))
<1> DEFINE u == terminal_putchar(t, c)
           cells == [t.cells EXCEPT ![t.cursor] = c]
           L == Len(text)
           more == Append(text, c)
           from == t.cursor - L
<1>1. /\ \/ u.cursor = t.cursor + 1 /\ u.cells = cells
         \/ t.cursor + 1 = ScreenEnd /\ u.cursor = LastRow /\ Scrolled(u, cells)
  BY PlainEffect
<1>2. /\ t.cursor \in Nat /\ t.cells \in [Cells -> Chars] /\ t.cursor < ScreenEnd
  <2>1. /\ t.row \in Nat /\ t.column \in Nat /\ t.cursor \in Nat
        /\ t.cells \in [Cells -> Chars] /\ t.row < VGA_HEIGHT
    BY DEF AtCursor, Terminals
  <2> DEFINE base == t.row * VGA_WIDTH
  <2>2. /\ base \in Nat
        /\ IF t.row + 1 >= VGA_HEIGHT THEN base = LastRow ELSE base + VGA_WIDTH <= LastRow
    BY <2>1, Rows DEF LastRow
  <2>3. t.cursor = base + t.column /\ t.column < VGA_WIDTH
    BY DEF AtCursor
  <2>4. LastRow \in Nat /\ LastRow + VGA_WIDTH = ScreenEnd /\ VGA_WIDTH \in Nat
    BY ScreenSizes
  <2> HIDE DEF base
  <2> QED BY <2>1, <2>2, <2>3, <2>4
<1>3. /\ VGA_CELLS \in Nat /\ ScreenEnd \in Nat /\ ScreenEnd <= VGA_CELLS
      /\ VGA_WIDTH \in Nat \ {0} /\ LastRow \in Nat /\ LastRow + VGA_WIDTH = ScreenEnd
  BY ScreenSizes
<1>4. /\ L \in Nat /\ Len(more) = L + 1 /\ more[L + 1] = c
      /\ \A i \in 1 .. L : more[i] = text[i]
  OBVIOUS
<1>5. from \in Nat /\ \A i \in 1 .. L : t.cells[from + i - 1] = text[i]
  <2>1. L <= t.cursor /\ \A i \in 1 .. L : t.cells[t.cursor - L + i - 1] = text[i]
    BY DEF Shows
  <2> HIDE DEF L
  <2> QED BY <1>2, <1>4, <2>1
<1> HIDE DEF L, more, u
<1>6. ASSUME NEW i \in 1 .. L + 1
      PROVE  /\ from + i - 1 \in Cells /\ from + i - 1 <= t.cursor
             /\ cells[from + i - 1] = more[i]
  <2>1. from + i - 1 \in Cells /\ from + i - 1 <= t.cursor
    BY <1>2, <1>3, <1>4, <1>5, SMTT(20) DEF Cells
  <2>2. CASE i = L + 1
    <3>1. from + i - 1 = t.cursor
      BY <1>2, <1>4, <2>2
    <3> HIDE DEF from
    <3> QED BY <1>2, <1>4, <2>1, <2>2, <3>1
  <2>3. CASE i # L + 1
    <3>1. i \in 1 .. L /\ from + i - 1 # t.cursor
      BY <1>2, <1>4, <2>3
    <3> HIDE DEF from
    <3> QED BY <1>2, <1>4, <1>5, <2>1, <3>1
  <2> QED BY <2>1, <2>2, <2>3
<1> HIDE DEF cells
<1>7. CASE u.cursor = t.cursor + 1 /\ u.cells = cells
  <2>1. L + 1 <= u.cursor /\ u.cursor - (L + 1) = from
    <3>1. /\ from \in Nat /\ from + L = t.cursor /\ L \in Nat /\ t.cursor \in Nat
          /\ u.cursor = t.cursor + 1
      BY <1>2, <1>4, <1>5, <1>7
    <3> HIDE DEF from
    <3> QED BY ONLY <3>1
  <2> HIDE DEF from
  <2>2. \A i \in 1 .. L + 1 : u.cells[u.cursor - (L + 1) + i - 1] = more[i]
    BY <1>6, <1>7, <2>1
  <2> QED BY <1>4, <2>1, <2>2 DEF Shows, u, more
<1>8. CASE t.cursor + 1 = ScreenEnd /\ u.cursor = LastRow /\ Scrolled(u, cells)
  <2>1. L + 1 <= u.cursor
    BY <1>8 DEF L
  <2>2. ASSUME NEW i \in 1 .. L + 1
        PROVE  u.cells[u.cursor - (L + 1) + i - 1] = more[i]
    <3> DEFINE j == u.cursor - (L + 1) + i - 1
    <3>1. j \in Nat /\ j < LastRow /\ j + VGA_WIDTH = from + i - 1
      <4>1. /\ from + L = t.cursor /\ L \in Nat /\ t.cursor \in Nat /\ from \in Nat
            /\ t.cursor + 1 = ScreenEnd /\ u.cursor = LastRow /\ L + 1 <= LastRow
            /\ LastRow \in Nat /\ VGA_WIDTH \in Nat /\ LastRow + VGA_WIDTH = ScreenEnd
        BY <1>2, <1>3, <1>4, <1>5, <1>8, <2>1
      <4>2. i \in Int /\ 1 <= i /\ i <= L + 1
        BY <1>4
      <4> HIDE DEF from
      <4> QED BY ONLY <4>1, <4>2
    <3>2. j \in Cells
      BY <1>3, <3>1 DEF Cells
    <3> HIDE DEF j, from
    <3>3. u.cells[j] = cells[j + VGA_WIDTH]
      BY <1>8, <3>1, <3>2 DEF Scrolled
    <3>4. u.cells[j] = more[i]
      BY <1>6, <3>1, <3>3
    <3> QED BY <3>4 DEF j
  <2> QED BY <1>4, <2>1, <2>2 DEF Shows, u, more
<1> QED BY <1>1, <1>7, <1>8 DEF u

(* Erasing inside a row takes away the last character shown.               *)
LEMMA BackspaceShows ==
  ASSUME NEW t, AtCursor(t), NEW text \in Seq(Chars), Shows(t, text), Len(text) # 0,
         t.column # 0
  PROVE  Shows(terminal_putchar(t, "bs"), SubSeq(text, 1, Len(text) - 1))
<1> DEFINE u == terminal_putchar(t, "bs")
           L == Len(text)
           less == SubSeq(text, 1, L - 1)
           from == t.cursor - L
<1>1. /\ u.cursor = t.cursor - 1 /\ t.cursor - 1 \in Cells
      /\ u.cells = [t.cells EXCEPT ![t.cursor - 1] = Blank]
  BY BackspaceEffect
<1>2. t.cursor \in Nat /\ t.cells \in [Cells -> Chars] /\ VGA_CELLS \in Nat
  BY ScreenSizes DEF AtCursor, Terminals
<1>3. L \in Nat \ {0} /\ Len(less) = L - 1 /\ \A i \in 1 .. L - 1 : less[i] = text[i]
  <2>1. L \in Nat \ {0}
    OBVIOUS
  <2>2. L - 1 \in Nat /\ L - 1 <= Len(text)
    BY <2>1
  <2> QED BY <2>1, <2>2, Prefix
<1>4. L <= t.cursor /\ \A i \in 1 .. L : t.cells[t.cursor - L + i - 1] = text[i]
  BY DEF Shows
<1> HIDE DEF u, L, less
<1>5. ASSUME NEW i \in 1 .. L - 1 PROVE u.cells[u.cursor - (L - 1) + i - 1] = less[i]
  <2> DEFINE j == u.cursor - (L - 1) + i - 1
  <2>1. /\ i \in 1 .. L /\ j = t.cursor - L + i - 1 /\ j \in Nat /\ j < t.cursor - 1
        /\ j \in Cells
    <3>1. /\ L \in Nat \ {0} /\ L <= t.cursor /\ t.cursor \in Nat /\ i \in Int /\ 1 <= i
          /\ i <= L - 1 /\ u.cursor = t.cursor - 1 /\ VGA_CELLS \in Nat
      BY <1>1, <1>2, <1>3, <1>4
    <3>2. t.cursor - 1 < VGA_CELLS
      BY <1>1, <1>2 DEF Cells
    <3>3. i \in 1 .. L /\ j = t.cursor - L + i - 1 /\ j \in Nat /\ j < t.cursor - 1
      BY ONLY <3>1
    <3>4. j < VGA_CELLS
      BY ONLY <3>1, <3>2, <3>3
    <3> HIDE DEF j
    <3> QED BY <3>1, <3>3, <3>4 DEF Cells
  <2>2. t.cells[j] = text[i]
    BY <1>4, <2>1
  <2> HIDE DEF j
  <2>3. u.cells[j] = t.cells[j]
    BY <1>1, <1>2, <2>1
  <2> QED BY <1>3, <2>2, <2>3 DEF j
<1>6. L - 1 <= u.cursor
  BY <1>1, <1>2, <1>3, <1>4
<1> QED BY <1>3, <1>5, <1>6 DEF Shows, u, less, L

(* Shows depends on the characters of the text only.                       *)
LEMMA ShowsSame ==
  ASSUME NEW u, NEW a, NEW b, Shows(u, a), Len(a) \in Nat, Len(b) = Len(a),
         \A i \in 1 .. Len(a) : b[i] = a[i]
  PROVE  Shows(u, b)
<1> DEFINE L == Len(a)
<1>1. L <= u.cursor /\ \A i \in 1 .. L : u.cells[u.cursor - L + i - 1] = a[i]
  BY DEF Shows
<1>2. \A i \in 1 .. L : u.cells[u.cursor - L + i - 1] = b[i]
  BY <1>1
<1> HIDE DEF L
<1>3. Len(b) = L
  BY DEF L
<1> QED BY <1>1, <1>2, <1>3 DEF Shows

(* After any output the prompt stands before the cursor.                   *)
LEMMA PromptShown ==
  ASSUME NEW t \in Screens, NEW out \in Seq(Chars \ {"tab", "cr"}),
         NEW P \in Seq(Chars \ (Controls \cup {"tab"})), Len(P) <= LastRow
  PROVE  LET u == terminal_write(t, out \o P) IN u \in Screens /\ Shows(u, P)
<1> DEFINE C == Chars \ {"tab", "cr"}
           D == out \o P
           M == Len(out)
           N == Len(P)
           w == Written(t, D)
           T == {n \in Nat : n <= N => Shows(w[M + n], SubSeq(P, 1, n))}
<1>1. /\ D \in Seq(C) /\ M \in Nat /\ N \in Nat /\ Len(D) = M + N
      /\ \A n \in 1 .. N : D[M + n] = P[n]
  <2>1. Chars \ (Controls \cup {"tab"}) \subseteq C
    BY DEF Controls
  <2>2. P \in Seq(C)
    BY <2>1
  <2> HIDE DEF C
  <2> QED BY <2>2 DEF C
<1>2. /\ w[0] = t /\ \A n \in 1 .. M + N : w[n] = terminal_putchar(w[n - 1], D[n])
  <2> HIDE DEF C, D, M, N
  <2> QED BY <1>1, WrittenRecursion, SMTT(20)
<1>3. terminal_write(t, D) \in Screens /\ \A n \in 0 .. M + N : w[n] \in Screens
  <2>1. \A u \in Screens : \A c \in C : terminal_putchar(u, c) \in Screens
    BY PutcharOnScreen
  <2> HIDE DEF C, D, M, N
  <2> QED BY <1>1, <2>1, WriteKeeps
<1>4. LastRow \in Nat /\ N <= LastRow
  BY ScreenSizes
<1> HIDE DEF w, D, M
<1>5. 0 \in T
  <2>1. w[M] \in Screens /\ M + 0 = M
    BY <1>1, <1>3
  <2>2. w[M].cursor \in Nat
    BY <2>1 DEF Screens, Terminals
  <2>3. Len(SubSeq(P, 1, 0)) = 0
    OBVIOUS
  <2>4. Shows(w[M], SubSeq(P, 1, 0))
    BY <2>2, <2>3 DEF Shows
  <2> QED BY <2>1, <2>4
<1>6. ASSUME NEW n \in Nat, n \in T PROVE n + 1 \in T
  <2> SUFFICES ASSUME n + 1 <= N PROVE Shows(w[M + (n + 1)], SubSeq(P, 1, n + 1))
    OBVIOUS
  <2> DEFINE v == w[M + n]
             a == SubSeq(P, 1, n)
             b == SubSeq(P, 1, n + 1)
             c == P[n + 1]
  <2>1. /\ n <= N /\ n + 1 \in 1 .. N /\ M + n \in 0 .. M + N /\ M + (n + 1) \in 1 .. M + N
        /\ (M + (n + 1)) - 1 = M + n /\ n + 1 <= LastRow
    <3> HIDE DEF N
    <3> QED BY <1>1, <1>4
  <2>2. v \in Screens /\ Shows(v, a)
    BY <1>3, <1>6, <2>1
  <2>3. c \in Chars /\ c \notin Controls \cup {"tab"}
    BY <2>1
  <2>4. w[M + (n + 1)] = terminal_putchar(v, c)
    BY <1>1, <1>2, <2>1
  <2>5. a \in Seq(Chars) /\ Len(a) = n /\ \A i \in 1 .. n : a[i] = P[i]
    <3>1. P \in Seq(Chars)
      OBVIOUS
    <3> QED BY <2>1, <3>1, Prefix
  <2>6. Len(b) = n + 1 /\ \A i \in 1 .. n + 1 : b[i] = P[i]
    BY <2>1, Prefix
  <2> HIDE DEF v, a, b, c
  <2>7. Shows(terminal_putchar(v, c), Append(a, c))
    BY <2>1, <2>2, <2>3, <2>5, PlainShows DEF Screens, OnScreen
  <2>8. /\ Len(Append(a, c)) = n + 1
        /\ \A i \in 1 .. n + 1 : b[i] = Append(a, c)[i]
    <3>1. Len(Append(a, c)) = n + 1 /\ Append(a, c)[n + 1] = c
      BY <2>3, <2>5
    <3>2. \A i \in 1 .. n : Append(a, c)[i] = a[i]
      BY <2>3, <2>5
    <3> QED BY <2>5, <2>6, <3>1, <3>2 DEF c
  <2>9. Shows(terminal_putchar(v, c), b)
    <3> DEFINE app == Append(a, c)
    <3>1. /\ Shows(terminal_putchar(v, c), app) /\ Len(app) = n + 1 /\ Len(b) = Len(app)
          /\ \A i \in 1 .. Len(app) : b[i] = app[i]
      BY <2>6, <2>7, <2>8
    <3>2. Len(app) \in Nat
      BY <3>1
    <3> HIDE DEF app
    <3> QED BY <3>1, <3>2, ShowsSame
  <2> QED BY <2>4, <2>9 DEF b
<1>7. Nat \subseteq T
  <2> HIDE DEF T
  <2> QED BY <1>5, <1>6, NatInductionOnSet
<1>8. Shows(w[M + N], SubSeq(P, 1, N))
  BY <1>1, <1>7
<1>9. Shows(w[M + N], P)
  <2>1. Len(SubSeq(P, 1, N)) = N /\ \A i \in 1 .. N : SubSeq(P, 1, N)[i] = P[i]
    BY <1>1, Prefix
  <2>2. Len(P) = N
    OBVIOUS
  <2> HIDE DEF N
  <2> QED BY <1>1, <1>8, <2>1, <2>2, ShowsSame
<1> QED BY <1>1, <1>3, <1>9 DEF terminal_write, w, D

(***************************************************************************)
(* The line.                                                               *)
(***************************************************************************)
Plain == Inputs \ Controls

Lines == [line : [0 .. SHELL_LINE_MAX - 1 -> Inputs \cup {NUL}],
          len : 0 .. SHELL_LINE_MAX - 1, pc : {"start", "read", "halted"},
          typed : Seq(Plain), margin : BOOLEAN]

(* shell_line holds what was typed, closed by a NUL.                       *)
LineInv ==
  /\ shell \in Lines
  /\ Len(shell.typed) = shell.len
  /\ shell.line[shell.len] = NUL
  /\ \A i \in 1 .. shell.len : shell.line[i - 1] = shell.typed[i]

(* The sizes of the line.                                                  *)
LEMMA LineSizes ==
  /\ SHELL_LINE_MAX \in Nat /\ SHELL_LINE_MAX > 1 /\ NUL \notin Inputs
  /\ Prompt \in Seq(Chars) /\ Len(Prompt) \in Nat
  /\ Len(Prompt) + SHELL_LINE_MAX <= LastRow
<1>1. Prompt \in Seq(Chars)
  BY ShellTexts DEF Texts
<1>2. Len(Prompt) \in Nat
  BY <1>1
<1> QED BY <1>1, <1>2, ShellSizes, ScreenSizes

(* The C string in shell_line is what was typed.                           *)
LEMMA LineIsTyped ==
  ASSUME LineInv
  PROVE  /\ CString(shell.line) = shell.typed
         /\ CString([shell.line EXCEPT ![shell.len] = NUL]) = shell.typed
<1> DEFINE line == shell.line
           len == shell.len
           typed == shell.typed
           S == {i \in DOMAIN line : line[i] = NUL} \cup {SHELL_LINE_MAX}
<1>1. /\ line \in [0 .. SHELL_LINE_MAX - 1 -> Inputs \cup {NUL}]
      /\ len \in 0 .. SHELL_LINE_MAX - 1 /\ typed \in Seq(Plain) /\ Len(typed) = len
      /\ line[len] = NUL /\ \A i \in 1 .. len : line[i - 1] = typed[i]
  BY DEF LineInv, Lines
<1> HIDE DEF line, len, typed
<1>2. DOMAIN line = 0 .. SHELL_LINE_MAX - 1 /\ SHELL_LINE_MAX \in Nat
  BY <1>1, LineSizes
<1>3. len \in S /\ S \subseteq 0 .. SHELL_LINE_MAX
  BY <1>1, <1>2
<1>4. \A y \in S : len <= y
  <2> SUFFICES ASSUME NEW y \in S, y < len PROVE FALSE
    BY <1>1, <1>2, <1>3
  <2>1. y \in 0 .. SHELL_LINE_MAX - 1 /\ line[y] = NUL /\ y + 1 \in 1 .. len
        /\ (y + 1) - 1 = y
    BY <1>1, <1>2
  <2>2. line[y] = typed[y + 1]
    BY <1>1, <2>1
  <2>3. typed[y + 1] \in Inputs
    BY <1>1, <2>1 DEF Plain
  <2> QED BY <2>1, <2>2, <2>3, LineSizes
<1> HIDE DEF S
<1>5. Min(S) = len
  <2>1. \A x \in S : (\A y \in S : x <= y) => x = len
    BY <1>1, <1>2, <1>3, <1>4
  <2> QED BY <1>3, <1>4, <2>1 DEF Min
<1>6. CString(line) = [i \in 1 .. len |-> line[i - 1]]
  BY <1>5 DEF CString, S
<1>7. [i \in 1 .. len |-> line[i - 1]] = typed
  <2>1. typed = [i \in 1 .. len |-> typed[i]]
    BY <1>1
  <2>2. [i \in 1 .. len |-> line[i - 1]] = [i \in 1 .. len |-> typed[i]]
    BY <1>1
  <2> QED BY <2>1, <2>2
<1>8. [line EXCEPT ![len] = NUL] = line
  BY <1>1
<1> QED BY <1>6, <1>7, <1>8 DEF line, len, typed

(* A line begun is empty.                                                  *)
LEMMA ResetLine ==
  ASSUME LineInv, NEW pc \in {"start", "read", "halted"}
  PROVE  LET s == [shell_reset_line(shell) EXCEPT !.pc = pc] IN
         /\ s \in Lines /\ s.len = 0 /\ s.line[0] = NUL /\ s.typed = << >>
         /\ s.margin = FALSE /\ s.pc = pc
<1> DEFINE line == [shell.line EXCEPT ![0] = NUL]
           s == [shell_reset_line(shell) EXCEPT !.pc = pc]
<1>1. shell \in Lines
  BY DEF LineInv
<1>2. /\ line \in [0 .. SHELL_LINE_MAX - 1 -> Inputs \cup {NUL}] /\ line[0] = NUL
      /\ 0 \in 0 .. SHELL_LINE_MAX - 1 /\ << >> \in Seq(Plain)
  BY <1>1, LineSizes DEF Lines
<1>3. s = [shell EXCEPT !.len = 0, !.line = line, !.typed = << >>, !.margin = FALSE,
                        !.pc = pc]
  BY <1>1 DEF shell_reset_line, Lines
<1> HIDE DEF line, s
<1>4. /\ s \in Lines /\ s.len = 0 /\ s.line = line /\ s.typed = << >>
      /\ s.margin = FALSE /\ s.pc = pc
  BY <1>1, <1>2, <1>3 DEF Lines
<1> QED BY <1>2, <1>4 DEF s

(* A character typed is added to the line and to what was typed.           *)
LEMMA TypeLine ==
  ASSUME LineInv, NEW c \in Plain, ~line_full,
         shell' = [shell EXCEPT !.line[shell.len] = c, !.line[shell.len + 1] = NUL,
                                !.len = @ + 1, !.typed = Append(@, c)]
  PROVE  /\ LineInv' /\ shell'.typed = Append(shell.typed, c)
         /\ shell'.pc = shell.pc /\ shell'.margin = shell.margin
<1> DEFINE len == shell.len
           line == [[shell.line EXCEPT ![len] = c] EXCEPT ![len + 1] = NUL]
           typed == Append(shell.typed, c)
<1>1. /\ shell \in Lines /\ Len(shell.typed) = len
      /\ shell.line \in [0 .. SHELL_LINE_MAX - 1 -> Inputs \cup {NUL}]
      /\ len \in 0 .. SHELL_LINE_MAX - 1 /\ shell.typed \in Seq(Plain)
      /\ \A i \in 1 .. len : shell.line[i - 1] = shell.typed[i]
  BY DEF LineInv, Lines
<1>2. len + 1 \in 0 .. SHELL_LINE_MAX - 1 /\ len \in Nat
  BY <1>1, LineSizes DEF line_full
<1>3. shell' = [shell EXCEPT !.line = line, !.len = len + 1, !.typed = typed]
  BY <1>1 DEF Lines
<1>4. /\ line \in [0 .. SHELL_LINE_MAX - 1 -> Inputs \cup {NUL}]
      /\ line[len + 1] = NUL /\ line[len] = c
      /\ \A i \in 0 .. len - 1 : line[i] = shell.line[i]
  <2> DEFINE mid == [shell.line EXCEPT ![len] = c]
  <2>1. /\ mid \in [0 .. SHELL_LINE_MAX - 1 -> Inputs \cup {NUL}] /\ mid[len] = c
        /\ \A i \in 0 .. SHELL_LINE_MAX - 1 : i # len => mid[i] = shell.line[i]
    BY <1>1 DEF Plain
  <2>2. SHELL_LINE_MAX \in Nat
    BY LineSizes
  <2> HIDE DEF mid, len
  <2>3. /\ line \in [0 .. SHELL_LINE_MAX - 1 -> Inputs \cup {NUL}]
        /\ line[len + 1] = NUL
        /\ \A i \in 0 .. SHELL_LINE_MAX - 1 : i # len + 1 => line[i] = mid[i]
    BY <1>2, <2>1 DEF mid
  <2> HIDE DEF line
  <2> QED BY <1>2, <2>1, <2>2, <2>3, <1>1, SMTT(20)
<1>5. /\ typed \in Seq(Plain) /\ Len(typed) = len + 1 /\ typed[len + 1] = c
      /\ \A i \in 1 .. len : typed[i] = shell.typed[i]
  BY <1>1
<1> HIDE DEF line, typed
<1>6. /\ shell' \in Lines /\ shell'.len = len + 1 /\ shell'.line = line
      /\ shell'.typed = typed /\ shell'.pc = shell.pc /\ shell'.margin = shell.margin
  <2> HIDE DEF len
  <2> QED BY <1>1, <1>2, <1>3, <1>4, <1>5 DEF Lines
<1> HIDE DEF len
<1>7. ASSUME NEW i \in 1 .. len + 1 PROVE line[i - 1] = typed[i]
  <2>1. CASE i = len + 1
    <3>1. i - 1 = len
      BY <1>2, <2>1
    <3> QED BY <1>4, <1>5, <2>1, <3>1
  <2>2. CASE i # len + 1
    <3>1. i \in 1 .. len /\ i - 1 \in 0 .. len - 1
      BY <1>2, <2>2
    <3> QED BY <1>1, <1>4, <1>5, <3>1
  <2> QED BY <2>1, <2>2
<1>8. LineInv'
  BY <1>4, <1>5, <1>6, <1>7 DEF LineInv
<1> QED BY <1>6, <1>8 DEF typed

(* Backspace takes the last character from both.                           *)
LEMMA EraseLine ==
  ASSUME LineInv, shell.len > 0, NEW m \in BOOLEAN,
         shell' = [shell EXCEPT !.len = @ - 1, !.line[shell.len - 1] = NUL,
                                !.typed = Front(@), !.margin = m]
  PROVE  /\ LineInv' /\ shell'.pc = shell.pc /\ shell'.margin = m
         /\ Len(shell'.typed) = Len(shell.typed) - 1
         /\ \A i \in 1 .. Len(shell'.typed) : shell'.typed[i] = shell.typed[i]
<1> DEFINE len == shell.len
           line == [shell.line EXCEPT ![len - 1] = NUL]
           typed == SubSeq(shell.typed, 1, len - 1)
<1>1. /\ shell \in Lines /\ Len(shell.typed) = len
      /\ shell.line \in [0 .. SHELL_LINE_MAX - 1 -> Inputs \cup {NUL}]
      /\ len \in 0 .. SHELL_LINE_MAX - 1 /\ shell.typed \in Seq(Plain)
      /\ \A i \in 1 .. len : shell.line[i - 1] = shell.typed[i]
  BY DEF LineInv, Lines
<1>2. len - 1 \in 0 .. SHELL_LINE_MAX - 1 /\ len \in Nat /\ len - 1 \in Nat
      /\ len - 1 <= Len(shell.typed)
  BY <1>1, LineSizes
<1>3. shell' = [shell EXCEPT !.line = line, !.len = len - 1, !.typed = typed, !.margin = m]
  BY <1>1 DEF Lines, Front
<1>4. /\ line \in [0 .. SHELL_LINE_MAX - 1 -> Inputs \cup {NUL}]
      /\ line[len - 1] = NUL
      /\ \A i \in 0 .. len - 2 : line[i] = shell.line[i]
  BY <1>1, <1>2, LineSizes
<1>5. /\ typed \in Seq(Plain) /\ Len(typed) = len - 1
      /\ \A i \in 1 .. len - 1 : typed[i] = shell.typed[i]
  BY <1>1, <1>2, Prefix
<1> HIDE DEF line, typed
<1>6. /\ shell' \in Lines /\ shell'.len = len - 1 /\ shell'.line = line
      /\ shell'.typed = typed /\ shell'.pc = shell.pc /\ shell'.margin = m
  <2> HIDE DEF len
  <2> QED BY <1>1, <1>2, <1>3, <1>4, <1>5 DEF Lines
<1> HIDE DEF len
<1>7. ASSUME NEW i \in 1 .. len - 1 PROVE line[i - 1] = typed[i]
  <2>1. i \in 1 .. len /\ i - 1 \in 0 .. len - 2
    BY <1>2
  <2> QED BY <1>1, <1>4, <1>5, <2>1
<1>8. LineInv'
  BY <1>4, <1>5, <1>6, <1>7 DEF LineInv
<1> QED BY <1>1, <1>5, <1>6, <1>8

(* What a command prints consists of the characters of C when the texts    *)
(* and the line do.                                                        *)
LEMMA OutputChars ==
  ASSUME NEW C, Texts \subseteq Seq(C), "nl" \in C, NEW line \in Seq(C)
  PROVE  <<"nl">> \o shell_execute(line) \in Seq(C)
<1>1. Unknown \in Seq(C) /\ Hint \in Seq(C)
  BY DEF Texts
<1>2. line \in DOMAIN Commands => Commands[line] \in Seq(C)
  BY DEF Texts
<1>3. shell_execute(line) \in Seq(C)
  BY <1>1, <1>2 DEF shell_execute
<1>4. <<"nl">> \in Seq(C)
  OBVIOUS
<1> HIDE DEF shell_execute
<1> QED BY <1>3, <1>4

(***************************************************************************)
(* Without any condition on the characters: the line and the types.        *)
(***************************************************************************)
TypedInv == LineInv /\ term \in Terminals

(* The terminal that terminal_initialize leaves.                           *)
LEMMA InitialTerminal == terminal_initialize \in Screens
<1> DEFINE cells == [i \in Cells |-> Blank]
           t == [row |-> 0, column |-> 0, cursor |-> 0, fault |-> FALSE, cells |-> cells]
<1>1. terminal_initialize = [t EXCEPT !.cursor = t.row * VGA_WIDTH + t.column]
  BY DEF terminal_initialize, terminal_sync_cursor
<1>2. t.row * VGA_WIDTH + t.column = 0
  BY ScreenSizes
<1>3. cells \in [Cells -> Chars]
  BY DEF Chars
<1>4. \A i \in 0 .. ScreenEnd - 1 : cells[i] = Blank
  BY ScreenSizes DEF Cells
<1> HIDE DEF cells
<1>5. terminal_initialize = t
  BY <1>1, <1>2
<1>6. t \in Terminals
  BY <1>3 DEF Terminals
<1>7. AtCursor(t)
  BY <1>2, <1>6, ScreenSizes DEF AtCursor
<1>8. OnScreen(t)
  BY <1>4, <1>7 DEF OnScreen
<1> QED BY <1>5, <1>6, <1>8 DEF Screens

(* Every step keeps the line and the types.                                *)
LEMMA TypedStep ==
  ASSUME TypedInv, [ShellNext]_shellVars
  PROVE  TypedInv'
<1>1. LineInv /\ term \in Terminals /\ shell \in Lines
  BY DEF TypedInv, LineInv
<1>2. \A data \in Seq(Chars) : terminal_write(term, data) \in Terminals
  <2>1. \A u \in Terminals : \A c \in Chars : terminal_putchar(u, c) \in Terminals
    BY PutcharType
  <2> QED BY <1>1, <2>1, WriteKeeps
<1>3. Texts \subseteq Seq(Chars) /\ "nl" \in Chars /\ Inputs \subseteq Chars
  BY ShellTexts DEF Chars
<1>4. CASE shell_run
  <2>1. Banner \o Prompt \in Seq(Chars)
    BY <1>3 DEF Texts
  <2>2. term' \in Terminals
    BY <1>2, <1>4, <2>1 DEF shell_run
  <2>3. LineInv'
    <3>1. /\ shell' \in Lines /\ shell'.len = 0 /\ shell'.line[0] = NUL
          /\ shell'.typed = << >>
      BY <1>1, <1>4, ResetLine DEF shell_run
    <3> QED BY <3>1 DEF LineInv
  <2> QED BY <2>2, <2>3 DEF TypedInv
<1>5. CASE shell_enter
  <2> DEFINE line == CString([shell.line EXCEPT ![shell.len] = NUL])
             out == <<"nl">> \o shell_execute(line)
  <2>1. line \in Seq(Chars)
    <3>1. line = shell.typed
      BY <1>1, LineIsTyped
    <3>2. shell.typed \in Seq(Plain) /\ Plain \subseteq Chars
      BY <1>1, <1>3 DEF Lines, Plain
    <3> HIDE DEF line
    <3> QED BY <3>1, <3>2
  <2> HIDE DEF line
  <2>2. out \in Seq(Chars)
    BY <1>3, <2>1, OutputChars
  <2> HIDE DEF out
  <2>3. out \o Prompt \in Seq(Chars)
    BY <2>2, LineSizes
  <2>4. CASE line = PFAULT
    <3>1. term' = terminal_write(term, out) /\ shell' = [shell EXCEPT !.pc = "halted"]
      BY <1>5, <2>4 DEF shell_enter, line, out
    <3>2. LineInv'
      BY <1>1, <3>1 DEF LineInv, Lines
    <3> QED BY <1>2, <2>2, <3>1, <3>2 DEF TypedInv
  <2>5. CASE line # PFAULT
    <3>1. term' = terminal_write(term, out \o Prompt) /\ shell' = shell_reset_line(shell)
      BY <1>5, <2>5 DEF shell_enter, line, out
    <3>2. shell' = [shell_reset_line(shell) EXCEPT !.pc = shell.pc]
      BY <1>1, <3>1 DEF shell_reset_line, Lines
    <3>3. shell.pc \in {"start", "read", "halted"}
      BY <1>1 DEF Lines
    <3>4. LineInv'
      <4>1. /\ shell' \in Lines /\ shell'.len = 0 /\ shell'.line[0] = NUL
            /\ shell'.typed = << >>
        BY <1>1, <3>2, <3>3, ResetLine
      <4> QED BY <4>1 DEF LineInv
    <3> QED BY <1>2, <2>3, <3>1, <3>4 DEF TypedInv
  <2> QED BY <2>4, <2>5
<1>6. CASE shell_backspace
  <2>1. CASE shell.len > 0
    <3> DEFINE m == shell.margin \/ term.column = 0
    <3>1. m \in BOOLEAN
      OBVIOUS
    <3>2. /\ shell' = [shell EXCEPT !.len = @ - 1, !.line[shell.len - 1] = NUL,
                                    !.typed = Front(@), !.margin = m]
          /\ term' = terminal_putchar(term, "bs") /\ "bs" \in Inputs
      BY <1>6, <2>1 DEF shell_backspace
    <3> HIDE DEF m
    <3>3. LineInv'
      BY <1>1, <2>1, <3>1, <3>2, EraseLine
    <3>4. term' \in Terminals
      BY <1>1, <1>3, <3>2, PutcharType
    <3> QED BY <3>3, <3>4 DEF TypedInv
  <2>2. CASE ~(shell.len > 0)
    BY <1>1, <1>6, <2>2 DEF shell_backspace, shellVars, TypedInv, LineInv, Lines
  <2> QED BY <2>1, <2>2
<1>7. ASSUME NEW c \in Inputs, shell_type(c) PROVE TypedInv'
  <2>1. c \in Plain /\ ~line_full
    BY <1>7 DEF shell_type, shell_is_printable, Plain
  <2>2. LineInv'
    BY <1>1, <1>7, <2>1, TypeLine DEF shell_type
  <2>3. term' \in Terminals
    BY <1>1, <1>3, <1>7, PutcharType DEF shell_type
  <2> QED BY <2>2, <2>3 DEF TypedInv
<1>8. CASE UNCHANGED shellVars
  BY <1>1, <1>8 DEF shellVars, TypedInv, LineInv, Lines
<1> QED BY <1>4, <1>5, <1>6, <1>7, <1>8 DEF ShellNext, shell_ignore

(* The shell starts with an empty line and an empty screen.                *)
LEMMA TypedInit ==
  ASSUME ShellInit
  PROVE  TypedInv
<1>1. term \in Terminals
  BY InitialTerminal DEF ShellInit, Screens
<1> DEFINE line == [i \in 0 .. SHELL_LINE_MAX - 1 |-> NUL]
<1>2. /\ line \in [0 .. SHELL_LINE_MAX - 1 -> Inputs \cup {NUL}] /\ line[0] = NUL
      /\ 0 \in 0 .. SHELL_LINE_MAX - 1 /\ << >> \in Seq(Plain)
  BY LineSizes
<1>3. shell = [line |-> line, len |-> 0, pc |-> "start", typed |-> << >>, margin |-> FALSE]
  BY DEF ShellInit
<1> HIDE DEF line
<1>4. LineInv
  BY <1>2, <1>3 DEF LineInv, Lines
<1> QED BY <1>1, <1>4 DEF TypedInv

(* The line and the types hold in every state, whatever is typed.          *)
THEOREM ShellInvariant == ShellSpec => []TypedInv
<1>1. ShellInit => TypedInv
  BY TypedInit
<1>2. TypedInv /\ [ShellNext]_shellVars => TypedInv'
  BY TypedStep
<1> QED BY <1>1, <1>2, PTL DEF ShellSpec

(* shell_line_len leaves room for the NUL and the statics of tty.c keep    *)
(* their types, for every screen, line length and set of characters.       *)
THEOREM ShellTypes == ShellSpec => []ShellTypeOK
<1>1. TypedInv => ShellTypeOK
  BY DEF TypedInv, LineInv, Lines, Terminals, ShellTypeOK
<1> QED BY <1>1, ShellInvariant, PTL

(* Enter executes what was typed since the prompt and not erased, however  *)
(* the line was filled, erased and filled again.                           *)
THEOREM ShellExecutes == ShellSpec => []ExecutesWhatWasTyped
<1>1. TypedInv => ExecutesWhatWasTyped
  BY LineIsTyped DEF TypedInv, ExecutesWhatWasTyped
<1> QED BY <1>1, ShellInvariant, PTL

(***************************************************************************)
(* Without tabs: the screen.                                               *)
(*                                                                         *)
(* The texts of shell.c hold neither tabs nor carriage returns and its     *)
(* prompt no control character.  The keyboard does deliver tabs; what they *)
(* do to the cursor is the finding of the run MCShell_tab, and what is     *)
(* proved here holds until one is typed.                                   *)
(***************************************************************************)
Printed == Chars \ {"tab", "cr"}

PlainTexts ==
  /\ "tab" \notin Inputs
  /\ \A text \in Texts : \A i \in DOMAIN text : text[i] \notin {"tab", "cr"}
  /\ \A i \in DOMAIN Prompt : Prompt[i] \notin Controls

(* The cursor is on the screen with nothing after it and, until a          *)
(* character was erased in the first column, the prompt and the line       *)
(* before it.                                                              *)
ScreenInv ==
  /\ term \in Screens
  /\ shell.pc = "read" /\ ~shell.margin => Shows(term, Prompt \o shell.typed)

(* A sequence over a set whose items are all in a smaller one.             *)
LEMMA Narrow ==
  ASSUME NEW S, NEW s \in Seq(S), NEW R, \A i \in 1 .. Len(s) : s[i] \in R
  PROVE  s \in Seq(R)
<1>1. s = [i \in 1 .. Len(s) |-> s[i]] /\ Len(s) \in Nat
  OBVIOUS
<1>2. s \in [1 .. Len(s) -> R]
  BY <1>1
<1> QED BY <1>1, <1>2

(* The characters of the texts.                                            *)
LEMMA TextChars ==
  ASSUME PlainTexts
  PROVE  /\ Texts \subseteq Seq(Printed) /\ "nl" \in Printed /\ Plain \subseteq Printed
         /\ Prompt \in Seq(Chars \ (Controls \cup {"tab"}))
         /\ Plain \subseteq Chars \ (Controls \cup {"tab"})
<1>1. ASSUME NEW text \in Texts
      PROVE  text \in Seq(Chars) /\ text \in Seq(Printed)
  <2>1. text \in Seq(Chars)
    BY ShellTexts
  <2>2. \A i \in 1 .. Len(text) : text[i] \in Printed
    BY <2>1 DEF PlainTexts, Printed
  <2> QED BY <2>1, <2>2, Narrow
<1>2. Prompt \in Seq(Chars \ (Controls \cup {"tab"}))
  <2>1. Prompt \in Texts
    BY DEF Texts
  <2>2. \A i \in 1 .. Len(Prompt) : Prompt[i] \in Chars \ (Controls \cup {"tab"})
    BY <1>1, <2>1 DEF PlainTexts
  <2> QED BY <1>1, <2>1, <2>2, Narrow
<1>3. "nl" \in Printed
  BY DEF Printed, Chars
<1>4. Plain \subseteq Chars \ (Controls \cup {"tab"}) /\ Plain \subseteq Printed
  BY DEF Plain, Chars, Printed, PlainTexts, Controls
<1> QED BY <1>1, <1>2, <1>3, <1>4

(* A character after two texts is one after the second of them.            *)
LEMMA AppendToLine ==
  \A a, b \in Seq(Chars) : \A c \in Chars : Append(a \o b, c) = a \o Append(b, c)
<1> SUFFICES ASSUME NEW a \in Seq(Chars), NEW b \in Seq(Chars), NEW c \in Chars
             PROVE  Append(a \o b, c) = a \o Append(b, c)
  OBVIOUS
<1> DEFINE l == Append(a \o b, c)
           r == a \o Append(b, c)
           N == Len(a) + Len(b) + 1
<1>1. Len(a) \in Nat /\ Len(b) \in Nat
  OBVIOUS
<1>2. l \in Seq(Chars) /\ Len(l) = N
  OBVIOUS
<1>3. r \in Seq(Chars) /\ Len(r) = N
  <2>1. Append(b, c) \in Seq(Chars) /\ Len(Append(b, c)) = Len(b) + 1
    OBVIOUS
  <2> QED BY <1>1, <2>1
<1>4. ASSUME NEW i \in 1 .. N PROVE l[i] = r[i]
  <2>1. CASE i <= Len(a)
    BY <1>1, <2>1
  <2>2. CASE i > Len(a) /\ i < N
    BY <1>1, <2>2
  <2>3. CASE i = N
    BY <1>1, <2>3
  <2> QED BY <1>1, <2>1, <2>2, <2>3
<1>5. l = [i \in 1 .. N |-> l[i]] /\ r = [i \in 1 .. N |-> r[i]]
  <2> HIDE DEF l, r, N
  <2> QED BY <1>2, <1>3
<1> HIDE DEF l, r, N
<1>6. l = r
  BY <1>4, <1>5
<1> QED BY <1>6 DEF l, r

(* The prompt with nothing typed.                                          *)
LEMMA FreshLine ==
  ASSUME NEW u, Shows(u, Prompt), NEW typed, typed = << >>
  PROVE  Shows(u, Prompt \o typed)
<1>1. Len(Prompt) \in Nat /\ Prompt \in Seq(Chars)
  BY LineSizes
<1>2. Prompt \o typed = Prompt
  BY <1>1
<1> QED BY <1>2

(* Every step keeps the screen.                                            *)
LEMMA ScreenStep ==
  ASSUME PlainTexts, TypedInv, ScreenInv, [ShellNext]_shellVars
  PROVE  ScreenInv'
<1>1. LineInv /\ term \in Screens /\ shell \in Lines /\ AtCursor(term)
  BY DEF TypedInv, LineInv, ScreenInv, Screens, OnScreen
<1>2. \A data \in Seq(Printed) : terminal_write(term, data) \in Screens
  <2>1. \A u \in Screens : \A c \in Printed : terminal_putchar(u, c) \in Screens
    BY PutcharOnScreen DEF Printed
  <2> QED BY <1>1, <2>1, WriteKeeps
<1>3. ASSUME NEW out \in Seq(Printed)
      PROVE  LET u == terminal_write(term, out \o Prompt) IN u \in Screens /\ Shows(u, Prompt)
  <2>1. Len(Prompt) <= LastRow
    BY LineSizes, ScreenSizes
  <2> QED BY <1>1, <2>1, TextChars, PromptShown DEF Printed
<1>4. CASE shell_run
  <2>1. Banner \in Seq(Printed)
    BY TextChars DEF Texts
  <2>2. term' = terminal_write(term, Banner \o Prompt)
    BY <1>4 DEF shell_run
  <2>3. term' \in Screens /\ Shows(term', Prompt)
    BY <1>3, <2>1, <2>2
  <2>4. shell'.typed = << >>
    BY <1>1, <1>4, ResetLine DEF shell_run
  <2> QED BY <2>3, <2>4, FreshLine DEF ScreenInv
<1>5. CASE shell_enter
  <2> DEFINE line == CString([shell.line EXCEPT ![shell.len] = NUL])
             out == <<"nl">> \o shell_execute(line)
  <2>1. line \in Seq(Printed)
    <3>1. line = shell.typed
      BY <1>1, LineIsTyped
    <3>2. shell.typed \in Seq(Plain) /\ Plain \subseteq Printed
      BY <1>1, TextChars DEF Lines
    <3> HIDE DEF line
    <3> QED BY <3>1, <3>2
  <2> HIDE DEF line
  <2>2. out \in Seq(Printed)
    BY <2>1, TextChars, OutputChars
  <2> HIDE DEF out
  <2>3. CASE line = PFAULT
    <3>1. term' = terminal_write(term, out) /\ shell' = [shell EXCEPT !.pc = "halted"]
      BY <1>5, <2>3 DEF shell_enter, line, out
    <3>2. shell'.pc = "halted"
      BY <1>1, <3>1 DEF Lines
    <3> QED BY <1>2, <2>2, <3>1, <3>2 DEF ScreenInv
  <2>4. CASE line # PFAULT
    <3>1. term' = terminal_write(term, out \o Prompt) /\ shell' = shell_reset_line(shell)
      BY <1>5, <2>4 DEF shell_enter, line, out
    <3>2. shell'.typed = << >>
      BY <1>1, <3>1 DEF shell_reset_line, Lines
    <3>3. term' \in Screens /\ Shows(term', Prompt)
      BY <1>3, <2>2, <3>1
    <3> QED BY <3>2, <3>3, FreshLine DEF ScreenInv
  <2> QED BY <2>3, <2>4
<1>6. CASE shell_backspace
  <2>1. CASE shell.len > 0
    <3> DEFINE m == shell.margin \/ term.column = 0
               text == Prompt \o shell.typed
               less == SubSeq(text, 1, Len(text) - 1)
               text2 == Prompt \o shell'.typed
               L == Len(Prompt)
               K == Len(shell.typed)
    <3>1. m \in BOOLEAN
      OBVIOUS
    <3>2. /\ shell' = [shell EXCEPT !.len = @ - 1, !.line[shell.len - 1] = NUL,
                                    !.typed = Front(@), !.margin = m]
          /\ term' = terminal_putchar(term, "bs") /\ "bs" \in Inputs /\ shell.pc = "read"
      BY <1>6, <2>1 DEF shell_backspace, Reading
    <3> HIDE DEF m
    <3>3. /\ LineInv' /\ shell'.pc = shell.pc /\ shell'.margin = m /\ Len(shell'.typed) = K - 1
          /\ \A i \in 1 .. Len(shell'.typed) : shell'.typed[i] = shell.typed[i]
      BY <1>1, <2>1, <3>1, <3>2, EraseLine
    <3>4. term' \in Screens
      <4>1. "bs" \in Chars \ {"tab", "cr"}
        BY <3>2 DEF Chars
      <4> QED BY <1>1, <3>2, <4>1, PutcharOnScreen
    <3>5. ASSUME ~m PROVE Shows(term', text2)
      <4>1. /\ shell.typed \in Seq(Plain) /\ shell.typed \in Seq(Chars) /\ K \in Nat /\ K > 0
            /\ Prompt \in Seq(Chars) /\ L \in Nat
        <5>1. Plain \subseteq Chars
          BY TextChars
        <5>2. shell.typed \in Seq(Plain) /\ K = shell.len
          BY <1>1 DEF LineInv, Lines
        <5> QED BY <2>1, <5>1, <5>2, LineSizes
      <4>2. text \in Seq(Chars) /\ Len(text) = L + K /\ Len(text) # 0
        BY <4>1
      <4>3. Shows(term, text) /\ term.column # 0
        BY <3>2, <3>5 DEF m, ScreenInv
      <4>4. Shows(term', less)
        BY <1>1, <3>2, <4>2, <4>3, BackspaceShows
      <4>5. /\ Len(less) = L + (K - 1) /\ L + (K - 1) \in Nat
            /\ \A i \in 1 .. L + (K - 1) : less[i] = text[i]
        <5>1. Len(text) - 1 = L + (K - 1) /\ Len(text) - 1 \in Nat /\ Len(text) - 1 <= Len(text)
          <6> HIDE DEF text, L, K
          <6> QED BY <4>1, <4>2
        <5> HIDE DEF text
        <5> QED BY <4>2, <5>1, Prefix
      <4>6. shell'.typed \in Seq(Plain)
        BY <3>3 DEF LineInv, Lines
      <4>7. Len(text2) = L + (K - 1)
        <5>1. Len(text2) = Len(Prompt) + Len(shell'.typed)
          BY <4>1, <4>6
        <5> HIDE DEF text2, L, K
        <5> QED BY <3>3, <5>1 DEF L
      <4>8. \A i \in 1 .. L + (K - 1) : text2[i] = text[i]
        <5> SUFFICES ASSUME NEW i \in 1 .. L + (K - 1) PROVE text2[i] = text[i]
          OBVIOUS
        <5>1. CASE i <= L
          BY <4>1, <4>6, <5>1
        <5>2. CASE ~(i <= L)
          <6>1. i - L \in 1 .. K - 1 /\ i \in L + 1 .. L + K
            <7> HIDE DEF L, K
            <7> QED BY <4>1, <5>2
          <6>2. text[i] = shell.typed[i - L]
            BY <4>1, <6>1
          <6>3. text2[i] = shell'.typed[i - L]
            BY <3>3, <4>1, <4>6, <6>1
          <6>4. shell'.typed[i - L] = shell.typed[i - L]
            BY <3>3, <6>1
          <6> QED BY <6>2, <6>3, <6>4
        <5> QED BY <5>1, <5>2
      <4> HIDE DEF text, less, text2, L, K
      <4>9. /\ Len(less) \in Nat /\ Len(text2) = Len(less)
            /\ \A i \in 1 .. Len(less) : text2[i] = less[i]
        BY <4>5, <4>7, <4>8
      <4> QED BY <4>4, <4>9, ShowsSame
    <3> QED BY <3>3, <3>4, <3>5 DEF ScreenInv
  <2>2. CASE ~(shell.len > 0)
    BY <1>6, <2>2 DEF shell_backspace, shellVars, ScreenInv
  <2> QED BY <2>1, <2>2
<1>7. ASSUME NEW c \in Inputs, shell_type(c) PROVE ScreenInv'
  <2>1. c \in Plain /\ ~line_full /\ shell.pc = "read" /\ term' = terminal_putchar(term, c)
    BY <1>7 DEF shell_type, shell_is_printable, Plain, Reading
  <2>2. /\ shell'.typed = Append(shell.typed, c) /\ shell'.margin = shell.margin
    BY <1>1, <1>7, <2>1, TypeLine DEF shell_type
  <2>3. c \in Chars /\ c \notin Controls \cup {"tab"} /\ c \in Chars \ {"tab", "cr"}
    BY <2>1, TextChars DEF Printed
  <2>4. term' \in Screens
    BY <1>1, <2>1, <2>3, PutcharOnScreen
  <2>5. ASSUME ~shell.margin PROVE Shows(term', Prompt \o shell'.typed)
    <3> DEFINE text == Prompt \o shell.typed
               L == Len(Prompt)
               K == Len(shell.typed)
    <3>1. /\ shell.typed \in Seq(Chars) /\ K \in Nat /\ K < SHELL_LINE_MAX - 1
          /\ Prompt \in Seq(Chars) /\ L \in Nat /\ L + SHELL_LINE_MAX <= LastRow
      <4>1. Plain \subseteq Chars
        BY TextChars
      <4>2. shell.typed \in Seq(Plain) /\ K = shell.len
        BY <1>1 DEF LineInv, Lines
      <4>3. shell.len < SHELL_LINE_MAX - 1
        BY <1>1, <2>1, LineSizes DEF line_full, LineInv, Lines
      <4> QED BY <4>1, <4>2, <4>3, LineSizes
    <3>2. text \in Seq(Chars) /\ Len(text) = L + K
      BY <3>1
    <3>3. Len(text) + 1 <= LastRow
      <4> HIDE DEF text, L, K
      <4> QED BY <3>1, <3>2, LineSizes, ScreenSizes
    <3>4. Shows(term, text)
      BY <2>1, <2>5 DEF ScreenInv
    <3>5. Shows(term', Append(text, c))
      BY <1>1, <2>1, <2>3, <3>2, <3>3, <3>4, PlainShows
    <3>6. Append(text, c) = Prompt \o Append(shell.typed, c)
      <4>1. Prompt \in Seq(Chars) /\ shell.typed \in Seq(Chars) /\ c \in Chars
        BY <2>3, <3>1
      <4>2. Append(Prompt \o shell.typed, c) = Prompt \o Append(shell.typed, c)
        BY ONLY <4>1, AppendToLine, Zenon
      <4> QED BY <4>2
    <3> QED BY <2>2, <3>5, <3>6
  <2> QED BY <2>1, <2>2, <2>4, <2>5 DEF ScreenInv
<1>8. CASE UNCHANGED shellVars
  BY <1>8 DEF shellVars, ScreenInv
<1> QED BY <1>4, <1>5, <1>6, <1>7, <1>8 DEF ShellNext, shell_ignore

(* The screen invariant holds in every state when no tab is typed.         *)
THEOREM ShellScreen == PlainTexts /\ ShellSpec => []ScreenInv
<1> SUFFICES ASSUME PlainTexts PROVE ShellSpec => []ScreenInv
  OBVIOUS
<1>1. ShellInit => ScreenInv
  BY InitialTerminal DEF ShellInit, ScreenInv
<1>2. TypedInv /\ ScreenInv /\ [ShellNext]_shellVars => ScreenInv'
  BY ScreenStep
<1> QED BY <1>1, <1>2, ShellInvariant, PTL DEF ShellSpec

(* The hardware cursor is at terminal_row and terminal_column, on the      *)
(* screen, through every wrap, scroll, command and erasing, and no         *)
(* character is written past the buffer, when no tab is typed.             *)
THEOREM ShellCursor == PlainTexts /\ ShellSpec => []CursorShowsPosition
<1>1. ScreenInv => CursorShowsPosition
  <2> SUFFICES ASSUME ScreenInv PROVE CursorShowsPosition
    OBVIOUS
  <2>1. /\ ~term.fault /\ term.row \in Nat /\ term.column \in Nat /\ term.row < VGA_HEIGHT
        /\ term.column < VGA_WIDTH /\ term.cursor = term.row * VGA_WIDTH + term.column
    BY DEF ScreenInv, Screens, OnScreen, AtCursor, Terminals
  <2> DEFINE cell == term.row * VGA_WIDTH + term.column
  <2>2. cell \div VGA_WIDTH = term.row /\ cell % VGA_WIDTH = term.column
    BY <2>1, ScreenSizes, DivUnique
  <2> HIDE DEF cell
  <2>3. term.cursor = cell
    BY <2>1 DEF cell
  <2> QED BY <2>1, <2>2, <2>3 DEF CursorShowsPosition
<1> QED BY <1>1, ShellScreen, PTL

(* The cells before the cursor hold the prompt and the line being edited,  *)
(* and nothing follows them, through every wrap, scroll and command, until *)
(* a character is erased in the first column, when no tab is typed.        *)
THEOREM ShellEcho == PlainTexts /\ ShellSpec => []EchoUntilErasedAtMargin
<1>1. TypedInv /\ ScreenInv => EchoUntilErasedAtMargin
  <2> SUFFICES ASSUME TypedInv, ScreenInv, ~shell.margin, shell.pc = "read"
               PROVE  EchoShowsLine
    BY DEF EchoUntilErasedAtMargin, EchoShowsLine
  <2> DEFINE text == Prompt \o shell.typed
             L == Len(text)
  <2>1. CString(shell.line) = shell.typed
    BY LineIsTyped DEF TypedInv
  <2>2. Shows(term, text)
    BY DEF ScreenInv
  <2>3. L \in Nat /\ DOMAIN text = 1 .. L
    <3>1. shell.typed \in Seq(Plain) /\ Prompt \in Seq(Chars)
      BY LineSizes DEF TypedInv, LineInv, Lines
    <3> QED BY <3>1
  <2> HIDE DEF text, L
  <2>4. term.cursor \in Nat /\ \A i \in term.cursor .. ScreenEnd - 1 : term.cells[i] = Blank
    BY DEF ScreenInv, Screens, OnScreen, Terminals
  <2>5. L <= term.cursor /\ \A i \in 1 .. L : term.cells[term.cursor - L + i - 1] = text[i]
    BY <2>2 DEF Shows, L
  <2>6. term.cursor - L >= 0
    BY <2>3, <2>4, <2>5
  <2> QED BY <2>1, <2>3, <2>4, <2>5, <2>6 DEF EchoShowsLine, text, L, ScreenEnd
<1> QED BY <1>1, ShellInvariant, ShellScreen, PTL
=============================================================================
