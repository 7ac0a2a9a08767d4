------------------------------- MODULE Shell -------------------------------
(***************************************************************************)
(* The shell of kernel/arch/i386/shell/shell.c on the terminal of tty.c.   *)
(*                                                                         *)
(* One step is one iteration of the inner loop of shell_run: a character   *)
(* from keyboard_getchar (what CharQueue delivers), the change of          *)
(* shell_line, the echo and, on Enter, the command with all it prints and  *)
(* the next prompt.  shell_line is the array of the code, read as a C      *)
(* string; typed is a history variable, the line the user believes to have *)
(* entered, and margin whether one was erased in column 0 since the prompt.*)
(***************************************************************************)
EXTENDS Tty

CONSTANTS
  SHELL_LINE_MAX,   \* 128
  Inputs,           \* the characters the keyboard delivers
  Banner, Prompt,   \* texts, as sequences of characters
  Commands,         \* command line -> what it prints
  PFAULT,           \* the command that faults on purpose
  Unknown, Hint     \* the two parts of the answer to any other line

Controls == {"nl", "bs", "esc", "cr"}
NUL == "nul"

ASSUME ShellSizes ==
  /\ SHELL_LINE_MAX \in Nat /\ SHELL_LINE_MAX > 1
  /\ NUL \notin Inputs
  /\ Len(Prompt) + SHELL_LINE_MAX <= VGA_WIDTH * (VGA_HEIGHT - 1)
  /\ PFAULT \in DOMAIN Commands

Texts == {Banner, Prompt, Unknown, Hint} \cup {Commands[line] : line \in DOMAIN Commands}

(* What may be on the screen.                                              *)
Chars == Inputs \cup {Blank, "nl"} \cup UNION {{text[i] : i \in DOMAIN text} : text \in Texts}

ASSUME ShellTexts == Texts \subseteq Seq(Chars)

VARIABLES
  term,    \* the terminal
  shell    \* shell_line, shell_line_len, where shell_run is, history

shellVars == <<term, shell>>

shell_is_printable(c) == c \notin Controls

(* The C string in the array: what shell_execute is given.                 *)
CString(line) ==
  LET len == Min({i \in DOMAIN line : line[i] = NUL} \cup {SHELL_LINE_MAX})
  IN  [i \in 1 .. len |-> line[i - 1]]

(* Mutant: the length is not reset.                                        *)
Bug_shell_reset_line(s) ==
  [s EXCEPT !.line[0] = NUL, !.typed = << >>, !.margin = FALSE]

shell_reset_line(s) ==
  [s EXCEPT !.len = 0, !.line[0] = NUL, !.typed = << >>, !.margin = FALSE]

(* What a command prints: nothing for an empty line.                       *)
shell_execute(line) ==
  IF line = << >> THEN << >>
  ELSE IF line \in DOMAIN Commands THEN Commands[line]
  ELSE Unknown \o line \o Hint

(***************************************************************************)
(* The state machine.                                                      *)
(***************************************************************************)
ShellInit ==
  /\ term = terminal_initialize
  /\ shell = [line |-> [i \in 0 .. SHELL_LINE_MAX - 1 |-> NUL], len |-> 0,
              pc |-> "start", typed |-> << >>, margin |-> FALSE]

shell_run ==
  /\ shell.pc = "start"
  /\ term' = terminal_write(term, Banner \o Prompt)
  /\ shell' = [shell_reset_line(shell) EXCEPT !.pc = "read"]

Reading == shell.pc = "read" /\ ~term.fault

shell_enter ==
  /\ Reading
  /\ "nl" \in Inputs
  /\ LET line == CString([shell.line EXCEPT ![shell.len] = NUL])
         out == <<"nl">> \o shell_execute(line)
     IN  IF line = PFAULT
         THEN /\ term' = terminal_write(term, out)
              /\ shell' = [shell EXCEPT !.pc = "halted"]
         ELSE /\ term' = terminal_write(term, out \o Prompt)
              /\ shell' = shell_reset_line(shell)

shell_backspace ==
  /\ Reading
  /\ "bs" \in Inputs
  /\ IF shell.len > 0
     THEN /\ shell' = [shell EXCEPT !.len = @ - 1,
                                    !.line[shell.len - 1] = NUL,
                                    !.typed = Front(@),
                                    !.margin = @ \/ term.column = 0]
          /\ term' = terminal_putchar(term, "bs")
     ELSE UNCHANGED shellVars

(* Mutant: the room for the NUL is forgotten.                              *)
Bug_line_full == shell.len >= SHELL_LINE_MAX

line_full == shell.len >= SHELL_LINE_MAX - 1

(* Escape and a character for which there is no room change nothing.       *)
shell_ignore(c) ==
  /\ Reading
  /\ c \notin {"nl", "bs"}
  /\ ~shell_is_printable(c) \/ line_full
  /\ UNCHANGED shellVars

shell_type(c) ==
  /\ Reading
  /\ shell_is_printable(c)
  /\ ~line_full
  /\ shell' = [shell EXCEPT !.line[shell.len] = c, !.line[shell.len + 1] = NUL,
                            !.len = @ + 1, !.typed = Append(@, c)]
  /\ term' = terminal_putchar(term, c)

ShellNext ==
  \/ shell_run
  \/ shell_enter
  \/ shell_backspace
  \/ \E c \in Inputs : shell_ignore(c) \/ shell_type(c)

ShellSpec == ShellInit /\ [][ShellNext]_shellVars

(***************************************************************************)
(* Properties.                                                             *)
(***************************************************************************)
(* Types: shell_line_len always leaves room for the closing NUL, and so    *)
(* stays below SHELL_LINE_MAX (see LongestLineIsTaken).                    *)
ShellTypeOK ==
  /\ shell.len \in 0 .. SHELL_LINE_MAX - 1
  /\ shell.line \in [0 .. SHELL_LINE_MAX - 1 -> Inputs \cup {NUL}]
  /\ term \in [row : Nat, column : Nat, cursor : Nat, fault : BOOLEAN,
               cells : [Cells -> Chars]]

(* What the comment on SHELL_LINE_MAX says: it is the length of the        *)
(* longest line without the closing NUL, so a shorter line always takes    *)
(* one more character.  It does not: shell_line has no room for both.      *)
LongestLineIsTaken ==
  Reading /\ Len(shell.typed) < SHELL_LINE_MAX => ~line_full

(* Enter would hand to shell_execute exactly what was typed since the      *)
(* prompt and not erased: no rest of an earlier, longer line shows         *)
(* through, also when the line was filled to its limit.                    *)
ExecutesWhatWasTyped ==
  shell.pc = "read" => CString([shell.line EXCEPT ![shell.len] = NUL]) = shell.typed

(* The hardware cursor is at terminal_row and terminal_column: the row and *)
(* the column never leave the screen, through wraps, scrolls and erasing,  *)
(* and no character is written past the buffer.                            *)
CursorShowsPosition ==
  /\ ~term.fault
  /\ term.row < VGA_HEIGHT
  /\ term.cursor \div VGA_WIDTH = term.row
  /\ term.cursor % VGA_WIDTH = term.column

(* The screen shows the line being edited: the cells up to the cursor hold *)
(* the prompt and the characters of shell_line, and nothing follows them.  *)
EchoShowsLine ==
  shell.pc = "read" =>
    LET text == Prompt \o CString(shell.line)
        from == term.cursor - Len(text)
    IN  /\ from >= 0
        /\ \A i \in DOMAIN text : term.cells[from + i - 1] = text[i]
        /\ \A i \in term.cursor .. VGA_WIDTH * VGA_HEIGHT - 1 : term.cells[i] = Blank

(* So it is through every wrap, scroll and command, until a character is   *)
(* erased while the cursor stands in the first column.                     *)
EchoUntilErasedAtMargin == ~shell.margin => EchoShowsLine
=============================================================================
