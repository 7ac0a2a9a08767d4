-------------------------------- MODULE Libc --------------------------------
(***************************************************************************)
(* The kernel's C library: printf (libc/stdio/printf.c).                   *)
(*                                                                         *)
(* A character is a string; a piece of text whose spelling does not matter *)
(* is one character.  An argument has a number n (for %u, %d, %x, %p) and  *)
(* a text s (for %c, its first character, and %s).  printf runs one        *)
(* iteration of its loop per step.  putchar writes to the terminal and     *)
(* never fails, so print does not either.                                  *)
(***************************************************************************)
EXTENDS Integers, Sequences, SequencesExt

CONSTANT WORD   \* 2^32

ASSUME LibcSizes == WORD \in Nat /\ WORD > 1 /\ WORD % 2 = 0

VARIABLE pf     \* the printf call in progress and all that was printed

INT_MAX == WORD \div 2 - 1
EndOfText == "NUL"

(***************************************************************************)
(* Numbers.                                                                *)
(***************************************************************************)
DigitChar(d) == <<"0", "1", "2", "3", "4", "5", "6", "7", "8", "9",
                  "a", "b", "c", "d", "e", "f">>[d + 1]

(* The buffer has room for 31 digits, more than any word has in base 10.   *)
print_uint(value, base) ==
  LET digits[v \in 0 .. WORD - 1] ==
        IF v = 0 THEN <<>> ELSE Append(digits[v \div base], DigitChar(v % base))
  IN  IF value = 0 THEN <<"0">> ELSE digits[value]

AsInt(word) == IF word > INT_MAX THEN word - WORD ELSE word

(* Mutant: the one that keeps INT_MIN in range is not added back.          *)
Bug_Magnitude(value) == -(value + 1)

Magnitude(value) == (-(value + 1) + 1) % WORD

print_int(value) ==
  IF value < 0 THEN <<"-">> \o print_uint(Magnitude(value), 10)
               ELSE print_uint(value, 10)

(***************************************************************************)
(* printf.                                                                 *)
(***************************************************************************)
PfIdle == [pc |-> "idle", fmt |-> <<>>, at |-> 1, args |-> <<>>, out |-> <<>>,
           written |-> 0, ret |-> 0]

(* A call adds to what is already on the terminal.                         *)
PfCall(fmt, args, out) ==
  [PfIdle EXCEPT !.pc = "run", !.fmt = fmt, !.args = args, !.out = out]

CharAt(k) == IF k <= Len(pf.fmt) THEN pf.fmt[k] ELSE EndOfText
maxrem == INT_MAX - pf.written
PfFails == [pf EXCEPT !.pc = "done", !.ret = -1]

(* Of "%%" the second character is printed.                               *)
LiteralStart == IF CharAt(pf.at) = "%" THEN pf.at + 1 ELSE pf.at

IsLiteral == CharAt(pf.at) # "%" \/ CharAt(pf.at + 1) = "%"

printf_literal ==
  /\ pf.pc = "run" /\ CharAt(pf.at) # EndOfText /\ IsLiteral
  /\ LET first  == LiteralStart
         next   == CHOOSE k \in first + 1 .. Len(pf.fmt) + 1 :
                     /\ CharAt(k) \in {"%", EndOfText}
                     /\ \A j \in first + 1 .. k - 1 : CharAt(j) # "%"
         amount == next - first
     IN  pf' = IF maxrem < amount THEN PfFails
               ELSE [pf EXCEPT !.at = next, !.written = @ + amount,
                               !.out = @ \o SubSeq(pf.fmt, first, next - 1)]

(* What the conversion c prints for the argument a; an unknown one prints  *)
(* its % only, and its letter follows as literal text.                     *)
Converted(c, a) ==
  CASE c = "c" -> SubSeq(a.s, 1, 1)
    [] c = "s" -> a.s
    [] c = "u" -> print_uint(a.n, 10)
    [] c = "d" -> print_int(AsInt(a.n))
    [] c = "x" -> print_uint(a.n, 16)
    [] c = "p" -> <<"0", "x">> \o print_uint(a.n, 16)
    [] OTHER   -> <<"%">>

(* What the conversion adds to the result.                                 *)
Counted(c, text) == IF c \in {"s", "u"} THEN Len(text) ELSE 1

printf_conversion ==
  /\ pf.pc = "run" /\ CharAt(pf.at) # EndOfText /\ ~IsLiteral
  /\ LET c     == CharAt(pf.at + 1)
         known == c \in {"c", "s", "u", "d", "x", "p"}
         text  == Converted(c, IF known THEN Head(pf.args) ELSE <<>>)
         room  == CASE c = "s" -> Len(text)
                    [] c \in {"u", "d", "x", "p"} -> 0   \* not checked
                    [] OTHER -> 1
     IN  pf' = IF maxrem < room THEN PfFails
               ELSE [pf EXCEPT !.at = IF known THEN @ + 2 ELSE @ + 1,
                               !.args = IF known THEN Tail(@) ELSE @,
                               !.out = @ \o text,
                               !.written = @ + Counted(c, text)]

printf_return ==
  /\ pf.pc = "run" /\ CharAt(pf.at) = EndOfText
  /\ pf' = [pf EXCEPT !.pc = "done", !.ret = pf.written]

printf_step == printf_literal \/ printf_conversion \/ printf_return

(***************************************************************************)
(* What printf should print, for a format given as a list of directives:   *)
(* [kind |-> "text" | "%" | a conversion | "other", arg |-> argument].     *)
(***************************************************************************)
Spelled(d) ==
  CASE d.kind = "text"  -> d.arg.s
    [] d.kind = "other" -> <<"%">> \o d.arg.s
    [] OTHER            -> <<"%", d.kind>>

FormatOf(ds) == FlattenSeq([k \in DOMAIN ds |-> Spelled(ds[k])])

ArgsOf(ds) ==
  LET takes(d) == d.kind \in {"c", "s", "u", "d", "x", "p"}
      taken == SelectSeq(ds, takes)
  IN  [k \in DOMAIN taken |-> taken[k].arg]

(* The numeral of v: the digits without a leading zero whose value is v.   *)
Numerals ==
  LET Value(s, base) == FoldLeft(LAMBDA acc, d : acc * base + d, 0, s)
      Candidates(base) == {s \in UNION {[1 .. n -> 0 .. base - 1] : n \in 1 .. 2} :
                             Len(s) > 1 => s[1] # 0}
  IN  [base \in {10, 16} |-> [v \in 0 .. WORD - 1 |->
         LET s == CHOOSE s \in Candidates(base) : Value(s, base) = v
         IN  [k \in DOMAIN s |-> DigitChar(s[k])]]]

Expected(d) ==
  CASE d.kind \in {"text", "s"} -> d.arg.s
    [] d.kind = "%"     -> <<"%">>
    [] d.kind = "other" -> <<"%">> \o d.arg.s
    [] d.kind = "c"     -> SubSeq(d.arg.s, 1, 1)
    [] d.kind = "u"     -> Numerals[10][d.arg.n]
    [] d.kind = "d"     -> IF d.arg.n > INT_MAX THEN <<"-">> \o Numerals[10][WORD - d.arg.n]
                           ELSE Numerals[10][d.arg.n]
    [] d.kind = "x"     -> Numerals[16][d.arg.n]
    [] d.kind = "p"     -> <<"0", "x">> \o Numerals[16][d.arg.n]

ExpectedText(ds) == FlattenSeq([k \in DOMAIN ds |-> Expected(ds[k])])
=============================================================================
