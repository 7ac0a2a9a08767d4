----------------------------- MODULE CharQueue -----------------------------
(***************************************************************************)
(* What the keyboard driver promises the shell: a bounded queue of         *)
(* characters.  A character put into a full queue is dropped; every other  *)
(* one is taken exactly once, in order, and delivered as it was put.       *)
(***************************************************************************)
EXTENDS Naturals, Sequences

CONSTANTS Capacity, Chars

VARIABLES
  q,     \* the characters waiting
  hand   \* the one taken and not yet delivered, <<>> if none

qVars == <<q, hand>>

QInit == q = << >> /\ hand = << >>

Put(c) ==
  /\ q' = IF Len(q) < Capacity THEN Append(q, c) ELSE q
  /\ UNCHANGED hand

Take ==
  /\ q # << >>
  /\ hand = << >>
  /\ hand' = <<Head(q)>>
  /\ q' = Tail(q)

Deliver(c) ==
  /\ hand = <<c>>
  /\ hand' = << >>
  /\ UNCHANGED q

QNext == (\E c \in Chars : Put(c) \/ Deliver(c)) \/ Take

QSpec == QInit /\ [][QNext]_qVars
=============================================================================
