---------------------------- MODULE Descriptors ----------------------------
(***************************************************************************)
(* The segment and gate descriptors of gdt.c and idt.c.  A machine word is *)
(* the set of its one bits, so that |, & and the shifts are set operations *)
(* at the words' real widths.                                              *)
(***************************************************************************)
EXTENDS Integers

Shl(w, k) == {b + k : b \in w}
Shr(w, k) == {b - k : b \in {c \in w : c >= k}}
Field(w, low, high) == Shr(w \cap (low .. high), low)

(* Mutant: bits 16 to 23 of the base are not shifted down.                 *)
Bug_BaseMiddle(base) == base \cap (16 .. 23)

BaseMiddle(base) == Field(base, 16, 23)

(* The low half takes all of base, not only its low 16 bits.               *)
create_descriptor(base, limit, flag) ==
  LET high == (limit \cap (16 .. 19)) \cup (Shl(flag, 8) \cap ((8 .. 15) \cup (20 .. 23)))
                \cup BaseMiddle(base) \cup (base \cap (24 .. 31))
      descriptor == Shl(high, 32) \cup Shl(base, 16) \cup (limit \cap (0 .. 15))
  IN  [limit_low |-> Field(descriptor, 0, 15), base_low |-> Field(descriptor, 16, 31),
       base_middle |-> Field(descriptor, 32, 39), access |-> Field(descriptor, 40, 47),
       granularity |-> Field(descriptor, 48, 55), base_high |-> Field(descriptor, 56, 63)]

Byte6(limit, flags) == Field(limit, 16, 19) \cup (Shr(flags, 8) \cap (4 .. 7))

(* Bytes 0 to 7 are the fields of the entry in order; a limit of more than *)
(* 20 bits is refused and leaves the target as it was.                     *)
encodeGdtEntry(target, base, limit, flags) ==
  IF ~(limit \subseteq 0 .. 19) THEN target ELSE
  [limit_low |-> Field(limit, 0, 15), base_low |-> Field(base, 0, 15),
   base_middle |-> Field(base, 16, 23), access |-> Field(flags, 0, 7),
   granularity |-> Byte6(limit, flags), base_high |-> Field(base, 24, 31)]

(* The flags of gdt.h: code or data, present, 32 bits, 4 KiB units, and    *)
(* execute/read or read/write.                                             *)
Segment == {4, 7, 14, 15}
SEG_PRIV(level) == IF level = 3 THEN {5, 6} ELSE {}
SEG_CODE_EXRD == {1, 3}
SEG_DATA_RDWR == {1}

NullEntry == create_descriptor({}, {}, {})

(* What gdt_init puts in the table.                                        *)
GdtTable ==
  LET all == 0 .. 31
      flat(level, type) == create_descriptor({}, all, Segment \cup SEG_PRIV(level) \cup type)
  IN  [i \in 0 .. 4 |->
         CASE i = 0 -> NullEntry
           [] i = 1 -> flat(0, SEG_CODE_EXRD)
           [] i = 2 -> flat(0, SEG_DATA_RDWR)
           [] i = 3 -> flat(3, SEG_CODE_EXRD)
           [] i = 4 -> flat(3, SEG_DATA_RDWR)]

(* How the processor reads an entry.                                       *)
SegBase(e)  == e.base_low \cup Shl(e.base_middle, 16) \cup Shl(e.base_high, 24)
SegLimit(e) == e.limit_low \cup Shl(e.granularity \cap (0 .. 3), 16)
SegFlags(e) == e.access \cup Shl(e.granularity \cap (4 .. 7), 8)
KernelCode(e) == {3, 4, 7} \subseteq SegFlags(e) /\ SegFlags(e) \cap {5, 6} = {}
KernelData(e) == {1, 4, 7} \subseteq SegFlags(e) /\ SegFlags(e) \cap {3, 5, 6} = {}
=============================================================================
